------------------------- MODULE GattClient_proofs -------------------------
(***************************************************************************)
(* Proofs about GattClient, for every bound on the environment and every   *)
(* set of operations, and for both readings of Reentrant except where a    *)
(* theorem assumes one.                                                    *)
(***************************************************************************)
EXTENDS GattClient, BleClientBase_proofs, TLAPS

-----------------------------------------------------------------------------
(* Types, one lemma per thread.                                            *)

HostFlags == [busOpen : BOOLEAN, discovered : BOOLEAN,
              discovering : BOOLEAN, handleMap : BOOLEAN]

\* What the queues and the worker's stack are built of.
LEMMA Messages ==
  /\ Cmd("CONNECT") \in Command /\ Cmd("DISCONNECT") \in Command
  /\ \A kind \in LifecycleEvent : Ev(kind) \in Event
  /\ \A id \in Nat : Complete(id) \in Event
  /\ \A name \in CallName : Call(name) \in Frame
  /\ \A name \in CallName : \A rest \in Seq(Frame) : <<Call(name)>> \o rest \in Seq(Frame)
BY DEF Cmd, Ev, Complete, Call, Command, Event, Frame

LEMMA InitType == Init => TypeOK
<1> SUFFICES ASSUME Init PROVE TypeOK
  OBVIOUS
<1> DEFINE c == [state |-> "INIT", want |-> FALSE, services |-> 0,
                 host |-> NoHost, address |-> 1]
<1>1. NoHost \in Int
  BY DEF NoHost
<1>2. c \in Client
  BY <1>1 DEF Client, ClientState
<1>3. Setup(1) = SetState(c, "IDLE")
  BY DEF Setup
<1> HIDE DEF c
<1>4. client \in Client
  BY <1>2, <1>3, ClientOperators DEF Init, ClientState
<1>5. used \in [Actor -> Nat]
  BY DEF Init
<1>6. host \in HostFlags
  BY DEF Init, HostFlags
<1>7. dev \in [link : BOOLEAN, resolved : BOOLEAN]
  <2>1. \/ dev = [link |-> FALSE, resolved |-> FALSE]
        \/ dev = [link |-> TRUE, resolved |-> TRUE]
    BY Zenon DEF Init
  <2>2. \A x, y \in BOOLEAN :
           [link |-> x, resolved |-> y] \in [link : BOOLEAN, resolved : BOOLEAN]
    OBVIOUS
  <2>3. TRUE \in BOOLEAN /\ FALSE \in BOOLEAN
    OBVIOUS
  <2> QED
    BY <2>1, <2>2, <2>3, Zenon
<1>8. /\ drained \in Seq(Event) /\ commands \in Seq(Command) /\ events \in Seq(Event)
      /\ batch \in Seq(Command) /\ calls \in Seq(Frame) /\ signals \in Seq(Signal)
      /\ done \in Seq(Nat)
  BY DEF Init
<1>9. inLoop \in BOOLEAN
  BY DEF Init
<1> QED
  BY <1>4, <1>5, <1>6, <1>7, <1>8, <1>9 DEF TypeOK, HostFlags

LEMMA MainType == TypeOK /\ Main => TypeOK'
<1> SUFFICES ASSUME TypeOK, Main PROVE TypeOK'
  OBVIOUS
<1>1. client \in Client /\ DisconnectCommand(client) \in Seq(Command)
  BY Messages DEF TypeOK, DisconnectCommand
<1>2. ASSUME NEW a \in Actor, Spend(a)
      PROVE  used' \in [Actor -> Nat] /\ used'[a] \in Nat
  BY <1>2 DEF TypeOK, Spend
<1>3. CASE Advertise
  BY <1>1, <1>2, <1>3, ClientOperators
     DEF Advertise, TypeOK, workerVars, queueVars, bluezVars, Actor
<1>4. ASSUME ClientConnect, used' \in [Actor -> Nat] PROVE TypeOK'
  <2>1. client' \in Client
    BY <1>1, <1>4, ClientOperators DEF ClientConnect
  <2>2. commands' \in Seq(Command)
    BY <1>4, Messages DEF ClientConnect, TypeOK
  <2> QED
    BY <1>4, <2>1, <2>2 DEF ClientConnect, TypeOK, workerVars, bluezVars
<1>5. CASE TrackerConnect
  BY <1>4, <1>5 DEF TrackerConnect, TypeOK
<1>6. CASE UserConnect
  BY <1>2, <1>4, <1>6 DEF UserConnect, Actor
<1>7. CASE UserDisconnect
  BY <1>1, <1>2, <1>7, ClientOperators
     DEF UserDisconnect, TypeOK, workerVars, bluezVars, Actor
<1>8. ASSUME NEW kind \in OpKinds, IssueOp(kind) PROVE TypeOK'
  <2>1. used' \in [Actor -> Nat] /\ used'["op"] \in Nat
    BY <1>2, <1>8 DEF IssueOp, Actor
  <2>2. [kind |-> kind, id |-> used'["op"]] \in Command
    BY <2>1 DEF Command
  <2> QED
    BY <1>8, <2>1, <2>2 DEF IssueOp, TypeOK, mainVars, workerVars, bluezVars
<1>9. CASE LoopDrain
  BY <1>9 DEF LoopDrain, TypeOK, workerVars, bluezVars
<1>10. CASE DispatchEvent
  <2>1. Head(drained) \in Event /\ Tail(drained) \in Seq(Event)
    BY <1>10 DEF DispatchEvent, TypeOK
  <2>2. client' \in Client
    BY <1>1, <1>10, ClientOperators DEF DispatchEvent
  <2>3. done' \in Seq(Nat)
    BY <1>10, <2>1 DEF DispatchEvent, TypeOK, Event
  <2>4. commands' \in Seq(Command)
    BY <1>1, <1>10 DEF DispatchEvent, TypeOK
  <2> QED
    BY <1>10, <2>1, <2>2, <2>3, <2>4 DEF DispatchEvent, TypeOK, workerVars, bluezVars
<1>11. CASE LoopEnd
  BY <1>1, <1>11, ClientOperators
     DEF LoopEnd, ConnectTimeout, DisconnectTimeout, NoTimeoutDue, TypeOK,
         workerVars, bluezVars
<1> QED
  BY <1>3, <1>5, <1>6, <1>7, <1>8, <1>9, <1>10, <1>11 DEF Main

LEMMA BlueZType == TypeOK /\ BlueZ => TypeOK'
<1> SUFFICES ASSUME TypeOK, BlueZ PROVE TypeOK'
  OBVIOUS
<1>1. ASSUME NEW a \in Actor, Spend(a) PROVE used' \in [Actor -> Nat]
  BY <1>1 DEF TypeOK, Spend
<1>2. ASSUME NEW up \in BOOLEAN, SetLink(up)
      PROVE  dev' \in [link : BOOLEAN, resolved : BOOLEAN] /\ signals' \in Seq(Signal)
  BY <1>2 DEF SetLink, TypeOK, Signal
<1>3. CASE LinkDrops
  BY <1>1, <1>2, <1>3 DEF LinkDrops, TypeOK, mainVars, workerVars, queueVars, Actor
<1>4. CASE LinkRises
  BY <1>1, <1>2, <1>4 DEF LinkRises, TypeOK, mainVars, workerVars, queueVars, Actor
<1>5. CASE ServicesResolve
  <2>1. dev' \in [link : BOOLEAN, resolved : BOOLEAN]
    BY <1>5 DEF ServicesResolve, TypeOK
  <2>2. signals' \in Seq(Signal)
    BY <1>5 DEF ServicesResolve, TypeOK, Signal
  <2> QED
    BY <1>5, <2>1, <2>2 DEF ServicesResolve, TypeOK, mainVars, workerVars, queueVars
<1> QED
  BY <1>3, <1>4, <1>5 DEF BlueZ

\* The pieces of the worker's code between two blocking calls.
LEMMA WorkerPieces ==
  ASSUME TypeOK, NEW rest \in Seq(Frame)
  PROVE  /\ TryStartDiscovery(rest) \/ LinkCameUp(rest) \/ LinkWentDown(rest)
              => host' \in HostFlags /\ calls' \in Seq(Frame) /\ events' \in Seq(Event)
         /\ DoDisconnect(rest) => calls' \in Seq(Frame) /\ events' \in Seq(Event)
<1>1. host \in HostFlags /\ events \in Seq(Event)
  BY DEF TypeOK, HostFlags
<1>2. Append(events, Ev("CONNECTED")) \in Seq(Event)
      /\ Append(events, Ev("DISCONNECTED")) \in Seq(Event)
  BY <1>1, Messages DEF LifecycleEvent
<1>3. /\ <<Call("walk")>> \o rest \in Seq(Frame)
      /\ <<Call("pollResolved")>> \o rest \in Seq(Frame)
      /\ <<Call("disconnect")>> \o rest \in Seq(Frame)
  BY Messages DEF CallName
<1>4. ForgetDiscovery \in HostFlags /\ [host EXCEPT !.discovering = TRUE] \in HostFlags
  BY <1>1 DEF ForgetDiscovery, HostFlags
<1>5. TryStartDiscovery(rest)
        => host' \in HostFlags /\ calls' \in Seq(Frame) /\ events' \in Seq(Event)
  BY <1>1, <1>3, <1>4 DEF TryStartDiscovery
<1>6. LinkCameUp(rest)
        => host' \in HostFlags /\ calls' \in Seq(Frame) /\ events' \in Seq(Event)
  BY <1>1, <1>2, <1>3 DEF LinkCameUp, Post
<1>7. LinkWentDown(rest)
        => host' \in HostFlags /\ calls' \in Seq(Frame) /\ events' \in Seq(Event)
  BY <1>1, <1>2, <1>4 DEF LinkWentDown, Post
<1>8. DoDisconnect(rest) => calls' \in Seq(Frame) /\ events' \in Seq(Event)
  BY <1>1, <1>2, <1>3 DEF DoDisconnect, Post
<1> QED
  BY <1>5, <1>6, <1>7, <1>8

LEMMA WorkerType == TypeOK /\ Worker => TypeOK'
<1> SUFFICES ASSUME TypeOK, Worker PROVE TypeOK'
  OBVIOUS
<1>1. /\ host \in HostFlags /\ events \in Seq(Event) /\ calls \in Seq(Frame)
      /\ << >> \in Seq(Frame) /\ batch \in Seq(Command) /\ signals \in Seq(Signal)
  BY DEF TypeOK, HostFlags
<1>2. ASSUME host' \in HostFlags, calls' \in Seq(Frame), events' \in Seq(Event),
             batch' \in Seq(Command), commands' \in Seq(Command),
             dev' \in [link : BOOLEAN, resolved : BOOLEAN], signals' \in Seq(Signal),
             UNCHANGED <<mainVars, used>>
      PROVE  TypeOK'
  BY <1>2 DEF TypeOK, HostFlags, mainVars
<1>3. ASSUME NEW name, Returns(name) PROVE Tail(calls) \in Seq(Frame) /\ Head(calls) \in Frame
  BY <1>1, <1>3 DEF Returns
<1>4. CASE TakeCommands
  BY <1>4 DEF TakeCommands, TypeOK, mainVars, bluezVars
<1>5. CASE RunCommand
  <2>1. Head(batch) \in Command /\ Tail(batch) \in Seq(Command)
    BY <1>1, <1>5 DEF RunCommand
  <2>2. ASSUME DoConnect
        PROVE  host' \in HostFlags /\ calls' \in Seq(Frame) /\ events' \in Seq(Event)
    <3>1. [host EXCEPT !.busOpen = TRUE] \in HostFlags
      BY <1>1 DEF HostFlags
    <3>2. <<Call("getConnected")>> \in Seq(Frame)
      BY Messages DEF CallName
    <3> QED
      BY <1>1, <2>2, <3>1, <3>2 DEF DoConnect
  <2>3. ASSUME DoOp(Head(batch))
        PROVE  host' \in HostFlags /\ calls' \in Seq(Frame) /\ events' \in Seq(Event)
    <3>1. Head(batch).id \in Nat
      BY <2>1 DEF Command
    <3>2. [call |-> "op", id |-> Head(batch).id] \in Frame
          /\ Complete(Head(batch).id) \in Event
      BY <3>1, Messages DEF Frame, CallName
    <3>3. <<[call |-> "op", id |-> Head(batch).id]>> \in Seq(Frame)
          /\ Append(events, Complete(Head(batch).id)) \in Seq(Event)
      BY <1>1, <3>2
    <3> QED
      BY <1>1, <2>3, <3>3 DEF DoOp, Post
  <2>4. host' \in HostFlags /\ calls' \in Seq(Frame) /\ events' \in Seq(Event)
    BY <1>1, <1>5, <2>2, <2>3, WorkerPieces DEF RunCommand
  <2> QED
    BY <1>2, <1>5, <2>1, <2>4 DEF RunCommand, bluezVars, TypeOK
<1>6. CASE DeliverSignal
  <2>1. Tail(signals) \in Seq(Signal)
    BY <1>1, <1>6 DEF DeliverSignal
  <2>2. host' \in HostFlags /\ calls' \in Seq(Frame) /\ events' \in Seq(Event)
    BY <1>1, <1>6, WorkerPieces DEF DeliverSignal
  <2> QED
    BY <1>2, <1>6, <2>1, <2>2 DEF DeliverSignal, TypeOK
<1>7. CASE CallReturns
  <2>1. /\ Tail(calls) \in Seq(Frame) /\ Head(calls) \in Frame
        /\ \A name \in CallName : <<Call(name)>> \o Tail(calls) \in Seq(Frame)
    <3>1. \E name : Returns(name)
      BY <1>7 DEF CallReturns, GetConnectedReturns, ConnectSucceeds, ConnectFails,
                  PollConnectedReturns, PollResolvedReturns, WalkSucceeds, WalkFails,
                  GapReturns, MtuReturns, DisconnectReturns, OpReturns
    <3> QED
      BY <1>3, <3>1, Messages
  <2>2. ASSUME NEW up \in BOOLEAN, SetLink(up)
        PROVE  dev' \in [link : BOOLEAN, resolved : BOOLEAN] /\ signals' \in Seq(Signal)
    BY <2>2 DEF SetLink, TypeOK, Signal
  <2>3. /\ Append(events, Ev("DISCONNECTED")) \in Seq(Event)
        /\ Append(events, Ev("SERVICES_DISCOVERED")) \in Seq(Event)
        /\ Append(events, Complete(Head(calls).id)) \in Seq(Event)
    BY <1>1, <2>1, Messages DEF LifecycleEvent, Frame
  <2>4. CASE GetConnectedReturns
    <3>1. host' \in HostFlags /\ calls' \in Seq(Frame) /\ events' \in Seq(Event)
      BY <1>1, <2>1, <2>4, WorkerPieces DEF GetConnectedReturns, CallName
    <3> QED
      BY <1>2, <2>4, <3>1 DEF GetConnectedReturns, bluezVars, TypeOK
  <2>5. CASE ConnectSucceeds
    BY <1>1, <1>2, <2>1, <2>2, <2>5 DEF ConnectSucceeds, queueVars, TypeOK
  <2>6. CASE ConnectFails
    <3>1. host' \in HostFlags /\ calls' \in Seq(Frame) /\ events' \in Seq(Event)
      BY <1>1, <2>1, <2>6, WorkerPieces DEF ConnectFails, CallName
    <3> QED
      BY <1>2, <2>6, <3>1 DEF ConnectFails, bluezVars, TypeOK
  <2>7. CASE PollConnectedReturns
    <3>1. host' \in HostFlags /\ calls' \in Seq(Frame) /\ events' \in Seq(Event)
      BY <1>1, <2>1, <2>3, <2>7, WorkerPieces DEF PollConnectedReturns, Post
    <3> QED
      BY <1>2, <2>7, <3>1 DEF PollConnectedReturns, bluezVars, TypeOK
  <2>8. CASE PollResolvedReturns
    <3>1. host' \in HostFlags /\ calls' \in Seq(Frame) /\ events' \in Seq(Event)
      BY <1>1, <2>1, <2>8, WorkerPieces DEF PollResolvedReturns
    <3> QED
      BY <1>2, <2>8, <3>1 DEF PollResolvedReturns, bluezVars, TypeOK
  <2>9. CASE WalkSucceeds
    <3>1. host' \in HostFlags /\ calls' \in Seq(Frame)
      BY <1>1, <2>1, <2>9 DEF WalkSucceeds, HostFlags, CallName
    <3> QED
      BY <1>1, <1>2, <2>9, <3>1 DEF WalkSucceeds, queueVars, bluezVars, TypeOK
  <2>10. CASE WalkFails
    <3>1. host' \in HostFlags
      BY <1>1, <2>10 DEF WalkFails, HostFlags
    <3>2. calls' \in Seq(Frame) /\ events' \in Seq(Event)
      BY <2>1, <2>10, WorkerPieces DEF WalkFails
    <3> QED
      BY <1>2, <2>10, <3>1, <3>2 DEF WalkFails, bluezVars, TypeOK
  <2>11. CASE GapReturns
    <3>1. host' \in HostFlags /\ calls' \in Seq(Frame)
      BY <1>1, <2>1, <2>11 DEF GapReturns, HostFlags, CallName
    <3> QED
      BY <1>1, <1>2, <2>11, <3>1 DEF GapReturns, queueVars, bluezVars, TypeOK
  <2>12. CASE MtuReturns
    <3>1. host' \in HostFlags
      BY <1>1, <2>12 DEF MtuReturns, HostFlags
    <3> QED
      BY <1>2, <2>1, <2>3, <2>12, <3>1 DEF MtuReturns, Post, bluezVars, TypeOK
  <2>13. CASE DisconnectReturns
    BY <1>1, <1>2, <2>1, <2>2, <2>13 DEF DisconnectReturns, queueVars, bluezVars, TypeOK
  <2>14. CASE OpReturns
    BY <1>1, <1>2, <2>1, <2>3, <2>14 DEF OpReturns, Post, bluezVars, TypeOK
  <2> QED
    BY <1>7, <2>4, <2>5, <2>6, <2>7, <2>8, <2>9, <2>10, <2>11, <2>12, <2>13, <2>14
       DEF CallReturns
<1> QED
  BY <1>4, <1>5, <1>6, <1>7 DEF Worker

\* Queues, flags and the client record keep their shape under every
\* interleaving of the main thread, the worker and BlueZ.
THEOREM ClientTypeCorrect == Spec => []TypeOK
<1>1. TypeOK /\ UNCHANGED vars => TypeOK'
  BY DEF TypeOK, vars, mainVars, workerVars, queueVars, bluezVars
<1>2. TypeOK /\ [Next]_vars => TypeOK'
  BY <1>1, MainType, WorkerType, BlueZType DEF Next
<1> QED
  BY <1>2, InitType, PTL DEF Spec

-----------------------------------------------------------------------------
(***************************************************************************)
(* ClientInv.  An event makes the client ESTABLISHED, so the proof needs   *)
(* that loop() has something to dispatch only if there is a host_.         *)
(***************************************************************************)
HostBound == drained # << >> => client.host # NoHost

ClientInd == ClientInv /\ HostBound

\* The worker and BlueZ do not touch what belongs to the main thread.
LEMMA OthersKeepMain == Worker \/ BlueZ => UNCHANGED mainVars
BY DEF Worker, TakeCommands, RunCommand, DeliverSignal, CallReturns,
       GetConnectedReturns, ConnectSucceeds, ConnectFails, PollConnectedReturns,
       PollResolvedReturns, WalkSucceeds, WalkFails, GapReturns, MtuReturns,
       DisconnectReturns, OpReturns, BlueZ, LinkDrops, LinkRises, ServicesResolve

\* A client that is made anything but ESTABLISHED.
LEMMA NotEstablished ==
  ASSUME ClientInd, NEW d, client' = d, ClientConsistent(d), d.state # "ESTABLISHED",
         drained' # << >> => d.host # NoHost
  PROVE  ClientInd'
BY DEF ClientInd, ClientInv, ClientConsistent, HostBound

LEMMA MainClient == TypeOK /\ ClientInd /\ Main => ClientInd'
<1> SUFFICES ASSUME TypeOK, ClientInd, Main PROVE ClientInd'
  OBVIOUS
<1>1. client \in Client /\ ClientConsistent(client)
  BY DEF TypeOK, ClientInd, ClientInv
<1>2. ASSUME client' = client, drained' # << >> => client.host # NoHost
      PROVE  ClientInd'
  BY <1>2 DEF ClientInd, ClientInv, ClientConsistent, HostBound, Ready
<1>3. CASE Advertise
  <2>1. ParseDevice(client).state # "ESTABLISHED"
    BY <1>1, <1>3, HostAndTree DEF Advertise
  <2>2. ParseDevice(client).host = client.host
    BY <1>1, HostAndTree
  <2>3. drained' # << >> => ParseDevice(client).host # NoHost
    BY <1>3, <2>2 DEF Advertise, ClientInd, HostBound
  <2> QED
    BY <1>1, <1>3, <2>1, <2>3, ConsistentOperators, NotEstablished DEF Advertise
<1>4. CASE TrackerConnect \/ UserConnect
  <2>1. client' = Connect(client)
    BY <1>4 DEF TrackerConnect, UserConnect, ClientConnect
  <2> QED
    BY <1>1, <2>1, ConsistentOperators, HostAndTree, NotEstablished
<1>5. CASE UserDisconnect
  <2>1. client' = Disconnect(client) /\ drained' = drained
    BY <1>5 DEF UserDisconnect
  <2>2. drained' # << >> => Disconnect(client).host # NoHost
    BY <1>1, <2>1, HostAndTree DEF ClientInd, HostBound
  <2> QED
    BY <1>1, <2>1, <2>2, ConsistentOperators, HostAndTree, NotEstablished
<1>6. ASSUME NEW kind \in OpKinds, IssueOp(kind) PROVE ClientInd'
  BY <1>2, <1>6 DEF IssueOp, mainVars, ClientInd, HostBound
<1>7. CASE LoopDrain
  BY <1>2, <1>7 DEF LoopDrain
<1>8. CASE DispatchEvent
  <2>1. client.host # NoHost
    BY <1>8 DEF DispatchEvent, ClientInd, HostBound
  <2>2. \/ client' = OnConnected(client) \/ client' = OnServicesDiscovered(client, 1)
        \/ client' = OnDisconnected(client) \/ client' = client
    BY <1>8 DEF DispatchEvent
  <2>3. CASE client' = OnConnected(client)
    BY <1>1, <2>1, <2>3, ConsistentOperators, HostAndTree, NotEstablished
  <2>4. CASE client' = OnServicesDiscovered(client, 1)
    <3> DEFINE d == OnServicesDiscovered(client, 1)
    <3>1. ClientConsistent(d)
      BY <1>1, ConsistentOperators
    <3>2. d.host # NoHost /\ d.services = 1
      BY <1>1, <2>1, HostAndTree
    <3> HIDE DEF d
    <3> QED
      BY <2>4, <3>1, <3>2 DEF ClientInd, ClientInv, ClientConsistent, HostBound, Ready, d
  <2>5. CASE client' = OnDisconnected(client)
    BY <1>1, <2>1, <2>5, ConsistentOperators, HostAndTree, NotEstablished
  <2>6. CASE client' = client
    BY <1>2, <2>1, <2>6
  <2> QED
    BY <2>2, <2>3, <2>4, <2>5, <2>6
<1>9. CASE LoopEnd
  <2>1. drained' = << >> /\ (client' = OnDisconnected(client) \/ client' = client)
    BY <1>9 DEF LoopEnd, ConnectTimeout, DisconnectTimeout, NoTimeoutDue
  <2> QED
    BY <1>1, <1>2, <2>1, ConsistentOperators, HostAndTree, NotEstablished
<1> QED
  BY <1>3, <1>4, <1>5, <1>6, <1>7, <1>8, <1>9 DEF Main

\* No service tree and no deferred disconnect reaches an idle or armed client, no
\* deferred disconnect a CONNECTED one, and an ESTABLISHED client can always be read
\* from and written to.
THEOREM ClientStaysConsistent == Spec => []ClientInv
<1>1. Init => ClientInd
  BY DEF Init, ClientInd, ClientInv, ClientConsistent, HostBound, Setup, SetState
<1>2. UNCHANGED mainVars /\ ClientInd => ClientInd'
  BY DEF mainVars, ClientInd, ClientInv, ClientConsistent, HostBound, Ready
<1>3. TypeOK /\ ClientInd /\ [Next]_vars => ClientInd'
  BY <1>2, MainClient, OthersKeepMain DEF Next, vars
<1>4. ClientInd => ClientInv
  BY DEF ClientInd
<1> QED
  BY <1>1, <1>3, <1>4, ClientTypeCorrect, PTL DEF Spec
-----------------------------------------------------------------------------
(***************************************************************************)
(* The news of the link: DiscoveredTracksLink and DropIsReported.  `news'  *)
(* is what the worker has told the client and the client has not heard.    *)
(***************************************************************************)
news == drained \o events
Up   == {"CONNECTED", "ESTABLISHED"}

\* loop() leaves nothing undispatched behind.
LoopClean == ~inLoop => drained = << >>

\* Taking an event off the front or putting one on the back of the news.
LEMMA NewsSeq ==
  ASSUME TypeOK
  PROVE  /\ news \in Seq(Event) /\ drained \in Seq(Event) /\ events \in Seq(Event)
         /\ drained = << >> => news = events
         /\ drained # << >> => /\ news # << >> /\ Head(drained) = Head(news)
                               /\ Tail(drained) \o events = Tail(news)
         /\ \A e \in Event : drained \o Append(events, e) = Append(news, e)
<1>1. drained \in Seq(Event) /\ events \in Seq(Event)
  BY DEF TypeOK
<1> USE <1>1
<1>2. news \in Seq(Event)
  BY DEF news
<1>3. drained = << >> => news = events
  BY DEF news
<1>4. ASSUME drained # << >>
      PROVE  /\ news # << >> /\ Head(drained) = Head(news)
             /\ Tail(drained) \o events = Tail(news)
  <2>1. news # << >> /\ Head(drained) = Head(news)
    BY <1>4 DEF news
  <2>2. Tail(drained) \o events = Tail(news)
    BY <1>4 DEF news
  <2> QED
    BY <2>1, <2>2
<1>5. \A e \in Event : drained \o Append(events, e) = Append(news, e)
  BY DEF news
<1> QED
  BY <1>1, <1>2, <1>3, <1>4, <1>5

\* What loop() and the application's calls do to the news and to the state
\* the client shows.
LEMMA MainNews ==
  ASSUME TypeOK, LoopClean, Main
  PROVE  /\ LoopClean'
         /\ UNCHANGED <<workerVars, bluezVars>>
         /\ \/ news' = news /\ (client'.state \in Up => client.state \in Up)
            \/ /\ news # << >> /\ news' = Tail(news)
               /\ client'.state \in Up =>
                    \/ Head(news).kind \in {"CONNECTED", "SERVICES_DISCOVERED"}
                    \/ Head(news).kind = "COMPLETE" /\ client.state \in Up
<1>1. client \in Client
  BY DEF TypeOK
<1>2. /\ ParseDevice(client).state \in Up => client.state \in Up
      /\ Connect(client).state \notin Up
      /\ Disconnect(client).state \notin Up
      /\ OnDisconnected(client).state \notin Up
  BY <1>1 DEF ParseDevice, Connect, Disconnect, UnconditionalDisconnect, OnDisconnected,
              ReleaseServices, SetState, Client, Up
<1>3. UNCHANGED <<workerVars, bluezVars>>
  BY DEF Main, Advertise, TrackerConnect, UserConnect, ClientConnect, UserDisconnect,
         IssueOp, LoopDrain, DispatchEvent, LoopEnd, ConnectTimeout, DisconnectTimeout,
         NoTimeoutDue
<1>4. CASE Advertise \/ TrackerConnect \/ UserConnect \/ UserDisconnect
           \/ (\E kind \in OpKinds : IssueOp(kind))
  <2>1. UNCHANGED <<inLoop, drained, events>>
    BY <1>4 DEF Advertise, TrackerConnect, UserConnect, ClientConnect, UserDisconnect,
                IssueOp, queueVars, mainVars
  <2>2. \/ client' = ParseDevice(client) \/ client' = Connect(client)
        \/ client' = Disconnect(client) \/ client' = client
    BY <1>4 DEF Advertise, TrackerConnect, UserConnect, ClientConnect, UserDisconnect,
                IssueOp, mainVars
  <2> QED
    BY <1>2, <1>3, <2>1, <2>2 DEF LoopClean, news
<1>5. CASE LoopDrain
  <2>1. drained = << >> /\ inLoop' /\ client' = client
    BY <1>5 DEF LoopDrain, LoopClean
  <2>2. \/ drained' = events /\ events' = << >>
        \/ drained' = << >> /\ events' = events
    BY <1>5 DEF LoopDrain
  <2>3. news' = news
    BY <2>1, <2>2, NewsSeq DEF news
  <2> QED
    BY <1>3, <2>1, <2>3 DEF LoopClean
<1>6. CASE DispatchEvent
  <2>1. /\ inLoop /\ inLoop' = inLoop
        /\ drained # << >> /\ drained' = Tail(drained) /\ events' = events
    BY <1>6 DEF DispatchEvent
  <2>2. news # << >> /\ news' = Tail(news) /\ Head(drained) = Head(news)
    BY <2>1, NewsSeq DEF news
  <2>3. Head(drained) \in Event
    BY <2>1 DEF TypeOK
  <2>4. \/ Head(drained).kind \in {"CONNECTED", "SERVICES_DISCOVERED"}
        \/ Head(drained).kind = "DISCONNECTED" /\ client' = OnDisconnected(client)
        \/ Head(drained).kind = "COMPLETE" /\ client' = client
    BY <1>6, <2>3 DEF DispatchEvent, Event, LifecycleEvent
  <2> QED
    BY <1>2, <1>3, <2>1, <2>2, <2>4 DEF LoopClean
<1>7. CASE LoopEnd
  <2>1. /\ drained = << >> /\ UNCHANGED <<drained, events>>
        /\ client' = OnDisconnected(client) \/ client' = client
    BY <1>7 DEF LoopEnd, ConnectTimeout, DisconnectTimeout, NoTimeoutDue
  <2> QED
    BY <1>2, <1>3, <2>1 DEF LoopClean, news
<1> QED
  BY <1>4, <1>5, <1>6, <1>7 DEF Main

\* The parts of the worker's state the news depends on, after each step.
\* An event is posted at most, at the back of the news.
LEMMA WorkerNews ==
  ASSUME TypeOK, NEW e \in Event, drained' = drained, Post(e)
  PROVE  news' = Append(news, e)
BY NewsSeq DEF news, Post

LEMMA QuietNews ==
  ASSUME drained' = drained, events' = events
  PROVE  news' = news
BY DEF news

-----------------------------------------------------------------------------
(***************************************************************************)
(* BlueZ signals a change of the link only to a bus that is open.  Before  *)
(* do_connect_() has opened it the client has nothing to lose: the worker  *)
(* makes no call but an operation's, and no event claims a link.           *)
(***************************************************************************)
BusClosed ==
  ~host.busOpen =>
    /\ signals = << >> /\ ~host.discovered
    /\ \A i \in DOMAIN calls : calls[i].call = "op"
    /\ \A i \in DOMAIN news : news[i].kind \in {"DISCONNECTED", "COMPLETE"}
    /\ client.state \notin Up

\* open_bus_() is never undone.
LEMMA BusStaysOpen == TypeOK /\ host.busOpen /\ [Next]_vars => host'.busOpen
<1> SUFFICES ASSUME TypeOK, host.busOpen, [Next]_vars PROVE host'.busOpen
  OBVIOUS
<1>1. host \in HostFlags
  BY DEF TypeOK, HostFlags
<1>2. CASE Main \/ BlueZ \/ UNCHANGED vars
  BY <1>2 DEF Main, Advertise, TrackerConnect, UserConnect, ClientConnect, UserDisconnect,
         IssueOp, LoopDrain, DispatchEvent, LoopEnd, ConnectTimeout, DisconnectTimeout,
         NoTimeoutDue, BlueZ, LinkDrops, LinkRises, ServicesResolve, vars, workerVars
<1>3. CASE TakeCommands \/ RunCommand \/ DeliverSignal
  BY <1>1, <1>3 DEF TakeCommands, RunCommand, DoConnect, DoOp, DeliverSignal, LinkCameUp,
         LinkWentDown, ForgetDiscovery, TryStartDiscovery, HostFlags
<1>4. CASE CallReturns
  BY <1>1, <1>4 DEF CallReturns, GetConnectedReturns, ConnectSucceeds, ConnectFails,
         PollConnectedReturns, PollResolvedReturns, WalkSucceeds, WalkFails, GapReturns,
         MtuReturns, DisconnectReturns, OpReturns, LinkCameUp, TryStartDiscovery, HostFlags
<1> QED
  BY <1>2, <1>3, <1>4 DEF Next, Worker

\* A harmless event more, or one less, leaves the news harmless.
LEMMA HarmlessNews ==
  ASSUME NEW s \in Seq(Event),
         \A i \in DOMAIN s : s[i].kind \in {"DISCONNECTED", "COMPLETE"}
  PROVE  /\ \A e \in Event : e.kind \in {"DISCONNECTED", "COMPLETE"} =>
              \A i \in DOMAIN Append(s, e) :
                 Append(s, e)[i].kind \in {"DISCONNECTED", "COMPLETE"}
         /\ s # << >> => /\ Head(s).kind \in {"DISCONNECTED", "COMPLETE"}
                         /\ \A i \in DOMAIN Tail(s) :
                               Tail(s)[i].kind \in {"DISCONNECTED", "COMPLETE"}
OBVIOUS

LEMMA BusClosedStep ==
  ASSUME TypeOK, LoopClean, BusClosed, [Next]_vars
  PROVE  BusClosed'
<1> SUFFICES ASSUME ~host'.busOpen PROVE BusClosed'
  BY DEF BusClosed
<1>1. ~host.busOpen
  BY BusStaysOpen
<1>2. /\ signals = << >> /\ ~host.discovered
      /\ \A i \in DOMAIN calls : calls[i].call = "op"
      /\ \A i \in DOMAIN news : news[i].kind \in {"DISCONNECTED", "COMPLETE"}
      /\ client.state \notin Up
  BY <1>1 DEF BusClosed
<1>3. news \in Seq(Event) /\ calls \in Seq(Frame) /\ host \in HostFlags
  BY NewsSeq DEF TypeOK, HostFlags
<1>4. CASE Main
  <2>1. UNCHANGED <<calls, host, signals>> /\ client'.state \notin Up
    BY <1>2, <1>3, <1>4, MainNews, HarmlessNews DEF workerVars, bluezVars
  <2>2. \A i \in DOMAIN news' : news'[i].kind \in {"DISCONNECTED", "COMPLETE"}
    BY <1>2, <1>3, <1>4, MainNews, HarmlessNews
  <2> QED
    BY <1>2, <2>1, <2>2 DEF BusClosed
<1>5. CASE BlueZ
  <2>1. UNCHANGED <<calls, host, client, drained, events>> /\ signals' = signals
    BY <1>1, <1>5 DEF BlueZ, LinkDrops, LinkRises, ServicesResolve, SetLink, mainVars,
                      workerVars, queueVars
  <2> QED
    BY <1>2, <2>1, QuietNews DEF BusClosed
<1>6. CASE TakeCommands
  BY <1>2, <1>6, QuietNews DEF TakeCommands, BusClosed, mainVars, bluezVars
<1>7. CASE RunCommand
  <2>1. calls = << >> /\ Head(batch) \in Command /\ UNCHANGED <<mainVars, bluezVars>>
    BY <1>7 DEF RunCommand, TypeOK
  <2>2. /\ host' = host
        /\ \/ calls' = << >> /\ events' = events
           \/ calls' = << >> /\ Post(Ev("DISCONNECTED"))
           \/ calls' = << >> /\ Post(Complete(Head(batch).id))
           \/ calls' = <<[call |-> "op", id |-> Head(batch).id]>> /\ events' = events
    BY <1>1, <1>3, <1>7, <2>1 DEF RunCommand, DoConnect, DoDisconnect, DoOp, HostFlags
  <2>3. \A i \in DOMAIN calls' : calls'[i].call = "op"
    BY <2>2
  <2>4. \A i \in DOMAIN news' : news'[i].kind \in {"DISCONNECTED", "COMPLETE"}
    <3>1. Ev("DISCONNECTED") \in Event /\ Complete(Head(batch).id) \in Event
      BY <2>1, Messages DEF LifecycleEvent, Command
    <3>2. Ev("DISCONNECTED").kind = "DISCONNECTED"
          /\ Complete(Head(batch).id).kind = "COMPLETE"
      BY DEF Ev, Complete
    <3>3. \/ news' = news \/ news' = Append(news, Ev("DISCONNECTED"))
          \/ news' = Append(news, Complete(Head(batch).id))
      BY <2>1, <2>2, <3>1, WorkerNews, QuietNews DEF mainVars
    <3> QED
      BY <1>2, <1>3, <3>1, <3>2, <3>3, HarmlessNews
  <2> QED
    BY <1>2, <2>1, <2>2, <2>3, <2>4 DEF BusClosed, mainVars, bluezVars
<1>8. CASE DeliverSignal
  BY <1>2, <1>8 DEF DeliverSignal
<1>9. CASE CallReturns
  <2>1. calls # << >> => Head(calls).call = "op" /\ Head(calls) \in Frame
    BY <1>2, <1>3
  <2>2. OpReturns
    BY <1>9, <2>1 DEF CallReturns, Returns, GetConnectedReturns, ConnectSucceeds,
         ConnectFails, PollConnectedReturns, PollResolvedReturns, WalkSucceeds, WalkFails,
         GapReturns, MtuReturns, DisconnectReturns
  <2>3. /\ UNCHANGED <<mainVars, host, bluezVars>> /\ calls' = Tail(calls) /\ calls # << >>
        /\ Post(Complete(Head(calls).id))
    BY <2>2 DEF OpReturns, Returns
  <2>4. Complete(Head(calls).id) \in Event /\ Complete(Head(calls).id).kind = "COMPLETE"
    BY <2>1, <2>3, Messages DEF Complete, Frame
  <2>5. \A i \in DOMAIN news' : news'[i].kind \in {"DISCONNECTED", "COMPLETE"}
    BY <1>2, <1>3, <2>3, <2>4, WorkerNews, HarmlessNews DEF mainVars
  <2>6. \A i \in DOMAIN calls' : calls'[i].call = "op"
    BY <1>2, <1>3, <2>3
  <2> QED
    BY <1>2, <2>3, <2>5, <2>6 DEF BusClosed, mainVars, bluezVars
<1>10. CASE UNCHANGED vars
  BY <1>2, <1>10, QuietNews DEF BusClosed, vars, mainVars, workerVars, queueVars, bluezVars
<1> QED
  BY <1>4, <1>5, <1>6, <1>7, <1>8, <1>9, <1>10 DEF Next, Worker

-----------------------------------------------------------------------------
(***************************************************************************)
(* The invariant behind DiscoveredTracksLink and DropIsReported.  At every *)
(* stage between BlueZ and the client, what claims a link (a signal, the   *)
(* worker's walk and its discovered_ flag, an event, the state the client  *)
(* shows) is overtaken by the loss of that link only if the news of the    *)
(* loss is further back in the pipeline.                                   *)
(***************************************************************************)
Live == dev.link \/ Pending("Disconnected")
Claims == {"CONNECTED", "SERVICES_DISCOVERED"}

OneCall == Len(calls) <= 1
ResolvedIsLinked == dev.resolved => dev.link
SignalsHeeded ==
  \A i \in DOMAIN signals :
    signals[i] \in {"Connected", "ServicesResolved"} =>
      dev.link \/ \E j \in DOMAIN signals : j > i /\ signals[j] = "Disconnected"
WorkerHeeds == host.discovered \/ Walks # {} => Live
NewsHeeded ==
  \A i \in DOMAIN news :
    news[i].kind \in Claims =>
      Live \/ \E j \in DOMAIN news : j > i /\ news[j].kind = "DISCONNECTED"
ClientHeeds == client.state \in Up => Live \/ Queued("DISCONNECTED")

NewsInv ==
  /\ LoopClean /\ BusClosed /\ OneCall /\ ResolvedIsLinked
  /\ SignalsHeeded /\ WorkerHeeds /\ NewsHeeded /\ ClientHeeds

\* On a bus that was never opened nothing claims a link.
LEMMA NothingClaimed ==
  ASSUME BusClosed', ~host'.busOpen
  PROVE  (SignalsHeeded /\ WorkerHeeds /\ NewsHeeded /\ ClientHeeds)'
BY DEF BusClosed, SignalsHeeded, WorkerHeeds, NewsHeeded, ClientHeeds, Walks, Claims

\* The news with nothing, or one event, added.
LEMMA NewsAdded ==
  ASSUME TypeOK, NewsHeeded, ClientHeeds, Live => Live', client' = client,
         \/ news' = news
         \/ \E e \in Event : news' = Append(news, e) /\ (e.kind \in Claims => Live')
  PROVE  NewsHeeded' /\ ClientHeeds'
<1>1. CASE news' = news
  BY <1>1 DEF NewsHeeded, ClientHeeds, Queued, news
<1>2. ASSUME NEW e \in Event, news' = Append(news, e), e.kind \in Claims => Live'
      PROVE  NewsHeeded' /\ ClientHeeds'
  <2>1. /\ DOMAIN news = 1 .. Len(news) /\ DOMAIN news' = 1 .. Len(news) + 1
        /\ Len(news) \in Nat
        /\ \A i \in DOMAIN news : news'[i] = news[i]
        /\ news'[Len(news) + 1] = e
    BY <1>2, NewsSeq
  <2>2. NewsHeeded'
    <3> SUFFICES ASSUME NEW i \in DOMAIN news', news'[i].kind \in Claims, ~Live'
                 PROVE  \E j \in DOMAIN news' : j > i /\ news'[j].kind = "DISCONNECTED"
      BY DEF NewsHeeded
    <3>1. e.kind \notin Claims
      BY <1>2
    <3>2. news'[Len(news) + 1].kind \notin Claims
      BY <2>1, <3>1
    <3>3. i # Len(news) + 1
      BY <3>2
    <3>4. i \in DOMAIN news
      BY <2>1, <3>3
    <3>5. i \in DOMAIN news /\ news[i].kind \in Claims
      BY <2>1, <3>4
    <3>6. PICK j \in DOMAIN news : j > i /\ news[j].kind = "DISCONNECTED"
      BY <3>5 DEF NewsHeeded
    <3> QED
      BY <2>1, <3>6
  <2>3. Queued("DISCONNECTED") => Queued("DISCONNECTED")'
    BY <2>1 DEF Queued, news
  <2>4. ClientHeeds'
    BY <2>3 DEF ClientHeeds
  <2> QED
    BY <2>2, <2>4
<1> QED
  BY <1>1, <1>2

\* The news with DISCONNECTED added: every claim before it is settled.
LEMMA LossReported ==
  ASSUME TypeOK, news' = Append(news, Ev("DISCONNECTED"))
  PROVE  NewsHeeded' /\ ClientHeeds'
<1>1. Ev("DISCONNECTED") \in Event /\ Ev("DISCONNECTED").kind = "DISCONNECTED"
  BY Messages DEF Ev, LifecycleEvent
<1>2. /\ DOMAIN news' = 1 .. Len(news) + 1
      /\ Len(news) \in Nat
      /\ news'[Len(news) + 1].kind = "DISCONNECTED"
  BY <1>1, NewsSeq
<1>3. NewsHeeded'
  BY <1>2 DEF NewsHeeded, Claims
<1>4. Queued("DISCONNECTED")'
  BY <1>2 DEF Queued, news
<1> QED
  BY <1>3, <1>4 DEF ClientHeeds

\* A step of the main thread.
LEMMA MainHeeds ==
  ASSUME TypeOK, NewsInv, BusClosed', Main
  PROVE  NewsInv'
<1>1. LoopClean' /\ UNCHANGED <<workerVars, bluezVars>>
  BY MainNews DEF NewsInv
<1>2. /\ OneCall' /\ ResolvedIsLinked' /\ SignalsHeeded' /\ WorkerHeeds'
      /\ Live' = Live
  BY <1>1 DEF NewsInv, workerVars, bluezVars, OneCall, ResolvedIsLinked, SignalsHeeded,
              WorkerHeeds, Walks, Live, Pending
<1>3. CASE news' = news /\ (client'.state \in Up => client.state \in Up)
  BY <1>1, <1>2, <1>3 DEF NewsInv, NewsHeeded, ClientHeeds, Queued, news
<1>4. CASE /\ news # << >> /\ news' = Tail(news)
           /\ client'.state \in Up =>
                    \/ Head(news).kind \in {"CONNECTED", "SERVICES_DISCOVERED"}
                    \/ Head(news).kind = "COMPLETE" /\ client.state \in Up
  <2>1. /\ DOMAIN news = 1 .. Len(news) /\ DOMAIN news' = 1 .. Len(news) - 1
        /\ Len(news) \in Nat /\ Len(news) > 0
        /\ \A i \in DOMAIN news' : news'[i] = news[i + 1]
        /\ Head(news) = news[1]
    BY <1>4, NewsSeq
  <2>2. NewsHeeded'
    <3> SUFFICES ASSUME NEW i \in DOMAIN news', news'[i].kind \in Claims, ~Live
                 PROVE  \E j \in DOMAIN news' : j > i /\ news'[j].kind = "DISCONNECTED"
      BY <1>2 DEF NewsHeeded
    <3>1. i + 1 \in DOMAIN news /\ news[i + 1].kind \in Claims
      BY <2>1
    <3>2. PICK j \in DOMAIN news : j > i + 1 /\ news[j].kind = "DISCONNECTED"
      BY <3>1 DEF NewsInv, NewsHeeded
    <3>3. j - 1 \in DOMAIN news' /\ j - 1 > i /\ news'[j - 1].kind = "DISCONNECTED"
      BY <2>1, <3>1, <3>2
    <3> QED
      BY <3>3
  <2>3. ClientHeeds'
    <3> SUFFICES ASSUME client'.state \in Up, ~Live
                 PROVE  \E j \in DOMAIN news' : news'[j].kind = "DISCONNECTED"
      BY <1>2 DEF ClientHeeds, Queued, news
    <3>1. PICK j \in DOMAIN news : j > 1 /\ news[j].kind = "DISCONNECTED"
      <4>1. CASE Head(news).kind \in Claims
        BY <2>1, <4>1 DEF NewsInv, NewsHeeded
      <4>2. CASE Head(news).kind = "COMPLETE" /\ client.state \in Up
        <5>1. PICK j \in DOMAIN news : news[j].kind = "DISCONNECTED"
          BY <4>2 DEF NewsInv, ClientHeeds, Queued, news
        <5>2. j # 1
          BY <2>1, <4>2, <5>1
        <5> QED
          BY <2>1, <5>1, <5>2
      <4> QED
        BY <1>4, <4>1, <4>2 DEF Claims
    <3>2. j - 1 \in DOMAIN news' /\ news'[j - 1].kind = "DISCONNECTED"
      BY <2>1, <3>1
    <3> QED
      BY <3>2
  <2> QED
    BY <1>1, <1>2, <2>2, <2>3 DEF NewsInv
<1> QED
  BY <1>3, <1>4, MainNews DEF NewsInv

\* BlueZ changes the link, or finishes resolving the services: a loss is
\* queued behind every signal that claims the link.
LEMMA LinkHeeds ==
  ASSUME TypeOK, ResolvedIsLinked, SignalsHeeded, host.busOpen,
         \/ \E up \in BOOLEAN : SetLink(up)
         \/ ServicesResolve
         \/ UNCHANGED bluezVars
  PROVE  /\ Live => Live'
         /\ ResolvedIsLinked' /\ SignalsHeeded'
<1>1. signals \in Seq(Signal) /\ dev \in [link : BOOLEAN, resolved : BOOLEAN]
  BY DEF TypeOK
<1>2. \A sig \in Signal :
         /\ DOMAIN Append(signals, sig) = 1 .. Len(signals) + 1
         /\ DOMAIN signals = 1 .. Len(signals) /\ Len(signals) \in Nat
         /\ \A i \in DOMAIN signals : Append(signals, sig)[i] = signals[i]
         /\ Append(signals, sig)[Len(signals) + 1] = sig
  BY <1>1
<1>3. CASE dev'.link /\ signals' \in Seq(Signal)
  BY <1>3 DEF Live, ResolvedIsLinked, SignalsHeeded
<1>4. CASE dev' = dev /\ signals' = signals
  BY <1>4 DEF Live, Pending, ResolvedIsLinked, SignalsHeeded
<1>5. CASE dev'.link = FALSE /\ dev'.resolved = FALSE
           /\ signals' = Append(signals, "Disconnected")
  <2>1. /\ DOMAIN signals' = 1 .. Len(signals) + 1 /\ Len(signals) \in Nat
        /\ signals'[Len(signals) + 1] = "Disconnected"
    BY <1>2, <1>5 DEF Signal
  <2>2. Live'
    BY <2>1 DEF Live, Pending
  <2>3. SignalsHeeded'
    BY <2>1 DEF SignalsHeeded
  <2> QED
    BY <1>5, <2>2, <2>3 DEF ResolvedIsLinked
<1>6. ASSUME NEW up \in BOOLEAN, SetLink(up)
      PROVE  \/ dev'.link /\ signals' \in Seq(Signal)
             \/ dev' = dev /\ signals' = signals
             \/ dev'.link = FALSE /\ dev'.resolved = FALSE
                /\ signals' = Append(signals, "Disconnected")
  <2>1. CASE up
    <3>1. up = TRUE
      BY <2>1
    <3>2. dev'.link = TRUE
      BY <1>6, <3>1 DEF SetLink
    <3>3. signals' \in Seq(Signal)
      BY <1>1, <1>6 DEF SetLink, Signal
    <3> QED
      BY <3>2, <3>3
  <2>2. CASE ~up /\ dev.link
    BY <1>1, <1>6, <2>2 DEF SetLink
  <2>3. CASE ~up /\ ~dev.link
    <3>1. dev.link = FALSE /\ dev.resolved = FALSE /\ up = FALSE
      BY <1>1, <2>3 DEF ResolvedIsLinked
    <3>2. dev' = [link |-> FALSE, resolved |-> FALSE] /\ signals' = signals
      BY <1>6, <3>1 DEF SetLink
    <3>3. dev = [link |-> FALSE, resolved |-> FALSE]
      BY <1>1, <3>1
    <3> QED
      BY <3>2, <3>3
  <2> QED
    BY <2>1, <2>2, <2>3
<1>7. CASE ServicesResolve
  BY <1>1, <1>3, <1>7 DEF ServicesResolve, Signal
<1> QED
  BY <1>3, <1>4, <1>5, <1>6, <1>7 DEF bluezVars

LEMMA BlueZHeeds ==
  ASSUME TypeOK, NewsInv, BusClosed', BlueZ
  PROVE  NewsInv'
<1>1. UNCHANGED <<mainVars, workerVars, queueVars>>
  BY DEF BlueZ, LinkDrops, LinkRises, ServicesResolve
<1>2. LoopClean' /\ OneCall' /\ news' = news
  BY <1>1 DEF NewsInv, LoopClean, OneCall, news, mainVars, workerVars, queueVars
<1>3. (\E up \in BOOLEAN : SetLink(up)) \/ ServicesResolve
  BY DEF BlueZ, LinkDrops, LinkRises
<1>4. ResolvedIsLinked'
  BY <1>3 DEF SetLink, ServicesResolve, TypeOK, ResolvedIsLinked
<1>5. CASE ~host.busOpen
  <2>1. ~host'.busOpen
    BY <1>1, <1>5 DEF workerVars
  <2>2. (SignalsHeeded /\ WorkerHeeds /\ NewsHeeded /\ ClientHeeds)'
    BY <2>1, NothingClaimed
  <2> QED
    BY <1>2, <1>4, <2>2 DEF NewsInv
<1>6. CASE host.busOpen
  <2>1. (Live => Live') /\ SignalsHeeded'
    BY <1>3, <1>6, LinkHeeds DEF NewsInv
  <2>2. WorkerHeeds'
    BY <1>1, <2>1 DEF NewsInv, WorkerHeeds, Walks, workerVars
  <2>3. NewsHeeded' /\ ClientHeeds'
    BY <1>1, <1>2, <2>1, NewsAdded DEF NewsInv, mainVars
  <2> QED
    BY <1>2, <1>4, <2>1, <2>2, <2>3 DEF NewsInv
<1> QED
  BY <1>5, <1>6

\* A signal is taken off the bus.
LEMMA TakenHeeds ==
  ASSUME TypeOK, SignalsHeeded, signals # << >>, signals' = Tail(signals), dev' = dev
  PROVE  /\ SignalsHeeded'
         /\ Head(signals) # "Disconnected" => (Live => Live')
         /\ Head(signals) \in {"Connected", "ServicesResolved"} => Live'
<1>1. /\ DOMAIN signals = 1 .. Len(signals) /\ DOMAIN signals' = 1 .. Len(signals) - 1
      /\ Len(signals) \in Nat /\ Len(signals) > 0
      /\ \A i \in DOMAIN signals' : signals'[i] = signals[i + 1]
      /\ Head(signals) = signals[1]
  BY DEF TypeOK
<1>2. ASSUME NEW j \in DOMAIN signals, j > 1, signals[j] = "Disconnected"
      PROVE  j - 1 \in DOMAIN signals' /\ signals'[j - 1] = "Disconnected"
  BY <1>1, <1>2
<1>3. SignalsHeeded'
  <2> SUFFICES ASSUME NEW i \in DOMAIN signals',
                      signals'[i] \in {"Connected", "ServicesResolved"}, ~dev.link
               PROVE  \E j \in DOMAIN signals' : j > i /\ signals'[j] = "Disconnected"
    BY DEF SignalsHeeded
  <2>1. i + 1 \in DOMAIN signals /\ signals[i + 1] \in {"Connected", "ServicesResolved"}
    BY <1>1
  <2>2. PICK j \in DOMAIN signals : j > i + 1 /\ signals[j] = "Disconnected"
    BY <2>1 DEF SignalsHeeded
  <2>3. j > 1 /\ j - 1 > i
    BY <1>1, <2>1, <2>2
  <2> QED
    BY <1>2, <2>2, <2>3
<1>4. ASSUME Head(signals) # "Disconnected", Pending("Disconnected")
      PROVE  Pending("Disconnected")'
  <2>1. PICK j \in DOMAIN signals : signals[j] = "Disconnected"
    BY <1>4 DEF Pending
  <2>2. j > 1
    BY <1>1, <1>4, <2>1
  <2> QED
    BY <1>2, <2>1, <2>2 DEF Pending
<1>5. ASSUME Head(signals) \in {"Connected", "ServicesResolved"}, ~dev.link
      PROVE  Pending("Disconnected")'
  <2>1. PICK j \in DOMAIN signals : j > 1 /\ signals[j] = "Disconnected"
    BY <1>1, <1>5 DEF SignalsHeeded
  <2> QED
    BY <1>2, <2>1 DEF Pending
<1> QED
  BY <1>3, <1>4, <1>5 DEF Live

\* The stack of a worker whose calls do not dispatch signals.
LEMMA ShortStack ==
  ASSUME calls' = << >> \/ \E f \in Frame : calls' = <<f>>
  PROVE  /\ OneCall'
         /\ Walks' # {} => \E f \in Frame : /\ calls' = <<f>>
                                            /\ f.call \in {"walk", "gap", "mtu"}
BY DEF OneCall, Walks

\* A step of the worker that leaves BlueZ alone.
LEMMA WorkerKeepsHeed ==
  ASSUME TypeOK, NewsInv, BusClosed', UNCHANGED <<mainVars, bluezVars>>,
         calls' = << >> \/ \E f \in Frame :
                             /\ calls' = <<f>>
                             /\ f.call \in {"walk", "gap", "mtu"} => Live,
         host'.discovered => host.discovered \/ Live,
         \/ events' = events
         \/ \E e \in Event : Post(e) /\ (e.kind \in Claims => Live)
  PROVE  NewsInv'
<1>1. /\ LoopClean' /\ ResolvedIsLinked' /\ SignalsHeeded' /\ Live' = Live
      /\ client' = client /\ drained' = drained
  BY DEF NewsInv, LoopClean, ResolvedIsLinked, SignalsHeeded, Live, Pending, mainVars,
         bluezVars
<1>2. OneCall' /\ (Walks' # {} => Live)
  BY ShortStack
<1>3. WorkerHeeds'
  BY <1>1, <1>2 DEF NewsInv, WorkerHeeds
<1>4. NewsHeeded' /\ ClientHeeds'
  <2>1. CASE events' = events
    BY <1>1, <2>1, NewsAdded, QuietNews DEF NewsInv
  <2>2. ASSUME NEW e \in Event, Post(e), e.kind \in Claims => Live
        PROVE  NewsHeeded' /\ ClientHeeds'
    <3>1. news' = Append(news, e)
      BY <1>1, <2>2, WorkerNews
    <3> QED
      BY <1>1, <2>2, <3>1, NewsAdded DEF NewsInv
  <2> QED
    BY <2>1, <2>2
<1> QED
  BY <1>1, <1>2, <1>3, <1>4 DEF NewsInv

\* A call of the worker that changes the link.
LEMMA WorkerMovesLink ==
  ASSUME TypeOK, NewsInv, BusClosed', host.busOpen, UNCHANGED <<mainVars, events, host>>,
         calls' = << >>, NEW up \in BOOLEAN, SetLink(up)
  PROVE  NewsInv'
<1>1. (Live => Live') /\ ResolvedIsLinked' /\ SignalsHeeded'
  BY LinkHeeds DEF NewsInv
<1>2. LoopClean' /\ OneCall' /\ news' = news
  BY ShortStack, QuietNews DEF NewsInv, LoopClean, mainVars
<1>3. WorkerHeeds'
  BY <1>1 DEF NewsInv, WorkerHeeds, Walks
<1>4. NewsHeeded' /\ ClientHeeds'
  BY <1>1, <1>2, NewsAdded DEF NewsInv, mainVars
<1> QED
  BY <1>1, <1>2, <1>3, <1>4 DEF NewsInv

LEMMA WorkerStepHeeds ==
  ASSUME Reentrant = FALSE, TypeOK, NewsInv, BusClosed', Worker
  PROVE  NewsInv'
<1>1. /\ calls \in Seq(Frame) /\ host \in HostFlags /\ batch \in Seq(Command)
      /\ UNCHANGED mainVars /\ Len(calls) <= 1
  BY OthersKeepMain DEF TypeOK, HostFlags, NewsInv, OneCall
<1>2. /\ \A name \in CallName : /\ Call(name) \in Frame /\ Call(name).call = name
                                /\ <<Call(name)>> \o << >> = <<Call(name)>>
      /\ Ev("CONNECTED") \in Event /\ Ev("DISCONNECTED") \in Event
      /\ Ev("SERVICES_DISCOVERED") \in Event
      /\ \A id \in Nat : Complete(id) \in Event
      /\ Ev("DISCONNECTED").kind \notin Claims
      /\ \A id \in Nat : Complete(id).kind \notin Claims
  BY Messages DEF LifecycleEvent, Call, Ev, Complete, Claims
<1>3. CASE TakeCommands
  BY <1>1, <1>3, WorkerKeepsHeed DEF TakeCommands
<1>4. CASE RunCommand
  <2>1. calls = << >> /\ Head(batch) \in Command /\ UNCHANGED <<mainVars, bluezVars>>
    BY <1>1, <1>4 DEF RunCommand
  <2>2. host'.discovered = host.discovered
    BY <1>1, <1>4 DEF RunCommand, DoConnect, DoOp, HostFlags
  <2>3. Head(batch).id \in Nat /\ [call |-> "op", id |-> Head(batch).id] \in Frame
    BY <2>1 DEF Command, Frame, CallName
  <2>4. \/ calls' = << >>
        \/ calls' = <<Call("getConnected")>> \/ calls' = <<Call("disconnect")>>
        \/ calls' = <<[call |-> "op", id |-> Head(batch).id]>>
    BY <1>2, <1>4, <2>1 DEF RunCommand, DoConnect, DoDisconnect, DoOp, CallName
  <2>5. calls' = << >> \/ \E f \in Frame : /\ calls' = <<f>>
                                           /\ f.call \notin {"walk", "gap", "mtu"}
    BY <1>2, <2>3, <2>4 DEF CallName
  <2>6. \/ events' = events \/ Post(Ev("DISCONNECTED")) \/ Post(Complete(Head(batch).id))
    BY <1>4 DEF RunCommand, DoConnect, DoDisconnect, DoOp
  <2>7. events' = events \/ \E e \in Event : Post(e) /\ e.kind \notin Claims
    BY <1>2, <2>3, <2>6
  <2> QED
    BY <2>1, <2>2, <2>5, <2>7, WorkerKeepsHeed
<1>5. CASE DeliverSignal
  <2>1. /\ calls = << >> /\ signals # << >> /\ signals' = Tail(signals) /\ dev' = dev
        /\ UNCHANGED mainVars
    BY <1>5 DEF DeliverSignal, MayDispatch
  <2>2. /\ LoopClean' /\ ResolvedIsLinked' /\ client' = client /\ drained' = drained
        /\ SignalsHeeded'
    BY <2>1, TakenHeeds DEF NewsInv, LoopClean, ResolvedIsLinked, mainVars
  <2>3. CASE Head(signals) = "Connected" /\ LinkCameUp(calls)
    <3>1. (Live => Live') /\ Live'
      BY <2>1, <2>3, TakenHeeds DEF NewsInv
    <3>2. calls' = <<Call("pollResolved")>> /\ host' = host /\ Post(Ev("CONNECTED"))
      BY <1>2, <2>1, <2>3 DEF LinkCameUp, CallName
    <3>3. OneCall'
      BY <1>2, <3>2, ShortStack DEF CallName
    <3>4. NewsHeeded' /\ ClientHeeds'
      BY <1>2, <2>2, <3>1, <3>2, WorkerNews, NewsAdded DEF NewsInv
    <3> QED
      BY <2>2, <3>1, <3>3, <3>4 DEF NewsInv, WorkerHeeds
  <2>4. CASE Head(signals) = "ServicesResolved" /\ TryStartDiscovery(calls)
    <3>1. (Live => Live') /\ Live'
      BY <2>1, <2>4, TakenHeeds DEF NewsInv
    <3>2. calls' = <<Call("walk")>> \/ calls' = << >>
      BY <1>2, <2>1, <2>4 DEF TryStartDiscovery, CallName
    <3>3. events' = events
      BY <2>4 DEF TryStartDiscovery
    <3>4. OneCall'
      BY <1>2, <3>2, ShortStack DEF CallName
    <3>5. NewsHeeded' /\ ClientHeeds'
      BY <2>2, <3>1, <3>3, QuietNews, NewsAdded DEF NewsInv
    <3> QED
      BY <2>2, <3>1, <3>4, <3>5 DEF NewsInv, WorkerHeeds
  <2>5. CASE Head(signals) = "Disconnected" /\ LinkWentDown(calls)
    <3>1. calls' = << >> /\ host'.discovered = FALSE /\ Post(Ev("DISCONNECTED"))
      BY <1>1, <2>1, <2>5 DEF LinkWentDown, ForgetDiscovery, HostFlags
    <3>2. OneCall' /\ WorkerHeeds'
      BY <3>1, ShortStack DEF WorkerHeeds
    <3>3. NewsHeeded' /\ ClientHeeds'
      BY <1>2, <2>2, <3>1, WorkerNews, LossReported
    <3> QED
      BY <2>2, <3>2, <3>3 DEF NewsInv
  <2> QED
    BY <1>5, <2>3, <2>4, <2>5 DEF DeliverSignal
<1>6. CASE CallReturns
  <2>1. calls # << >>
    BY <1>6 DEF CallReturns, Returns, GetConnectedReturns, ConnectSucceeds, ConnectFails,
                PollConnectedReturns, PollResolvedReturns, WalkSucceeds, WalkFails,
                GapReturns, MtuReturns, DisconnectReturns, OpReturns
  <2>2. Tail(calls) = << >> /\ Head(calls) \in Frame /\ 1 \in DOMAIN calls
        /\ Head(calls) = calls[1]
    BY <1>1, <2>1
  <2>3. \A name \in CallName : <<Call(name)>> \o Tail(calls) = <<Call(name)>>
    BY <1>2, <2>2
  <2>4. ASSUME Returns("walk") \/ Returns("gap") \/ Returns("mtu") PROVE Live
    BY <2>2, <2>4 DEF Returns, NewsInv, WorkerHeeds, Walks
  <2>5. ASSUME ~Returns("op") PROVE host.busOpen
    BY <2>1, <2>2, <2>5 DEF Returns, NewsInv, BusClosed
  <2>6. dev.link => Live
    BY DEF Live
  <2>7. ASSUME UNCHANGED bluezVars, events' = events, host'.discovered = host.discovered,
               \/ calls' = << >>
               \/ \E name \in CallName \ {"walk", "gap", "mtu"} : calls' = <<Call(name)>>
        PROVE  NewsInv'
    BY <1>1, <1>2, <2>7, WorkerKeepsHeed
  <2>8. ASSUME Live, UNCHANGED bluezVars, calls' = << >> \/ \E name \in CallName : calls' = <<Call(name)>>,
               events' = events \/ \E e \in Event : Post(e)
        PROVE  NewsInv'
    <3>1. calls' = << >> \/ \E f \in Frame : calls' = <<f>>
      BY <1>2, <2>8
    <3> QED
      BY <1>1, <2>8, <3>1, WorkerKeepsHeed
  <2>9. ASSUME UNCHANGED bluezVars, host'.discovered = host.discovered, calls' = << >>,
               \E e \in Event : Post(e) /\ e.kind \notin Claims
        PROVE  NewsInv'
    BY <1>1, <2>9, WorkerKeepsHeed
  <2>10. ASSUME dev.link, UNCHANGED bluezVars, LinkCameUp(Tail(calls)) PROVE NewsInv'
    <3>1. calls' = <<Call("pollResolved")>> /\ Post(Ev("CONNECTED"))
      BY <2>3, <2>10 DEF LinkCameUp, CallName
    <3> QED
      BY <1>2, <2>6, <2>8, <2>10, <3>1 DEF CallName
  <2>11. CASE GetConnectedReturns
    <3>1. CASE dev.link
      BY <2>10, <2>11, <3>1 DEF GetConnectedReturns
    <3>2. CASE ~dev.link
      <4>1. calls' = <<Call("connect")>> /\ host' = host /\ events' = events
        BY <2>3, <2>11, <3>2 DEF GetConnectedReturns, CallName
      <4> QED
        BY <2>7, <2>11, <4>1 DEF GetConnectedReturns, CallName
    <3> QED
      BY <3>1, <3>2
  <2>12. CASE ConnectSucceeds
    <3>1. host.busOpen
      BY <2>5, <2>12 DEF ConnectSucceeds, Returns
    <3> QED
      BY <1>1, <2>2, <2>12, <3>1, WorkerMovesLink DEF ConnectSucceeds, queueVars
  <2>13. CASE ConnectFails
    <3>1. CASE dev.link /\ LinkCameUp(Tail(calls))
      BY <2>10, <2>13, <3>1 DEF ConnectFails
    <3>2. CASE \/ calls' = <<Call("reconnect")>> \o Tail(calls) /\ UNCHANGED <<host, events>>
               \/ calls' = <<Call("pollConnected")>> \o Tail(calls) /\ UNCHANGED <<host, events>>
      <4>1. \E name \in CallName \ {"walk", "gap", "mtu"} : calls' = <<Call(name)>>
        BY <2>3, <3>2 DEF CallName
      <4> QED
        BY <2>7, <2>13, <3>2, <4>1 DEF ConnectFails
    <3> QED
      BY <2>13, <3>1, <3>2 DEF ConnectFails
  <2>14. CASE PollConnectedReturns
    <3>1. CASE dev.link
      BY <2>10, <2>14, <3>1 DEF PollConnectedReturns
    <3>2. CASE ~dev.link
      BY <1>2, <2>2, <2>9, <2>14, <3>2 DEF PollConnectedReturns
    <3> QED
      BY <3>1, <3>2
  <2>15. CASE PollResolvedReturns
    <3>1. CASE dev.resolved
      <4>1. Live
        BY <2>6, <3>1 DEF NewsInv, ResolvedIsLinked
      <4>2. (calls' = <<Call("walk")>> \/ calls' = << >>) /\ events' = events
        BY <2>2, <2>3, <2>15, <3>1 DEF PollResolvedReturns, TryStartDiscovery, CallName
      <4> QED
        BY <2>8, <2>15, <4>1, <4>2 DEF PollResolvedReturns, CallName
    <3>2. CASE ~dev.resolved
      BY <2>2, <2>7, <2>15, <3>2 DEF PollResolvedReturns
    <3> QED
      BY <3>1, <3>2
  <2>16. CASE WalkSucceeds
    <3>1. Live /\ calls' = <<Call("gap")>>
      BY <2>3, <2>4, <2>16 DEF WalkSucceeds, CallName
    <3> QED
      BY <2>8, <2>16, <3>1 DEF WalkSucceeds, queueVars, CallName
  <2>17. CASE WalkFails
    <3>1. Live
      BY <2>4, <2>17 DEF WalkFails
    <3>2. \/ calls' = <<Call("disconnect")>> /\ events' = events
          \/ calls' = << >> /\ Post(Ev("DISCONNECTED"))
      BY <2>2, <2>3, <2>17 DEF WalkFails, DoDisconnect, CallName
    <3> QED
      BY <1>2, <2>8, <2>17, <3>1, <3>2 DEF WalkFails, CallName
  <2>18. CASE GapReturns
    <3>1. Live /\ calls' = <<Call("mtu")>>
      BY <2>3, <2>4, <2>18 DEF GapReturns, CallName
    <3> QED
      BY <2>8, <2>18, <3>1 DEF GapReturns, queueVars, CallName
  <2>19. CASE MtuReturns
    <3>1. Live /\ calls' = << >>
      BY <2>2, <2>4, <2>19 DEF MtuReturns
    <3> QED
      BY <1>2, <2>8, <2>19, <3>1 DEF MtuReturns
  <2>20. CASE DisconnectReturns
    <3>1. host.busOpen
      BY <2>5, <2>20 DEF DisconnectReturns, Returns
    <3>2. CASE SetLink(FALSE)
      BY <1>1, <2>2, <2>20, <3>1, <3>2, WorkerMovesLink DEF DisconnectReturns, queueVars
    <3>3. CASE UNCHANGED bluezVars
      BY <2>2, <2>7, <2>20, <3>3 DEF DisconnectReturns, queueVars
    <3> QED
      BY <2>20, <3>2, <3>3 DEF DisconnectReturns
  <2>21. CASE OpReturns
    BY <1>2, <2>2, <2>9, <2>21 DEF OpReturns, Frame
  <2> QED
    BY <1>6, <2>11, <2>12, <2>13, <2>14, <2>15, <2>16, <2>17, <2>18, <2>19, <2>20, <2>21
       DEF CallReturns
<1> QED
  BY <1>3, <1>4, <1>5, <1>6 DEF Worker

LEMMA NewsInitially == Init => NewsInv
<1> SUFFICES ASSUME Init PROVE NewsInv
  OBVIOUS
<1>1. /\ drained = << >> /\ events = << >> /\ calls = << >> /\ signals = << >>
      /\ host.busOpen = FALSE /\ host.discovered = FALSE /\ news = << >>
  BY DEF Init, news
<1>2. client.state = "IDLE"
  BY DEF Init, Setup, SetState
<1>3. LoopClean /\ BusClosed /\ OneCall
  BY <1>1, <1>2 DEF LoopClean, BusClosed, OneCall, Up
<1>4. SignalsHeeded /\ WorkerHeeds /\ NewsHeeded /\ ClientHeeds
  BY <1>1, <1>2 DEF SignalsHeeded, WorkerHeeds, NewsHeeded, ClientHeeds, Walks, Up
<1>5. ResolvedIsLinked
  BY DEF Init, ResolvedIsLinked
<1> QED
  BY <1>3, <1>4, <1>5 DEF NewsInv

\* The invariant holds if the worker's blocking calls leave the signals queued.
LEMMA NewsAlways ==
  ASSUME Reentrant = FALSE
  PROVE  Spec => [](TypeOK /\ NewsInv)
<1>1. TypeOK /\ NewsInv /\ UNCHANGED vars => NewsInv'
  BY DEF NewsInv, LoopClean, BusClosed, OneCall, ResolvedIsLinked, SignalsHeeded,
         WorkerHeeds, NewsHeeded, ClientHeeds, Live, Pending, Queued, Walks, news,
         vars, mainVars, workerVars, queueVars, bluezVars
<1>2. TypeOK /\ NewsInv /\ [Next]_vars => NewsInv'
  <2> SUFFICES ASSUME TypeOK, NewsInv, [Next]_vars PROVE NewsInv'
    OBVIOUS
  <2>1. BusClosed'
    BY BusClosedStep DEF NewsInv
  <2> QED
    BY <1>1, <2>1, MainHeeds, WorkerStepHeeds, BlueZHeeds DEF Next
<1> QED
  BY <1>2, NewsInitially, ClientTypeCorrect, PTL DEF Spec

\* discovered_ never stands over a link that is down, except while BlueZ's
\* Connected=false is on its way to worker_on_connected_changed(): for a
\* worker whose blocking calls do not dispatch signals.
THEOREM DiscoveredFlagTracksLink ==
  ASSUME Reentrant = FALSE
  PROVE  Spec => []DiscoveredTracksLink
<1>1. NewsInv => DiscoveredTracksLink
  BY DEF NewsInv, WorkerHeeds, DiscoveredTracksLink, Live
<1> QED
  BY <1>1, NewsAlways, PTL

\* No lost disconnect: a client that shows a connection over a dead link has
\* the signal or the DISCONNECTED event still before it.
THEOREM EveryDropIsReported ==
  ASSUME Reentrant = FALSE
  PROVE  Spec => []DropIsReported
<1>1. NewsInv => DropIsReported
  BY DEF NewsInv, ClientHeeds, DropIsReported, Live, Up
<1> QED
  BY <1>1, NewsAlways, PTL

-----------------------------------------------------------------------------
(***************************************************************************)
(* OneWalkAtATime, for a worker whose blocking calls may dispatch signals. *)
(* discovering_ is what keeps a second walk out, and a loss of the link    *)
(* dispatched inside the walk clears it: the theorem is about the runs in  *)
(* which that does not happen, which are all runs if Reentrant is FALSE.   *)
(***************************************************************************)
LossInWalk ==
  /\ DeliverSignal /\ Head(signals) = "Disconnected"
  /\ Walks # {}

WalkInv ==
  /\ OneWalkAtATime
  /\ Walks # {} => host.discovering

WalkCalls == {"walk", "gap", "mtu"}
WalksIn(s) == {i \in DOMAIN s : s[i].call \in WalkCalls}

\* The walks of a stack with its top taken off, or with a frame put on top.
LEMMA StackWalks ==
  ASSUME NEW s \in Seq(Frame)
  PROVE  /\ s # << >> => \A i \in WalksIn(Tail(s)) : i \in Nat /\ i > 0 /\ i + 1 \in WalksIn(s)
         /\ s # << >> /\ Head(s).call \in WalkCalls => 1 \in WalksIn(s)
         /\ \A f \in Frame : \A i \in WalksIn(<<f>> \o s) :
              \/ i = 1 /\ f.call \in WalkCalls
              \/ i \in Nat /\ i - 1 \in WalksIn(s)
         /\ \A i \in WalksIn(s) : i \in Nat /\ i > 0
<1>1. s # << >> => \A i \in WalksIn(Tail(s)) : i \in Nat /\ i > 0 /\ i + 1 \in WalksIn(s)
  BY DEF WalksIn
<1>2. s # << >> /\ Head(s).call \in WalkCalls => 1 \in WalksIn(s)
  BY DEF WalksIn
<1>3. ASSUME NEW f \in Frame, NEW i \in WalksIn(<<f>> \o s)
      PROVE  \/ i = 1 /\ f.call \in WalkCalls
             \/ i \in Nat /\ i - 1 \in WalksIn(s)
  <2>1. i \in 1 .. Len(s) + 1 /\ (<<f>> \o s)[i].call \in WalkCalls
    BY DEF WalksIn
  <2>2. CASE i = 1
    BY <2>1, <2>2
  <2>3. CASE i # 1
    <3>1. i - 1 \in DOMAIN s /\ (<<f>> \o s)[i] = s[i - 1]
      BY <2>1, <2>3
    <3> QED
      BY <2>1, <3>1 DEF WalksIn
  <2> QED
    BY <2>2, <2>3
<1>4. \A i \in WalksIn(s) : i \in Nat /\ i > 0
  BY DEF WalksIn
<1> QED
  BY <1>1, <1>2, <1>3, <1>4

\* A call returns: its frame goes, and with it the walk if it was part of one.
LEMMA WalkPops ==
  ASSUME TypeOK, WalkInv, calls # << >>
  PROVE  /\ \A i, j \in WalksIn(Tail(calls)) : i = j
         /\ WalksIn(Tail(calls)) # {} => Walks # {}
         /\ Head(calls).call \in WalkCalls => WalksIn(Tail(calls)) = {}
<1>1. calls \in Seq(Frame) /\ Walks = WalksIn(calls)
  BY DEF TypeOK, Walks, WalksIn, WalkCalls
<1>2. \A i, j \in WalksIn(calls) : i = j
  BY <1>1 DEF WalkInv, OneWalkAtATime
<1>3. \A i \in WalksIn(Tail(calls)) : i \in Nat /\ i > 0 /\ i + 1 \in WalksIn(calls)
  BY <1>1, StackWalks
<1>4. \A i, j \in WalksIn(Tail(calls)) : i = j
  BY <1>2, <1>3
<1>5. WalksIn(Tail(calls)) # {} => Walks # {}
  BY <1>1, <1>3
<1>6. Head(calls).call \in WalkCalls => 1 \in WalksIn(calls)
  BY <1>1, StackWalks
<1>7. Head(calls).call \in WalkCalls => WalksIn(Tail(calls)) = {}
  BY <1>2, <1>3, <1>6
<1> QED
  BY <1>4, <1>5, <1>7

\* The stack after the step: what stays blocked, with at most a frame on top.
LEMMA WalkPushes ==
  ASSUME NEW rest \in Seq(Frame), \A i, j \in WalksIn(rest) : i = j,
         WalksIn(rest) # {} => host'.discovering,
         \/ calls' = rest
         \/ \E f \in Frame : /\ calls' = <<f>> \o rest
                             /\ f.call \in WalkCalls => /\ WalksIn(rest) = {}
                                                        /\ host'.discovering
  PROVE  WalkInv'
<1>1. Walks' = WalksIn(calls')
  BY DEF Walks, WalksIn, WalkCalls
<1>2. CASE calls' = rest
  BY <1>1, <1>2 DEF WalkInv, OneWalkAtATime
<1>3. ASSUME NEW f \in Frame, calls' = <<f>> \o rest,
             f.call \in WalkCalls => WalksIn(rest) = {} /\ host'.discovering
      PROVE  WalkInv'
  <2>1. \A i \in Walks' : \/ i = 1 /\ f.call \in WalkCalls
                          \/ i \in Nat /\ i - 1 \in WalksIn(rest)
    BY <1>1, <1>3, StackWalks
  <2>2. OneWalkAtATime'
    <3> SUFFICES ASSUME NEW i \in Walks', NEW j \in Walks' PROVE i = j
      BY DEF OneWalkAtATime
    <3>1. CASE f.call \in WalkCalls
      BY <1>3, <2>1, <3>1
    <3>2. CASE f.call \notin WalkCalls
      <4>1. i \in Nat /\ j \in Nat /\ i - 1 = j - 1
        BY <2>1, <3>2
      <4> QED
        BY <4>1
    <3> QED
      BY <3>1, <3>2
  <2>3. Walks' # {} => host'.discovering
    BY <1>3, <2>1
  <2> QED
    BY <2>2, <2>3 DEF WalkInv
<1> QED
  BY <1>2, <1>3

LEMMA WalkStep ==
  ASSUME TypeOK, WalkInv, [Next]_vars, ~LossInWalk
  PROVE  WalkInv'
<1>1. /\ calls \in Seq(Frame) /\ host \in HostFlags /\ << >> \in Seq(Frame)
      /\ batch \in Seq(Command)
      /\ WalksIn(<< >>) = {}
  BY DEF TypeOK, HostFlags, WalksIn
<1>2. \A name \in CallName : Call(name) \in Frame /\ Call(name).call = name
  BY Messages DEF Call
<1>3. /\ \A i, j \in WalksIn(calls) : i = j
      /\ WalksIn(calls) # {} => host.discovering
      /\ Walks = WalksIn(calls)
  BY DEF WalkInv, OneWalkAtATime, Walks, WalksIn, WalkCalls
<1>4. CASE UNCHANGED <<calls, host>>
  BY <1>4 DEF WalkInv, OneWalkAtATime, Walks
<1>5. CASE Main \/ BlueZ \/ UNCHANGED vars \/ TakeCommands
  BY <1>4, <1>5 DEF Main, Advertise, TrackerConnect, UserConnect, ClientConnect,
         UserDisconnect, IssueOp, LoopDrain, DispatchEvent, LoopEnd, ConnectTimeout,
         DisconnectTimeout, NoTimeoutDue, BlueZ, LinkDrops, LinkRises, ServicesResolve,
         TakeCommands, vars, workerVars
<1>6. CASE RunCommand
  <2>1. calls = << >> /\ Head(batch) \in Command
    BY <1>1, <1>6 DEF RunCommand
  <2>2. [call |-> "op", id |-> Head(batch).id] \in Frame
    BY <2>1 DEF Command, Frame, CallName
  <2>3. \/ calls' = << >>
        \/ \E f \in Frame : calls' = <<f>> \o << >> /\ f.call \notin WalkCalls
    BY <1>2, <1>6, <2>1, <2>2
       DEF RunCommand, DoConnect, DoDisconnect, DoOp, CallName, WalkCalls
  <2> QED
    BY <1>1, <2>3, WalkPushes
<1>7. CASE DeliverSignal
  <2>1. CASE LinkCameUp(calls)
    BY <1>1, <1>2, <1>3, <2>1, WalkPushes DEF LinkCameUp, CallName, WalkCalls
  <2>2. CASE TryStartDiscovery(calls)
    BY <1>1, <1>2, <1>3, <2>2, WalkPushes
       DEF TryStartDiscovery, DiscoveryGuard, CallName, HostFlags
  <2>3. CASE Head(signals) = "Disconnected" /\ LinkWentDown(calls)
    <3>1. WalksIn(calls) = {}
      BY <1>3, <1>7, <2>3 DEF LossInWalk
    <3> QED
      BY <1>1, <2>3, <3>1, WalkPushes DEF LinkWentDown
  <2> QED
    BY <1>7, <2>1, <2>2, <2>3 DEF DeliverSignal
<1>8. CASE CallReturns
  <2>1. calls # << >>
    BY <1>8 DEF CallReturns, Returns, GetConnectedReturns, ConnectSucceeds, ConnectFails,
                PollConnectedReturns, PollResolvedReturns, WalkSucceeds, WalkFails,
                GapReturns, MtuReturns, DisconnectReturns, OpReturns
  <2> DEFINE rest == Tail(calls)
  <2>2. /\ rest \in Seq(Frame)
        /\ \A i, j \in WalksIn(rest) : i = j
        /\ WalksIn(rest) # {} => host.discovering
        /\ Head(calls).call \in WalkCalls => WalksIn(rest) = {} /\ host.discovering
    <3>1. Head(calls).call \in WalkCalls => 1 \in Walks
      BY <1>1, <1>3, <2>1, StackWalks
    <3> QED
      BY <1>1, <2>1, <3>1, WalkPops DEF WalkInv
  <2>3. ASSUME host'.discovering = host.discovering,
               \/ calls' = rest
               \/ \E name \in CallName : /\ calls' = <<Call(name)>> \o rest
                                         /\ \/ name \notin WalkCalls
                                            \/ Head(calls).call \in WalkCalls
        PROVE  WalkInv'
    BY <1>2, <2>2, <2>3, WalkPushes
  <2>4. ASSUME Head(calls).call \in WalkCalls,
               \/ calls' = rest
               \/ calls' = <<Call("disconnect")>> \o rest
        PROVE  WalkInv'
    BY <1>2, <2>2, <2>4, WalkPushes DEF CallName, WalkCalls
  <2>5. CASE PollResolvedReturns
    <3>1. CASE TryStartDiscovery(rest)
      <4>1. CASE DiscoveryGuard
        <5>1. WalksIn(rest) = {}
          BY <2>2, <4>1 DEF DiscoveryGuard
        <5>2. host'.discovering = TRUE /\ calls' = <<Call("walk")>> \o rest
          BY <1>1, <3>1, <4>1 DEF TryStartDiscovery, HostFlags
        <5> QED
          BY <1>2, <2>2, <5>1, <5>2, WalkPushes DEF CallName
      <4>2. CASE ~DiscoveryGuard
        BY <2>3, <3>1, <4>2 DEF TryStartDiscovery
      <4> QED
        BY <4>1, <4>2
    <3>2. CASE calls' = rest /\ UNCHANGED <<host, events>>
      BY <2>3, <3>2
    <3> QED
      BY <2>5, <3>1, <3>2 DEF PollResolvedReturns
  <2>6. CASE GetConnectedReturns \/ ConnectSucceeds \/ ConnectFails \/ PollConnectedReturns
             \/ DisconnectReturns \/ OpReturns
    <3>1. host' = host
      BY <2>6 DEF GetConnectedReturns, ConnectSucceeds, ConnectFails, PollConnectedReturns,
                  DisconnectReturns, OpReturns, LinkCameUp
    <3>2. \/ calls' = rest
          \/ \E name \in CallName \ WalkCalls : calls' = <<Call(name)>> \o rest
      BY <2>6 DEF GetConnectedReturns, ConnectSucceeds, ConnectFails, PollConnectedReturns,
                  DisconnectReturns, OpReturns, LinkCameUp, CallName, WalkCalls
    <3> QED
      BY <2>3, <3>1, <3>2
  <2>7. CASE WalkSucceeds \/ GapReturns
    <3>1. Head(calls).call \in WalkCalls /\ host'.discovering = host.discovering
      BY <1>1, <2>7 DEF WalkSucceeds, GapReturns, Returns, WalkCalls, HostFlags
    <3>2. \E name \in CallName : calls' = <<Call(name)>> \o rest
      BY <2>7 DEF WalkSucceeds, GapReturns, CallName
    <3> QED
      BY <2>3, <3>1, <3>2
  <2>8. CASE WalkFails \/ MtuReturns
    BY <2>4, <2>8 DEF WalkFails, MtuReturns, DoDisconnect, Returns, WalkCalls
  <2> QED
    BY <1>8, <2>5, <2>6, <2>7, <2>8 DEF CallReturns
<1> QED
  BY <1>5, <1>6, <1>7, <1>8 DEF Next, Worker

\* One tree walk at a time, also when blocking calls dispatch signals, as long
\* as no loss of the link is dispatched inside a walk.
THEOREM WalksOneAtATime ==
  Spec /\ [][~LossInWalk]_vars => []OneWalkAtATime
<1>1. Init => WalkInv
  BY DEF Init, WalkInv, OneWalkAtATime, Walks
<1>2. TypeOK /\ WalkInv /\ [Next]_vars /\ [~LossInWalk]_vars => WalkInv'
  <2>1. UNCHANGED vars /\ WalkInv => WalkInv'
    BY DEF vars, workerVars, WalkInv, OneWalkAtATime, Walks
  <2> QED
    BY <2>1, WalkStep
<1>3. WalkInv => OneWalkAtATime
  BY DEF WalkInv
<1> QED
  BY <1>1, <1>2, <1>3, ClientTypeCorrect, PTL DEF Spec

\* ... and without further ado when they do not dispatch signals.
THEOREM WalksOneAtATimeUndisturbed ==
  ASSUME Reentrant = FALSE
  PROVE  Spec => []OneWalkAtATime
<1>1. [Next]_vars => [~LossInWalk]_vars
  BY DEF LossInWalk, DeliverSignal, MayDispatch, Walks
<1> QED
  BY <1>1, WalksOneAtATime, PTL DEF Spec

-----------------------------------------------------------------------------
(***************************************************************************)
(* The safety half of AnswersOnceInOrder: GattClient takes no step that    *)
(* OpChannel does not allow.  An accepted operation is in exactly one of   *)
(* four places on its way through the worker and back: commands_, the      *)
(* batch, the call the worker is blocked in, and the news.  Only what      *)
(* belongs to an operation carries an id.                                  *)
(***************************************************************************)
Ids(s)      == {s[i].id : i \in DOMAIN s} \ {0}
Rising(s)   == \A i, j \in DOMAIN s :
                 i < j /\ s[i].id # 0 /\ s[j].id # 0 => s[i].id < s[j].id
Before(S, T) == \A x \in S, y \in T : x < y

NewsTagged     == \A i \in DOMAIN news : news[i].kind = "COMPLETE" <=> news[i].id # 0
CallsTagged    == \A i \in DOMAIN calls : calls[i].call = "op" <=> calls[i].id # 0
BatchTagged    == \A i \in DOMAIN batch : batch[i].kind \in OpKinds <=> batch[i].id # 0
CommandsTagged == \A i \in DOMAIN commands :
                    commands[i].kind \in OpKinds <=> commands[i].id # 0
Tagged == NewsTagged /\ CallsTagged /\ BatchTagged /\ CommandsTagged

AllRising == Rising(news) /\ Rising(calls) /\ Rising(batch) /\ Rising(commands)

InOrder ==
  /\ Before(Ids(news), Ids(calls)) /\ Before(Ids(news), Ids(batch))
  /\ Before(Ids(news), Ids(commands)) /\ Before(Ids(calls), Ids(batch))
  /\ Before(Ids(calls), Ids(commands)) /\ Before(Ids(batch), Ids(commands))

InFlight == Ids(news) \cup Ids(calls) \cup Ids(batch) \cup Ids(commands)

ChannelInv ==
  /\ LoopClean /\ Tagged /\ AllRising /\ InOrder
  /\ Len(done) <= used["op"] /\ InFlight = Len(done) + 1 .. used["op"]

\* A queue of things with ids: what joins at the back, is put on the front or
\* leaves at the front.
LEMMA IdsAppended ==
  ASSUME NEW T, NEW s \in Seq(T), NEW x \in T
  PROVE  /\ x.id = 0 => Ids(Append(s, x)) = Ids(s)
         /\ x.id # 0 => Ids(Append(s, x)) = Ids(s) \cup {x.id}
<1> DEFINE t == Append(s, x)
<1>1. /\ DOMAIN t = DOMAIN s \cup {Len(s) + 1}
      /\ \A i \in DOMAIN s : t[i] = s[i]
      /\ t[Len(s) + 1] = x
  OBVIOUS
<1> HIDE DEF t
<1>2. /\ x.id = 0 => Ids(t) = Ids(s)
      /\ x.id # 0 => Ids(t) = Ids(s) \cup {x.id}
  BY <1>1 DEF Ids
<1> QED
  BY <1>2 DEF t

LEMMA IdsPushed ==
  ASSUME NEW T, NEW s \in Seq(T), NEW x \in T
  PROVE  /\ x.id = 0 => Ids(<<x>> \o s) = Ids(s)
         /\ x.id # 0 => Ids(<<x>> \o s) = Ids(s) \cup {x.id}
<1> DEFINE t == <<x>> \o s
<1>1. /\ DOMAIN t = 1 .. Len(s) + 1 /\ DOMAIN s = 1 .. Len(s) /\ Len(s) \in Nat
      /\ \A i \in DOMAIN s : t[i + 1] = s[i]
      /\ t[1] = x
  OBVIOUS
<1> HIDE DEF t
<1>2. \A i \in DOMAIN t : i = 1 \/ (i - 1 \in DOMAIN s /\ t[i] = s[i - 1])
  BY <1>1
<1>3. 1 \in DOMAIN t /\ \A i \in DOMAIN s : i + 1 \in DOMAIN t
  BY <1>1
<1>4. /\ x.id = 0 => Ids(t) = Ids(s)
      /\ x.id # 0 => Ids(t) = Ids(s) \cup {x.id}
  BY <1>1, <1>2, <1>3 DEF Ids
<1> QED
  BY <1>4 DEF t

LEMMA IdsTaken ==
  ASSUME NEW T, NEW s \in Seq(T), s # << >>
  PROVE  /\ Head(s).id = 0 => Ids(s) = Ids(Tail(s))
         /\ Head(s).id # 0 => Ids(s) = Ids(Tail(s)) \cup {Head(s).id}
<1> DEFINE t == Tail(s)
           h == Head(s)
<1>1. /\ DOMAIN s = 1 .. Len(s) /\ Len(s) \in Nat /\ Len(s) > 0
      /\ DOMAIN t = 1 .. Len(s) - 1
      /\ \A i \in DOMAIN t : t[i] = s[i + 1]
      /\ h = s[1]
  OBVIOUS
<1> HIDE DEF t, h
<1>2. \A i \in DOMAIN s : i = 1 \/ (i - 1 \in DOMAIN t /\ s[i] = t[i - 1])
  BY <1>1
<1>3. 1 \in DOMAIN s /\ \A i \in DOMAIN t : i + 1 \in DOMAIN s
  BY <1>1
<1>4. Ids(t) \subseteq Ids(s) /\ (h.id # 0 => h.id \in Ids(s))
  BY <1>1, <1>3 DEF Ids
<1>5. \A x \in Ids(s) : x = h.id \/ x \in Ids(t)
  BY <1>1, <1>2 DEF Ids
<1>6. 0 \notin Ids(s)
  BY DEF Ids
<1>7. /\ h.id = 0 => Ids(s) = Ids(t)
      /\ h.id # 0 => Ids(s) = Ids(t) \cup {h.id}
  BY <1>4, <1>5, <1>6
<1> QED
  BY <1>7 DEF t, h

LEMMA RisingQueue ==
  ASSUME NEW T, \A x \in T : x.id \in Nat, NEW s \in Seq(T), Rising(s)
  PROVE  /\ \A x \in T : x.id = 0 \/ Before(Ids(s), {x.id}) => Rising(Append(s, x))
         /\ \A x \in T : x.id = 0 => Rising(<<x>> \o s)
         /\ s # << >> => /\ Rising(Tail(s))
                         /\ Head(s).id # 0 => Before({Head(s).id}, Ids(Tail(s)))
<1>1. ASSUME NEW x \in T, x.id = 0 \/ Before(Ids(s), {x.id}) PROVE Rising(Append(s, x))
  <2>1. /\ DOMAIN Append(s, x) = 1 .. Len(s) + 1 /\ Len(s) \in Nat /\ DOMAIN s = 1 .. Len(s)
        /\ \A i \in DOMAIN s : Append(s, x)[i] = s[i] /\ s[i].id \in Nat
        /\ Append(s, x)[Len(s) + 1] = x
    OBVIOUS
  <2>2. x.id = 0 \/ \A i \in DOMAIN s : s[i].id # 0 => s[i].id < x.id
    BY <1>1 DEF Before, Ids
  <2> QED
    BY <2>1, <2>2 DEF Rising
<1>2. ASSUME NEW x \in T, x.id = 0 PROVE Rising(<<x>> \o s)
  <2> DEFINE t == <<x>> \o s
  <2>1. /\ DOMAIN t = 1 .. Len(s) + 1 /\ DOMAIN s = 1 .. Len(s) /\ Len(s) \in Nat
        /\ \A i \in DOMAIN s : t[i + 1] = s[i]
        /\ t[1] = x
    OBVIOUS
  <2> HIDE DEF t
  <2>2. \A i \in DOMAIN t : i = 1 \/ (i - 1 \in DOMAIN s /\ t[i] = s[i - 1])
    BY <2>1
  <2>3. Rising(t)
    <3> SUFFICES ASSUME NEW i \in DOMAIN t, NEW j \in DOMAIN t, i < j, t[i].id # 0, t[j].id # 0
                 PROVE  t[i].id < t[j].id
      BY DEF Rising
    <3>1. i # 1 /\ j # 1
      BY <1>2, <2>1
    <3>2. i - 1 \in DOMAIN s /\ j - 1 \in DOMAIN s /\ i - 1 < j - 1
          /\ t[i] = s[i - 1] /\ t[j] = s[j - 1]
      BY <2>1, <2>2, <3>1
    <3> QED
      BY <3>2 DEF Rising
  <2> QED
    BY <2>3 DEF t
<1>3. ASSUME s # << >>
      PROVE  Rising(Tail(s)) /\ (Head(s).id # 0 => Before({Head(s).id}, Ids(Tail(s))))
  <2> DEFINE t == Tail(s)
             h == Head(s)
  <2>1. /\ DOMAIN s = 1 .. Len(s) /\ Len(s) \in Nat /\ Len(s) > 0
        /\ DOMAIN t = 1 .. Len(s) - 1
        /\ \A i \in DOMAIN t : t[i] = s[i + 1]
        /\ h = s[1]
    BY <1>3
  <2> HIDE DEF t, h
  <2>2. \A i \in DOMAIN t : i \in Nat /\ i + 1 \in DOMAIN s /\ i > 0
    BY <2>1
  <2>3. Rising(t)
    <3> SUFFICES ASSUME NEW i \in DOMAIN t, NEW j \in DOMAIN t, i < j, t[i].id # 0, t[j].id # 0
                 PROVE  t[i].id < t[j].id
      BY DEF Rising
    <3>1. i + 1 \in DOMAIN s /\ j + 1 \in DOMAIN s /\ i + 1 < j + 1
          /\ t[i] = s[i + 1] /\ t[j] = s[j + 1]
      BY <2>1, <2>2
    <3> QED
      BY <3>1 DEF Rising
  <2>4. h.id # 0 => Before({h.id}, Ids(t))
    <3> SUFFICES ASSUME h.id # 0, NEW i \in DOMAIN t, t[i].id # 0 PROVE h.id < t[i].id
      BY DEF Before, Ids
    <3>1. 1 \in DOMAIN s /\ i + 1 \in DOMAIN s /\ 1 < i + 1 /\ t[i] = s[i + 1]
      BY <2>1, <2>2
    <3> QED
      BY <2>1, <3>1 DEF Rising
  <2> QED
    BY <2>3, <2>4 DEF t, h
<1> QED
  BY <1>1, <1>2, <1>3

LEMMA IdTypes ==
  /\ \A x \in Event : x.id \in Nat
  /\ \A x \in Frame : x.id \in Nat
  /\ \A x \in Command : x.id \in Nat
BY DEF Event, Frame, Command

\* What no operation has a part in changes no ids: a lifecycle event posted, ...
LEMMA NewsKept ==
  ASSUME TypeOK, NewsTagged, Rising(news), drained' = drained,
         events' = events \/ \E kind \in LifecycleEvent : Post(Ev(kind))
  PROVE  NewsTagged' /\ Rising(news)' /\ Ids(news)' = Ids(news)
<1>1. news \in Seq(Event)
  BY NewsSeq
<1>2. CASE events' = events
  BY <1>2 DEF NewsTagged, Rising, Ids, news
<1>3. ASSUME NEW kind \in LifecycleEvent, Post(Ev(kind))
      PROVE  NewsTagged' /\ Rising(news)' /\ Ids(news)' = Ids(news)
  <2>1. Ev(kind) \in Event /\ Ev(kind).id = 0 /\ Ev(kind).kind # "COMPLETE"
    BY Messages DEF Ev, LifecycleEvent
  <2>2. news' = Append(news, Ev(kind))
    BY <1>3, <2>1, WorkerNews
  <2>3. Rising(news') /\ Ids(news') = Ids(news)
    <3>1. Rising(Append(news, Ev(kind)))
      BY <1>1, <2>1, IdTypes, RisingQueue
    <3>2. Ids(Append(news, Ev(kind))) = Ids(news)
      BY <1>1, <2>1, IdsAppended
    <3> QED
      BY <2>1, <2>2, <3>1, <3>2
  <2>4. NewsTagged'
    BY <1>1, <2>1, <2>2 DEF NewsTagged
  <2>5. Rising(news)' = Rising(news') /\ Ids(news)' = Ids(news')
    BY DEF Rising, Ids
  <2> QED
    BY <2>3, <2>4, <2>5
<1> QED
  BY <1>2, <1>3

\* ... a CONNECT or DISCONNECT enqueued, ...
LEMMA CommandsKept ==
  ASSUME TypeOK, CommandsTagged, Rising(commands),
         \/ commands' = commands
         \/ \E kind \in {"CONNECT", "DISCONNECT"} : commands' = Append(commands, Cmd(kind))
  PROVE  CommandsTagged' /\ Rising(commands)' /\ Ids(commands)' = Ids(commands)
<1>1. commands \in Seq(Command)
  BY DEF TypeOK
<1>2. CASE commands' = commands
  BY <1>2 DEF CommandsTagged, Rising, Ids
<1>3. ASSUME NEW kind \in {"CONNECT", "DISCONNECT"}, commands' = Append(commands, Cmd(kind))
      PROVE  CommandsTagged' /\ Rising(commands)' /\ Ids(commands)' = Ids(commands)
  <2>1. Cmd(kind) \in Command /\ Cmd(kind).id = 0 /\ Cmd(kind).kind \notin OpKinds
    BY Messages, GattClientAssumption DEF Cmd
  <2>2. Rising(commands') /\ Ids(commands') = Ids(commands)
    <3>1. Rising(Append(commands, Cmd(kind)))
      BY <1>1, <2>1, IdTypes, RisingQueue
    <3>2. Ids(Append(commands, Cmd(kind))) = Ids(commands)
      BY <1>1, <2>1, IdsAppended
    <3> QED
      BY <1>3, <3>1, <3>2
  <2>3. CommandsTagged'
    BY <1>1, <1>3, <2>1 DEF CommandsTagged
  <2>4. Rising(commands)' = Rising(commands') /\ Ids(commands)' = Ids(commands')
    BY DEF Rising, Ids
  <2> QED
    BY <2>2, <2>3, <2>4
<1> QED
  BY <1>2, <1>3

\* ... a call that returns, or the next one, that is no operation's.
LEMMA CallsKept ==
  ASSUME TypeOK, CallsTagged, Rising(calls),
         NEW rest, \/ rest = calls
                   \/ calls # << >> /\ Head(calls).call # "op" /\ rest = Tail(calls),
         \/ calls' = rest
         \/ \E name \in CallName \ {"op"} : calls' = <<Call(name)>> \o rest
  PROVE  CallsTagged' /\ Rising(calls)' /\ Ids(calls)' = Ids(calls)
<1> DEFINE Tag(s) == \A i \in DOMAIN s : s[i].call = "op" <=> s[i].id # 0
<1>1. calls \in Seq(Frame) /\ Tag(calls)
  BY DEF TypeOK, CallsTagged
<1>2. rest \in Seq(Frame) /\ Rising(rest) /\ Ids(rest) = Ids(calls) /\ Tag(rest)
  <2>1. CASE rest = calls
    BY <1>1, <2>1
  <2>2. CASE calls # << >> /\ Head(calls).call # "op" /\ rest = Tail(calls)
    <3>1. Head(calls).id = 0 /\ rest \in Seq(Frame)
      BY <1>1, <2>2
    <3>2. Rising(rest) /\ Ids(rest) = Ids(calls)
      <4>1. Rising(Tail(calls))
        BY <1>1, <2>2, IdTypes, RisingQueue
      <4>2. Ids(calls) = Ids(Tail(calls))
        BY <1>1, <2>2, <3>1, IdsTaken
      <4> QED
        BY <2>2, <4>1, <4>2
    <3>3. Tag(rest)
      BY <1>1, <2>2
    <3> QED
      BY <3>1, <3>2, <3>3
  <2> QED
    BY <2>1, <2>2
<1>3. Rising(calls)' = Rising(calls') /\ Ids(calls)' = Ids(calls') /\ CallsTagged' = Tag(calls')
  BY DEF Rising, Ids, CallsTagged
<1>4. CASE calls' = rest
  BY <1>2, <1>3, <1>4
<1>5. ASSUME NEW name \in CallName \ {"op"}, calls' = <<Call(name)>> \o rest
      PROVE  CallsTagged' /\ Rising(calls)' /\ Ids(calls)' = Ids(calls)
  <2>1. Call(name) \in Frame /\ Call(name).id = 0 /\ Call(name).call # "op"
    BY Messages DEF Call
  <2>2. Rising(calls') /\ Ids(calls') = Ids(calls)
    <3>1. Rising(<<Call(name)>> \o rest)
      BY <1>2, <2>1, IdTypes, RisingQueue
    <3>2. Ids(<<Call(name)>> \o rest) = Ids(rest)
      BY <1>2, <2>1, IdsPushed
    <3> QED
      BY <1>2, <1>5, <3>1, <3>2
  <2>3. Tag(calls')
    BY <1>2, <1>5, <2>1
  <2> QED
    BY <1>3, <2>2, <2>3
<1> QED
  BY <1>4, <1>5

LEMMA Intervals ==
  ASSUME NEW l \in Nat, NEW n \in Nat, l <= n
  PROVE  (l + 1 .. n) \cup {n + 1} = l + 1 .. n + 1
<1>1. \A x : x \in (l + 1 .. n) \cup {n + 1} <=> x \in l + 1 .. n + 1
  OBVIOUS
<1> QED
  BY <1>1

ChannelStep == ChannelInv' /\ [Channel!Next]_(Channel!chanVars)

\* A step no operation has a part in.
LEMMA ChannelKept ==
  ASSUME ChannelInv, LoopClean', UNCHANGED <<batch, done>>, used'["op"] = used["op"],
         NewsTagged' /\ Rising(news)' /\ Ids(news)' = Ids(news),
         CommandsTagged' /\ Rising(commands)' /\ Ids(commands)' = Ids(commands),
         CallsTagged' /\ Rising(calls)' /\ Ids(calls)' = Ids(calls)
  PROVE  ChannelStep
<1>1. BatchTagged' /\ Rising(batch)' /\ Ids(batch)' = Ids(batch)
  BY DEF ChannelInv, Tagged, AllRising, BatchTagged, Rising, Ids
<1>2. Tagged' /\ AllRising'
  BY <1>1 DEF Tagged, AllRising
<1>3. InOrder' /\ InFlight' = InFlight
  BY <1>1 DEF ChannelInv, InOrder, InFlight, Before
<1>4. UNCHANGED Channel!chanVars
  BY DEF Channel!chanVars
<1> QED
  BY <1>2, <1>3, <1>4 DEF ChannelInv, ChannelStep

\* The main thread: an operation joins commands_ with the next id, and the
\* answer at the front of the news is the one that is due.
LEMMA MainChannel ==
  ASSUME TypeOK, ChannelInv, Main
  PROVE  ChannelStep
<1>1. /\ commands \in Seq(Command) /\ news \in Seq(Event) /\ done \in Seq(Nat)
      /\ used \in [Actor -> Nat] /\ Len(done) \in Nat /\ used["op"] \in Nat
  BY NewsSeq DEF TypeOK, Actor
<1>2. LoopClean' /\ UNCHANGED <<batch, calls>>
  BY MainNews DEF ChannelInv, workerVars
<1>3. CallsTagged' /\ Rising(calls)' /\ Ids(calls)' = Ids(calls)
  BY <1>2 DEF ChannelInv, Tagged, AllRising, CallsTagged, Rising, Ids
<1>4. ASSUME news' = news
      PROVE  NewsTagged' /\ Rising(news)' /\ Ids(news)' = Ids(news)
  <2>1. NewsTagged /\ Rising(news)
    BY DEF ChannelInv, Tagged, AllRising
  <2> QED
    BY <1>4, <2>1 DEF NewsTagged, Rising, Ids
<1>5. ASSUME \/ commands' = commands
             \/ commands' = Append(commands, Cmd("CONNECT"))
             \/ commands' = DisconnectCommand(client)
      PROVE  CommandsTagged' /\ Rising(commands)' /\ Ids(commands)' = Ids(commands)
  <2>1. CommandsTagged /\ Rising(commands)
    BY DEF ChannelInv, Tagged, AllRising
  <2> QED
    BY <1>5, <2>1, CommandsKept DEF DisconnectCommand
<1>6. ASSUME NEW a \in Actor \ {"op"}, Spend(a) PROVE used'["op"] = used["op"]
  BY <1>1, <1>6 DEF Spend, Actor
<1>7. CASE \/ Advertise \/ TrackerConnect \/ UserConnect \/ UserDisconnect
           \/ LoopDrain \/ LoopEnd
  <2>1. done' = done
    BY <1>7 DEF Advertise, TrackerConnect, UserConnect, ClientConnect, UserDisconnect,
                LoopDrain, LoopEnd, ConnectTimeout, DisconnectTimeout, NoTimeoutDue
  <2>2. used'["op"] = used["op"]
    BY <1>6, <1>7 DEF Advertise, TrackerConnect, UserConnect, UserDisconnect,
                LoopDrain, LoopEnd, ConnectTimeout, DisconnectTimeout, NoTimeoutDue, Actor
  <2>3. \/ commands' = commands
        \/ commands' = Append(commands, Cmd("CONNECT"))
        \/ commands' = DisconnectCommand(client)
    BY <1>7 DEF Advertise, TrackerConnect, UserConnect, ClientConnect, UserDisconnect,
                LoopDrain, LoopEnd, ConnectTimeout, DisconnectTimeout, NoTimeoutDue, queueVars
  <2>4. news' = news
    <3>1. CASE LoopDrain
      <4>1. drained = << >>
        BY <3>1 DEF LoopDrain, ChannelInv, LoopClean
      <4>2. \/ drained' = events /\ events' = << >>
            \/ drained' = << >> /\ events' = events
        BY <3>1 DEF LoopDrain
      <4> QED
        BY <4>1, <4>2, NewsSeq DEF news
    <3>2. CASE ~LoopDrain
      BY <1>7, <3>2, QuietNews
         DEF Advertise, TrackerConnect, UserConnect, ClientConnect, UserDisconnect,
             LoopEnd, ConnectTimeout, DisconnectTimeout, NoTimeoutDue, queueVars
    <3> QED
      BY <3>1, <3>2
  <2> QED
    BY <1>2, <1>3, <1>4, <1>5, <2>1, <2>2, <2>3, <2>4, ChannelKept
<1>8. ASSUME NEW kind \in OpKinds, IssueOp(kind) PROVE ChannelStep
  <2> DEFINE n == used["op"]
             x == [kind |-> kind, id |-> n + 1]
  <2>1. /\ used'["op"] = n + 1 /\ commands' = Append(commands, x)
        /\ done' = done /\ news' = news
    BY <1>1, <1>8, QuietNews DEF IssueOp, Spend, mainVars, Actor
  <2>2. x \in Command /\ x.id = n + 1 /\ x.kind = kind
    BY <1>1 DEF Command
  <2> HIDE DEF x
  <2>3. InFlight = Len(done) + 1 .. n
    BY DEF ChannelInv
  <2>4. Before(InFlight, {n + 1})
    BY <1>1, <2>3 DEF Before
  <2>5. Rising(commands') /\ Ids(commands') = Ids(commands) \cup {n + 1}
    <3>1. Before(Ids(commands), {x.id}) /\ Rising(commands)
      BY <2>2, <2>4 DEF Before, InFlight, ChannelInv, AllRising
    <3>2. Rising(Append(commands, x))
      BY <1>1, <2>2, <3>1, IdTypes, RisingQueue
    <3>3. Ids(Append(commands, x)) = Ids(commands) \cup {n + 1}
      <4>1. x.id # 0
        BY <1>1, <2>2
      <4> QED
        BY <1>1, <2>2, <4>1, IdsAppended
    <3> QED
      BY <2>1, <3>2, <3>3
  <2>6. CommandsTagged'
    <3>1. CommandsTagged /\ x.id # 0
      BY <1>1, <2>2 DEF ChannelInv, Tagged
    <3> QED
      BY <1>1, <2>1, <2>2, <3>1 DEF CommandsTagged
  <2>7. Rising(commands)' /\ Ids(commands)' = Ids(commands) \cup {n + 1}
    BY <2>5 DEF Rising, Ids
  <2>8. BatchTagged' /\ Rising(batch)' /\ Ids(batch)' = Ids(batch)
    BY <1>2 DEF ChannelInv, Tagged, AllRising, BatchTagged, Rising, Ids
  <2>9. NewsTagged' /\ Rising(news)' /\ Ids(news)' = Ids(news)
    BY <1>4, <2>1
  <2>10. Tagged' /\ AllRising'
    BY <1>3, <2>6, <2>7, <2>8, <2>9 DEF Tagged, AllRising
  <2>11. InFlight' = InFlight \cup {n + 1}
    BY <1>3, <2>7, <2>8, <2>9 DEF InFlight
  <2>12. InOrder'
    BY <1>3, <2>4, <2>7, <2>8, <2>9 DEF InOrder, InFlight, Before, ChannelInv
  <2>13. InFlight' = Len(done') + 1 .. used'["op"]
    <3>1. Len(done) <= n
      BY DEF ChannelInv
    <3>2. (Len(done) + 1 .. n) \cup {n + 1} = Len(done) + 1 .. n + 1
      BY <1>1, <3>1, Intervals
    <3> QED
      BY <2>1, <2>3, <2>11, <3>2
  <2>14. Channel!Issue
    BY <2>1 DEF Channel!Issue
  <2>15. Len(done') <= used'["op"]
    BY <1>1, <2>1 DEF ChannelInv
  <2> QED
    BY <1>2, <2>10, <2>12, <2>13, <2>14, <2>15 DEF ChannelInv, ChannelStep, Channel!Next
<1>9. CASE DispatchEvent
  <2> DEFINE e == Head(drained)
             n == used["op"]
  <2>1. /\ drained # << >> /\ drained' = Tail(drained) /\ events' = events
        /\ used' = used
        /\ done' = IF e.kind = "COMPLETE" THEN Append(done, e.id) ELSE done
        /\ \/ commands' = commands
           \/ commands' = DisconnectCommand(client)
    BY <1>9 DEF DispatchEvent
  <2>2. /\ news # << >> /\ news' = Tail(news) /\ e = Head(news) /\ Tail(news) \in Seq(Event)
        /\ e \in Event /\ e.id \in Nat
    BY <1>1, <2>1, NewsSeq, IdTypes DEF news
  <2> HIDE DEF e
  <2>3. CommandsTagged' /\ Rising(commands)' /\ Ids(commands)' = Ids(commands)
    BY <1>5, <2>1
  <2>4. BatchTagged' /\ Rising(batch)' /\ Ids(batch)' = Ids(batch)
    BY <1>2 DEF ChannelInv, Tagged, AllRising, BatchTagged, Rising, Ids
  <2>5. NewsTagged' /\ (e.kind = "COMPLETE" <=> e.id # 0)
    <3>1. NewsTagged
      BY DEF ChannelInv, Tagged
    <3> QED
      BY <1>1, <2>2, <3>1 DEF NewsTagged
  <2>6. Rising(news)' /\ Ids(news)' = Ids(Tail(news))
    <3>1. Rising(Tail(news))
      BY <1>1, <2>2, IdTypes, RisingQueue DEF ChannelInv, AllRising
    <3> QED
      BY <2>2, <3>1 DEF Rising, Ids
  <2>7. CASE e.id = 0
    <3>1. Ids(Tail(news)) = Ids(news)
      BY <1>1, <2>2, <2>7, IdsTaken
    <3>2. Ids(news)' = Ids(news) /\ done' = done
      BY <2>1, <2>5, <2>6, <2>7, <3>1
    <3> QED
      BY <1>2, <1>3, <2>1, <2>3, <2>5, <2>6, <3>2, ChannelKept
  <2>8. CASE e.id # 0
    <3>1. Ids(news) = Ids(Tail(news)) \cup {e.id} /\ Before({e.id}, Ids(Tail(news)))
      <4>1. Ids(news) = Ids(Tail(news)) \cup {e.id}
        BY <1>1, <2>2, <2>8, IdsTaken
      <4>2. Before({e.id}, Ids(Tail(news)))
        BY <1>1, <2>2, <2>8, IdTypes, RisingQueue DEF ChannelInv, AllRising
      <4> QED
        BY <4>1, <4>2
    <3>2. InFlight' \cup {e.id} = InFlight /\ Before({e.id}, InFlight')
      BY <1>3, <2>3, <2>4, <2>6, <3>1 DEF InFlight, InOrder, ChannelInv, Before
    <3>3. InFlight = Len(done) + 1 .. n /\ Len(done) <= n
      BY DEF ChannelInv
    <3>4. e.id \in Len(done) + 1 .. n
      BY <3>2, <3>3
    <3>5. \A x \in Len(done) + 1 .. n : x = e.id \/ e.id < x
      BY <3>2, <3>3 DEF Before
    <3>6. e.id = Len(done) + 1 /\ Len(done) < n
      BY <1>1, <2>2, <3>4, <3>5
    <3>7. e.id \notin InFlight'
      BY <2>2, <3>2 DEF Before
    <3>8. done' = Append(done, Len(done) + 1) /\ Len(done') = Len(done) + 1
      BY <1>1, <2>1, <2>5, <2>8, <3>6
    <3>9. InFlight' = Len(done') + 1 .. used'["op"]
      <4>1. (Len(done) + 1 .. n) \ {Len(done) + 1} = Len(done) + 2 .. n
        BY <1>1
      <4>2. InFlight' = (Len(done) + 1 .. n) \ {Len(done) + 1}
        BY <3>2, <3>3, <3>6, <3>7
      <4> QED
        BY <1>1, <2>1, <3>8, <4>1, <4>2
    <3>10. InOrder'
      BY <1>3, <2>3, <2>4, <2>6, <3>1 DEF InOrder, ChannelInv, Before
    <3>11. Tagged' /\ AllRising'
      BY <1>3, <2>3, <2>4, <2>5, <2>6 DEF Tagged, AllRising
    <3>12. Channel!Answer
      BY <2>1, <3>6, <3>8 DEF Channel!Answer
    <3>13. Len(done') <= used'["op"]
      BY <1>1, <2>1, <3>6, <3>8
    <3> QED
      BY <1>2, <3>9, <3>10, <3>11, <3>12, <3>13 DEF ChannelInv, ChannelStep, Channel!Next
  <2> QED
    BY <2>7, <2>8
<1> QED
  BY <1>7, <1>8, <1>9 DEF Main

\* The worker posts the answer to an operation.
LEMMA NewsAnswered ==
  ASSUME TypeOK, NewsTagged, Rising(news), drained' = drained,
         NEW id \in Nat \ {0}, Post(Complete(id)), Before(Ids(news), {id})
  PROVE  NewsTagged' /\ Rising(news)' /\ Ids(news)' = Ids(news) \cup {id}
<1>1. news \in Seq(Event)
  BY NewsSeq
<1>2. /\ Complete(id) \in Event /\ Complete(id).id = id /\ Complete(id).id # 0
      /\ Complete(id).kind = "COMPLETE"
  BY Messages DEF Complete
<1>3. news' = Append(news, Complete(id))
  BY <1>2, WorkerNews
<1>4. Rising(Append(news, Complete(id)))
  BY <1>1, <1>2, IdTypes, RisingQueue
<1>5. Ids(Append(news, Complete(id))) = Ids(news) \cup {id}
  BY <1>1, <1>2, IdsAppended
<1>6. NewsTagged'
  BY <1>1, <1>2, <1>3 DEF NewsTagged
<1>7. Rising(news)' /\ Ids(news)' = Ids(news) \cup {id}
  BY <1>3, <1>4, <1>5 DEF Rising, Ids
<1> QED
  BY <1>6, <1>7

\* An operation moves on by one place: the ids in flight stay the same.
LEMMA ChannelMoves ==
  ASSUME ChannelInv, LoopClean', Tagged', AllRising', InOrder', InFlight' = InFlight,
         done' = done, used' = used
  PROVE  ChannelStep
BY DEF ChannelInv, ChannelStep, Channel!chanVars

LEMMA RunCommandChannel ==
  ASSUME TypeOK, ChannelInv, RunCommand
  PROVE  ChannelStep
<1> DEFINE x == Head(batch)
<1>1. /\ calls = << >> /\ batch # << >> /\ batch' = Tail(batch) /\ batch \in Seq(Command)
      /\ UNCHANGED <<inLoop, drained, done, commands, used>>
  BY DEF RunCommand, TypeOK, mainVars
<1>2. x \in Command /\ x.id \in Nat /\ Ids(calls) = {} /\ Tail(batch) \in Seq(Command)
  BY <1>1, IdTypes DEF Ids
<1>3. /\ LoopClean' /\ NewsTagged /\ CallsTagged /\ BatchTagged /\ CommandsTagged
      /\ Rising(news) /\ Rising(calls) /\ Rising(batch) /\ Rising(commands)
  BY <1>1 DEF ChannelInv, LoopClean, Tagged, AllRising
<1>4. CommandsTagged' /\ Rising(commands)' /\ Ids(commands)' = Ids(commands)
  BY <1>1, <1>3 DEF CommandsTagged, Rising, Ids
<1>5. BatchTagged' /\ (x.kind \in OpKinds <=> x.id # 0)
  BY <1>1, <1>3 DEF BatchTagged
<1>6. Rising(batch)' /\ Ids(batch)' = Ids(Tail(batch))
  <2>1. Rising(Tail(batch))
    BY <1>1, <1>3, IdTypes, RisingQueue
  <2> QED
    BY <1>1, <2>1 DEF Rising, Ids
<1>7. CASE x.kind \in {"CONNECT", "DISCONNECT"}
  <2>1. x.id = 0
    BY <1>5, <1>7, GattClientAssumption
  <2>2. Ids(batch)' = Ids(batch)
    BY <1>1, <1>6, <2>1, IdsTaken
  <2>3. events' = events \/ Post(Ev("DISCONNECTED"))
    BY <1>7, GattClientAssumption DEF RunCommand, DoConnect, DoDisconnect
  <2>4. NewsTagged' /\ Rising(news)' /\ Ids(news)' = Ids(news)
    BY <1>1, <1>3, <2>3, NewsKept DEF LifecycleEvent
  <2>5. calls' = calls \/ \E name \in CallName \ {"op"} : calls' = <<Call(name)>> \o calls
    BY <1>1, <1>7, GattClientAssumption DEF RunCommand, DoConnect, DoDisconnect, CallName
  <2>6. CallsTagged' /\ Rising(calls)' /\ Ids(calls)' = Ids(calls)
    BY <1>3, <2>5, CallsKept
  <2>7. Tagged' /\ AllRising'
    BY <1>4, <1>5, <1>6, <2>4, <2>6 DEF Tagged, AllRising
  <2>8. InOrder' /\ InFlight' = InFlight
    BY <1>4, <2>2, <2>4, <2>6 DEF ChannelInv, InOrder, InFlight, Before
  <2> QED
    BY <1>1, <1>3, <2>7, <2>8, ChannelMoves
<1>8. CASE x.kind \in OpKinds
  <2>1. x.id # 0 /\ DoOp(x)
    BY <1>5, <1>8, GattClientAssumption DEF RunCommand
  <2>2. Ids(batch) = Ids(Tail(batch)) \cup {x.id} /\ Before({x.id}, Ids(Tail(batch)))
    <3>1. Ids(batch) = Ids(Tail(batch)) \cup {x.id}
      BY <1>1, <2>1, IdsTaken
    <3>2. Before({x.id}, Ids(Tail(batch)))
      BY <1>1, <1>3, <2>1, IdTypes, RisingQueue
    <3> QED
      BY <3>1, <3>2
  <2>3. Before(Ids(news), {x.id}) /\ Before({x.id}, Ids(commands))
    BY <2>2 DEF ChannelInv, InOrder, Before
  <2>4. CASE NeedsCall(x.kind)
    <3> DEFINE f == [call |-> "op", id |-> x.id]
    <3>1. calls' = <<f>> /\ events' = events
      BY <2>1, <2>4 DEF DoOp
    <3>2. NewsTagged' /\ Rising(news)' /\ Ids(news)' = Ids(news)
      BY <1>1, <1>3, <3>1, NewsKept
    <3>3. CallsTagged' /\ Rising(calls)'
      BY <2>1, <3>1 DEF CallsTagged, Rising
    <3>4. Ids(calls)' = {x.id}
      <4>1. Ids(<<f>>) = {f.id}
        BY <2>1 DEF Ids
      <4> QED
        BY <3>1, <4>1 DEF Ids
    <3>5. Tagged' /\ AllRising'
      BY <1>4, <1>5, <1>6, <3>2, <3>3 DEF Tagged, AllRising
    <3>6. InOrder' /\ InFlight' = InFlight
      BY <1>2, <1>4, <1>6, <2>2, <2>3, <3>2, <3>4 DEF ChannelInv, InOrder, InFlight, Before
    <3> QED
      BY <1>1, <1>3, <3>5, <3>6, ChannelMoves
  <2>5. CASE ~NeedsCall(x.kind)
    <3>1. calls' = calls /\ Post(Complete(x.id))
      BY <1>1, <2>1, <2>5 DEF DoOp
    <3>2. NewsTagged' /\ Rising(news)' /\ Ids(news)' = Ids(news) \cup {x.id}
      BY <1>1, <1>2, <1>3, <2>1, <2>3, <3>1, NewsAnswered
    <3>3. CallsTagged' /\ Rising(calls)' /\ Ids(calls)' = {}
      BY <1>2, <1>3, <3>1 DEF CallsTagged, Rising, Ids
    <3>4. Tagged' /\ AllRising'
      BY <1>4, <1>5, <1>6, <3>2, <3>3 DEF Tagged, AllRising
    <3>5. InOrder' /\ InFlight' = InFlight
      BY <1>2, <1>4, <1>6, <2>2, <2>3, <3>2, <3>3 DEF ChannelInv, InOrder, InFlight, Before
    <3> QED
      BY <1>1, <1>3, <3>4, <3>5, ChannelMoves
  <2> QED
    BY <2>4, <2>5
<1> QED
  BY <1>2, <1>7, <1>8 DEF Command

\* The worker: commands move to the batch, one of them to a call or to its
\* answer, a call to its answer.
LEMMA WorkerChannel ==
  ASSUME TypeOK, ChannelInv, Worker
  PROVE  ChannelStep
<1>1. UNCHANGED <<inLoop, drained, done, used>>
  BY OthersKeepMain DEF mainVars, Worker, TakeCommands, RunCommand, DeliverSignal, CallReturns,
         GetConnectedReturns, ConnectSucceeds, ConnectFails, PollConnectedReturns,
         PollResolvedReturns, WalkSucceeds, WalkFails, GapReturns, MtuReturns,
         DisconnectReturns, OpReturns
<1>2. /\ LoopClean' /\ NewsTagged /\ CallsTagged /\ BatchTagged /\ CommandsTagged
      /\ Rising(news) /\ Rising(calls) /\ Rising(batch) /\ Rising(commands)
  BY <1>1 DEF ChannelInv, LoopClean, Tagged, AllRising
<1>3. calls \in Seq(Frame)
  BY DEF TypeOK
<1>4. ASSUME UNCHANGED <<batch, commands>>,
             events' = events \/ \E kind \in LifecycleEvent : Post(Ev(kind)),
             NEW rest, \/ rest = calls
                       \/ calls # << >> /\ Head(calls).call # "op" /\ rest = Tail(calls),
             \/ calls' = rest
             \/ \E name \in CallName \ {"op"} : calls' = <<Call(name)>> \o rest
      PROVE  ChannelStep
  <2>1. NewsTagged' /\ Rising(news)' /\ Ids(news)' = Ids(news)
    BY <1>1, <1>2, <1>4, NewsKept
  <2>2. CommandsTagged' /\ Rising(commands)' /\ Ids(commands)' = Ids(commands)
    BY <1>2, <1>4, CommandsKept
  <2>3. CallsTagged' /\ Rising(calls)' /\ Ids(calls)' = Ids(calls)
    BY <1>2, <1>4, CallsKept
  <2> QED
    BY <1>1, <1>2, <1>4, <2>1, <2>2, <2>3, ChannelKept
<1>5. CASE TakeCommands
  <2>1. /\ batch = << >> /\ batch' = commands /\ commands' = << >>
        /\ calls' = calls /\ events' = events
    BY <1>5 DEF TakeCommands
  <2>2. NewsTagged' /\ Rising(news)' /\ Ids(news)' = Ids(news)
    BY <1>1, <1>2, <2>1, NewsKept
  <2>3. CallsTagged' /\ Rising(calls)' /\ Ids(calls)' = Ids(calls)
    BY <1>2, <2>1 DEF CallsTagged, Rising, Ids
  <2>4. /\ BatchTagged' /\ Rising(batch)' /\ Ids(batch)' = Ids(commands)
        /\ CommandsTagged' /\ Rising(commands)' /\ Ids(commands)' = {} /\ Ids(batch) = {}
    BY <1>2, <2>1 DEF BatchTagged, CommandsTagged, Rising, Ids
  <2>5. Tagged' /\ AllRising'
    BY <2>2, <2>3, <2>4 DEF Tagged, AllRising
  <2>6. InOrder' /\ InFlight' = InFlight
    BY <2>2, <2>3, <2>4 DEF ChannelInv, InOrder, InFlight, Before
  <2> QED
    BY <1>1, <1>2, <2>5, <2>6, ChannelMoves
<1>6. CASE RunCommand
  BY <1>6, RunCommandChannel
<1>7. CASE DeliverSignal
  <2>1. UNCHANGED <<batch, commands>>
    BY <1>7 DEF DeliverSignal
  <2>2. events' = events \/ \E kind \in LifecycleEvent : Post(Ev(kind))
    BY <1>7 DEF DeliverSignal, LinkCameUp, LinkWentDown, TryStartDiscovery, LifecycleEvent
  <2>3. calls' = calls \/ \E name \in CallName \ {"op"} : calls' = <<Call(name)>> \o calls
    BY <1>7 DEF DeliverSignal, LinkCameUp, LinkWentDown, TryStartDiscovery, CallName
  <2> QED
    BY <1>4, <2>1, <2>2, <2>3
<1>8. CASE CallReturns /\ ~OpReturns
  <2>1. calls # << >> /\ Head(calls).call # "op" /\ UNCHANGED <<batch, commands>>
    BY <1>8 DEF CallReturns, Returns, GetConnectedReturns, ConnectSucceeds, ConnectFails,
                PollConnectedReturns, PollResolvedReturns, WalkSucceeds, WalkFails,
                GapReturns, MtuReturns, DisconnectReturns, queueVars
  <2>2. events' = events \/ \E kind \in LifecycleEvent : Post(Ev(kind))
    BY <1>8 DEF CallReturns, GetConnectedReturns, ConnectSucceeds, ConnectFails,
                PollConnectedReturns, PollResolvedReturns, WalkSucceeds, WalkFails,
                GapReturns, MtuReturns, DisconnectReturns, queueVars, LinkCameUp,
                TryStartDiscovery, DoDisconnect, LifecycleEvent
  <2>3. \/ calls' = Tail(calls)
        \/ \E name \in CallName \ {"op"} : calls' = <<Call(name)>> \o Tail(calls)
    BY <1>8 DEF CallReturns, GetConnectedReturns, ConnectSucceeds, ConnectFails,
                PollConnectedReturns, PollResolvedReturns, WalkSucceeds, WalkFails,
                GapReturns, MtuReturns, DisconnectReturns, LinkCameUp,
                TryStartDiscovery, DoDisconnect, CallName
  <2> QED
    BY <1>4, <2>1, <2>2, <2>3
<1>9. CASE OpReturns
  <2> DEFINE f == Head(calls)
  <2>1. /\ calls # << >> /\ f.call = "op" /\ calls' = Tail(calls) /\ Post(Complete(f.id))
        /\ UNCHANGED <<batch, commands>>
    BY <1>9 DEF OpReturns, Returns
  <2>2. f \in Frame /\ f.id \in Nat /\ f.id # 0 /\ Tail(calls) \in Seq(Frame)
    BY <1>2, <1>3, <2>1, IdTypes DEF CallsTagged
  <2>3. Ids(calls) = Ids(Tail(calls)) \cup {f.id} /\ Before({f.id}, Ids(Tail(calls)))
    <3>1. Ids(calls) = Ids(Tail(calls)) \cup {f.id}
      BY <1>3, <2>1, <2>2, IdsTaken
    <3>2. Before({f.id}, Ids(Tail(calls)))
      BY <1>2, <1>3, <2>1, <2>2, IdTypes, RisingQueue
    <3> QED
      BY <3>1, <3>2
  <2>4. Before(Ids(news), {f.id}) /\ Before({f.id}, Ids(batch)) /\ Before({f.id}, Ids(commands))
    BY <2>3 DEF ChannelInv, InOrder, Before
  <2>5. NewsTagged' /\ Rising(news)' /\ Ids(news)' = Ids(news) \cup {f.id}
    BY <1>1, <1>2, <2>1, <2>2, <2>4, NewsAnswered
  <2>6. CallsTagged' /\ Rising(calls)' /\ Ids(calls)' = Ids(Tail(calls))
    <3>1. Rising(Tail(calls))
      BY <1>2, <1>3, <2>1, IdTypes, RisingQueue
    <3>2. CallsTagged'
      BY <1>2, <1>3, <2>1 DEF CallsTagged
    <3> QED
      BY <2>1, <3>1, <3>2 DEF Rising, Ids
  <2>7. /\ BatchTagged' /\ Rising(batch)' /\ Ids(batch)' = Ids(batch)
        /\ CommandsTagged' /\ Rising(commands)' /\ Ids(commands)' = Ids(commands)
    BY <1>2, <2>1 DEF BatchTagged, CommandsTagged, Rising, Ids
  <2>8. Tagged' /\ AllRising'
    BY <2>5, <2>6, <2>7 DEF Tagged, AllRising
  <2>9. InOrder' /\ InFlight' = InFlight
    BY <2>3, <2>4, <2>5, <2>6, <2>7 DEF ChannelInv, InOrder, InFlight, Before
  <2> QED
    BY <1>1, <1>2, <2>8, <2>9, ChannelMoves
<1> QED
  BY <1>5, <1>6, <1>7, <1>8, <1>9 DEF Worker, CallReturns

\* The detailed client implements OpChannel, its fairness aside: operations
\* are numbered as they are accepted, and each is answered once, in order,
\* whatever becomes of the link, for both readings of Reentrant.
THEOREM AnswersInOrder ==
  Spec => Channel!Init /\ [][Channel!Next]_(Channel!chanVars)
<1>1. Init => ChannelInv /\ Channel!Init
  <2> SUFFICES ASSUME Init PROVE ChannelInv /\ Channel!Init
    OBVIOUS
  <2>1. /\ drained = << >> /\ events = << >> /\ calls = << >> /\ batch = << >>
        /\ commands = << >> /\ done = << >> /\ used["op"] = 0
    BY DEF Init, Actor
  <2>2. news = << >>
    BY <2>1 DEF news
  <2>3. Tagged /\ AllRising
    BY <2>1, <2>2 DEF Tagged, AllRising, NewsTagged, CallsTagged, BatchTagged,
                      CommandsTagged, Rising
  <2>4. Ids(news) = {} /\ Ids(calls) = {} /\ Ids(batch) = {} /\ Ids(commands) = {}
    BY <2>1, <2>2 DEF Ids
  <2>5. InOrder /\ InFlight = {}
    BY <2>4 DEF InOrder, InFlight, Before
  <2>6. InFlight = Len(done) + 1 .. used["op"] /\ Len(done) <= used["op"]
    BY <2>1, <2>5
  <2> QED
    BY <2>1, <2>3, <2>5, <2>6 DEF ChannelInv, LoopClean, Channel!Init
<1>2. TypeOK /\ ChannelInv /\ [Next]_vars => ChannelInv' /\ [Channel!Next]_(Channel!chanVars)
  <2> SUFFICES ASSUME TypeOK, ChannelInv, [Next]_vars PROVE ChannelStep
    BY DEF ChannelStep
  <2>1. CASE BlueZ \/ UNCHANGED vars
    <3>1. /\ UNCHANGED <<inLoop, drained, events, calls, batch, commands, done>>
          /\ used'["op"] = used["op"]
      BY <2>1 DEF BlueZ, LinkDrops, LinkRises, ServicesResolve, Spend, TypeOK, Actor,
                  vars, mainVars, workerVars, queueVars
    <3>2. /\ LoopClean' /\ NewsTagged' /\ Rising(news)' /\ Ids(news)' = Ids(news)
          /\ CommandsTagged' /\ Rising(commands)' /\ Ids(commands)' = Ids(commands)
          /\ CallsTagged' /\ Rising(calls)' /\ Ids(calls)' = Ids(calls)
      BY <3>1 DEF ChannelInv, LoopClean, Tagged, AllRising, NewsTagged, CommandsTagged,
                  CallsTagged, Rising, Ids, news
    <3> QED
      BY <3>1, <3>2, ChannelKept
  <2> QED
    BY <2>1, MainChannel, WorkerChannel DEF Next
<1> QED
  BY <1>1, <1>2, ClientTypeCorrect, PTL DEF Spec
=============================================================================
