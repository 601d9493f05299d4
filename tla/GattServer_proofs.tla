------------------------- MODULE GattServer_proofs -------------------------
(***************************************************************************)
(* Proofs about GattServer, for any devices, any connection id space and   *)
(* any bounds on the environment: types, the advertisement, the clients;   *)
(* and about ServerValues, for any payloads: the notifications.            *)
(***************************************************************************)
EXTENDS GattServer, ServerValues, FiniteSetTheorems, SequenceTheorems, TLAPS

-----------------------------------------------------------------------------
(* The inbox.                                                              *)

Failure == {"error", "exists", "release"}

\* A failure message is somewhere in queue q.
Failing(q) == \E i \in DOMAIN q : q[i].kind \in Failure

LEMMA AppendFailing ==
  ASSUME NEW q \in Seq(Message), NEW m \in Message
  PROVE  /\ Append(q, m) \in Seq(Message)
         /\ Failing(Append(q, m)) <=> Failing(q) \/ m.kind \in Failure
<1> DEFINE r == Append(q, m)
<1>1. r \in Seq(Message) /\ Len(r) = Len(q) + 1 /\ r[Len(q) + 1] = m
      /\ \A i \in 1 .. Len(q) : r[i] = q[i]
  OBVIOUS
<1>2. DOMAIN q = 1 .. Len(q) /\ DOMAIN r = 1 .. Len(r) /\ Len(q) \in Nat
  BY <1>1
<1>3. Failing(q) => Failing(r)
  BY <1>1, <1>2 DEF Failing
<1>4. m.kind \in Failure => Failing(r)
  BY <1>1, <1>2 DEF Failing
<1>5. Failing(r) => Failing(q) \/ m.kind \in Failure
  <2>1. SUFFICES ASSUME NEW i \in 1 .. Len(q) + 1, r[i].kind \in Failure
                 PROVE  Failing(q) \/ m.kind \in Failure
    BY <1>1, <1>2 DEF Failing
  <2>2. CASE i = Len(q) + 1
    BY <1>1, <2>1, <2>2
  <2>3. CASE i \in 1 .. Len(q)
    BY <1>1, <1>2, <2>1, <2>3 DEF Failing
  <2> QED
    BY <1>2, <2>2, <2>3
<1> QED
  BY <1>1, <1>3, <1>4, <1>5

\* Taking a message that is no failure leaves the failures where they are.
LEMMA TailFailing ==
  ASSUME NEW q \in Seq(Message), q # << >>
  PROVE  /\ Tail(q) \in Seq(Message) /\ Head(q) \in Message
         /\ Head(q).kind \notin Failure => (Failing(Tail(q)) <=> Failing(q))
         /\ Head(q).kind \in Failure => Failing(q)
<1> DEFINE r == Tail(q)
<1>1. r \in Seq(Message) /\ Head(q) \in Message /\ Head(q) = q[1]
      /\ Len(r) = Len(q) - 1 /\ \A i \in 1 .. Len(r) : r[i] = q[i + 1]
  OBVIOUS
<1>2. DOMAIN q = 1 .. Len(q) /\ DOMAIN r = 1 .. Len(r) /\ Len(q) \in Nat /\ Len(r) \in Nat
  BY <1>1
<1>3. ASSUME Head(q).kind \notin Failure PROVE Failing(q) => Failing(r)
  <2>1. SUFFICES ASSUME NEW i \in 1 .. Len(q), q[i].kind \in Failure PROVE Failing(r)
    BY <1>2 DEF Failing
  <2>2. i # 1
    BY <1>1, <1>3, <2>1
  <2>3. i - 1 \in 1 .. Len(r) /\ q[(i - 1) + 1] = q[i]
    BY <1>1, <1>2, <2>1, <2>2
  <2>4. r[i - 1] = q[i]
    BY <1>1, <2>3
  <2> QED
    BY <1>2, <2>1, <2>3, <2>4 DEF Failing
<1>4. Failing(r) => Failing(q)
  <2>1. SUFFICES ASSUME NEW i \in 1 .. Len(r), r[i].kind \in Failure PROVE Failing(q)
    BY <1>2 DEF Failing
  <2>2. i + 1 \in 1 .. Len(q) /\ q[i + 1] = r[i]
    BY <1>1, <1>2, <2>1
  <2> QED
    BY <1>2, <2>1, <2>2 DEF Failing
<1>5. Head(q).kind \in Failure => Failing(q)
  BY <1>1, <1>2 DEF Failing
<1> QED
  BY <1>1, <1>3, <1>4, <1>5

-----------------------------------------------------------------------------
(* Types, one lemma per group of actions.                                  *)

Reg == [phase : {"none", "asked", "read", "active"}, content : Int]
Adv == [pending : Nat, flag : BOOLEAN, push : {"idle", "writing", "written"}]
Flags == [startRequested : BOOLEAN, busOpen : BOOLEAN, watch : BOOLEAN,
          registered : BOOLEAN, cycled : BOOLEAN, timer : BOOLEAN]
Ids == 0 .. IdSpace - 1
PresenceEvent == [kind : {"CONNECT", "DISCONNECT"}, id : Ids]

LEMMA Messages ==
  /\ \A kind \in AdvMessage \cup {"appOk", "appError"} : Msg(kind) \in Message
  /\ \A kind \in AdvMessage \cup {"appOk", "appError"} : Msg(kind).kind = kind
  /\ \A d \in Device : \A kind \in {"up", "down"} : [kind |-> kind, device |-> d] \in Message
BY DEF Msg, Message, Presence, AdvMessage

LEMMA InternType ==
  ASSUME TypeOK, NEW d \in Device
  PROVE  /\ IdOf(d) \in Ids
         /\ Intern(d) => ids' \in [Device -> {NoId} \cup Ids] /\ nextId' \in Ids
<1>1. IdSpace \in Nat /\ IdSpace > 1
  BY GattServerAssumption
<1>2. /\ ids \in [Device -> {NoId} \cup Ids] /\ nextId \in Ids
      /\ ids[d] \in {NoId} \cup Ids
  BY DEF TypeOK, Ids
<1>3. IdOf(d) \in Ids
  BY <1>2 DEF IdOf
<1>4. (nextId + 1) % IdSpace \in Ids
  BY <1>1, <1>2 DEF Ids
<1>5. ASSUME Intern(d) PROVE ids' \in [Device -> {NoId} \cup Ids] /\ nextId' \in Ids
  BY <1>2, <1>4, <1>5 DEF Intern
<1> QED
  BY <1>3, <1>5

\* TypeOK, with its sets named.
LEMMA TypeIs ==
  TypeOK <=>
    /\ link \in [Device -> BOOLEAN] /\ inbox \in Seq(Message)
    /\ reg \in Reg /\ adv \in Adv /\ server \in Flags
    /\ app \in {"none", "asked", "refused", "registered", "enumerated"}
    /\ pc \in {"idle", "start", "checkAdv", "register", "unregister",
               "powerCycle", "enumerate", "report"}
    /\ found \subseteq Device
    /\ ids \in [Device -> {NoId} \cup Ids] /\ nextId \in Ids
    /\ events \in Seq(PresenceEvent) /\ clients \subseteq Ids
    /\ used \in [Actor -> Nat]
BY Zenon DEF TypeOK, Reg, Adv, Flags, Ids, PresenceEvent

LEMMA InitType == Init => TypeOK
<1> SUFFICES ASSUME Init PROVE TypeOK
  OBVIOUS
<1>1. nextId \in Ids /\ clients \subseteq Ids /\ events \in Seq(PresenceEvent)
  BY GattServerAssumption DEF Init, Ids
<1>2. reg \in Reg /\ adv \in Adv /\ used \in [Actor -> Nat]
  BY DEF Init, Reg, Adv
<1>3. server \in Flags
  BY DEF Init, Flags
<1>4. ids \in [Device -> {NoId} \cup Ids]
  BY DEF Init
<1>5. link \in [Device -> BOOLEAN]
  BY DEF Init
<1>6. inbox \in Seq(Message) /\ app = "none" /\ pc = "idle" /\ found = {}
  BY DEF Init
<1> QED
  BY <1>1, <1>2, <1>3, <1>4, <1>5, <1>6, TypeIs

\* What the advertisement and the worker's flags are set to.
LEMMA AdvTypes ==
  ASSUME NEW a \in Adv
  PROVE  /\ [a EXCEPT !.push = "writing"] \in Adv
         /\ [a EXCEPT !.push = "written", !.pending = @ + 1] \in Adv
         /\ [a EXCEPT !.push = "idle", !.flag = TRUE] \in Adv
         /\ [a EXCEPT !.flag = FALSE] \in Adv
<1>1. a.pending + 1 \in Nat
  BY DEF Adv
<1>2. [a EXCEPT !.push = "written", !.pending = @ + 1] \in Adv
  BY <1>1, Zenon DEF Adv
<1>3. [a EXCEPT !.push = "writing"] \in Adv
  BY DEF Adv
<1>4. [a EXCEPT !.push = "idle", !.flag = TRUE] \in Adv
  BY DEF Adv
<1>5. [a EXCEPT !.flag = FALSE] \in Adv
  BY DEF Adv
<1> QED
  BY <1>2, <1>3, <1>4, <1>5

LEMMA FlagTypes ==
  ASSUME NEW s \in Flags, NEW x \in BOOLEAN, NEW y \in BOOLEAN
  PROVE  /\ [s EXCEPT !.startRequested = FALSE] \in Flags
         /\ [s EXCEPT !.busOpen = x, !.watch = y] \in Flags
         /\ [s EXCEPT !.registered = x] \in Flags
         /\ [s EXCEPT !.registered = FALSE, !.cycled = TRUE] \in Flags
         /\ [s EXCEPT !.cycled = FALSE] \in Flags
         /\ [s EXCEPT !.timer = x] \in Flags
BY DEF Flags

LEMMA SpendType == ASSUME TypeOK, NEW a \in Actor, Spend(a) PROVE used' \in [Actor -> Nat]
BY DEF TypeOK, Spend

LEMMA MainType == TypeOK /\ Main => TypeOK'
<1> SUFFICES ASSUME TypeOK, Main PROVE TypeOK'
  OBVIOUS
<1> USE DEF bluezVars, presenceVars
<1>1. adv \in Adv
  BY DEF TypeOK, Adv
<1>2. CASE PushBegins
  <2>1. used' \in [Actor -> Nat]
    BY <1>2, SpendType DEF PushBegins, Actor
  <2>2. adv' \in Adv
    BY <1>1, <1>2, AdvTypes DEF PushBegins
  <2> QED
    BY <1>2, <2>1, <2>2, SMTT(30) DEF PushBegins, TypeOK, Adv
<1>3. CASE PushWritten
  <2>1. adv' \in Adv
    BY <1>1, <1>3, AdvTypes DEF PushWritten
  <2> QED
    BY <1>3, <2>1, SMTT(30) DEF PushWritten, TypeOK, Adv
<1>4. CASE PushFlagged
  <2>1. adv' \in Adv
    BY <1>1, <1>4, AdvTypes DEF PushFlagged
  <2> QED
    BY <1>4, <2>1, SMTT(30) DEF PushFlagged, TypeOK, Adv
<1>5. CASE ServerLoop
  <2>1. events \in Seq(PresenceEvent) /\ events # << >> /\ clients \subseteq Ids
    BY <1>5 DEF ServerLoop, TypeOK, PresenceEvent, Ids
  <2>2. Head(events) \in PresenceEvent /\ Tail(events) \in Seq(PresenceEvent)
    BY <2>1
  <2>3. Head(events).id \in Ids
    BY <2>2 DEF PresenceEvent
  <2>4. events' \in Seq(PresenceEvent) /\ clients' \subseteq Ids
    BY <1>5, <2>1, <2>2, <2>3 DEF ServerLoop
  <2> QED
    BY <1>5, <2>4 DEF ServerLoop, TypeOK, PresenceEvent, Ids
<1> QED
  BY <1>2, <1>3, <1>4, <1>5 DEF Main

LEMMA BlueZType == TypeOK /\ BlueZ => TypeOK'
<1> SUFFICES ASSUME TypeOK, BlueZ PROVE TypeOK'
  OBVIOUS
<1> USE DEF bluezVars, presenceVars
<1>1. inbox \in Seq(Message) /\ reg \in Reg
  BY DEF TypeOK, Reg
<1>2. ASSUME NEW k \in AdvMessage \cup {"appOk", "appError"}
      PROVE  Append(inbox, Msg(k)) \in Seq(Message)
  BY <1>1, Messages
<1>3. CASE ApplicationReplies
  <2>1. inbox' \in Seq(Message) /\ app' \in {"registered", "refused"}
    BY <1>2, <1>3 DEF ApplicationReplies
  <2> QED
    BY <1>3, <2>1 DEF ApplicationReplies, TypeOK
<1>4. CASE AdvertisementAccepted
  <2>1. inbox' \in Seq(Message) /\ reg' \in Reg
    BY <1>1, <1>2, <1>4 DEF AdvertisementAccepted, AdvMessage, Reg
  <2> QED
    BY <1>4, <2>1 DEF AdvertisementAccepted, TypeOK, Reg
<1>5. CASE AdvertisementRefused
  <2>1. inbox' \in Seq(Message) /\ reg' \in Reg
    BY <1>1, <1>2, <1>5 DEF AdvertisementRefused, AdvMessage, Reg
  <2> QED
    BY <1>5, <2>1 DEF AdvertisementRefused, TypeOK, Reg
<1>6. CASE AdvertisementReleased
  <2>1. inbox' \in Seq(Message) /\ reg' \in Reg
    BY <1>1, <1>2, <1>6 DEF AdvertisementReleased, AdvMessage, Reg
  <2>2. used' \in [Actor -> Nat]
    BY <1>6, SpendType DEF AdvertisementReleased, Actor
  <2> QED
    BY <1>6, <2>1, <2>2 DEF AdvertisementReleased, TypeOK, Reg
<1>7. ASSUME NEW d \in Device, LinkChanges(d) PROVE TypeOK'
  <2>1. used' \in [Actor -> Nat]
    BY <1>7, SpendType DEF LinkChanges, Actor
  <2>2. link' \in [Device -> BOOLEAN]
    BY <1>7 DEF LinkChanges, TypeOK
  <2>3. [kind |-> IF link[d] THEN "down" ELSE "up", device |-> d] \in Message
    BY Messages
  <2>4. inbox' \in Seq(Message)
    BY <1>1, <1>7, <2>3 DEF LinkChanges
  <2> QED
    BY <1>7, <2>1, <2>2, <2>4 DEF LinkChanges, TypeOK
<1> QED
  BY <1>3, <1>4, <1>5, <1>6, <1>7 DEF BlueZ, BlueZAnswers

LEMMA ReceivesType ==
  ASSUME TypeOK, NEW kind, Receives(kind)
  PROVE  /\ inbox # << >> /\ inbox' = Tail(inbox) /\ inbox' \in Seq(Message)
         /\ Head(inbox) \in Message /\ Head(inbox).kind = kind
BY DEF Receives, TypeOK

\* A presence event is sent for the id of a device.
LEMMA PresenceType ==
  ASSUME TypeOK, NEW d \in Device, NEW kind \in {"CONNECT", "DISCONNECT"}
  PROVE  Append(events, [kind |-> kind, id |-> IdOf(d)]) \in Seq(PresenceEvent)
<1>1. IdOf(d) \in Ids
  BY InternType
<1>2. [kind |-> kind, id |-> IdOf(d)] \in PresenceEvent
  BY <1>1 DEF PresenceEvent
<1> QED
  BY <1>2 DEF TypeOK, PresenceEvent, Ids

LEMMA DeviceChangedType ==
  ASSUME TypeOK, NEW kind \in {"up", "down"}, NEW event \in {"CONNECT", "DISCONNECT"},
         DeviceChanged(kind, event)
  PROVE  TypeOK'
<1> DEFINE d == Head(inbox).device
<1>1. inbox' \in Seq(Message) /\ Head(inbox) \in Message /\ Head(inbox).kind = kind
  BY ReceivesType DEF DeviceChanged
<1>2. d \in Device
  BY <1>1 DEF Message, Presence, AdvMessage
<1>3. ids' \in [Device -> {NoId} \cup Ids] /\ nextId' \in Ids
  BY <1>2, InternType DEF DeviceChanged
<1>4. events' \in Seq(PresenceEvent)
  BY <1>2, PresenceType DEF DeviceChanged
<1>5. server \in Flags /\ (server.timer \/ kind = "down") \in BOOLEAN
  BY DEF TypeOK, Flags
<1>6. server' \in Flags
  BY <1>5, FlagTypes DEF DeviceChanged
<1> QED
  BY <1>1, <1>3, <1>4, <1>6 DEF DeviceChanged, TypeOK, Ids, PresenceEvent, Flags

LEMMA DispatchType == TypeOK /\ Dispatch => TypeOK'
<1> SUFFICES ASSUME TypeOK, Dispatch PROVE TypeOK'
  OBVIOUS
<1> USE DEF bluezVars, presenceVars
<1>1. server \in Flags
  BY DEF TypeOK, Flags
<1>2. CASE ApplicationRegistered
  BY <1>2, ReceivesType DEF ApplicationRegistered, TypeOK
<1>3. CASE ApplicationFailed
  BY <1>3, ReceivesType DEF ApplicationFailed, TypeOK
<1>4. CASE AdvertisementRegistered
  <2>1. inbox' \in Seq(Message) /\ server' \in Flags
    BY <1>1, <1>4, ReceivesType, FlagTypes DEF AdvertisementRegistered
  <2> QED
    BY <1>4, <2>1 DEF AdvertisementRegistered, TypeOK, Flags
<1>5. CASE AdvertisementFailed
  <2>1. inbox' \in Seq(Message) /\ server' \in Flags
    BY <1>1, <1>5, ReceivesType, FlagTypes DEF AdvertisementFailed
  <2>2. pc' \in {"idle", "powerCycle"}
    BY <1>5 DEF AdvertisementFailed
  <2> QED
    BY <1>5, <2>1, <2>2 DEF AdvertisementFailed, TypeOK, Flags
<1>6. CASE ReleaseReceived
  <2>1. inbox' \in Seq(Message) /\ server' \in Flags
    BY <1>1, <1>6, ReceivesType, FlagTypes DEF ReleaseReceived
  <2> QED
    BY <1>6, <2>1 DEF ReleaseReceived, TypeOK, Flags
<1> QED
  BY <1>2, <1>3, <1>4, <1>5, <1>6, DeviceChangedType DEF Dispatch

\* SendRegister() and the variables it leaves to its caller.
LEMMA SendRegisterType ==
  ASSUME TypeOK, NEW pending \in Seq(Message),
         NEW phase \in {"none", "asked", "read", "active"}, SendRegister(pending, phase),
         UNCHANGED <<link, adv, app, found, presenceVars, used>>
  PROVE  TypeOK'
<1>1. server \in Flags /\ reg \in Reg /\ Append(pending, Msg("exists")) \in Seq(Message)
  BY Messages DEF TypeOK, Flags, Reg, AdvMessage
<1>2. server' \in Flags
  BY <1>1, FlagTypes DEF SendRegister
<1>3. inbox' \in Seq(Message)
  BY <1>1 DEF SendRegister, TakeUp
<1>4. reg' \in Reg
  BY <1>1 DEF SendRegister, TakeUp, Reg
<1>5. pc' = "idle"
  BY DEF SendRegister
<1> QED
  BY <1>2, <1>3, <1>4, <1>5 DEF TypeOK, presenceVars, Flags, Reg

LEMMA CancelledType == TypeOK => Cancelled \in Seq(Message)
BY Messages DEF TypeOK, Cancelled, AdvMessage

LEMMA ProceedType == TypeOK /\ Proceed => TypeOK'
<1> SUFFICES ASSUME TypeOK, Proceed PROVE TypeOK'
  OBVIOUS
<1> USE DEF bluezVars, presenceVars
<1>1. server \in Flags /\ adv \in Adv /\ inbox \in Seq(Message)
      /\ reg.phase \in {"none", "asked", "read", "active"}
  BY DEF TypeOK, Flags, Adv
<1>2. CASE TakeStart
  <2>1. server' \in Flags
    BY <1>1, <1>2, FlagTypes DEF TakeStart
  <2> QED
    BY <1>2, <2>1 DEF TakeStart, TypeOK, Flags
<1>3. CASE DoStart
  <2>1. PICK bus, manager, matched, sent \in BOOLEAN :
          /\ server' = [server EXCEPT !.busOpen = bus, !.watch = bus /\ manager /\ matched]
          /\ app' = IF bus /\ manager /\ sent THEN "asked" ELSE "none"
    BY <1>3 DEF DoStart
  <2>2. (bus /\ manager /\ matched) \in BOOLEAN
    OBVIOUS
  <2>3. server' \in Flags
    BY <1>1, <2>1, <2>2, FlagTypes
  <2>4. app' \in {"asked", "none"}
    BY <2>1
  <2> QED
    BY <1>3, <2>3, <2>4 DEF DoStart, TypeOK, Flags
<1>4. CASE CheckAdv
  <2>1. adv' \in Adv
    BY <1>1, <1>4, AdvTypes DEF CheckAdv
  <2>2. pc' \in {"idle", "register"}
    BY <1>4 DEF CheckAdv
  <2> QED
    BY <1>4, <2>1, <2>2, SMTT(30) DEF CheckAdv, TypeOK, Adv
<1>5. CASE RegisterAdvertisement
  <2>1. CASE SendRegister(inbox, reg.phase)
    BY <1>1, <1>5, <2>1, SendRegisterType DEF RegisterAdvertisement
  <2>2. CASE pc' \in {"idle", "unregister"} /\ UNCHANGED <<reg, inbox, server>>
    BY <1>5, <2>2 DEF RegisterAdvertisement, TypeOK
  <2> QED
    BY <1>5, <2>1, <2>2 DEF RegisterAdvertisement
<1>6. CASE UnregisterReturns
  BY <1>1, <1>6, SendRegisterType, CancelledType DEF UnregisterReturns
<1>7. CASE PowerCycleReturns
  BY <1>1, <1>7, SendRegisterType, CancelledType DEF PowerCycleReturns
<1>8. CASE EnumerateFails
  BY <1>8 DEF EnumerateFails, TypeOK
<1>9. CASE EnumerateReturns
  BY <1>9 DEF EnumerateReturns, TypeOK
<1>10. CASE ReportFound
  <2>1. ASSUME NEW d \in found, found' = found \ {d}, Intern(d),
               events' = Append(events, [kind |-> "CONNECT", id |-> IdOf(d)]),
               UNCHANGED <<app, pc>>
        PROVE  TypeOK'
    <3>1. d \in Device /\ found' \subseteq Device
      BY <2>1 DEF TypeOK
    <3>2. ids' \in [Device -> {NoId} \cup Ids] /\ nextId' \in Ids
      BY <2>1, <3>1, InternType
    <3>3. events' \in Seq(PresenceEvent)
      BY <2>1, <3>1, PresenceType
    <3> QED
      BY <1>10, <2>1, <3>1, <3>2, <3>3 DEF ReportFound, TypeOK, Ids, PresenceEvent
  <2>2. CASE /\ app' = "enumerated" /\ pc' = "idle"
             /\ UNCHANGED <<found, ids, nextId, events>>
    BY <1>10, <2>2 DEF ReportFound, TypeOK
  <2> QED
    BY <1>10, <2>1, <2>2 DEF ReportFound
<1> QED
  BY <1>2, <1>3, <1>4, <1>5, <1>6, <1>7, <1>8, <1>9, <1>10 DEF Proceed

LEMMA NextType == TypeOK /\ [Next]_vars => TypeOK'
<1> SUFFICES ASSUME TypeOK, [Next]_vars PROVE TypeOK'
  OBVIOUS
<1> USE DEF bluezVars, presenceVars
<1>1. CASE PropertiesRead
  <2>1. adv.pending \in Int /\ Torn \in Int
    BY DEF TypeOK, Torn
  <2>2. reg' \in Reg
    BY <1>1, <2>1 DEF PropertiesRead, Reg
  <2> QED
    BY <1>1, <2>2 DEF PropertiesRead, TypeOK, Reg
<1>2. CASE TimerFires
  <2>1. server \in Flags
    BY DEF TypeOK, Flags
  <2>2. server' \in Flags
    BY <1>2, <2>1, FlagTypes DEF TimerFires
  <2> QED
    BY <1>2, <2>2 DEF TimerFires, TypeOK, Flags
<1>3. ASSUME NEW d \in Device, CentralAccesses(d) PROVE TypeOK'
  BY <1>3, InternType DEF CentralAccesses, TypeOK, Ids
<1>4. CASE UNCHANGED vars
  BY <1>4 DEF vars, TypeOK
<1> QED
  BY <1>1, <1>2, <1>3, <1>4, MainType, BlueZType, DispatchType, ProceedType DEF Next, Worker

(***************************************************************************)
(* The variables of both threads, the messages between them and BlueZ's    *)
(* view keep their types; in particular a connection id never leaves its   *)
(* id space, although next_conn_id_ wraps around.                          *)
(***************************************************************************)
THEOREM ServerTypeCorrect == Spec => []TypeOK
BY InitType, NextType, PTL DEF Spec

-----------------------------------------------------------------------------
(***************************************************************************)
(* The advertisement.  AdvertisedIsCurrent speaks of settled states only;  *)
(* its inductive strengthening says, of every state, who still owes the    *)
(* registration of a change: the main thread, the flag, or the worker on   *)
(* its way into register_advertisement_().  StartOnce is why do_start_()   *)
(* finds no registration: it runs once, and nothing of an advertisement    *)
(* exists before the bus is open.                                          *)
(***************************************************************************)
Due == adv.push # "idle" \/ adv.flag \/ pc \in {"register", "unregister"}

StartOnce ==
  /\ server.startRequested \/ pc = "start" => ~server.busOpen
  /\ pc = "start" => ~server.startRequested
  /\ \/ server.registered \/ pc \in {"unregister", "powerCycle"}
     \/ reg.phase # "none" \/ Failing(inbox)
     => server.busOpen

Covered ==
  server.registered /\ ~Failing(inbox) =>
    /\ reg.phase # "none"
    /\ reg.phase \in {"read", "active"} => reg.content = adv.pending \/ Due

AdvInd == StartOnce /\ Covered

LEMMA MainAdv == TypeOK /\ AdvInd /\ Main => AdvInd'
<1> SUFFICES ASSUME TypeOK, AdvInd, Main PROVE AdvInd'
  OBVIOUS
<1> USE DEF bluezVars, presenceVars
<1>1. adv \in Adv
  BY DEF TypeOK, Adv
<1>2. UNCHANGED <<server, pc, inbox, reg>>
  BY DEF Main, PushBegins, PushWritten, PushFlagged, ServerLoop
<1>3. StartOnce'
  BY <1>2 DEF AdvInd, StartOnce, Failing
<1>4. CASE PushBegins
  <2>1. adv'.push = "writing"
    BY <1>1, <1>4 DEF PushBegins, Adv
  <2> QED
    BY <1>2, <1>3, <2>1 DEF AdvInd, Covered, Due
<1>5. CASE PushWritten
  <2>1. adv'.push = "written"
    BY <1>1, <1>5 DEF PushWritten, Adv
  <2> QED
    BY <1>2, <1>3, <2>1 DEF AdvInd, Covered, Due
<1>6. CASE PushFlagged
  <2>1. adv'.flag
    BY <1>1, <1>6 DEF PushFlagged, Adv
  <2> QED
    BY <1>2, <1>3, <2>1 DEF AdvInd, Covered, Due
<1>7. CASE ServerLoop
  <2>1. adv' = adv
    BY <1>7 DEF ServerLoop
  <2> QED
    BY <1>2, <1>3, <2>1 DEF AdvInd, Covered, Due
<1> QED
  BY <1>4, <1>5, <1>6, <1>7 DEF Main

LEMMA BlueZAdv == TypeOK /\ AdvInd /\ BlueZ => AdvInd'
<1> SUFFICES ASSUME TypeOK, AdvInd, BlueZ PROVE AdvInd'
  OBVIOUS
<1>1. inbox \in Seq(Message) /\ reg \in Reg
  BY DEF TypeOK, Reg
<1>2. UNCHANGED <<server, pc, adv>>
  BY DEF BlueZ, BlueZAnswers, ApplicationReplies, AdvertisementAccepted,
         AdvertisementRefused, AdvertisementReleased, LinkChanges
<1>3. ASSUME Failing(inbox)' \/ reg'.phase # "none" => Failing(inbox) \/ reg.phase # "none"
      PROVE  StartOnce'
  BY <1>2, <1>3 DEF AdvInd, StartOnce
<1>4. ASSUME NEW k \in AdvMessage \cup {"appOk", "appError"}, inbox' = Append(inbox, Msg(k))
      PROVE  Failing(inbox)' <=> Failing(inbox) \/ k \in Failure
  <2>1. Failing(Append(inbox, Msg(k))) <=> Failing(inbox) \/ k \in Failure
    BY <1>1, AppendFailing, Messages
  <2> QED
    BY <1>4, <2>1 DEF Failing
<1>5. CASE ApplicationReplies
  <2>1. reg' = reg /\ (Failing(inbox)' <=> Failing(inbox))
    BY <1>4, <1>5 DEF ApplicationReplies, Failure
  <2> QED
    BY <1>2, <1>3, <2>1 DEF AdvInd, Covered, Due
<1>6. CASE AdvertisementAccepted
  <2>1. Failing(inbox)' <=> Failing(inbox)
    BY <1>4, <1>6 DEF AdvertisementAccepted, Failure, AdvMessage
  <2>2. reg.phase = "read" /\ reg'.phase = "active" /\ reg'.content = reg.content
    BY <1>1, <1>6 DEF AdvertisementAccepted, Reg
  <2> QED
    BY <1>2, <1>3, <2>1, <2>2 DEF AdvInd, Covered, Due
<1>7. CASE AdvertisementRefused
  <2>1. Failing(inbox)'
    BY <1>4, <1>7 DEF AdvertisementRefused, Failure, AdvMessage
  <2> QED
    BY <1>3, <1>7, <2>1 DEF AdvInd, Covered, AdvertisementRefused
<1>8. CASE AdvertisementReleased
  <2>1. Failing(inbox)'
    BY <1>4, <1>8 DEF AdvertisementReleased, Failure, AdvMessage
  <2> QED
    BY <1>3, <1>8, <2>1 DEF AdvInd, Covered, AdvertisementReleased
<1>9. ASSUME NEW d \in Device, LinkChanges(d) PROVE AdvInd'
  <2> DEFINE m == [kind |-> IF link[d] THEN "down" ELSE "up", device |-> d]
  <2>1. m \in Message /\ m.kind \notin Failure
    BY Messages DEF Failure
  <2>2. inbox' = Append(inbox, m) \/ inbox' = inbox
    BY <1>9 DEF LinkChanges
  <2> HIDE DEF m
  <2>3. Failing(Append(inbox, m)) <=> Failing(inbox)
    BY <1>1, <2>1, AppendFailing
  <2>4. Failing(inbox)' <=> Failing(inbox)
    BY <2>2, <2>3 DEF Failing
  <2>5. reg' = reg
    BY <1>9 DEF LinkChanges
  <2> QED
    BY <1>2, <1>3, <2>4, <2>5 DEF AdvInd, Covered, Due
<1> QED
  BY <1>5, <1>6, <1>7, <1>8, <1>9 DEF BlueZ, BlueZAnswers

\* Receiving a message that is no failure.
LEMMA ReceivesAdv ==
  ASSUME TypeOK, NEW kind, kind \notin Failure, Receives(kind)
  PROVE  Failing(inbox)' <=> Failing(inbox)
<1>1. inbox \in Seq(Message)
  BY DEF TypeOK
<1>2. inbox # << >> /\ inbox' = Tail(inbox) /\ Head(inbox).kind = kind
  BY ReceivesType
<1>3. Failing(Tail(inbox)) <=> Failing(inbox)
  BY <1>1, <1>2, TailFailing
<1> QED
  BY <1>2, <1>3 DEF Failing

\* What the invariant says of the worker's flags stays as it is.
SameFlags ==
  /\ server'.startRequested = server.startRequested
  /\ server'.busOpen = server.busOpen
  /\ server'.registered = server.registered

LEMMA DispatchAdv == TypeOK /\ AdvInd /\ Dispatch => AdvInd'
<1> SUFFICES ASSUME TypeOK, AdvInd, Dispatch PROVE AdvInd'
  OBVIOUS
<1>1. server \in Flags
  BY DEF TypeOK, Flags
<1>2. UNCHANGED <<adv, reg>> /\ pc = "idle"
  BY DEF Dispatch, DeviceChanged, ApplicationRegistered, ApplicationFailed,
         AdvertisementRegistered, AdvertisementFailed, ReleaseReceived, Receives
<1>3. ASSUME SameFlags, pc' \in {"idle", "enumerate"}, Failing(inbox)' <=> Failing(inbox)
      PROVE  AdvInd'
  BY <1>2, <1>3 DEF SameFlags, AdvInd, StartOnce, Covered, Due
<1>4. ASSUME NEW kind \in Failure, Receives(kind), pc' \in {"idle", "powerCycle"},
             ~server'.registered, server'.startRequested = server.startRequested,
             server'.busOpen = server.busOpen
      PROVE  AdvInd'
  <2>1. Failing(inbox)
    BY <1>4, ReceivesType, TailFailing DEF TypeOK
  <2>2. server.busOpen /\ ~server.startRequested
    BY <2>1 DEF AdvInd, StartOnce
  <2> QED
    BY <1>2, <1>4, <2>2 DEF AdvInd, StartOnce, Covered
<1>5. ASSUME NEW kind \in {"up", "down"}, NEW event, DeviceChanged(kind, event)
      PROVE  AdvInd'
  <2>1. Failing(inbox)' <=> Failing(inbox)
    BY <1>5, ReceivesAdv DEF DeviceChanged, Failure
  <2>2. SameFlags
    BY <1>1, <1>5 DEF DeviceChanged, SameFlags, Flags
  <2> QED
    BY <1>2, <1>3, <1>5, <2>1, <2>2 DEF DeviceChanged
<1>6. CASE ApplicationRegistered
  <2>1. Failing(inbox)' <=> Failing(inbox)
    BY <1>6, ReceivesAdv DEF ApplicationRegistered, Failure
  <2> QED
    BY <1>3, <1>6, <2>1 DEF ApplicationRegistered, SameFlags
<1>7. CASE ApplicationFailed
  <2>1. Failing(inbox)' <=> Failing(inbox)
    BY <1>7, ReceivesAdv DEF ApplicationFailed, Failure
  <2> QED
    BY <1>2, <1>3, <1>7, <2>1 DEF ApplicationFailed, SameFlags
<1>8. CASE AdvertisementRegistered
  <2>1. Failing(inbox)' <=> Failing(inbox)
    BY <1>8, ReceivesAdv DEF AdvertisementRegistered, Failure
  <2>2. SameFlags
    BY <1>1, <1>8 DEF AdvertisementRegistered, SameFlags, Flags
  <2> QED
    BY <1>2, <1>3, <1>8, <2>1, <2>2 DEF AdvertisementRegistered
<1>9. CASE AdvertisementFailed
  <2>1. /\ ~server'.registered /\ server'.startRequested = server.startRequested
        /\ server'.busOpen = server.busOpen
    BY <1>1, <1>9 DEF AdvertisementFailed, Flags
  <2>2. pc' \in {"idle", "powerCycle"} /\ \E kind \in Failure : Receives(kind)
    BY <1>9 DEF AdvertisementFailed, Failure
  <2> QED
    BY <1>4, <2>1, <2>2
<1>10. CASE ReleaseReceived
  <2>1. /\ ~server'.registered /\ server'.startRequested = server.startRequested
        /\ server'.busOpen = server.busOpen
    BY <1>1, <1>10 DEF ReleaseReceived, Flags
  <2> QED
    BY <1>2, <1>4, <1>10, <2>1 DEF ReleaseReceived, Failure
<1> QED
  BY <1>5, <1>6, <1>7, <1>8, <1>9, <1>10 DEF Dispatch

\* A registration that was sent is asked for, or the failure is on its way.
LEMMA SendRegisterAdv ==
  ASSUME TypeOK, AdvInd, server.busOpen, pc # "start",
         NEW pending \in Seq(Message), NEW phase, SendRegister(pending, phase)
  PROVE  AdvInd'
<1>1. server \in Flags /\ reg \in Reg /\ ~server.startRequested
  BY DEF TypeOK, Flags, Reg, AdvInd, StartOnce
<1>2. /\ pc' = "idle" /\ server'.startRequested = server.startRequested
      /\ server'.busOpen = server.busOpen
  BY <1>1 DEF SendRegister, Flags
<1>3. StartOnce'
  BY <1>1, <1>2 DEF StartOnce
<1>4. CASE server' = [server EXCEPT !.registered = TRUE] /\ TakeUp(pending, phase)
  <2>1. CASE phase = "none"
    <3>1. reg'.phase = "asked"
      BY <1>1, <1>4, <2>1 DEF TakeUp, Reg
    <3> QED
      BY <1>3, <3>1 DEF AdvInd, Covered
  <2>2. CASE phase # "none"
    <3>1. inbox' = Append(pending, Msg("exists"))
      BY <1>4, <2>2 DEF TakeUp
    <3>2. Failing(Append(pending, Msg("exists")))
      BY AppendFailing, Messages DEF Failure, AdvMessage
    <3>3. Failing(inbox)'
      BY <3>1, <3>2 DEF Failing
    <3> QED
      BY <1>3, <3>3 DEF AdvInd, Covered
  <2> QED
    BY <2>1, <2>2
<1>5. CASE server' = [server EXCEPT !.registered = FALSE]
  <2>1. ~server'.registered
    BY <1>1, <1>5 DEF Flags
  <2> QED
    BY <1>3, <2>1 DEF AdvInd, Covered
<1> QED
  BY <1>4, <1>5 DEF SendRegister

LEMMA ProceedAdv == TypeOK /\ AdvInd /\ Proceed => AdvInd'
<1> SUFFICES ASSUME TypeOK, AdvInd, Proceed PROVE AdvInd'
  OBVIOUS
<1> USE DEF bluezVars, presenceVars
<1>1. server \in Flags /\ adv \in Adv /\ inbox \in Seq(Message) /\ Cancelled \in Seq(Message)
  BY CancelledType DEF TypeOK, Flags, Adv
<1>2. ASSUME inbox' = inbox PROVE Failing(inbox)' <=> Failing(inbox)
  BY <1>2 DEF Failing
<1>3. CASE TakeStart
  <2>1. /\ ~server'.startRequested /\ server'.busOpen = server.busOpen
        /\ server'.registered = server.registered
    BY <1>1, <1>3 DEF TakeStart, Flags
  <2>2. ~server.busOpen
    BY <1>3 DEF TakeStart, AdvInd, StartOnce
  <2> QED
    BY <1>2, <1>3, <2>1, <2>2 DEF TakeStart, AdvInd, StartOnce, Covered
<1>4. CASE DoStart
  <2>1. /\ server'.startRequested = server.startRequested
        /\ server'.registered = server.registered
    BY <1>1, <1>4 DEF DoStart, Flags
  <2>2. ~server.registered /\ ~server.startRequested /\ reg.phase = "none" /\ ~Failing(inbox)
    BY <1>4 DEF DoStart, AdvInd, StartOnce
  <2> QED
    BY <1>2, <1>4, <2>1, <2>2 DEF DoStart, AdvInd, StartOnce, Covered
<1>5. CASE CheckAdv
  <2>1. UNCHANGED <<server, reg>> /\ (Failing(inbox)' <=> Failing(inbox)) /\ pc # "start"
        /\ pc \notin {"register", "unregister"}
    BY <1>2, <1>5 DEF CheckAdv
  <2>2. CASE pc' = "register" /\ adv' = [adv EXCEPT !.flag = FALSE]
    <3>1. Due' /\ pc' = "register"
      BY <2>2 DEF Due
    <3> QED
      BY <2>1, <3>1 DEF AdvInd, StartOnce, Covered
  <2>3. CASE pc' = "idle" /\ adv' = adv
    BY <2>1, <2>3 DEF AdvInd, StartOnce, Covered, Due
  <2> QED
    BY <1>5, <2>2, <2>3 DEF CheckAdv
<1>6. CASE RegisterAdvertisement
  <2>1. CASE ~server.busOpen
    <3>1. ~server.registered
      BY <2>1 DEF AdvInd, StartOnce
    <3> QED
      BY <1>2, <1>6, <2>1, <3>1 DEF RegisterAdvertisement, AdvInd, StartOnce, Covered
  <2>2. CASE server.busOpen /\ server.registered
    BY <1>2, <1>6, <2>2 DEF RegisterAdvertisement, AdvInd, StartOnce, Covered, Due
  <2>3. CASE server.busOpen /\ ~server.registered
    BY <1>1, <1>6, <2>3, SendRegisterAdv DEF RegisterAdvertisement
  <2> QED
    BY <2>1, <2>2, <2>3
<1>7. CASE UnregisterReturns
  BY <1>1, <1>7, SendRegisterAdv DEF UnregisterReturns, AdvInd, StartOnce
<1>8. CASE PowerCycleReturns
  <2>1. server.busOpen /\ pc # "start"
    BY <1>8 DEF PowerCycleReturns, AdvInd, StartOnce
  <2> QED
    BY <1>1, <1>8, <2>1, SendRegisterAdv DEF PowerCycleReturns
<1>9. CASE EnumerateFails \/ EnumerateReturns \/ ReportFound
  <2>1. /\ UNCHANGED <<server, reg, adv, inbox>>
        /\ pc \in {"enumerate", "report"} /\ pc' \in {"idle", "report"}
    BY <1>9 DEF EnumerateFails, EnumerateReturns, ReportFound
  <2> QED
    BY <1>2, <2>1 DEF AdvInd, StartOnce, Covered, Due
<1> QED
  BY <1>3, <1>4, <1>5, <1>6, <1>7, <1>8, <1>9 DEF Proceed

LEMMA NextAdv == TypeOK /\ AdvInd /\ [Next]_vars => AdvInd'
<1> SUFFICES ASSUME TypeOK, AdvInd, [Next]_vars PROVE AdvInd'
  OBVIOUS
<1> USE DEF bluezVars, presenceVars
<1>1. ASSUME inbox' = inbox PROVE Failing(inbox)' <=> Failing(inbox)
  BY <1>1 DEF Failing
<1>2. CASE PropertiesRead
  <2>1. /\ UNCHANGED <<server, adv, pc, inbox>>
        /\ reg.phase = "asked" /\ reg'.phase = "read"
        /\ adv.push = "writing" \/ reg'.content = adv.pending
    BY <1>2 DEF PropertiesRead
  <2> QED
    BY <1>1, <2>1 DEF AdvInd, StartOnce, Covered, Due
<1>3. CASE TimerFires
  <2>1. server \in Flags
    BY DEF TypeOK, Flags
  <2>2. SameFlags
    BY <1>3, <2>1 DEF TimerFires, SameFlags, Flags
  <2> QED
    BY <1>1, <1>3, <2>2 DEF TimerFires, SameFlags, AdvInd, StartOnce, Covered, Due
<1>4. CASE UNCHANGED vars \/ \E d \in Device : CentralAccesses(d)
  <2>1. UNCHANGED <<server, adv, pc, inbox, reg>>
    BY <1>4 DEF vars, CentralAccesses
  <2> QED
    BY <1>1, <2>1 DEF AdvInd, StartOnce, Covered, Due
<1> QED
  BY <1>2, <1>3, <1>4, MainAdv, BlueZAdv, DispatchAdv, ProceedAdv DEF Next, Worker

(***************************************************************************)
(* Whatever the main thread pushes, and whenever BlueZ refuses, releases   *)
(* or forgets the advertisement: once everything has settled and           *)
(* adv_registered_ is set, BlueZ advertises what was pushed last.          *)
(***************************************************************************)
THEOREM ServerAdvertisedIsCurrent == Spec => []AdvertisedIsCurrent
<1>1. Init => AdvInd
  <2> SUFFICES ASSUME Init PROVE AdvInd
    OBVIOUS
  <2>1. ~server.registered /\ ~server.busOpen /\ pc = "idle" /\ reg.phase = "none"
    BY DEF Init
  <2>2. ~Failing(inbox)
    BY DEF Init, Failing
  <2> QED
    BY <2>1, <2>2 DEF AdvInd, StartOnce, Covered
<1>2. TypeOK /\ AdvInd => AdvertisedIsCurrent
  <2> SUFFICES ASSUME TypeOK, AdvInd, AdvSettled, server.registered
               PROVE  reg = [phase |-> "active", content |-> adv.pending]
    BY DEF AdvertisedIsCurrent
  <2>1. ~Failing(inbox)
    BY DEF AdvSettled, InInbox, AdvMessage, Failing, Failure
  <2>2. reg.phase = "active" /\ reg.content = adv.pending
    BY <2>1 DEF AdvSettled, AdvInd, Covered, Due
  <2> QED
    BY <2>2 DEF TypeOK
<1> QED
  BY <1>1, <1>2, NextAdv, ServerTypeCorrect, PTL DEF Spec
-----------------------------------------------------------------------------
(***************************************************************************)
(* ClientsAreCentrals.  The message of the inbox that settles what a       *)
(* device's link is, and the event that settles what the server takes it   *)
(* for, are the last ones about the device; both queues are lists of       *)
(* changes of which the last word counts.                                  *)
(***************************************************************************)
About(m, d) == m.kind \in {"up", "down"} /\ m.device = d
Mentions(q, d) == \E i \in DOMAIN q : About(q[i], d)

\* The last message about each device says what its link is.
Truthful(q, lk) ==
  \A d \in Device : \A i \in DOMAIN q :
    About(q[i], d) =>
      \/ \E j \in DOMAIN q : j > i /\ About(q[j], d)
      \/ (q[i].kind = "up" <=> lk[d])

\* A message about no device joins the inbox.
LEMMA OtherJoins ==
  ASSUME NEW q \in Seq(Message), NEW m \in Message, m.kind \notin {"up", "down"}, NEW lk
  PROVE  /\ \A d \in Device : Mentions(Append(q, m), d) <=> Mentions(q, d)
         /\ Truthful(q, lk) => Truthful(Append(q, m), lk)
<1> DEFINE r == Append(q, m)
<1>1. /\ DOMAIN q = 1 .. Len(q) /\ DOMAIN r = 1 .. Len(q) + 1 /\ Len(q) \in Nat
      /\ \A i \in DOMAIN q : r[i] = q[i]
      /\ r[Len(q) + 1] = m
  OBVIOUS
<1> HIDE DEF r
<1>2. \A d : \A i \in DOMAIN r : About(r[i], d) => i \in DOMAIN q /\ About(q[i], d)
  <2> SUFFICES ASSUME NEW d, NEW i \in DOMAIN r, About(r[i], d)
               PROVE  i \in DOMAIN q /\ About(q[i], d)
    OBVIOUS
  <2>1. i # Len(q) + 1
    BY <1>1 DEF About
  <2> QED
    BY <1>1, <2>1
<1>3. \A d : \A i \in DOMAIN q : About(q[i], d) => i \in DOMAIN r /\ About(r[i], d)
  BY <1>1
<1>4. \A d \in Device : Mentions(r, d) <=> Mentions(q, d)
  BY <1>2, <1>3 DEF Mentions
<1>5. ASSUME Truthful(q, lk) PROVE Truthful(r, lk)
  <2> SUFFICES ASSUME NEW d \in Device, NEW i \in DOMAIN r, About(r[i], d),
                      ~ \E j \in DOMAIN r : j > i /\ About(r[j], d)
               PROVE  r[i].kind = "up" <=> lk[d]
    BY DEF Truthful
  <2>1. i \in DOMAIN q /\ About(q[i], d) /\ r[i] = q[i]
    BY <1>1, <1>2
  <2>2. ~ \E j \in DOMAIN q : j > i /\ About(q[j], d)
    BY <1>3
  <2>3. q[i].kind = "up" <=> lk[d]
    BY <1>5, <2>1, <2>2 DEF Truthful
  <2> QED
    BY <2>1, <2>3
<1> QED
  BY <1>4, <1>5 DEF r

\* A change of d's link joins the inbox.
LEMMA ChangeJoins ==
  ASSUME TypeOK, NEW d \in Device, NEW kind \in {"up", "down"},
         \A e \in Device \ {d} : link'[e] = link[e],
         kind = "up" <=> link'[d], Truthful(inbox, link),
         inbox' = Append(inbox, [kind |-> kind, device |-> d])
  PROVE  /\ Mentions(inbox', d)
         /\ \A e \in Device : Mentions(inbox, e) => Mentions(inbox', e)
         /\ \A e \in Device \ {d} : Mentions(inbox', e) <=> Mentions(inbox, e)
         /\ Truthful(inbox', link')
<1> DEFINE m == [kind |-> kind, device |-> d]
<1>1. m \in Message /\ m.kind = kind /\ m.device = d
  BY Messages
<1>2. inbox' = Append(inbox, m) /\ inbox \in Seq(Message)
  BY DEF TypeOK
<1> HIDE DEF m
<1>3. /\ DOMAIN inbox = 1 .. Len(inbox) /\ DOMAIN inbox' = 1 .. Len(inbox) + 1 /\ Len(inbox) \in Nat
      /\ \A i \in DOMAIN inbox : inbox'[i] = inbox[i]
      /\ inbox'[Len(inbox) + 1] = m
  BY <1>1, <1>2
<1>4. Len(inbox) + 1 \in DOMAIN inbox' /\ About(inbox'[Len(inbox) + 1], d)
  BY <1>1, <1>3 DEF About
<1>5. \A e : \A i \in DOMAIN inbox :
        About(inbox[i], e) => i \in DOMAIN inbox' /\ About(inbox'[i], e)
  BY <1>3
<1>6. ASSUME NEW e \in Device \ {d}, NEW i \in DOMAIN inbox', About(inbox'[i], e)
      PROVE  i \in DOMAIN inbox /\ About(inbox[i], e)
  <2>1. i # Len(inbox) + 1
    BY <1>1, <1>3, <1>6 DEF About
  <2> QED
    BY <1>3, <1>6, <2>1
<1>7. /\ Mentions(inbox', d)
      /\ \A e \in Device : Mentions(inbox, e) => Mentions(inbox', e)
      /\ \A e \in Device \ {d} : Mentions(inbox', e) <=> Mentions(inbox, e)
  BY <1>4, <1>5, <1>6 DEF Mentions
<1>8. Truthful(inbox', link')
  <2> SUFFICES ASSUME NEW e \in Device, NEW i \in DOMAIN inbox', About(inbox'[i], e),
                      ~ \E j \in DOMAIN inbox' : j > i /\ About(inbox'[j], e)
               PROVE  inbox'[i].kind = "up" <=> link'[e]
    BY DEF Truthful
  <2>1. CASE e = d
    <3>1. i = Len(inbox) + 1
      BY <1>3, <1>4, <2>1
    <3> QED
      BY <1>1, <1>3, <2>1, <3>1
  <2>2. CASE e # d
    <3>1. i \in DOMAIN inbox /\ About(inbox[i], e) /\ inbox'[i] = inbox[i]
      BY <1>3, <1>6, <2>2
    <3>2. ~ \E j \in DOMAIN inbox : j > i /\ About(inbox[j], e)
      BY <1>5
    <3>3. inbox[i].kind = "up" <=> link[e]
      BY <3>1, <3>2 DEF Truthful
    <3> QED
      BY <2>2, <3>1, <3>3
  <2> QED
    BY <2>1, <2>2
<1> QED
  BY <1>7, <1>8

\* The first message leaves the inbox.
LEMMA TakenMentions ==
  ASSUME NEW q \in Seq(Message), q # << >>, NEW d, ~About(Head(q), d)
  PROVE  Mentions(Tail(q), d) <=> Mentions(q, d)
<1> DEFINE r == Tail(q)
           h == Head(q)
<1>1. /\ DOMAIN q = 1 .. Len(q) /\ DOMAIN r = 1 .. Len(q) - 1 /\ Len(q) \in Nat
      /\ h = q[1]
      /\ \A i \in DOMAIN r : r[i] = q[i + 1]
  OBVIOUS
<1> HIDE DEF r, h
<1>2. \A i \in DOMAIN r : i + 1 \in DOMAIN q /\ r[i] = q[i + 1]
  BY <1>1
<1>3. \A j \in DOMAIN q : j > 1 => j - 1 \in DOMAIN r /\ r[j - 1] = q[j]
  BY <1>1
<1>4. Mentions(r, d) => Mentions(q, d)
  BY <1>2 DEF Mentions
<1>5. ASSUME NEW j \in DOMAIN q, About(q[j], d) PROVE Mentions(r, d)
  <2>1. ~About(h, d)
    BY DEF h
  <2>2. j # 1
    BY <1>1, <1>5, <2>1
  <2>3. j > 1
    BY <1>1, <2>2
  <2> QED
    BY <1>3, <1>5, <2>3 DEF Mentions
<1> QED
  BY <1>4, <1>5 DEF Mentions, r

LEMMA MessageTaken ==
  ASSUME NEW q \in Seq(Message), q # << >>, NEW lk, Truthful(q, lk)
  PROVE  /\ Truthful(Tail(q), lk)
         /\ \A d \in Device : About(Head(q), d) /\ ~Mentions(Tail(q), d) =>
              (Head(q).kind = "up" <=> lk[d])
<1> DEFINE r == Tail(q)
           h == Head(q)
<1>1. /\ DOMAIN q = 1 .. Len(q) /\ DOMAIN r = 1 .. Len(q) - 1 /\ Len(q) \in Nat
      /\ Len(q) > 0 /\ h = q[1]
      /\ \A i \in DOMAIN r : r[i] = q[i + 1]
  OBVIOUS
<1> HIDE DEF r, h
<1>2. \A i \in DOMAIN r : i \in Nat /\ i + 1 \in DOMAIN q /\ r[i] = q[i + 1]
  BY <1>1
<1>3. \A j \in DOMAIN q : j \in Nat /\ (j > 1 => j - 1 \in DOMAIN r /\ r[j - 1] = q[j])
  BY <1>1
<1>4. Truthful(r, lk)
  <2> SUFFICES ASSUME NEW d \in Device, NEW i \in DOMAIN r, About(r[i], d),
                      ~ \E j \in DOMAIN r : j > i /\ About(r[j], d)
               PROVE  r[i].kind = "up" <=> lk[d]
    BY DEF Truthful
  <2>1. i \in Nat /\ i + 1 \in DOMAIN q /\ r[i] = q[i + 1] /\ About(q[i + 1], d)
    BY <1>2
  <2>2. ~ \E j \in DOMAIN q : j > i + 1 /\ About(q[j], d)
    <3> SUFFICES ASSUME NEW j \in DOMAIN q, j > i + 1, About(q[j], d) PROVE FALSE
      OBVIOUS
    <3>1. j > 1 /\ j \in Nat
      BY <1>3, <2>1
    <3>2. j - 1 \in DOMAIN r /\ j - 1 > i /\ About(r[j - 1], d)
      BY <1>3, <2>1, <3>1
    <3> QED
      BY <3>2
  <2> QED
    BY <2>1, <2>2 DEF Truthful
<1>5. ASSUME NEW d \in Device, About(h, d), ~Mentions(r, d)
      PROVE  h.kind = "up" <=> lk[d]
  <2>1. 1 \in DOMAIN q /\ About(q[1], d)
    BY <1>1, <1>5
  <2>2. ~ \E j \in DOMAIN q : j > 1 /\ About(q[j], d)
    BY <1>3, <1>5 DEF Mentions
  <2> QED
    BY <1>1, <2>1, <2>2 DEF Truthful
<1> QED
  BY <1>4, <1>5 DEF r, h

-----------------------------------------------------------------------------
\* What loop() will make of connection id x: the last event about it, or what
\* is in clients_ already.
Believes(s, C, x) ==
  \/ \E i \in DOMAIN s : /\ s[i].id = x /\ s[i].kind = "CONNECT"
                         /\ \A j \in DOMAIN s : j > i => s[j].id # x
  \/ x \in C /\ \A i \in DOMAIN s : s[i].id # x

\* An event joins: it is the last word about its id.
LEMMA EventJoins ==
  ASSUME NEW s \in Seq(PresenceEvent), NEW e \in PresenceEvent, NEW C, NEW x
  PROVE  /\ x = e.id => (Believes(Append(s, e), C, x) <=> e.kind = "CONNECT")
         /\ x # e.id => (Believes(Append(s, e), C, x) <=> Believes(s, C, x))
<1> DEFINE r == Append(s, e)
<1>1. /\ DOMAIN s = 1 .. Len(s) /\ DOMAIN r = 1 .. Len(s) + 1 /\ Len(s) \in Nat
      /\ \A i \in DOMAIN s : i \in DOMAIN r /\ r[i] = s[i]
      /\ Len(s) + 1 \in DOMAIN r /\ r[Len(s) + 1] = e
      /\ \A i \in DOMAIN r : i = Len(s) + 1 \/ i \in DOMAIN s
  OBVIOUS
<1> HIDE DEF r
<1>2. ASSUME x = e.id PROVE Believes(r, C, x) <=> e.kind = "CONNECT"
  <2>1. ASSUME e.kind = "CONNECT" PROVE Believes(r, C, x)
    BY <1>1, <1>2, <2>1 DEF Believes
  <2>2. ASSUME Believes(r, C, x) PROVE e.kind = "CONNECT"
    <3>1. PICK i \in DOMAIN r : /\ r[i].id = x /\ r[i].kind = "CONNECT"
                                /\ \A j \in DOMAIN r : j > i => r[j].id # x
      BY <1>1, <1>2, <2>2 DEF Believes
    <3>2. i = Len(s) + 1
      BY <1>1, <1>2, <3>1
    <3> QED
      BY <1>1, <3>1, <3>2
  <2> QED
    BY <2>1, <2>2
<1>3. ASSUME x # e.id PROVE Believes(r, C, x) <=> Believes(s, C, x)
  <2>1. \A i \in DOMAIN r : r[i].id = x => i \in DOMAIN s
    BY <1>1, <1>3
  <2>2. (\A i \in DOMAIN s : s[i].id # x) <=> (\A i \in DOMAIN r : r[i].id # x)
    BY <1>1, <2>1
  <2>3. ASSUME NEW i \in DOMAIN s
        PROVE  (\A j \in DOMAIN s : j > i => s[j].id # x)
                 <=> (\A j \in DOMAIN r : j > i => r[j].id # x)
    BY <1>1, <2>1
  <2>4. ASSUME NEW i \in DOMAIN s, s[i].id = x, s[i].kind = "CONNECT",
               \A j \in DOMAIN s : j > i => s[j].id # x
        PROVE  Believes(r, C, x)
    BY <1>1, <2>3, <2>4 DEF Believes
  <2>5. ASSUME NEW i \in DOMAIN r, r[i].id = x, r[i].kind = "CONNECT",
               \A j \in DOMAIN r : j > i => r[j].id # x
        PROVE  Believes(s, C, x)
    <3>1. i \in DOMAIN s /\ s[i] = r[i]
      BY <1>1, <2>1, <2>5
    <3> QED
      BY <2>3, <2>5, <3>1 DEF Believes
  <2> QED
    BY <2>2, <2>4, <2>5 DEF Believes
<1> QED
  BY <1>2, <1>3 DEF r

\* loop() applies the first event.
LEMMA EventApplied ==
  ASSUME NEW s \in Seq(PresenceEvent), s # << >>, NEW C, NEW x
  PROVE  Believes(Tail(s), IF Head(s).kind = "CONNECT" THEN C \cup {Head(s).id}
                                                       ELSE C \ {Head(s).id}, x)
           <=> Believes(s, C, x)
<1> DEFINE r == Tail(s)
           h == Head(s)
           D == IF h.kind = "CONNECT" THEN C \cup {h.id} ELSE C \ {h.id}
<1>1. /\ DOMAIN s = 1 .. Len(s) /\ DOMAIN r = 1 .. Len(s) - 1 /\ Len(s) \in Nat
      /\ Len(s) > 0 /\ h = s[1]
      /\ \A i \in DOMAIN r : r[i] = s[i + 1]
  OBVIOUS
<1> HIDE DEF r, h
<1>2. \A i \in DOMAIN r : i \in Nat /\ i > 0 /\ i + 1 \in DOMAIN s /\ r[i] = s[i + 1]
  BY <1>1
<1>3. \A j \in DOMAIN s : /\ j \in Nat /\ j > 0
                          /\ j # 1 => j - 1 \in DOMAIN r /\ r[j - 1] = s[j]
  BY <1>1
<1>4. 1 \in DOMAIN s
  BY <1>1
<1>5. ASSUME NEW i \in DOMAIN r
      PROVE  (\A j \in DOMAIN s : j > i + 1 => s[j].id # x)
               <=> (\A j \in DOMAIN r : j > i => r[j].id # x)
  <2>1. ASSUME \A j \in DOMAIN s : j > i + 1 => s[j].id # x, NEW j \in DOMAIN r, j > i
        PROVE  r[j].id # x
    <3>1. j + 1 \in DOMAIN s /\ j + 1 > i + 1 /\ r[j] = s[j + 1]
      BY <1>2, <1>5, <2>1
    <3> QED
      BY <2>1, <3>1
  <2>2. ASSUME \A j \in DOMAIN r : j > i => r[j].id # x, NEW j \in DOMAIN s, j > i + 1
        PROVE  s[j].id # x
    <3>1. j - 1 \in DOMAIN r /\ j - 1 > i /\ r[j - 1] = s[j]
      BY <1>2, <1>3, <1>5, <2>2
    <3> QED
      BY <2>2, <3>1
  <2> QED
    BY <2>1, <2>2
<1>6. (\A j \in DOMAIN r : r[j].id # x) <=> (\A j \in DOMAIN s : j > 1 => s[j].id # x)
  <2>1. ASSUME \A j \in DOMAIN r : r[j].id # x, NEW j \in DOMAIN s, j > 1 PROVE s[j].id # x
    <3>1. j - 1 \in DOMAIN r /\ r[j - 1] = s[j]
      BY <1>3, <2>1
    <3> QED
      BY <2>1, <3>1
  <2>2. ASSUME \A j \in DOMAIN s : j > 1 => s[j].id # x, NEW j \in DOMAIN r PROVE r[j].id # x
    <3>1. j + 1 \in DOMAIN s /\ j + 1 > 1 /\ r[j] = s[j + 1]
      BY <1>2, <2>2
    <3> QED
      BY <2>2, <3>1
  <2> QED
    BY <2>1, <2>2
<1>7. ASSUME Believes(s, C, x) PROVE Believes(r, D, x)
  <2>1. ASSUME NEW i \in DOMAIN s, s[i].id = x, s[i].kind = "CONNECT",
               \A j \in DOMAIN s : j > i => s[j].id # x
        PROVE  Believes(r, D, x)
    <3>1. CASE i = 1
      <4>1. x \in D /\ \A j \in DOMAIN r : r[j].id # x
        BY <1>1, <1>6, <2>1, <3>1
      <4> QED
        BY <4>1 DEF Believes
    <3>2. CASE i # 1
      <4>1. i - 1 \in DOMAIN r /\ r[i - 1] = s[i] /\ (i - 1) + 1 = i
        BY <1>3, <3>2
      <4>2. \A j \in DOMAIN r : j > i - 1 => r[j].id # x
        BY <1>5, <2>1, <4>1
      <4> QED
        BY <2>1, <4>1, <4>2 DEF Believes
    <3> QED
      BY <3>1, <3>2
  <2>2. ASSUME x \in C, \A i \in DOMAIN s : s[i].id # x PROVE Believes(r, D, x)
    <3>1. h.id # x /\ x \in D
      BY <1>1, <1>4, <2>2
    <3>2. \A j \in DOMAIN r : r[j].id # x
      BY <1>6, <2>2
    <3> QED
      BY <3>1, <3>2 DEF Believes
  <2> QED
    BY <1>7, <2>1, <2>2 DEF Believes
<1>8. ASSUME Believes(r, D, x) PROVE Believes(s, C, x)
  <2>1. ASSUME NEW i \in DOMAIN r, r[i].id = x, r[i].kind = "CONNECT",
               \A j \in DOMAIN r : j > i => r[j].id # x
        PROVE  Believes(s, C, x)
    <3>1. i + 1 \in DOMAIN s /\ s[i + 1] = r[i]
      BY <1>2, <2>1
    <3>2. \A j \in DOMAIN s : j > i + 1 => s[j].id # x
      BY <1>5, <2>1
    <3> QED
      BY <2>1, <3>1, <3>2 DEF Believes
  <2>2. ASSUME x \in D, \A i \in DOMAIN r : r[i].id # x PROVE Believes(s, C, x)
    <3>1. \A j \in DOMAIN s : j > 1 => s[j].id # x
      BY <1>6, <2>2
    <3>2. CASE h.id = x
      <4>1. h.kind = "CONNECT"
        BY <2>2, <3>2
      <4> QED
        BY <1>1, <1>4, <3>1, <3>2, <4>1 DEF Believes
    <3>3. CASE h.id # x
      <4>1. x \in C
        BY <2>2, <3>3
      <4>2. \A j \in DOMAIN s : s[j].id # x
        BY <1>1, <3>1, <3>3
      <4> QED
        BY <4>1, <4>2 DEF Believes
    <3> QED
      BY <3>2, <3>3
  <2> QED
    BY <1>8, <2>1, <2>2 DEF Believes
<1> QED
  BY <1>7, <1>8 DEF r, h

-----------------------------------------------------------------------------
(***************************************************************************)
(* Connection ids: there are more of them than devices, so that the        *)
(* counter, which wraps around, never gives out one that is in use.        *)
(***************************************************************************)
Known == {d \in Device : ids[d] # NoId}

IdInv ==
  /\ \A d \in Known : ids[d] \in 1 .. Cardinality(Known)
  /\ \A d, e \in Known : ids[d] = ids[e] => d = e
  /\ Known # Device => nextId = Cardinality(Known) + 1

LEMMA InternFresh ==
  ASSUME TypeOK, IdInv, NEW d \in Device, Intern(d)
  PROVE  /\ IdInv'
         /\ ids'[d] = IdOf(d) /\ ids'[d] # NoId
         /\ ids[d] # NoId => ids'[d] = ids[d]
         /\ \A e \in Device \ {d} : ids'[e] = ids[e] /\ ids[e] # ids'[d]
<1>1. /\ ids \in [Device -> {NoId} \cup Ids] /\ nextId \in Ids
      /\ IsFiniteSet(Device) /\ IdSpace \in Nat /\ IdSpace > Cardinality(Device)
  BY GattServerAssumption, TypeIs
<1>2. IsFiniteSet(Known) /\ Cardinality(Known) \in Nat /\ Cardinality(Device) \in Nat
  <2>1. Known \subseteq Device
    BY DEF Known
  <2> QED
    BY <1>1, <2>1, FS_Subset, FS_CardinalityType
<1>3. CASE ids[d] # NoId
  <2>1. UNCHANGED <<ids, nextId>>
    BY <1>3 DEF Intern
  <2>2. IdInv'
    BY <2>1 DEF IdInv, Known
  <2>3. \A e \in Device \ {d} : ids[e] # ids[d]
    BY <1>3 DEF IdInv, Known
  <2> QED
    BY <1>3, <2>1, <2>2, <2>3 DEF IdOf
<1>4. CASE ids[d] = NoId
  <2> DEFINE k == Cardinality(Known)
  <2>1. d \notin Known /\ Known # Device
    BY <1>4 DEF Known
  <2>2. nextId = k + 1 /\ nextId # NoId
    BY <1>2, <2>1 DEF IdInv, NoId
  <2>3. /\ ids' = [ids EXCEPT ![d] = nextId] /\ nextId' = (nextId + 1) % IdSpace
        /\ ids'[d] = k + 1 /\ \A e \in Device \ {d} : ids'[e] = ids[e]
    BY <1>1, <1>4, <2>2 DEF Intern
  <2>4. Known' = Known \cup {d}
    <3>1. k + 1 # NoId
      BY <1>2 DEF NoId
    <3> QED
      BY <2>3, <3>1 DEF Known
  <2>5. Cardinality(Known') = k + 1
    BY <1>2, <2>1, <2>4, FS_AddElement
  <2>6. Known' \subseteq Device /\ Cardinality(Known') <= Cardinality(Device)
        /\ (Cardinality(Known') = Cardinality(Device) => Known' = Device)
    <3>1. Known' \subseteq Device
      BY <2>4 DEF Known
    <3> QED
      BY <1>1, <3>1, FS_Subset
  <2>7. Known' # Device => nextId' = k + 2
    BY <1>1, <1>2, <2>2, <2>3, <2>5, <2>6
  <2>8. \A e \in Known : ids'[e] = ids[e] /\ ids[e] \in 1 .. k
    BY <2>1, <2>3 DEF IdInv, Known
  <2>9. \A e \in Device \ {d} : ids[e] # k + 1
    <3>1. k + 1 # NoId
      BY <1>2 DEF NoId
    <3> QED
      BY <1>2, <2>8, <3>1 DEF Known
  <2>10. \A e \in Known' : ids'[e] \in 1 .. k + 1
    BY <1>2, <2>3, <2>4, <2>8
  <2>11. \A e, f \in Known' : ids'[e] = ids'[f] => e = f
    BY <1>2, <2>3, <2>4, <2>8 DEF IdInv
  <2>12. IdInv'
    <3> HIDE DEF k
    <3>1. (Cardinality(Known))' = k + 1
      BY <2>5
    <3> QED
      BY <2>7, <2>10, <2>11, <3>1, <1>2 DEF IdInv, k
  <2> QED
    BY <1>4, <2>2, <2>3, <2>9, <2>12 DEF IdOf
<1> QED
  BY <1>3, <1>4

-----------------------------------------------------------------------------
(***************************************************************************)
(* The inductive invariant.  A device no message of the inbox is about is  *)
(* taken for a client exactly if it is connected, once loop() is through   *)
(* with the events, unless the enumeration has still to find it.           *)
(***************************************************************************)
Owned ==
  /\ \A x \in clients : \E d \in Device : ids[d] = x
  /\ \A i \in DOMAIN events : \E d \in Device : ids[d] = events[i].id

On(d) == ids[d] # NoId /\ Believes(events, clients, ids[d])
Awaited(d) == app # "enumerated" /\ (pc = "report" => d \in found)

Settled(d) == (On(d) => link[d]) /\ (link[d] => On(d) \/ Awaited(d))

Watched ==
  /\ ~server.watch => \A d \in Device : ~Mentions(inbox, d)
  /\ server.watch =>
       /\ Truthful(inbox, link)
       /\ pc = "report" => \A d \in found : link[d] \/ Mentions(inbox, d)
       /\ \A d \in Device : Mentions(inbox, d) \/ Settled(d)

\* Before do_start_() there is nobody to hear of.
NotStarted ==
  server.startRequested \/ pc = "start" =>
    /\ ~server.watch /\ app = "none" /\ pc \notin {"enumerate", "report"}
    /\ ~InInbox({"appOk"}) /\ clients = {} /\ events = << >>

PresenceInv == IdInv /\ Owned /\ Watched /\ NotStarted

-----------------------------------------------------------------------------
\* A step that brings no news of a device.
SameNews ==
  /\ \A d \in Device : Mentions(inbox', d) <=> Mentions(inbox, d)
  /\ Truthful(inbox, link) => Truthful(inbox', link)

SameStage ==
  /\ found' = found
  /\ pc' = "report" <=> pc = "report"
  /\ app' = "enumerated" <=> app = "enumerated"

LEMMA QuietStep ==
  ASSUME TypeOK, Watched, UNCHANGED link, server'.watch = server.watch, SameNews, SameStage,
         \A d \in Device : On(d)' <=> On(d)
  PROVE  Watched'
<1>1. \A d \in Device : Awaited(d)' <=> Awaited(d)
  BY DEF Awaited, SameStage
<1>2. \A d \in Device : Settled(d)' <=> Settled(d)
  BY <1>1 DEF Settled
<1>3. \A d \in Device : Mentions(inbox, d)' <=> Mentions(inbox, d)
  BY DEF SameNews
<1>4. Truthful(inbox, link) => Truthful(inbox, link)'
  BY DEF SameNews
<1> found \subseteq Device
  BY DEF TypeOK
<1>5. CASE ~server.watch
  BY <1>3, <1>5 DEF Watched
<1>6. CASE server.watch
  <2>1. pc' = "report" => \A d \in found' : link'[d] \/ Mentions(inbox', d)
    BY <1>3, <1>6 DEF Watched, SameStage
  <2> QED
    BY <1>2, <1>3, <1>4, <1>6, <2>1 DEF Watched
<1> QED
  BY <1>5, <1>6

LEMMA SamePresence ==
  ASSUME IdInv, Owned, UNCHANGED presenceVars
  PROVE  IdInv' /\ Owned' /\ \A d \in Device : On(d)' <=> On(d)
<1> USE DEF presenceVars
<1>1. IdInv'
  BY DEF IdInv, Known
<1>2. Owned'
  BY DEF Owned
<1>3. \A d \in Device : On(d)' <=> On(d)
  BY DEF On
<1> QED
  BY <1>1, <1>2, <1>3

LEMMA NoNews == TypeOK /\ inbox' = inbox => SameNews
BY DEF SameNews

\* An answer to a call joins the inbox.
LEMMA AnswerJoins ==
  ASSUME NEW q \in Seq(Message), NEW k \in AdvMessage \cup {"appOk", "appError"}, NEW lk
  PROVE  /\ \A d \in Device : Mentions(Append(q, Msg(k)), d) <=> Mentions(q, d)
         /\ Truthful(q, lk) => Truthful(Append(q, Msg(k)), lk)
<1>1. Msg(k) \in Message /\ Msg(k).kind \notin {"up", "down"}
  BY Messages DEF AdvMessage
<1> QED
  BY <1>1, OtherJoins

LEMMA AnswerQuiet ==
  ASSUME TypeOK, NEW k \in AdvMessage \cup {"appOk", "appError"}, inbox' = Append(inbox, Msg(k))
  PROVE  SameNews
<1>1. inbox \in Seq(Message)
  BY DEF TypeOK
<1> QED
  BY <1>1, AnswerJoins DEF SameNews

LEMMA CancelledQuiet ==
  ASSUME TypeOK
  PROVE  /\ Cancelled \in Seq(Message)
         /\ \A d \in Device : Mentions(Cancelled, d) <=> Mentions(inbox, d)
         /\ Truthful(inbox, link) => Truthful(Cancelled, link)
<1>1. inbox \in Seq(Message) /\ Cancelled \in Seq(Message)
  BY CancelledType DEF TypeOK
<1>2. Cancelled = inbox \/ Cancelled = Append(inbox, Msg("error"))
  BY DEF Cancelled
<1>3. "error" \in AdvMessage
  BY DEF AdvMessage
<1> QED
  BY <1>1, <1>2, <1>3, AnswerJoins

\* A message about no device is taken from the inbox.
LEMMA ReceivesQuiet ==
  ASSUME TypeOK, NEW kind, kind \notin {"up", "down"}, Receives(kind)
  PROVE  SameNews
<1>1. inbox \in Seq(Message) /\ inbox # << >> /\ inbox' = Tail(inbox) /\ Head(inbox).kind = kind
  BY ReceivesType DEF TypeOK
<1>2. \A d \in Device : ~About(Head(inbox), d)
  BY <1>1 DEF About
<1>3. Truthful(inbox, link) => Truthful(Tail(inbox), link)
  BY <1>1, MessageTaken
<1>4. \A d \in Device : Mentions(Tail(inbox), d) <=> Mentions(inbox, d)
  BY <1>1, <1>2, TakenMentions
<1> QED
  BY <1>1, <1>3, <1>4 DEF SameNews

-----------------------------------------------------------------------------
(* Main thread and BlueZ.                                                  *)

LEMMA MainWatched ==
  ASSUME TypeOK, IdInv, Owned, Watched, Main
  PROVE  IdInv' /\ Owned' /\ Watched'
<1> USE DEF bluezVars, presenceVars
<1>1. /\ UNCHANGED <<link, inbox, server, app, pc, found, ids, nextId>>
  BY DEF Main, PushBegins, PushWritten, PushFlagged, ServerLoop
<1>2. SameNews /\ SameStage /\ IdInv'
  BY <1>1, NoNews DEF SameStage, IdInv, Known
<1>3. CASE UNCHANGED <<events, clients>>
  BY <1>1, <1>2, <1>3, QuietStep, SamePresence
<1>4. CASE ServerLoop
  <2>1. events \in Seq(PresenceEvent) /\ events # << >>
    BY <1>4, TypeIs DEF ServerLoop
  <2>2. /\ events' = Tail(events)
        /\ clients' = IF Head(events).kind = "CONNECT" THEN clients \cup {Head(events).id}
                                                       ELSE clients \ {Head(events).id}
    BY <1>4 DEF ServerLoop
  <2>3. \A x : Believes(events', clients', x) <=> Believes(events, clients, x)
    BY <2>1, <2>2, EventApplied
  <2>4. \A d \in Device : On(d)' <=> On(d)
    BY <1>1, <2>3 DEF On
  <2>5. /\ 1 \in DOMAIN events /\ Head(events) = events[1]
        /\ \A i \in DOMAIN events' : i + 1 \in DOMAIN events /\ events'[i] = events[i + 1]
    BY <2>1, <2>2
  <2>6. clients' \subseteq clients \cup {events[1].id}
    BY <2>2, <2>5
  <2>7. Owned'
    BY <1>1, <2>5, <2>6 DEF Owned
  <2> QED
    BY <1>1, <1>2, <2>4, <2>7, QuietStep
<1> QED
  BY <1>3, <1>4 DEF Main, PushBegins, PushWritten, PushFlagged

LEMMA LinkWatched ==
  ASSUME TypeOK, Watched, NEW d \in Device, LinkChanges(d),
         \A e \in Device : On(e)' <=> On(e)
  PROVE  Watched'
<1>1. /\ inbox \in Seq(Message) /\ link \in [Device -> BOOLEAN]
      /\ found \subseteq Device
  BY DEF TypeOK
<1>2. /\ UNCHANGED <<server, app, pc, found>>
      /\ \A e \in Device \ {d} : link'[e] = link[e]
      /\ link'[d] <=> ~link[d]
  BY <1>1 DEF LinkChanges
<1>3. CASE ~server.watch
  <2>1. inbox' = inbox
    BY <1>3 DEF LinkChanges
  <2> QED
    BY <1>2, <1>3, <2>1 DEF Watched
<1>4. CASE server.watch
  <2> DEFINE k == IF link[d] THEN "down" ELSE "up"
  <2>1. k \in {"up", "down"} /\ (k = "up" <=> link'[d])
        /\ inbox' = Append(inbox, [kind |-> k, device |-> d])
    BY <1>2, <1>4 DEF LinkChanges
  <2> HIDE DEF k
  <2>2. /\ Mentions(inbox', d)
        /\ \A e \in Device : Mentions(inbox, e) => Mentions(inbox', e)
        /\ \A e \in Device \ {d} : Mentions(inbox', e) <=> Mentions(inbox, e)
        /\ Truthful(inbox', link')
    <3>1. Truthful(inbox, link)
      BY <1>4 DEF Watched
    <3> QED
      BY <1>2, <2>1, <3>1, ChangeJoins
  <2>3. \A e \in Device \ {d} : Settled(e)' <=> Settled(e)
    BY <1>2 DEF Settled, Awaited
  <2>4. \A e \in Device : Mentions(inbox', e) \/ Settled(e)'
    BY <1>4, <2>2, <2>3 DEF Watched
  <2>5. pc' = "report" => \A e \in found' : link'[e] \/ Mentions(inbox', e)
    <3> SUFFICES ASSUME pc = "report", NEW e \in found PROVE link'[e] \/ Mentions(inbox', e)
      BY <1>2
    <3>1. e \in Device /\ (link[e] \/ Mentions(inbox, e))
      BY <1>1, <1>4 DEF Watched
    <3> QED
      BY <1>2, <2>2, <3>1
  <2> QED
    BY <1>2, <1>4, <2>2, <2>4, <2>5 DEF Watched
<1> QED
  BY <1>3, <1>4

LEMMA BlueZWatched ==
  ASSUME TypeOK, IdInv, Owned, Watched, BlueZ
  PROVE  IdInv' /\ Owned' /\ Watched'
<1>1. UNCHANGED <<server, pc, found, presenceVars>>
  BY DEF BlueZ, BlueZAnswers, ApplicationReplies, AdvertisementAccepted,
         AdvertisementRefused, AdvertisementReleased, LinkChanges
<1>2. IdInv' /\ Owned' /\ \A d \in Device : On(d)' <=> On(d)
  BY <1>1, SamePresence
<1>3. ASSUME NEW k \in AdvMessage \cup {"appOk", "appError"}, inbox' = Append(inbox, Msg(k)),
             link' = link, app' = "enumerated" <=> app = "enumerated"
      PROVE  Watched'
  BY <1>1, <1>2, <1>3, AnswerQuiet, QuietStep DEF SameStage
<1>4. CASE ApplicationReplies
  <2>1. \E k \in {"appOk", "appError"} : inbox' = Append(inbox, Msg(k))
    BY <1>4 DEF ApplicationReplies
  <2>2. link' = link /\ app # "enumerated" /\ app' # "enumerated"
    BY <1>4 DEF ApplicationReplies
  <2> QED
    BY <1>2, <1>3, <2>1, <2>2
<1>5. CASE AdvertisementAccepted
  BY <1>2, <1>3, <1>5 DEF AdvertisementAccepted, AdvMessage
<1>6. CASE AdvertisementRefused
  BY <1>2, <1>3, <1>6 DEF AdvertisementRefused, AdvMessage
<1>7. CASE AdvertisementReleased
  BY <1>2, <1>3, <1>7 DEF AdvertisementReleased, AdvMessage
<1>8. ASSUME NEW d \in Device, LinkChanges(d) PROVE Watched'
  BY <1>2, <1>8, LinkWatched
<1> QED
  BY <1>2, <1>4, <1>5, <1>6, <1>7, <1>8 DEF BlueZ, BlueZAnswers

-----------------------------------------------------------------------------
(* Worker thread: a device gets its id, and is reported.                   *)

\* No id is taken away.
LEMMA IdsKept ==
  ASSUME TypeOK, IdInv, NEW d \in Device, Intern(d), NEW x \in Ids, \E e \in Device : ids[e] = x
  PROVE  \E e \in Device : ids'[e] = x
<1>1. PICK e \in Device : ids[e] = x
  OBVIOUS
<1>2. x # NoId
  BY GattServerAssumption DEF Ids, NoId
<1>3. ids'[e] = ids[e]
  BY <1>1, <1>2, InternFresh
<1> QED
  BY <1>1, <1>3

LEMMA Reported ==
  ASSUME TypeOK, IdInv, Owned, NEW d \in Device, Intern(d), clients' = clients,
         NEW kind \in {"CONNECT", "DISCONNECT"},
         events' = Append(events, [kind |-> kind, id |-> IdOf(d)])
  PROVE  /\ IdInv' /\ Owned'
         /\ On(d)' <=> kind = "CONNECT"
         /\ \A e \in Device \ {d} : On(e)' <=> On(e)
<1> DEFINE m == [kind |-> kind, id |-> IdOf(d)]
<1>1. /\ IdInv' /\ ids'[d] = IdOf(d) /\ ids'[d] # NoId
      /\ \A e \in Device \ {d} : ids'[e] = ids[e] /\ ids[e] # ids'[d]
  BY InternFresh
<1>2. events \in Seq(PresenceEvent) /\ clients \subseteq Ids
  BY TypeIs
<1>3. m \in PresenceEvent /\ m.kind = kind /\ m.id = IdOf(d)
  BY InternType DEF PresenceEvent
<1>4. events' = Append(events, m)
  OBVIOUS
<1> HIDE DEF m
<1>5. ASSUME NEW x
      PROVE  /\ x = IdOf(d) => (Believes(events', clients', x) <=> kind = "CONNECT")
             /\ x # IdOf(d) => (Believes(events', clients', x) <=> Believes(events, clients, x))
  BY <1>2, <1>3, <1>4, EventJoins
<1>6. On(d)' <=> kind = "CONNECT"
  BY <1>1, <1>5 DEF On
<1>7. \A e \in Device \ {d} : On(e)' <=> On(e)
  BY <1>1, <1>5 DEF On
<1>8. \A x \in clients' : \E e \in Device : ids'[e] = x
  BY <1>2, IdsKept DEF Owned
<1>9. \A i \in DOMAIN events' : \E e \in Device : ids'[e] = events'[i].id
  <2> SUFFICES ASSUME NEW i \in DOMAIN events' PROVE \E e \in Device : ids'[e] = events'[i].id
    OBVIOUS
  <2>1. /\ DOMAIN events = 1 .. Len(events) /\ DOMAIN events' = 1 .. Len(events) + 1
        /\ Len(events) \in Nat /\ events'[Len(events) + 1] = m
        /\ \A j \in DOMAIN events : events'[j] = events[j] /\ events[j] \in PresenceEvent
    BY <1>2, <1>3, <1>4
  <2>2. CASE i = Len(events) + 1
    BY <1>1, <1>3, <2>1, <2>2
  <2>3. CASE i \in DOMAIN events
    <3>1. events'[i] = events[i] /\ events[i].id \in Ids
      BY <2>1, <2>3 DEF PresenceEvent
    <3>2. \E e \in Device : ids[e] = events[i].id
      BY <2>3 DEF Owned
    <3> QED
      BY <3>1, <3>2, IdsKept
  <2> QED
    BY <2>1, <2>2, <2>3
<1> QED
  BY <1>1, <1>6, <1>7, <1>8, <1>9 DEF Owned

\* on_device_props_changed_() takes the message for what the link is.
LEMMA DeviceChangedWatched ==
  ASSUME TypeOK, IdInv, Owned, Watched, NEW kind \in {"up", "down"},
         NEW event \in {"CONNECT", "DISCONNECT"}, kind = "up" <=> event = "CONNECT",
         DeviceChanged(kind, event)
  PROVE  IdInv' /\ Owned' /\ Watched'
<1>1. /\ inbox \in Seq(Message) /\ inbox # << >> /\ inbox' = Tail(inbox)
      /\ Head(inbox) \in Message /\ Head(inbox).kind = kind /\ pc = "idle"
  BY ReceivesType DEF DeviceChanged, Receives, TypeOK
<1>2. PICK d \in Device : d = Head(inbox).device
  BY <1>1 DEF Message, Presence, AdvMessage
<1>3. /\ Intern(d) /\ events' = Append(events, [kind |-> event, id |-> IdOf(d)])
      /\ UNCHANGED <<link, app, pc, found, clients>>
  BY <1>2 DEF DeviceChanged
<1>4. server'.watch = server.watch
  BY TypeIs DEF DeviceChanged, Flags
<1>5. /\ About(Head(inbox), d)
      /\ \A e \in Device \ {d} : ~About(Head(inbox), e)
  BY <1>1, <1>2 DEF About
<1>6. server.watch
  <2>1. 1 \in DOMAIN inbox /\ inbox[1] = Head(inbox)
    BY <1>1
  <2>2. Mentions(inbox, d)
    BY <1>5, <2>1 DEF Mentions
  <2> QED
    BY <1>2, <2>2 DEF Watched
<1>7. /\ IdInv' /\ Owned'
      /\ On(d)' <=> event = "CONNECT"
      /\ \A e \in Device \ {d} : On(e)' <=> On(e)
  BY <1>2, <1>3, Reported
<1>8. /\ Truthful(inbox', link)
      /\ ~Mentions(inbox', d) => (kind = "up" <=> link[d])
  <2>1. Truthful(inbox, link)
    BY <1>6 DEF Watched
  <2> QED
    BY <1>1, <1>2, <1>5, <2>1, MessageTaken
<1>9. \A e \in Device \ {d} : Mentions(inbox', e) <=> Mentions(inbox, e)
  BY <1>1, <1>5, TakenMentions
<1>10. \A e \in Device \ {d} : Settled(e)' <=> Settled(e)
  BY <1>3, <1>7 DEF Settled, Awaited
<1>11. Mentions(inbox', d) \/ Settled(d)'
  BY <1>3, <1>7, <1>8 DEF Settled
<1>12. \A e \in Device : Mentions(inbox', e) \/ Settled(e)'
  BY <1>6, <1>9, <1>10, <1>11 DEF Watched
<1> QED
  BY <1>1, <1>3, <1>4, <1>6, <1>7, <1>8, <1>12 DEF Watched

\* A central that uses the application before it was reported is not taken
\* for a client: no event is about an id that nobody had.
LEMMA AccessWatched ==
  ASSUME TypeOK, IdInv, Owned, Watched, NEW d \in Device, CentralAccesses(d)
  PROVE  IdInv' /\ Owned' /\ Watched'
<1>1. /\ Intern(d) /\ ids[d] = NoId
      /\ UNCHANGED <<link, inbox, server, app, pc, found, events, clients>>
  BY DEF CentralAccesses, bluezVars
<1>2. /\ IdInv' /\ ids'[d] # NoId
      /\ \A e \in Device \ {d} : ids'[e] = ids[e] /\ ids[e] # ids'[d]
  BY <1>1, InternFresh
<1>3. \A e \in Device : ids[e] # ids'[d]
  BY <1>1, <1>2
<1>4. ids'[d] \notin clients /\ \A i \in DOMAIN events : events[i].id # ids'[d]
  BY <1>3 DEF Owned
<1>5. ~On(d) /\ ~On(d)'
  BY <1>1, <1>4 DEF On, Believes
<1>6. \A e \in Device : On(e)' <=> On(e)
  BY <1>1, <1>2, <1>5 DEF On
<1>7. Owned'
  <2>1. events \in Seq(PresenceEvent) /\ clients \subseteq Ids
    BY TypeIs
  <2>2. \A i \in DOMAIN events : events[i].id \in Ids
    <3>1. \A i \in DOMAIN events : events[i] \in PresenceEvent
      BY <2>1
    <3> QED
      BY <3>1 DEF PresenceEvent
  <2> QED
    BY <1>1, <2>1, <2>2, IdsKept DEF Owned
<1> QED
  BY <1>1, <1>2, <1>6, <1>7, NoNews, QuietStep DEF SameStage

LEMMA ReportWatched ==
  ASSUME TypeOK, IdInv, Owned, Watched, ReportFound
  PROVE  IdInv' /\ Owned' /\ Watched'
<1>1. /\ UNCHANGED <<link, inbox, server, clients>> /\ pc = "report" /\ found \subseteq Device
  BY DEF ReportFound, bluezVars, TypeOK
<1>2. ASSUME NEW d \in found, found' = found \ {d}, Intern(d),
             events' = Append(events, [kind |-> "CONNECT", id |-> IdOf(d)]),
             UNCHANGED <<app, pc>>
      PROVE  IdInv' /\ Owned' /\ Watched'
  <2>1. d \in Device
    BY <1>1
  <2>2. IdInv' /\ Owned' /\ On(d)' /\ \A e \in Device \ {d} : On(e)' <=> On(e)
    BY <1>1, <1>2, <2>1, Reported
  <2>3. \A e \in Device \ {d} : Settled(e)' <=> Settled(e)
    BY <1>1, <1>2, <2>2 DEF Settled, Awaited
  <2>4. server.watch => Mentions(inbox, d) \/ Settled(d)'
    BY <1>1, <2>1, <2>2 DEF Watched, Settled
  <2>5. server.watch => \A e \in Device : Mentions(inbox, e) \/ Settled(e)'
    BY <2>3, <2>4 DEF Watched
  <2>6. Watched'
    BY <1>1, <1>2, <2>5 DEF Watched
  <2> QED
    BY <2>2, <2>6
<1>3. CASE /\ found = {} /\ app' = "enumerated" /\ pc' = "idle"
           /\ UNCHANGED <<found, ids, nextId, events>>
  <2>1. IdInv' /\ Owned' /\ \A d \in Device : On(d)' <=> On(d)
    BY <1>1, <1>3, SamePresence DEF presenceVars
  <2>2. \A d \in Device : Settled(d) => Settled(d)'
    BY <1>1, <1>3, <2>1 DEF Settled, Awaited
  <2>3. Watched'
    BY <1>1, <1>3, <2>2 DEF Watched
  <2> QED
    BY <2>1, <2>3
<1> QED
  BY <1>2, <1>3 DEF ReportFound

-----------------------------------------------------------------------------
(* Worker thread: everything else.                                         *)

LEMMA SendRegisterQuiet ==
  ASSUME TypeOK, NEW pending \in Seq(Message), NEW phase, SendRegister(pending, phase),
         \A d \in Device : Mentions(pending, d) <=> Mentions(inbox, d),
         Truthful(inbox, link) => Truthful(pending, link)
  PROVE  SameNews /\ pc' = "idle" /\ server'.watch = server.watch
<1>1. inbox' = pending \/ inbox' = Append(pending, Msg("exists"))
  BY DEF SendRegister, TakeUp
<1>2. "exists" \in AdvMessage
  BY DEF AdvMessage
<1>3. SameNews
  BY <1>1, <1>2, AnswerJoins DEF SameNews
<1>4. server'.watch = server.watch /\ pc' = "idle"
  BY TypeIs DEF SendRegister, Flags
<1> QED
  BY <1>3, <1>4

LEMMA WorkerQuiet ==
  ASSUME TypeOK,
         \/ ApplicationRegistered \/ ApplicationFailed
         \/ AdvertisementRegistered \/ AdvertisementFailed \/ ReleaseReceived
         \/ TakeStart \/ CheckAdv \/ EnumerateFails
         \/ RegisterAdvertisement \/ UnregisterReturns \/ PowerCycleReturns
         \/ PropertiesRead \/ TimerFires \/ UNCHANGED vars
  PROVE  SameNews /\ SameStage /\ server'.watch = server.watch
         /\ UNCHANGED <<link, presenceVars>>
<1> USE DEF bluezVars
<1>1. server \in Flags /\ inbox \in Seq(Message)
  BY TypeIs
<1>2. CASE ApplicationRegistered \/ ApplicationFailed
  <2>1. SameNews
    BY <1>2, ReceivesQuiet DEF ApplicationRegistered, ApplicationFailed
  <2> QED
    BY <1>2, <2>1 DEF ApplicationRegistered, ApplicationFailed, Receives, SameStage
<1>3. CASE AdvertisementRegistered \/ AdvertisementFailed \/ ReleaseReceived
  <2>1. SameNews
    BY <1>3, ReceivesQuiet DEF AdvertisementRegistered, AdvertisementFailed, ReleaseReceived
  <2>2. server'.watch = server.watch
    BY <1>1, <1>3 DEF AdvertisementRegistered, AdvertisementFailed, ReleaseReceived, Flags
  <2>3. pc = "idle" /\ pc' \in {"idle", "powerCycle"}
        /\ UNCHANGED <<found, app, link, presenceVars>>
    BY <1>3 DEF AdvertisementRegistered, AdvertisementFailed, ReleaseReceived, Receives
  <2> QED
    BY <2>1, <2>2, <2>3 DEF SameStage
<1>4. CASE TakeStart \/ TimerFires
  <2>1. server'.watch = server.watch
    BY <1>1, <1>4 DEF TakeStart, TimerFires, Flags
  <2> QED
    BY <1>4, <2>1, NoNews DEF TakeStart, TimerFires, SameStage
<1>5. CASE CheckAdv \/ EnumerateFails
  BY <1>5, NoNews DEF CheckAdv, EnumerateFails, SameStage
<1>6. CASE PropertiesRead \/ UNCHANGED vars
  BY <1>6, NoNews DEF PropertiesRead, vars, SameStage, presenceVars
<1>7. CASE RegisterAdvertisement
  <2>1. CASE pc' \in {"idle", "unregister"} /\ UNCHANGED <<reg, inbox, server>>
    BY <1>7, <2>1, NoNews DEF RegisterAdvertisement, SameStage
  <2>2. CASE SendRegister(inbox, reg.phase)
    BY <1>1, <1>7, <2>2, SendRegisterQuiet DEF RegisterAdvertisement, SameStage
  <2> QED
    BY <1>7, <2>1, <2>2 DEF RegisterAdvertisement
<1>8. CASE UnregisterReturns
  <2>1. SameNews /\ pc' = "idle" /\ server'.watch = server.watch
    BY <1>1, <1>8, CancelledQuiet, SendRegisterQuiet DEF UnregisterReturns
  <2> QED
    BY <1>8, <2>1 DEF UnregisterReturns, SameStage
<1>9. CASE PowerCycleReturns
  <2>1. SameNews /\ pc' = "idle" /\ server'.watch = server.watch
    BY <1>1, <1>9, CancelledQuiet, SendRegisterQuiet DEF PowerCycleReturns
  <2> QED
    BY <1>9, <2>1 DEF PowerCycleReturns, SameStage
<1> QED
  BY <1>2, <1>3, <1>4, <1>5, <1>6, <1>7, <1>8, <1>9

\* The watch is installed: nobody is a client yet, everybody is awaited.
LEMMA StartWatched ==
  ASSUME TypeOK, IdInv, Owned, Watched, NotStarted, DoStart
  PROVE  IdInv' /\ Owned' /\ Watched'
<1>1. /\ pc = "start" /\ pc' = "checkAdv" /\ UNCHANGED <<link, inbox, found, presenceVars>>
      /\ app' # "enumerated"
  BY DEF DoStart, bluezVars
<1>2. clients = {} /\ events = << >> /\ ~server.watch
  BY <1>1 DEF NotStarted
<1>3. IdInv' /\ Owned' /\ \A d \in Device : On(d)' <=> On(d)
  BY <1>1, SamePresence
<1>4. \A d \in Device : ~On(d)
  BY <1>2 DEF On, Believes
<1>5. \A d \in Device : Settled(d)' /\ ~Mentions(inbox, d)
  BY <1>1, <1>2, <1>3, <1>4 DEF Settled, Awaited, Watched
<1>6. Truthful(inbox', link')
  BY <1>1, <1>5 DEF Truthful, Mentions
<1>7. Watched'
  BY <1>1, <1>5, <1>6 DEF Watched
<1> QED
  BY <1>3, <1>7

LEMMA EnumerateWatched ==
  ASSUME TypeOK, IdInv, Owned, Watched, EnumerateReturns
  PROVE  IdInv' /\ Owned' /\ Watched'
<1>1. /\ UNCHANGED <<link, inbox, server, app, presenceVars>>
      /\ pc = "enumerate" /\ found' = {d \in Device : link[d]}
  BY DEF EnumerateReturns, bluezVars
<1>2. IdInv' /\ Owned' /\ \A d \in Device : On(d)' <=> On(d)
  BY <1>1, SamePresence
<1>3. \A d \in Device : Settled(d) => Settled(d)'
  BY <1>1, <1>2 DEF Settled, Awaited
<1>4. Watched'
  BY <1>1, <1>3 DEF Watched
<1> QED
  BY <1>2, <1>4

LEMMA NextWatched ==
  ASSUME TypeOK, IdInv, Owned, Watched, NotStarted, [Next]_vars
  PROVE  IdInv' /\ Owned' /\ Watched'
<1>1. ASSUME \/ ApplicationRegistered \/ ApplicationFailed
             \/ AdvertisementRegistered \/ AdvertisementFailed \/ ReleaseReceived
             \/ TakeStart \/ CheckAdv \/ EnumerateFails
             \/ RegisterAdvertisement \/ UnregisterReturns \/ PowerCycleReturns
             \/ PropertiesRead \/ TimerFires \/ UNCHANGED vars
      PROVE  IdInv' /\ Owned' /\ Watched'
  <2>1. SameNews /\ SameStage /\ server'.watch = server.watch
        /\ UNCHANGED <<link, presenceVars>>
    BY <1>1, WorkerQuiet
  <2>2. IdInv' /\ Owned' /\ \A d \in Device : On(d)' <=> On(d)
    BY <2>1, SamePresence
  <2> QED
    BY <2>1, <2>2, QuietStep
<1>2. ASSUME Dispatch PROVE IdInv' /\ Owned' /\ Watched'
  BY <1>1, <1>2, DeviceChangedWatched DEF Dispatch
<1>3. ASSUME Proceed PROVE IdInv' /\ Owned' /\ Watched'
  BY <1>1, <1>3, StartWatched, EnumerateWatched, ReportWatched DEF Proceed
<1>4. ASSUME Worker PROVE IdInv' /\ Owned' /\ Watched'
  BY <1>1, <1>2, <1>3, <1>4, AccessWatched DEF Worker
<1> QED
  BY <1>1, <1>4, MainWatched, BlueZWatched DEF Next

-----------------------------------------------------------------------------
\* Until do_start_() runs, no event, reply or presence message can be there.
LEMMA NextNotStarted ==
  ASSUME TypeOK, AdvInd, Watched, NotStarted, [Next]_vars
  PROVE  NotStarted'
<1> USE DEF bluezVars, presenceVars
<1>1. server \in Flags /\ inbox \in Seq(Message)
  BY TypeIs
<1>2. SUFFICES ASSUME server'.startRequested \/ pc' = "start"
               PROVE  NotStarted'
  BY DEF NotStarted
<1>3. server.startRequested \/ pc = "start"
  <2>1. server'.startRequested => server.startRequested
    <3>1. CASE \/ TakeStart \/ DoStart \/ TimerFires
               \/ \E kind, event : DeviceChanged(kind, event)
               \/ AdvertisementRegistered \/ AdvertisementFailed \/ ReleaseReceived
      BY <1>1, <3>1 DEF TakeStart, DoStart, TimerFires, DeviceChanged, AdvertisementRegistered,
                        AdvertisementFailed, ReleaseReceived, Flags
    <3>2. CASE \E pending, phase : SendRegister(pending, phase)
      BY <1>1, <3>2 DEF SendRegister, Flags
    <3>3. CASE server' = server
      BY <3>3
    <3>4. Main \/ BlueZ => server' = server
      BY DEF Main, PushBegins, PushWritten, PushFlagged, ServerLoop, BlueZ, BlueZAnswers,
             ApplicationReplies, AdvertisementAccepted, AdvertisementRefused,
             AdvertisementReleased, LinkChanges
    <3>5. \/ PropertiesRead \/ (\E d \in Device : CentralAccesses(d)) \/ CheckAdv
          \/ EnumerateFails \/ EnumerateReturns \/ ReportFound
          \/ ApplicationRegistered \/ ApplicationFailed \/ UNCHANGED vars
          => server' = server
      BY DEF PropertiesRead, CentralAccesses, CheckAdv, EnumerateFails, EnumerateReturns,
             ReportFound, ApplicationRegistered, ApplicationFailed, vars
    <3>6. RegisterAdvertisement \/ UnregisterReturns \/ PowerCycleReturns
          => server' = server \/ \E pending, phase : SendRegister(pending, phase)
      BY DEF RegisterAdvertisement, UnregisterReturns, PowerCycleReturns
    <3> QED
      BY <3>1, <3>2, <3>3, <3>4, <3>5, <3>6 DEF Next, Worker, Dispatch, Proceed
  <2>2. pc' = "start" => pc = "start" \/ server.startRequested
    BY DEF Next, Main, PushBegins, PushWritten, PushFlagged, ServerLoop, BlueZ, BlueZAnswers,
           ApplicationReplies, AdvertisementAccepted, AdvertisementRefused,
           AdvertisementReleased, LinkChanges, Worker, Dispatch, Proceed, TakeStart, DoStart,
           TimerFires, DeviceChanged, AdvertisementRegistered, AdvertisementFailed,
           ReleaseReceived, PropertiesRead, CentralAccesses, CheckAdv, EnumerateFails,
           EnumerateReturns, ReportFound, ApplicationRegistered, ApplicationFailed, vars,
           RegisterAdvertisement, UnregisterReturns, PowerCycleReturns, SendRegister
  <2> QED
    BY <1>2, <2>1, <2>2
<1>4. /\ ~server.watch /\ app = "none" /\ pc \notin {"enumerate", "report"}
      /\ ~InInbox({"appOk"}) /\ clients = {} /\ events = << >>
  BY <1>3 DEF NotStarted
<1>5. ~server.busOpen /\ reg.phase = "none" /\ ~Failing(inbox)
      /\ pc \notin {"unregister", "powerCycle"}
  BY <1>3 DEF AdvInd, StartOnce
<1>6. \A kind \in {"up", "down"} : ~Receives(kind)
  <2> SUFFICES ASSUME NEW kind \in {"up", "down"}, Receives(kind) PROVE FALSE
    OBVIOUS
  <2>1. /\ inbox # << >> /\ Head(inbox) \in Message /\ Head(inbox).kind = kind
    BY ReceivesType
  <2>2. Head(inbox).device \in Device
    BY <2>1 DEF Message, Presence, AdvMessage
  <2>3. 1 \in DOMAIN inbox /\ inbox[1] = Head(inbox)
    BY <1>1, <2>1
  <2>4. Mentions(inbox, Head(inbox).device)
    BY <2>1, <2>3 DEF Mentions, About
  <2> QED
    BY <1>4, <2>2, <2>4 DEF Watched
<1>7. ~Receives("appOk") /\ ~(\E kind \in Failure : Receives(kind))
  <2>1. ASSUME NEW kind, Receives(kind) PROVE 1 \in DOMAIN inbox /\ inbox[1].kind = kind
    BY <1>1, <2>1, ReceivesType
  <2> QED
    BY <1>4, <1>5, <2>1 DEF InInbox, Failing
<1>8. ASSUME UNCHANGED <<inbox, app, clients, events>>, server'.watch = server.watch,
             pc' \notin {"enumerate", "report"}
      PROVE  NotStarted'
  BY <1>4, <1>8 DEF NotStarted, InInbox
<1>9. ASSUME Main PROVE NotStarted'
  BY <1>4, <1>8, <1>9 DEF Main, PushBegins, PushWritten, PushFlagged, ServerLoop
<1>10. ASSUME BlueZ PROVE NotStarted'
  BY <1>4, <1>5, <1>8, <1>10
     DEF BlueZ, BlueZAnswers, ApplicationReplies, AdvertisementAccepted, AdvertisementRefused,
         AdvertisementReleased, LinkChanges
<1>11. ASSUME ApplicationFailed \/ AdvertisementRegistered PROVE NotStarted'
  <2>1. inbox # << >> /\ inbox' = Tail(inbox)
    BY <1>11, ReceivesType DEF ApplicationFailed, AdvertisementRegistered
  <2>2. \A i \in DOMAIN inbox' : i + 1 \in DOMAIN inbox /\ inbox'[i] = inbox[i + 1]
    BY <1>1, <2>1
  <2>3. ~InInbox({"appOk"})'
    BY <1>4, <2>2 DEF InInbox
  <2>4. server'.watch = server.watch /\ UNCHANGED <<app, pc, clients, events>>
    BY <1>1, <1>11 DEF ApplicationFailed, AdvertisementRegistered, Flags
  <2> QED
    BY <1>4, <2>3, <2>4 DEF NotStarted
<1>12. ASSUME Dispatch PROVE NotStarted'
  BY <1>6, <1>7, <1>11, <1>12
     DEF Dispatch, DeviceChanged, ApplicationRegistered, AdvertisementFailed, ReleaseReceived,
         Failure
<1>13. ASSUME Proceed PROVE NotStarted'
  <2>1. CASE TakeStart
    <3>1. server'.watch = server.watch
      BY <1>1, <2>1 DEF TakeStart, Flags
    <3> QED
      BY <1>8, <2>1, <3>1 DEF TakeStart
  <2>2. CASE DoStart
    <3>1. ~server'.startRequested /\ pc' # "start"
      BY <1>1, <2>2 DEF DoStart, AdvInd, StartOnce, Flags
    <3> QED
      BY <1>2, <3>1
  <2>3. CASE CheckAdv
    BY <1>4, <1>8, <2>3 DEF CheckAdv
  <2>4. CASE RegisterAdvertisement
    BY <1>5, <1>8, <2>4 DEF RegisterAdvertisement
  <2> QED
    BY <1>4, <1>5, <1>13, <2>1, <2>2, <2>3, <2>4
       DEF Proceed, UnregisterReturns, PowerCycleReturns, EnumerateFails, EnumerateReturns,
           ReportFound
<1>14. ASSUME PropertiesRead \/ (\E d \in Device : CentralAccesses(d)) \/ UNCHANGED vars
       PROVE  NotStarted'
  BY <1>4, <1>8, <1>14 DEF PropertiesRead, CentralAccesses, vars
<1>15. ASSUME TimerFires PROVE NotStarted'
  <2>1. server'.watch = server.watch
    BY <1>1, <1>15 DEF TimerFires, Flags
  <2> QED
    BY <1>8, <1>15, <2>1 DEF TimerFires
<1> QED
  BY <1>9, <1>10, <1>12, <1>13, <1>14, <1>15 DEF Next, Worker

(***************************************************************************)
(* Whenever the server is started, whoever is connected by then, and       *)
(* however connects, disconnects, first accesses and the enumeration       *)
(* overtake each other: once the enumeration is through and the news is    *)
(* processed, BLEServer's clients_ are the connected centrals.             *)
(***************************************************************************)
THEOREM ServerKnowsItsCentrals == Spec => []ClientsAreCentrals
<1>1. Init => PresenceInv /\ AdvInd
  <2> SUFFICES ASSUME Init PROVE PresenceInv /\ AdvInd
    OBVIOUS
  <2>1. /\ inbox = << >> /\ clients = {} /\ events = << >> /\ Known = {} /\ nextId = 1
        /\ ~server.watch /\ app = "none" /\ pc = "idle"
        /\ ~server.registered /\ ~server.busOpen /\ reg.phase = "none"
    BY DEF Init, Known
  <2>2. IdInv
    BY <2>1, FS_EmptySet DEF IdInv
  <2>3. Owned /\ Watched /\ NotStarted /\ ~Failing(inbox)
    BY <2>1 DEF Owned, Watched, NotStarted, Mentions, InInbox, Failing
  <2> QED
    BY <2>1, <2>2, <2>3 DEF PresenceInv, AdvInd, StartOnce, Covered
<1>2. TypeOK /\ PresenceInv /\ AdvInd /\ [Next]_vars => PresenceInv' /\ AdvInd'
  BY NextAdv, NextWatched, NextNotStarted DEF PresenceInv
<1>3. TypeOK /\ PresenceInv => ClientsAreCentrals
  <2> SUFFICES ASSUME TypeOK, PresenceInv, app = "enumerated", server.watch,
                      ~InInbox({"up", "down"}), events = << >>
               PROVE  clients = {ids[d] : d \in {x \in Device : link[x]}}
    BY DEF ClientsAreCentrals
  <2>1. \A d \in Device : ~Mentions(inbox, d)
    BY DEF InInbox, Mentions, About
  <2>2. \A d \in Device : link[d] <=> On(d)
    BY <2>1 DEF PresenceInv, Watched, Settled, Awaited
  <2>3. \A d \in Device : On(d) <=> ids[d] # NoId /\ ids[d] \in clients
    BY DEF On, Believes
  <2>4. \A x \in clients : x # NoId /\ \E d \in Device : ids[d] = x
    BY GattServerAssumption DEF PresenceInv, Owned, TypeOK, NoId
  <2> QED
    BY <2>2, <2>3, <2>4
<1> QED
  BY <1>1, <1>2, <1>3, ServerTypeCorrect, PTL DEF Spec

-----------------------------------------------------------------------------
(***************************************************************************)
(* NotifiedInOrder.  What is signalled, what the worker has swapped out    *)
(* and what is queued make up what was asked for; before the server is up  *)
(* everything asked for is still queued.                                   *)
(***************************************************************************)
Value == Payload \cup {<<>>, TornValue, NoValue}

ValuesType ==
  /\ value \in Value /\ assigning \in [{"main", "worker"} -> Value]
  /\ notify_q \in Seq(Value) /\ swapped \in Seq(Value)
  /\ asked \in Seq(Value) /\ told \in Seq(Value)

ValuesInv ==
  /\ ValuesType
  /\ worker_at = "drain" <=> swapped # <<>>
  /\ exported \in {"no", "tree"} =>
       worker_at # "drain" /\ told = <<>> /\ asked = notify_q
  /\ NotifiedInOrder

\* How the parts of a sequence may be divided anew.
LEMMA Regrouped ==
  ASSUME NEW s \in Seq(Value), NEW t \in Seq(Value), NEW u \in Seq(Value), NEW v \in Value
  PROVE  /\ s \o t \o Append(u, v) = Append(s \o t \o u, v)
         /\ t # <<>> => Append(s, Head(t)) \o Tail(t) \o u = s \o t \o u
         /\ s \o <<>> \o u = s \o u \o <<>>
         /\ <<>> \o u \o <<>> = u
<1>1. s \o t \o Append(u, v) = Append(s \o t \o u, v)
  OBVIOUS
<1>2. ASSUME t # <<>> PROVE Append(s, Head(t)) \o Tail(t) = s \o t
  BY <1>2
<1>3. s \o <<>> \o u = s \o u \o <<>>
  OBVIOUS
<1>4. <<>> \o u \o <<>> = u
  OBVIOUS
<1> QED
  BY <1>1, <1>2, <1>3, <1>4

\* notify() of either thread.
LEMMA NotifyKeeps ==
  ASSUME ValuesInv, NEW v \in Value, Notify(v), UNCHANGED <<exported, swapped, told>>,
         worker_at' = "drain" <=> worker_at = "drain",
         value' \in Value, assigning' \in [{"main", "worker"} -> Value]
  PROVE  ValuesInv'
<1> USE DEF ValuesInv, ValuesType, NotifiedInOrder
<1>1. CASE exported = "no"
  BY <1>1 DEF Notify
<1>2. CASE exported # "no"
  <2>1. notify_q' = Append(notify_q, v) /\ asked' = Append(asked, v)
    BY <1>2 DEF Notify, Queued
  <2>2. notify_q' \in Seq(Value) /\ asked' \in Seq(Value)
    BY <2>1
  <2>3. told \o swapped \o Append(notify_q, v) = Append(told \o swapped \o notify_q, v)
    BY Regrouped, SMTT(30)
  <2> QED
    BY <2>1, <2>2, <2>3
<1> QED
  BY <1>1, <1>2

\* Assignments take values to values.
LEMMA Assigned ==
  ASSUME ValuesInv, NEW t \in {"main", "worker"}
  PROVE  /\ \A v \in Value : AssignBegins(t, v) =>
              value' \in Value /\ assigning' \in [{"main", "worker"} -> Value]
         /\ AssignEnds(t) => value' \in Value /\ assigning' \in [{"main", "worker"} -> Value]
         /\ Seen(t, value) \subseteq Value
<1> USE DEF ValuesInv, ValuesType
<1>1. Other(t) \in {"main", "worker"}
  BY DEF Other
<1>2. NoValue \in Value /\ TornValue \in Value
  BY DEF Value
<1>3. ASSUME NEW v \in Value, AssignBegins(t, v)
      PROVE  value' \in Value /\ assigning' \in [{"main", "worker"} -> Value]
  BY <1>3 DEF AssignBegins
<1>4. ASSUME AssignEnds(t)
      PROVE  value' \in Value /\ assigning' \in [{"main", "worker"} -> Value]
  BY <1>2, <1>4 DEF AssignEnds
<1>5. Seen(t, value) \subseteq Value
  BY <1>1, <1>2 DEF Seen
<1> QED
  BY <1>3, <1>4, <1>5

\* A step that leaves the queues alone.
LEMMA QueuesKept ==
  ASSUME ValuesInv, UNCHANGED <<exported, notify_q, swapped, asked, told>>,
         worker_at' = "drain" <=> worker_at = "drain",
         value' \in Value, assigning' \in [{"main", "worker"} -> Value]
  PROVE  ValuesInv'
BY DEF ValuesInv, ValuesType, NotifiedInOrder

LEMMA MainValues == ValuesInv /\ MainSteps => ValuesInv'
<1> SUFFICES ASSUME ValuesInv, MainSteps PROVE ValuesInv'
  OBVIOUS
<1> USE DEF valueStore, mainThread, workerThread
<1>1. Payload \subseteq Value
  BY DEF Value
<1>2. value \in Value /\ assigning \in [{"main", "worker"} -> Value]
  BY DEF ValuesInv, ValuesType
<1>3. ASSUME NEW v \in Payload, NEW by \in {"set", "play"}, SetValue(v, by) PROVE ValuesInv'
  BY <1>1, <1>3, Assigned, QueuesKept DEF SetValue
<1>4. ASSUME NEW v \in Payload, PreNotify(v) PROVE ValuesInv'
  BY <1>1, <1>4, Assigned, QueuesKept DEF PreNotify
<1>5. ASSUME NEW v \in Payload, SetDescriptor(v) PROVE ValuesInv'
  BY <1>2, <1>5, QueuesKept DEF SetDescriptor
<1>6. CASE BuildTree
  BY <1>6 DEF BuildTree, ValuesInv, ValuesType, NotifiedInOrder
<1>7. CASE SetValueReturns
  BY <1>7, Assigned, QueuesKept DEF SetValueReturns
<1>8. CASE PreNotifyReturns
  BY <1>8, Assigned, QueuesKept DEF PreNotifyReturns
<1>9. CASE MainNotifies
  <2>1. PICK v \in Seen("main", value) : Notify(v)
    BY <1>9 DEF MainNotifies
  <2>2. v \in Value
    BY Assigned
  <2> QED
    BY <1>2, <1>9, <2>1, <2>2, NotifyKeeps DEF MainNotifies
<1> QED
  BY <1>3, <1>4, <1>5, <1>6, <1>7, <1>8, <1>9 DEF MainSteps

LEMMA WorkerValues == ValuesInv /\ WorkerSteps => ValuesInv'
<1> SUFFICES ASSUME ValuesInv, WorkerSteps PROVE ValuesInv'
  OBVIOUS
<1> USE DEF valueStore, mainThread, workerThread
<1>1. Payload \subseteq Value
  BY DEF Value
<1>2. ValuesType
  BY DEF ValuesInv
<1>3. value \in Value /\ assigning \in [{"main", "worker"} -> Value]
  BY <1>2 DEF ValuesType
<1>4. CASE SwapCommands
  <2>1. /\ swapped' = notify_q /\ notify_q' = <<>> /\ UNCHANGED <<asked, told, value, assigning>>
        /\ swapped = <<>> /\ exported' \in {"up", "failed"} \cup {exported} /\ exported' # "no"
        /\ exported' # "tree"
        /\ worker_at' = "drain" <=> notify_q # <<>>
    BY <1>4 DEF SwapCommands, ValuesInv
  <2>2. ValuesType'
    BY <1>2, <2>1 DEF ValuesType
  <2>3. exported' = "up" => asked = told \o notify_q \o <<>>
    <3>1. CASE exported = "tree"
      BY <1>2, <3>1, Regrouped DEF ValuesInv, ValuesType
    <3>2. CASE exported = "up"
      BY <1>2, <2>1, <3>2, Regrouped DEF ValuesInv, NotifiedInOrder, ValuesType
    <3> QED
      BY <1>4, <3>1, <3>2 DEF SwapCommands
  <2> QED
    BY <2>1, <2>2, <2>3 DEF ValuesInv, NotifiedInOrder
<1>5. CASE DoNotify
  <2>1. /\ swapped # <<>> /\ swapped' = Tail(swapped) /\ exported \notin {"no", "tree"}
        /\ told' = IF exported = "up" THEN Append(told, Head(swapped)) ELSE told
        /\ worker_at' = IF Len(swapped) = 1 THEN "idle" ELSE "drain"
        /\ UNCHANGED <<exported, notify_q, asked, value, assigning>>
    BY <1>5 DEF DoNotify, ValuesInv
  <2>2. /\ Head(swapped) \in Value /\ Tail(swapped) \in Seq(Value)
        /\ Tail(swapped) = <<>> <=> Len(swapped) = 1
    <3>1. swapped \in Seq(Value) /\ Len(swapped) \in Nat /\ Len(swapped) # 0
      BY <1>2, <2>1 DEF ValuesType
    <3>2. Head(swapped) \in Value /\ Tail(swapped) \in Seq(Value)
          /\ Len(Tail(swapped)) = Len(swapped) - 1
      BY <2>1, <3>1
    <3>3. Tail(swapped) = <<>> <=> Len(Tail(swapped)) = 0
      BY <3>2, EmptySeq
    <3> QED
      BY <3>1, <3>2, <3>3
  <2>3. Append(told, Head(swapped)) \in Seq(Value)
    BY <1>2, <2>2 DEF ValuesType
  <2>4. ValuesType'
    BY <1>2, <2>1, <2>2, <2>3 DEF ValuesType
  <2>5. exported' = "up" => asked' = told' \o swapped' \o notify_q'
    <3>1. Append(told, Head(swapped)) \o Tail(swapped) \o notify_q = told \o swapped \o notify_q
      BY <1>2, <2>1, <2>2, Regrouped, SMTT(30) DEF ValuesType
    <3> QED
      BY <2>1, <3>1 DEF ValuesInv, NotifiedInOrder
  <2> QED
    BY <2>1, <2>2, <2>4, <2>5 DEF ValuesInv, NotifiedInOrder
<1>6. CASE ReadBegins
  BY <1>1, <1>3, <1>6, Assigned, QueuesKept DEF ReadBegins
<1>7. CASE OnReadReturns
  BY <1>7, Assigned, QueuesKept DEF OnReadReturns
<1>8. CASE WriteAssigned
  BY <1>8, Assigned, QueuesKept DEF WriteAssigned
<1>9. CASE WriteReturns
  <2>1. CASE UNCHANGED <<notify_q, asked>>
    BY <1>3, <1>9, <2>1, QueuesKept DEF WriteReturns
  <2>2. ASSUME NEW v \in Seen("worker", value), Notify(v) PROVE ValuesInv'
    <3>1. v \in Value
      BY Assigned
    <3> QED
      BY <1>3, <1>9, <2>2, <3>1, NotifyKeeps DEF WriteReturns
  <2> QED
    BY <1>9, <2>1, <2>2 DEF WriteReturns
<1>10. ASSUME NEW v \in Payload, WriteBegins(v) PROVE ValuesInv'
  BY <1>1, <1>10, Assigned, QueuesKept DEF WriteBegins
<1>11. ASSUME NEW v \in Payload, DescriptorWritten(v) PROVE ValuesInv'
  BY <1>3, <1>11, QueuesKept DEF DescriptorWritten
<1>12. ASSUME NEW offset \in 0 .. OffsetMax, ReadAnswers(offset) PROVE ValuesInv'
  BY <1>3, <1>12, QueuesKept DEF ReadAnswers
<1>13. ASSUME NEW offset \in 0 .. OffsetMax, DescriptorRead(offset) PROVE ValuesInv'
  BY <1>3, <1>13, QueuesKept DEF DescriptorRead
<1>14. ASSUME NEW on \in BOOLEAN, Subscribe(on) PROVE ValuesInv'
  BY <1>3, <1>14, QueuesKept DEF Subscribe
<1> QED
  BY <1>4, <1>5, <1>6, <1>7, <1>8, <1>9, <1>10, <1>11, <1>12, <1>13, <1>14 DEF WorkerSteps

(***************************************************************************)
(* For any payloads and however the threads interleave: on a server that   *)
(* is up, the values asked for with notify() since the tree was built are  *)
(* those signalled, swapped out and queued, in this order and each as it   *)
(* was at the call.                                                        *)
(***************************************************************************)
THEOREM ServerNotifiesInOrder == ValuesSpec => []NotifiedInOrder
<1>1. ValuesInit => ValuesInv
  <2> SUFFICES ASSUME ValuesInit PROVE ValuesInv
    OBVIOUS
  <2>1. ValuesType
    BY DEF ValuesInit, ValuesType, Value
  <2> QED
    BY <2>1 DEF ValuesInit, ValuesInv, NotifiedInOrder
<1>2. ValuesInv /\ [ValuesNext]_valuesVars => ValuesInv'
  <2>1. ValuesInv /\ UNCHANGED valuesVars => ValuesInv'
    BY DEF valuesVars, valueStore, mainThread, workerThread, ValuesInv, ValuesType,
           NotifiedInOrder
  <2> QED
    BY <2>1, MainValues, WorkerValues DEF ValuesNext
<1>3. ValuesInv => NotifiedInOrder
  BY DEF ValuesInv
<1> QED
  BY <1>1, <1>2, <1>3, PTL DEF ValuesSpec
=============================================================================
