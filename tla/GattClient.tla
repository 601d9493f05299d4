---------------------------- MODULE GattClient ----------------------------
(***************************************************************************)
(* One GATT client: a BLEClientBase on the main thread, its BLEGattHost on *)
(* the shared BlueZ worker thread, the two queues between them, and BlueZ  *)
(* itself (external: the state of the link and the signals it emits).      *)
(*                                                                         *)
(* The main thread only touches `client', `drained' and `inLoop'; the      *)
(* worker only touches `batch', `calls' and `host'.  They meet in          *)
(* `commands' (commands_ under cmd_mu_) and `events' (events_ under        *)
(* evt_mu_), which each side swaps out whole.                              *)
(*                                                                         *)
(* A D-Bus method call blocks the worker.  `calls' is the stack of calls   *)
(* the worker is blocked in, the innermost first: a call returns in one    *)
(* step, which runs the code up to the next call.  The stack is deeper     *)
(* than one only if a blocking call dispatches signals re-entrantly, as    *)
(* the comments of ble_gatt_host say it may: constant Reentrant.           *)
(***************************************************************************)
EXTENDS BleClientBase, Sequences, FiniteSets

CONSTANTS
  Reentrant,  \* may a blocking sd_bus_call dispatch queued signals?
  OpKinds,    \* the GATT operations the application issues
  Limit       \* bounds on what the environment does, see Actor

Actor == {"advert", "connect", "disconnect", "op", "drop", "up"}

ASSUME GattClientAssumption ==
  /\ Reentrant \in BOOLEAN
  /\ OpKinds \subseteq {"READ", "GAP_READ", "WRITE", "SET_NOTIFY", "READ_RSSI"}
  /\ Limit \in [Actor -> Nat]

VARIABLES
  client,     \* the BLEClientBase record
  inLoop,     \* loop() has drained the event queue and is dispatching
  drained,    \* the events loop() swapped out and has not dispatched yet
  commands,   \* commands_: main thread to worker
  events,     \* events_: worker to main thread
  batch,      \* the commands worker_process_commands() swapped out
  calls,      \* the D-Bus calls the worker is blocked in, innermost first
  host,       \* BLEGattHost's worker-only flags
  dev,        \* BlueZ's Device1: Connected and ServicesResolved
  signals,    \* PropertiesChanged signals queued on this host's bus
  done,       \* ids of the completions the application got, oldest first
  used        \* how much of Limit is used up

mainVars   == <<client, inLoop, drained, done>>
workerVars == <<batch, calls, host>>
queueVars  == <<commands, events>>
bluezVars  == <<dev, signals>>
vars == <<mainVars, workerVars, queueVars, bluezVars, used>>

-----------------------------------------------------------------------------
LifecycleEvent == {"CONNECTED", "SERVICES_DISCOVERED", "DISCONNECTED"}
CallName == {"getConnected", "connect", "reconnect", "pollConnected",
             "pollResolved", "walk", "gap", "mtu", "disconnect", "op"}
Signal == {"Connected", "Disconnected", "ServicesResolved"}

Command == [kind : {"CONNECT", "DISCONNECT"} \cup OpKinds, id : Nat]
Event   == [kind : LifecycleEvent \cup {"COMPLETE"}, id : Nat]
Frame   == [call : CallName, id : Nat]

Cmd(kind)    == [kind |-> kind, id |-> 0]
Ev(kind)     == [kind |-> kind, id |-> 0]
Call(name)   == [call |-> name, id |-> 0]
Complete(id) == [kind |-> "COMPLETE", id |-> id]

TypeOK ==
  /\ client \in Client
  /\ inLoop \in BOOLEAN
  /\ drained \in Seq(Event)
  /\ commands \in Seq(Command)
  /\ events \in Seq(Event)
  /\ batch \in Seq(Command)
  /\ calls \in Seq(Frame)
  /\ host \in [busOpen : BOOLEAN, discovered : BOOLEAN,
               discovering : BOOLEAN, handleMap : BOOLEAN]
  /\ dev \in [link : BOOLEAN, resolved : BOOLEAN]
  /\ signals \in Seq(Signal)
  /\ done \in Seq(Nat)
  /\ used \in [Actor -> Nat]

Init ==
  /\ client = Setup(1)
  /\ inLoop = FALSE
  /\ drained = << >>
  /\ commands = << >>
  /\ events = << >>
  /\ batch = << >>
  /\ calls = << >>
  /\ host = [busOpen |-> FALSE, discovered |-> FALSE,
             discovering |-> FALSE, handleMap |-> FALSE]
  /\ dev \in {[link |-> FALSE, resolved |-> FALSE],
              [link |-> TRUE, resolved |-> TRUE]}
  /\ signals = << >>
  /\ done = << >>
  /\ used = [a \in Actor |-> 0]

Spend(a) == used[a] < Limit[a] /\ used' = [used EXCEPT ![a] = @ + 1]

-----------------------------------------------------------------------------
(* Main thread: what the tracker and the application call.  The tracker's  *)
(* loop is not this client's; application code also runs inside loop(), in *)
(* the callbacks of the events it dispatches.                              *)

\* The tracker hands an advertisement of this device to parse_device().
Advertise ==
  /\ ~inLoop
  /\ Spend("advert")
  /\ ParseDevice(client) # client
  /\ client' = ParseDevice(client)
  /\ UNCHANGED <<inLoop, drained, done, workerVars, queueVars, bluezVars>>

\* connect() and BLEGattHost::connect().
ClientConnect ==
  /\ client' = Connect(client)
  /\ commands' = Append(commands, Cmd("CONNECT"))
  /\ UNCHANGED <<inLoop, drained, done, events, workerVars, bluezVars>>

\* The tracker's loop promotes a DISCOVERED client.
TrackerConnect ==
  /\ ~inLoop
  /\ client.state = "DISCOVERED"
  /\ ClientConnect
  /\ UNCHANGED used

\* BLEClientConnectAction calls connect() whatever the state is.
UserConnect ==
  /\ Spend("connect")
  /\ ClientConnect

\* unconditional_disconnect() enqueues DISCONNECT only if there is a host_.
DisconnectCommand(c) ==
  IF c.host # NoHost THEN Append(commands, Cmd("DISCONNECT")) ELSE commands

\* disconnect(): BLEClientDisconnectAction, set_enabled(false).
UserDisconnect ==
  /\ Spend("disconnect")
  /\ client.state # "IDLE"
  /\ client' = Disconnect(client)
  /\ commands' = IF DisconnectNow(client) THEN DisconnectCommand(client)
                                          ELSE commands
  /\ UNCHANGED <<inLoop, drained, done, events, workerVars, bluezVars>>

\* A handle-based primitive; it is refused unless the client is Ready.
IssueOp(kind) ==
  /\ Spend("op")
  /\ Ready(client)
  /\ commands' = Append(commands, [kind |-> kind, id |-> used'["op"]])
  /\ UNCHANGED <<mainVars, events, workerVars, bluezVars>>

-----------------------------------------------------------------------------
(* Main thread: BLEClientBase::loop().                                     *)

LoopDrain ==
  /\ ~inLoop
  /\ inLoop' = TRUE
  /\ drained' = IF client.host # NoHost THEN events ELSE << >>
  /\ events' = IF client.host # NoHost THEN << >> ELSE events
  /\ UNCHANGED <<client, done, commands, workerVars, bluezVars, used>>

DispatchEvent ==
  /\ inLoop /\ drained # << >>
  /\ drained' = Tail(drained)
  /\ LET ev == Head(drained) IN
     /\ client' = CASE ev.kind = "CONNECTED"           -> OnConnected(client)
                    [] ev.kind = "SERVICES_DISCOVERED" -> OnServicesDiscovered(client, 1)
                    [] ev.kind = "DISCONNECTED"        -> OnDisconnected(client)
                    [] OTHER                           -> client
     /\ commands' = IF ev.kind = "CONNECTED" /\ client.want
                    THEN DisconnectCommand(client) ELSE commands
     /\ done' = IF ev.kind = "COMPLETE" THEN Append(done, ev.id) ELSE done
  /\ UNCHANGED <<inLoop, events, workerVars, bluezVars, used>>

\* CONNECTING for longer than CONNECT_TIMEOUT_MS.
ConnectTimeoutChecksConnected ==
  /\ inLoop /\ drained = << >>
  /\ client.state = "CONNECTED"
  /\ inLoop' = FALSE
  /\ commands' = DisconnectCommand(client)
  /\ client' = OnDisconnected(client)
  /\ UNCHANGED <<drained, done, events, workerVars, bluezVars, used>>

ConnectTimeout ==
  /\ inLoop /\ drained = << >>
  /\ client.state = "CONNECTING"
  /\ inLoop' = FALSE
  /\ commands' = DisconnectCommand(client)
  /\ client' = OnDisconnected(client)
  /\ UNCHANGED <<drained, done, events, workerVars, bluezVars, used>>

\* DISCONNECTING for longer than DISCONNECT_TIMEOUT_MS.
DisconnectTimeoutOnlyIfDeferred ==
  /\ inLoop /\ drained = << >>
  /\ client.state = "DISCONNECTING" /\ client.want
  /\ inLoop' = FALSE
  /\ client' = OnDisconnected(client)
  /\ UNCHANGED <<drained, done, commands, events, workerVars, bluezVars, used>>

DisconnectTimeout ==
  /\ inLoop /\ drained = << >>
  /\ client.state = "DISCONNECTING"
  /\ inLoop' = FALSE
  /\ client' = OnDisconnected(client)
  /\ UNCHANGED <<drained, done, commands, events, workerVars, bluezVars, used>>

NoTimeoutDue ==
  /\ inLoop /\ drained = << >>
  /\ inLoop' = FALSE
  /\ UNCHANGED <<client, drained, done, commands, events, workerVars, bluezVars, used>>

LoopEnd == ConnectTimeout \/ DisconnectTimeout \/ NoTimeoutDue

-----------------------------------------------------------------------------
(* Worker thread.  Each operator below runs on the frames `rest' that stay *)
(* blocked beneath it and leaves the worker at its next blocking call.     *)

Post(ev) == events' = Append(events, ev)

\* try_start_discovery_() up to GetManagedObjects.
DiscoveryGuardIgnoresWalk == ~host.discovered
DiscoveryGuard == ~host.discovered /\ ~host.discovering

TryStartDiscovery(rest) ==
  /\ IF DiscoveryGuard
     THEN /\ host' = [host EXCEPT !.discovering = TRUE]
          /\ calls' = <<Call("walk")>> \o rest
     ELSE host' = host /\ calls' = rest
  /\ UNCHANGED events

\* worker_on_connected_changed(true) up to the ServicesResolved poll.
LinkCameUp(rest) ==
  /\ Post(Ev("CONNECTED"))
  /\ calls' = <<Call("pollResolved")>> \o rest
  /\ UNCHANGED host

\* worker_on_connected_changed(false).
ForgetDiscoveryKeepsFlag == [host EXCEPT !.discovering = FALSE, !.handleMap = FALSE]
ForgetDiscovery == [host EXCEPT !.discovered = FALSE, !.discovering = FALSE,
                                !.handleMap = FALSE]

LinkWentDownQuietBeforeDiscovery(rest) ==
  /\ host' = ForgetDiscovery
  /\ IF host.discovered THEN Post(Ev("DISCONNECTED")) ELSE UNCHANGED events
  /\ calls' = rest

LinkWentDown(rest) ==
  /\ host' = ForgetDiscovery
  /\ Post(Ev("DISCONNECTED"))
  /\ calls' = rest

\* do_disconnect_(): with no bus there is nothing to tear down.
DoDisconnect(rest) ==
  IF host.busOpen
  THEN calls' = <<Call("disconnect")>> \o rest /\ UNCHANGED events
  ELSE Post(Ev("DISCONNECTED")) /\ calls' = rest

\* do_connect_(): open_bus_() may fail, and then nothing is reported.
DoConnect ==
  \/ /\ host' = [host EXCEPT !.busOpen = TRUE]
     /\ calls' = <<Call("getConnected")>>
     /\ UNCHANGED events
  \/ /\ ~host.busOpen
     /\ UNCHANGED <<host, calls, events>>

\* do_read_(), do_write_(), do_set_notify_(), do_read_rssi_(): an operation
\* that has no BlueZ object to call completes at once.
NeedsCall(kind) ==
  \/ kind \in {"READ", "WRITE", "SET_NOTIFY"} /\ host.handleMap
  \/ kind = "READ_RSSI" /\ host.busOpen

DoOpDropsInvalidHandle(cmd) ==
  /\ calls' = IF NeedsCall(cmd.kind)
              THEN <<[call |-> "op", id |-> cmd.id]>> ELSE << >>
  /\ UNCHANGED <<host, events>>

DoOp(cmd) ==
  /\ IF NeedsCall(cmd.kind)
     THEN calls' = <<[call |-> "op", id |-> cmd.id]>> /\ UNCHANGED events
     ELSE Post(Complete(cmd.id)) /\ calls' = << >>
  /\ UNCHANGED host

\* worker_process_commands(): swap the queue out, then run it in order.
TakeCommands ==
  /\ calls = << >> /\ batch = << >> /\ commands # << >>
  /\ batch' = commands
  /\ commands' = << >>
  /\ UNCHANGED <<mainVars, events, calls, host, bluezVars, used>>

RunCommand ==
  /\ calls = << >> /\ batch # << >>
  /\ batch' = Tail(batch)
  /\ \/ Head(batch).kind = "CONNECT" /\ DoConnect
     \/ Head(batch).kind = "DISCONNECT" /\ DoDisconnect(<< >>) /\ UNCHANGED host
     \/ Head(batch).kind \in OpKinds /\ DoOp(Head(batch))
  /\ UNCHANGED <<mainVars, commands, bluezVars, used>>

-----------------------------------------------------------------------------
(* BlueZ (external).  A change of the link is signalled to a bus that is   *)
(* open; ServicesResolved turns true some time after the link is up.       *)

SetLink(up) ==
  /\ dev' = [link |-> up, resolved |-> dev.resolved /\ up]
  /\ signals' = IF host.busOpen /\ up # dev.link
                THEN Append(signals, IF up THEN "Connected" ELSE "Disconnected")
                ELSE signals

\* The peer goes away, or another program connects or disconnects it.
LinkDrops ==
  /\ Spend("drop")
  /\ dev.link
  /\ SetLink(FALSE)
  /\ UNCHANGED <<mainVars, workerVars, queueVars>>

LinkRises ==
  /\ Spend("up")
  /\ ~dev.link
  /\ SetLink(TRUE)
  /\ UNCHANGED <<mainVars, workerVars, queueVars>>

ServicesResolve ==
  /\ dev.link /\ ~dev.resolved
  /\ dev' = [dev EXCEPT !.resolved = TRUE]
  /\ signals' = IF host.busOpen THEN Append(signals, "ServicesResolved") ELSE signals
  /\ UNCHANGED <<mainVars, workerVars, queueVars, used>>

-----------------------------------------------------------------------------
(* Worker thread: a blocking call returns.                                 *)

Returns(name) == calls # << >> /\ Head(calls).call = name

\* do_connect_(): is the device connected already?
GetConnectedReturns ==
  /\ Returns("getConnected")
  /\ IF dev.link
     THEN LinkCameUp(Tail(calls))
     ELSE /\ calls' = <<Call("connect")>> \o Tail(calls)
          /\ UNCHANGED <<host, events>>
  /\ UNCHANGED <<mainVars, commands, batch, bluezVars, used>>

\* Device1.Connect succeeded: the CONNECTED event comes from the signal.
ConnectSucceeds ==
  /\ Returns("connect") \/ Returns("reconnect")
  /\ SetLink(TRUE)
  /\ calls' = Tail(calls)
  /\ UNCHANGED <<mainVars, queueVars, batch, host, used>>

\* Device1.Connect failed: AlreadyConnected is a success; the first local
\* abort is retried; anything else is settled by reading Connected again.
ConnectFails ==
  /\ \/ /\ Returns("connect") \/ Returns("reconnect")
        /\ dev.link
        /\ LinkCameUp(Tail(calls))
     \/ /\ Returns("connect")
        /\ calls' = <<Call("reconnect")>> \o Tail(calls)
        /\ UNCHANGED <<host, events>>
     \/ /\ Returns("connect") \/ Returns("reconnect")
        /\ calls' = <<Call("pollConnected")>> \o Tail(calls)
        /\ UNCHANGED <<host, events>>
  /\ UNCHANGED <<mainVars, commands, batch, bluezVars, used>>

PollConnectedReturns ==
  /\ Returns("pollConnected")
  /\ IF dev.link
     THEN LinkCameUp(Tail(calls))
     ELSE Post(Ev("DISCONNECTED")) /\ calls' = Tail(calls) /\ UNCHANGED host
  /\ UNCHANGED <<mainVars, commands, batch, bluezVars, used>>

PollResolvedReturns ==
  /\ Returns("pollResolved")
  /\ IF dev.resolved
     THEN TryStartDiscovery(Tail(calls))
     ELSE calls' = Tail(calls) /\ UNCHANGED <<host, events>>
  /\ UNCHANGED <<mainVars, commands, batch, bluezVars, used>>

\* walk_gatt_tree_(): GetManagedObjects returned and every object has a
\* handle; handle_map_ is rebuilt from whatever BlueZ still exports.
WalkSucceeds ==
  /\ Returns("walk")
  /\ \E filled \in BOOLEAN :
       /\ dev.resolved => filled
       /\ host' = [host EXCEPT !.handleMap = filled]
  /\ calls' = <<Call("gap")>> \o Tail(calls)
  /\ UNCHANGED <<mainVars, queueVars, batch, bluezVars, used>>

\* walk_gatt_tree_() returned false: the call failed (handle_map_ as it was)
\* or an object has no handle (handle_map_ rebuilt in part): hard failure.
WalkFails ==
  /\ Returns("walk")
  /\ \E filled \in {host.handleMap} \cup BOOLEAN :
       host' = [host EXCEPT !.discovering = FALSE, !.handleMap = filled]
  /\ DoDisconnect(Tail(calls))
  /\ UNCHANGED <<mainVars, commands, batch, bluezVars, used>>

\* synthesize_gap_service_() is through; discovered_ is set before the MTU
\* is read.
GapReturns ==
  /\ Returns("gap")
  /\ host' = [host EXCEPT !.discovered = TRUE]
  /\ calls' = <<Call("mtu")>> \o Tail(calls)
  /\ UNCHANGED <<mainVars, queueVars, batch, bluezVars, used>>

MtuReturns ==
  /\ Returns("mtu")
  /\ host' = [host EXCEPT !.discovering = FALSE]
  /\ Post(Ev("SERVICES_DISCOVERED"))
  /\ calls' = Tail(calls)
  /\ UNCHANGED <<mainVars, commands, batch, bluezVars, used>>

\* Device1.Disconnect: fire and forget, errors ignored.
DisconnectReturns ==
  /\ Returns("disconnect")
  /\ calls' = Tail(calls)
  /\ SetLink(FALSE) \/ UNCHANGED bluezVars
  /\ UNCHANGED <<mainVars, queueVars, batch, host, used>>

OpReturns ==
  /\ Returns("op")
  /\ Post(Complete(Head(calls).id))
  /\ calls' = Tail(calls)
  /\ UNCHANGED <<mainVars, commands, batch, host, bluezVars, used>>

CallReturns ==
  \/ GetConnectedReturns \/ ConnectSucceeds \/ ConnectFails
  \/ PollConnectedReturns \/ PollResolvedReturns
  \/ WalkSucceeds \/ WalkFails \/ GapReturns \/ MtuReturns
  \/ DisconnectReturns \/ OpReturns

\* on_properties_changed_(): from sd_event_run between two batches, or from
\* inside a blocking call if those dispatch.
MayDispatch == (calls = << >> /\ batch = << >>) \/ (Reentrant /\ calls # << >>)

DeliverSignal ==
  /\ MayDispatch /\ signals # << >>
  /\ signals' = Tail(signals)
  /\ \/ Head(signals) = "Connected" /\ LinkCameUp(calls)
     \/ Head(signals) = "Disconnected" /\ LinkWentDown(calls)
     \/ Head(signals) = "ServicesResolved" /\ TryStartDiscovery(calls)
  /\ UNCHANGED <<mainVars, commands, batch, dev, used>>

-----------------------------------------------------------------------------
Main   == \/ Advertise \/ TrackerConnect \/ UserConnect \/ UserDisconnect
          \/ \E kind \in OpKinds : IssueOp(kind)
          \/ LoopDrain \/ DispatchEvent \/ LoopEnd
Worker == TakeCommands \/ RunCommand \/ CallReturns \/ DeliverSignal
BlueZ  == LinkDrops \/ LinkRises \/ ServicesResolve

Next == Main \/ Worker \/ BlueZ

(***************************************************************************)
(* The main loop and the worker run for ever; every D-Bus call returns or  *)
(* times out; a client that stays CONNECTING or DISCONNECTING exceeds its  *)
(* time limit in some pass of loop().  Nothing obliges the peer, the       *)
(* application or the advertiser to do anything.                           *)
(***************************************************************************)
Fairness ==
  /\ WF_vars(TrackerConnect)
  /\ WF_vars(LoopDrain) /\ WF_vars(DispatchEvent) /\ WF_vars(LoopEnd)
  /\ SF_vars(ConnectTimeout) /\ SF_vars(DisconnectTimeout)
  /\ WF_vars(TakeCommands) /\ WF_vars(RunCommand) /\ WF_vars(CallReturns)
  /\ WF_vars(DeliverSignal)
  /\ WF_vars(ServicesResolve)

Spec == Init /\ [][Next]_vars
FairSpec == Spec /\ Fairness

-----------------------------------------------------------------------------
(* Safety.                                                                 *)

(***************************************************************************)
(* The client record stays consistent through every interleaving of user   *)
(* calls, late worker events and timeouts: neither a service tree nor a    *)
(* deferred disconnect reaches an idle or armed client, a CONNECTED one    *)
(* has no disconnect left to do, and an ESTABLISHED client has a service   *)
(* tree and a host_ (so the !host_ test of read_characteristic() and its   *)
(* siblings never decides).  An attempt started from DISCONNECTING or      *)
(* ESTABLISHED may inherit both: see ClientConsistent.                     *)
(***************************************************************************)
ClientInv ==
  /\ ClientConsistent(client)
  /\ client.state = "ESTABLISHED" => client.services > 0 /\ Ready(client)

Pending(sig) == \E i \in DOMAIN signals : signals[i] = sig
Queued(kind) == \E i \in DOMAIN (drained \o events) :
                  (drained \o events)[i].kind = kind

(***************************************************************************)
(* The worker's discovered_ flag (which suppresses every later discovery)  *)
(* is never left standing over a link that is down, except while BlueZ's   *)
(* Connected=false is still on its way to worker_on_connected_changed().   *)
(***************************************************************************)
DiscoveredTracksLink == host.discovered => dev.link \/ Pending("Disconnected")

(***************************************************************************)
(* No lost disconnect: whenever the client still shows a usable connection *)
(* over a dead link, the news is in the pipeline, as a BlueZ signal or as  *)
(* a DISCONNECTED event that loop() has not dispatched.                    *)
(***************************************************************************)
DropIsReported ==
  client.state \in {"CONNECTED", "ESTABLISHED"} /\ ~dev.link
    => Pending("Disconnected") \/ Queued("DISCONNECTED")

(***************************************************************************)
(* The guard of try_start_discovery_(): one tree walk at a time, even when *)
(* a blocking call dispatches a signal re-entrantly.                       *)
(***************************************************************************)
Walks == {i \in DOMAIN calls : calls[i].call \in {"walk", "gap", "mtu"}}
OneWalkAtATime == \A i, j \in Walks : i = j

(***************************************************************************)
(* A client that is being torn down is not brought back: from              *)
(* DISCONNECTING it goes to IDLE, or to CONNECTING if connect() is called. *)
(***************************************************************************)
TeardownIsFinal ==
  [][client.state = "DISCONNECTING"
       => client'.state \notin {"CONNECTED", "ESTABLISHED"}]_vars

-----------------------------------------------------------------------------
(* Liveness, under FairSpec.                                               *)

\* Neither half-open state is for ever: loop()'s time limits end both.
ConnectingEnds    == client.state = "CONNECTING" ~> client.state # "CONNECTING"
DisconnectingEnds == client.state = "DISCONNECTING" ~> client.state # "DISCONNECTING"

\* Once the worker has discovered the services of the link, a client that
\* shows CONNECTED gets to ESTABLISHED (or is torn down): it is not left there.
DiscoveryReachesClient ==
  client.state = "CONNECTED" /\ host.discovered ~> client.state # "CONNECTED"

\* A dead link does not stay on display.
DropIsNoticed ==
  client.state = "ESTABLISHED" /\ ~dev.link
    ~> client.state # "ESTABLISHED" \/ dev.link

\* Every accepted operation is answered once and in order: see OpChannel.
Channel == INSTANCE OpChannel WITH issued <- used["op"], answered <- done
AnswersOnceInOrder == Channel!Spec
=============================================================================
