---------------------------- MODULE GattServer ----------------------------
(***************************************************************************)
(* BLEGattServer and BLEServer: the GATT application this program exports, *)
(* the centrals that connect to it and its advertisement.                  *)
(*                                                                         *)
(* The main thread changes the advertisement and, in BLEServer::loop(),    *)
(* applies the connect and disconnect events.  The shared worker thread    *)
(* starts the server, dispatches what BlueZ sends over the server's bus    *)
(* and registers the advertisement.  BlueZ is external: the links, and the *)
(* registration of ADV_PATH.                                               *)
(*                                                                         *)
(* `inbox' holds BlueZ's messages in the order they were sent: signals,    *)
(* Release calls and replies to asynchronous calls.  A blocking call of    *)
(* the worker gets its reply past the inbox, which waits until the worker  *)
(* is idle.                                                                *)
(***************************************************************************)
EXTENDS Integers, Sequences, FiniteSets

CONSTANTS
  Device,   \* the Device1 objects BlueZ knows
  IdSpace,  \* connection ids are taken modulo this, 2^16 in the code
  Limit     \* bounds on what the environment does, see Actor

Actor == {"push", "link", "release"}

ASSUME GattServerAssumption ==
  /\ IsFiniteSet(Device)
  /\ IdSpace \in Nat /\ IdSpace > 1 /\ IdSpace > Cardinality(Device)
  /\ Limit \in [Actor -> Nat]

VARIABLES
  link,     \* BlueZ: is the device connected?
  inbox,    \* BlueZ: the messages queued on the server's bus
  reg,      \* BlueZ: the registration of ADV_PATH and the content it read
  adv,      \* pending_adv_ (as a version), adv_pending_, and the main thread's
            \* position in on_advertising_changed()
  server,   \* the worker's flags
  app,      \* how far the GATT application has got
  pc,       \* the worker's position: idle in sd_event_run, or in a blocking call
  found,    \* devices of GetManagedObjects that are still to be reported
  ids,      \* device_conn_ids_
  nextId,   \* next_conn_id_
  events,   \* events_: worker to main thread
  clients,  \* BLEServer::clients_
  used      \* how much of Limit is used up

bluezVars    == <<link, inbox, reg>>
presenceVars == <<ids, nextId, events, clients>>
vars == <<bluezVars, adv, server, app, pc, found, presenceVars, used>>

NoId == -1
Torn == -1   \* pending_adv_ as read in the middle of its assignment

Presence == [kind : {"up", "down"}, device : Device]
AdvMessage == {"ok", "error", "exists", "release"}
Message == Presence \cup [kind : AdvMessage \cup {"appOk", "appError"}]
Msg(kind) == [kind |-> kind]

TypeOK ==
  /\ link \in [Device -> BOOLEAN]
  /\ inbox \in Seq(Message)
  /\ reg \in [phase : {"none", "asked", "read", "active"}, content : Int]
  /\ adv \in [pending : Nat, flag : BOOLEAN, push : {"idle", "writing", "written"}]
  /\ server \in [startRequested : BOOLEAN, busOpen : BOOLEAN, watch : BOOLEAN,
                 registered : BOOLEAN, cycled : BOOLEAN, timer : BOOLEAN]
  /\ app \in {"none", "asked", "refused", "registered", "enumerated"}
  /\ pc \in {"idle", "start", "checkAdv", "register", "unregister",
             "powerCycle", "enumerate", "report"}
  /\ found \subseteq Device
  /\ ids \in [Device -> {NoId} \cup 0 .. IdSpace - 1]
  /\ nextId \in 0 .. IdSpace - 1
  /\ events \in Seq([kind : {"CONNECT", "DISCONNECT"}, id : 0 .. IdSpace - 1])
  /\ clients \subseteq 0 .. IdSpace - 1
  /\ used \in [Actor -> Nat]

\* BLEServer::setup() has called start(); its advertising_start() is the
\* first push.  A central may be connected already.
Init ==
  /\ link \in [Device -> BOOLEAN]
  /\ inbox = << >>
  /\ reg = [phase |-> "none", content |-> 0]
  /\ adv = [pending |-> 0, flag |-> FALSE, push |-> "idle"]
  /\ server = [startRequested |-> TRUE, busOpen |-> FALSE, watch |-> FALSE,
               registered |-> FALSE, cycled |-> FALSE, timer |-> FALSE]
  /\ app = "none"
  /\ pc = "idle"
  /\ found = {}
  /\ ids = [d \in Device |-> NoId]
  /\ nextId = 1
  /\ events = << >>
  /\ clients = {}
  /\ used = [a \in Actor |-> 0]

Spend(a) == used[a] < Limit[a] /\ used' = [used EXCEPT ![a] = @ + 1]

-----------------------------------------------------------------------------
(* Main thread.                                                            *)

(* on_advertising_changed() takes no lock: it assigns pending_adv_, field  *)
(* by field, and sets adv_pending_, a plain bool, after it.  Its stores    *)
(* are taken to reach the worker in that order.                            *)
PushBegins ==
  /\ Spend("push")
  /\ adv.push = "idle"
  /\ adv' = [adv EXCEPT !.push = "writing"]
  /\ UNCHANGED <<bluezVars, server, app, pc, found, presenceVars>>

PushWritten ==
  /\ adv.push = "writing"
  /\ adv' = [adv EXCEPT !.push = "written", !.pending = @ + 1]
  /\ UNCHANGED <<bluezVars, server, app, pc, found, presenceVars, used>>

PushFlagged ==
  /\ adv.push = "written"
  /\ adv' = [adv EXCEPT !.push = "idle", !.flag = TRUE]
  /\ UNCHANGED <<bluezVars, server, app, pc, found, presenceVars, used>>

\* BLEServer::loop(), one event at a time (only loop() removes events).
ServerLoop ==
  /\ events # << >>
  /\ events' = Tail(events)
  /\ clients' = IF Head(events).kind = "CONNECT" THEN clients \cup {Head(events).id}
                                                 ELSE clients \ {Head(events).id}
  /\ UNCHANGED <<bluezVars, adv, server, app, pc, found, ids, nextId, used>>

-----------------------------------------------------------------------------
(* BlueZ (external).                                                       *)

\* A central connects or disconnects; signalled once the watch is installed.
LinkChanges(d) ==
  /\ Spend("link")
  /\ link' = [link EXCEPT ![d] = ~@]
  /\ inbox' = IF server.watch
              THEN Append(inbox, [kind |-> IF link[d] THEN "down" ELSE "up", device |-> d])
              ELSE inbox
  /\ UNCHANGED <<reg, adv, server, app, pc, found, presenceVars>>

\* RegisterApplication is answered.
ApplicationReplies ==
  /\ app = "asked"
  /\ \/ inbox' = Append(inbox, Msg("appOk")) /\ app' = "registered"
     \/ inbox' = Append(inbox, Msg("appError")) /\ app' = "refused"
  /\ UNCHANGED <<link, reg, adv, server, pc, found, presenceVars, used>>

\* RegisterAdvertisement is answered, after the properties were read back.
AdvertisementAccepted ==
  /\ reg.phase = "read"
  /\ reg' = [reg EXCEPT !.phase = "active"]
  /\ inbox' = Append(inbox, Msg("ok"))
  /\ UNCHANGED <<link, adv, server, app, pc, found, presenceVars, used>>

AdvertisementRefused ==
  /\ reg.phase = "read"
  /\ reg' = [reg EXCEPT !.phase = "none"]
  /\ inbox' = Append(inbox, Msg("error"))
  /\ UNCHANGED <<link, adv, server, app, pc, found, presenceVars, used>>

\* BlueZ drops the registration on its own and calls Release.
AdvertisementReleased ==
  /\ Spend("release")
  /\ reg.phase = "active"
  /\ reg' = [reg EXCEPT !.phase = "none"]
  /\ inbox' = Append(inbox, Msg("release"))
  /\ UNCHANGED <<link, adv, server, app, pc, found, presenceVars>>

\* The registration is gone; a call that was not settled yet gets an error.
Cancelled ==
  IF reg.phase \in {"asked", "read"} THEN Append(inbox, Msg("error")) ELSE inbox

\* A new registration: BlueZ asks for the properties, unless the path is
\* registered already.
TakeUp(pending, phase) ==
  IF phase = "none"
  THEN reg' = [reg EXCEPT !.phase = "asked"] /\ inbox' = pending
  ELSE /\ reg' = [reg EXCEPT !.phase = phase]
       /\ inbox' = Append(pending, Msg("exists"))

-----------------------------------------------------------------------------
(* Worker thread: worker_process_commands().                               *)

TakeStart ==
  /\ pc = "idle" /\ server.startRequested
  /\ server' = [server EXCEPT !.startRequested = FALSE]
  /\ pc' = "start"
  /\ UNCHANGED <<bluezVars, adv, app, found, presenceVars, used>>

\* do_start_(): the bus, the object manager or the call may fail, and nothing
\* retries them; a failed watch is only logged.
DoStart ==
  /\ pc = "start"
  /\ \E bus, manager, matched, sent \in BOOLEAN :
       /\ server' = [server EXCEPT !.busOpen = bus, !.watch = bus /\ manager /\ matched]
       /\ app' = IF bus /\ manager /\ sent THEN "asked" ELSE "none"
  /\ pc' = "checkAdv"
  /\ UNCHANGED <<bluezVars, adv, found, presenceVars, used>>

\* The test of adv_pending_ and its reset are two accesses; a push that sets the
\* flag in between is one that set it before.
CheckAdv ==
  /\ pc \in {"idle", "checkAdv"}
  /\ \/ /\ adv.flag
        /\ adv' = [adv EXCEPT !.flag = FALSE]
        /\ pc' = "register"
     \/ /\ ~adv.flag /\ pc = "checkAdv"
        /\ pc' = "idle"
        /\ UNCHANGED adv
  /\ UNCHANGED <<bluezVars, server, app, found, presenceVars, used>>

-----------------------------------------------------------------------------
(* Worker thread: register_advertisement_().                               *)

\* Export and call, either of which may fail here; adv_registered_ is set before
\* the reply is there.
SendRegister(pending, phase) ==
  /\ pc' = "idle"
  /\ \/ /\ server' = [server EXCEPT !.registered = TRUE]
        /\ TakeUp(pending, phase)
     \/ /\ server' = [server EXCEPT !.registered = FALSE]
        /\ inbox' = pending
        /\ reg' = [reg EXCEPT !.phase = phase]

RegisterAdvertisementOnce ==
  /\ pc = "register"
  /\ IF ~server.busOpen \/ server.registered
     THEN pc' = "idle" /\ UNCHANGED <<reg, inbox, server>>
     ELSE SendRegister(inbox, reg.phase)
  /\ UNCHANGED <<link, adv, app, found, presenceVars, used>>

RegisterAdvertisement ==
  /\ pc = "register"
  /\ IF ~server.busOpen THEN pc' = "idle" /\ UNCHANGED <<reg, inbox, server>>
     ELSE IF server.registered THEN pc' = "unregister" /\ UNCHANGED <<reg, inbox, server>>
     ELSE SendRegister(inbox, reg.phase)
  /\ UNCHANGED <<link, adv, app, found, presenceVars, used>>

\* unregister_advertisement_() blocks until BlueZ has answered; an error, which
\* may leave the registration standing, is ignored.
UnregisterReturns ==
  /\ pc = "unregister"
  /\ SendRegister(Cancelled, "none") \/ SendRegister(inbox, reg.phase)
  /\ UNCHANGED <<link, adv, app, found, presenceVars, used>>

\* power_cycle_adapter_(): with the power the registration is lost; errors of
\* the two property writes are ignored.
PowerCycleReturns ==
  /\ pc = "powerCycle"
  /\ SendRegister(Cancelled, "none") \/ SendRegister(inbox, reg.phase)
  /\ UNCHANGED <<link, adv, app, found, presenceVars, used>>

\* The debounce timer of schedule_readvertise_().
TimerFires ==
  /\ pc = "idle" /\ server.timer
  /\ server' = [server EXCEPT !.timer = FALSE]
  /\ pc' = "register"
  /\ UNCHANGED <<bluezVars, adv, app, found, presenceVars, used>>

-----------------------------------------------------------------------------
(* Worker thread: connection ids and what the bus brings.                  *)

IdOf(d) == IF ids[d] = NoId THEN nextId ELSE ids[d]

\* intern_device_()
InternNeverWraps(d) ==
  IF ids[d] = NoId
  THEN /\ ids' = [ids EXCEPT ![d] = nextId]
       /\ nextId' = nextId + 1
  ELSE UNCHANGED <<ids, nextId>>

Intern(d) ==
  IF ids[d] = NoId
  THEN /\ ids' = [ids EXCEPT ![d] = nextId]
       /\ nextId' = (nextId + 1) % IdSpace
  ELSE UNCHANGED <<ids, nextId>>

\* A central reads or writes a characteristic or descriptor: its first use of
\* the application gives it an id, whether its link was reported or not.
CentralAccesses(d) ==
  /\ pc = "idle" /\ app \in {"registered", "enumerated"}
  /\ link[d] /\ ids[d] = NoId
  /\ Intern(d)
  /\ UNCHANGED <<bluezVars, adv, server, app, pc, found, events, clients, used>>

Receives(kind) ==
  /\ pc = "idle" /\ inbox # << >> /\ Head(inbox).kind = kind
  /\ inbox' = Tail(inbox)

\* on_device_props_changed_()
DeviceChangedOncePerDevice(kind, event) ==
  /\ Receives(kind)
  /\ LET d == Head(inbox).device
     IN /\ Intern(d)
        /\ events' = IF ids[d] = NoId \/ kind = "down"
                     THEN Append(events, [kind |-> event, id |-> IdOf(d)]) ELSE events
  /\ server' = [server EXCEPT !.timer = @ \/ kind = "down"]
  /\ UNCHANGED <<link, reg, adv, app, pc, found, clients, used>>

DeviceChanged(kind, event) ==
  /\ Receives(kind)
  /\ LET d == Head(inbox).device
     IN /\ Intern(d)
        /\ events' = Append(events, [kind |-> event, id |-> IdOf(d)])
  /\ server' = [server EXCEPT !.timer = @ \/ kind = "down"]
  /\ UNCHANGED <<link, reg, adv, app, pc, found, clients, used>>

\* on_register_app_reply_(): BlueZ knows the application; ask who is connected.
ApplicationRegistered ==
  /\ Receives("appOk")
  /\ pc' = "enumerate"
  /\ UNCHANGED <<link, reg, adv, server, app, found, presenceVars, used>>

ApplicationFailed ==
  /\ Receives("appError")
  /\ UNCHANGED <<link, reg, adv, server, app, pc, found, presenceVars, used>>

\* enumerate_connected_devices_(): GetManagedObjects fails, or its reply is the
\* state of this moment.
EnumerateFails ==
  /\ pc = "enumerate"
  /\ pc' = "idle"
  /\ UNCHANGED <<bluezVars, adv, server, app, found, presenceVars, used>>

EnumerateReturns ==
  /\ pc = "enumerate"
  /\ pc' = "report"
  /\ found' = {d \in Device : link[d]}
  /\ UNCHANGED <<bluezVars, adv, server, app, presenceVars, used>>

ReportFound ==
  /\ pc = "report"
  /\ \/ \E d \in found :
          /\ found' = found \ {d}
          /\ Intern(d)
          /\ events' = Append(events, [kind |-> "CONNECT", id |-> IdOf(d)])
          /\ UNCHANGED <<app, pc>>
     \/ /\ found = {}
        /\ app' = "enumerated"
        /\ pc' = "idle"
        /\ UNCHANGED <<found, ids, nextId, events>>
  /\ UNCHANGED <<bluezVars, adv, server, clients, used>>

\* The LEAdvertisement1 getters read pending_adv_ while the main thread may be
\* assigning it.  Reading leaves no trace in the server, so the call need not
\* wait for its turn in the inbox.
PropertiesRead ==
  /\ pc = "idle" /\ reg.phase = "asked"
  /\ reg' = [phase |-> "read", content |-> IF adv.push = "writing" THEN Torn ELSE adv.pending]
  /\ UNCHANGED <<link, inbox, adv, server, app, pc, found, presenceVars, used>>

\* on_register_adv_reply_()
AdvertisementRegistered ==
  /\ Receives("ok")
  /\ server' = [server EXCEPT !.cycled = FALSE]
  /\ UNCHANGED <<link, reg, adv, app, pc, found, presenceVars, used>>

AdvertisementFailedAlwaysCycles ==
  /\ Receives("error") \/ Receives("exists")
  /\ server' = [server EXCEPT !.registered = FALSE, !.cycled = TRUE]
  /\ pc' = "powerCycle"
  /\ UNCHANGED <<link, reg, adv, app, found, presenceVars, used>>

AdvertisementFailed ==
  /\ Receives("error") \/ Receives("exists")
  /\ server' = [server EXCEPT !.registered = FALSE, !.cycled = TRUE]
  /\ pc' = IF server.cycled THEN "idle" ELSE "powerCycle"
  /\ UNCHANGED <<link, reg, adv, app, found, presenceVars, used>>

\* adv_release_()
ReleaseReceived ==
  /\ Receives("release")
  /\ server' = [server EXCEPT !.registered = FALSE]
  /\ UNCHANGED <<link, reg, adv, app, pc, found, presenceVars, used>>

-----------------------------------------------------------------------------
Main == PushBegins \/ PushWritten \/ PushFlagged \/ ServerLoop

BlueZAnswers == ApplicationReplies \/ AdvertisementAccepted \/ AdvertisementRefused
BlueZ == BlueZAnswers \/ AdvertisementReleased \/ \E d \in Device : LinkChanges(d)

Dispatch ==
  \/ DeviceChanged("up", "CONNECT") \/ DeviceChanged("down", "DISCONNECT")
  \/ ApplicationRegistered \/ ApplicationFailed
  \/ AdvertisementRegistered \/ AdvertisementFailed \/ ReleaseReceived

Proceed ==
  \/ TakeStart \/ DoStart \/ CheckAdv
  \/ RegisterAdvertisement \/ UnregisterReturns \/ PowerCycleReturns
  \/ EnumerateFails \/ EnumerateReturns \/ ReportFound

Worker == Dispatch \/ PropertiesRead \/ Proceed \/ TimerFires
          \/ \E d \in Device : CentralAccesses(d)

Next == Main \/ BlueZ \/ Worker

(***************************************************************************)
(* Both threads keep running, BlueZ answers every call, and an armed timer *)
(* fires.                                                                  *)
(***************************************************************************)
Fairness ==
  /\ WF_vars(PushWritten) /\ WF_vars(PushFlagged) /\ WF_vars(ServerLoop)
  /\ WF_vars(BlueZAnswers)
  /\ WF_vars(Dispatch) /\ WF_vars(PropertiesRead)
  /\ WF_vars(Proceed) /\ WF_vars(TimerFires)

Spec == Init /\ [][Next]_vars
FairSpec == Spec /\ Fairness

-----------------------------------------------------------------------------
InInbox(kinds) == \E i \in DOMAIN inbox : inbox[i].kind \in kinds

(***************************************************************************)
(* Once the startup enumeration is through and the news is processed, the  *)
(* server's clients are the connected centrals: those that were there      *)
(* before the start, those that came and went while the application was    *)
(* being registered or enumerated, and no others.  (A watch that could not *)
(* be installed is only logged, and then this does not hold.)              *)
(***************************************************************************)
ClientsAreCentrals ==
  app = "enumerated" /\ server.watch /\ ~InInbox({"up", "down"}) /\ events = << >>
    => clients = {ids[d] : d \in {x \in Device : link[x]}}

(***************************************************************************)
(* No change of the advertisement is lost between the threads, although    *)
(* nothing locks it: when nothing is on its way any more and the server    *)
(* takes itself for registered, BlueZ advertises what was pushed last.     *)
(***************************************************************************)
AdvSettled ==
  /\ adv.push = "idle" /\ ~adv.flag
  /\ pc = "idle" /\ ~InInbox(AdvMessage)
  /\ reg.phase \in {"none", "active"}

AdvertisedIsCurrent ==
  AdvSettled /\ server.registered => reg = [phase |-> "active", content |-> adv.pending]

\* Re-registering unregisters first: BlueZ never gets a path it has already.
NoDuplicatePath == ~InInbox({"exists"})

\* Power cycling and retrying comes to an end, also if BlueZ refuses for ever.
RetriesEnd == <>[](~InInbox(AdvMessage) /\ reg.phase \in {"none", "active"})
=============================================================================
