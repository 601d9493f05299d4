-------------------------- MODULE BluetoothProxy --------------------------
(***************************************************************************)
(* The Bluetooth proxy: N connection slots that an API client (Home        *)
(* Assistant) fills with device addresses.  Each slot is a BLEClientBase;  *)
(* the proxy adds who owns a slot, the free/allocated report, the stream   *)
(* of the service tree and what happens when the API client goes away.     *)
(*                                                                         *)
(* Everything here runs on the main thread, so a request is one step.  A   *)
(* connection's loop() is a step per event it dispatches and a last one    *)
(* for the time limits and the stream; `pass' is the slot whose loop() is  *)
(* under way, if any, and nothing else runs until it ends.                 *)
(*                                                                         *)
(* The worker of a slot's host_ is reduced to the order in which it        *)
(* reports (GattClient has the details): `asked' is a CONNECT it has not   *)
(* answered, `phase' how far the link got.  A report may arrive in any     *)
(* pass, also after the slot was given to another device: the events carry *)
(* no mark of the attempt they belong to.                                  *)
(***************************************************************************)
EXTENDS BleClientBase, FiniteSets

CONSTANTS
  N,            \* BLUETOOTH_PROXY_MAX_CONNECTIONS
  Addr,         \* the device addresses the API client asks for
  ServiceCounts \* how many services a device may have; at least one, since
                \* the worker adds a GAP service where BlueZ exports none

ASSUME ProxyAssumption ==
  /\ N \in Nat \ {0}
  /\ Addr \subseteq Nat \ {0}
  /\ ServiceCounts \subseteq Nat \ {0}

VARIABLES
  slot,        \* connections_: one client record per slot
  send,        \* send_service_ of each slot: the next service, or a mark
  free,        \* connections_free_response_.free
  allocated,   \* connections_free_response_.allocated
  api,         \* api_connection_ is set
  told,        \* the addresses this API client was last told are connected
  worker,      \* what the worker of each slot's host_ may report next
  pass         \* the slot whose loop() has dispatched events, or NoPass

vars == <<slot, send, free, allocated, api, told, worker, pass>>
slotVars == <<slot, send, free, allocated>>

Slots == 1 .. N
NoPass == 0
Init_Sending == -3
Done_Sending == -2

TypeOK ==
  /\ slot \in [Slots -> Client]
  /\ send \in [Slots -> Int]
  /\ free \in Int
  /\ allocated \in [Slots -> Nat]
  /\ api \in BOOLEAN
  /\ told \subseteq Addr
  /\ worker \in [Slots -> [phase : {"down", "up", "walked"}, asked : BOOLEAN]]
  /\ pass \in Slots \cup {NoPass}

\* BluetoothProxy::setup() and every connection's setup().
Init ==
  /\ slot = [s \in Slots |-> Setup(0)]
  /\ send = [s \in Slots |-> Init_Sending]
  /\ free = N
  /\ allocated = [s \in Slots |-> 0]
  /\ api = FALSE
  /\ told = {}
  /\ worker = [s \in Slots |-> [phase |-> "down", asked |-> FALSE]]
  /\ pass = NoPass

-----------------------------------------------------------------------------
(* Slot accounting.                                                        *)

First(S) == CHOOSE s \in S : \A r \in S : s <= r

\* update_allocated_slot_(): the first entry that holds find gets set.
UpdateAllocated(find, set) ==
  LET holding == {k \in Slots : allocated[k] = find}
  IN IF holding = {} THEN allocated ELSE [allocated EXCEPT ![First(holding)] = set]

\* BluetoothConnection::set_address(), apart from the address itself.
AccountForgetsRelease(s, a) ==
  IF a # 0 /\ slot[s].address = 0
  THEN free' = free - 1 /\ allocated' = UpdateAllocated(0, a)
  ELSE UNCHANGED <<free, allocated>>

Account(s, a) ==
  IF a = 0 /\ slot[s].address # 0
  THEN free' = free + 1 /\ allocated' = UpdateAllocated(slot[s].address, 0)
  ELSE IF a # 0 /\ slot[s].address = 0
  THEN free' = free - 1 /\ allocated' = UpdateAllocated(0, a)
  ELSE UNCHANGED <<free, allocated>>

\* get_connection_(): the first slot that holds the address or, to reserve
\* one, is free; the scan stops at whichever comes first.
Candidates(a, reserve) ==
  {s \in Slots : slot[s].address = a \/ (reserve /\ slot[s].address = 0)}

\* A free slot that is reserved takes the address and starts at INIT.
Reserved(s, a) ==
  IF slot[s].address = 0 THEN SetState([slot[s] EXCEPT !.address = a], "INIT")
                         ELSE slot[s]

ReserveResetsStream(s) ==
  send' = IF slot[s].address = 0 THEN [send EXCEPT ![s] = Init_Sending] ELSE send

\* send_device_connection(): nobody hears it while api_connection_ is null.
\* A response about address 0 (a late event of a slot that is free) is about
\* no device and not recorded.
TellUp(a)   == told' = IF api THEN told \cup ({a} \ {0}) ELSE told
TellDown(a) == told' = IF api THEN told \ {a} ELSE told

-----------------------------------------------------------------------------
(* Requests of the API client: bluetooth_device_request() and              *)
(* bluetooth_gatt_send_services().                                         *)

\* The main thread is not inside a connection's loop(), and stays out of it.
OutsideLoop == pass = NoPass /\ pass' = NoPass

ConnectNoSlot(a) ==
  /\ OutsideLoop
  /\ Candidates(a, TRUE) = {}
  /\ TellDown(a)
  /\ UNCHANGED <<slotVars, api, worker>>

\* What a connect request with an address type makes of the slot it found.
ConnectRequested(c) ==
  CASE c.state = "CONNECTING" -> [c EXCEPT !.want = FALSE]
    [] c.state = "INIT"       -> SetState(c, "DISCOVERED")
    [] OTHER                  -> c

ConnectRequest(a, hasType) ==
  /\ OutsideLoop
  /\ Candidates(a, TRUE) # {}
  /\ LET s == First(Candidates(a, TRUE))
         c == Reserved(s, a)
     IN /\ Account(s, a)
        /\ ReserveResetsStream(s)
        /\ slot' = [slot EXCEPT ![s] = IF hasType THEN ConnectRequested(c) ELSE c]
        /\ IF ~hasType THEN TellDown(a)
           ELSE IF c.state \in {"CONNECTED", "ESTABLISHED"} THEN TellUp(a)
           ELSE UNCHANGED told
  /\ UNCHANGED <<api, worker>>

DisconnectNoSlot(a) ==
  /\ OutsideLoop
  /\ Candidates(a, FALSE) = {}
  /\ TellDown(a)
  /\ UNCHANGED <<slotVars, api, worker>>

DisconnectRequest(a) ==
  /\ OutsideLoop
  /\ Candidates(a, FALSE) # {}
  /\ LET s == First(Candidates(a, FALSE))
     IN IF slot[s].state # "IDLE"
        THEN slot' = [slot EXCEPT ![s] = Disconnect(@)]
             /\ UNCHANGED <<free, allocated, told>>
        ELSE slot' = [slot EXCEPT ![s].address = 0]
             /\ Account(s, 0) /\ TellDown(a)
  /\ UNCHANGED <<send, api, worker>>

\* The removed V1 connect is refused, whatever the address is doing.
LegacyConnectRequest(a) ==
  /\ OutsideLoop
  /\ TellDown(a)
  /\ UNCHANGED <<slotVars, api, worker>>

\* Anything but a first request on an established, non-empty tree is answered
\* at once (error or done) or dropped, and changes nothing.
ServicesRequest(a) ==
  /\ OutsideLoop
  /\ Candidates(a, FALSE) # {}
  /\ LET s == First(Candidates(a, FALSE))
     IN /\ slot[s].state = "ESTABLISHED" /\ slot[s].services # 0
        /\ send[s] = Init_Sending
        /\ send' = [send EXCEPT ![s] = 0]
  /\ UNCHANGED <<slot, free, allocated, api, told, worker>>

-----------------------------------------------------------------------------
(* The API client comes and goes.                                          *)

Subscribe ==
  /\ OutsideLoop
  /\ ~api
  /\ api' = TRUE
  /\ UNCHANGED <<slotVars, told, worker>>

Unsubscribe ==
  /\ OutsideLoop
  /\ api
  /\ api' = FALSE
  /\ told' = {}  \* the next client has been told nothing
  /\ UNCHANGED <<slotVars, worker>>

\* BluetoothProxy::loop() with no API client: close every slot in use.
CloseAll ==
  /\ OutsideLoop
  /\ ~api
  /\ slot' = [s \in Slots |->
                IF slot[s].address # 0 /\ ~slot[s].want THEN Disconnect(slot[s])
                                                        ELSE slot[s]]
  /\ UNCHANGED <<send, free, allocated, api, told, worker>>

-----------------------------------------------------------------------------
(* The tracker's loop(), and each connection's: worker events, then the    *)
(* time limits, then the service stream.                                   *)

\* loop() of this slot runs: it goes on with a further event, or ends.
InLoop(s)   == pass \in {s, NoPass} /\ pass' = s
LoopEnds(s) == pass \in {s, NoPass} /\ pass' = NoPass

\* The tracker promotes the slot; host_ exists from now on and has a CONNECT.
TrackerConnect(s) ==
  /\ OutsideLoop
  /\ slot[s].state = "DISCOVERED"
  /\ slot' = [slot EXCEPT ![s] = Connect(@)]
  /\ worker' = [worker EXCEPT ![s].asked = TRUE]
  /\ UNCHANGED <<send, free, allocated, api, told>>

\* The link came up, or a CONNECT found it up.
Connected(s) ==
  /\ InLoop(s)
  /\ slot[s].host # NoHost
  /\ worker[s].phase = "down" \/ worker[s].asked
  /\ \E asked \in {FALSE, worker[s].asked} :
       worker' = [worker EXCEPT ![s] =
                    [phase |-> IF @.phase = "down" THEN "up" ELSE @.phase,
                     asked |-> asked]]
  /\ slot' = [slot EXCEPT ![s] = OnConnected(@)]
  /\ UNCHANGED <<send, free, allocated, api, told>>

\* Once per link.  The response names the slot's address, 0 if it has none.
ServicesDiscovered(s, n) ==
  /\ InLoop(s)
  /\ worker[s].phase = "up"
  /\ worker' = [worker EXCEPT ![s].phase = "walked"]
  /\ slot' = [slot EXCEPT ![s] = OnServicesDiscovered(@, n)]
  /\ TellUp(slot[s].address)
  /\ UNCHANGED <<send, free, allocated, api>>

\* dispatch_event_(DISCONNECTED), on_disconnect_complete() and
\* reset_connection_(): report, then free the slot.
CloseSlotKeepsStream(s) ==
  /\ slot' = [slot EXCEPT ![s] = [OnDisconnected(@) EXCEPT !.address = 0]]
  /\ IF slot[s].address = 0
     THEN UNCHANGED <<free, allocated, told>>
     ELSE TellDown(slot[s].address) /\ Account(s, 0)
  /\ UNCHANGED <<send, api>>

CloseSlotKeepsAddress(s) ==
  /\ slot' = [slot EXCEPT ![s] = OnDisconnected(@)]
  /\ IF slot[s].address = 0
     THEN UNCHANGED told
     ELSE TellDown(slot[s].address)
  /\ UNCHANGED <<send, free, allocated, api>>

CloseSlotTellsTooLate(s) ==
  /\ slot' = [slot EXCEPT ![s] = [OnDisconnected(@) EXCEPT !.address = 0]]
  /\ IF slot[s].address = 0
     THEN UNCHANGED <<send, free, allocated, told>>
     ELSE /\ TellDown(0) /\ Account(s, 0)
          /\ send' = [send EXCEPT ![s] = Init_Sending]
  /\ UNCHANGED api

CloseSlot(s) ==
  /\ slot' = [slot EXCEPT ![s] = [OnDisconnected(@) EXCEPT !.address = 0]]
  /\ IF slot[s].address = 0
     THEN UNCHANGED <<send, free, allocated, told>>
     ELSE /\ TellDown(slot[s].address) /\ Account(s, 0)
          /\ send' = [send EXCEPT ![s] = Init_Sending]
  /\ UNCHANGED api

Disconnected(s) ==
  /\ InLoop(s)
  /\ slot[s].host # NoHost
  /\ \E asked \in {FALSE, worker[s].asked} :
       worker' = [worker EXCEPT ![s] = [phase |-> "down", asked |-> asked]]
  /\ CloseSlot(s)

\* CONNECT_TIMEOUT_MS or DISCONNECT_TIMEOUT_MS is over.  The slot is free
\* then, so this pass of loop() streams nothing.
Timeout(s) ==
  /\ LoopEnds(s)
  /\ slot[s].state \in {"CONNECTING", "DISCONNECTING"}
  /\ CloseSlot(s)
  /\ UNCHANGED worker

\* send_service_for_discovery_(): a message carries at least one service; the
\* pass after the last one reports the end and drops the tree.
Streaming(s) == slot[s].address # 0 /\ send[s] \in 0 .. slot[s].services

StreamServices(s) ==
  /\ LoopEnds(s)
  /\ Streaming(s)
  /\ \/ /\ send[s] = slot[s].services
        /\ send' = [send EXCEPT ![s] = Done_Sending]
        /\ slot' = [slot EXCEPT ![s] = ReleaseServices(@)]
     \/ /\ send[s] < slot[s].services /\ ~api
        /\ send' = [send EXCEPT ![s] = Done_Sending]
        /\ UNCHANGED slot
     \/ /\ send[s] < slot[s].services /\ api
        /\ \E next \in (send[s] + 1) .. slot[s].services :
             send' = [send EXCEPT ![s] = next]
        /\ UNCHANGED slot
  /\ UNCHANGED <<free, allocated, api, told, worker>>

\* No time limit is over and there is nothing to stream.
LoopDone(s) ==
  /\ LoopEnds(s)
  /\ ~Streaming(s)
  /\ UNCHANGED <<slotVars, api, told, worker>>

-----------------------------------------------------------------------------
Request(a) ==
  \/ ConnectNoSlot(a) \/ \E hasType \in BOOLEAN : ConnectRequest(a, hasType)
  \/ DisconnectNoSlot(a) \/ DisconnectRequest(a)
  \/ LegacyConnectRequest(a) \/ ServicesRequest(a)

ConnectionLoop(s) ==
  \/ TrackerConnect(s) \/ Connected(s)
  \/ \E n \in ServiceCounts : ServicesDiscovered(s, n)
  \/ Disconnected(s) \/ Timeout(s) \/ StreamServices(s) \/ LoopDone(s)

Next ==
  \/ \E a \in Addr : Request(a)
  \/ \E s \in Slots : ConnectionLoop(s)
  \/ Subscribe \/ Unsubscribe \/ CloseAll

Spec == Init /\ [][Next]_vars

-----------------------------------------------------------------------------
(* Safety.                                                                 *)

Holding(f, v) == {s \in Slots : f[s] = v}
SlotAddress == [s \in Slots |-> slot[s].address]

(***************************************************************************)
(* The report to the API client is the truth: `free' counts the slots      *)
(* without an address, and every address is listed in `allocated' exactly  *)
(* as often as slots hold it, although entries are found by value, an      *)
(* address may be in two slots, and late events and timeouts free slots in *)
(* any order.                                                              *)
(***************************************************************************)
SlotAccounting ==
  /\ free = Cardinality(Holding(SlotAddress, 0))
  /\ \A v \in Addr \cup {0} :
       Cardinality(Holding(allocated, v)) = Cardinality(Holding(SlotAddress, v))

(***************************************************************************)
(* A slot that is in use is never IDLE, so no request finds its slot in a  *)
(* state in which nobody would ever move it on; and it was reserved for    *)
(* one of the addresses asked for.                                         *)
(***************************************************************************)
UsedSlotIsLive ==
  \A s \in Slots : slot[s].address # 0
    => slot[s].state # "IDLE" /\ slot[s].address \in Addr

(***************************************************************************)
(* The position of a service stream is inside the tree it walks, from the  *)
(* request until it is done, and no stream survives into another use of    *)
(* the slot (the next client would be sent a tail of the tree, or loop()   *)
(* would never come to the end of the stream).                             *)
(***************************************************************************)
StreamInRange ==
  \A s \in Slots :
    /\ send[s] >= 0 => slot[s].address # 0 /\ send[s] <= slot[s].services
    /\ slot[s].address = 0 => send[s] = Init_Sending

(***************************************************************************)
(* A disconnect deferred during one device's CONNECTING is never inherited *)
(* by the next device that is given the slot.                              *)
(***************************************************************************)
NoStaleIntent ==
  \A s \in Slots : slot[s].want
    => /\ slot[s].address # 0
       /\ slot[s].state \in {"CONNECTING", "DISCONNECTING", "ESTABLISHED"}

(***************************************************************************)
(* What the API client was last told is up is still held by a slot: every  *)
(* way to lose a slot reports it first.                                    *)
(***************************************************************************)
ToldUpIsHeld ==
  \A a \in told : \E s \in Slots : slot[s].address = a

\* One slot per device, whatever order the requests and closures come in.
OneSlotPerDevice ==
  \A r, s \in Slots : slot[r].address = slot[s].address /\ slot[r].address # 0 => r = s

\* A slot connects to the device it was reserved for.
ConnectsToItsDevice ==
  \A s \in Slots : slot[s].state = "CONNECTING" => slot[s].host = slot[s].address
=============================================================================
