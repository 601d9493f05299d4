--------------------------- MODULE BleClientBase ---------------------------
(***************************************************************************)
(* BLEClientBase: the main-thread half of one GATT connection, as          *)
(* operators on a client record.  GattClient runs one client against the   *)
(* BlueZ worker; BluetoothProxy runs several, one per connection slot.     *)
(*                                                                         *)
(*   state     state_, the ClientState of the connection                   *)
(*   want      want_disconnect_, a disconnect() deferred by CONNECTING     *)
(*   services  the number of services in the owned tree services_          *)
(*   host      the address whose object path host_ was created with, or    *)
(*             NoHost while host_ is null                                  *)
(*   address   address_ (device_path_ is derived from it), 0 when unset    *)
(***************************************************************************)
EXTENDS Integers

ClientState == {"INIT", "DISCONNECTING", "IDLE", "DISCOVERED",
                "CONNECTING", "CONNECTED", "ESTABLISHED"}

NoHost == -1

Client == [state : ClientState, want : BOOLEAN, services : Nat,
           host : Int, address : Nat]

(***************************************************************************)
(* set_state(): entering IDLE forgets a deferred disconnect.               *)
(***************************************************************************)
SetStateForgetsNothing(c, st) == [c EXCEPT !.state = st]

SetState(c, st) ==
  [c EXCEPT !.state = st, !.want = IF st = "IDLE" THEN FALSE ELSE c.want]

\* A client after the constructor, set_address() and setup().
Setup(address) ==
  SetState([state |-> "INIT", want |-> FALSE, services |-> 0,
            host |-> NoHost, address |-> address], "IDLE")

\* parse_device(): an advertisement of the configured address arms an idle
\* client that has auto_connect_ set.
ParseDevice(c) ==
  IF c.address # 0 /\ c.state = "IDLE" THEN SetState(c, "DISCOVERED") ELSE c

\* connect(): host_ is created once, with the path the client has then.
Connect(c) ==
  [SetState(c, "CONNECTING") EXCEPT
     !.host = IF c.host = NoHost THEN c.address ELSE c.host]

(***************************************************************************)
(* disconnect() and unconditional_disconnect().  DisconnectNow says when   *)
(* the request leaves for the worker at once, through host_.               *)
(***************************************************************************)
UnconditionalDisconnect(c) == SetState(c, "DISCONNECTING")

DisconnectNow(c) == c.state \notin {"IDLE", "CONNECTING"}

Disconnect(c) ==
  CASE c.state = "IDLE"       -> c
    [] c.state = "CONNECTING" -> [c EXCEPT !.want = TRUE]
    [] OTHER                  -> UnconditionalDisconnect(c)

\* read/write/notify primitives are accepted only on an established link.
Ready(c) == c.state = "ESTABLISHED" /\ c.host # NoHost

(***************************************************************************)
(* dispatch_event_(): what each worker event does to the client.           *)
(***************************************************************************)
ReleaseServicesOnlyOne(c) == [c EXCEPT !.services = @ - 1]

ReleaseServices(c) == [c EXCEPT !.services = 0]

OnConnected(c) ==
  IF c.want THEN UnconditionalDisconnect(c) ELSE SetState(c, "CONNECTED")

OnServicesDiscovered(c, n) ==
  [SetState(c, "ESTABLISHED") EXCEPT !.services = n]

OnDisconnectedOnlyWhenAsked(c) ==
  IF c.state = "DISCONNECTING" THEN SetState(ReleaseServices(c), "IDLE") ELSE c

OnDisconnected(c) == SetState(ReleaseServices(c), "IDLE")

(***************************************************************************)
(* What every client keeps to, whoever drives it: an idle or armed client  *)
(* owns no service tree and has no deferred disconnect, and a CONNECTED    *)
(* one has none either, since CONNECTED acts on it.  A deferred disconnect *)
(* and a tree may still pass from one attempt to the next without an IDLE  *)
(* in between: connect() clears want_disconnect_ no more than CONNECTED    *)
(* does when it tears down, and connect() on an ESTABLISHED client keeps   *)
(* the tree.                                                               *)
(***************************************************************************)
ClientConsistent(c) ==
  /\ c.state \in {"IDLE", "DISCOVERED"} => c.services = 0
  /\ c.want => c.state \in {"CONNECTING", "DISCONNECTING", "ESTABLISHED"}
=============================================================================
