---------------------------- MODULE ClientNodes ----------------------------
(***************************************************************************)
(* ble_client: BLEClient fans the events of its connection out to nodes.   *)
(* Here it has one of each kind that keeps state: a write action, a        *)
(* connect and a disconnect action, the switch, a sensor and a binary      *)
(* output, all on the same characteristic.                                 *)
(*                                                                         *)
(* The connection is the record of module BleClientBase; its worker is     *)
(* reduced to what it reports: commands are run in order, every accepted   *)
(* write is answered (GattClient shows that), and the characteristic may   *)
(* have another handle, or be missing, each time the tree is read.         *)
(***************************************************************************)
EXTENDS BleClientBase, Sequences

CONSTANTS
  AutoConnect,  \* auto_connect_
  Handles,      \* handles the characteristic may have; 0 says it is missing
  ActMax        \* bound: connects, plays, writes and dropped links

ASSUME NodesAssumption ==
  /\ AutoConnect \in BOOLEAN /\ ActMax \in Nat
  /\ Handles \subseteq Nat

VARIABLES
  c,         \* the connection, a BleClientBase record
  enabled,   \* BLEClient::enabled
  tree,      \* handle of the characteristic in services_, 0 if none
  cmds,      \* commands for the worker
  link,      \* worker: "down", "up" or, its tree read, "resolved"
  events,    \* events the worker posted
  write,     \* write action: [running, handle]
  chains,    \* num_running_ of the connect and the disconnect action
  output,    \* char_handle_ of the binary output
  sensor,    \* handle of the sensor
  lost,      \* history: a write was refused, or played while one was running
  acts       \* bound: acts so far

clientVars2 == <<c, enabled, tree>>
workerVars == <<cmds, link, events>>
nodeVars == <<write, chains, output, sensor, lost>>
nodesVars == <<clientVars2, workerVars, nodeVars, acts>>

NodesInit ==
  /\ c = Setup(1) /\ enabled = TRUE /\ tree = 0
  /\ cmds = <<>> /\ link = "down" /\ events = <<>>
  /\ write = [running |-> 0, handle |-> 0] /\ chains = [connect |-> 0, disconnect |-> 0]
  /\ output = 0 /\ sensor = 0 /\ lost = FALSE /\ acts = 0

Act == acts < ActMax /\ acts' = acts + 1

-----------------------------------------------------------------------------
(***************************************************************************)
(* The main thread.                                                        *)
(***************************************************************************)
DisconnectOrder(cl) == IF DisconnectNow(cl) /\ cl.host # NoHost THEN <<[kind |-> "disconnect"]>> ELSE <<>>

\* An advertisement of the device, and the tracker's connect() that follows.
\* Nothing here looks at `enabled'.
Advertised ==
  /\ AutoConnect /\ c.state = "IDLE" /\ Act
  /\ c' = Connect(ParseDevice(c))
  /\ cmds' = Append(cmds, [kind |-> "connect"])
  /\ UNCHANGED <<enabled, tree, link, events, nodeVars>>

\* set_enabled(), called by the switch.
set_enabled(on) ==
  /\ Act
  /\ enabled' = on
  /\ IF enabled /\ ~on
     THEN c' = Disconnect(c) /\ cmds' = cmds \o DisconnectOrder(c)
     ELSE UNCHANGED <<c, cmds>>
  /\ UNCHANGED <<tree, link, events, nodeVars>>

\* BLEClientConnectAction: set_enabled(true), then connect().
PlayConnect ==
  /\ Act
  /\ chains' = [chains EXCEPT !.connect = @ + 1]
  /\ enabled' = TRUE
  /\ c' = Connect(c) /\ cmds' = Append(cmds, [kind |-> "connect"])
  /\ UNCHANGED <<tree, link, events, write, output, sensor, lost>>

\* BLEClientDisconnectAction: set_enabled(false), which disconnects if that is
\* news, then disconnect() again.
PlayDisconnect ==
  /\ Act
  /\ chains' = [chains EXCEPT !.disconnect = @ + 1]
  /\ enabled' = FALSE
  /\ LET once == IF enabled THEN Disconnect(c) ELSE c IN
     /\ c' = Disconnect(once)
     /\ cmds' = cmds \o (IF enabled THEN DisconnectOrder(c) ELSE <<>>) \o DisconnectOrder(once)
  /\ UNCHANGED <<tree, link, events, write, output, sensor, lost>>

\* write_characteristic(): refused unless the link is established.
Write(h) == IF Ready(c) THEN Append(cmds, [kind |-> "write", handle |-> h]) ELSE cmds

\* BLEClientWriteAction: without the characteristic the chain goes on at once.
\* A refusal is ignored.
PlayWrite ==
  /\ Act
  /\ IF tree = 0
     THEN UNCHANGED <<write, cmds, lost>>
     ELSE /\ write' = [running |-> write.running + 1, handle |-> tree]
          /\ cmds' = Write(tree)
          /\ lost' = (lost \/ ~Ready(c) \/ write.running > 0)
  /\ UNCHANGED <<c, enabled, tree, link, events, chains, output, sensor>>

\* BLEBinaryOutput::write_state().
OutputWrites ==
  /\ output # 0 /\ Act
  /\ cmds' = Write(output)
  /\ UNCHANGED <<c, enabled, tree, link, events, nodeVars>>

\* BLESensor::update(), BLETextSensor::update().
SensorReads ==
  /\ sensor # 0 /\ Ready(c) /\ Act
  /\ cmds' = Append(cmds, [kind |-> "read", handle |-> sensor])
  /\ UNCHANGED <<c, enabled, tree, link, events, nodeVars>>

(***************************************************************************)
(* dispatch_event_(): the base first, then the hooks of every node.        *)
(***************************************************************************)
\* play_next_(): one step of the chain, if it is running.
PlayNext(n) == IF n > 0 THEN n - 1 ELSE n

OnConnectedEvent ==
  /\ c' = OnConnected(c)
  /\ cmds' = IF c.want /\ c.host # NoHost THEN Append(cmds, [kind |-> "disconnect"]) ELSE cmds
  /\ UNCHANGED <<tree, write, chains, output, sensor>>

\* A characteristic that is missing leaves the nodes as they are.
OnDiscoveredEvent(h) ==
  /\ c' = OnServicesDiscovered(c, 1) /\ tree' = h
  /\ chains' = [chains EXCEPT !.connect = PlayNext(@)]
  /\ output' = IF h = 0 THEN output ELSE h
  /\ sensor' = IF h = 0 THEN sensor ELSE h
  /\ cmds' = IF h = 0 THEN cmds ELSE Append(cmds, [kind |-> "read", handle |-> h])
  /\ UNCHANGED write

\* Mutant: the output keeps its handle too.
OutputOnDisconnectedKeeps == output

\* The output forgets its handle; the sensor keeps it.
OutputOnDisconnected == 0

OnDisconnectedEvent ==
  /\ c' = OnDisconnected(c) /\ tree' = 0
  /\ chains' = [chains EXCEPT !.disconnect = PlayNext(@)]
  /\ output' = OutputOnDisconnected
  /\ UNCHANGED <<cmds, write, sensor>>

\* Mutant: a completion that arrives after the connection is ignored.
on_characteristic_writeIfReady(h) ==
  IF h # write.handle \/ ~Ready(c) THEN write
  ELSE [running |-> PlayNext(write.running), handle |-> 0]

on_characteristic_write(h) ==
  IF h # write.handle THEN write
  ELSE [running |-> PlayNext(write.running), handle |-> 0]

OnWriteEvent(h) ==
  /\ write' = on_characteristic_write(h)
  /\ UNCHANGED <<c, tree, cmds, chains, output, sensor>>

Dispatch ==
  /\ events # <<>>
  /\ events' = Tail(events)
  /\ LET e == Head(events) IN
     \/ e.kind = "CONNECTED" /\ OnConnectedEvent
     \/ e.kind = "SERVICES_DISCOVERED" /\ OnDiscoveredEvent(e.handle)
     \/ e.kind = "DISCONNECTED" /\ OnDisconnectedEvent
     \/ e.kind = "WRITE_COMPLETE" /\ OnWriteEvent(e.handle)
     \/ e.kind = "READ_COMPLETE" /\ UNCHANGED <<c, tree, cmds, write, chains, output, sensor>>
  /\ UNCHANGED <<enabled, link, lost, acts>>

\* loop(): the time limits dispatch a DISCONNECTED of their own, after what was
\* drained and before what the worker has posted since.
TimeLimit ==
  /\ c.state \in {"CONNECTING", "DISCONNECTING"}
  /\ c' = OnDisconnected(c) /\ tree' = 0
  /\ cmds' = IF c.state = "CONNECTING" /\ c.host # NoHost
             THEN Append(cmds, [kind |-> "disconnect"]) ELSE cmds
  /\ chains' = [chains EXCEPT !.disconnect = PlayNext(@)]
  /\ output' = OutputOnDisconnected
  /\ UNCHANGED <<enabled, link, events, write, sensor, lost, acts>>

-----------------------------------------------------------------------------
(***************************************************************************)
(* The worker.                                                             *)
(***************************************************************************)
Post(e) == events' = events \o e
Lifecycle(k) == <<[kind |-> k]>>

RunCommand ==
  /\ cmds # <<>>
  /\ cmds' = Tail(cmds)
  /\ LET m == Head(cmds) IN
     \/ m.kind = "connect" /\ link = "down"
        /\ \/ link' = "up" /\ Post(Lifecycle("CONNECTED"))
           \/ UNCHANGED link /\ Post(Lifecycle("DISCONNECTED"))
     \/ m.kind = "connect" /\ link # "down" /\ UNCHANGED link /\ Post(Lifecycle("CONNECTED"))
     \/ m.kind = "disconnect" /\ link # "down" /\ link' = "down" /\ Post(Lifecycle("DISCONNECTED"))
     \* no link: the call to BlueZ has no effect, or the bus was never opened and
     \* the worker says so
     \/ m.kind = "disconnect" /\ link = "down" /\ UNCHANGED link
        /\ (UNCHANGED events \/ Post(Lifecycle("DISCONNECTED")))
     \/ m.kind = "write" /\ UNCHANGED link
        /\ Post(<<[kind |-> "WRITE_COMPLETE", handle |-> m.handle]>>)
     \/ m.kind = "read" /\ UNCHANGED link
        /\ Post(<<[kind |-> "READ_COMPLETE", handle |-> m.handle]>>)
  /\ UNCHANGED <<clientVars2, nodeVars, acts>>

ReadTree ==
  /\ link = "up" /\ link' = "resolved"
  /\ \E h \in Handles : Post(<<[kind |-> "SERVICES_DISCOVERED", handle |-> h]>>)
  /\ UNCHANGED <<clientVars2, cmds, nodeVars, acts>>

LinkDrops ==
  /\ link # "down" /\ Act
  /\ link' = "down" /\ Post(Lifecycle("DISCONNECTED"))
  /\ UNCHANGED <<clientVars2, cmds, nodeVars>>

NodesNext ==
  \/ Advertised \/ (\E on \in BOOLEAN : set_enabled(on)) \/ PlayConnect \/ PlayDisconnect
  \/ PlayWrite \/ OutputWrites \/ SensorReads
  \/ Dispatch \/ TimeLimit
  \/ RunCommand \/ ReadTree \/ LinkDrops

NodesSpec == NodesInit /\ [][NodesNext]_nodesVars

\* loop() runs again and again and the worker runs its commands.
NodesFairness == WF_nodesVars(Dispatch) /\ WF_nodesVars(RunCommand)
NodesFairSpec == NodesSpec /\ NodesFairness

-----------------------------------------------------------------------------
(***************************************************************************)
(* Properties.                                                             *)
(***************************************************************************)
\* A binary output writes to the characteristic it resolved on the connection
\* it has now, never to a handle of an earlier one that means something else.
OutputHandleIsCurrent == output # 0 => output = tree

\* "WRITE_COMPLETE is always posted": a chain whose write was accepted, and was
\* not played again meanwhile, goes on, whatever becomes of the connection.
WriteChainGoesOn == []<>(write.running = 0 \/ lost)
=============================================================================
