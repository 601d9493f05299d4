----------------------------- MODULE MCBleData -----------------------------
(***************************************************************************)
(* Four parts of the Bluetooth side that meet only through what the other  *)
(* modules model: the scanner and its queue, the advertisement formats,    *)
(* the broadcasters and the nodes of a ble_client.  Each behaviour         *)
(* exercises one of them, the others rest.                                 *)
(***************************************************************************)
EXTENDS BleTracker, MCAdvCodec, Broadcaster, ClientNodes

-----------------------------------------------------------------------------
\* Measurements of one and two objects, of every width, unknown ids included,
\* with values inside, at and outside the range of each; beacons whose numbers
\* tell the byte orders apart.
Objects == [id : {1, 2, 3, 4, 153}, raw : {-32769, -1, 0, 256, 40000, 16777216}]
MCMeasurements == {<<>>} \cup {<<o>> : o \in Objects} \cup {<<o, p>> : o, p \in Objects}
MCBeacons == [uuid : {[i \in 1 .. 16 |-> i]}, major : {0, 255, 256, 65535},
              minor : {1, 4660}, power : {-59, 127}]

-----------------------------------------------------------------------------
VARIABLE part   \* the one this behaviour exercises

\* A part at rest has one initial state.
DataInit ==
  /\ part \in {"tracker", "codec", "broadcaster", "nodes"}
  /\ IF part = "tracker" THEN TrackerInit ELSE backend = "hci" /\ TrackerInit
  /\ IF part = "codec" THEN CodecInit
     ELSE air = (CHOOSE x \in Air : TRUE) /\ via = "hci" /\ cut = 0 /\ CodecInit
  /\ IF part = "broadcaster" THEN BroadcastInit
     ELSE kind = "beacon" /\ conf = (CHOOSE x \in Beacons : TRUE) /\ BroadcastInit
  /\ NodesInit

Scanner == part = "tracker" /\ UNCHANGED <<part, codecVars, broadcastVars, nodesVars>>
Codec == part = "codec" /\ UNCHANGED <<part, trackerVars, broadcastVars, nodesVars>>
Broadcasts == part = "broadcaster" /\ UNCHANGED <<part, trackerVars, codecVars, nodesVars>>
Nodes == part = "nodes" /\ UNCHANGED <<part, trackerVars, codecVars, broadcastVars>>

DataNext ==
  \/ Scanner /\ TrackerNext
  \/ Codec /\ CodecNext
  \/ Broadcasts /\ BroadcastNext
  \/ Nodes /\ NodesNext

dataVars == <<part, trackerVars, codecVars, broadcastVars, nodesVars>>

\* The fairness of the tracker's loop and of a client's loop and worker, while
\* they are exercised.
DataFairness ==
  /\ WF_dataVars(Scanner /\ TrackerLoop)
  /\ WF_dataVars(Nodes /\ Dispatch) /\ WF_dataVars(Nodes /\ RunCommand)

DataSpec == DataInit /\ [][DataNext]_dataVars /\ DataFairness
=============================================================================
