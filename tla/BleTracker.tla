----------------------------- MODULE BleTracker -----------------------------
(***************************************************************************)
(* esp32_ble_tracker: the scanner thread (raw HCI or BlueZ D-Bus), the     *)
(* bounded queue it fills, and the main loop that delivers advertisements  *)
(* and promotes discovered clients.                                        *)
(*                                                                         *)
(* An advertisement is its number, counted as it is heard, and the         *)
(* client whose address it carries, if any.  How bytes and D-Bus           *)
(* properties become an advertisement is module AdvCodec.                  *)
(***************************************************************************)
EXTENDS Integers, Sequences, FiniteSets

CONSTANTS
  Tracked,       \* GATT clients registered with the tracker
  QUEUE_MAX,     \* capacity of queue_ (128)
  VersionSpace,  \* values of the uint8_t state_version_ (256)
  Burst,         \* bound: state changes of clients between two passes of loop()
  AdvMax         \* bound: advertisements heard

ASSUME TrackerAssumption ==
  /\ IsFiniteSet(Tracked)
  /\ QUEUE_MAX \in Nat \ {0} /\ AdvMax \in Nat /\ Burst \in Nat
  /\ VersionSpace \in Nat
  \* state changes from one look at state_version_ to the next fall short of a
  \* full turn of the counter: promotions, the burst, and discoveries
  /\ Burst + 2 * Cardinality(Tracked) < VersionSpace

Stranger == "stranger"
TrackedState == {"IDLE", "DISCOVERED", "CONNECTING", "ESTABLISHED"}
Backend == {"hci", "dbus"}

VARIABLES
  backend,       \* use_hci_backend_
  scanner,       \* scanner thread: where it is
  adapter_open,  \* it holds the HCI socket or the bus connection
  scanning,      \* the adapter scans on its behalf
  told_running,  \* listeners heard RUNNING
  queue,         \* queue_, under queue_mu_
  heard,         \* history: advertisements heard so far
  loop_at,       \* main thread: where loop() is
  drained,       \* the queue loop() swapped out
  delivered,     \* history: number of the last advertisement delivered
  state,         \* Tracked -> state()
  version,       \* state_version_
  last_version,  \* last_state_version_
  burst          \* state changes by clients since the last pass

scanVars == <<backend, scanner, adapter_open, scanning, told_running>>
trackedVars == <<state, version, last_version, burst>>
trackerVars == <<scanVars, queue, heard, loop_at, drained, delivered, trackedVars>>

TrackerInit ==
  /\ backend \in Backend
  /\ scanner = "none" /\ adapter_open = FALSE /\ scanning = FALSE /\ told_running = FALSE
  /\ queue = <<>> /\ heard = 0
  /\ loop_at = "setup" /\ drained = <<>> /\ delivered = 0
  /\ state = [c \in Tracked |-> "IDLE"]
  /\ version = 0 /\ last_version = 0 /\ burst = 0

-----------------------------------------------------------------------------
\* setup(): start the thread and tell every listener that the scan runs.
TrackerSetup ==
  /\ loop_at = "setup"
  /\ scanner' = "open" /\ told_running' = TRUE
  /\ loop_at' = "rest"
  /\ UNCHANGED <<backend, adapter_open, scanning, queue, heard, drained, delivered, trackedVars>>

(***************************************************************************)
(* The scanner thread.  A failed step releases what was taken and ends it; *)
(* nothing starts it again.                                                *)
(***************************************************************************)
Scan(at, open, scans) ==
  /\ scanner' = at /\ adapter_open' = open /\ scanning' = scans
  /\ UNCHANGED <<backend, told_running, queue, heard, loop_at, drained, delivered, trackedVars>>

\* open_hci_() with its bind and filter, or sd_bus_open_system().
OpenAdapter ==
  /\ scanner = "open"
  /\ Scan("prepare", TRUE, FALSE) \/ Scan("ended", FALSE, FALSE)

\* HCI: a scan of a previous owner is disabled, then the parameters are set.
\* D-Bus: a refused discovery filter is only logged; the matches are installed.
Prepare ==
  /\ scanner = "prepare"
  /\ \/ Scan("start", TRUE, FALSE)
     \/ backend = "hci" /\ Scan("ended", FALSE, FALSE)

\* LE Set Scan Enable or StartDiscovery.
StartScan ==
  /\ scanner = "start"
  /\ Scan("scan", TRUE, TRUE) \/ Scan("ended", FALSE, FALSE)

\* A read or bus error ends the loop; the scan is stopped and all is released.
ScanFails ==
  /\ scanner = "scan"
  /\ Scan("ended", FALSE, FALSE)

\* Mutant: at QUEUE_MAX the new entry is dropped.
EnqueueDropsNewest(q, a) == IF Len(q) >= QUEUE_MAX THEN q ELSE Append(q, a)

\* deliver_device_(): at QUEUE_MAX the oldest entry makes room.
Enqueue(q, a) == Append(IF Len(q) >= QUEUE_MAX THEN Tail(q) ELSE q, a)

\* An advertising report, InterfacesAdded or PropertiesChanged.
Advertisement(who) ==
  /\ scanner = "scan" /\ heard < AdvMax
  /\ heard' = heard + 1
  /\ queue' = Enqueue(queue, [number |-> heard + 1, who |-> who])
  /\ UNCHANGED <<scanVars, loop_at, drained, delivered, trackedVars>>

ScannerStep == OpenAdapter \/ Prepare \/ StartScan \/ ScanFails

-----------------------------------------------------------------------------
(***************************************************************************)
(* The main thread: loop().                                                *)
(***************************************************************************)
Bump(v, n) == (v + n) % VersionSpace

\* Mutant: the queue is copied, not swapped out.
SwapCopies ==
  /\ loop_at = "rest"
  /\ drained' = queue
  /\ loop_at' = "deliver"
  /\ UNCHANGED <<scanVars, queue, heard, delivered, trackedVars>>

Swap ==
  /\ loop_at = "rest"
  /\ drained' = queue /\ queue' = <<>>
  /\ loop_at' = "deliver"
  /\ UNCHANGED <<scanVars, heard, delivered, trackedVars>>

\* parse_device() of every listener: the client with the address turns from
\* IDLE to DISCOVERED.
Deliver ==
  /\ loop_at = "deliver" /\ drained # <<>>
  /\ LET a == Head(drained)
         found == {c \in Tracked : c = a.who /\ state[c] = "IDLE"} IN
     /\ delivered' = a.number
     /\ state' = [c \in Tracked |-> IF c \in found THEN "DISCOVERED" ELSE state[c]]
     /\ version' = Bump(version, Cardinality(found))
  /\ drained' = Tail(drained)
  /\ UNCHANGED <<scanVars, queue, heard, loop_at, last_version, burst>>

\* Mutant: versions compared as if they did not wrap.
ChangedUpwards == version > last_version

\* try_promote_discovered_clients_(), looked at only if the version moved.
Changed == version # last_version

Promote ==
  /\ loop_at = "deliver" /\ drained = <<>>
  /\ LET ripe == {c \in Tracked : Changed /\ state[c] = "DISCOVERED"} IN
     /\ last_version' = version
     /\ state' = [c \in Tracked |-> IF c \in ripe THEN "CONNECTING" ELSE state[c]]
     /\ version' = Bump(version, Cardinality(ripe))
  /\ loop_at' = "rest"
  /\ burst' = 0
  /\ UNCHANGED <<scanVars, queue, heard, drained, delivered>>

\* Between two passes clients and the proxy call set_state(), the proxy to
\* DISCOVERED too.
set_state(c, st) ==
  /\ loop_at = "rest" /\ burst < Burst
  /\ state' = [state EXCEPT ![c] = st]
  /\ version' = Bump(version, 1)
  /\ burst' = burst + 1
  /\ UNCHANGED <<scanVars, queue, heard, loop_at, drained, delivered, last_version>>

TrackerLoop == TrackerSetup \/ Swap \/ Deliver \/ Promote

TrackerNext ==
  \/ ScannerStep \/ \E who \in Tracked \cup {Stranger} : Advertisement(who)
  \/ TrackerLoop
  \/ \E c \in Tracked, st \in TrackedState : set_state(c, st)

TrackerSpec == TrackerInit /\ [][TrackerNext]_trackerVars

\* The application runs loop() again and again.
TrackerFairness == WF_trackerVars(TrackerLoop)
TrackerFairSpec == TrackerSpec /\ TrackerFairness

-----------------------------------------------------------------------------
(***************************************************************************)
(* Properties.                                                             *)
(***************************************************************************)
Adv == [number : Nat, who : Tracked \cup {Stranger}]

TrackerTypeOK ==
  /\ backend \in Backend
  /\ scanner \in {"none", "open", "prepare", "start", "scan", "ended"}
  /\ adapter_open \in BOOLEAN /\ scanning \in BOOLEAN /\ told_running \in BOOLEAN
  /\ queue \in Seq(Adv) /\ Len(queue) <= QUEUE_MAX
  /\ drained \in Seq(Adv) /\ Len(drained) <= QUEUE_MAX
  /\ heard \in 0..AdvMax /\ delivered \in 0..AdvMax
  /\ loop_at \in {"setup", "rest", "deliver"}
  /\ state \in [Tracked -> TrackedState]
  /\ version \in 0..VersionSpace - 1 /\ last_version \in 0..VersionSpace - 1
  /\ burst \in 0..Burst

\* When loop() has returned and nothing changed since, no client is left at
\* DISCOVERED: the version test never hides a discovery, although the counter
\* wraps and promotion itself moves it on.
NoneLeftDiscovered ==
  loop_at = "rest" /\ burst = 0 => \A c \in Tracked : state[c] # "DISCOVERED"

\* Listeners see advertisements in the order they were heard, none twice:
\* dropping at the front and swapping the queue out lose some, never reorder.
DeliveredInOrder == [][delivered' # delivered => delivered' > delivered]_trackerVars

\* deliver_device_() loses an advertisement only to newer ones: each that is
\* heard reaches the listeners unless QUEUE_MAX more were heard after it, from
\* whatever devices.  So the newest of all is never lost, while the last one of
\* a device that went quiet may be, when others fill the queue before loop()
\* takes it.
LostOnlyToNewer ==
  \A n \in 1..AdvMax : heard = n ~> delivered = n \/ heard >= n + QUEUE_MAX
=============================================================================
