------------------------- MODULE BleTracker_proofs -------------------------
(***************************************************************************)
(* The tracker's queue keeps its limit and its order, and the wrapping     *)
(* change counter hides no discovered client, for any number of clients,   *)
(* any queue and any width of the counter that can hold the changes of one *)
(* pass of loop().                                                         *)
(***************************************************************************)
EXTENDS BleTracker, FiniteSetTheorems, SequenceTheorems, TLAPS

-----------------------------------------------------------------------------
(***************************************************************************)
(* The counter.                                                            *)
(***************************************************************************)
Version == 0 .. VersionSpace - 1

\* How many changes version v is ahead of an earlier version l.
Lag(v, l) == IF v >= l THEN v - l ELSE v - l + VersionSpace

LEMMA TrackedSets ==
  /\ Cardinality(Tracked) \in Nat
  /\ \A S \in SUBSET Tracked :
       /\ IsFiniteSet(S)
       /\ Cardinality(S) \in Nat /\ Cardinality(S) <= Cardinality(Tracked)
BY TrackerAssumption, FS_CardinalityType, FS_Subset

LEMMA SpaceForAPass ==
  /\ VersionSpace \in Nat \ {0}
  /\ Burst \in Nat
  /\ Cardinality(Tracked) \in Nat
  /\ Burst + 2 * Cardinality(Tracked) < VersionSpace
BY TrackerAssumption, TrackedSets

LEMMA WrapsOnce ==
  ASSUME NEW V \in Nat \ {0}, NEW x \in Nat, x >= V, x < 2 * V
  PROVE  x % V = x - V
OBVIOUS

\* A version moves on by as many changes as there were, until a full turn.
LEMMA LagGrows ==
  ASSUME NEW v \in Version, NEW l \in Version, NEW n \in Nat, Lag(v, l) + n < VersionSpace
  PROVE  /\ Bump(v, n) \in Version
         /\ Lag(Bump(v, n), l) = Lag(v, l) + n
<1>1. VersionSpace \in Nat \ {0}
  BY SpaceForAPass
<1>2. n < VersionSpace
  BY <1>1 DEF Version, Lag
<1>3. CASE v + n < VersionSpace
  <2>1. Bump(v, n) = v + n
    BY <1>1, <1>3 DEF Bump, Version
  <2> QED
    BY <1>1, <1>3, <2>1 DEF Lag, Version
<1>4. CASE v + n >= VersionSpace
  <2>1. v + n \in Nat /\ v + n < 2 * VersionSpace
    BY <1>1, <1>2 DEF Version
  <2>2. Bump(v, n) = (v + n) - VersionSpace
    <3>1. (v + n) % VersionSpace = (v + n) - VersionSpace
      BY <1>1, <1>4, <2>1, WrapsOnce, Zenon
    <3>2. Bump(v, n) = (v + n) % VersionSpace
      BY DEF Bump
    <3> QED
      BY <3>1, <3>2, Zenon
  <2> QED
    BY <1>1, <1>4, <2>2 DEF Lag, Version
<1> QED
  BY <1>1, <1>3, <1>4 DEF Version

LEMMA LagFacts ==
  ASSUME NEW v \in Version, NEW l \in Version
  PROVE  /\ Lag(v, l) \in Version
         /\ Lag(v, l) = 0 <=> v = l
BY SpaceForAPass DEF Lag, Version

-----------------------------------------------------------------------------
(***************************************************************************)
(* Types.  The parts that steps of different kinds disturb are apart.      *)
(***************************************************************************)
ScanOK ==
  /\ backend \in Backend
  /\ scanner \in {"none", "open", "prepare", "start", "scan", "ended"}
  /\ adapter_open \in BOOLEAN /\ scanning \in BOOLEAN /\ told_running \in BOOLEAN

QueueOK ==
  /\ queue \in Seq(Adv) /\ Len(queue) <= QUEUE_MAX
  /\ drained \in Seq(Adv) /\ Len(drained) <= QUEUE_MAX
  /\ heard \in 0..AdvMax /\ delivered \in 0..AdvMax
  /\ loop_at \in {"setup", "rest", "deliver"}

ClientsOK ==
  /\ state \in [Tracked -> TrackedState]
  /\ version \in Version /\ last_version \in Version
  /\ burst \in 0..Burst

LEMMA TypeParts == TrackerTypeOK <=> ScanOK /\ QueueOK /\ ClientsOK
BY DEF TrackerTypeOK, ScanOK, QueueOK, ClientsOK, Version

\* What the queue holds was heard and not yet delivered, in rising order; what
\* loop() swapped out is older than what arrived since.
Rising(s) == \A i, j \in 1 .. Len(s) : i < j => s[i].number < s[j].number
Pending(s) == \A i \in 1 .. Len(s) : delivered < s[i].number /\ s[i].number <= heard
OrderInv ==
  /\ delivered <= heard
  /\ Rising(queue) /\ Pending(queue)
  /\ Rising(drained) /\ Pending(drained)
  /\ \A i \in 1 .. Len(drained), j \in 1 .. Len(queue) : drained[i].number < queue[j].number

\* A discovered client shows as a difference of the versions; the difference
\* counts the changes, so a pass cannot take the counter round.
Idlers == {c \in Tracked : state[c] = "IDLE"}
LagInv ==
  LET lag == Lag(version, last_version) IN
  /\ (\E c \in Tracked : state[c] = "DISCOVERED") => lag > 0
  /\ loop_at # "deliver" => lag <= Cardinality(Tracked) + burst
  /\ loop_at = "deliver" => lag + Cardinality(Idlers) <= 2 * Cardinality(Tracked) + burst
  /\ NoneLeftDiscovered
  /\ loop_at = "setup" => \A c \in Tracked : state[c] # "DISCOVERED"

-----------------------------------------------------------------------------
LEMMA EnqueueFacts ==
  ASSUME NEW q \in Seq(Adv), Len(q) <= QUEUE_MAX, NEW a \in Adv
  PROVE  /\ Enqueue(q, a) \in Seq(Adv)
         /\ Len(Enqueue(q, a)) \in 1 .. QUEUE_MAX
         /\ LET n == Len(Enqueue(q, a))
                d == IF Len(q) >= QUEUE_MAX THEN 1 ELSE 0 IN
            /\ n = Len(q) - d + 1
            /\ Enqueue(q, a)[n] = a
            /\ \A i \in 1 .. n - 1 : i + d \in 1 .. Len(q) /\ Enqueue(q, a)[i] = q[i + d]
<1>1. QUEUE_MAX \in Nat \ {0} /\ Len(q) \in Nat
  BY TrackerAssumption
<1>2. CASE Len(q) >= QUEUE_MAX
  <2>1. q # <<>>
    BY <1>1, <1>2
  <2>2. Tail(q) \in Seq(Adv) /\ Len(Tail(q)) = Len(q) - 1
        /\ \A i \in 1 .. Len(Tail(q)) : Tail(q)[i] = q[i + 1]
    BY <2>1, HeadTailProperties
  <2> QED
    BY <1>1, <1>2, <2>2, AppendProperties DEF Enqueue
<1>3. CASE ~(Len(q) >= QUEUE_MAX)
  BY <1>1, <1>3, AppendProperties DEF Enqueue
<1> QED
  BY <1>2, <1>3

\* No step of the scanner thread touches the queue or the clients but the
\* advertisement it hears.
LEMMA ScannerLocal ==
  ASSUME ScannerStep
  PROVE  UNCHANGED <<queue, heard, loop_at, drained, delivered, trackedVars>>
BY DEF ScannerStep, OpenAdapter, Prepare, StartScan, ScanFails, Scan

LEMMA ScanKept ==
  ASSUME ScanOK, [TrackerNext]_trackerVars
  PROVE  ScanOK'
<1> USE DEF ScanOK
<1>1. CASE ScannerStep
  BY <1>1, ZenonT(30) DEF ScannerStep, OpenAdapter, Prepare, StartScan, ScanFails, Scan
<1>2. CASE TrackerSetup
  BY <1>2, Zenon DEF TrackerSetup
<1>3. CASE UNCHANGED scanVars
  BY <1>3, Zenon DEF scanVars
<1> QED
  BY <1>1, <1>2, <1>3, Zenon
  DEF TrackerNext, TrackerLoop, Advertisement, Swap, Deliver, Promote, set_state, trackerVars

-----------------------------------------------------------------------------
\* The steps that leave the clients and the counter alone.
ClientsAlone == UNCHANGED <<trackedVars, loop_at>>

LEMMA ClientsKept ==
  ASSUME ClientsOK, LagInv, ClientsAlone
  PROVE  ClientsOK' /\ LagInv'
BY DEF ClientsAlone, trackedVars, ClientsOK, LagInv, Idlers, NoneLeftDiscovered

\* loop() begins: at most everybody is at IDLE.
LEMMA SwapCounts ==
  ASSUME ClientsOK, LagInv, Swap
  PROVE  ClientsOK' /\ LagInv'
<1>1. UNCHANGED trackedVars /\ loop_at = "rest" /\ loop_at' = "deliver"
  BY DEF Swap
<1>2. Idlers' = Idlers /\ Idlers \in SUBSET Tracked
  BY <1>1 DEF Idlers, trackedVars
<1>3. Cardinality(Idlers) \in Nat /\ Cardinality(Idlers) <= Cardinality(Tracked)
  BY <1>2, TrackedSets
<1>4. Lag(version, last_version) \in Nat /\ burst \in Nat /\ Cardinality(Tracked) \in Nat
  BY LagFacts, SpaceForAPass DEF ClientsOK, Version
<1>5. Lag(version, last_version) + Cardinality(Idlers) <= 2 * Cardinality(Tracked) + burst
  BY <1>1, <1>3, <1>4 DEF LagInv
<1> QED
  BY <1>1, <1>2, <1>5 DEF trackedVars, ClientsOK, LagInv, NoneLeftDiscovered

\* A delivered advertisement turns at most one client from IDLE to DISCOVERED,
\* and the version counts it.
LEMMA DeliverCounts ==
  ASSUME ClientsOK, LagInv, Deliver
  PROVE  ClientsOK' /\ LagInv'
<1> DEFINE who == Head(drained).who
           found == {c \in Tracked : c = who /\ state[c] = "IDLE"}
           lag == Lag(version, last_version)
<1>1. /\ state' = [c \in Tracked |-> IF c \in found THEN "DISCOVERED" ELSE state[c]]
      /\ version' = Bump(version, Cardinality(found))
      /\ UNCHANGED <<loop_at, last_version, burst>>
      /\ loop_at = "deliver"
  BY DEF Deliver
<1>2. lag \in Nat /\ burst \in 0..Burst /\ Cardinality(Tracked) \in Nat
  BY LagFacts, SpaceForAPass DEF ClientsOK, Version
<1>3. lag + Cardinality(Idlers) <= 2 * Cardinality(Tracked) + burst
  BY <1>1 DEF LagInv
<1>4. Idlers \in SUBSET Tracked /\ found \in SUBSET Tracked
  BY DEF Idlers
<1>5. IsFiniteSet(Idlers) /\ Cardinality(Idlers) \in Nat
  BY <1>4, TrackedSets
<1>6. state' \in [Tracked -> TrackedState]
  BY <1>1 DEF ClientsOK, TrackedState
<1>7. CASE found = {}
  <2>1. Cardinality(found) = 0
    BY <1>7, FS_EmptySet
  <2>2. version' \in Version /\ Lag(version', last_version) = lag
    <3>0. lag \in Version
      BY LagFacts DEF ClientsOK
    <3>1. lag + 0 = lag /\ lag + 0 < VersionSpace
      BY <3>0, SpaceForAPass DEF Version
    <3> QED
      BY <1>1, <2>1, <3>1, LagGrows DEF ClientsOK
  <2>3. state' = state
    BY <1>1, <1>7 DEF ClientsOK
  <2> QED
    BY <1>1, <2>2, <2>3 DEF ClientsOK, LagInv, Idlers, NoneLeftDiscovered
<1>8. CASE found # {}
  <2>1. found = {who} /\ who \in Idlers
    BY <1>8 DEF Idlers
  <2>2. Cardinality(found) = 1
    BY <2>1, FS_Singleton
  <2>3. Idlers' = Idlers \ {who}
    BY <1>1, <2>1 DEF Idlers
  <2>4. Cardinality(Idlers') = Cardinality(Idlers) - 1
    BY <1>5, <2>1, <2>3, FS_RemoveElement
  <2>5. lag + 1 < VersionSpace
    BY <1>2, <1>3, <1>5, <2>1, SpaceForAPass, FS_EmptySet
  <2>6. version' \in Version /\ Lag(version', last_version) = lag + 1
    BY <1>1, <2>2, <2>5, LagGrows DEF ClientsOK
  <2>7. Lag(version', last_version) + Cardinality(Idlers') <= 2 * Cardinality(Tracked) + burst
    BY <1>2, <1>3, <1>5, <2>4, <2>6
  <2>8. Lag(version', last_version) > 0
    BY <1>2, <2>6
  <2> QED
    BY <1>1, <1>6, <2>6, <2>7, <2>8 DEF ClientsOK, LagInv, NoneLeftDiscovered
<1> QED
  BY <1>7, <1>8

\* The pass ends: whoever is discovered is promoted, because the versions
\* differ if anybody is.
LEMMA PromoteCounts ==
  ASSUME ClientsOK, LagInv, Promote
  PROVE  ClientsOK' /\ LagInv'
<1> DEFINE ripe == {c \in Tracked : Changed /\ state[c] = "DISCOVERED"}
           lag == Lag(version, last_version)
<1>1. /\ state' = [c \in Tracked |-> IF c \in ripe THEN "CONNECTING" ELSE state[c]]
      /\ version' = Bump(version, Cardinality(ripe))
      /\ last_version' = version /\ burst' = 0 /\ loop_at' = "rest"
  BY DEF Promote
<1>2. ripe \in SUBSET Tracked
  OBVIOUS
<1>3. Cardinality(ripe) \in Nat /\ Cardinality(ripe) <= Cardinality(Tracked)
  BY <1>2, TrackedSets
<1>4. Lag(version, version) = 0
  BY LagFacts DEF ClientsOK
<1>5. Cardinality(ripe) < VersionSpace
  BY <1>3, SpaceForAPass
<1>6. version' \in Version /\ Lag(version', version) = Cardinality(ripe)
  BY <1>1, <1>3, <1>4, <1>5, LagGrows DEF ClientsOK
<1>7. \A c \in Tracked : state'[c] # "DISCOVERED"
  <2> SUFFICES ASSUME NEW c \in Tracked, state[c] = "DISCOVERED"
               PROVE  c \in ripe
    BY <1>1
  <2>1. lag > 0
    BY DEF LagInv
  <2> QED
    BY <2>1, LagFacts DEF Changed, ClientsOK
<1>8. state' \in [Tracked -> TrackedState]
  BY <1>1 DEF ClientsOK, TrackedState
<1>9. burst' \in 0..Burst
  BY <1>1, SpaceForAPass
<1>10. Lag(version', last_version') <= Cardinality(Tracked) + burst'
  BY <1>1, <1>3, <1>6, SpaceForAPass
<1> QED
  BY <1>1, <1>6, <1>7, <1>8, <1>9, <1>10 DEF ClientsOK, LagInv, NoneLeftDiscovered

\* A change of state by a client or the proxy shows in the version.
LEMMA SetStateCounts ==
  ASSUME ClientsOK, LagInv, NEW c \in Tracked, NEW st \in TrackedState, set_state(c, st)
  PROVE  ClientsOK' /\ LagInv'
<1> DEFINE lag == Lag(version, last_version)
<1>1. /\ loop_at = "rest" /\ burst < Burst
      /\ state' = [state EXCEPT ![c] = st] /\ version' = Bump(version, 1)
      /\ burst' = burst + 1
      /\ UNCHANGED <<loop_at, last_version>>
  BY DEF set_state
<1>2. lag \in Nat /\ burst \in 0..Burst
  BY LagFacts, SpaceForAPass DEF ClientsOK, Version
<1>3. lag <= Cardinality(Tracked) + burst
  BY <1>1 DEF LagInv
<1>4. lag + 1 < VersionSpace
  <2>1. CASE Cardinality(Tracked) = 0
    BY <2>1, TrackedSets, FS_EmptySet, TrackerAssumption
  <2>2. CASE Cardinality(Tracked) > 0
    BY <1>1, <1>2, <1>3, <2>2, SpaceForAPass
  <2> QED
    BY <2>1, <2>2, SpaceForAPass
<1>5. version' \in Version /\ Lag(version', last_version) = lag + 1
  BY <1>1, <1>4, LagGrows DEF ClientsOK
<1>6. Lag(version', last_version) > 0 /\ Lag(version', last_version) <= Cardinality(Tracked) + burst'
      /\ burst' \in 0..Burst /\ burst' # 0
  BY <1>1, <1>2, <1>3, <1>5, SpaceForAPass
<1>7. state' \in [Tracked -> TrackedState]
  BY <1>1 DEF ClientsOK
<1> QED
  BY <1>1, <1>5, <1>6, <1>7 DEF ClientsOK, LagInv, NoneLeftDiscovered

-----------------------------------------------------------------------------
(***************************************************************************)
(* The queue.                                                              *)
(***************************************************************************)
LEMMA NumberIsNat ==
  ASSUME NEW s \in Seq(Adv), NEW i \in 1 .. Len(s)
  PROVE  s[i].number \in Nat
<1>1. s[i] \in Adv
  BY ElementOfSeq
<1> QED
  BY <1>1 DEF Adv

LEMMA HearKeepsOrder ==
  ASSUME QueueOK, OrderInv, NEW who \in Tracked \cup {Stranger}, Advertisement(who)
  PROVE  QueueOK' /\ OrderInv'
<1> DEFINE a == [number |-> heard + 1, who |-> who]
           n == Len(queue')
           d == IF Len(queue) >= QUEUE_MAX THEN 1 ELSE 0
<1>1. /\ heard < AdvMax /\ heard' = heard + 1 /\ queue' = Enqueue(queue, a)
      /\ UNCHANGED <<loop_at, drained, delivered>>
  BY DEF Advertisement
<1>2. heard \in Nat /\ delivered \in Nat /\ AdvMax \in Nat /\ heard' \in 0..AdvMax
  BY <1>1, TrackerAssumption DEF QueueOK
<1>3. a \in Adv /\ a.number = heard + 1
  BY <1>2 DEF Adv
<1>4. /\ queue' \in Seq(Adv) /\ n \in 1 .. QUEUE_MAX
      /\ queue'[n] = a
      /\ \A i \in 1 .. n - 1 : i + d \in 1 .. Len(queue) /\ queue'[i] = queue[i + d]
  BY <1>1, <1>3, EnqueueFacts DEF QueueOK
<1>5. n \in Nat /\ d \in Nat /\ QUEUE_MAX \in Nat /\ n <= QUEUE_MAX
  BY <1>4, TrackerAssumption
<1>6. QueueOK'
  BY <1>1, <1>2, <1>4, <1>5 DEF QueueOK
<1>7. \A i \in 1 .. Len(queue) : queue[i].number \in Nat
  BY NumberIsNat DEF QueueOK
<1>8. \A i \in 1 .. Len(drained) : drained[i].number \in Nat
  BY NumberIsNat DEF QueueOK
<1>9. Rising(queue')
  <2> SUFFICES ASSUME NEW i \in 1 .. n, NEW j \in 1 .. n, i < j
               PROVE  queue'[i].number < queue'[j].number
    BY DEF Rising
  <2>1. i \in 1 .. n - 1 /\ i + d \in 1 .. Len(queue) /\ queue'[i] = queue[i + d]
    BY <1>4, <1>5
  <2>2. CASE j = n
    <3>1. queue[i + d].number <= heard
      BY <2>1 DEF OrderInv, Pending
    <3> QED
      BY <1>2, <1>3, <1>4, <1>7, <2>1, <2>2, <3>1
  <2>3. CASE j # n
    <3>1. j + d \in 1 .. Len(queue) /\ queue'[j] = queue[j + d] /\ i + d < j + d
      BY <1>4, <1>5, <2>3
    <3> QED
      BY <2>1, <3>1 DEF OrderInv, Rising
  <2> QED
    BY <2>2, <2>3
<1>10. \A i \in 1 .. n : delivered < queue'[i].number /\ queue'[i].number <= heard + 1
  <2> SUFFICES ASSUME NEW i \in 1 .. n
               PROVE  delivered < queue'[i].number /\ queue'[i].number <= heard + 1
    OBVIOUS
  <2>1. CASE i = n
    BY <1>2, <1>3, <1>4, <2>1 DEF OrderInv
  <2>2. CASE i # n
    <3>1. i + d \in 1 .. Len(queue) /\ queue'[i] = queue[i + d]
      BY <1>4, <1>5, <2>2
    <3>2. delivered < queue[i + d].number /\ queue[i + d].number <= heard
      BY <3>1 DEF OrderInv, Pending
    <3> QED
      BY <1>2, <1>7, <3>1, <3>2
  <2> QED
    BY <2>1, <2>2
<1>11. \A i \in 1 .. Len(drained), j \in 1 .. n : drained[i].number < queue'[j].number
  <2> SUFFICES ASSUME NEW i \in 1 .. Len(drained), NEW j \in 1 .. n
               PROVE  drained[i].number < queue'[j].number
    OBVIOUS
  <2>1. CASE j = n
    <3>1. drained[i].number <= heard
      BY DEF OrderInv, Pending
    <3> QED
      BY <1>2, <1>3, <1>4, <1>8, <2>1, <3>1
  <2>2. CASE j # n
    <3>1. j + d \in 1 .. Len(queue) /\ queue'[j] = queue[j + d]
      BY <1>4, <1>5, <2>2
    <3> QED
      BY <3>1 DEF OrderInv
  <2> QED
    BY <2>1, <2>2
<1>12. Rising(drained) /\ \A i \in 1 .. Len(drained) : delivered < drained[i].number
                                                      /\ drained[i].number <= heard + 1
  BY <1>2, <1>8 DEF OrderInv, Pending
<1> QED
  BY <1>1, <1>2, <1>6, <1>9, <1>10, <1>11, <1>12 DEF OrderInv, Pending, Rising

LEMMA SwapKeepsOrder ==
  ASSUME QueueOK, OrderInv, Swap
  PROVE  QueueOK' /\ OrderInv'
<1>1. drained' = queue /\ queue' = <<>> /\ loop_at' = "deliver" /\ UNCHANGED <<heard, delivered>>
  BY DEF Swap
<1>2. <<>> \in Seq(Adv) /\ Len(<<>>) = 0 /\ 0 <= QUEUE_MAX
  BY EmptySeq, TrackerAssumption
<1>3. \A i \in 1 .. Len(queue') : FALSE
  BY <1>1, <1>2
<1> QED
  BY <1>1, <1>2, <1>3 DEF QueueOK, OrderInv, Rising, Pending

LEMMA DeliverKeepsOrder ==
  ASSUME QueueOK, OrderInv, Deliver
  PROVE  /\ QueueOK' /\ OrderInv'
         /\ delivered' > delivered
<1>1. /\ drained # <<>> /\ delivered' = Head(drained).number /\ drained' = Tail(drained)
      /\ UNCHANGED <<queue, heard, loop_at>>
  BY DEF Deliver
<1>2. /\ drained' \in Seq(Adv) /\ Len(drained') = Len(drained) - 1
      /\ \A i \in 1 .. Len(drained') : drained'[i] = drained[i + 1]
  BY <1>1, HeadTailProperties DEF QueueOK
<1>3. Len(drained) \in Nat /\ Len(drained) >= 1 /\ Head(drained) = drained[1]
  BY <1>1 DEF QueueOK
<1>4. drained[1].number \in Nat /\ delivered < drained[1].number /\ drained[1].number <= heard
  BY <1>3, NumberIsNat DEF QueueOK, OrderInv, Pending
<1>5. \A i \in 1 .. Len(drained') :
        /\ i + 1 \in 1 .. Len(drained) /\ drained[1].number < drained[i + 1].number
        /\ drained[i + 1].number <= heard
  BY <1>2, <1>3 DEF OrderInv, Rising, Pending
<1>6. QueueOK'
  BY <1>1, <1>2, <1>3, <1>4, TrackerAssumption DEF QueueOK
<1>7. Rising(drained')
  BY <1>2, <1>3 DEF OrderInv, Rising
<1>8. \A j \in 1 .. Len(queue) : drained[1].number < queue[j].number /\ queue[j].number <= heard
  BY <1>3 DEF OrderInv, Pending
<1>9. \A i \in 1 .. Len(drained'), j \in 1 .. Len(queue) : drained'[i].number < queue[j].number
  BY <1>2, <1>5 DEF OrderInv
<1> QED
  BY <1>1, <1>2, <1>3, <1>4, <1>5, <1>6, <1>7, <1>8, <1>9 DEF OrderInv, Pending, Rising
-----------------------------------------------------------------------------
\* Steps that leave the queue and what was drained from it alone.
QueueAlone == UNCHANGED <<queue, heard, drained, delivered>>

LEMMA QueueKept ==
  ASSUME QueueOK, OrderInv, QueueAlone, loop_at' \in {"setup", "rest", "deliver"}
  PROVE  QueueOK' /\ OrderInv'
BY DEF QueueAlone, QueueOK, OrderInv, Rising, Pending

TrackerInd == ScanOK /\ QueueOK /\ OrderInv /\ ClientsOK /\ LagInv

LEMMA TrackerIndInit ==
  ASSUME TrackerInit
  PROVE  TrackerInd
<1>1. ScanOK
  BY Zenon DEF TrackerInit, ScanOK
<1>2. <<>> \in Seq(Adv) /\ Len(<<>>) = 0
  BY EmptySeq
<1>3. QueueOK
  BY <1>2, TrackerAssumption DEF TrackerInit, QueueOK
<1>4. OrderInv
  BY <1>2 DEF TrackerInit, OrderInv, Rising, Pending
<1>5. ClientsOK
  BY SpaceForAPass DEF TrackerInit, ClientsOK, Version, TrackedState
<1>6. Lag(version, last_version) = 0
  BY <1>5, LagFacts DEF TrackerInit, ClientsOK
<1>7. LagInv
  BY <1>6, SpaceForAPass DEF TrackerInit, LagInv, NoneLeftDiscovered
<1> QED
  BY <1>1, <1>3, <1>4, <1>5, <1>7 DEF TrackerInd

LEMMA TrackerIndStep ==
  ASSUME TrackerInd, [TrackerNext]_trackerVars
  PROVE  TrackerInd' /\ (delivered' # delivered => delivered' > delivered)
<1> DEFINE Goal == QueueOK' /\ OrderInv' /\ ClientsOK' /\ LagInv'
                   /\ (delivered' # delivered => delivered' > delivered)
<1>0. ScanOK' /\ loop_at \in {"setup", "rest", "deliver"}
  BY ScanKept DEF TrackerInd, QueueOK
<1>1. CASE ScannerStep
  BY <1>0, <1>1, ScannerLocal, QueueKept, ClientsKept DEF TrackerInd, QueueAlone, ClientsAlone
<1>2. ASSUME NEW who \in Tracked \cup {Stranger}, Advertisement(who)
      PROVE  Goal
  BY <1>2, HearKeepsOrder, ClientsKept DEF TrackerInd, ClientsAlone, Advertisement
<1>3. CASE TrackerSetup
  <2>1. QueueAlone /\ UNCHANGED trackedVars /\ loop_at = "setup" /\ loop_at' = "rest"
    BY <1>3 DEF TrackerSetup, QueueAlone
  <2>2. ClientsOK' /\ LagInv'
    BY <2>1 DEF TrackerInd, ClientsOK, LagInv, trackedVars, Idlers, NoneLeftDiscovered
  <2> QED
    BY <1>0, <2>1, <2>2, QueueKept DEF TrackerInd, QueueAlone
<1>4. CASE Swap
  BY <1>0, <1>4, SwapKeepsOrder, SwapCounts DEF TrackerInd, Swap
<1>5. CASE Deliver
  BY <1>0, <1>5, DeliverKeepsOrder, DeliverCounts DEF TrackerInd
<1>6. CASE Promote
  BY <1>0, <1>6, QueueKept, PromoteCounts DEF TrackerInd, QueueAlone, Promote
<1>7. ASSUME NEW c \in Tracked, NEW st \in TrackedState, set_state(c, st)
      PROVE  Goal
  BY <1>0, <1>7, QueueKept, SetStateCounts DEF TrackerInd, QueueAlone, set_state
<1>8. CASE UNCHANGED trackerVars
  BY <1>0, <1>8, QueueKept, ClientsKept DEF TrackerInd, QueueAlone, ClientsAlone, trackerVars
<1> QED
  BY <1>0, <1>1, <1>2, <1>3, <1>4, <1>5, <1>6, <1>7, <1>8
  DEF TrackerInd, TrackerNext, TrackerLoop

LEMMA TrackerInvariant == TrackerSpec => []TrackerInd
<1>1. TrackerInit => TrackerInd
  BY TrackerIndInit
<1>2. TrackerInd /\ [TrackerNext]_trackerVars => TrackerInd'
  BY TrackerIndStep
<1> QED
  BY <1>1, <1>2, PTL DEF TrackerSpec

\* The queue never exceeds QUEUE_MAX, on either side of the swap, and every
\* variable of scanner, loop and clients keeps its type.
THEOREM TrackerTypeCorrect == TrackerSpec => []TrackerTypeOK
<1>1. TrackerInd => TrackerTypeOK
  BY TypeParts DEF TrackerInd
<1> QED
  BY <1>1, TrackerInvariant, PTL

\* A pass of loop() promotes every discovered client: the uint8_t version
\* cannot come round to the remembered value between two looks at it.
THEOREM NoneStaysDiscovered == TrackerSpec => []NoneLeftDiscovered
<1>1. TrackerInd => NoneLeftDiscovered
  BY DEF TrackerInd, LagInv
<1> QED
  BY <1>1, TrackerInvariant, PTL

\* Listeners are called with advertisements in the order the scanner thread
\* heard them, none twice, however many the full queue dropped.
THEOREM DeliveryKeepsOrder == TrackerSpec => DeliveredInOrder
<1>1. TrackerInd /\ [TrackerNext]_trackerVars
        => [delivered' # delivered => delivered' > delivered]_trackerVars
  BY TrackerIndStep
<1> QED
  BY <1>1, TrackerInvariant, PTL DEF TrackerSpec, DeliveredInOrder
=============================================================================
