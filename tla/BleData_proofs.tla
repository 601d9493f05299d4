--------------------------- MODULE BleData_proofs ---------------------------
(***************************************************************************)
(* The broadcasters, the formats of advertisements and the nodes of a      *)
(* ble_client, for inputs of every length and every number of steps: an    *)
(* advertisement on the air is one the component knows of, what it says is *)
(* read back as it was configured; both backends make the same device of   *)
(* what they receive, from whole fields only, and what the proxy forwards  *)
(* parses again; a binary output never writes to a handle of an earlier    *)
(* connection.                                                             *)
(***************************************************************************)
EXTENDS Broadcaster, ClientNodes, AdvCodec, WellFoundedInduction, FiniteSetTheorems,
        FunctionTheorems, SequenceTheorems, TLAPS

-----------------------------------------------------------------------------
(***************************************************************************)
(* Induction and recursion over natural numbers, without a parameter that  *)
(* is an operator: a property is the set of the numbers that have it, and  *)
(* what fails somewhere fails at a least number.                           *)
(***************************************************************************)
LEMMA LeastNatural ==
  ASSUME NEW T \in SUBSET Nat, T # {}
  PROVE  \E x \in T : \A y \in T : x <= y
<1>1. IsWellFoundedOn(OpToRel(<, Nat), Nat)
  BY NatLessThanWellFounded
<1>2. PICK x \in T : \A y \in T : ~(<<y, x>> \in OpToRel(<, Nat))
  BY <1>1, WFMin
<1>3. \A y \in T : ~(y < x)
  BY <1>2 DEF OpToRel
<1> QED
  BY <1>3

LEMMA NaturalSetInduction ==
  ASSUME NEW S, 0 \in S, \A n \in Nat : n \in S => n + 1 \in S
  PROVE  Nat \subseteq S
<1> SUFFICES ASSUME Nat \ S # {} PROVE FALSE
  OBVIOUS
<1>1. PICK x \in Nat \ S : \A y \in Nat \ S : x <= y
  BY LeastNatural
<1>2. x - 1 \in Nat
  BY <1>1
<1>3. x - 1 \in S
  BY <1>1, <1>2
<1> QED
  BY <1>1, <1>2, <1>3

\* f goes from a in n steps, the k-th by G[k].
Iterates(f, a, n, G) == f[0] = a /\ \A k \in 1 .. n : f[k] = G[k][f[k - 1]]

LEMMA Recursion ==
  ASSUME NEW X, NEW a \in X, NEW n \in Nat, NEW G \in [1 .. n -> [X -> X]]
  PROVE  \E f \in [0 .. n -> X] : Iterates(f, a, n, G)
<1> DEFINE Upto(m) == \E f \in [0 .. m -> X] : f[0] = a /\ \A k \in 1 .. m : f[k] = G[k][f[k - 1]]
           S == {m \in Nat : m <= n => Upto(m)}
<1>1. 0 \in S
  <2> DEFINE f == [k \in 0 .. 0 |-> a]
  <2>1. f \in [0 .. 0 -> X] /\ f[0] = a /\ \A k \in 1 .. 0 : f[k] = G[k][f[k - 1]]
    OBVIOUS
  <2> HIDE DEF f
  <2>2. Upto(0)
    BY <2>1
  <2> QED
    BY <2>2
<1>2. ASSUME NEW m \in Nat, m \in S PROVE m + 1 \in S
  <2> SUFFICES ASSUME m + 1 <= n PROVE Upto(m + 1)
    OBVIOUS
  <2>1. PICK f \in [0 .. m -> X] : f[0] = a /\ \A k \in 1 .. m : f[k] = G[k][f[k - 1]]
    BY <1>2
  <2> DEFINE g == [k \in 0 .. m + 1 |-> IF k = m + 1 THEN G[m + 1][f[m]] ELSE f[k]]
  <2>2. g[m + 1] = G[m + 1][f[m]] /\ \A k \in 0 .. m : g[k] = f[k]
    OBVIOUS
  <2>3. g \in [0 .. m + 1 -> X]
    <3>1. m + 1 \in 1 .. n /\ f[m] \in X
      OBVIOUS
    <3>2. G[m + 1][f[m]] \in X
      BY <3>1
    <3>3. \A k \in 0 .. m + 1 : (IF k = m + 1 THEN G[m + 1][f[m]] ELSE f[k]) \in X
      BY <3>2
    <3> QED
      BY <3>3
  <2> HIDE DEF g
  <2>4. ASSUME NEW k \in 1 .. m + 1 PROVE g[k] = G[k][g[k - 1]]
    <3>1. k - 1 \in 0 .. m
      OBVIOUS
    <3>2. CASE k = m + 1
      BY <2>2, <3>1, <3>2
    <3>3. CASE k # m + 1
      <4>1. k \in 1 .. m /\ k \in 0 .. m
        BY <3>3
      <4> QED
        BY <2>1, <2>2, <3>1, <4>1
    <3> QED
      BY <3>2, <3>3
  <2>5. g[0] = a
    BY <2>1, <2>2
  <2> QED
    BY <2>3, <2>4, <2>5
<1>3. Upto(n)
  <2> HIDE DEF Upto
  <2>1. 0 \in S /\ \A m \in Nat : m \in S => m + 1 \in S
    BY <1>1, <1>2
  <2> HIDE DEF S
  <2>2. n \in S
    BY <2>1, NaturalSetInduction
  <2> QED
    BY <2>2 DEF S
<1> QED
  BY <1>3 DEF Iterates

-----------------------------------------------------------------------------
(***************************************************************************)
(* Broadcaster: what is on the air is marked.                              *)
(***************************************************************************)
\* Inductive strengthening: RegisterAdvertisement is called once, so nothing
\* is on the air before its answer, and a Release on its way is the last word.
BroadcastInd ==
  /\ OnAirIsMarked
  /\ call \in {"none", "sent", "accepted", "refused"}
  /\ ~started => call = "none" /\ on_air = <<>> /\ ~release
  /\ start_requested => ~started
  /\ setup_at \in {"build", "request"} => ~started /\ ~start_requested
  /\ call = "sent" => adv_registered /\ setup_at # "gone" /\ on_air = <<>> /\ ~release
  /\ call = "refused" => on_air = <<>>
  /\ release => on_air = <<>>
  /\ setup_at = "gone" => call = "none"

LEMMA BroadcastStep ==
  ASSUME BroadcastInd, [BroadcastNext]_broadcastVars
  PROVE  BroadcastInd'
<1> USE DEF BroadcastInd, OnAirIsMarked
<1>1. CASE setup
  BY <1>1 DEF setup
<1>2. CASE RequestStart
  BY <1>2 DEF RequestStart
<1>3. CASE WorkerStarts
  BY <1>3 DEF WorkerStarts, Registers, StartFails
<1>4. CASE BluezAnswers
  BY <1>4 DEF BluezAnswers
<1>5. CASE on_register_adv_reply
  BY <1>5 DEF on_register_adv_reply
<1>6. CASE BluezReleases
  BY <1>6 DEF BluezReleases
<1>7. CASE adv_release
  BY <1>7 DEF adv_release
<1>8. CASE Destroy
  BY <1>8 DEF Destroy
<1>9. CASE UNCHANGED broadcastVars
  BY <1>9 DEF broadcastVars
<1> QED
  BY <1>1, <1>2, <1>3, <1>4, <1>5, <1>6, <1>7, <1>8, <1>9 DEF BroadcastNext

\* While BlueZ advertises for the component, adv_registered_ says so, and the
\* destructor leaves nothing on the air, whichever way the answer to
\* RegisterAdvertisement, Release and the destructor overtake each other.
THEOREM OnAirStaysMarked == BroadcastSpec => []OnAirIsMarked
<1>1. BroadcastInit => BroadcastInd
  BY DEF BroadcastInit, BroadcastInd, OnAirIsMarked
<1>2. BroadcastInd /\ [BroadcastNext]_broadcastVars => BroadcastInd'
  BY BroadcastStep
<1>3. BroadcastInd => OnAirIsMarked
  BY DEF BroadcastInd
<1> QED
  BY <1>1, <1>2, <1>3, PTL DEF BroadcastSpec

-----------------------------------------------------------------------------
(***************************************************************************)
(* Broadcaster: the beacon.  What the encoder writes is what the receiver  *)
(* of esp32_ble_tracker reads.                                             *)
(***************************************************************************)
\* get_major() and get_minor() undo the byte order of build_ibeacon_payload().
LEMMA SwappedUndoes ==
  ASSUME NEW n \in uint16 PROVE Swapped(n \div 256, n % 256) = n
<1>1. n \in Int /\ n >= 0 /\ n <= 65535
  BY SMTT(30) DEF uint16
<1>2. PICK hi \in Int : hi = n \div 256
  BY <1>1, SMT
<1>3. PICK lo \in Int : lo = n % 256
  BY <1>1, SMT
<1>4. hi >= 0 /\ hi <= 255 /\ lo >= 0 /\ lo <= 255
  BY <1>1, <1>2, <1>3, SMT
<1>5. n - 256 * hi = lo
  BY <1>1, <1>2, <1>3, SMT
<1>6. (hi + 256 * lo) \div 256 = lo /\ (hi + 256 * lo) % 256 = hi
  BY <1>4, SMT
<1>7. lo + 256 * hi = n
  BY <1>1, <1>5, SMT
<1>8. Swapped(hi, lo) = lo + 256 * hi
  BY <1>6, SMT DEF Swapped
<1> QED
  BY <1>2, <1>3, <1>7, <1>8, SMTT(30)

\* The power is sent as an unsigned byte and read as a signed one.
LEMMA PowerUndoes ==
  ASSUME NEW p \in int8 PROVE (((p % 256) + 128) % 256) - 128 = p
  BY SMT DEF int8

\* The fields are numbers.
LEMMA FieldsAreIntegers == uint8 \subseteq Int /\ uint16 \subseteq Int /\ int8 \subseteq Int
  BY SMT DEF uint8, uint16, int8

LEMMA BeaconTyped ==
  ASSUME NEW b \in Beacons
  PROVE  /\ b = [uuid |-> b.uuid, major |-> b.major, minor |-> b.minor, power |-> b.power]
         /\ b.uuid \in Seq(Int) /\ Len(b.uuid) = 16
         /\ b.major \in uint16 /\ b.minor \in uint16 /\ b.power \in int8
         /\ b.major \in Int /\ b.minor \in Int /\ b.power \in Int
<1>1. b \in [uuid : Seq(uint8), major : uint16, minor : uint16, power : int8] /\ Len(b.uuid) = 16
  BY BroadcasterAssumption
<1>2. b.uuid \in Seq(uint8) /\ b.major \in uint16 /\ b.minor \in uint16 /\ b.power \in int8
  BY <1>1
<1>3. b.uuid \in Seq(Int)
  BY <1>2, FieldsAreIntegers, SeqMonotonic
<1>4. b.major \in Int /\ b.minor \in Int /\ b.power \in Int
  BY <1>2, FieldsAreIntegers
<1> QED
  BY <1>1, <1>2, <1>3, <1>4

\* The bytes of a beacon, company id in front, one by one.
BeaconHeard(b) == <<76, 0>> \o build_ibeacon_payload(b)

LEMMA BeaconBytes ==
  ASSUME NEW b \in Beacons
  PROVE  /\ BeaconHeard(b) \in Seq(Int) /\ Len(BeaconHeard(b)) = 25
         /\ BeaconHeard(b)[1] = 76 /\ BeaconHeard(b)[2] = 0
         /\ BeaconHeard(b)[3] = 2 /\ BeaconHeard(b)[4] = 21
         /\ \A i \in 1 .. 16 : BeaconHeard(b)[i + 4] = b.uuid[i]
         /\ BeaconHeard(b)[21] = b.major \div 256 /\ BeaconHeard(b)[22] = b.major % 256
         /\ BeaconHeard(b)[23] = b.minor \div 256 /\ BeaconHeard(b)[24] = b.minor % 256
         /\ BeaconHeard(b)[25] = b.power % 256
<1> DEFINE u == b.uuid
           t == <<b.major \div 256, b.major % 256, b.minor \div 256, b.minor % 256, b.power % 256>>
           v == <<2, 21>>
           w == <<76, 0>>
<1>1. u \in Seq(Int) /\ Len(u) = 16
  BY BeaconTyped
<1>2. t \in Seq(Int) /\ Len(t) = 5
  <2>1. /\ b.major \div 256 \in Int /\ b.major % 256 \in Int /\ b.minor \div 256 \in Int
        /\ b.minor % 256 \in Int /\ b.power % 256 \in Int
    BY BeaconTyped, SMT
  <2> QED
    BY <2>1, SMT
<1>3. /\ t[1] = b.major \div 256 /\ t[2] = b.major % 256 /\ t[3] = b.minor \div 256
      /\ t[4] = b.minor % 256 /\ t[5] = b.power % 256
  BY SMT
<1>4. v \in Seq(Int) /\ Len(v) = 2 /\ v[1] = 2 /\ v[2] = 21
  BY SMT
<1>5. w \in Seq(Int) /\ Len(w) = 2 /\ w[1] = 76 /\ w[2] = 0
  BY SMT
<1>6. BeaconHeard(b) = w \o ((v \o u) \o t)
  BY DEF BeaconHeard, build_ibeacon_payload
<1> HIDE DEF u, t, v, w
<1> DEFINE p == v \o u
           q == p \o t
           d == w \o q
<1>7. /\ p \in Seq(Int) /\ Len(p) = 18
      /\ \A i \in 1 .. 18 : p[i] = IF i <= 2 THEN v[i] ELSE u[i - 2]
  <2>1. /\ p \in Seq(Int) /\ Len(p) = Len(v) + Len(u)
        /\ \A i \in 1 .. Len(v) + Len(u) : p[i] = IF i <= Len(v) THEN v[i] ELSE u[i - Len(v)]
    BY <1>1, <1>4, ConcatProperties
  <2> HIDE DEF p
  <2>2. Len(v) = 2 /\ Len(v) + Len(u) = 18
    BY <1>1, <1>4, SMT
  <2> QED
    BY <2>1, <2>2
<1> HIDE DEF p
<1>8. /\ q \in Seq(Int) /\ Len(q) = 23
      /\ \A i \in 1 .. 23 : q[i] = IF i <= 18 THEN p[i] ELSE t[i - 18]
  <2>1. /\ q \in Seq(Int) /\ Len(q) = Len(p) + Len(t)
        /\ \A i \in 1 .. Len(p) + Len(t) : q[i] = IF i <= Len(p) THEN p[i] ELSE t[i - Len(p)]
    BY <1>2, <1>7, ConcatProperties
  <2> HIDE DEF q
  <2>2. Len(p) = 18 /\ Len(p) + Len(t) = 23
    BY <1>2, <1>7, SMT
  <2> QED
    BY <2>1, <2>2
<1> HIDE DEF q
<1>9. /\ d \in Seq(Int) /\ Len(d) = 25
      /\ \A i \in 1 .. 25 : d[i] = IF i <= 2 THEN w[i] ELSE q[i - 2]
  <2>1. /\ d \in Seq(Int) /\ Len(d) = Len(w) + Len(q)
        /\ \A i \in 1 .. Len(w) + Len(q) : d[i] = IF i <= Len(w) THEN w[i] ELSE q[i - Len(w)]
    <3>1. w \in Seq(Int) /\ q \in Seq(Int)
      BY <1>5, <1>8
    <3> QED
      BY <3>1, ConcatProperties
  <2> HIDE DEF d
  <2>2. Len(w) = 2 /\ Len(w) + Len(q) = 25
    BY <1>5, <1>8, SMT
  <2> QED
    BY <2>1, <2>2
<1> HIDE DEF d
<1>10. d[1] = 76 /\ d[2] = 0
  BY <1>5, <1>9, SMT
<1>11. d[3] = 2 /\ d[4] = 21
  <2>1. d[3] = q[1] /\ d[4] = q[2]
    BY <1>9, SMT
  <2>2. q[1] = p[1] /\ q[2] = p[2]
    BY <1>8, SMT
  <2>3. p[1] = v[1] /\ p[2] = v[2]
    BY <1>7, SMT
  <2> QED
    BY <1>4, <2>1, <2>2, <2>3
<1>12. \A i \in 1 .. 16 : d[i + 4] = u[i]
  <2> SUFFICES ASSUME NEW i \in 1 .. 16 PROVE d[i + 4] = u[i]
    OBVIOUS
  <2>1. PICK k \in 1 .. 25 : k = i + 4 /\ ~(k <= 2)
    BY SMT
  <2>2. PICK j \in 1 .. 23 : j = i + 2 /\ ~(j <= 2) /\ j <= 18 /\ k - 2 = j /\ j - 2 = i
    BY <2>1, SMT
  <2>3. d[k] = q[j]
    BY <1>9, <2>1, <2>2
  <2>4. q[j] = p[j]
    BY <1>8, <2>2
  <2>5. j \in 1 .. 18
    BY <2>2, SMT
  <2>6. p[j] = u[i]
    BY <1>7, <2>2, <2>5
  <2> QED
    BY <2>1, <2>3, <2>4, <2>6
<1>13. d[21] = t[1] /\ d[22] = t[2] /\ d[23] = t[3] /\ d[24] = t[4] /\ d[25] = t[5]
  <2>1. d[21] = q[19] /\ d[22] = q[20] /\ d[23] = q[21] /\ d[24] = q[22] /\ d[25] = q[23]
    BY <1>9, SMT
  <2>2. q[19] = t[1] /\ q[20] = t[2] /\ q[21] = t[3] /\ q[22] = t[4] /\ q[23] = t[5]
    BY <1>8, SMT
  <2> QED
    BY <2>1, <2>2
<1>14. BeaconHeard(b) = d
  BY <1>6 DEF d, q, p
<1> QED
  BY <1>3, <1>9, <1>10, <1>11, <1>12, <1>13, <1>14 DEF u

\* ESPBLEiBeacon reads back what build_ibeacon_payload_() wrote, and nothing
\* from less of it.
LEMMA BeaconReadsBack ==
  ASSUME NEW b \in Beacons
  PROVE  /\ from_manufacturer_data(BeaconHeard(b)) = b
         /\ \A n \in 0 .. Len(BeaconHeard(b)) - 1 :
              from_manufacturer_data(SubSeq(BeaconHeard(b), 1, n)) = NoBeacon
<1> DEFINE d == BeaconHeard(b)
<1>1. /\ d \in Seq(Int) /\ Len(d) = 25
      /\ d[1] = 76 /\ d[2] = 0 /\ d[3] = 2 /\ d[4] = 21
      /\ \A i \in 1 .. 16 : d[i + 4] = b.uuid[i]
  BY BeaconBytes
<1>2. /\ d[21] = b.major \div 256 /\ d[22] = b.major % 256
      /\ d[23] = b.minor \div 256 /\ d[24] = b.minor % 256
      /\ d[25] = b.power % 256
  BY BeaconBytes
<1> HIDE DEF d
<1>3. SubSeq(d, 5, 20) = b.uuid
  <2>1. /\ SubSeq(d, 5, 20) \in Seq(Int) /\ Len(SubSeq(d, 5, 20)) = 16
        /\ \A i \in 1 .. 16 : SubSeq(d, 5, 20)[i] = d[i + 4]
    <3>1. \A i \in 5 .. 20 : d[i] \in Int
      <4>1. \A i \in 1 .. 25 : d[i] \in Int
        BY <1>1, ElementOfSeq
      <4>2. \A i \in 5 .. 20 : i \in 1 .. 25
        BY SMT
      <4> QED
        BY <4>1, <4>2
    <3>2. /\ SubSeq(d, 5, 20) \in Seq(Int)
          /\ Len(SubSeq(d, 5, 20)) = IF 5 <= 20 THEN 20 - 5 + 1 ELSE 0
          /\ \A i \in 1 .. 20 - 5 + 1 : SubSeq(d, 5, 20)[i] = d[5 + i - 1]
      BY <3>1, SubSeqProperties
    <3>3. \A i \in 1 .. 16 : 5 + i - 1 = i + 4
      BY SMT
    <3>4. 20 - 5 + 1 = 16 /\ 5 <= 20
      BY SMT
    <3> QED
      BY <3>2, <3>3, <3>4
  <2>2. b.uuid \in Seq(Int) /\ Len(b.uuid) = 16
    BY BeaconTyped
  <2>3. \A i \in 1 .. 16 : SubSeq(d, 5, 20)[i] = b.uuid[i]
    BY <1>1, <2>1, ZenonT(40)
  <2> QED
    BY <2>1, <2>2, <2>3, SeqEqual, ZenonT(40)
<1>4. Swapped(d[21], d[22]) = b.major /\ Swapped(d[23], d[24]) = b.minor
  BY <1>2, BeaconTyped, SwappedUndoes
<1>5. ((d[25] + 128) % 256) - 128 = b.power
  BY <1>2, BeaconTyped, PowerUndoes
<1>6. from_manufacturer_data(d)
        = [uuid |-> SubSeq(d, 5, 20), major |-> Swapped(d[21], d[22]),
           minor |-> Swapped(d[23], d[24]), power |-> ((d[25] + 128) % 256) - 128]
  BY <1>1, SMT DEF from_manufacturer_data
<1>7. from_manufacturer_data(d) = b
  BY <1>3, <1>4, <1>5, <1>6, BeaconTyped, SMTT(30)
<1>8. ASSUME NEW n \in 0 .. Len(d) - 1 PROVE from_manufacturer_data(SubSeq(d, 1, n)) = NoBeacon
  <2>1. Len(SubSeq(d, 1, n)) = n /\ n < 25 /\ n \in Int
    BY <1>1, SMTT(30)
  <2> QED
    BY <2>1, SMT DEF from_manufacturer_data
<1> QED
  BY <1>7, <1>8 DEF d

-----------------------------------------------------------------------------
(***************************************************************************)
(* Broadcaster: the stable sort.                                           *)
(***************************************************************************)
Object == [id : uint8, raw : Int]
Precedes(s, j, i) == s[j].id < s[i].id \/ (s[j].id = s[i].id /\ j <= i)

LEMMA ObjectsTyped ==
  ASSUME NEW s \in Seq(Object)
  PROVE  /\ DOMAIN s = 1 .. Len(s) /\ Len(s) \in Nat
         /\ \A i \in 1 .. Len(s) : /\ s[i] \in Object /\ i \in Int
                                  /\ s[i].id \in uint8 /\ s[i].id \in Int /\ s[i].raw \in Int
<1>1. DOMAIN s = 1 .. Len(s) /\ Len(s) \in Nat
  BY LenProperties
<1>2. ASSUME NEW i \in 1 .. Len(s) PROVE s[i] \in Object
  BY ElementOfSeq
<1>3. uint8 \subseteq Int
  BY SMT DEF uint8
<1>4. \A o \in Object : o.id \in uint8 /\ o.raw \in Int
  BY DEF Object
<1>5. \A i \in 1 .. Len(s) : i \in Int
  BY <1>1
<1> QED
  BY <1>1, <1>2, <1>3, <1>4, <1>5

LEMMA RankOrders ==
  ASSUME NEW s \in Seq(Object)
  PROVE  /\ \A i \in 1 .. Len(s) : Rank(s, i) \in 1 .. Len(s)
         /\ \A i, j \in 1 .. Len(s) : Precedes(s, i, j) /\ i # j => Rank(s, i) < Rank(s, j)
<1> DEFINE D == 1 .. Len(s)
           P(i) == {j \in D : Precedes(s, j, i)}
<1>1. DOMAIN s = D /\ Len(s) \in Nat /\ \A i \in D : s[i].id \in Int /\ i \in Int
  BY ObjectsTyped
<1>2. IsFiniteSet(D) /\ Cardinality(D) = Len(s)
  BY <1>1, FS_Interval, SMTT(30)
<1>3. \A i \in D : Rank(s, i) = Cardinality(P(i))
  BY <1>1 DEF Rank, Precedes
<1>4. \A i \in D : P(i) \subseteq D /\ IsFiniteSet(P(i)) /\ Cardinality(P(i)) \in Nat
                   /\ Cardinality(P(i)) <= Len(s)
  BY <1>2, FS_Subset, FS_CardinalityType
<1>5. \A i \in D : i \in P(i)
  BY <1>1 DEF Precedes
<1>6. \A i \in D : Cardinality(P(i)) # 0
  BY <1>4, <1>5, FS_EmptySet
<1>7. ASSUME NEW i \in D, NEW j \in D, Precedes(s, i, j), i # j
      PROVE  Cardinality(P(i)) < Cardinality(P(j))
  <2>1. P(i) \subseteq P(j)
    BY <1>1, <1>7 DEF Precedes
  <2>2. j \notin P(i) /\ j \in P(j)
    BY <1>1, <1>5, <1>7 DEF Precedes
  <2>3. P(i) # P(j) /\ IsFiniteSet(P(j))
    BY <1>4, <2>2
  <2> HIDE DEF P
  <2>4. Cardinality(P(i)) <= Cardinality(P(j)) /\ Cardinality(P(i)) # Cardinality(P(j))
    BY <2>1, <2>3, FS_Subset
  <2> QED
    BY <1>4, <2>4
<1> HIDE DEF P
<1> QED
  BY <1>1, <1>3, <1>4, <1>6, <1>7

LEMMA SortedIsPermutation ==
  ASSUME NEW s \in Seq(Object)
  PROVE  \E p \in [1 .. Len(s) -> 1 .. Len(s)] :
           /\ \A i \in 1 .. Len(s) : \E k \in 1 .. Len(s) : p[k] = i
           /\ \A j, k \in 1 .. Len(s) : j < k => Precedes(s, p[j], p[k]) /\ p[j] # p[k]
           /\ \A k \in 1 .. Len(s) : Sorted(s)[k] = s[p[k]]
<1> DEFINE D == 1 .. Len(s)
           r == [i \in D |-> Rank(s, i)]
           p == [k \in D |-> CHOOSE i \in D : Rank(s, i) = k]
<1>1. DOMAIN s = D /\ Len(s) \in Nat /\ \A i \in D : s[i].id \in Int /\ i \in Int
  BY ObjectsTyped
<1>2. IsFiniteSet(D) /\ Cardinality(D) = Len(s)
  BY <1>1, FS_Interval, SMTT(30)
<1>3. \A i, j \in D : Precedes(s, i, j) \/ Precedes(s, j, i)
  BY <1>1 DEF Precedes
<1>4. \A i, j \in D : Rank(s, i) = Rank(s, j) => i = j
  BY <1>1, <1>3, RankOrders
<1>5. r \in Injection(D, D)
  <2>1. r \in [D -> D] /\ \A i \in D : r[i] = Rank(s, i)
    BY RankOrders
  <2> HIDE DEF r
  <2> QED
    BY <1>4, <2>1 DEF Injection, IsInjective
<1>6. r \in Surjection(D, D)
  BY <1>2, <1>5, FS_Injection
<1>7. \A k \in D : \E i \in D : Rank(s, i) = k
  BY <1>6 DEF Surjection
<1>8. \A k \in D : p[k] \in D /\ Rank(s, p[k]) = k
  BY <1>7
<1>9. p \in [D -> D]
  BY <1>8
<1>10. \A k \in D : Sorted(s)[k] = s[p[k]]
  BY <1>1 DEF Sorted
<1> HIDE DEF p
<1>11. \A i \in D : p[Rank(s, i)] = i
  BY <1>4, <1>8, RankOrders
<1>12. \A i \in D : \E k \in D : p[k] = i
  BY <1>11, RankOrders
<1>13. ASSUME NEW j \in D, NEW k \in D, j < k PROVE Precedes(s, p[j], p[k]) /\ p[j] # p[k]
  <2>1. p[j] \in D /\ p[k] \in D /\ Rank(s, p[j]) = j /\ Rank(s, p[k]) = k
    BY <1>8
  <2>2. p[j] # p[k]
    BY <1>13, <2>1
  <2>3. ~Precedes(s, p[k], p[j])
    BY <1>13, <2>1, <2>2, RankOrders
  <2> QED
    BY <1>3, <2>1, <2>2, <2>3
<1> QED
  BY <1>9, <1>10, <1>12, <1>13

-----------------------------------------------------------------------------
(***************************************************************************)
(* Broadcaster: the encoder, object by object.                             *)
(***************************************************************************)
LEMMA SizeValues == \A id : Size(id) \in {0, 1, 2, 3} /\ (Signed(id) => Size(id) = 2)
  BY SMT DEF Size, Signed, Spec16

LEMMA WeightValues == Weight[1] = 1 /\ Weight[2] = 256 /\ Weight[3] = 65536
  BY SMT DEF Weight

\* What a byte of a number is.
LEMMA ByteIsInteger ==
  ASSUME NEW n \in Int, NEW i \in {1, 2, 3}
  PROVE  (n \div Weight[i]) % 256 \in Int
<1>1. PICK w \in Int : w = Weight[i] /\ w > 0
  BY WeightValues, SMT
<1>2. (n \div w) \in Int
  BY <1>1, SMT
<1>3. \A q \in Int : q % 256 \in Int
  BY SMT
<1> QED
  BY <1>1, <1>2, <1>3

LEMMA LittleEndianTyped ==
  ASSUME NEW n \in Int, NEW size \in {0, 1, 2, 3}
  PROVE  /\ LittleEndian(n, size) \in Seq(Int) /\ Len(LittleEndian(n, size)) = size
         /\ \A i \in 1 .. size : LittleEndian(n, size)[i] = (n \div Weight[i]) % 256
<1>1. size \in Nat /\ \A i \in 1 .. size : i \in {1, 2, 3}
  BY SMT
<1>2. LittleEndian(n, size) \in [1 .. size -> Int]
  BY <1>1, ByteIsInteger DEF LittleEndian
<1>3. LittleEndian(n, size) \in Seq(Int)
  BY <1>1, <1>2, IsASeq
<1>4. Len(LittleEndian(n, size)) = size
  BY <1>1, <1>2, <1>3, LenProperties
<1> QED
  BY <1>3, <1>4 DEF LittleEndian

LEMMA ClampTyped ==
  ASSUME NEW o \in Object, Known(o) PROVE Clamp(o) \in Int
<1>1. o.raw \in Int
  BY DEF Object
<1>2. Size(o.id) \in {1, 2, 3}
  BY SizeValues, SMT DEF Known
<1>3. PICK w \in Int : w = Weight[Size(o.id)]
  BY <1>2, WeightValues, SMT
<1> QED
  BY <1>1, <1>3, SMT DEF Clamp

LEMMA PushTyped ==
  ASSUME NEW out \in Seq(Int), NEW o \in Object
  PROVE  PushObject(out, o) \in Seq(Int)
<1>1. CASE Known(o)
  <2>1. o.id \in Int
    <3>1. uint8 \subseteq Int
      BY SMT DEF uint8
    <3> QED
      BY <3>1 DEF Object
  <2>2. <<o.id>> \in Seq(Int)
    BY <2>1
  <2>3. LittleEndian(Clamp(o), Size(o.id)) \in Seq(Int)
    BY <1>1, ClampTyped, SizeValues, LittleEndianTyped, ZenonT(40)
  <2> QED
    BY <1>1, <2>2, <2>3, ConcatProperties DEF PushObject
<1> QED
  BY <1>1 DEF PushObject

\* The loop of build_bthome_payload(), pass by pass.
Passes(s, f) ==
  /\ f \in [0 .. Len(s) -> Seq(Int)]
  /\ f[0] = <<INFO>>
  /\ \A k \in 1 .. Len(s) : f[k] = PushObject(f[k - 1], Sorted(s)[k])

LEMMA PayloadBuilt ==
  ASSUME NEW s \in Seq(Object)
  PROVE  \E f : Passes(s, f) /\ build_bthome_payload(s) = f[Len(s)]
<1> DEFINE n == Len(s)
           G == [k \in 1 .. n |-> [out \in Seq(Int) |-> PushObject(out, Sorted(s)[k])]]
           Step(f) == [k \in 0 .. n |-> IF k = 0 THEN <<INFO>> ELSE PushObject(f[k - 1], Sorted(s)[k])]
<1>1. n \in Nat /\ \A k \in 1 .. n : Sorted(s)[k] \in Object
  <2>1. PICK p \in [1 .. Len(s) -> 1 .. Len(s)] : \A k \in 1 .. Len(s) : Sorted(s)[k] = s[p[k]]
    BY SortedIsPermutation
  <2> QED
    BY <2>1, ObjectsTyped
<1>2. <<INFO>> \in Seq(Int)
  <2>1. INFO \in Int
    BY SMT DEF INFO
  <2> QED
    BY <2>1
<1>3. G \in [1 .. n -> [Seq(Int) -> Seq(Int)]]
  BY <1>1, PushTyped
<1>4. PICK f \in [0 .. n -> Seq(Int)] : f[0] = <<INFO>> /\ \A k \in 1 .. n : f[k] = G[k][f[k - 1]]
  <2> DEFINE X == Seq(Int)
             a == <<INFO>>
  <2>1. a \in X /\ G \in [1 .. n -> [X -> X]] /\ n \in Nat
    BY <1>1, <1>2, <1>3
  <2> HIDE DEF G, X, a, n
  <2>2. \E f \in [0 .. n -> X] : Iterates(f, a, n, G)
    BY <2>1, Recursion
  <2> QED
    BY <2>2 DEF X, a, Iterates
<1>5. ASSUME NEW g, g = Step(g) PROVE Passes(s, g)
  <2>1. DOMAIN g = 0 .. n /\ g[0] = <<INFO>>
    BY <1>1, <1>5
  <2>2. \A k \in 1 .. n : g[k] = PushObject(g[k - 1], Sorted(s)[k])
    BY <1>1, <1>5
  <2> DEFINE S == {k \in Nat : k <= n => g[k] \in Seq(Int)}
  <2>3. 0 \in S
    BY <1>2, <2>1
  <2>4. ASSUME NEW k \in Nat, k \in S PROVE k + 1 \in S
    <3> SUFFICES ASSUME k + 1 <= n PROVE g[k + 1] \in Seq(Int)
      OBVIOUS
    <3>1. k + 1 \in 1 .. n /\ (k + 1) - 1 = k /\ g[k] \in Seq(Int)
      BY <1>1, <2>4
    <3>2. g[k + 1] = PushObject(g[k], Sorted(s)[k + 1])
      BY <2>2, <3>1
    <3> QED
      BY <1>1, <3>1, <3>2, PushTyped
  <2>5. \A k \in 0 .. n : g[k] \in Seq(Int)
    <3>1. Nat \subseteq S
      <4> HIDE DEF S
      <4> QED
        BY <2>3, <2>4, NaturalSetInduction
    <3> QED
      BY <1>1, <3>1
  <2>6. g = [k \in 0 .. n |-> g[k]]
    BY <1>5, <2>1
  <2>7. g \in [0 .. n -> Seq(Int)]
    BY <2>5, <2>6
  <2> QED
    BY <2>1, <2>2, <2>7 DEF Passes
<1>6. f = Step(f)
  <2>1. \A k \in 1 .. n : f[k] = PushObject(f[k - 1], Sorted(s)[k])
    <3> SUFFICES ASSUME NEW k \in 1 .. n PROVE f[k] = PushObject(f[k - 1], Sorted(s)[k])
      OBVIOUS
    <3>1. k - 1 \in 0 .. n
      BY <1>1
    <3> QED
      BY <1>4, <3>1
  <2>2. \A k \in 0 .. n : f[k] = IF k = 0 THEN <<INFO>> ELSE PushObject(f[k - 1], Sorted(s)[k])
    <3> SUFFICES ASSUME NEW k \in 0 .. n
                 PROVE  f[k] = IF k = 0 THEN <<INFO>> ELSE PushObject(f[k - 1], Sorted(s)[k])
      OBVIOUS
    <3>1. CASE k = 0
      BY <1>4, <3>1
    <3>2. CASE k # 0
      <4>1. k \in 1 .. n
        BY <1>1, <3>2
      <4> QED
        BY <2>1, <3>2, <4>1
    <3> QED
      BY <3>1, <3>2
  <2>3. f = [k \in 0 .. n |-> f[k]]
    BY <1>4
  <2> QED
    BY <2>2, <2>3
<1> DEFINE Out == CHOOSE g : g = Step(g)
<1>7. Out = Step(Out)
  BY <1>6, Zenon
<1>8. build_bthome_payload(s) = Out[n]
  BY Zenon DEF build_bthome_payload
<1> HIDE DEF Out
<1> QED
  BY <1>5, <1>7, <1>8

-----------------------------------------------------------------------------
(***************************************************************************)
(* Broadcaster: the receiver, object by object.                            *)
(***************************************************************************)
Reading == [pos : Nat, got : Seq([id : Int, value : Int])]

LEMMA ReadTyped ==
  ASSUME NEW b \in Seq(Int), NEW at \in Reading, at.pos > 0
  PROVE  /\ ReadObject(b, at) \in Reading /\ ReadObject(b, at).pos > 0
<1>1. at.pos \in Nat /\ at.got \in Seq([id : Int, value : Int])
  BY DEF Reading
<1>2. CASE at.pos > Len(b)
  BY <1>2 DEF ReadObject
<1>3. CASE ~(at.pos > Len(b))
  <2> DEFINE id == b[at.pos]
  <2>1. CASE Size(id) = 0 \/ at.pos + Size(id) > Len(b)
    BY <1>3, <2>1 DEF ReadObject
  <2>2. CASE ~(Size(id) = 0 \/ at.pos + Size(id) > Len(b))
    <3>1. at.pos \in 1 .. Len(b) /\ Len(b) \in Nat
      BY <1>1, <1>3, LenProperties
    <3>2. id \in Int
      BY <3>1, ElementOfSeq
    <3>3. Size(id) \in {1, 2, 3}
      BY <2>2, SizeValues
    <3>4. \A j \in 1 .. Size(id) : b[at.pos + j] \in Int
      BY <2>2, <3>1, <3>3, ElementOfSeq
    <3> HIDE DEF id
    <3>5. ReadValue(b, id, at.pos + 1) \in Int
      <4> DEFINE pos == at.pos + 1
      <4>1. /\ pos = at.pos + 1 /\ Size(id) >= 2 => pos + 1 = at.pos + 2
            /\ Size(id) = 3 => pos + 2 = at.pos + 3
        BY <3>1, <3>3
      <4>2. b[pos] \in Int
        BY <3>3, <3>4
      <4>3. Size(id) >= 2 => b[pos + 1] \in Int
        BY <3>3, <3>4, <4>1
      <4>4. Size(id) = 3 => b[pos + 2] \in Int
        BY <3>3, <3>4, <4>1
      <4> HIDE DEF pos
      <4> DEFINE u == CASE Size(id) = 1 -> b[pos]
                        [] Size(id) = 2 -> b[pos] + 256 * b[pos + 1]
                        [] OTHER -> b[pos] + 256 * b[pos + 1] + 65536 * b[pos + 2]
      <4>5. u \in Int
        <5>1. CASE Size(id) = 1
          BY <4>2, <5>1
        <5>2. CASE Size(id) = 2
          <6>1. u = b[pos] + 256 * b[pos + 1]
            BY <5>2
          <6> QED
            BY <4>2, <4>3, <5>2, <6>1, SMT
        <5>3. CASE Size(id) = 3
          <6>1. u = b[pos] + 256 * b[pos + 1] + 65536 * b[pos + 2]
            BY <5>3
          <6> QED
            <7>1. \A x, y, z \in Int : x + 256 * y + 65536 * z \in Int
              BY SMT
            <7>2. b[pos] \in Int /\ b[pos + 1] \in Int /\ b[pos + 2] \in Int
              BY <4>2, <4>3, <4>4, <5>3
            <7> HIDE DEF u
            <7> QED
              BY <6>1, <7>1, <7>2
        <5> QED
          BY <3>3, <5>1, <5>2, <5>3
      <4>6. ReadValue(b, id, pos) = IF Signed(id) THEN Signed16(u) ELSE u
        BY SMT DEF ReadValue
      <4> HIDE DEF u
      <4> QED
        BY <4>5, <4>6, SMT DEF pos, Signed16
    <3>6. at.pos + 1 + Size(id) \in Nat /\ at.pos + 1 + Size(id) > 0
      BY <1>1, <3>3
    <3> DEFINE v == ReadValue(b, id, at.pos + 1)
    <3>7. ReadObject(b, at) = [pos |-> at.pos + 1 + Size(id),
                               got |-> Append(at.got, [id |-> id, value |-> v])]
      BY <1>3, <2>2 DEF ReadObject, id
    <3>8. v \in Int
      BY <3>5
    <3> HIDE DEF v
    <3>9. Append(at.got, [id |-> id, value |-> v]) \in Seq([id : Int, value : Int])
      BY <1>1, <3>2, <3>8
    <3> QED
      BY <3>6, <3>7, <3>9 DEF Reading
  <2> QED
    BY <2>1, <2>2
<1> QED
  BY <1>2, <1>3

\* The receiver of b after each of its steps.
ReadingOf(b, g) ==
  /\ g \in [0 .. Len(b) -> Reading]
  /\ g[0] = [pos |-> 2, got |-> <<>>]
  /\ \A k \in 1 .. Len(b) : g[k] = ReadObject(b, g[k - 1])

LEMMA DecodedRead ==
  ASSUME NEW b \in Seq(Int)
  PROVE  \E g : ReadingOf(b, g) /\ Decoded(b) = g[Len(b)].got
<1> DEFINE n == Len(b)
           X == {at \in Reading : at.pos > 0}
           a == [pos |-> 2, got |-> <<>>]
           G == [k \in 1 .. n |-> [at \in X |-> ReadObject(b, at)]]
           Step(g) == [k \in 0 .. n |-> IF k = 0 THEN a ELSE ReadObject(b, g[k - 1])]
<1>1. n \in Nat
  BY LenProperties
<1>2. a \in X
  <2>1. <<>> \in Seq([id : Int, value : Int])
    OBVIOUS
  <2> QED
    BY <2>1, SMT DEF Reading
<1>3. \A at \in X : ReadObject(b, at) \in X
  BY ReadTyped
<1> HIDE DEF X, a, n
<1>4. G \in [1 .. n -> [X -> X]]
  BY <1>3
<1>5. PICK f \in [0 .. n -> X] : f[0] = a /\ \A k \in 1 .. n : f[k] = G[k][f[k - 1]]
  <2>1. a \in X /\ G \in [1 .. n -> [X -> X]] /\ n \in Nat
    BY <1>1, <1>2, <1>4
  <2> HIDE DEF G, Step
  <2>2. \E f \in [0 .. n -> X] : Iterates(f, a, n, G)
    BY <2>1, Recursion
  <2> QED
    BY <2>2 DEF Iterates
<1>6. f = Step(f)
  <2>1. \A k \in 1 .. n : f[k] = ReadObject(b, f[k - 1])
    <3> SUFFICES ASSUME NEW k \in 1 .. n PROVE f[k] = ReadObject(b, f[k - 1])
      OBVIOUS
    <3>1. k - 1 \in 0 .. n
      BY <1>1
    <3> QED
      BY <1>5, <3>1
  <2>2. \A k \in 0 .. n : f[k] = IF k = 0 THEN a ELSE ReadObject(b, f[k - 1])
    BY <1>1, <1>5, <2>1
  <2>3. f = [k \in 0 .. n |-> f[k]]
    BY <1>5
  <2> QED
    BY <2>2, <2>3
<1> DEFINE At == CHOOSE g : g = Step(g)
<1>7. At = Step(At)
  BY <1>6, Zenon
<1>8. Decoded(b) = At[n].got
  BY Zenon DEF Decoded, a, n
<1> HIDE DEF At
<1>9. At[0] = a /\ \A k \in 1 .. n : At[k] = ReadObject(b, At[k - 1])
  BY <1>1, <1>7
<1>10. \A k \in 0 .. n : At[k] \in X
  <2> DEFINE S == {k \in Nat : k <= n => At[k] \in X}
  <2>1. 0 \in S
    BY <1>2, <1>9
  <2>2. ASSUME NEW k \in Nat, k \in S PROVE k + 1 \in S
    <3> SUFFICES ASSUME k + 1 <= n PROVE At[k + 1] \in X
      OBVIOUS
    <3>1. k + 1 \in 1 .. n /\ (k + 1) - 1 = k /\ At[k] \in X
      BY <1>1, <2>2
    <3> QED
      BY <1>3, <1>9, <3>1
  <2>3. Nat \subseteq S
    <3> HIDE DEF S
    <3> QED
      BY <2>1, <2>2, NaturalSetInduction
  <2> QED
    BY <1>1, <2>3
<1>11. At \in [0 .. n -> X]
  <2>1. At = [k \in 0 .. n |-> At[k]]
    BY <1>7
  <2> QED
    BY <1>10, <2>1
<1>12. At \in [0 .. n -> Reading]
  BY <1>11 DEF X
<1> QED
  BY <1>8, <1>9, <1>12 DEF ReadingOf, a, n

-----------------------------------------------------------------------------
(***************************************************************************)
(* Broadcaster: the value of an object, there and back.                    *)
(***************************************************************************)
LEMMA ClampNearest ==
  ASSUME NEW o \in Object, Known(o)
  PROVE  /\ Nearest(o, Clamp(o)) /\ Clamp(o) \in Int
         /\ Least(o) <= Clamp(o) /\ Clamp(o) <= Most(o)
<1>1. o.raw \in Int
  BY DEF Object
<1>2. Size(o.id) \in {1, 2, 3} /\ (Signed(o.id) => Size(o.id) = 2)
  BY SizeValues, SMT DEF Known
<1> DEFINE lo == IF Signed(o.id) THEN 0 - 128 * Weight[Size(o.id)] ELSE 0
           hi == IF Signed(o.id) THEN 128 * Weight[Size(o.id)] - 1 ELSE 256 * Weight[Size(o.id)] - 1
<1>3. Least(o) = lo /\ Most(o) = hi /\ lo \in Int /\ hi \in Int /\ lo <= hi
  <2>1. CASE Signed(o.id)
    <3>1. lo = 0 - 128 * Weight[2] /\ hi = 128 * Weight[2] - 1
      BY <1>2, <2>1
    <3>2. Least(o) = -32768 /\ Most(o) = 32767
      BY <2>1, SMT DEF Least, Most
    <3> HIDE DEF lo, hi
    <3> QED
      BY <3>1, <3>2, WeightValues, SMT
  <2>2. CASE ~Signed(o.id)
    <3>1. lo = 0 /\ hi = 256 * Weight[Size(o.id)] - 1
      BY <2>2
    <3>2. Least(o) = 0 /\ Most(o) = CASE Size(o.id) = 1 -> 255 [] Size(o.id) = 2 -> 65535 [] OTHER -> 16777215
      BY <2>2, SMT DEF Least, Most
    <3> HIDE DEF lo, hi
    <3>3. CASE Size(o.id) = 1
      BY <3>1, <3>2, <3>3, WeightValues, SMT
    <3>4. CASE Size(o.id) = 2
      BY <3>1, <3>2, <3>4, WeightValues, SMT
    <3>5. CASE Size(o.id) = 3
      BY <3>1, <3>2, <3>5, WeightValues, SMT
    <3> QED
      BY <1>2, <3>3, <3>4, <3>5
  <2> QED
    BY <2>1, <2>2
<1>4. Clamp(o) = IF o.raw < lo THEN lo ELSE IF o.raw > hi THEN hi ELSE o.raw
  BY DEF Clamp
<1> HIDE DEF lo, hi
<1> QED
  BY <1>1, <1>3, <1>4, SMT DEF Nearest

\* Two and three bytes of a number, put together again.
LEMMA TwoBytes ==
  ASSUME NEW n \in Int
  PROVE  /\ n >= 0 /\ n <= 65535 =>
              ((n \div 1) % 256) + 256 * ((n \div 256) % 256) = n
         /\ n >= -32768 /\ n < 0 =>
              ((n \div 1) % 256) + 256 * ((n \div 256) % 256) = n + 65536
  BY SMT

LEMMA ThreeBytes ==
  ASSUME NEW n \in Int, n >= 0, n <= 16777215
  PROVE  ((n \div 1) % 256) + 256 * ((n \div 256) % 256) + 65536 * ((n \div 65536) % 256) = n
  BY SMT

\* The receiver reads the value that clamp() made.
LEMMA ValueReadsBack ==
  ASSUME NEW o \in Object, Known(o), NEW b, NEW pos \in Nat,
         \A i \in 1 .. Size(o.id) : b[pos + i - 1] = LittleEndian(Clamp(o), Size(o.id))[i]
  PROVE  ReadValue(b, o.id, pos) = Clamp(o)
<1> DEFINE n == Clamp(o)
           z == Size(o.id)
<1>1. n \in Int /\ Least(o) <= n /\ n <= Most(o)
  BY ClampNearest
<1>2. z \in {1, 2, 3} /\ (Signed(o.id) => z = 2)
  BY SizeValues, SMT DEF Known
<1>3. \A i \in 1 .. z : b[pos + i - 1] = (n \div Weight[i]) % 256
  <2>1. \A i \in 1 .. z : LittleEndian(n, z)[i] = (n \div Weight[i]) % 256
    BY DEF LittleEndian
  <2> QED
    BY <2>1
<1> DEFINE x == (n \div 1) % 256
           y == (n \div 256) % 256
           w == (n \div 65536) % 256
           t == x + 256 * y
<1>4. b[pos] = x /\ (z >= 2 => b[pos + 1] = y) /\ (z = 3 => b[pos + 2] = w)
  <2>1. pos + 1 - 1 = pos /\ pos + 2 - 1 = pos + 1 /\ pos + 3 - 1 = pos + 2
    OBVIOUS
  <2>2. 1 \in 1 .. z /\ (z >= 2 => 2 \in 1 .. z) /\ (z = 3 => 3 \in 1 .. z)
    BY <1>2
  <2>3. b[pos] = (n \div Weight[1]) % 256
    BY <1>3, <2>1, <2>2
  <2>4. z >= 2 => b[pos + 1] = (n \div Weight[2]) % 256
    BY <1>3, <2>1, <2>2
  <2>5. z = 3 => b[pos + 2] = (n \div Weight[3]) % 256
    BY <1>3, <2>1, <2>2
  <2> QED
    BY <2>3, <2>4, <2>5, WeightValues
<1>5. /\ z = 1 => ReadValue(b, o.id, pos) = x
      /\ z = 2 => ReadValue(b, o.id, pos) =
           IF Signed(o.id) THEN Signed16(t) ELSE t
      /\ z = 3 => ReadValue(b, o.id, pos) = x + 256 * y + 65536 * w
  <2> DEFINE u == CASE Size(o.id) = 1 -> b[pos]
                    [] Size(o.id) = 2 -> b[pos] + 256 * b[pos + 1]
                    [] OTHER -> b[pos] + 256 * b[pos + 1] + 65536 * b[pos + 2]
  <2>1. ReadValue(b, o.id, pos) = IF Signed(o.id) THEN Signed16(u) ELSE u
    BY SMT DEF ReadValue
  <2>2. (z = 1 => u = b[pos]) /\ (z = 2 => u = b[pos] + 256 * b[pos + 1])
    OBVIOUS
  <2>3. z = 3 => u = b[pos] + 256 * b[pos + 1] + 65536 * b[pos + 2]
    OBVIOUS
  <2> HIDE DEF x, y, w, u, z
  <2>4. z = 1 => ReadValue(b, o.id, pos) = x
    BY <1>2, <1>4, <2>1, <2>2
  <2>5. z = 2 => u = t
    BY <1>4, <2>2
  <2>6. z = 3 => u = x + 256 * y + 65536 * w
    BY <1>4, <2>3
  <2>7. z = 3 => ReadValue(b, o.id, pos) = u
    BY <1>2, <2>1
  <2> HIDE DEF t
  <2>8. z = 2 => ReadValue(b, o.id, pos) = IF Signed(o.id) THEN Signed16(t) ELSE t
    BY <2>1, <2>5
  <2> QED
    BY <2>4, <2>6, <2>7, <2>8
<1>6. CASE z = 1
  <2>1. n >= 0 /\ n <= 255
    BY <1>1, <1>2, <1>6, SMT DEF Least, Most
  <2>2. x = n
    BY <1>1, <2>1, SMT
  <2> QED
    BY <1>5, <1>6, <2>2
<1>7. CASE z = 2 /\ ~Signed(o.id)
  <2>1. n >= 0 /\ n <= 65535
    BY <1>1, <1>7, SMT DEF Least, Most
  <2>2. x + 256 * y = n
    BY <1>1, <2>1, TwoBytes
  <2> QED
    BY <1>5, <1>7, <2>2
<1>8. CASE z = 2 /\ Signed(o.id)
  <2>1. n >= -32768 /\ n <= 32767
    BY <1>1, <1>8, SMT DEF Least, Most
  <2>2. n >= 0 => x + 256 * y = n
    BY <1>1, <2>1, TwoBytes, SMT
  <2>3. n < 0 => x + 256 * y = n + 65536
    BY <1>1, <2>1, TwoBytes, SMT
  <2> HIDE DEF t
  <2>4. ReadValue(b, o.id, pos) = Signed16(t)
    BY <1>5, <1>8
  <2>5. n >= 0 => t = n
    BY <2>2 DEF t
  <2>6. n < 0 => t = n + 65536
    BY <2>3 DEF t
  <2> HIDE DEF n
  <2>7. Signed16(t) = n
    BY <1>1, <2>1, <2>5, <2>6, SMT DEF Signed16
  <2> QED
    BY <2>4, <2>7 DEF n
<1>9. CASE z = 3
  <2>1. n >= 0 /\ n <= 16777215
    BY <1>1, <1>2, <1>9, SMT DEF Least, Most
  <2>2. x + 256 * y + 65536 * w = n
    BY <1>1, <2>1, ThreeBytes
  <2> QED
    BY <1>5, <1>9, <2>2
<1> QED
  BY <1>2, <1>6, <1>7, <1>8, <1>9

-----------------------------------------------------------------------------
(***************************************************************************)
(* Broadcaster: the receiver keeps step with the encoder.                  *)
(***************************************************************************)
\* The bytes of one object, behind those that were there.
LEMMA PushBytes ==
  ASSUME NEW out \in Seq(Int), NEW o \in Object, Known(o)
  PROVE  LET e == PushObject(out, o) IN
         /\ e \in Seq(Int) /\ Len(e) = Len(out) + 1 + Size(o.id)
         /\ \A i \in 1 .. Len(out) : e[i] = out[i]
         /\ e[Len(out) + 1] = o.id
         /\ \A i \in 1 .. Size(o.id) : e[Len(out) + 1 + i] = LittleEndian(Clamp(o), Size(o.id))[i]
<1> DEFINE l == LittleEndian(Clamp(o), Size(o.id))
           h == <<o.id>>
           a == out \o h
           e == a \o l
<1>1. Size(o.id) \in {1, 2, 3}
  BY SizeValues, SMT DEF Known
<1>2. l \in Seq(Int) /\ Len(l) = Size(o.id)
  <2>1. Size(o.id) \in {0, 1, 2, 3} /\ Clamp(o) \in Int
    BY <1>1, ClampTyped
  <2> QED
    <3> DEFINE v == Clamp(o)
               z == Size(o.id)
    <3>1. v \in Int /\ z \in {0, 1, 2, 3}
      BY <2>1
    <3> HIDE DEF v, z
    <3>2. LittleEndian(v, z) \in Seq(Int) /\ Len(LittleEndian(v, z)) = z
      BY <3>1, LittleEndianTyped, ZenonT(60)
    <3> QED
      BY <3>2 DEF v, z
<1>3. h \in Seq(Int) /\ Len(h) = 1 /\ h[1] = o.id
  <2>1. o.id \in Int
    <3>1. uint8 \subseteq Int
      BY SMT DEF uint8
    <3> QED
      BY <3>1 DEF Object
  <2> QED
    BY <2>1
<1>4. PushObject(out, o) = e
  BY DEF PushObject
<1> HIDE DEF l, h
<1>5. /\ a \in Seq(Int) /\ Len(a) = Len(out) + 1
      /\ \A i \in 1 .. Len(out) + 1 : a[i] = IF i <= Len(out) THEN out[i] ELSE h[i - Len(out)]
  <2>1. /\ a \in Seq(Int) /\ Len(a) = Len(out) + Len(h)
        /\ \A i \in 1 .. Len(out) + Len(h) : a[i] = IF i <= Len(out) THEN out[i] ELSE h[i - Len(out)]
    BY <1>3, ConcatProperties
  <2> HIDE DEF a
  <2> QED
    BY <1>3, <2>1
<1> HIDE DEF a
<1>6. /\ e \in Seq(Int) /\ Len(e) = Len(a) + Size(o.id)
      /\ \A i \in 1 .. Len(a) + Size(o.id) : e[i] = IF i <= Len(a) THEN a[i] ELSE l[i - Len(a)]
  <2>1. /\ e \in Seq(Int) /\ Len(e) = Len(a) + Len(l)
        /\ \A i \in 1 .. Len(a) + Len(l) : e[i] = IF i <= Len(a) THEN a[i] ELSE l[i - Len(a)]
    BY <1>2, <1>5, ConcatProperties
  <2> HIDE DEF e
  <2> QED
    BY <1>2, <2>1
<1> HIDE DEF e
<1> DEFINE m == Len(out)
<1>7. m \in Nat /\ Len(a) = m + 1 /\ Len(e) = m + 1 + Size(o.id)
  BY <1>1, <1>5, <1>6, LenProperties
<1>8. ASSUME NEW i \in 1 .. m PROVE e[i] = out[i]
  <2>1. i \in 1 .. Len(a) + Size(o.id) /\ i <= Len(a) /\ i \in 1 .. m + 1 /\ i <= m
    BY <1>1, <1>7
  <2>2. e[i] = a[i]
    BY <1>6, <2>1
  <2> QED
    BY <1>5, <2>1, <2>2
<1>9. e[m + 1] = o.id
  <2>1. m + 1 \in 1 .. Len(a) + Size(o.id) /\ m + 1 <= Len(a) /\ m + 1 \in 1 .. m + 1 /\ ~(m + 1 <= m)
        /\ m + 1 - m = 1
    BY <1>1, <1>7
  <2>2. e[m + 1] = a[m + 1]
    BY <1>6, <2>1
  <2>3. a[m + 1] = h[m + 1 - m]
    BY <1>5, <2>1
  <2> QED
    BY <1>3, <2>1, <2>2, <2>3
<1>10. ASSUME NEW i \in 1 .. Size(o.id) PROVE e[Len(out) + 1 + i] = l[i]
  <2>1. /\ m + 1 + i \in 1 .. Len(a) + Size(o.id) /\ ~(m + 1 + i <= Len(a))
        /\ m + 1 + i - Len(a) = i
    BY <1>1, <1>7
  <2> QED
    BY <1>6, <2>1
<1> QED
  BY <1>4, <1>6, <1>7, <1>8, <1>9, <1>10 DEF l

\* b goes on from e.
Extends(b, e) == Len(e) <= Len(b) /\ \A i \in 1 .. Len(e) : b[i] = e[i]

\* At the start of an object the receiver takes the whole of it.
LEMMA ReadsPushed ==
  ASSUME NEW out \in Seq(Int), NEW o \in Object, Known(o), NEW b \in Seq(Int),
         Extends(b, PushObject(out, o)), NEW at \in Reading, at.pos = Len(out) + 1
  PROVE  ReadObject(b, at)
           = [pos |-> Len(PushObject(out, o)) + 1,
              got |-> Append(at.got, [id |-> o.id, value |-> Clamp(o)])]
<1> DEFINE e == PushObject(out, o)
           z == Size(o.id)
<1>1. z \in {1, 2, 3}
  BY SizeValues, SMT DEF Known
<1>2. /\ e \in Seq(Int) /\ Len(e) = Len(out) + 1 + z
      /\ e[Len(out) + 1] = o.id
      /\ \A i \in 1 .. z : e[Len(out) + 1 + i] = LittleEndian(Clamp(o), z)[i]
  BY PushBytes
<1>3. Extends(b, e)
  OBVIOUS
<1> HIDE DEF e, z
<1>4. Len(out) \in Nat /\ Len(b) \in Nat
  BY LenProperties
<1>5. b[at.pos] = o.id /\ ~(at.pos > Len(b)) /\ ~(at.pos + z > Len(b))
  <2>1. at.pos \in 1 .. Len(e) /\ at.pos + z = Len(e) /\ Len(e) \in Nat
    BY <1>1, <1>2, <1>4
  <2>2. Len(e) <= Len(b) /\ b[at.pos] = e[at.pos]
    BY <1>3, <2>1 DEF Extends
  <2> QED
    BY <1>2, <1>4, <2>1, <2>2
<1>6. at.pos + 1 \in Nat
  BY <1>4
<1>7. ASSUME NEW i \in 1 .. z PROVE b[(at.pos + 1) + i - 1] = LittleEndian(Clamp(o), z)[i]
  <2>1. (at.pos + 1) + i - 1 = Len(out) + 1 + i /\ Len(out) + 1 + i \in 1 .. Len(e)
    BY <1>1, <1>2, <1>4, SMTT(30)
  <2> QED
    BY <1>2, <1>3, <2>1 DEF Extends
<1>8. ReadValue(b, o.id, at.pos + 1) = Clamp(o)
  BY <1>6, <1>7, ValueReadsBack DEF z
<1>9. ReadObject(b, at) = [pos |-> at.pos + 1 + z,
                           got |-> Append(at.got, [id |-> o.id, value |-> Clamp(o)])]
  <2>1. ~(z = 0)
    BY <1>1
  <2> QED
    BY <1>5, <1>8, <2>1 DEF ReadObject, z
<1>10. at.pos + 1 + z = Len(e) + 1
  BY <1>1, <1>2, <1>4
<1> QED
  BY <1>9, <1>10 DEF e

\* What the loop has built, it keeps.
LEMMA PassesExtend ==
  ASSUME NEW s \in Seq(Object), NEW f, Passes(s, f), NEW k \in 0 .. Len(s)
  PROVE  Extends(f[Len(s)], f[k])
<1> DEFINE n == Len(s)
           S == {m \in Nat : k + m <= n => Extends(f[k + m], f[k])}
<1>1. n \in Nat /\ \A m \in 1 .. n : Sorted(s)[m] \in Object
  <2>1. PICK p \in [1 .. Len(s) -> 1 .. Len(s)] : \A m \in 1 .. Len(s) : Sorted(s)[m] = s[p[m]]
    BY SortedIsPermutation
  <2> QED
    BY <2>1, ObjectsTyped
<1>2. /\ \A m \in 0 .. n : f[m] \in Seq(Int) /\ Len(f[m]) \in Nat
      /\ \A m \in 1 .. n : f[m] = PushObject(f[m - 1], Sorted(s)[m])
  BY LenProperties DEF Passes
<1> HIDE DEF n
<1>3. 0 \in S
  <2>1. k + 0 = k /\ k \in 0 .. n
    BY <1>1 DEF n
  <2> QED
    BY <1>2, <2>1 DEF Extends
<1>4. ASSUME NEW m \in Nat, m \in S PROVE m + 1 \in S
  <2> SUFFICES ASSUME k + (m + 1) <= n PROVE Extends(f[k + (m + 1)], f[k])
    OBVIOUS
  <2> DEFINE j == k + m
  <2>1. k \in 0 .. n /\ j \in 0 .. n /\ j + 1 \in 1 .. n /\ j + 1 \in 0 .. n /\ k + (m + 1) = j + 1 /\ (j + 1) - 1 = j
    BY <1>1 DEF n
  <2>2. Extends(f[j], f[k])
    BY <1>4, <2>1
  <2> HIDE DEF j
  <2>3. f[j + 1] = PushObject(f[j], Sorted(s)[j + 1]) /\ Sorted(s)[j + 1] \in Object
    BY <1>1, <1>2, <2>1
  <2>4. Extends(f[j + 1], f[j])
    <3>1. CASE Known(Sorted(s)[j + 1])
      <4>1. Size(Sorted(s)[j + 1].id) \in Nat
        BY SizeValues
      <4>2. /\ Len(f[j + 1]) = Len(f[j]) + 1 + Size(Sorted(s)[j + 1].id)
            /\ \A i \in 1 .. Len(f[j]) : f[j + 1][i] = f[j][i]
        <5> DEFINE o == Sorted(s)[j + 1]
                   out == f[j]
        <5>1. o \in Object /\ Known(o) /\ out \in Seq(Int) /\ f[j + 1] = PushObject(out, o)
          BY <1>2, <2>1, <2>3, <3>1
        <5> HIDE DEF o, out
        <5>2. /\ Len(PushObject(out, o)) = Len(out) + 1 + Size(o.id)
              /\ \A i \in 1 .. Len(out) : PushObject(out, o)[i] = out[i]
          BY <5>1, PushBytes
        <5> QED
          BY <5>1, <5>2 DEF o, out
      <4>3. Len(f[j]) \in Nat
        BY <1>2, <2>1
      <4>4. Len(f[j]) <= Len(f[j + 1])
        BY <4>1, <4>2, <4>3
      <4> QED
        BY <4>2, <4>4 DEF Extends
    <3>2. CASE ~Known(Sorted(s)[j + 1])
      <4>1. f[j + 1] = f[j]
        BY <2>3, <3>2 DEF PushObject
      <4> QED
        BY <1>2, <2>1, <4>1 DEF Extends
    <3> QED
      BY <3>1, <3>2
  <2>5. Extends(f[j + 1], f[k])
    BY <1>2, <2>1, <2>2, <2>4, SMTT(30) DEF Extends
  <2> QED
    BY <2>1, <2>5
<1>5. n - k \in Nat /\ k + (n - k) = n
  BY <1>1 DEF n
<1>6. n - k \in S
  <2> HIDE DEF S
  <2> QED
    BY <1>3, <1>4, <1>5, NaturalSetInduction
<1> QED
  BY <1>1, <1>5, <1>6 DEF n

\* After m steps the receiver g is past the first k passes f of the encoder, and
\* of names, for each object it got, the pass that wrote it.
InStep(s, f, g, k, m, of) ==
  /\ m \in 0 .. Len(f[k]) - 1 /\ of \in [1 .. m -> 1 .. k]
  /\ g[m].pos = Len(f[k]) + 1 /\ Len(g[m].got) = m
  /\ \A j \in 1 .. m : /\ Known(Sorted(s)[of[j]])
                      /\ g[m].got[j] = [id |-> Sorted(s)[of[j]].id, value |-> Clamp(Sorted(s)[of[j]])]
  /\ \A i \in 1 .. k : Known(Sorted(s)[i]) => \E j \in 1 .. m : of[j] = i
  /\ \A i, j \in 1 .. m : i < j => of[i] < of[j]

LEMMA KeepsStep ==
  ASSUME NEW s \in Seq(Object), NEW f, Passes(s, f), NEW g, ReadingOf(f[Len(s)], g),
         NEW k \in Nat, k + 1 <= Len(s), NEW m, NEW of, InStep(s, f, g, k, m, of)
  PROVE  \E m2, of2 : InStep(s, f, g, k + 1, m2, of2)
<1> DEFINE b == f[Len(s)]
           o == Sorted(s)[k + 1]
<1>1. Len(s) \in Nat /\ o \in Object
  <2>1. PICK p \in [1 .. Len(s) -> 1 .. Len(s)] : \A i \in 1 .. Len(s) : Sorted(s)[i] = s[p[i]]
    BY SortedIsPermutation
  <2>2. Len(s) \in Nat /\ k + 1 \in 1 .. Len(s)
    BY LenProperties
  <2> QED
    BY <2>1, <2>2, ObjectsTyped
<1>2. k \in 0 .. Len(s) /\ k + 1 \in 0 .. Len(s) /\ k + 1 \in 1 .. Len(s) /\ (k + 1) - 1 = k
  BY <1>1
<1>3. /\ f[k] \in Seq(Int) /\ f[k + 1] \in Seq(Int) /\ f[k + 1] = PushObject(f[k], o)
      /\ b \in Seq(Int) /\ Len(b) \in Nat /\ Len(f[k]) \in Nat /\ Len(f[k + 1]) \in Nat
  <2>1. f[k] \in Seq(Int) /\ f[k + 1] \in Seq(Int) /\ b \in Seq(Int)
    <3>1. Len(s) \in 0 .. Len(s) /\ f \in [0 .. Len(s) -> Seq(Int)]
      BY <1>1 DEF Passes
    <3> QED
      BY <1>2, <3>1
  <2>2. f[k + 1] = PushObject(f[k], o)
    BY <1>2 DEF Passes
  <2> QED
    BY <2>1, <2>2, LenProperties
<1>4. Extends(b, f[k + 1])
  BY <1>2, PassesExtend
<1>5. /\ m \in 0 .. Len(f[k]) - 1 /\ of \in [1 .. m -> 1 .. k]
      /\ g[m].pos = Len(f[k]) + 1 /\ Len(g[m].got) = m
      /\ \A j \in 1 .. m :
           /\ Known(Sorted(s)[of[j]])
           /\ g[m].got[j] = [id |-> Sorted(s)[of[j]].id, value |-> Clamp(Sorted(s)[of[j]])]
      /\ \A i \in 1 .. k : Known(Sorted(s)[i]) => \E j \in 1 .. m : of[j] = i
      /\ \A i, j \in 1 .. m : i < j => of[i] < of[j]
  BY DEF InStep
<1>6. \A i \in 1 .. k + 1 : i \in 1 .. k \/ i = k + 1
  OBVIOUS
<1>7. CASE ~Known(o)
  <2>1. f[k + 1] = f[k]
    BY <1>3, <1>7 DEF PushObject
  <2>2. of \in [1 .. m -> 1 .. k + 1]
    BY <1>5
  <2>3. \A i \in 1 .. k + 1 : Known(Sorted(s)[i]) => \E j \in 1 .. m : of[j] = i
    BY <1>5, <1>6, <1>7
  <2>4. InStep(s, f, g, k + 1, m, of)
    BY <1>5, <2>1, <2>2, <2>3 DEF InStep
  <2> QED
    BY <2>4
<1>8. CASE Known(o)
  <2> DEFINE of2 == [j \in 1 .. m + 1 |-> IF j = m + 1 THEN k + 1 ELSE of[j]]
             x == [id |-> o.id, value |-> Clamp(o)]
  <2>1. Len(f[k + 1]) = Len(f[k]) + 1 + Size(o.id) /\ Size(o.id) \in {1, 2, 3}
    <3>1. Size(o.id) \in {1, 2, 3}
      BY <1>8, SizeValues, SMT DEF Known
    <3> DEFINE out == f[k]
    <3> HIDE DEF o, out
    <3>2. Len(PushObject(out, o)) = Len(out) + 1 + Size(o.id)
      BY <1>1, <1>3, <1>8, PushBytes DEF out
    <3> QED
      BY <1>3, <3>1, <3>2 DEF out
  <2>2. m \in Nat /\ m + 1 \in 0 .. Len(f[k + 1]) - 1 /\ m + 1 \in 1 .. Len(b) /\ m \in 0 .. Len(b)
    <3>1. Len(f[k + 1]) <= Len(b)
      BY <1>4 DEF Extends
    <3> DEFINE p == Len(f[k])
               q == Len(f[k + 1])
               r == Len(b)
    <3>2. /\ p \in Nat /\ q \in Nat /\ r \in Nat /\ m \in 0 .. p - 1 /\ q <= r
          /\ q = p + 1 + Size(o.id) /\ Size(o.id) \in {1, 2, 3}
      BY <1>3, <1>5, <2>1, <3>1
    <3> HIDE DEF p, q, r
    <3>3. m \in Nat /\ m + 1 \in 0 .. q - 1 /\ m + 1 \in 1 .. r /\ m \in 0 .. r
      BY <3>2
    <3> QED
      BY <3>3 DEF q, r
  <2>3. g[m] \in Reading /\ g[m + 1] = ReadObject(b, g[m])
    <3>1. (m + 1) - 1 = m
      BY <2>2
    <3> QED
      BY <2>2, <3>1 DEF ReadingOf
  <2>4. g[m + 1] = [pos |-> Len(f[k + 1]) + 1, got |-> Append(g[m].got, x)]
    <3> DEFINE out == f[k]
               at == g[m]
    <3>1. /\ out \in Seq(Int) /\ f[k + 1] = PushObject(out, o) /\ at \in Reading
          /\ at.pos = Len(out) + 1 /\ g[m + 1] = ReadObject(b, at) /\ b \in Seq(Int)
          /\ Extends(b, PushObject(out, o))
      BY <1>3, <1>4, <1>5, <2>3
    <3> HIDE DEF out, at, b, o
    <3>2. ReadObject(b, at) = [pos |-> Len(PushObject(out, o)) + 1,
                               got |-> Append(at.got, [id |-> o.id, value |-> Clamp(o)])]
      BY <1>1, <1>8, <3>1, ReadsPushed
    <3> QED
      BY <3>1, <3>2 DEF at
  <2>5. /\ g[m + 1].pos = Len(f[k + 1]) + 1 /\ g[m + 1].got = Append(g[m].got, x)
        /\ g[m].got \in Seq([id : Int, value : Int])
    BY <2>3, <2>4 DEF Reading
  <2> HIDE DEF x, o
  <2>6. /\ Len(g[m + 1].got) = m + 1 /\ g[m + 1].got[m + 1] = x
        /\ \A j \in 1 .. m : g[m + 1].got[j] = g[m].got[j]
    <3> DEFINE t == g[m].got
    <3>1. t \in Seq([id : Int, value : Int]) /\ Len(t) = m /\ g[m + 1].got = Append(t, x)
      BY <1>5, <2>5
    <3>2. x \in [id : Int, value : Int]
      <4>1. uint8 \subseteq Int
        BY SMT DEF uint8
      <4> QED
        BY <1>1, <1>8, <4>1, ClampTyped DEF Object, x
    <3> HIDE DEF t
    <3>3. /\ Len(Append(t, x)) = Len(t) + 1 /\ Append(t, x)[Len(t) + 1] = x
          /\ \A j \in 1 .. Len(t) : Append(t, x)[j] = t[j]
      BY <3>1, <3>2, AppendProperties
    <3> QED
      BY <3>1, <3>3 DEF t
  <2>7. of2[m + 1] = k + 1 /\ \A j \in 1 .. m : of2[j] = of[j]
    BY <2>2
  <2>8. of2 \in [1 .. m + 1 -> 1 .. k + 1]
    <3>1. \A j \in 1 .. m + 1 : (IF j = m + 1 THEN k + 1 ELSE of[j]) \in 1 .. k + 1
      <4>1. m \in Nat /\ k + 1 \in 1 .. k + 1 /\ k \in Nat
        BY <1>5, <2>2, SMTT(30)
      <4>2. \A j \in 1 .. m : of[j] \in 1 .. k + 1
        <5>1. \A j \in 1 .. m : of[j] \in 1 .. k
          BY <1>5
        <5> QED
          BY <4>1, <5>1, SMTT(30)
      <4>3. \A j \in 1 .. m + 1 : j = m + 1 \/ j \in 1 .. m
        BY <4>1, SMTT(30)
      <4> QED
        BY <4>1, <4>2, <4>3
    <3> QED
      BY <3>1
  <2> HIDE DEF of2
  <2>9. \A j \in 1 .. m + 1 : j \in 1 .. m \/ j = m + 1
    BY <2>2
  <2>10. ASSUME NEW j \in 1 .. m + 1
         PROVE  /\ Known(Sorted(s)[of2[j]])
                /\ g[m + 1].got[j] = [id |-> Sorted(s)[of2[j]].id, value |-> Clamp(Sorted(s)[of2[j]])]
    <3>1. CASE j = m + 1
      BY <1>8, <2>6, <2>7, <3>1 DEF x, o
    <3>2. CASE j \in 1 .. m
      BY <1>5, <2>6, <2>7, <3>2
    <3> QED
      BY <2>9, <3>1, <3>2
  <2>11. \A i \in 1 .. k + 1 : Known(Sorted(s)[i]) => \E j \in 1 .. m + 1 : of2[j] = i
    <3> SUFFICES ASSUME NEW i \in 1 .. k + 1, Known(Sorted(s)[i]) PROVE \E j \in 1 .. m + 1 : of2[j] = i
      OBVIOUS
    <3>1. CASE i = k + 1
      BY <2>2, <2>7, <3>1
    <3>2. CASE i \in 1 .. k
      <4>1. PICK j \in 1 .. m : of[j] = i
        BY <1>5, <3>2
      <4>2. j \in 1 .. m + 1 /\ of2[j] = i
        BY <2>2, <2>7, <4>1
      <4> QED
        BY <4>2
    <3> QED
      BY <1>6, <3>1, <3>2
  <2>12. ASSUME NEW i \in 1 .. m + 1, NEW j \in 1 .. m + 1, i < j PROVE of2[i] < of2[j]
    <3>1. i \in 1 .. m /\ of2[i] = of[i] /\ of[i] \in 1 .. k
      <4>1. i \in 1 .. m
        BY <2>2, <2>12
      <4> QED
        BY <1>5, <2>7, <4>1
    <3>2. CASE j = m + 1
      BY <2>7, <3>1, <3>2
    <3>3. CASE j \in 1 .. m
      BY <1>5, <2>7, <2>12, <3>1, <3>3
    <3> QED
      BY <2>9, <3>2, <3>3
  <2>13. InStep(s, f, g, k + 1, m + 1, of2)
    BY <2>2, <2>5, <2>6, <2>8, <2>10, <2>11, <2>12 DEF InStep
  <2> QED
    BY <2>13
<1> QED
  BY <1>7, <1>8

LEMMA StaysInStep ==
  ASSUME NEW s \in Seq(Object), NEW f, Passes(s, f), NEW g, ReadingOf(f[Len(s)], g)
  PROVE  \E m, of : InStep(s, f, g, Len(s), m, of)
<1> DEFINE S == {k \in Nat : k <= Len(s) => \E m, of : InStep(s, f, g, k, m, of)}
<1>1. 0 \in S
  <2> DEFINE of == [j \in 1 .. 0 |-> 1]
  <2>1. of \in [1 .. 0 -> 1 .. 0]
    OBVIOUS
  <2> HIDE DEF of
  <2>2. f[0] = <<INFO>> /\ Len(f[0]) = 1
    BY DEF Passes
  <2>3. g[0].pos = 2 /\ g[0].got = <<>>
    BY DEF ReadingOf
  <2>4. InStep(s, f, g, 0, 0, of)
    BY <2>1, <2>2, <2>3 DEF InStep
  <2> QED
    BY <2>4
<1>2. ASSUME NEW k \in Nat, k \in S PROVE k + 1 \in S
  <2> SUFFICES ASSUME k + 1 <= Len(s) PROVE \E m, of : InStep(s, f, g, k + 1, m, of)
    OBVIOUS
  <2>1. k <= Len(s)
    BY LenProperties
  <2>2. PICK m, of : InStep(s, f, g, k, m, of)
    BY <1>2, <2>1
  <2> QED
    BY <2>2, KeepsStep
<1>3. Len(s) \in S
  <2>1. Len(s) \in Nat
    BY LenProperties
  <2> HIDE DEF S
  <2> QED
    BY <1>1, <1>2, <2>1, NaturalSetInduction
<1>4. Len(s) \in Nat
  BY LenProperties
<1> QED
  BY <1>3, <1>4

\* Past the last byte the receiver rests.
LEMMA ReadingRests ==
  ASSUME NEW b \in Seq(Int), NEW g, ReadingOf(b, g), NEW m \in 0 .. Len(b), g[m].pos > Len(b)
  PROVE  g[Len(b)] = g[m]
<1> DEFINE S == {k \in Nat : m + k <= Len(b) => g[m + k] = g[m]}
<1>1. Len(b) \in Nat
  BY LenProperties
<1>2. 0 \in S
  OBVIOUS
<1>3. ASSUME NEW k \in Nat, k \in S PROVE k + 1 \in S
  <2> SUFFICES ASSUME m + (k + 1) <= Len(b) PROVE g[m + (k + 1)] = g[m]
    OBVIOUS
  <2>1. m + (k + 1) \in 1 .. Len(b) /\ (m + (k + 1)) - 1 = m + k /\ m + k <= Len(b)
    BY <1>1
  <2>2. g[m + (k + 1)] = ReadObject(b, g[m + k]) /\ g[m + k] = g[m]
    BY <1>3, <2>1 DEF ReadingOf
  <2> QED
    BY <2>2 DEF ReadObject
<1>4. Len(b) - m \in Nat /\ m + (Len(b) - m) = Len(b)
  BY <1>1
<1>5. Len(b) - m \in S
  <2> HIDE DEF S
  <2> QED
    BY <1>2, <1>3, <1>4, NaturalSetInduction
<1> QED
  BY <1>1, <1>4, <1>5

LEMMA BthomeReadsBack ==
  ASSUME NEW s \in Seq(Object)
  PROVE  ReadsAs(Decoded(build_bthome_payload(s)), s)
<1> DEFINE n == Len(s)
           b == build_bthome_payload(s)
           known == {i \in DOMAIN s : Known(s[i])}
<1>1. n \in Nat /\ DOMAIN s = 1 .. n /\ \A i \in 1 .. n : s[i] \in Object /\ s[i].id \in Int
  BY ObjectsTyped
<1>2. PICK f : Passes(s, f) /\ b = f[n]
  BY PayloadBuilt
<1>3. b \in Seq(Int) /\ Len(b) \in Nat
  <2>1. f \in [0 .. n -> Seq(Int)] /\ n \in 0 .. n
    BY <1>1, <1>2 DEF Passes
  <2> HIDE DEF b, n
  <2>2. b \in Seq(Int)
    BY <1>2, <2>1
  <2> QED
    BY <2>2, LenProperties
<1> HIDE DEF b
<1>4. PICK g : ReadingOf(b, g) /\ Decoded(b) = g[Len(b)].got
  BY <1>3, DecodedRead
<1>5. PICK m, of : InStep(s, f, g, n, m, of)
  BY <1>2, <1>4, StaysInStep
<1> DEFINE got == g[m].got
<1>6. /\ m \in 0 .. Len(b) - 1 /\ of \in [1 .. m -> 1 .. n]
      /\ g[m].pos = Len(b) + 1 /\ Len(got) = m
      /\ \A j \in 1 .. m : /\ Known(Sorted(s)[of[j]])
                          /\ got[j] = [id |-> Sorted(s)[of[j]].id, value |-> Clamp(Sorted(s)[of[j]])]
      /\ \A i \in 1 .. n : Known(Sorted(s)[i]) => \E j \in 1 .. m : of[j] = i
      /\ \A i, j \in 1 .. m : i < j => of[i] < of[j]
  BY <1>2, <1>5 DEF InStep
<1>7. m \in 0 .. Len(b) /\ g[m].pos > Len(b)
  BY <1>3, <1>6
<1>8. Decoded(b) = got /\ DOMAIN got = 1 .. m
  <2>1. g[Len(b)] = g[m]
    BY <1>3, <1>4, <1>7, ReadingRests
  <2>2. got \in Seq([id : Int, value : Int])
    BY <1>4, <1>7 DEF ReadingOf, Reading
  <2> QED
    BY <1>4, <1>6, <2>1, <2>2, LenProperties
<1> HIDE DEF got
<1>9. PICK p \in [1 .. n -> 1 .. n] :
        /\ \A i \in 1 .. n : \E k \in 1 .. n : p[k] = i
        /\ \A j, k \in 1 .. n : j < k => Precedes(s, p[j], p[k]) /\ p[j] # p[k]
        /\ \A k \in 1 .. n : Sorted(s)[k] = s[p[k]]
  BY SortedIsPermutation
<1> DEFINE from == [j \in 1 .. m |-> p[of[j]]]
<1>10. \A j \in 1 .. m : of[j] \in 1 .. n /\ p[of[j]] \in 1 .. n /\ Sorted(s)[of[j]] = s[p[of[j]]]
  BY <1>6, <1>9
<1>11. from \in [DOMAIN got -> known]
  BY <1>1, <1>6, <1>8, <1>10
<1>12. \A j \in 1 .. m : from[j] = p[of[j]]
  OBVIOUS
<1> HIDE DEF from
<1>13. \A i \in known : \E k \in DOMAIN got : from[k] = i
  <2> SUFFICES ASSUME NEW i \in known PROVE \E k \in DOMAIN got : from[k] = i
    OBVIOUS
  <2>1. PICK k \in 1 .. n : p[k] = i
    BY <1>1, <1>9
  <2>2. PICK j \in 1 .. m : of[j] = k
    BY <1>6, <1>9, <2>1
  <2> QED
    BY <1>8, <1>12, <2>1, <2>2
<1>14. ASSUME NEW k \in 1 .. m PROVE got[k].id = s[from[k]].id /\ Nearest(s[from[k]], got[k].value)
  <2>1. /\ Known(s[from[k]]) /\ s[from[k]] \in Object
        /\ got[k] = [id |-> s[from[k]].id, value |-> Clamp(s[from[k]])]
    <3>1. from[k] = p[of[k]] /\ from[k] \in 1 .. n /\ Sorted(s)[of[k]] = s[from[k]]
      BY <1>10, <1>12
    <3>2. /\ Known(Sorted(s)[of[k]])
          /\ got[k] = [id |-> Sorted(s)[of[k]].id, value |-> Clamp(Sorted(s)[of[k]])]
      BY <1>6
    <3>3. s[from[k]] \in Object
      BY <1>1, <3>1
    <3> QED
      BY <3>1, <3>2, <3>3
  <2> QED
    BY <2>1, ClampNearest
<1>15. ASSUME NEW j \in 1 .. m, NEW k \in 1 .. m, j < k
       PROVE  got[j].id < got[k].id \/ (got[j].id = got[k].id /\ from[j] < from[k])
  <2>1. of[j] < of[k]
    BY <1>6, <1>15
  <2>2. Precedes(s, from[j], from[k]) /\ from[j] # from[k] /\ from[j] \in 1 .. n /\ from[k] \in 1 .. n
    <3>1. of[j] \in 1 .. n /\ of[k] \in 1 .. n
      BY <1>10
    <3>2. Precedes(s, p[of[j]], p[of[k]]) /\ p[of[j]] # p[of[k]]
      BY <1>9, <2>1, <3>1
    <3> QED
      BY <1>10, <1>12, <3>2
  <2>3. got[j].id = s[from[j]].id /\ got[k].id = s[from[k]].id
    BY <1>14
  <2> QED
    <3> DEFINE x == from[j]
               y == from[k]
    <3>1. x \in Int /\ y \in Int /\ s[x].id \in Int /\ s[y].id \in Int
      BY <1>1, <2>2
    <3>2. s[x].id < s[y].id \/ (s[x].id = s[y].id /\ x <= y)
      BY <2>2 DEF Precedes
    <3>3. x # y
      BY <2>2
    <3>4. got[j].id = s[x].id /\ got[k].id = s[y].id
      BY <2>3
    <3> HIDE DEF x, y
    <3>5. s[x].id < s[y].id \/ (s[x].id = s[y].id /\ x < y)
      BY <3>1, <3>2, <3>3
    <3>6. got[j].id < got[k].id \/ (got[j].id = got[k].id /\ x < y)
      BY <3>4, <3>5, Zenon
    <3> QED
      BY <3>6, Zenon DEF x, y
<1>16. ReadsAs(got, s)
  <2>1. \A j, k \in DOMAIN got : j < k =>
          got[j].id < got[k].id \/ (got[j].id = got[k].id /\ from[j] < from[k])
    BY <1>8, <1>15
  <2>2. \A k \in DOMAIN got : got[k].id = s[from[k]].id /\ Nearest(s[from[k]], got[k].value)
    BY <1>8, <1>14
  <2> QED
    BY <1>11, <1>13, <2>1, <2>2, Zenon DEF ReadsAs
<1> QED
  BY <1>8, <1>16 DEF b

-----------------------------------------------------------------------------
\* What is on the air is the payload of the configuration: setup() builds it
\* before it asks for the advertisement, and nothing changes it afterwards.
PayloadInv ==
  /\ BroadcastInd
  /\ conf \in IF kind = "bthome" THEN Measurements ELSE Beacons
  /\ setup_at # "build" =>
       payload = IF kind = "bthome" THEN build_bthome_payload(conf) ELSE build_ibeacon_payload(conf)
  /\ on_air # <<>> => on_air = payload /\ setup_at # "build"

LEMMA PayloadStep ==
  ASSUME PayloadInv, [BroadcastNext]_broadcastVars
  PROVE  PayloadInv'
<1>1. BroadcastInd'
  BY BroadcastStep DEF PayloadInv
<1> USE DEF PayloadInv
<1>2. CASE setup
  BY <1>1, <1>2 DEF setup, BroadcastInd
<1>3. CASE BluezAnswers
  BY <1>1, <1>3 DEF BluezAnswers, adv_get_data, BroadcastInd
<1>4. CASE ~setup /\ ~BluezAnswers
  <2>1. UNCHANGED <<kind, conf, payload>>
    BY <1>4 DEF BroadcastNext, RequestStart, WorkerStarts, on_register_adv_reply, BluezReleases,
                adv_release, Destroy, broadcastVars
  <2>2. on_air' \in {<<>>, on_air} /\ (setup_at' = "build" => setup_at = "build")
    BY <1>4 DEF BroadcastNext, RequestStart, WorkerStarts, on_register_adv_reply, BluezReleases,
                adv_release, Destroy, broadcastVars
  <2>3. setup_at = "build" => setup_at' = "build"
    BY <1>4 DEF BroadcastNext, RequestStart, WorkerStarts, on_register_adv_reply, BluezReleases,
                adv_release, Destroy, broadcastVars
  <2> QED
    BY <1>1, <2>1, <2>2, <2>3
<1> QED
  BY <1>2, <1>3, <1>4

LEMMA PayloadInvariant == BroadcastSpec => []PayloadInv
<1>1. BroadcastInit => PayloadInv
  BY DEF BroadcastInit, PayloadInv, BroadcastInd, OnAirIsMarked
<1>2. PayloadInv /\ [BroadcastNext]_broadcastVars => PayloadInv'
  BY PayloadStep
<1> QED
  BY <1>1, <1>2, PTL DEF BroadcastSpec

\* A tracker that hears a beacon reads the configuration of esp32_ble_beacon,
\* whatever its UUID, major, minor and power, and takes no part of it for one.
THEOREM BeaconStaysRecognised == BroadcastSpec => []BeaconIsRecognised
<1>1. PayloadInv => BeaconIsRecognised
  BY BeaconReadsBack DEF PayloadInv, BeaconIsRecognised, BeaconHeard
<1> QED
  BY <1>1, PayloadInvariant, PTL

\* A receiver reads every measurement of bthome_advertiser that this build
\* knows, once, in the order the encoder sorts them, with its value or the
\* nearest one the field can hold: for every list of measurements, of any length
\* and with any values, and at every moment it is on the air.
THEOREM BthomeStaysDecodable == BroadcastSpec => []BthomeDecodes
<1>1. PayloadInv => BthomeDecodes
  <2> SUFFICES ASSUME PayloadInv, kind = "bthome", on_air # <<>>
               PROVE  ReadsAs(Decoded(on_air), conf)
    BY DEF BthomeDecodes
  <2>1. conf \in Measurements /\ on_air = build_bthome_payload(conf)
    BY DEF PayloadInv
  <2>2. conf \in Seq(Object)
    BY <2>1, BroadcasterAssumption DEF Object
  <2> QED
    BY <2>1, <2>2, BthomeReadsBack
<1> QED
  BY <1>1, PayloadInvariant, PTL

-----------------------------------------------------------------------------
\* An iteration stays in its set; two that agree on their steps are the same.
LEMMA IteratesIn ==
  ASSUME NEW X, NEW a \in X, NEW n \in Nat, NEW G \in [1 .. n -> [X -> X]],
         NEW f, f[0] = a, \A k \in 1 .. n : f[k - 1] \in X => f[k] = G[k][f[k - 1]]
  PROVE  \A k \in 0 .. n : f[k] \in X
<1> DEFINE S == {k \in Nat : k <= n => f[k] \in X}
<1>1. 0 \in S
  OBVIOUS
<1>2. ASSUME NEW k \in Nat, k \in S PROVE k + 1 \in S
  <2> SUFFICES ASSUME k + 1 <= n PROVE f[k + 1] \in X
    OBVIOUS
  <2>1. k + 1 \in 1 .. n /\ (k + 1) - 1 = k /\ f[k] \in X
    BY <1>2
  <2>2. f[k + 1] = G[k + 1][f[k]]
    BY <2>1
  <2>3. G[k + 1] \in [X -> X]
    BY <2>1
  <2> QED
    BY <2>1, <2>2, <2>3
<1>3. Nat \subseteq S
  <2> HIDE DEF S
  <2> QED
    BY <1>1, <1>2, NaturalSetInduction
<1> QED
  BY <1>3

-----------------------------------------------------------------------------
(***************************************************************************)
(* AdvCodec: AD structures as bytes.                                       *)
(***************************************************************************)
AdField == [type : Nat, data : Seq(Nat)]

LEMMA AdStructureBytes ==
  ASSUME NEW x \in AdField
  PROVE  LET e == AdStructure(x) IN
         /\ e \in Seq(Nat) /\ Len(e) = 2 + Len(x.data) /\ Len(x.data) \in Nat
         /\ e[1] = Len(x.data) + 1 /\ e[2] = x.type
         /\ \A i \in 1 .. Len(x.data) : e[2 + i] = x.data[i]
<1> DEFINE h == <<Len(x.data) + 1, x.type>>
           y == x.data
           e == h \o y
<1>1. y \in Seq(Nat) /\ x.type \in Nat /\ Len(y) \in Nat
  BY LenProperties DEF AdField
<1>2. h \in Seq(Nat) /\ Len(h) = 2 /\ h[1] = Len(y) + 1 /\ h[2] = x.type
  BY <1>1
<1>3. AdStructure(x) = e
  BY DEF AdStructure
<1> HIDE DEF h, y
<1>4. /\ e \in Seq(Nat) /\ Len(e) = Len(h) + Len(y)
      /\ \A i \in 1 .. Len(h) + Len(y) : e[i] = IF i <= Len(h) THEN h[i] ELSE y[i - Len(h)]
  BY <1>1, <1>2, ConcatProperties
<1> HIDE DEF e
<1>5. Len(e) = 2 + Len(y) /\ \A i \in 1 .. 2 + Len(y) : e[i] = IF i <= 2 THEN h[i] ELSE y[i - 2]
  BY <1>2, <1>4
<1>6. e[1] = h[1] /\ e[2] = h[2]
  BY <1>1, <1>5
<1>7. ASSUME NEW i \in 1 .. Len(y) PROVE e[2 + i] = y[i]
  <2>1. 2 + i \in 1 .. 2 + Len(y) /\ ~(2 + i <= 2) /\ (2 + i) - 2 = i
    BY <1>1
  <2> QED
    BY <1>5, <2>1
<1> QED
  BY <1>1, <1>2, <1>3, <1>4, <1>5, <1>6, <1>7 DEF y

\* The bytes of the first k structures.
Encoding(fields, f) ==
  /\ f \in [0 .. Len(fields) -> Seq(Nat)]
  /\ f[0] = <<>>
  /\ \A k \in 1 .. Len(fields) : f[k] = f[k - 1] \o AdStructure(fields[k])

LEMMA EncodeIs ==
  ASSUME NEW fields \in Seq(AdField)
  PROVE  \E f : Encoding(fields, f) /\ Encode(fields) = f[Len(fields)]
<1> DEFINE n == Len(fields)
           X == Seq(Nat)
           a == <<>>
           Pass(x, k) == x \o AdStructure(fields[k])
           G == [k \in 1 .. n |-> [x \in X |-> Pass(x, k)]]
           Step(g) == [k \in 0 .. n |-> IF k = 0 THEN a ELSE Pass(g[k - 1], k)]
<1>1. n \in Nat
  BY LenProperties
<1>2. a \in X
  OBVIOUS
<1>3. ASSUME NEW k \in 1 .. n, NEW x \in X PROVE Pass(x, k) \in X
  <2>1. fields[k] \in AdField
    BY <1>1, ElementOfSeq
  <2>2. AdStructure(fields[k]) \in Seq(Nat)
    BY <2>1, AdStructureBytes
  <2> QED
    BY <2>2, ConcatProperties
<1> HIDE DEF n, X, a, Pass
<1>4. G \in [1 .. n -> [X -> X]]
  BY <1>3
<1>5. PICK f \in [0 .. n -> X] : f[0] = a /\ \A k \in 1 .. n : f[k] = G[k][f[k - 1]]
  <2> HIDE DEF G
  <2>1. \E f \in [0 .. n -> X] : Iterates(f, a, n, G)
    BY <1>1, <1>2, <1>4, Recursion
  <2> QED
    BY <2>1 DEF Iterates
<1>6. f = Step(f)
  <2>1. \A k \in 1 .. n : f[k] = Pass(f[k - 1], k)
    <3> SUFFICES ASSUME NEW k \in 1 .. n PROVE f[k] = Pass(f[k - 1], k)
      OBVIOUS
    <3>1. k - 1 \in 0 .. n
      BY <1>1
    <3> QED
      BY <1>5, <3>1
  <2>2. \A k \in 0 .. n : f[k] = IF k = 0 THEN a ELSE Pass(f[k - 1], k)
    BY <1>1, <1>5, <2>1
  <2>3. f = [k \in 0 .. n |-> f[k]]
    BY <1>5
  <2> QED
    BY <2>2, <2>3
<1> DEFINE Bytes == CHOOSE g : g = Step(g)
<1>7. Bytes = Step(Bytes)
  BY <1>6, Zenon
<1>8. Encode(fields) = Bytes[n]
  BY Zenon DEF Encode, a, n, Pass
<1> HIDE DEF Bytes
<1>9. Bytes[0] = a /\ \A k \in 1 .. n : Bytes[k] = Pass(Bytes[k - 1], k)
  BY <1>1, <1>7
<1>10. \A k \in 0 .. n : Bytes[k] \in X
  <2>1. \A k \in 1 .. n : Bytes[k - 1] \in X => Bytes[k] = G[k][Bytes[k - 1]]
    BY <1>9
  <2> HIDE DEF G
  <2> QED
    BY <1>1, <1>2, <1>4, <1>9, <2>1, IteratesIn
<1>11. Bytes \in [0 .. n -> X]
  <2>1. Bytes = [k \in 0 .. n |-> Bytes[k]]
    BY <1>7
  <2> QED
    BY <1>10, <2>1
<1> QED
  BY <1>8, <1>9, <1>11 DEF Encoding, X, a, n, Pass

FieldReading == [pos : Nat, got : Seq(AdField)]

LEMMA ReadFieldTyped ==
  ASSUME NEW b \in Seq(Nat), NEW at \in FieldReading
  PROVE  ReadField(b, at) \in FieldReading
<1> DEFINE p == at.pos
           len == b[p + 1]
           end == p + 1 + len
<1>1. p \in Nat /\ at.got \in Seq(AdField) /\ Len(b) \in Nat
  BY LenProperties DEF FieldReading
<1>2. CASE p + 1 >= Len(b) \/ len = 0 \/ end > Len(b)
  BY <1>2 DEF ReadField
<1>3. CASE ~(p + 1 >= Len(b) \/ len = 0 \/ end > Len(b))
  <2> DEFINE x == [type |-> b[p + 2], data |-> SubSeq(b, p + 3, end)]
  <2>1. ReadField(b, at) = [pos |-> end, got |-> Append(at.got, x)]
    BY <1>3 DEF ReadField
  <2>2. p + 1 \in 1 .. Len(b) /\ p + 2 \in 1 .. Len(b)
    <3> DEFINE w == Len(b)
    <3>1. p \in Nat /\ w \in Nat /\ ~(p + 1 >= w)
      BY <1>1, <1>3
    <3> HIDE DEF p, w
    <3>2. p + 1 \in 1 .. w /\ p + 2 \in 1 .. w
      BY <3>1
    <3> QED
      BY <3>2 DEF p, w
  <2>3. len \in Nat /\ b[p + 2] \in Nat
    BY <2>2, ElementOfSeq
  <2> HIDE DEF p, len
  <2>4. end \in Nat /\ end <= Len(b)
    BY <1>1, <1>3, <2>3
  <2> HIDE DEF end
  <2>5. SubSeq(b, p + 3, end) \in Seq(Nat)
    <3>1. \A i \in p + 3 .. end : b[i] \in Nat
      <4>1. \A i \in p + 3 .. end : i \in 1 .. Len(b)
        BY <1>1, <2>4
      <4> QED
        BY <4>1, ElementOfSeq
    <3>2. p + 3 \in Int /\ end \in Int
      BY <1>1, <2>4
    <3> QED
      BY <3>1, <3>2, SubSeqProperties
  <2>6. x \in AdField
    BY <2>3, <2>5 DEF AdField
  <2> HIDE DEF x
  <2>7. Append(at.got, x) \in Seq(AdField)
    BY <1>1, <2>6, AppendProperties
  <2> QED
    BY <2>1, <2>4, <2>7 DEF FieldReading
<1> QED
  BY <1>2, <1>3

\* parse_ad_payload() after each pass of its loop.
FieldReadingOf(b, g) ==
  /\ g \in [0 .. Len(b) -> FieldReading]
  /\ g[0] = [pos |-> 0, got |-> <<>>]
  /\ \A k \in 1 .. Len(b) : g[k] = ReadField(b, g[k - 1])

LEMMA FieldsOfIs ==
  ASSUME NEW b \in Seq(Nat)
  PROVE  \E g : FieldReadingOf(b, g) /\ FieldsOf(b) = g[Len(b)].got
<1> DEFINE n == Len(b)
           X == FieldReading
           a == [pos |-> 0, got |-> <<>>]
           Pass(x, k) == ReadField(b, x)
           G == [k \in 1 .. n |-> [x \in X |-> Pass(x, k)]]
           Step(g) == [k \in 0 .. n |-> IF k = 0 THEN a ELSE Pass(g[k - 1], k)]
<1>1. n \in Nat
  BY LenProperties
<1>2. a \in X
  <2>1. <<>> \in Seq(AdField)
    OBVIOUS
  <2> QED
    BY <2>1 DEF FieldReading
<1>3. ASSUME NEW k \in 1 .. n, NEW x \in X PROVE Pass(x, k) \in X
  BY ReadFieldTyped
<1> HIDE DEF n, X, a, Pass
<1>4. G \in [1 .. n -> [X -> X]]
  BY <1>3
<1>5. PICK f \in [0 .. n -> X] : f[0] = a /\ \A k \in 1 .. n : f[k] = G[k][f[k - 1]]
  <2> HIDE DEF G
  <2>1. \E f \in [0 .. n -> X] : Iterates(f, a, n, G)
    BY <1>1, <1>2, <1>4, Recursion
  <2> QED
    BY <2>1 DEF Iterates
<1>6. f = Step(f)
  <2>1. \A k \in 1 .. n : f[k] = Pass(f[k - 1], k)
    <3> SUFFICES ASSUME NEW k \in 1 .. n PROVE f[k] = Pass(f[k - 1], k)
      OBVIOUS
    <3>1. k - 1 \in 0 .. n
      BY <1>1
    <3> QED
      BY <1>5, <3>1
  <2>2. \A k \in 0 .. n : f[k] = IF k = 0 THEN a ELSE Pass(f[k - 1], k)
    BY <1>1, <1>5, <2>1
  <2>3. f = [k \in 0 .. n |-> f[k]]
    BY <1>5
  <2> QED
    BY <2>2, <2>3
<1> DEFINE At == CHOOSE g : g = Step(g)
<1>7. At = Step(At)
  BY <1>6, Zenon
<1>8. FieldsOf(b) = At[n].got
  BY Zenon DEF FieldsOf, a, n, Pass
<1> HIDE DEF At
<1>9. At[0] = a /\ \A k \in 1 .. n : At[k] = Pass(At[k - 1], k)
  BY <1>1, <1>7
<1>10. \A k \in 0 .. n : At[k] \in X
  <2>1. \A k \in 1 .. n : At[k - 1] \in X => At[k] = G[k][At[k - 1]]
    BY <1>9
  <2> HIDE DEF G
  <2> QED
    BY <1>1, <1>2, <1>4, <1>9, <2>1, IteratesIn
<1>11. At \in [0 .. n -> X]
  <2>1. At = [k \in 0 .. n |-> At[k]]
    BY <1>7
  <2> QED
    BY <1>10, <2>1
<1> QED
  BY <1>8, <1>9, <1>11 DEF FieldReadingOf, X, a, n, Pass

\* The receiver is between two structures: it takes the next one whole.
LEMMA ReadsAppended ==
  ASSUME NEW out \in Seq(Nat), NEW x \in AdField, NEW b \in Seq(Nat), NEW at \in FieldReading,
         Extends(b, out \o AdStructure(x)), at.pos = Len(out)
  PROVE  ReadField(b, at) = [pos |-> Len(out \o AdStructure(x)), got |-> Append(at.got, x)]
<1> DEFINE e == AdStructure(x)
           y == x.data
           p == Len(out)
           d == out \o e
<1>1. /\ e \in Seq(Nat) /\ Len(e) = 2 + Len(y) /\ Len(y) \in Nat
      /\ e[1] = Len(y) + 1 /\ e[2] = x.type
      /\ \A i \in 1 .. Len(y) : e[2 + i] = y[i]
  BY AdStructureBytes
<1>2. y \in Seq(Nat) /\ x = [type |-> x.type, data |-> y]
  BY DEF AdField
<1> HIDE DEF e, y
<1>3. p \in Nat /\ Len(b) \in Nat
  BY LenProperties
<1>4. /\ d \in Seq(Nat) /\ Len(d) = p + Len(e)
      /\ \A i \in 1 .. p + Len(e) : d[i] = IF i <= p THEN out[i] ELSE e[i - p]
  <2>1. e \in Seq(Nat)
    BY <1>1
  <2> QED
    BY <2>1, ConcatProperties
<1>5. Len(d) <= Len(b) /\ \A i \in 1 .. Len(d) : b[i] = d[i]
  BY DEF e, Extends
<1>6. at.pos = p
  OBVIOUS
<1> HIDE DEF d, p
<1>7. ASSUME NEW i \in 1 .. Len(e) PROVE b[p + i] = e[i]
  <2>1. p + i \in 1 .. p + Len(e) /\ ~(p + i <= p) /\ (p + i) - p = i
    BY <1>1, <1>3
  <2> QED
    BY <1>4, <1>5, <2>1
<1> DEFINE len == b[p + 1]
           end == p + 1 + len
<1>8. len = Len(y) + 1 /\ b[p + 2] = x.type
  <2>1. 1 \in 1 .. Len(e) /\ 2 \in 1 .. Len(e)
    BY <1>1
  <2> QED
    BY <1>1, <1>7, <2>1
<1> HIDE DEF len
<1>9. /\ end = Len(d) /\ end = p + 2 + Len(y) /\ end \in Nat
      /\ ~(len = 0) /\ ~(end > Len(b)) /\ ~(p + 1 >= Len(b))
  <2>1. Len(d) = p + (2 + Len(y)) /\ Len(d) <= Len(b)
    BY <1>1, <1>4, <1>5
  <2> QED
    <3> DEFINE m == Len(y)
               w == Len(b)
               z == Len(d)
    <3>1. m \in Nat /\ w \in Nat /\ p \in Nat /\ len = m + 1 /\ z = p + (2 + m) /\ z <= w
      BY <1>1, <1>3, <1>8, <2>1
    <3> HIDE DEF m, w, z
    <3>2. /\ end = z /\ end = p + 2 + m /\ end \in Nat
          /\ ~(len = 0) /\ ~(end > w) /\ ~(p + 1 >= w)
      BY <3>1
    <3> QED
      BY <3>2 DEF m, w, z
<1> HIDE DEF end
<1>10. SubSeq(b, p + 3, end) = y
  <2>1. p + 3 \in Int /\ end \in Int /\ end - (p + 3) + 1 = Len(y)
    BY <1>1, <1>3, <1>9
  <2>2. \A i \in p + 3 .. end : b[i] \in Nat
    <3>1. \A i \in p + 3 .. end : i \in 1 .. Len(b)
      BY <1>3, <1>9
    <3> QED
      BY <3>1, ElementOfSeq
  <2> DEFINE u == SubSeq(b, p + 3, end)
  <2>3. /\ u \in Seq(Nat)
        /\ Len(u) = IF p + 3 <= end THEN end - (p + 3) + 1 ELSE 0
        /\ \A i \in 1 .. end - (p + 3) + 1 : u[i] = b[(p + 3) + i - 1]
    BY <2>1, <2>2, SubSeqProperties, SMTT(30)
  <2> HIDE DEF u
  <2>4. Len(u) = Len(y)
    <3> DEFINE m == Len(y)
               v == Len(u)
    <3>1. /\ m \in Nat /\ p \in Nat /\ end \in Nat /\ end - (p + 3) + 1 = m
          /\ v = IF p + 3 <= end THEN end - (p + 3) + 1 ELSE 0
      BY <1>1, <1>3, <1>9, <2>1, <2>3
    <3> HIDE DEF m, v
    <3>2. v = m
      BY <3>1
    <3> QED
      BY <3>2 DEF m, v
  <2>5. ASSUME NEW i \in 1 .. Len(y) PROVE u[i] = y[i]
    <3>1. (p + 3) + i - 1 = p + (2 + i) /\ 2 + i \in 1 .. Len(e)
      BY <1>1, <1>3
    <3>2. u[i] = b[p + (2 + i)]
      BY <2>1, <2>3, <3>1
    <3> QED
      BY <1>1, <1>7, <3>1, <3>2
  <2>6. u = y
    BY <1>2, <2>3, <2>4, <2>5, SeqEqual
  <2> QED
    BY <2>6 DEF u
<1>11. ReadField(b, at) = [pos |-> end, got |-> Append(at.got, [type |-> b[p + 2], data |-> SubSeq(b, p + 3, end)])]
  BY <1>6, <1>9 DEF ReadField, end, len
<1> QED
  BY <1>2, <1>8, <1>9, <1>10, <1>11 DEF d, e

\* A sequence with more behind it goes on from itself.
LEMMA ConcatExtends ==
  ASSUME NEW S, NEW s \in Seq(S), NEW t \in Seq(S)
  PROVE  Extends(s \o t, s) /\ Len(s \o t) = Len(s) + Len(t) /\ s \o t \in Seq(S)
<1> DEFINE u == s \o t
<1>1. /\ u \in Seq(S) /\ Len(u) = Len(s) + Len(t)
      /\ \A i \in 1 .. Len(s) + Len(t) : u[i] = IF i <= Len(s) THEN s[i] ELSE t[i - Len(s)]
  BY ConcatProperties
<1> HIDE DEF u
<1>2. Len(s) \in Nat /\ Len(t) \in Nat
  BY LenProperties
<1>3. \A i \in 1 .. Len(s) : i \in 1 .. Len(s) + Len(t) /\ i <= Len(s)
  BY <1>2
<1>4. Len(s) <= Len(u)
  BY <1>1, <1>2
<1>5. Extends(u, s)
  BY <1>1, <1>3, <1>4 DEF Extends
<1> QED
  BY <1>1, <1>5 DEF u

LEMMA ExtendsFurther ==
  ASSUME NEW r, NEW s, NEW t, Len(r) \in Nat, Len(s) \in Nat, Len(t) \in Nat,
         Extends(t, s), Extends(s, r)
  PROVE  Extends(t, r)
<1>1. Len(r) <= Len(s) /\ Len(s) <= Len(t)
  BY DEF Extends
<1>2. \A i \in 1 .. Len(r) : i \in 1 .. Len(s)
  BY <1>1
<1>3. Len(r) <= Len(t)
  BY <1>1
<1> QED
  BY <1>2, <1>3 DEF Extends

\* What Encoding says of one step.
LEMMA EncodingStep ==
  ASSUME NEW fields \in Seq(AdField), NEW f, Encoding(fields, f), NEW k \in 1 .. Len(fields)
  PROVE  /\ k - 1 \in 0 .. Len(fields) /\ fields[k] \in AdField
         /\ f[k - 1] \in Seq(Nat) /\ f[k] \in Seq(Nat) /\ f[k] = f[k - 1] \o AdStructure(fields[k])
         /\ Len(f[k]) = Len(f[k - 1]) + 2 + Len(fields[k].data)
         /\ Len(f[k - 1]) \in Nat /\ Len(f[k]) \in Nat /\ Len(fields[k].data) \in Nat
         /\ Extends(f[k], f[k - 1])
<1>1. Len(fields) \in Nat
  BY LenProperties
<1>2. k - 1 \in 0 .. Len(fields) /\ k \in 0 .. Len(fields)
  BY <1>1
<1>3. fields[k] \in AdField
  BY ElementOfSeq
<1>4. f[k - 1] \in Seq(Nat) /\ f[k] \in Seq(Nat) /\ f[k] = f[k - 1] \o AdStructure(fields[k])
  BY <1>2 DEF Encoding
<1> DEFINE s == f[k - 1]
           t == AdStructure(fields[k])
<1>5. t \in Seq(Nat) /\ Len(t) = 2 + Len(fields[k].data) /\ Len(fields[k].data) \in Nat
  BY <1>3, AdStructureBytes
<1>6. s \in Seq(Nat) /\ f[k] = s \o t /\ Len(s) \in Nat
  BY <1>4, LenProperties
<1> HIDE DEF s, t
<1>7. Extends(s \o t, s) /\ Len(s \o t) = Len(s) + Len(t)
  BY <1>5, <1>6, ConcatExtends
<1>8. Len(f[k]) = Len(s) + 2 + Len(fields[k].data)
  <2>1. Len(f[k]) = Len(s) + Len(t)
    BY <1>6, <1>7
  <2> DEFINE p == Len(s)
             q == Len(fields[k].data)
             r == Len(t)
             z == Len(f[k])
  <2>2. p \in Nat /\ q \in Nat /\ r = 2 + q /\ z = p + r
    BY <1>5, <1>6, <2>1
  <2> HIDE DEF p, q, r, z
  <2>3. z = p + 2 + q
    BY <2>2
  <2> QED
    BY <2>3 DEF p, q, z
<1>9. Len(f[k]) \in Nat
  BY <1>4, LenProperties
<1> QED
  BY <1>2, <1>3, <1>4, <1>5, <1>6, <1>7, <1>8, <1>9 DEF s

\* The bytes of a prefix are a prefix of the bytes.
LEMMA EncodingExtends ==
  ASSUME NEW fields \in Seq(AdField), NEW f, Encoding(fields, f), NEW k \in 0 .. Len(fields)
  PROVE  Extends(f[Len(fields)], f[k])
<1> DEFINE n == Len(fields)
           S == {m \in Nat : k + m <= n => Extends(f[k + m], f[k])}
<1>1. n \in Nat
  BY LenProperties
<1>2. \A m \in 0 .. n : f[m] \in Seq(Nat) /\ Len(f[m]) \in Nat
  BY LenProperties DEF Encoding
<1>3. 0 \in S
  <2>1. k + 0 = k /\ Len(f[k]) \in Nat
    BY <1>2
  <2> QED
    BY <2>1 DEF Extends
<1>4. ASSUME NEW m \in Nat, m \in S PROVE m + 1 \in S
  <2> SUFFICES ASSUME k + (m + 1) <= n PROVE Extends(f[k + (m + 1)], f[k])
    OBVIOUS
  <2> DEFINE j == k + (m + 1)
  <2>1. j \in 1 .. n /\ j \in 0 .. n /\ j - 1 = k + m /\ k + m \in 0 .. n /\ k + m <= n
    BY <1>1
  <2>2. Extends(f[j - 1], f[k])
    BY <1>4, <2>1
  <2> HIDE DEF j
  <2>3. Extends(f[j], f[j - 1])
    BY <2>1, EncodingStep
  <2>4. Len(f[j]) \in Nat /\ Len(f[j - 1]) \in Nat /\ Len(f[k]) \in Nat
    BY <1>2, <2>1
  <2>5. Extends(f[j], f[k])
    BY <2>2, <2>3, <2>4, ExtendsFurther
  <2> QED
    BY <2>5 DEF j
<1>5. n - k \in Nat /\ k + (n - k) = n
  BY <1>1
<1>6. n - k \in S
  <2> HIDE DEF S
  <2> QED
    BY <1>3, <1>4, <1>5, NaturalSetInduction
<1> QED
  BY <1>1, <1>5, <1>6

\* parse_ad_payload() reads the structures that b starts with, one a pass.
LEMMA ReadsEncoded ==
  ASSUME NEW fields \in Seq(AdField), NEW f, Encoding(fields, f), NEW b \in Seq(Nat),
         Extends(b, f[Len(fields)]), NEW g, FieldReadingOf(b, g), NEW k \in 0 .. Len(fields)
  PROVE  /\ k <= Len(f[k]) /\ k <= Len(b) /\ g[k].pos = Len(f[k])
         /\ Len(g[k].got) = k /\ \A j \in 1 .. k : g[k].got[j] = fields[j]
<1> DEFINE n == Len(fields)
           Read(i) == /\ i <= Len(f[i]) /\ g[i].pos = Len(f[i])
                      /\ Len(g[i].got) = i /\ \A j \in 1 .. i : g[i].got[j] = fields[j]
           S == {i \in Nat : i <= n => Read(i)}
<1>1. n \in Nat /\ Len(b) \in Nat
  BY LenProperties
<1>2. \A i \in 0 .. n : f[i] \in Seq(Nat) /\ Len(f[i]) \in Nat /\ Extends(f[n], f[i])
  BY LenProperties, EncodingExtends DEF Encoding
<1>3. \A i \in 0 .. n : Extends(b, f[i]) /\ Len(f[i]) <= Len(b)
  <2> SUFFICES ASSUME NEW i \in 0 .. n PROVE Extends(b, f[i]) /\ Len(f[i]) <= Len(b)
    OBVIOUS
  <2>1. n \in 0 .. n
    BY <1>1
  <2>2. Extends(b, f[i])
    BY <1>1, <1>2, <2>1, ExtendsFurther
  <2> QED
    BY <2>2 DEF Extends
<1>4. 0 \in S
  <2>1. f[0] = <<>> /\ g[0] = [pos |-> 0, got |-> <<>>]
    BY DEF Encoding, FieldReadingOf
  <2>2. Read(0)
    BY <2>1
  <2> QED
    BY <2>2
<1>5. ASSUME NEW i \in Nat, i \in S PROVE i + 1 \in S
  <2> SUFFICES ASSUME i + 1 <= n PROVE Read(i + 1)
    OBVIOUS
  <2> DEFINE m == i + 1
             x == fields[m]
             out == f[i]
             at == g[i]
  <2>1. m \in 1 .. n /\ m \in 0 .. n /\ i \in 0 .. n /\ m - 1 = i /\ i <= n
    BY <1>1
  <2>2. Read(i)
    BY <1>5, <2>1
  <2> HIDE DEF m
  <2>3. /\ x \in AdField /\ f[m] = out \o AdStructure(x) /\ out \in Seq(Nat)
        /\ Len(f[m]) = Len(out) + 2 + Len(x.data) /\ Len(x.data) \in Nat /\ Len(out) \in Nat
    <3>1. /\ fields[m] \in AdField /\ f[m - 1] \in Seq(Nat) /\ f[m] = f[m - 1] \o AdStructure(fields[m])
          /\ Len(f[m]) = Len(f[m - 1]) + 2 + Len(fields[m].data)
          /\ Len(f[m - 1]) \in Nat /\ Len(fields[m].data) \in Nat
      BY <2>1, EncodingStep
    <3> QED
      BY <2>1, <3>1
  <2>4. m <= Len(f[m]) /\ m \in 1 .. Len(b) /\ i \in 0 .. Len(b)
    <3>1. i <= Len(out) /\ Len(f[m]) <= Len(b)
      BY <1>3, <2>1, <2>2
    <3> DEFINE p == Len(f[m])
               q == Len(out)
               r == Len(x.data)
               z == Len(b)
    <3>2. /\ p \in Nat /\ q \in Nat /\ r \in Nat /\ z \in Nat /\ p = q + 2 + r /\ i <= q /\ p <= z
          /\ m = i + 1
      BY <1>1, <1>2, <2>1, <2>3, <3>1 DEF m
    <3> HIDE DEF p, q, r, z
    <3>3. m <= p /\ m \in 1 .. z /\ i \in 0 .. z
      BY <3>2
    <3> QED
      BY <3>3 DEF p, z
  <2>5. at \in FieldReading /\ g[m] = ReadField(b, at) /\ at.pos = Len(out)
    BY <2>1, <2>2, <2>4 DEF FieldReadingOf
  <2>6. Extends(b, out \o AdStructure(x))
    BY <1>3, <2>1, <2>3
  <2> HIDE DEF x, out, at
  <2>7. g[m] = [pos |-> Len(f[m]), got |-> Append(at.got, x)]
    <3>1. ReadField(b, at) = [pos |-> Len(out \o AdStructure(x)), got |-> Append(at.got, x)]
      BY <2>3, <2>5, <2>6, ReadsAppended
    <3> QED
      BY <2>3, <2>5, <3>1
  <2>8. at.got \in Seq(AdField) /\ Len(at.got) = i /\ \A j \in 1 .. i : at.got[j] = fields[j]
    BY <2>2, <2>5 DEF FieldReading, at
  <2> DEFINE t == at.got
  <2>9. /\ Len(Append(t, x)) = i + 1 /\ Append(t, x)[i + 1] = x
        /\ \A j \in 1 .. i : Append(t, x)[j] = fields[j]
    <3>1. t \in Seq(AdField) /\ Len(t) = i /\ \A j \in 1 .. i : t[j] = fields[j]
      BY <2>8
    <3> HIDE DEF t
    <3>2. /\ Len(Append(t, x)) = Len(t) + 1 /\ Append(t, x)[Len(t) + 1] = x
          /\ \A j \in 1 .. Len(t) : Append(t, x)[j] = t[j]
      BY <2>3, <3>1, AppendProperties
    <3> QED
      BY <3>1, <3>2
  <2>10. g[m].pos = Len(f[m]) /\ g[m].got = Append(t, x)
    BY <2>7
  <2> HIDE DEF t
  <2>11. \A j \in 1 .. m : g[m].got[j] = fields[j]
    <3>1. \A j \in 1 .. m : j \in 1 .. i \/ j = m
      BY DEF m
    <3>2. g[m].got[m] = fields[m]
      BY <2>9, <2>10 DEF m, x
    <3> QED
      BY <2>9, <2>10, <3>1, <3>2
  <2>12. Len(g[m].got) = m
    BY <2>9, <2>10 DEF m
  <2>13. Read(m)
    BY <2>4, <2>10, <2>11, <2>12
  <2> HIDE DEF Read
  <2> QED
    BY <2>13 DEF m
<1>6. Read(k)
  <2>1. k \in S
    <3> HIDE DEF S
    <3>1. k \in Nat
      BY <1>1
    <3> QED
      BY <1>4, <1>5, <3>1, NaturalSetInduction
  <2> QED
    BY <1>1, <2>1
<1>7. k <= Len(b)
  <2>1. Len(f[k]) \in Nat /\ Len(f[k]) <= Len(b) /\ k <= Len(f[k])
    BY <1>2, <1>3, <1>6
  <2> QED
    BY <1>1, <2>1
<1> QED
  BY <1>6, <1>7

\* Once it can go no further it rests.
LEMMA FieldReadingRests ==
  ASSUME NEW b \in Seq(Nat), NEW g, FieldReadingOf(b, g), NEW m \in 0 .. Len(b),
         ReadField(b, g[m]) = g[m]
  PROVE  g[Len(b)] = g[m]
<1> DEFINE S == {k \in Nat : m + k <= Len(b) => g[m + k] = g[m]}
<1>1. Len(b) \in Nat
  BY LenProperties
<1>2. 0 \in S
  OBVIOUS
<1>3. ASSUME NEW k \in Nat, k \in S PROVE k + 1 \in S
  <2> SUFFICES ASSUME m + (k + 1) <= Len(b) PROVE g[m + (k + 1)] = g[m]
    OBVIOUS
  <2>1. m + (k + 1) \in 1 .. Len(b) /\ (m + (k + 1)) - 1 = m + k /\ m + k <= Len(b)
    BY <1>1
  <2>2. g[m + (k + 1)] = ReadField(b, g[m + k]) /\ g[m + k] = g[m]
    BY <1>3, <2>1 DEF FieldReadingOf
  <2> QED
    BY <2>2
<1>4. Len(b) - m \in Nat /\ m + (Len(b) - m) = Len(b)
  BY <1>1
<1>5. Len(b) - m \in S
  <2> HIDE DEF S
  <2> QED
    BY <1>2, <1>3, <1>4, NaturalSetInduction
<1> QED
  BY <1>1, <1>4, <1>5

\* parse_ad_payload() finds in the bytes of a list of AD structures that list,
\* whatever follows that is not a whole structure.
LEMMA EncodedReadsBack ==
  ASSUME NEW fields \in Seq(AdField), NEW rest \in Seq(Nat), NoField(rest)
  PROVE  /\ FieldsOf(Encode(fields) \o rest) = fields
         /\ Encode(fields) \in Seq(Nat) /\ Encode(fields) \o rest \in Seq(Nat)
<1> DEFINE n == Len(fields)
           s == Encode(fields)
           b == s \o rest
<1>1. PICK f : Encoding(fields, f) /\ s = f[n]
  BY EncodeIs
<1>2. n \in Nat /\ s \in Seq(Nat)
  <2>1. n \in Nat /\ n \in 0 .. n
    BY LenProperties
  <2> HIDE DEF s
  <2> QED
    BY <1>1, <2>1 DEF Encoding
<1> HIDE DEF s
<1>3. /\ b \in Seq(Nat) /\ Len(b) = Len(s) + Len(rest)
      /\ \A i \in 1 .. Len(s) + Len(rest) : b[i] = IF i <= Len(s) THEN s[i] ELSE rest[i - Len(s)]
  BY <1>2, ConcatProperties
<1>4. Extends(b, s)
  BY <1>2, ConcatExtends
<1> HIDE DEF b
<1>5. PICK g : FieldReadingOf(b, g) /\ FieldsOf(b) = g[Len(b)].got
  BY <1>3, FieldsOfIs
<1>6. /\ n <= Len(b) /\ g[n].pos = Len(s)
      /\ Len(g[n].got) = n /\ \A j \in 1 .. n : g[n].got[j] = fields[j]
  <2>1. n \in 0 .. n /\ Extends(b, f[n])
    BY <1>1, <1>2, <1>4
  <2>2. /\ n <= Len(b) /\ g[n].pos = Len(f[n])
        /\ Len(g[n].got) = n /\ \A j \in 1 .. n : g[n].got[j] = fields[j]
    <3>1. /\ n <= Len(f[n]) /\ n <= Len(b) /\ g[n].pos = Len(f[n])
          /\ Len(g[n].got) = n /\ \A j \in 1 .. n : g[n].got[j] = fields[j]
      <4>1. b \in Seq(Nat) /\ Encoding(fields, f) /\ FieldReadingOf(b, g) /\ Extends(b, f[Len(fields)])
        BY <1>1, <1>3, <1>5, <2>1
      <4>2. \A k \in 0 .. Len(fields) :
              /\ k <= Len(f[k]) /\ k <= Len(b) /\ g[k].pos = Len(f[k])
              /\ Len(g[k].got) = k /\ \A j \in 1 .. k : g[k].got[j] = fields[j]
        BY <4>1, ReadsEncoded
      <4> QED
        BY <2>1, <4>2
    <3> QED
      BY <3>1
  <2> QED
    BY <1>1, <2>2
<1> DEFINE p == Len(s)
           m == Len(rest)
<1>7. p \in Nat /\ m \in Nat /\ Len(b) = p + m
  BY <1>2, <1>3, LenProperties
<1>8. ReadField(b, g[n]) = g[n]
  <2>1. p + 1 >= Len(b) <=> m < 2
    <3> HIDE DEF p, m
    <3> QED
      BY <1>7
  <2>2. CASE m < 2
    BY <1>6, <2>1, <2>2 DEF ReadField
  <2>3. CASE ~(m < 2)
    <3>1. p + 1 \in 1 .. p + m /\ ~(p + 1 <= p) /\ (p + 1) - p = 1 /\ 1 \in 1 .. m
      <4> HIDE DEF p, m
      <4> QED
        BY <1>7, <2>3
    <3>2. b[p + 1] = rest[1]
      BY <1>3, <3>1
    <3>3. rest[1] \in Nat
      BY <3>1, ElementOfSeq
    <3>4. rest[1] = 0 \/ rest[1] + 1 > m
      BY <2>3 DEF NoField
    <3> DEFINE v == rest[1]
    <3>5. v = 0 \/ p + 1 + v > p + m
      <4>1. v \in Nat /\ (v = 0 \/ v + 1 > m)
        BY <3>3, <3>4
      <4> HIDE DEF v, p, m
      <4> QED
        BY <1>7, <4>1
    <3> QED
      BY <1>6, <1>7, <3>2, <3>5 DEF ReadField
  <2> QED
    BY <2>2, <2>3
<1>9. g[Len(b)] = g[n]
  <2>1. n \in 0 .. Len(b)
    BY <1>2, <1>3, <1>6, LenProperties
  <2> QED
    BY <1>3, <1>5, <1>8, <2>1, FieldReadingRests
<1>10. g[n].got \in Seq(AdField)
  <2>1. n \in 0 .. Len(b)
    BY <1>2, <1>3, <1>6, LenProperties
  <2> QED
    BY <1>5, <2>1 DEF FieldReadingOf, FieldReading
<1>11. g[n].got = fields
  BY <1>6, <1>10, SeqEqual
<1> QED
  BY <1>2, <1>3, <1>5, <1>9, <1>11 DEF b, s

\* The bytes of a list and one structure more.
LEMMA EncodeMore ==
  ASSUME NEW fields \in Seq(AdField), NEW x \in AdField
  PROVE  Encode(Append(fields, x)) = Encode(fields) \o AdStructure(x)
<1> DEFINE n == Len(fields)
           more == Append(fields, x)
<1>1. /\ more \in Seq(AdField) /\ Len(more) = n + 1 /\ more[n + 1] = x
      /\ \A i \in 1 .. n : more[i] = fields[i]
  BY AppendProperties
<1> HIDE DEF more
<1>2. n \in Nat
  BY LenProperties
<1>3. PICK f : Encoding(fields, f) /\ Encode(fields) = f[n]
  BY EncodeIs
<1>4. PICK h : Encoding(more, h) /\ Encode(more) = h[n + 1]
  BY <1>1, EncodeIs
<1> DEFINE S == {k \in Nat : k <= n => h[k] = f[k]}
<1>5. 0 \in S
  BY <1>3, <1>4 DEF Encoding
<1>6. ASSUME NEW k \in Nat, k \in S PROVE k + 1 \in S
  <2> SUFFICES ASSUME k + 1 <= n PROVE h[k + 1] = f[k + 1]
    OBVIOUS
  <2>1. k + 1 \in 1 .. n /\ k + 1 \in 1 .. n + 1 /\ (k + 1) - 1 = k /\ k <= n
    BY <1>2
  <2>2. h[k + 1] = h[k] \o AdStructure(more[k + 1])
    BY <1>1, <1>4, <2>1 DEF Encoding
  <2>3. f[k + 1] = f[k] \o AdStructure(fields[k + 1])
    BY <1>3, <2>1 DEF Encoding
  <2>4. h[k] = f[k] /\ more[k + 1] = fields[k + 1]
    BY <1>1, <1>6, <2>1
  <2> QED
    BY <2>2, <2>3, <2>4
<1>7. h[n] = f[n]
  <2>1. n \in S
    <3> HIDE DEF S
    <3> QED
      BY <1>2, <1>5, <1>6, NaturalSetInduction
  <2> QED
    BY <1>2, <2>1
<1>8. h[n + 1] = h[n] \o AdStructure(x)
  <2>1. n + 1 \in 1 .. n + 1 /\ (n + 1) - 1 = n
    BY <1>2
  <2> QED
    BY <1>1, <1>4, <2>1 DEF Encoding
<1> QED
  BY <1>3, <1>4, <1>7, <1>8 DEF more

LEMMA EncodeNone == Encode(<<>>) = <<>>
<1>1. <<>> \in Seq(AdField) /\ Len(<<>>) = 0
  OBVIOUS
<1>2. PICK f : Encoding(<<>>, f) /\ Encode(<<>>) = f[Len(<<>>)]
  BY <1>1, EncodeIs
<1> QED
  BY <1>1, <1>2 DEF Encoding

-----------------------------------------------------------------------------
(***************************************************************************)
(* AdvCodec: what the proxy forwards.                                      *)
(***************************************************************************)
\* The buffer of BluetoothProxy::parse_device() after each append_ad().
Buffers(asked, f) ==
  /\ f \in [0 .. Len(asked) -> Seq(Nat)]
  /\ f[0] = <<>>
  /\ \A k \in 1 .. Len(asked) : f[k] = append_ad(f[k - 1], asked[k])

LEMMA SerializedIs ==
  ASSUME NEW d, Resent(d) \in Seq(AdField)
  PROVE  \E f : Buffers(Resent(d), f) /\ Serialized(d) = f[Len(Resent(d))]
<1> DEFINE n == Len(Resent(d))
           X == Seq(Nat)
           a == <<>>
           Pass(x, k) == append_ad(x, Resent(d)[k])
           G == [k \in 1 .. n |-> [x \in X |-> Pass(x, k)]]
           Step(g) == [k \in 0 .. n |-> IF k = 0 THEN a ELSE Pass(g[k - 1], k)]
<1>1. n \in Nat
  BY LenProperties
<1>2. a \in X
  OBVIOUS
<1>3. ASSUME NEW k \in 1 .. n, NEW x \in X PROVE Pass(x, k) \in X
  <2> DEFINE e == AdStructure(Resent(d)[k])
  <2>1. Resent(d)[k] \in AdField
    BY ElementOfSeq
  <2>2. e \in Seq(Nat)
    BY <2>1, AdStructureBytes
  <2>3. Pass(x, k) = x \/ Pass(x, k) = x \o e
    BY DEF append_ad
  <2> HIDE DEF Pass, e
  <2>4. x \o e \in Seq(Nat)
    BY <2>2, ConcatProperties
  <2> QED
    BY <2>3, <2>4
<1> HIDE DEF n, X, a, Pass
<1>4. G \in [1 .. n -> [X -> X]]
  BY <1>3
<1>5. PICK f \in [0 .. n -> X] : f[0] = a /\ \A k \in 1 .. n : f[k] = G[k][f[k - 1]]
  <2> HIDE DEF G
  <2>1. \E f \in [0 .. n -> X] : Iterates(f, a, n, G)
    BY <1>1, <1>2, <1>4, Recursion
  <2> QED
    BY <2>1 DEF Iterates
<1>6. f = Step(f)
  <2>1. \A k \in 1 .. n : f[k] = Pass(f[k - 1], k)
    <3> SUFFICES ASSUME NEW k \in 1 .. n PROVE f[k] = Pass(f[k - 1], k)
      OBVIOUS
    <3>1. k - 1 \in 0 .. n
      BY <1>1
    <3> QED
      BY <1>5, <3>1
  <2>2. \A k \in 0 .. n : f[k] = IF k = 0 THEN a ELSE Pass(f[k - 1], k)
    BY <1>1, <1>5, <2>1
  <2>3. f = [k \in 0 .. n |-> f[k]]
    BY <1>5
  <2> QED
    BY <2>2, <2>3
<1> DEFINE Buf == CHOOSE g : g = Step(g)
<1>7. Buf = Step(Buf)
  BY <1>6, Zenon
<1>8. Serialized(d) = Buf[n]
  BY Zenon DEF Serialized, a, n, Pass
<1> HIDE DEF Buf
<1>9. Buf[0] = a /\ \A k \in 1 .. n : Buf[k] = Pass(Buf[k - 1], k)
  BY <1>1, <1>7
<1>10. \A k \in 0 .. n : Buf[k] \in X
  <2>1. \A k \in 1 .. n : Buf[k - 1] \in X => Buf[k] = G[k][Buf[k - 1]]
    BY <1>9
  <2> HIDE DEF G
  <2> QED
    BY <1>1, <1>2, <1>4, <1>9, <2>1, IteratesIn
<1>11. Buf \in [0 .. n -> X]
  <2>1. Buf = [k \in 0 .. n |-> Buf[k]]
    BY <1>7
  <2> QED
    BY <1>10, <2>1
<1> QED
  BY <1>8, <1>9, <1>11 DEF Buffers, X, a, n, Pass

\* The m structures of asked that of names.
Chosen(asked, m, of) == [j \in 1 .. m |-> asked[of[j]]]

\* After k calls of append_ad() the buffer f holds the structures that of names,
\* and every one of them if they fit.
Keeps(asked, f, h, k, m, of) ==
  /\ m \in Nat /\ of \in [1 .. m -> 1 .. k]
  /\ f[k] = Encode(Chosen(asked, m, of))
  /\ \A i, j \in 1 .. m : i < j => of[i] < of[j]
  /\ Len(h[k]) <= BUF => m = k /\ f[k] = h[k] /\ \A j \in 1 .. m : of[j] = j

LEMMA ChosenTyped ==
  ASSUME NEW asked \in Seq(AdField), NEW k \in 0 .. Len(asked), NEW m \in Nat, NEW of \in [1 .. m -> 1 .. k]
  PROVE  /\ Chosen(asked, m, of) \in Seq(AdField) /\ Len(Chosen(asked, m, of)) = m
         /\ \A j \in 1 .. m : Chosen(asked, m, of)[j] = asked[of[j]] /\ of[j] \in 1 .. Len(asked)
<1>1. \A j \in 1 .. m : of[j] \in 1 .. Len(asked)
  <2>1. Len(asked) \in Nat
    BY LenProperties
  <2>2. \A i \in 1 .. k : i \in 1 .. Len(asked)
    BY <2>1
  <2> QED
    BY <2>2
<1>2. \A j \in 1 .. m : asked[of[j]] \in AdField
  BY <1>1, ElementOfSeq
<1>3. Chosen(asked, m, of) \in [1 .. m -> AdField]
  BY <1>2 DEF Chosen
<1>4. Chosen(asked, m, of) \in Seq(AdField)
  BY <1>3, SeqDef
<1>5. Len(Chosen(asked, m, of)) = m
  BY <1>3, <1>4, LenProperties
<1> QED
  BY <1>1, <1>4, <1>5 DEF Chosen

LEMMA KeepsOn ==
  ASSUME NEW asked \in Seq(AdField), NEW f, Buffers(asked, f), NEW h, Encoding(asked, h),
         NEW k \in Nat, k + 1 <= Len(asked), NEW m, NEW of, Keeps(asked, f, h, k, m, of)
  PROVE  \E m2, of2 : Keeps(asked, f, h, k + 1, m2, of2)
<1> DEFINE x == asked[k + 1]
<1>1. /\ Len(asked) \in Nat /\ k + 1 \in 1 .. Len(asked) /\ k \in 0 .. Len(asked)
      /\ (k + 1) - 1 = k /\ k + 1 \in 0 .. Len(asked)
  BY LenProperties
<1>2. /\ m \in Nat /\ of \in [1 .. m -> 1 .. k] /\ f[k] = Encode(Chosen(asked, m, of))
      /\ \A i, j \in 1 .. m : i < j => of[i] < of[j]
      /\ Len(h[k]) <= BUF => m = k /\ f[k] = h[k] /\ \A j \in 1 .. m : of[j] = j
  BY DEF Keeps
<1>3. x \in AdField /\ f[k + 1] = append_ad(f[k], x)
  BY <1>1, ElementOfSeq DEF Buffers
<1>4. /\ h[k + 1] = h[k] \o AdStructure(x) /\ Len(h[k + 1]) = Len(h[k]) + 2 + Len(x.data)
      /\ Len(h[k]) \in Nat /\ Len(h[k + 1]) \in Nat /\ Len(x.data) \in Nat
  <2> DEFINE i == k + 1
  <2>1. i \in 1 .. Len(asked) /\ i - 1 = k
    BY <1>1
  <2> HIDE DEF i
  <2>2. /\ h[i] = h[i - 1] \o AdStructure(asked[i]) /\ Len(h[i]) = Len(h[i - 1]) + 2 + Len(asked[i].data)
        /\ Len(h[i - 1]) \in Nat /\ Len(h[i]) \in Nat /\ Len(asked[i].data) \in Nat
    BY <2>1, EncodingStep
  <2> QED
    BY <2>1, <2>2 DEF i
<1>5. BUF \in Nat
  BY CodecAssumption
<1>6. Len(h[k + 1]) <= BUF => Len(h[k]) <= BUF
  <2> DEFINE p == Len(h[k])
             q == Len(h[k + 1])
             r == Len(x.data)
  <2>1. p \in Nat /\ q \in Nat /\ r \in Nat /\ q = p + 2 + r
    BY <1>4
  <2> HIDE DEF p, q, r
  <2>2. q <= BUF => p <= BUF
    BY <1>5, <2>1
  <2> QED
    BY <2>2 DEF p, q
<1> HIDE DEF x
<1>7. CASE Len(f[k]) + 2 + Len(x.data) > BUF
  <2>1. f[k + 1] = f[k]
    BY <1>3, <1>7 DEF append_ad
  <2>2. of \in [1 .. m -> 1 .. k + 1]
    BY <1>2
  <2>3. ~(Len(h[k + 1]) <= BUF)
    <3> SUFFICES ASSUME Len(h[k + 1]) <= BUF PROVE FALSE
      OBVIOUS
    <3>1. f[k] = h[k]
      BY <1>2, <1>6
    <3> DEFINE q == Len(h[k + 1])
    <3>2. q \in Nat /\ q <= BUF /\ q > BUF
      BY <1>4, <1>7, <3>1
    <3> HIDE DEF q
    <3> QED
      BY <1>5, <3>2
  <2>4. Keeps(asked, f, h, k + 1, m, of)
    BY <1>2, <2>1, <2>2, <2>3 DEF Keeps
  <2> QED
    BY <2>4
<1>8. CASE ~(Len(f[k]) + 2 + Len(x.data) > BUF)
  <2> DEFINE of2 == [j \in 1 .. m + 1 |-> IF j = m + 1 THEN k + 1 ELSE of[j]]
  <2>1. f[k + 1] = f[k] \o AdStructure(x)
    BY <1>3, <1>8 DEF append_ad
  <2>2. of2[m + 1] = k + 1 /\ \A j \in 1 .. m : of2[j] = of[j]
    BY <1>2
  <2>3. of2 \in [1 .. m + 1 -> 1 .. k + 1]
    <3>1. \A j \in 1 .. m + 1 : (IF j = m + 1 THEN k + 1 ELSE of[j]) \in 1 .. k + 1
      BY <1>2
    <3> QED
      BY <3>1
  <2> HIDE DEF of2
  <2>4. \A j \in 1 .. m + 1 : j \in 1 .. m \/ j = m + 1
    BY <1>2
  <2> DEFINE t == Chosen(asked, m, of)
             u == Chosen(asked, m + 1, of2)
  <2>5. t \in Seq(AdField) /\ Len(t) = m /\ \A j \in 1 .. m : t[j] = asked[of[j]]
    <3>1. /\ Chosen(asked, m, of) \in Seq(AdField) /\ Len(Chosen(asked, m, of)) = m
          /\ \A j \in 1 .. m : Chosen(asked, m, of)[j] = asked[of[j]] /\ of[j] \in 1 .. Len(asked)
      BY <1>1, <1>2, ChosenTyped, Zenon
    <3> QED
      BY <3>1, Zenon
  <2>6. u \in Seq(AdField) /\ Len(u) = m + 1 /\ \A j \in 1 .. m + 1 : u[j] = asked[of2[j]]
    <3>1. m + 1 \in Nat
      BY <1>2
    <3>2. /\ Chosen(asked, m + 1, of2) \in Seq(AdField) /\ Len(Chosen(asked, m + 1, of2)) = m + 1
          /\ \A j \in 1 .. m + 1 : Chosen(asked, m + 1, of2)[j] = asked[of2[j]] /\ of2[j] \in 1 .. Len(asked)
      BY <1>1, <2>3, <3>1, ChosenTyped, Zenon
    <3> QED
      BY <3>2, Zenon
  <2>7. f[k] = Encode(t)
    BY <1>2
  <2> HIDE DEF t, u
  <2>8. u = Append(t, x)
    <3> DEFINE w == Append(t, x)
    <3>1. /\ w \in Seq(AdField) /\ Len(w) = Len(t) + 1 /\ w[Len(t) + 1] = x
          /\ \A j \in 1 .. Len(t) : w[j] = t[j]
      BY <1>3, <2>5, AppendProperties
    <3> HIDE DEF w
    <3>2. Len(w) = m + 1 /\ w[m + 1] = x /\ \A j \in 1 .. m : w[j] = t[j]
      BY <2>5, <3>1
    <3>3. \A j \in 1 .. m + 1 : u[j] = w[j]
      <4>1. u[m + 1] = x
        <5>1. m + 1 \in 1 .. m + 1
          BY <1>2
        <5> QED
          BY <2>2, <2>6, <5>1 DEF x
      <4>2. ASSUME NEW j \in 1 .. m PROVE u[j] = w[j]
        <5>1. j \in 1 .. m + 1
          BY <1>2
        <5> QED
          BY <2>2, <2>5, <2>6, <3>2, <5>1, SMTT(30)
      <4> QED
        BY <2>4, <3>2, <4>1, <4>2
    <3>4. u = w
      BY <2>6, <3>1, <3>2, <3>3, SeqEqual
    <3> QED
      BY <3>4 DEF w
  <2>9. f[k + 1] = Encode(u)
    BY <1>3, <2>1, <2>5, <2>7, <2>8, EncodeMore
  <2>10. ASSUME NEW i \in 1 .. m + 1, NEW j \in 1 .. m + 1, i < j PROVE of2[i] < of2[j]
    <3>1. i \in 1 .. m /\ of2[i] = of[i] /\ of[i] \in 1 .. k
      <4>1. i \in 1 .. m
        BY <1>2, <2>10
      <4> QED
        BY <1>2, <2>2, <4>1
    <3>2. CASE j = m + 1
      BY <2>2, <3>1, <3>2
    <3>3. CASE j \in 1 .. m
      BY <1>2, <2>2, <2>10, <3>1, <3>3
    <3> QED
      BY <2>4, <3>2, <3>3
  <2>11. Len(h[k + 1]) <= BUF =>
           m + 1 = k + 1 /\ f[k + 1] = h[k + 1] /\ \A j \in 1 .. m + 1 : of2[j] = j
    <3> SUFFICES ASSUME Len(h[k + 1]) <= BUF
                 PROVE  m + 1 = k + 1 /\ f[k + 1] = h[k + 1] /\ \A j \in 1 .. m + 1 : of2[j] = j
      OBVIOUS
    <3>1. m = k /\ f[k] = h[k] /\ \A j \in 1 .. m : of[j] = j
      BY <1>2, <1>6
    <3> QED
      BY <1>4, <2>1, <2>2, <2>4, <3>1
  <2>12. Keeps(asked, f, h, k + 1, m + 1, of2)
    <3>1. m + 1 \in Nat
      BY <1>2
    <3> QED
      BY <2>3, <2>9, <2>10, <2>11, <3>1 DEF Keeps, u
  <2> QED
    BY <2>12
<1> QED
  BY <1>7, <1>8

LEMMA KeepsAll ==
  ASSUME NEW asked \in Seq(AdField), NEW f, Buffers(asked, f), NEW h, Encoding(asked, h)
  PROVE  \E m, of : Keeps(asked, f, h, Len(asked), m, of)
<1> DEFINE S == {k \in Nat : k <= Len(asked) => \E m, of : Keeps(asked, f, h, k, m, of)}
<1>1. Len(asked) \in Nat
  BY LenProperties
<1>2. 0 \in S
  <2> DEFINE of == [j \in 1 .. 0 |-> 1]
  <2>1. of \in [1 .. 0 -> 1 .. 0] /\ \A j \in 1 .. 0 : FALSE
    OBVIOUS
  <2> HIDE DEF of
  <2>2. f[0] = <<>> /\ h[0] = <<>>
    BY DEF Buffers, Encoding
  <2>3. Chosen(asked, 0, of) = <<>>
    <3>1. 0 \in 0 .. Len(asked) /\ 0 \in Nat
      BY <1>1
    <3>2. /\ Chosen(asked, 0, of) \in Seq(AdField) /\ Len(Chosen(asked, 0, of)) = 0
          /\ \A j \in 1 .. 0 : Chosen(asked, 0, of)[j] = asked[of[j]] /\ of[j] \in 1 .. Len(asked)
      <4> HIDE DEF S
      <4>1. of \in [1 .. 0 -> 1 .. 0]
        BY <2>1
      <4> QED
        BY <4>1, <3>1, ChosenTyped
    <3> QED
      BY <3>2, EmptySeq
  <2>4. Keeps(asked, f, h, 0, 0, of)
    BY <2>1, <2>2, <2>3, EncodeNone DEF Keeps
  <2> QED
    BY <2>4
<1>3. ASSUME NEW k \in Nat, k \in S PROVE k + 1 \in S
  <2> SUFFICES ASSUME k + 1 <= Len(asked) PROVE \E m, of : Keeps(asked, f, h, k + 1, m, of)
    OBVIOUS
  <2>1. k <= Len(asked)
    BY <1>1
  <2>2. PICK m, of : Keeps(asked, f, h, k, m, of)
    BY <1>3, <2>1
  <2> QED
    BY <2>2, KeepsOn
<1>4. Len(asked) \in S
  <2> HIDE DEF S
  <2> QED
    BY <1>1, <1>2, <1>3, NaturalSetInduction
<1> QED
  BY <1>1, <1>4

\* What ForwardedReparses says of one advertisement of the batch.
Reparses(d, bytes) ==
  LET fields == FieldsOf(bytes)
      asked == Resent(d) IN
  /\ Encode(fields) = bytes
  /\ \E from \in [DOMAIN fields -> DOMAIN asked] :
       /\ \A k \in DOMAIN fields : fields[k] = asked[from[k]]
       /\ \A j, k \in DOMAIN fields : j < k => from[j] < from[k]
  /\ Len(Encode(asked)) <= BUF => fields = asked

LEMMA SerializedReparses ==
  ASSUME NEW d, Resent(d) \in Seq(AdField)
  PROVE  Reparses(d, Serialized(d))
<1> DEFINE asked == Resent(d)
           n == Len(asked)
           b == Serialized(d)
<1>1. PICK f : Buffers(asked, f) /\ b = f[n]
  BY SerializedIs
<1> HIDE DEF b
<1>2. PICK h : Encoding(asked, h) /\ Encode(asked) = h[n]
  BY EncodeIs
<1>3. PICK m, of : Keeps(asked, f, h, n, m, of)
  BY <1>1, <1>2, KeepsAll
<1> DEFINE t == Chosen(asked, m, of)
<1>4. /\ m \in Nat /\ of \in [1 .. m -> 1 .. n] /\ b = Encode(t)
      /\ \A i, j \in 1 .. m : i < j => of[i] < of[j]
      /\ Len(h[n]) <= BUF => m = n /\ \A j \in 1 .. m : of[j] = j
  BY <1>1, <1>3 DEF Keeps
<1> HIDE DEF asked
<1>5. asked \in Seq(AdField) /\ n \in Nat /\ DOMAIN asked = 1 .. n
  BY LenProperties DEF asked
<1>6. t \in Seq(AdField) /\ Len(t) = m /\ DOMAIN t = 1 .. m /\ \A j \in 1 .. m : t[j] = asked[of[j]]
  <2>1. n \in 0 .. n
    BY <1>5
  <2>2. t \in Seq(AdField) /\ Len(t) = m /\ \A j \in 1 .. m : t[j] = asked[of[j]]
    <3>1. asked \in Seq(AdField) /\ n \in 0 .. Len(asked) /\ m \in Nat /\ of \in [1 .. m -> 1 .. n]
      BY <1>4, <1>5, <2>1
    <3> HIDE DEF n
    <3>2. /\ Chosen(asked, m, of) \in Seq(AdField) /\ Len(Chosen(asked, m, of)) = m
          /\ \A j \in 1 .. m : Chosen(asked, m, of)[j] = asked[of[j]] /\ of[j] \in 1 .. Len(asked)
      BY <3>1, ChosenTyped
    <3> QED
      BY <3>2, ZenonT(40)
  <2> HIDE DEF t
  <2> QED
    BY <2>2, LenProperties
<1> HIDE DEF t
<1>7. FieldsOf(b) = t
  <2>1. <<>> \in Seq(Nat) /\ NoField(<<>>)
    BY DEF NoField
  <2>2. FieldsOf(Encode(t) \o <<>>) = t /\ Encode(t) \in Seq(Nat)
    BY <1>6, <2>1, EncodedReadsBack
  <2>3. Encode(t) \o <<>> = Encode(t)
    BY <2>2, ConcatEmptySeq
  <2> QED
    BY <1>4, <2>2, <2>3
<1>8. Len(Encode(asked)) <= BUF => t = asked
  <2> SUFFICES ASSUME Len(Encode(asked)) <= BUF PROVE t = asked
    OBVIOUS
  <2>1. m = n /\ \A j \in 1 .. m : of[j] = j
    BY <1>2, <1>4
  <2>2. \A j \in 1 .. n : t[j] = asked[j]
    BY <1>6, <2>1, SMTT(30)
  <2> QED
    BY <1>5, <1>6, <2>1, <2>2, SeqEqual
<1>9. /\ of \in [DOMAIN t -> DOMAIN asked]
      /\ \A k \in DOMAIN t : t[k] = asked[of[k]]
      /\ \A j, k \in DOMAIN t : j < k => of[j] < of[k]
  BY <1>4, <1>5, <1>6
<1> QED
  BY <1>4, <1>7, <1>8, <1>9, Zenon DEF Reparses, b, asked

-----------------------------------------------------------------------------
(***************************************************************************)
(* Sequences and sets of the codec.                                        *)
(***************************************************************************)
LEMMA FunctionIsSeq ==
  ASSUME NEW S, NEW n \in Nat, NEW f \in [1 .. n -> S]
  PROVE  f \in Seq(S) /\ Len(f) = n /\ DOMAIN f = 1 .. n
<1>1. f \in Seq(S)
  BY SeqDef
<1>2. DOMAIN f = 1 .. Len(f) /\ Len(f) \in Nat
  BY <1>1, LenProperties
<1> QED
  BY <1>1, <1>2

LEMMA ReverseIs ==
  ASSUME NEW S, NEW s \in Seq(S)
  PROVE  /\ Reverse(s) \in Seq(S) /\ Len(Reverse(s)) = Len(s)
         /\ \A i \in 1 .. Len(s) : Reverse(s)[i] = s[(Len(s) - i) + 1]
<1> DEFINE n == Len(s)
<1>1. n \in Nat
  BY LenProperties
<1>2. \A i \in 1 .. n : (n - i) + 1 \in 1 .. n
  <2> HIDE DEF n
  <2> QED
    BY <1>1
<1>3. \A i \in 1 .. n : s[(n - i) + 1] \in S
  BY <1>2, ElementOfSeq
<1>4. Reverse(s) = [i \in 1 .. n |-> s[(n - i) + 1]]
  BY DEF Reverse
<1> HIDE DEF n
<1>5. Reverse(s) \in [1 .. n -> S]
  BY <1>3, <1>4
<1>6. Reverse(s) \in Seq(S) /\ Len(Reverse(s)) = n
  BY <1>1, <1>5, FunctionIsSeq
<1>7. \A i \in 1 .. n : Reverse(s)[i] = s[(n - i) + 1]
  BY <1>4
<1> QED
  BY <1>6, <1>7 DEF n

LEMMA ReverseTwice ==
  ASSUME NEW S, NEW s \in Seq(S)
  PROVE  Reverse(Reverse(s)) = s
<1> DEFINE n == Len(s)
           r == Reverse(s)
           q == Reverse(r)
<1>1. n \in Nat
  BY LenProperties
<1>2. r \in Seq(S) /\ Len(r) = n /\ \A i \in 1 .. n : r[i] = s[(n - i) + 1]
  BY ReverseIs
<1> HIDE DEF r
<1>3. q \in Seq(S) /\ Len(q) = Len(r) /\ \A i \in 1 .. Len(r) : q[i] = r[(Len(r) - i) + 1]
  BY <1>2, ReverseIs
<1> HIDE DEF q, n
<1>4. ASSUME NEW i \in 1 .. n PROVE q[i] = s[i]
  <2> DEFINE j == (n - i) + 1
  <2>1. j \in 1 .. n /\ (n - j) + 1 = i
    BY <1>1
  <2>2. q[i] = r[j]
    BY <1>2, <1>3
  <2> HIDE DEF j
  <2>3. r[j] = s[(n - j) + 1]
    BY <1>2, <2>1
  <2> QED
    BY <2>1, <2>2, <2>3
<1>5. Len(q) = Len(s) /\ \A i \in 1 .. Len(q) : q[i] = s[i]
  BY <1>2, <1>3, <1>4 DEF n
<1>6. q = s
  BY <1>3, <1>5, SeqEqual
<1> QED
  BY <1>6 DEF q, r

\* A finite set as a sequence: each element, and nothing else.
LEMMA SetToSeqIs ==
  ASSUME NEW S, IsFiniteSet(S)
  PROVE  /\ SetToSeq(S) \in Seq(S)
         /\ \A x \in S : \E i \in 1 .. Len(SetToSeq(S)) : SetToSeq(S)[i] = x
<1> DEFINE n == Cardinality(S)
           f == SetToSeq(S)
<1>1. n \in Nat /\ ExistsBijection(1 .. n, S)
  BY FS_CardinalityType
<1>2. f \in [1 .. n -> S] /\ IsInjective(f)
  <2>1. PICK g \in Bijection(1 .. n, S) : TRUE
    BY <1>1 DEF ExistsBijection
  <2>2. g \in [1 .. n -> S] /\ IsInjective(g)
    BY <2>1 DEF Bijection, Injection
  <2> QED
    BY <2>2 DEF SetToSeq
<1> HIDE DEF f, n
<1>3. f \in Seq(S) /\ Len(f) = n
  BY <1>1, <1>2, FunctionIsSeq
<1>4. f \in Injection(1 .. n, S)
  BY <1>2 DEF Injection
<1>5. Cardinality(1 .. n) = n
  <2>1. Cardinality(1 .. n) = IF 1 > n THEN 0 ELSE (n - 1) + 1
    BY <1>1, FS_Interval
  <2> QED
    BY <1>1, <2>1
<1>6. f \in Surjection(1 .. n, S)
  <2>1. Cardinality(1 .. n) = Cardinality(S)
    BY <1>5 DEF n
  <2> QED
    BY <1>4, <2>1, FS_Injection
<1>7. \A x \in S : \E i \in 1 .. n : f[i] = x
  BY <1>6 DEF Surjection
<1> QED
  BY <1>3, <1>7 DEF f

LEMMA GreatestIs ==
  ASSUME NEW S, S # {}, NEW n \in Nat, S \subseteq 1 .. n
  PROVE  Greatest(S) \in S /\ \A j \in S : j <= Greatest(S)
<1> DEFINE T == {k \in Nat : n - k \in S}
<1>1. PICK x \in S : TRUE
  OBVIOUS
<1>2. n - x \in T
  BY <1>1
<1> HIDE DEF T
<1>3. PICK k \in T : \A j \in T : k <= j
  BY <1>2, LeastNatural DEF T
<1>4. n - k \in S
  BY <1>3 DEF T
<1>5. ASSUME NEW j \in S PROVE j <= n - k
  <2>1. n - j \in T
    BY DEF T
  <2>2. k \in Nat
    BY <1>3 DEF T
  <2>3. j \in 1 .. n
    OBVIOUS
  <2> QED
    BY <1>3, <2>1, <2>2, <2>3
<1>6. \E i \in S : \A j \in S : j <= i
  BY <1>4, <1>5
<1> QED
  BY <1>6 DEF Greatest

LEMMA SpansFit ==
  ASSUME NEW n \in Nat, NEW w \in Nat \ {0}, NEW i \in 1 .. (n \div w)
  PROVE  /\ (i - 1) * w + 1 \in 1 .. n /\ i * w \in Nat /\ i * w <= n
         /\ i * w = (i - 1) * w + w
<1> DEFINE q == n \div w
<1>1. q \in Nat /\ q * w <= n
  OBVIOUS
<1> HIDE DEF q
<1>2. i \in 1 .. q
  BY DEF q
<1>3. i * w = (i - 1) * w + w /\ (i - 1) * w \in Nat
  BY <1>1, <1>2
<1>4. i * w <= q * w
  BY <1>1, <1>2
<1> QED
  BY <1>1, <1>3, <1>4

-----------------------------------------------------------------------------
(***************************************************************************)
(* AdvCodec: what a device holds.                                          *)
(***************************************************************************)
Width == {W16, W32, W128}
Uuid == {u \in Seq(Nat) : Len(u) \in Width}
ServiceItem == [uuid : Uuid, data : Seq(Nat)]
Device == [address : Seq(Nat), rssi : Int, flag : Seq(Nat), name : Seq(Nat), tx : Seq(Int),
           appearance : Seq(Nat), uuids : Seq(Uuid), manufacturer : Seq(Seq(Nat)),
           service : Seq(ServiceItem)]

LEMMA WidthIs == Width \subseteq Nat \ {0} /\ \A w \in Width : W16 <= w
  BY CodecAssumption DEF Width

LEMMA WidthsByType == \A t : ListWidth(t) \in Width /\ ServiceWidth(t) \in Width
  BY DEF ListWidth, ServiceWidth, Width

LEMMA PartTyped ==
  ASSUME NEW s \in Seq(Nat), NEW i \in Nat \ {0}, NEW j \in Nat, j <= Len(s)
  PROVE  SubSeq(s, i, j) \in Seq(Nat) /\ Len(SubSeq(s, i, j)) = IF i <= j THEN (j - i) + 1 ELSE 0
<1>1. Len(s) \in Nat
  BY LenProperties
<1>2. \A k \in i .. j : k \in 1 .. Len(s)
  BY <1>1
<1>3. \A k \in i .. j : s[k] \in Nat
  BY <1>2, ElementOfSeq
<1>4. i \in Int /\ j \in Int
  OBVIOUS
<1> QED
  BY <1>3, <1>4, SubSeqProperties

LEMMA UuidListTyped ==
  ASSUME NEW w \in Width, NEW s \in Seq(Nat)
  PROVE  UuidList(w, s) \in Seq(Uuid) /\ Len(UuidList(w, s)) = Len(s) \div w
<1> DEFINE n == Len(s)
           q == n \div w
<1>1. n \in Nat /\ w \in Nat \ {0}
  BY LenProperties, WidthIs
<1>2. q \in Nat
  BY <1>1
<1>3. ASSUME NEW i \in 1 .. q PROVE SubSeq(s, (i - 1) * w + 1, i * w) \in Uuid
  <2> DEFINE x == (i - 1) * w + 1
             y == i * w
  <2>1. x \in 1 .. n /\ y \in Nat /\ y <= n /\ y = (x - 1) + w
    <3>1. /\ (i - 1) * w + 1 \in 1 .. n /\ i * w \in Nat /\ i * w <= n
          /\ i * w = (i - 1) * w + w
      <4> HIDE DEF n
      <4> QED
        BY <1>1, SpansFit
    <3> QED
      BY <1>1, <3>1
  <2> HIDE DEF x, y
  <2>2. SubSeq(s, x, y) \in Seq(Nat) /\ Len(SubSeq(s, x, y)) = IF x <= y THEN (y - x) + 1 ELSE 0
    BY <1>1, <2>1, PartTyped
  <2>3. (IF x <= y THEN (y - x) + 1 ELSE 0) = w
    BY <1>1, <2>1
  <2>4. SubSeq(s, x, y) \in Uuid
    BY <2>2, <2>3 DEF Uuid
  <2> QED
    BY <2>4 DEF x, y
<1>4. UuidList(w, s) = [i \in 1 .. q |-> SubSeq(s, (i - 1) * w + 1, i * w)]
  BY DEF UuidList
<1> HIDE DEF n, q
<1>5. UuidList(w, s) \in [1 .. q -> Uuid]
  BY <1>3, <1>4
<1>6. UuidList(w, s) \in Seq(Uuid) /\ Len(UuidList(w, s)) = q
  BY <1>2, <1>5, FunctionIsSeq
<1> QED
  BY <1>6 DEF q, n

LEMMA ServiceDataTyped ==
  ASSUME NEW w \in Width, NEW s \in Seq(Nat), Len(s) >= w
  PROVE  ServiceData(w, s) \in ServiceItem
<1>1. w \in Nat \ {0} /\ Len(s) \in Nat
  BY LenProperties, WidthIs
<1>2. SubSeq(s, 1, w) \in Seq(Nat) /\ Len(SubSeq(s, 1, w)) = IF 1 <= w THEN (w - 1) + 1 ELSE 0
  <2>1. 1 \in Nat \ {0} /\ w <= Len(s)
    BY <1>1
  <2> QED
    BY <1>1, <2>1, PartTyped
<1>3. (IF 1 <= w THEN (w - 1) + 1 ELSE 0) = w
  BY <1>1
<1>4. SubSeq(s, 1, w) \in Uuid
  BY <1>2, <1>3 DEF Uuid
<1>5. SubSeq(s, w + 1, Len(s)) \in Seq(Nat)
  <2>1. w + 1 \in Nat \ {0} /\ Len(s) <= Len(s)
    BY <1>1
  <2> QED
    BY <1>1, <2>1, PartTyped
<1> QED
  BY <1>4, <1>5 DEF ServiceData, ServiceItem

LEMMA Int8Typed == \A n \in Int : Int8(n) \in Int
  BY DEF Int8

LEMMA ApplyFieldTyped ==
  ASSUME NEW d \in Device, NEW f \in AdField
  PROVE  ApplyField(d, f) \in Device
<1> DEFINE s == f.data
           n == Len(s)
<1>1. f.type \in Nat /\ s \in Seq(Nat) /\ n \in Nat
  BY LenProperties DEF AdField
<1>2. n > 0 => s[1] \in Nat
  <2>1. n > 0 => 1 \in 1 .. n
    BY <1>1
  <2> QED
    BY <1>1, <2>1, ElementOfSeq
<1>3. W16 \in Nat \ {0}
  BY CodecAssumption
<1> HIDE DEF n
<1>4. CASE f.type = 1 /\ n > 0
  <2>1. ApplyField(d, f) = [d EXCEPT !.flag = <<s[1]>>]
    BY <1>1, <1>4 DEF ApplyField, IsService, n
  <2>2. <<s[1]>> \in Seq(Nat)
    BY <1>2, <1>4
  <2> HIDE DEF s
  <2> QED
    BY <2>1, <2>2 DEF Device
<1>5. CASE f.type \in 2 .. 7
  <2> DEFINE u == UuidList(ListWidth(f.type), s)
  <2>1. ApplyField(d, f) = [d EXCEPT !.uuids = @ \o u]
    <3>1. f.type \notin {1, 8, 9, 10, 22, 25, 32, 33, 255}
      BY <1>1, <1>5
    <3>2. ~IsService(f)
      BY <3>1 DEF IsService
    <3> QED
      BY <1>5, <3>1, <3>2 DEF ApplyField
  <2>2. u \in Seq(Uuid)
    <3>1. ListWidth(f.type) \in Width
      BY WidthsByType
    <3> QED
      BY <1>1, <3>1, UuidListTyped
  <2> HIDE DEF u
  <2>3. d.uuids \in Seq(Uuid)
    BY DEF Device
  <2>4. d.uuids \o u \in Seq(Uuid)
    BY <2>2, <2>3, ConcatProperties
  <2> QED
    BY <2>1, <2>4 DEF Device
<1>6. CASE f.type \in {8, 9}
  <2>1. ApplyField(d, f) = [d EXCEPT !.name = s]
    BY <1>1, <1>6 DEF ApplyField, IsService
  <2> HIDE DEF s
  <2> QED
    BY <1>1, <2>1 DEF Device
<1>7. CASE f.type = 10 /\ n > 0
  <2> DEFINE t == Int8(s[1])
  <2>1. ApplyField(d, f) = [d EXCEPT !.tx = Append(@, t)]
    BY <1>1, <1>7 DEF ApplyField, IsService, n
  <2>2. t \in Int /\ d.tx \in Seq(Int)
    <3>1. s[1] \in Int
      BY <1>2, <1>7
    <3>2. d.tx \in Seq(Int)
      BY DEF Device
    <3> HIDE DEF s
    <3> QED
      BY <3>1, <3>2, Int8Typed
  <2> HIDE DEF t
  <2>3. Append(d.tx, t) \in Seq(Int)
    BY <2>2, AppendProperties
  <2> QED
    BY <2>1, <2>3 DEF Device
<1>8. CASE f.type = 25 /\ n >= W16
  <2> DEFINE t == SubSeq(s, 1, W16)
  <2>1. ApplyField(d, f) = [d EXCEPT !.appearance = t]
    BY <1>1, <1>8 DEF ApplyField, IsService, n
  <2>2. t \in Seq(Nat)
    <3>1. 1 \in Nat \ {0} /\ W16 \in Nat /\ W16 <= Len(s)
      BY <1>1, <1>3, <1>8 DEF n
    <3> QED
      BY <1>1, <3>1, PartTyped
  <2> HIDE DEF t
  <2> QED
    BY <2>1, <2>2 DEF Device
<1>9. CASE IsService(f)
  <2> DEFINE w == ServiceWidth(f.type)
             t == ServiceData(w, s)
  <2>1. ApplyField(d, f) = [d EXCEPT !.service = Append(@, t)]
    <3>1. f.type \in {22, 32, 33}
      BY <1>9 DEF IsService
    <3> QED
      BY <1>9, <3>1 DEF ApplyField
  <2>2. t \in ServiceItem
    <3>1. w \in Width /\ Len(s) >= w
      BY <1>9, WidthsByType DEF IsService
    <3> HIDE DEF w, s
    <3> QED
      BY <1>1, <3>1, ServiceDataTyped
  <2> HIDE DEF t
  <2>3. Append(d.service, t) \in Seq(ServiceItem)
    <3>1. d.service \in Seq(ServiceItem)
      BY DEF Device
    <3> QED
      BY <2>2, <3>1, AppendProperties
  <2> QED
    BY <2>1, <2>3 DEF Device
<1>10. CASE f.type = 255 /\ n >= W16
  <2>1. ApplyField(d, f) = [d EXCEPT !.manufacturer = Append(@, s)]
    BY <1>10 DEF ApplyField, n, IsService
  <2> HIDE DEF s
  <2>2. Append(d.manufacturer, s) \in Seq(Seq(Nat))
    <3>1. d.manufacturer \in Seq(Seq(Nat))
      BY DEF Device
    <3> QED
      BY <1>1, <3>1, AppendProperties
  <2> QED
    BY <2>1, <2>2 DEF Device
<1>11. CASE ~(\/ f.type = 1 /\ n > 0
              \/ f.type \in 2 .. 7
              \/ f.type \in {8, 9}
              \/ f.type = 10 /\ n > 0
              \/ f.type = 25 /\ n >= W16
              \/ IsService(f)
              \/ f.type = 255 /\ n >= W16)
  <2>1. ApplyField(d, f) = d
    BY <1>11 DEF ApplyField, n
  <2> QED
    BY <2>1
<1> QED
  BY <1>4, <1>5, <1>6, <1>7, <1>8, <1>9, <1>10, <1>11

\* The device after each AD structure.
Applying(d, fields, f) ==
  /\ f \in [0 .. Len(fields) -> Device]
  /\ f[0] = d
  /\ \A k \in 1 .. Len(fields) : f[k] = ApplyField(f[k - 1], fields[k])

LEMMA AppliedIs ==
  ASSUME NEW d \in Device, NEW fields \in Seq(AdField)
  PROVE  \E f : Applying(d, fields, f) /\ Applied(d, fields) = f[Len(fields)]
<1> DEFINE n == Len(fields)
           X == Device
           a == d
           Pass(x, k) == ApplyField(x, fields[k])
           G == [k \in 1 .. n |-> [x \in X |-> Pass(x, k)]]
           Step(g) == [k \in 0 .. n |-> IF k = 0 THEN a ELSE Pass(g[k - 1], k)]
<1>1. n \in Nat
  BY LenProperties
<1>2. a \in X
  OBVIOUS
<1>3. ASSUME NEW k \in 1 .. n, NEW x \in X PROVE Pass(x, k) \in X
  <2>1. fields[k] \in AdField
    BY ElementOfSeq
  <2> QED
    BY <2>1, ApplyFieldTyped
<1> HIDE DEF n, X, a, Pass
<1>4. G \in [1 .. n -> [X -> X]]
  BY <1>3
<1>5. PICK f \in [0 .. n -> X] : f[0] = a /\ \A k \in 1 .. n : f[k] = G[k][f[k - 1]]
  <2> HIDE DEF G
  <2>1. \E f \in [0 .. n -> X] : Iterates(f, a, n, G)
    BY <1>1, <1>2, <1>4, Recursion
  <2> QED
    BY <2>1 DEF Iterates
<1>6. f = Step(f)
  <2>1. \A k \in 1 .. n : f[k] = Pass(f[k - 1], k)
    <3> SUFFICES ASSUME NEW k \in 1 .. n PROVE f[k] = Pass(f[k - 1], k)
      OBVIOUS
    <3>1. k - 1 \in 0 .. n
      BY <1>1
    <3> QED
      BY <1>5, <3>1
  <2>2. \A k \in 0 .. n : f[k] = IF k = 0 THEN a ELSE Pass(f[k - 1], k)
    BY <1>1, <1>5, <2>1
  <2>3. f = [k \in 0 .. n |-> f[k]]
    BY <1>5
  <2> QED
    BY <2>2, <2>3
<1> DEFINE After == CHOOSE g : g = Step(g)
<1>7. After = Step(After)
  BY <1>6, Zenon
<1>8. Applied(d, fields) = After[n]
  BY Zenon DEF Applied, a, n, Pass
<1> HIDE DEF After
<1>9. After[0] = a /\ \A k \in 1 .. n : After[k] = Pass(After[k - 1], k)
  BY <1>1, <1>7
<1>10. \A k \in 0 .. n : After[k] \in X
  <2>1. \A k \in 1 .. n : After[k - 1] \in X => After[k] = G[k][After[k - 1]]
    BY <1>9
  <2> HIDE DEF G
  <2> QED
    BY <1>1, <1>2, <1>4, <1>9, <2>1, IteratesIn
<1>11. After \in [0 .. n -> X]
  <2>1. After = [k \in 0 .. n |-> After[k]]
    BY <1>7
  <2> QED
    BY <1>10, <2>1
<1> QED
  BY <1>8, <1>9, <1>11 DEF Applying, X, a, n, Pass

LEMMA AppliedTyped ==
  ASSUME NEW d \in Device, NEW fields \in Seq(AdField)
  PROVE  Applied(d, fields) \in Device
<1>1. PICK f : Applying(d, fields, f) /\ Applied(d, fields) = f[Len(fields)]
  BY AppliedIs
<1>2. Len(fields) \in 0 .. Len(fields)
  BY LenProperties
<1> QED
  BY <1>1, <1>2 DEF Applying

\* The proxy sends AD structures of every device.
LEMMA ResentTyped ==
  ASSUME NEW d \in Device
  PROVE  Resent(d) \in Seq(AdField)
<1> DEFINE a == IF d.flag = <<>> THEN <<>> ELSE <<[type |-> 1, data |-> d.flag]>>
           m == [i \in DOMAIN d.manufacturer |-> [type |-> 255, data |-> Cut(d.manufacturer[i], MFR_MAX)]]
           s == [i \in DOMAIN d.service |->
                   [type |-> 22, data |-> get_16bit(d.service[i].uuid) \o Cut(d.service[i].data, SVC_MAX)]]
           b == IF d.name = <<>> THEN <<>> ELSE <<[type |-> 9, data |-> Cut(d.name, NAME_MAX)]>>
<1>1. \A x \in Seq(Nat), n \in Nat : Cut(x, n) \in Seq(Nat)
  <2> SUFFICES ASSUME NEW x \in Seq(Nat), NEW n \in Nat PROVE Cut(x, n) \in Seq(Nat)
    OBVIOUS
  <2> DEFINE j == IF Len(x) < n THEN Len(x) ELSE n
  <2>1. Len(x) \in Nat
    BY LenProperties
  <2>2. 1 \in Nat \ {0} /\ j \in Nat /\ j <= Len(x)
    BY <2>1
  <2> HIDE DEF j
  <2>3. SubSeq(x, 1, j) \in Seq(Nat)
    BY <2>2, PartTyped
  <2> QED
    BY <2>3 DEF Cut, j
<1>2. MFR_MAX \in Nat /\ SVC_MAX \in Nat /\ NAME_MAX \in Nat /\ W16 \in Nat \ {0}
  BY CodecAssumption
<1>3. /\ d.flag \in Seq(Nat) /\ d.name \in Seq(Nat) /\ d.manufacturer \in Seq(Seq(Nat))
      /\ d.service \in Seq(ServiceItem)
  BY DEF Device
<1>4. \A t \in Nat, x \in Seq(Nat) : <<[type |-> t, data |-> x]>> \in Seq(AdField)
  <2> SUFFICES ASSUME NEW t \in Nat, NEW x \in Seq(Nat) PROVE <<[type |-> t, data |-> x]>> \in Seq(AdField)
    OBVIOUS
  <2> DEFINE y == [type |-> t, data |-> x]
  <2>1. y \in AdField
    BY DEF AdField
  <2> HIDE DEF y
  <2>2. <<y>> \in Seq(AdField)
    BY <2>1
  <2> QED
    BY <2>2 DEF y
<1>5. a \in Seq(AdField)
  <2>1. <<[type |-> 1, data |-> d.flag]>> \in Seq(AdField)
    BY <1>3, <1>4
  <2>2. <<>> \in Seq(AdField)
    OBVIOUS
  <2> QED
    BY <2>1, <2>2, Zenon
<1>6. b \in Seq(AdField)
  <2>1. Cut(d.name, NAME_MAX) \in Seq(Nat)
    BY <1>1, <1>2, <1>3
  <2>2. <<[type |-> 9, data |-> Cut(d.name, NAME_MAX)]>> \in Seq(AdField)
    BY <1>4, <2>1
  <2>3. <<>> \in Seq(AdField)
    OBVIOUS
  <2> QED
    BY <2>2, <2>3, Zenon
<1>7. m \in Seq(AdField)
  <2> DEFINE k == Len(d.manufacturer)
  <2>1. k \in Nat /\ DOMAIN d.manufacturer = 1 .. k
    BY <1>3, LenProperties
  <2>2. \A i \in 1 .. k : d.manufacturer[i] \in Seq(Nat)
    BY <1>3, ElementOfSeq
  <2>3. \A i \in 1 .. k : [type |-> 255, data |-> Cut(d.manufacturer[i], MFR_MAX)] \in AdField
    <3>1. \A i \in 1 .. k : Cut(d.manufacturer[i], MFR_MAX) \in Seq(Nat)
      BY <1>1, <1>2, <2>2
    <3> QED
      BY <3>1 DEF AdField
  <2> HIDE DEF k
  <2>4. m \in [1 .. k -> AdField]
    BY <2>1, <2>3
  <2> HIDE DEF m
  <2> QED
    BY <2>1, <2>4, FunctionIsSeq
<1>8. s \in Seq(AdField)
  <2> DEFINE k == Len(d.service)
             e(i) == get_16bit(d.service[i].uuid) \o Cut(d.service[i].data, SVC_MAX)
  <2>1. k \in Nat /\ DOMAIN d.service = 1 .. k
    BY <1>3, LenProperties
  <2>2. ASSUME NEW i \in 1 .. k PROVE [type |-> 22, data |-> e(i)] \in AdField
    <3> DEFINE x == d.service[i]
               u == get_16bit(x.uuid)
               v == Cut(x.data, SVC_MAX)
    <3>1. x \in ServiceItem
      BY <1>3, ElementOfSeq
    <3>2. x.uuid \in Seq(Nat) /\ Len(x.uuid) \in Width /\ x.data \in Seq(Nat)
      BY <3>1 DEF ServiceItem, Uuid
    <3> HIDE DEF x
    <3>3. u \in Seq(Nat)
      <4>1. 1 \in Nat \ {0} /\ W16 \in Nat /\ W16 <= Len(x.uuid)
        BY <1>2, <3>2, WidthIs
      <4>2. SubSeq(x.uuid, 1, W16) \in Seq(Nat)
        BY <3>2, <4>1, PartTyped
      <4> QED
        BY <4>2 DEF get_16bit
    <3>4. v \in Seq(Nat)
      BY <1>1, <1>2, <3>2
    <3> HIDE DEF u, v
    <3>5. u \o v \in Seq(Nat)
      BY <3>3, <3>4, ConcatProperties
    <3> QED
      BY <3>5 DEF x, u, v, AdField
  <2> HIDE DEF k, e
  <2>3. s = [i \in 1 .. k |-> [type |-> 22, data |-> e(i)]]
    BY <2>1 DEF e
  <2> HIDE DEF s
  <2>4. s \in [1 .. k -> AdField]
    BY <2>2, <2>3
  <2> QED
    BY <2>1, <2>4, FunctionIsSeq
<1>9. Resent(d) = ((a \o m) \o s) \o b
  BY DEF Resent
<1> HIDE DEF a, m, s, b
<1>10. a \o m \in Seq(AdField)
  BY <1>5, <1>7, ConcatProperties
<1>11. (a \o m) \o s \in Seq(AdField)
  BY <1>8, <1>10, ConcatProperties
<1>12. ((a \o m) \o s) \o b \in Seq(AdField)
  BY <1>6, <1>11, ConcatProperties
<1> QED
  BY <1>9, <1>12

-----------------------------------------------------------------------------
(***************************************************************************)
(* AdvCodec: the events of the HCI socket.                                 *)
(***************************************************************************)
AirReport == [addr : Seq(Nat), fields : Seq(AdField), tail : Seq(Nat), rssi : Nat]

\* A report is made of bytes, which are naturals.
LEMMA ReportTyped ==
  ASSUME NEW r \in Report
  PROVE  r \in AirReport /\ r.fields \in Seq(Field) /\ r.fields \in Seq(AdField)
<1>1. Byte \subseteq Nat
  BY DEF Byte
<1> HIDE DEF Byte
<1>2. \A s \in Seq(Byte) : s \in Seq(Nat)
  BY <1>1, SeqMonotonic
<1>3. Field \subseteq AdField
  BY <1>1, <1>2 DEF Field, AdField
<1>4. \A s \in Seq(Field) : s \in Seq(AdField)
  BY <1>3, SeqMonotonic
<1>5. r \in AirReport
  BY <1>1, <1>2, <1>4 DEF Report, AirReport
<1>6. r.fields \in Seq(Field)
  BY DEF Report
<1> QED
  BY <1>4, <1>5, <1>6

LEMMA AirTyped ==
  ASSUME NEW a \in Air
  PROVE  /\ a \in Seq(AirReport)
         /\ \A i \in 1 .. Len(a) : /\ a[i] \in Report /\ a[i] \in AirReport
                                   /\ Len(a[i].addr) = ADDR /\ NoField(a[i].tail)
<1>1. a \in Seq(Report) /\ \A i \in DOMAIN a : Len(a[i].addr) = ADDR /\ NoField(a[i].tail)
  BY CodecAssumption
<1>2. Report \subseteq AirReport
  BY ReportTyped
<1>3. a \in Seq(AirReport)
  BY <1>1, <1>2, SeqMonotonic
<1>4. DOMAIN a = 1 .. Len(a)
  BY <1>1, LenProperties
<1>5. \A i \in 1 .. Len(a) : a[i] \in Report
  BY <1>1, ElementOfSeq
<1> QED
  BY <1>1, <1>2, <1>3, <1>4, <1>5

LEMMA NoDataTyped == NoData \in Device
<1>1. /\ <<>> \in Seq(Nat) /\ <<>> \in Seq(Int) /\ <<>> \in Seq(Uuid) /\ <<>> \in Seq(Seq(Nat))
      /\ <<>> \in Seq(ServiceItem)
  BY EmptySeq
<1> QED
  BY <1>1 DEF NoData, Device

LEMMA FieldsOfTyped ==
  ASSUME NEW b \in Seq(Nat)
  PROVE  FieldsOf(b) \in Seq(AdField)
<1>1. PICK g : FieldReadingOf(b, g) /\ FieldsOf(b) = g[Len(b)].got
  BY FieldsOfIs
<1>2. Len(b) \in 0 .. Len(b)
  BY LenProperties
<1>3. g[Len(b)] \in FieldReading
  BY <1>1, <1>2 DEF FieldReadingOf
<1> QED
  BY <1>1, <1>3 DEF FieldReading

ReportReading == [pos : Nat, got : Seq(Device)]

\* The device a report starts as.
Started(address, rssi) == [NoData EXCEPT !.address = address, !.rssi = Int8(rssi)]

LEMMA StartedTyped ==
  ASSUME NEW address \in Seq(Nat), NEW rssi \in Int
  PROVE  Started(address, rssi) \in Device
<1>1. Int8(rssi) \in Int
  BY Int8Typed
<1> QED
  BY <1>1, NoDataTyped DEF Started, Device

LEMMA ReadReportTyped ==
  ASSUME NEW evt \in Seq(Nat), NEW at \in ReportReading
  PROVE  ReadReport(evt, at) \in ReportReading
<1> DEFINE p == at.pos
           L == Len(evt)
           data == p + HEAD
           len == evt[data]
           end == data + len + 1
<1>1. p \in Nat /\ at.got \in Seq(Device) /\ L \in Nat
  BY LenProperties DEF ReportReading
<1>2. ADDR \in Nat \ {0} /\ HEAD \in Nat /\ HEAD = ADDR + 3
  BY CodecAssumption DEF HEAD
<1>3. CASE data > L \/ end > L
  BY <1>3 DEF ReadReport
<1>4. CASE ~(data > L \/ end > L)
  <2> DEFINE addr == SubSeq(evt, p + 3, p + 2 + ADDR)
             load == SubSeq(evt, data + 1, end - 1)
             x == parse_ad_payload(load, Started(addr, evt[end]))
  <2>1. ReadReport(evt, at) = [pos |-> end, got |-> Append(at.got, x)]
    BY <1>4, Zenon DEF ReadReport, Started
  <2>2. data \in 1 .. L
    <3>1. p \in Nat /\ HEAD \in Nat /\ HEAD > 0 /\ L \in Nat /\ ~(p + HEAD > L)
      BY <1>1, <1>2, <1>4
    <3> HIDE DEF p, L
    <3>2. p + HEAD \in 1 .. L
      BY <3>1
    <3> QED
      BY <3>2 DEF p, L
  <2>3. len \in Nat
    <3> HIDE DEF data
    <3> QED
      BY <2>2, ElementOfSeq
  <2> HIDE DEF p, len, L
  <2>4. end \in 1 .. L /\ end - 1 \in Nat /\ end - 1 <= L /\ data + 1 \in Nat \ {0} /\ end \in Nat
    BY <1>1, <1>2, <1>4, <2>3
  <2>5. /\ p + 3 \in Nat \ {0} /\ p + 2 + ADDR \in Nat /\ p + 2 + ADDR <= L
    BY <1>1, <1>2, <2>2
  <2> HIDE DEF end, data
  <2>6. evt[end] \in Nat
    BY <2>4, ElementOfSeq DEF L
  <2>7. addr \in Seq(Nat)
    BY <2>5, PartTyped DEF L
  <2>8. load \in Seq(Nat)
    BY <2>4, PartTyped DEF L
  <2> HIDE DEF addr, load
  <2>9. x \in Device
    <3>1. FieldsOf(load) \in Seq(AdField)
      BY <2>8, FieldsOfTyped
    <3>2. Started(addr, evt[end]) \in Device
      BY <2>6, <2>7, StartedTyped
    <3>3. Applied(Started(addr, evt[end]), FieldsOf(load)) \in Device
      BY <3>1, <3>2, AppliedTyped
    <3> QED
      BY <3>3 DEF parse_ad_payload
  <2> HIDE DEF x
  <2>10. Append(at.got, x) \in Seq(Device)
    BY <1>1, <2>9, AppendProperties
  <2> QED
    BY <2>1, <2>4, <2>10 DEF ReportReading
<1> QED
  BY <1>3, <1>4

\* handle_le_meta_event_() after each pass of its loop.
ReportReadingOf(evt, g) ==
  /\ g \in [0 .. evt[2] -> ReportReading]
  /\ g[0] = [pos |-> 2, got |-> <<>>]
  /\ \A k \in 1 .. evt[2] : g[k] = ReadReport(evt, g[k - 1])

LEMMA HandledIs ==
  ASSUME NEW evt \in Seq(Nat), Len(evt) >= 2, evt[1] = LE_ADVERTISING_REPORT
  PROVE  \E g : ReportReadingOf(evt, g) /\ handle_le_meta_event(evt) = g[evt[2]].got
<1> DEFINE n == evt[2]
           X == ReportReading
           a == [pos |-> 2, got |-> <<>>]
           Pass(x, k) == ReadReport(evt, x)
           G == [k \in 1 .. n |-> [x \in X |-> Pass(x, k)]]
           Step(g) == [k \in 0 .. n |-> IF k = 0 THEN a ELSE Pass(g[k - 1], k)]
<1>1. n \in Nat
  <2>1. 2 \in 1 .. Len(evt)
    BY LenProperties
  <2> QED
    BY <2>1, ElementOfSeq
<1>2. a \in X
  <2>1. <<>> \in Seq(Device)
    BY EmptySeq
  <2> QED
    BY <2>1 DEF ReportReading
<1>3. ASSUME NEW k \in 1 .. n, NEW x \in X PROVE Pass(x, k) \in X
  BY ReadReportTyped
<1> HIDE DEF n, X, a, Pass
<1>4. G \in [1 .. n -> [X -> X]]
  BY <1>3
<1>5. PICK f \in [0 .. n -> X] : f[0] = a /\ \A k \in 1 .. n : f[k] = G[k][f[k - 1]]
  <2> HIDE DEF G
  <2>1. \E f \in [0 .. n -> X] : Iterates(f, a, n, G)
    BY <1>1, <1>2, <1>4, Recursion
  <2> QED
    BY <2>1 DEF Iterates
<1>6. f = Step(f)
  <2>1. \A k \in 1 .. n : f[k] = Pass(f[k - 1], k)
    <3> SUFFICES ASSUME NEW k \in 1 .. n PROVE f[k] = Pass(f[k - 1], k)
      OBVIOUS
    <3>1. k - 1 \in 0 .. n
      BY <1>1
    <3> QED
      BY <1>5, <3>1
  <2>2. \A k \in 0 .. n : f[k] = IF k = 0 THEN a ELSE Pass(f[k - 1], k)
    BY <1>1, <1>5, <2>1
  <2>3. f = [k \in 0 .. n |-> f[k]]
    BY <1>5
  <2> QED
    BY <2>2, <2>3
<1> DEFINE At == CHOOSE g : g = Step(g)
<1>7. At = Step(At)
  BY <1>6, Zenon
<1>8. handle_le_meta_event(evt) = At[n].got
  <2>1. ~(Len(evt) < 2)
    BY LenProperties
  <2> QED
    BY <2>1, Zenon DEF handle_le_meta_event, a, n, Pass
<1> HIDE DEF At
<1>9. At[0] = a /\ \A k \in 1 .. n : At[k] = Pass(At[k - 1], k)
  BY <1>1, <1>7
<1>10. \A k \in 0 .. n : At[k] \in X
  <2>1. \A k \in 1 .. n : At[k - 1] \in X => At[k] = G[k][At[k - 1]]
    BY <1>9
  <2> HIDE DEF G
  <2> QED
    BY <1>1, <1>2, <1>4, <1>9, <2>1, IteratesIn
<1>11. At \in [0 .. n -> X]
  <2>1. At = [k \in 0 .. n |-> At[k]]
    BY <1>7
  <2> QED
    BY <1>10, <2>1
<1> QED
  BY <1>8, <1>9, <1>11 DEF ReportReadingOf, X, a, n, Pass

LEMMA HandledTyped ==
  ASSUME NEW evt \in Seq(Nat)
  PROVE  handle_le_meta_event(evt) \in Seq(Device)
<1>1. CASE Len(evt) < 2 \/ evt[1] # LE_ADVERTISING_REPORT
  <2>1. handle_le_meta_event(evt) = <<>>
    BY <1>1, Zenon DEF handle_le_meta_event
  <2> QED
    BY <2>1, EmptySeq
<1>2. CASE ~(Len(evt) < 2) /\ evt[1] = LE_ADVERTISING_REPORT
  <2>1. Len(evt) \in Nat /\ Len(evt) >= 2 /\ 2 \in 1 .. Len(evt)
    BY <1>2, LenProperties
  <2>2. evt[2] \in Nat
    BY <2>1, ElementOfSeq
  <2>3. PICK g : ReportReadingOf(evt, g) /\ handle_le_meta_event(evt) = g[evt[2]].got
    BY <1>2, <2>1, HandledIs
  <2>4. evt[2] \in 0 .. evt[2]
    BY <2>2
  <2>5. g[evt[2]] \in ReportReading
    BY <2>3, <2>4 DEF ReportReadingOf
  <2> QED
    BY <2>3, <2>5 DEF ReportReading
<1> QED
  BY <1>1, <1>2

LEMMA FramedTyped ==
  ASSUME NEW r \in AirReport
  PROVE  Framed(r) \in Seq(Nat) /\ Payload(r) \in Seq(Nat)
<1> DEFINE y == Payload(r)
<1>1. r.addr \in Seq(Nat) /\ r.fields \in Seq(AdField) /\ r.tail \in Seq(Nat) /\ r.rssi \in Nat
  BY DEF AirReport
<1>2. Encode(r.fields) \in Seq(Nat)
  <2>1. <<>> \in Seq(Nat) /\ NoField(<<>>)
    BY DEF NoField
  <2> QED
    BY <1>1, <2>1, EncodedReadsBack
<1>3. y \in Seq(Nat)
  BY <1>1, <1>2, ConcatProperties DEF Payload
<1> HIDE DEF y
<1>4. Len(y) \in Nat
  BY <1>3, LenProperties
<1> DEFINE a == <<0, 0>>
           b == <<Len(y)>>
           e == <<r.rssi>>
<1>5. a \in Seq(Nat) /\ b \in Seq(Nat) /\ e \in Seq(Nat)
  BY <1>1, <1>4
<1>6. Framed(r) = (((a \o r.addr) \o b) \o y) \o e
  BY DEF Framed, y
<1> HIDE DEF a, b, e
<1>7. a \o r.addr \in Seq(Nat)
  BY <1>1, <1>5, ConcatProperties
<1>8. (a \o r.addr) \o b \in Seq(Nat)
  BY <1>5, <1>7, ConcatProperties
<1>9. ((a \o r.addr) \o b) \o y \in Seq(Nat)
  BY <1>3, <1>8, ConcatProperties
<1>10. (((a \o r.addr) \o b) \o y) \o e \in Seq(Nat)
  BY <1>5, <1>9, ConcatProperties
<1> QED
  BY <1>3, <1>6, <1>10 DEF y

\* The bytes of the event up to each report.
Framing(reports, f) ==
  /\ f \in [0 .. Len(reports) -> Seq(Nat)]
  /\ f[0] = <<LE_ADVERTISING_REPORT, Len(reports)>>
  /\ \A k \in 1 .. Len(reports) : f[k] = f[k - 1] \o Framed(reports[k])

LEMMA EventIs ==
  ASSUME NEW reports \in Seq(AirReport)
  PROVE  \E f : Framing(reports, f) /\ Event(reports) = f[Len(reports)]
<1> DEFINE n == Len(reports)
           X == Seq(Nat)
           a == <<LE_ADVERTISING_REPORT, Len(reports)>>
           Pass(x, k) == x \o Framed(reports[k])
           G == [k \in 1 .. n |-> [x \in X |-> Pass(x, k)]]
           Step(g) == [k \in 0 .. n |-> IF k = 0 THEN a ELSE Pass(g[k - 1], k)]
<1>1. n \in Nat
  BY LenProperties
<1>2. a \in X
  BY LenProperties DEF LE_ADVERTISING_REPORT
<1>3. ASSUME NEW k \in 1 .. n, NEW x \in X PROVE Pass(x, k) \in X
  <2>1. reports[k] \in AirReport
    BY ElementOfSeq
  <2>2. Framed(reports[k]) \in Seq(Nat)
    BY <2>1, FramedTyped
  <2> QED
    BY <2>2, ConcatProperties
<1> HIDE DEF n, X, a, Pass
<1>4. G \in [1 .. n -> [X -> X]]
  BY <1>3
<1>5. PICK f \in [0 .. n -> X] : f[0] = a /\ \A k \in 1 .. n : f[k] = G[k][f[k - 1]]
  <2> HIDE DEF G
  <2>1. \E f \in [0 .. n -> X] : Iterates(f, a, n, G)
    BY <1>1, <1>2, <1>4, Recursion
  <2> QED
    BY <2>1 DEF Iterates
<1>6. f = Step(f)
  <2>1. \A k \in 1 .. n : f[k] = Pass(f[k - 1], k)
    <3> SUFFICES ASSUME NEW k \in 1 .. n PROVE f[k] = Pass(f[k - 1], k)
      OBVIOUS
    <3>1. k - 1 \in 0 .. n
      BY <1>1
    <3> QED
      BY <1>5, <3>1
  <2>2. \A k \in 0 .. n : f[k] = IF k = 0 THEN a ELSE Pass(f[k - 1], k)
    BY <1>1, <1>5, <2>1
  <2>3. f = [k \in 0 .. n |-> f[k]]
    BY <1>5
  <2> QED
    BY <2>2, <2>3
<1> DEFINE Bytes == CHOOSE g : g = Step(g)
<1>7. Bytes = Step(Bytes)
  BY <1>6, Zenon
<1>8. Event(reports) = Bytes[n]
  BY Zenon DEF Event, a, n, Pass
<1> HIDE DEF Bytes
<1>9. Bytes[0] = a /\ \A k \in 1 .. n : Bytes[k] = Pass(Bytes[k - 1], k)
  BY <1>1, <1>7
<1>10. \A k \in 0 .. n : Bytes[k] \in X
  <2>1. \A k \in 1 .. n : Bytes[k - 1] \in X => Bytes[k] = G[k][Bytes[k - 1]]
    BY <1>9
  <2> HIDE DEF G
  <2> QED
    BY <1>1, <1>2, <1>4, <1>9, <2>1, IteratesIn
<1>11. Bytes \in [0 .. n -> X]
  <2>1. Bytes = [k \in 0 .. n |-> Bytes[k]]
    BY <1>7
  <2> QED
    BY <1>10, <2>1
<1> QED
  BY <1>8, <1>9, <1>11 DEF Framing, X, a, n, Pass

LEMMA EventTyped ==
  ASSUME NEW reports \in Seq(AirReport)
  PROVE  Event(reports) \in Seq(Nat)
<1>1. PICK f : Framing(reports, f) /\ Event(reports) = f[Len(reports)]
  BY EventIs
<1>2. Len(reports) \in 0 .. Len(reports)
  BY LenProperties
<1> QED
  BY <1>1, <1>2 DEF Framing

-----------------------------------------------------------------------------
(***************************************************************************)
(* AdvCodec: the device BlueZ describes.                                   *)
(***************************************************************************)
LEMMA FiniteImage ==
  ASSUME NEW S, IsFiniteSet(S), NEW f
  PROVE  IsFiniteSet({f[x] : x \in S})
<1> DEFINE T == {f[x] : x \in S}
           g == [x \in S |-> f[x]]
<1>1. g \in Surjection(S, T)
  BY DEF Surjection
<1> HIDE DEF g, T
<1>2. IsFiniteSet(T)
  BY <1>1, FS_Surjection
<1> QED
  BY <1>2 DEF T

LEMMA FiniteValues ==
  ASSUME NEW S, NEW s \in Seq(S)
  PROVE  IsFiniteSet(ToSet(s)) /\ ToSet(s) \subseteq S /\ ToSet(s) = {s[i] : i \in 1 .. Len(s)}
<1>1. Len(s) \in Nat /\ DOMAIN s = 1 .. Len(s)
  BY LenProperties
<1>2. IsFiniteSet(1 .. Len(s))
  BY <1>1, FS_Interval
<1>3. ToSet(s) = {s[i] : i \in 1 .. Len(s)}
  BY <1>1 DEF ToSet
<1>4. ToSet(s) \subseteq S
  BY <1>3, ElementOfSeq
<1>5. IsFiniteSet({s[i] : i \in 1 .. Len(s)})
  BY <1>2, FiniteImage
<1> QED
  BY <1>3, <1>4, <1>5

\* UUIDs as 128 bits, and as text.
LEMMA As128Typed ==
  ASSUME NEW u \in Uuid
  PROVE  /\ as_128bit(u) \in Seq(Nat) /\ Len(as_128bit(u)) = W128 /\ as_128bit(u) \in Uuid
         /\ as_128bit(as_128bit(u)) = as_128bit(u)
<1> DEFINE v == as_128bit(u)
<1>1. /\ u \in Seq(Nat) /\ Len(u) \in Width /\ W16 \in Nat /\ W32 \in Nat /\ W128 \in Nat
      /\ W16 <= W32 /\ W32 < W128 /\ Base \in Seq(Nat) /\ Len(Base) = W128 - W32
  <2>1. Byte \subseteq Nat
    BY DEF Byte
  <2>2. Base \in Seq(Byte)
    BY CodecAssumption
  <2> HIDE DEF Byte
  <2>3. Base \in Seq(Nat)
    BY <2>1, <2>2, SeqMonotonic
  <2> QED
    BY <2>3, CodecAssumption DEF Uuid
<1>2. v \in Seq(Nat) /\ Len(v) = W128
  <2>1. CASE Len(u) = W128
    BY <1>1, <2>1 DEF as_128bit
  <2>2. CASE Len(u) # W128
    <3> DEFINE n == Len(u)
               z == Zeros(W32 - n)
    <3>1. n \in Nat /\ n <= W32 /\ W32 - n \in Nat
      BY <1>1, <2>2 DEF Width
    <3>2. z \in Seq(Nat) /\ Len(z) = W32 - n
      <4> DEFINE q == W32 - n
      <4>1. z = [i \in 1 .. q |-> 0]
        BY DEF Zeros
      <4>2. q \in Nat
        BY <3>1
      <4> HIDE DEF q, z
      <4>3. z \in [1 .. q -> Nat]
        BY <4>1
      <4>4. z \in Seq(Nat) /\ Len(z) = q
        BY <4>2, <4>3, FunctionIsSeq
      <4> QED
        BY <4>4 DEF q
    <3>3. v = (Base \o u) \o z
      BY <2>2 DEF as_128bit
    <3> HIDE DEF z, v
    <3>4. Base \o u \in Seq(Nat) /\ Len(Base \o u) = Len(Base) + n
      BY <1>1, ConcatProperties
    <3> DEFINE b == Base \o u
    <3> HIDE DEF b
    <3>5. b \in Seq(Nat) /\ Len(b) = Len(Base) + n
      BY <3>4 DEF b
    <3>6. b \o z \in Seq(Nat) /\ Len(b \o z) = Len(b) + Len(z)
      BY <3>2, <3>5, ConcatProperties
    <3>7. (Len(Base) + n) + (W32 - n) = W128
      <4> HIDE DEF n
      <4> QED
        BY <1>1, <3>1
    <3> QED
      BY <3>2, <3>3, <3>5, <3>6, <3>7 DEF b
  <2> QED
    BY <2>1, <2>2
<1> HIDE DEF v
<1>3. v \in Uuid
  BY <1>2 DEF Uuid, Width
<1>4. as_128bit(v) = v
  BY <1>2 DEF as_128bit
<1> QED
  BY <1>2, <1>3, <1>4 DEF v

LEMMA TextKeepsUuid ==
  ASSUME NEW u \in Uuid
  PROVE  /\ from_uuid_str(to_str(u)) = as_128bit(u)
         /\ to_str(u) \in Seq(Nat)
<1>1. as_128bit(u) \in Seq(Nat)
  BY As128Typed
<1>2. Reverse(as_128bit(u)) \in Seq(Nat) /\ Reverse(Reverse(as_128bit(u))) = as_128bit(u)
  BY <1>1, ReverseIs, ReverseTwice
<1> QED
  BY <1>2 DEF from_uuid_str, to_str

LEMMA Int8Twice == \A n \in Int : Int8(Int8(n)) = Int8(n)
  BY DEF Int8

\* What Device1 picks from the structures of a report.
Of(fields, types, w) == {i \in DOMAIN fields : fields[i].type \in types /\ Len(fields[i].data) >= w}
ServicesOf(fields) == {i \in DOMAIN fields : IsService(fields[i])}
LastOf(fields, S) == fields[Greatest(S)].data
UuidsAt(fields, i) == ToSet(UuidList(ListWidth(fields[i].type), fields[i].data))
CompanyAt(fields, i) == Uint16(SubSeq(fields[i].data, 1, W16))
ServiceAt(fields, i) == ServiceData(ServiceWidth(fields[i].type), fields[i].data)
KeyAt(fields, i) == to_str(ServiceAt(fields, i).uuid)
Strings(fields) == UNION {{to_str(u) : u \in UuidsAt(fields, i)} : i \in Of(fields, 2 .. 7, 0)}
Companies(fields) == {CompanyAt(fields, i) : i \in Of(fields, {255}, W16)}
Keys(fields) == {KeyAt(fields, i) : i \in ServicesOf(fields)}
OfCompany(fields, key) == {i \in Of(fields, {255}, W16) : CompanyAt(fields, i) = key}
OfKey(fields, key) == {i \in ServicesOf(fields) : KeyAt(fields, i) = key}

LEMMA Device1Is ==
  ASSUME NEW r
  PROVE  LET p == Device1(r)  x == r.fields IN
         /\ p.Address = Reverse(r.addr) /\ p.RSSI = <<Int8(r.rssi)>>
         /\ p.Name = IF Of(x, {8, 9}, 0) = {} THEN <<>> ELSE LastOf(x, Of(x, {8, 9}, 0))
         /\ p.TxPower = IF Of(x, {10}, 1) = {} THEN <<>> ELSE <<Int8(LastOf(x, Of(x, {10}, 1))[1])>>
         /\ p.Appearance = IF Of(x, {25}, W16) = {} THEN <<>> ELSE SubSeq(LastOf(x, Of(x, {25}, W16)), 1, W16)
         /\ p.UUIDs = SetToSeq(Strings(x))
         /\ p.ManufacturerData = [key \in Companies(x) |->
              SubSeq(LastOf(x, OfCompany(x, key)), W16 + 1, Len(LastOf(x, OfCompany(x, key))))]
         /\ p.ServiceData = [key \in Keys(x) |-> ServiceAt(x, Greatest(OfKey(x, key))).data]
  BY Zenon DEF Device1, Of, LastOf, Strings, UuidsAt, Companies, CompanyAt, OfCompany, Keys, KeyAt, ServiceAt, OfKey, ServicesOf

LEMMA IndicesFinite ==
  ASSUME NEW x \in Seq(AdField)
  PROVE  /\ \A types, w : Of(x, types, w) \subseteq 1 .. Len(x) /\ IsFiniteSet(Of(x, types, w))
         /\ ServicesOf(x) \subseteq 1 .. Len(x) /\ IsFiniteSet(ServicesOf(x))
<1>1. Len(x) \in Nat /\ DOMAIN x = 1 .. Len(x)
  BY LenProperties
<1>2. IsFiniteSet(1 .. Len(x))
  BY <1>1, FS_Interval
<1>3. \A types, w : Of(x, types, w) \subseteq 1 .. Len(x)
  BY <1>1 DEF Of
<1>4. ServicesOf(x) \subseteq 1 .. Len(x)
  BY <1>1 DEF ServicesOf
<1>5. \A T \in SUBSET (1 .. Len(x)) : IsFiniteSet(T)
  BY <1>2, FS_Subset
<1> QED
  BY <1>3, <1>4, <1>5

LEMMA FieldTyped ==
  ASSUME NEW x \in Seq(AdField), NEW i \in 1 .. Len(x)
  PROVE  x[i] \in AdField /\ x[i].type \in Nat /\ x[i].data \in Seq(Nat) /\ Len(x[i].data) \in Nat
<1>1. x[i] \in AdField
  BY ElementOfSeq
<1>2. x[i].type \in Nat /\ x[i].data \in Seq(Nat)
  BY <1>1 DEF AdField
<1> QED
  BY <1>1, <1>2, LenProperties

LEMMA LastTyped ==
  ASSUME NEW x \in Seq(AdField), NEW S, S \subseteq 1 .. Len(x), S # {}
  PROVE  Greatest(S) \in S /\ (\A j \in S : j <= Greatest(S)) /\ LastOf(x, S) \in Seq(Nat)
<1>1. Len(x) \in Nat
  BY LenProperties
<1>2. Greatest(S) \in S /\ \A j \in S : j <= Greatest(S)
  BY <1>1, GreatestIs
<1>3. x[Greatest(S)].data \in Seq(Nat)
  BY <1>2, FieldTyped
<1> QED
  BY <1>2, <1>3 DEF LastOf

\* A company id keeps its bytes on the way over the bus.
LEMMA CompanyBytes ==
  ASSUME NEW s \in Seq(Byte), Len(s) >= W16
  PROVE  Bytes16(Uint16(SubSeq(s, 1, W16))) = SubSeq(s, 1, W16)
<1>1. Len(s) \in Nat /\ W16 = 2
  BY LenProperties DEF W16
<1> DEFINE a == s[1]
           b == s[2]
           t == SubSeq(s, 1, W16)
<1>2. a \in 0 .. 255 /\ b \in 0 .. 255
  <2>1. 1 \in 1 .. Len(s) /\ 2 \in 1 .. Len(s)
    BY <1>1
  <2> QED
    BY <2>1, ElementOfSeq, SMTT(30) DEF Byte
<1>3. t = <<a, b>>
  <2>1. \A k \in 1 .. 2 : s[k] \in Byte
    BY <1>1, ElementOfSeq
  <2>2. /\ SubSeq(s, 1, 2) \in Seq(Byte) /\ Len(SubSeq(s, 1, 2)) = 2
        /\ \A k \in 1 .. 2 : SubSeq(s, 1, 2)[k] = s[k]
    <3>1. 1 \in Int /\ 2 \in Int /\ \A k \in 1 .. 2 : k \in 1 .. Len(s)
      BY <1>1
    <3> QED
      BY <2>1, <3>1, SubSeqProperties
  <2> DEFINE q == SubSeq(s, 1, 2)
             p == <<a, b>>
  <2>3. q \in Seq(Byte) /\ Len(q) = 2 /\ q[1] = a /\ q[2] = b
    BY <2>2
  <2>4. p \in Seq(Byte) /\ Len(p) = 2 /\ p[1] = a /\ p[2] = b
    BY <1>2 DEF Byte
  <2>5. t = q
    BY <1>1
  <2> HIDE DEF p, q
  <2>6. \A k \in 1 .. 2 : q[k] = p[k]
    <3>1. \A k \in 1 .. 2 : k = 1 \/ k = 2
      OBVIOUS
    <3> QED
      BY <2>3, <2>4, <3>1
  <2>7. q = p
    BY <2>3, <2>4, <2>6, SeqEqual
  <2> QED
    BY <2>5, <2>7 DEF p
<1> HIDE DEF t, a, b
<1>4. t[1] = a /\ t[2] = b
  BY <1>3
<1>5. (a + 256 * b) % 256 = a /\ (a + 256 * b) \div 256 = b
  BY <1>2
<1> QED
  BY <1>3, <1>4, <1>5, ZenonT(40) DEF Bytes16, Uint16, t

\* Manufacturer data is its company and the rest.
LEMMA CompanyIs ==
  ASSUME NEW x \in Seq(Field), x \in Seq(AdField), NEW i \in Of(x, {255}, W16)
  PROVE  LET s == x[i].data IN
         /\ s \in Seq(Nat) /\ get_16bit(s) = Bytes16(CompanyAt(x, i))
         /\ Bytes16(CompanyAt(x, i)) \o SubSeq(s, W16 + 1, Len(s)) = s
<1> DEFINE s == x[i].data
<1>1. i \in 1 .. Len(x)
  BY IndicesFinite
<1>2. s \in Seq(Nat) /\ Len(s) \in Nat
  BY <1>1, FieldTyped
<1>3. Len(s) >= W16 /\ W16 \in Nat \ {0}
  BY CodecAssumption DEF Of
<1>4. CompanyAt(x, i) = Uint16(SubSeq(s, 1, W16)) /\ get_16bit(s) = SubSeq(s, 1, W16)
  BY DEF CompanyAt, get_16bit
<1>5. s \in Seq(Byte)
  <2>1. x[i] \in Field
    BY <1>1, ElementOfSeq
  <2> QED
    BY <2>1 DEF Field
<1> HIDE DEF s
<1>6. Bytes16(CompanyAt(x, i)) = SubSeq(s, 1, W16)
  BY <1>3, <1>4, <1>5, CompanyBytes
<1>7. SubSeq(s, 1, W16) \o SubSeq(s, W16 + 1, Len(s)) = SubSeq(s, 1, Len(s))
  <2>1. 1 \in 1 .. Len(s) + 1 /\ W16 \in 1 - 1 .. Len(s) /\ Len(s) \in W16 .. Len(s)
    BY <1>2, <1>3
  <2> QED
    BY <1>2, <2>1, ConcatAdjacentSubSeq
<1>8. SubSeq(s, 1, Len(s)) = s
  BY <1>2, SubSeqFull
<1> QED
  BY <1>2, <1>4, <1>6, <1>7, <1>8 DEF s

LEMMA ServiceIs ==
  ASSUME NEW x \in Seq(AdField), NEW i \in ServicesOf(x)
  PROVE  /\ ServiceAt(x, i) \in ServiceItem
         /\ ServiceAt(x, i).uuid \in Uuid /\ ServiceAt(x, i).data \in Seq(Nat)
         /\ from_uuid_str(KeyAt(x, i)) = as_128bit(ServiceAt(x, i).uuid)
<1> DEFINE w == ServiceWidth(x[i].type)
           s == x[i].data
<1>1. i \in 1 .. Len(x)
  BY IndicesFinite
<1>2. s \in Seq(Nat) /\ w \in Width /\ Len(s) >= w
  BY <1>1, FieldTyped, WidthsByType DEF ServicesOf, IsService
<1>3. ServiceAt(x, i) = ServiceData(w, s)
  BY DEF ServiceAt
<1> HIDE DEF s, w
<1>4. ServiceAt(x, i) \in ServiceItem
  BY <1>2, <1>3, ServiceDataTyped
<1>5. ServiceAt(x, i).uuid \in Uuid /\ ServiceAt(x, i).data \in Seq(Nat)
  BY <1>4 DEF ServiceItem
<1> QED
  BY <1>4, <1>5, TextKeepsUuid DEF KeyAt

LEMMA UuidsAtTyped ==
  ASSUME NEW x \in Seq(AdField), NEW i \in 1 .. Len(x)
  PROVE  UuidsAt(x, i) \subseteq Uuid /\ IsFiniteSet(UuidsAt(x, i))
<1> DEFINE s == UuidList(ListWidth(x[i].type), x[i].data)
<1>1. x[i].data \in Seq(Nat) /\ ListWidth(x[i].type) \in Width
  BY FieldTyped, WidthsByType
<1>2. s \in Seq(Uuid)
  BY <1>1, UuidListTyped
<1> HIDE DEF s
<1>3. IsFiniteSet(ToSet(s)) /\ ToSet(s) \subseteq Uuid
  BY <1>2, FiniteValues
<1> QED
  BY <1>3 DEF UuidsAt, s

LEMMA KeysFinite ==
  ASSUME NEW x \in Seq(AdField)
  PROVE  IsFiniteSet(Strings(x)) /\ IsFiniteSet(Companies(x)) /\ IsFiniteSet(Keys(x))
<1> DEFINE I == Of(x, 2 .. 7, 0)
           J == Of(x, {255}, W16)
           K == ServicesOf(x)
<1>1. I \subseteq 1 .. Len(x) /\ IsFiniteSet(I) /\ IsFiniteSet(J) /\ IsFiniteSet(K)
  BY IndicesFinite
<1> HIDE DEF I, J, K
<1>2. IsFiniteSet(Companies(x))
  <2> DEFINE f == [i \in J |-> CompanyAt(x, i)]
  <2>1. Companies(x) = {f[i] : i \in J}
    BY DEF Companies, J
  <2> HIDE DEF f
  <2> QED
    BY <1>1, <2>1, FiniteImage
<1>3. IsFiniteSet(Keys(x))
  <2> DEFINE f == [i \in K |-> KeyAt(x, i)]
  <2>1. Keys(x) = {f[i] : i \in K}
    BY DEF Keys, K
  <2> HIDE DEF f
  <2> QED
    BY <1>1, <2>1, FiniteImage
<1>4. IsFiniteSet(Strings(x))
  <2> DEFINE T(i) == {to_str(u) : u \in UuidsAt(x, i)}
             f == [i \in I |-> T(i)]
             U == {f[i] : i \in I}
  <2>1. Strings(x) = UNION U
    BY DEF Strings, I
  <2>2. ASSUME NEW i \in I PROVE IsFiniteSet(T(i))
    <3> DEFINE V == UuidsAt(x, i)
               g == [u \in V |-> to_str(u)]
    <3>1. IsFiniteSet(V)
      BY <1>1, UuidsAtTyped
    <3>2. T(i) = {g[u] : u \in V}
      OBVIOUS
    <3> HIDE DEF V, g
    <3>3. IsFiniteSet({g[u] : u \in V})
      BY <3>1, FiniteImage
    <3> QED
      BY <3>2, <3>3
  <2> HIDE DEF T
  <2>3. \A V \in U : IsFiniteSet(V)
    BY <2>2
  <2> HIDE DEF f
  <2>4. IsFiniteSet(U)
    BY <1>1, FiniteImage
  <2> HIDE DEF U
  <2> QED
    BY <2>1, <2>3, <2>4, FS_UNION
<1> QED
  BY <1>2, <1>3, <1>4

\* The lists parse_device1_props() makes of a dictionary.
CompanyList(p) == LET keys == SetToSeq(DOMAIN p.ManufacturerData) IN
                  [i \in DOMAIN keys |-> Bytes16(keys[i]) \o p.ManufacturerData[keys[i]]]
ServiceList(p) == LET keys == SetToSeq(DOMAIN p.ServiceData) IN
                  [i \in DOMAIN keys |-> [uuid |-> from_uuid_str(keys[i]), data |-> p.ServiceData[keys[i]]]]

TxList(p) == [i \in DOMAIN p.TxPower |-> Int8(p.TxPower[i])]
UuidTexts(p) == [i \in DOMAIN p.UUIDs |-> from_uuid_str(p.UUIDs[i])]

LEMMA ParsedIs ==
  ASSUME NEW p, NEW d0 \in Device
  PROVE  LET d == parse_device1_props(p, d0) IN
         /\ d.address = IF p.Address = <<>> THEN d0.address ELSE Reverse(p.Address)
         /\ d.rssi = IF p.RSSI = <<>> THEN d0.rssi ELSE Int8(p.RSSI[1])
         /\ d.name = p.Name
         /\ d.tx = TxList(p) /\ d.appearance = p.Appearance /\ d.uuids = UuidTexts(p)
         /\ d.manufacturer = CompanyList(p) /\ d.service = ServiceList(p)
         /\ (/\ d.address \in Seq(Nat) /\ d.rssi \in Int /\ d.name \in Seq(Nat) /\ d.tx \in Seq(Int)
             /\ d.appearance \in Seq(Nat) /\ d.uuids \in Seq(Uuid)
             /\ d.manufacturer \in Seq(Seq(Nat)) /\ d.service \in Seq(ServiceItem)) => d \in Device
<1> DEFINE a == IF p.Address = <<>> THEN d0.address ELSE Reverse(p.Address)
           b == IF p.RSSI = <<>> THEN d0.rssi ELSE Int8(p.RSSI[1])
           t == TxList(p)
           u == UuidTexts(p)
           m == CompanyList(p)
           s == ServiceList(p)
           v == p.Name
           w == p.Appearance
           d == parse_device1_props(p, d0)
<1>1. d = [d0 EXCEPT !.address = a, !.rssi = b, !.name = v, !.appearance = w, !.tx = t,
                     !.uuids = u, !.manufacturer = m, !.service = s]
  BY Zenon DEF parse_device1_props, CompanyList, ServiceList, TxList, UuidTexts
<1> HIDE DEF a, b, t, u, m, s, v, w, d
<1>2. /\ d.address = a /\ d.rssi = b /\ d.name = v /\ d.tx = t /\ d.appearance = w
      /\ d.uuids = u /\ d.manufacturer = m /\ d.service = s
  BY <1>1 DEF Device
<1>3. ASSUME a \in Seq(Nat), b \in Int, v \in Seq(Nat), t \in Seq(Int), w \in Seq(Nat),
             u \in Seq(Uuid), m \in Seq(Seq(Nat)), s \in Seq(ServiceItem)
      PROVE  d \in Device
  <2> DEFINE d1 == [d0 EXCEPT !.address = a, !.rssi = b, !.name = v]
             d2 == [d1 EXCEPT !.appearance = w, !.tx = t, !.uuids = u]
             d3 == [d2 EXCEPT !.manufacturer = m, !.service = s]
  <2>1. d = d3
    BY <1>1
  <2>2. d1 \in Device
    BY <1>3 DEF Device
  <2> HIDE DEF d1
  <2>3. d2 \in Device
    BY <1>3, <2>2 DEF Device
  <2> HIDE DEF d2
  <2>4. d3 \in Device
    BY <1>3, <2>3 DEF Device
  <2> QED
    BY <2>1, <2>4
<1> QED
  BY <1>2, <1>3, Zenon DEF a, b, t, u, m, s, v, w, d

\* A property that a signal leaves out makes an empty list.
LEMMA NothingListed ==
  ASSUME NEW p
  PROVE  /\ p.TxPower = <<>> => TxList(p) = <<>>
         /\ p.UUIDs = <<>> => UuidTexts(p) = <<>>
         /\ p.ManufacturerData = <<>> => CompanyList(p) = <<>>
         /\ p.ServiceData = <<>> => ServiceList(p) = <<>>
<1>1. DOMAIN <<>> = {}
  OBVIOUS
<1>2. DOMAIN SetToSeq({}) = {}
  <2>1. SetToSeq({}) \in Seq({})
    BY FS_EmptySet, SetToSeqIs
  <2>2. \A t \in Seq({}) : DOMAIN t = {}
    <3> SUFFICES ASSUME NEW t \in Seq({}) PROVE DOMAIN t = {}
      OBVIOUS
    <3>1. DOMAIN t = 1 .. Len(t)
      BY LenProperties
    <3>2. \A i \in 1 .. Len(t) : t[i] \in {}
      BY ElementOfSeq
    <3> QED
      BY <3>1, <3>2
  <2> QED
    BY <2>1, <2>2
<1>3. \A f : DOMAIN f = {} => <<>> = [i \in {} |-> f[i]]
  OBVIOUS
<1>4. p.TxPower = <<>> => TxList(p) = <<>>
  BY <1>1 DEF TxList
<1>5. p.UUIDs = <<>> => UuidTexts(p) = <<>>
  BY <1>1 DEF UuidTexts
<1>6. p.ManufacturerData = <<>> => CompanyList(p) = <<>>
  <2> SUFFICES ASSUME p.ManufacturerData = <<>> PROVE CompanyList(p) = <<>>
    OBVIOUS
  <2> DEFINE keys == SetToSeq({})
  <2>1. CompanyList(p) = [i \in DOMAIN keys |-> Bytes16(keys[i]) \o <<>>[keys[i]]]
    BY <1>1, Zenon DEF CompanyList
  <2> HIDE DEF keys
  <2>2. DOMAIN keys = {}
    BY <1>2 DEF keys
  <2> QED
    BY <2>1, <2>2
<1>7. p.ServiceData = <<>> => ServiceList(p) = <<>>
  <2> SUFFICES ASSUME p.ServiceData = <<>> PROVE ServiceList(p) = <<>>
    OBVIOUS
  <2> DEFINE keys == SetToSeq({})
  <2>1. ServiceList(p) = [i \in DOMAIN keys |-> [uuid |-> from_uuid_str(keys[i]), data |-> <<>>[keys[i]]]]
    BY <1>1, Zenon DEF ServiceList
  <2> HIDE DEF keys
  <2>2. DOMAIN keys = {}
    BY <1>2 DEF keys
  <2> QED
    BY <2>1, <2>2
<1> QED
  BY <1>4, <1>5, <1>6, <1>7

\* A list made of the keys of a finite set, element by element.
LEMMA ListOfSet ==
  ASSUME NEW S, IsFiniteSet(S), NEW T, NEW e \in [S -> T],
         NEW list, list = [i \in DOMAIN SetToSeq(S) |-> e[SetToSeq(S)[i]]]
  PROVE  list \in Seq(T) /\ ToSet(list) = {e[y] : y \in S}
<1> DEFINE keys == SetToSeq(S)
           n == Len(keys)
<1>0. list = [i \in DOMAIN keys |-> e[keys[i]]]
  OBVIOUS
<1>1. keys \in Seq(S) /\ \A y \in S : \E i \in 1 .. n : keys[i] = y
  BY SetToSeqIs
<1> HIDE DEF keys
<1>2. n \in Nat /\ DOMAIN keys = 1 .. n /\ \A i \in 1 .. n : keys[i] \in S
  BY <1>1, LenProperties, ElementOfSeq
<1> HIDE DEF n
<1>3. list \in [1 .. n -> T]
  BY <1>0, <1>2
<1>4. ToSet(list) = {list[i] : i \in 1 .. n}
  BY <1>0, <1>2 DEF ToSet
<1>5. \A i \in 1 .. n : list[i] = e[keys[i]]
  BY <1>0, <1>2
<1>6. list \in Seq(T)
  BY <1>2, <1>3, FunctionIsSeq
<1>7. {list[i] : i \in 1 .. n} = {e[y] : y \in S}
  <2>1. ASSUME NEW i \in 1 .. n PROVE list[i] \in {e[y] : y \in S}
    BY <1>2, <1>5
  <2>2. ASSUME NEW y \in S PROVE e[y] \in {list[i] : i \in 1 .. n}
    <3>1. PICK i \in 1 .. n : keys[i] = y
      BY <1>1
    <3> QED
      BY <1>5, <3>1
  <2> QED
    BY <2>1, <2>2
<1> QED
  BY <1>4, <1>6, <1>7

\* The data of the last structure of a company, and what parsing its dictionary gives.
LEMMA CompanyListIs ==
  ASSUME NEW r \in Report
  PROVE  LET x == r.fields  m == CompanyList(Device1(r)) IN
         /\ m \in Seq(Seq(Nat))
         /\ ToSet(m) = {LastOf(x, OfCompany(x, key)) : key \in Companies(x)}
<1> DEFINE x == r.fields
           S == Companies(x)
           md == Device1(r).ManufacturerData
           rest(key) == SubSeq(LastOf(x, OfCompany(x, key)), W16 + 1, Len(LastOf(x, OfCompany(x, key))))
           e == [key \in S |-> LastOf(x, OfCompany(x, key))]
<1>1. x \in Seq(AdField) /\ x \in Seq(Field)
  BY ReportTyped
<1>2. md = [key \in S |-> rest(key)]
  BY Device1Is
<1>3. IsFiniteSet(S)
  BY <1>1, KeysFinite
<1>4. ASSUME NEW key \in S
      PROVE  /\ OfCompany(x, key) # {} /\ OfCompany(x, key) \subseteq Of(x, {255}, W16)
             /\ LastOf(x, OfCompany(x, key)) \in Seq(Nat)
             /\ Bytes16(key) \o rest(key) = LastOf(x, OfCompany(x, key))
  <2> DEFINE J == OfCompany(x, key)
             g == Greatest(J)
  <2>1. J # {} /\ J \subseteq Of(x, {255}, W16)
    BY DEF OfCompany, Companies
  <2>2. J \subseteq 1 .. Len(x)
    BY <1>1, <2>1, IndicesFinite
  <2>3. \A j \in J : CompanyAt(x, j) = key
    BY DEF OfCompany
  <2> HIDE DEF J, x
  <2>4. g \in J /\ LastOf(x, J) \in Seq(Nat)
    BY <1>1, <2>1, <2>2, LastTyped
  <2>5. g \in Of(x, {255}, W16) /\ CompanyAt(x, g) = key
    BY <2>1, <2>3, <2>4
  <2>6. LastOf(x, J) = x[g].data
    BY DEF LastOf
  <2> HIDE DEF g
  <2>7. Bytes16(CompanyAt(x, g)) \o SubSeq(x[g].data, W16 + 1, Len(x[g].data)) = x[g].data
    BY <1>1, <2>5, CompanyIs
  <2> QED
    BY <2>1, <2>4, <2>5, <2>6, <2>7 DEF J
<1> HIDE DEF S, rest, md
<1>5. e \in [S -> Seq(Nat)]
  BY <1>4
<1>6. DOMAIN md = S /\ \A key \in S : Bytes16(key) \o md[key] = e[key]
  BY <1>2, <1>4
<1> DEFINE keys == SetToSeq(S)
<1>7. CompanyList(Device1(r)) = [i \in DOMAIN keys |-> Bytes16(keys[i]) \o md[keys[i]]]
  BY <1>6, Zenon DEF CompanyList, md
<1>8. keys \in Seq(S)
  BY <1>3, SetToSeqIs
<1> HIDE DEF keys
<1>9. \A i \in DOMAIN keys : keys[i] \in S
  BY <1>8, LenProperties, ElementOfSeq
<1>10. CompanyList(Device1(r)) = [i \in DOMAIN keys |-> e[keys[i]]]
  <2> HIDE DEF e
  <2> QED
    BY <1>6, <1>7, <1>9
<1>11. CompanyList(Device1(r)) \in Seq(Seq(Nat)) /\ ToSet(CompanyList(Device1(r))) = {e[y] : y \in S}
  <2> DEFINE list == CompanyList(Device1(r))
  <2>1. list = [i \in DOMAIN SetToSeq(S) |-> e[SetToSeq(S)[i]]]
    BY <1>10 DEF keys
  <2> HIDE DEF e, list
  <2> DEFINE T == Seq(Nat)
  <2> HIDE DEF T
  <2>2. e \in [S -> T]
    BY <1>5 DEF T
  <2>3. list \in Seq(T) /\ ToSet(list) = {e[y] : y \in S}
    BY <1>3, <2>1, <2>2, ListOfSet
  <2> QED
    BY <2>3 DEF list, T
<1>12. {e[y] : y \in S} = {LastOf(x, OfCompany(x, key)) : key \in S}
  OBVIOUS
<1> QED
  BY <1>11, <1>12, Zenon DEF S

LEMMA ServiceListIs ==
  ASSUME NEW r \in AirReport
  PROVE  LET x == r.fields  s == ServiceList(Device1(r)) IN
         /\ s \in Seq(ServiceItem)
         /\ ToSet(s) = {[uuid |-> as_128bit(ServiceAt(x, Greatest(OfKey(x, key))).uuid),
                         data |-> ServiceAt(x, Greatest(OfKey(x, key))).data] : key \in Keys(x)}
<1> DEFINE x == r.fields
           S == Keys(x)
           sd == Device1(r).ServiceData
           last(key) == ServiceAt(x, Greatest(OfKey(x, key)))
           item(key) == [uuid |-> as_128bit(last(key).uuid), data |-> last(key).data]
           e == [key \in S |-> item(key)]
<1>1. x \in Seq(AdField)
  BY DEF AirReport
<1>2. sd = [key \in S |-> last(key).data]
  BY Device1Is
<1>3. IsFiniteSet(S)
  BY <1>1, KeysFinite
<1>4. ASSUME NEW key \in S
      PROVE  item(key) \in ServiceItem /\ from_uuid_str(key) = as_128bit(last(key).uuid)
  <2> DEFINE J == OfKey(x, key)
             g == Greatest(J)
  <2>1. J # {} /\ J \subseteq ServicesOf(x)
    BY DEF OfKey, Keys
  <2>2. J \subseteq 1 .. Len(x)
    BY <1>1, <2>1, IndicesFinite
  <2>3. \A j \in J : KeyAt(x, j) = key
    BY DEF OfKey
  <2> HIDE DEF J, x
  <2>4. g \in J
    BY <1>1, <2>1, <2>2, LastTyped
  <2>5. g \in ServicesOf(x) /\ KeyAt(x, g) = key
    BY <2>1, <2>3, <2>4
  <2> HIDE DEF g
  <2>6. /\ ServiceAt(x, g).uuid \in Uuid /\ ServiceAt(x, g).data \in Seq(Nat)
        /\ from_uuid_str(KeyAt(x, g)) = as_128bit(ServiceAt(x, g).uuid)
    BY <1>1, <2>5, ServiceIs
  <2>7. as_128bit(ServiceAt(x, g).uuid) \in Uuid
    BY <2>6, As128Typed
  <2>8. last(key) = ServiceAt(x, g)
    BY DEF g, J
  <2> HIDE DEF last
  <2> QED
    BY <2>5, <2>6, <2>7, <2>8 DEF ServiceItem
<1> HIDE DEF S, item, sd
<1>5. e \in [S -> ServiceItem]
  BY <1>4
<1>6. DOMAIN sd = S /\ \A key \in S : [uuid |-> from_uuid_str(key), data |-> sd[key]] = e[key]
  BY <1>2, <1>4 DEF item
<1> DEFINE keys == SetToSeq(S)
<1>7. ServiceList(Device1(r)) = [i \in DOMAIN keys |-> [uuid |-> from_uuid_str(keys[i]), data |-> sd[keys[i]]]]
  BY <1>6, Zenon DEF ServiceList, sd
<1>8. keys \in Seq(S)
  BY <1>3, SetToSeqIs
<1> HIDE DEF keys
<1>9. \A i \in DOMAIN keys : keys[i] \in S
  BY <1>8, LenProperties, ElementOfSeq
<1>10. ServiceList(Device1(r)) = [i \in DOMAIN keys |-> e[keys[i]]]
  <2> HIDE DEF e
  <2> QED
    BY <1>6, <1>7, <1>9
<1>11. ServiceList(Device1(r)) \in Seq(ServiceItem) /\ ToSet(ServiceList(Device1(r))) = {e[y] : y \in S}
  <2> DEFINE list == ServiceList(Device1(r))
  <2>1. list = [i \in DOMAIN SetToSeq(S) |-> e[SetToSeq(S)[i]]]
    BY <1>10 DEF keys
  <2> HIDE DEF e, list
  <2>2. list \in Seq(ServiceItem) /\ ToSet(list) = {e[y] : y \in S}
    BY <1>3, <1>5, <2>1, ListOfSet
  <2> QED
    BY <2>2 DEF list
<1>12. {e[y] : y \in S} = {item(key) : key \in S}
  OBVIOUS
<1> QED
  BY <1>11, <1>12, Zenon DEF S, item

\* The UUIDs of all the lists of a report.
Listed(fields) == UNION {UuidsAt(fields, i) : i \in Of(fields, 2 .. 7, 0)}

LEMMA UuidTextsIs ==
  ASSUME NEW r \in AirReport
  PROVE  LET x == r.fields  v == UuidTexts(Device1(r)) IN
         v \in Seq(Uuid) /\ ToSet(v) = {as_128bit(u) : u \in Listed(x)}
<1> DEFINE x == r.fields
           p == Device1(r)
           S == Strings(x)
           e == [y \in S |-> from_uuid_str(y)]
           v == UuidTexts(p)
<1>1. x \in Seq(AdField)
  BY DEF AirReport
<1>2. p.UUIDs = SetToSeq(S)
  BY Device1Is
<1>3. IsFiniteSet(S)
  BY <1>1, KeysFinite
<1>4. Listed(x) \subseteq Uuid
  <2>1. \A i \in Of(x, 2 .. 7, 0) : UuidsAt(x, i) \subseteq Uuid
    BY <1>1, IndicesFinite, UuidsAtTyped
  <2> QED
    BY <2>1 DEF Listed
<1>5. S = {to_str(u) : u \in Listed(x)}
  BY DEF Strings, Listed
<1> HIDE DEF S, x
<1>6. \A u \in Listed(x) : from_uuid_str(to_str(u)) = as_128bit(u) /\ as_128bit(u) \in Uuid
  BY <1>4, TextKeepsUuid, As128Typed
<1>7. \A y \in S : from_uuid_str(y) \in Uuid
  BY <1>5, <1>6
<1>8. e \in [S -> Uuid]
  BY <1>7
<1>9. {e[y] : y \in S} = {as_128bit(u) : u \in Listed(x)}
  <2>1. \A y \in S : e[y] = from_uuid_str(y)
    OBVIOUS
  <2> HIDE DEF e
  <2>2. ASSUME NEW y \in S PROVE e[y] \in {as_128bit(u) : u \in Listed(x)}
    BY <1>5, <1>6, <2>1
  <2>3. ASSUME NEW u \in Listed(x) PROVE as_128bit(u) \in {e[y] : y \in S}
    <3>1. to_str(u) \in S /\ e[to_str(u)] = as_128bit(u)
      BY <1>5, <1>6, <2>1
    <3> QED
      BY <3>1
  <2> QED
    BY <2>2, <2>3
<1>10. v = [i \in DOMAIN SetToSeq(S) |-> e[SetToSeq(S)[i]]]
  <2> DEFINE keys == SetToSeq(S)
  <2>1. v = [i \in DOMAIN keys |-> from_uuid_str(keys[i])]
    BY <1>2, Zenon DEF UuidTexts
  <2>2. keys \in Seq(S)
    BY <1>3, SetToSeqIs
  <2> HIDE DEF keys, v
  <2>3. \A i \in DOMAIN keys : keys[i] \in S
    BY <2>2, LenProperties, ElementOfSeq
  <2>4. v = [i \in DOMAIN keys |-> e[keys[i]]]
    BY <2>1, <2>3
  <2> QED
    BY <2>4 DEF keys
<1> DEFINE T == Uuid
<1> HIDE DEF e, v, T
<1>11. e \in [S -> T]
  BY <1>8 DEF T
<1>12. v \in Seq(T) /\ ToSet(v) = {e[y] : y \in S}
  BY <1>3, <1>10, <1>11, ListOfSet
<1> QED
  BY <1>9, <1>12 DEF v, T, x

\* The value of a property that a signal carries.
Carried(name, carried, value) == IF name \in carried THEN value ELSE <<>>

\* What a signal makes of a report: the address, and what the signal carries.
LEMMA SignalledIs ==
  ASSUME NEW r \in AirReport, NEW carried
  PROVE  LET d == Signalled(r, carried)  p == Device1(r) IN
         /\ d.address = r.addr /\ d.rssi = (IF "RSSI" \in carried THEN Int8(r.rssi) ELSE 0)
         /\ d.name = Carried("Name", carried, p.Name)
         /\ d.tx = Carried("TxPower", carried, TxList(p))
         /\ d.appearance = Carried("Appearance", carried, p.Appearance)
         /\ d.uuids = Carried("UUIDs", carried, UuidTexts(p))
         /\ d.manufacturer = Carried("ManufacturerData", carried, CompanyList(p))
         /\ d.service = Carried("ServiceData", carried, ServiceList(p))
         /\ (/\ d.name \in Seq(Nat) /\ d.tx \in Seq(Int) /\ d.appearance \in Seq(Nat)
             /\ d.uuids \in Seq(Uuid) /\ d.manufacturer \in Seq(Seq(Nat))
             /\ d.service \in Seq(ServiceItem)) => d \in Device
<1> DEFINE p == Device1(r)
           q == Shown(p, carried)
           d0 == IF "Address" \in carried THEN NoData ELSE [NoData EXCEPT !.address = Reverse(p.Address)]
           d == Signalled(r, carried)
<1>1. r.addr \in Seq(Nat) /\ r.rssi \in Int
  BY DEF AirReport
<1>2. p.Address = Reverse(r.addr) /\ p.RSSI = <<Int8(r.rssi)>>
  BY Device1Is, Zenon
<1>3. Reverse(p.Address) = r.addr
  BY <1>1, <1>2, ReverseTwice
<1>4. r.addr # <<>> => p.Address # <<>>
  <2>1. Len(p.Address) = Len(r.addr)
    BY <1>1, <1>2, ReverseIs
  <2>2. Len(r.addr) = 0 => r.addr = <<>>
    BY <1>1, EmptySeq
  <2> QED
    BY <2>1, <2>2
<1>5. d = parse_device1_props(q, d0)
  BY Zenon DEF Signalled, on_interfaces_added, on_properties_changed
<1> HIDE DEF p
<1>6. /\ d0 \in Device /\ d0.rssi = 0
      /\ d0.address = IF "Address" \in carried THEN <<>> ELSE r.addr
  <2>1. NoData.rssi = 0 /\ NoData.address = <<>>
    BY DEF NoData
  <2>2. CASE "Address" \in carried
    BY <2>1, <2>2, NoDataTyped
  <2>3. CASE "Address" \notin carried
    <3>1. d0 = [NoData EXCEPT !.address = r.addr]
      BY <1>3, <2>3
    <3> HIDE DEF d0
    <3>2. [NoData EXCEPT !.address = r.addr] \in Device
      BY <1>1, NoDataTyped DEF Device
    <3>3. [NoData EXCEPT !.address = r.addr].rssi = 0 /\ [NoData EXCEPT !.address = r.addr].address = r.addr
      BY DEF NoData
    <3> QED
      BY <2>3, <3>1, <3>2, <3>3
  <2> QED
    BY <2>2, <2>3
<1>7. /\ q.Address = Carried("Address", carried, p.Address) /\ q.RSSI = Carried("RSSI", carried, p.RSSI)
      /\ q.Name = Carried("Name", carried, p.Name) /\ q.TxPower = Carried("TxPower", carried, p.TxPower)
      /\ q.Appearance = Carried("Appearance", carried, p.Appearance) /\ q.UUIDs = Carried("UUIDs", carried, p.UUIDs)
      /\ q.ManufacturerData = Carried("ManufacturerData", carried, p.ManufacturerData)
      /\ q.ServiceData = Carried("ServiceData", carried, p.ServiceData)
  BY DEF Shown, Carried
<1> HIDE DEF d0, q, d
<1>8. /\ d.address = IF q.Address = <<>> THEN d0.address ELSE Reverse(q.Address)
      /\ d.rssi = IF q.RSSI = <<>> THEN d0.rssi ELSE Int8(q.RSSI[1])
      /\ d.name = q.Name
      /\ d.tx = TxList(q) /\ d.appearance = q.Appearance /\ d.uuids = UuidTexts(q)
      /\ d.manufacturer = CompanyList(q) /\ d.service = ServiceList(q)
      /\ (/\ d.address \in Seq(Nat) /\ d.rssi \in Int /\ d.name \in Seq(Nat) /\ d.tx \in Seq(Int)
          /\ d.appearance \in Seq(Nat) /\ d.uuids \in Seq(Uuid)
          /\ d.manufacturer \in Seq(Seq(Nat)) /\ d.service \in Seq(ServiceItem)) => d \in Device
  BY <1>5, <1>6, ParsedIs, Zenon
<1>9. d.address = r.addr
  <2>1. CASE "Address" \in carried
    <3>1. q.Address = p.Address /\ d0.address = <<>>
      BY <1>6, <1>7, <2>1 DEF Carried
    <3>2. CASE p.Address = <<>>
      BY <1>4, <1>8, <3>1, <3>2
    <3>3. CASE p.Address # <<>>
      BY <1>3, <1>8, <3>1, <3>3
    <3> QED
      BY <3>2, <3>3
  <2>2. CASE "Address" \notin carried
    BY <1>6, <1>7, <1>8, <2>2 DEF Carried
  <2> QED
    BY <2>1, <2>2
<1>10. d.rssi = IF "RSSI" \in carried THEN Int8(r.rssi) ELSE 0
  <2> DEFINE n == Int8(r.rssi)
  <2>1. <<n>> # <<>> /\ <<n>>[1] = n /\ Int8(n) = n
    BY <1>1, Int8Twice
  <2>2. p.RSSI = <<n>>
    BY <1>2
  <2> HIDE DEF n
  <2>3. CASE "RSSI" \in carried
    <3>1. q.RSSI = <<n>>
      BY <1>7, <2>2, <2>3 DEF Carried
    <3> QED
      BY <1>8, <2>1, <2>3, <3>1 DEF n
  <2>4. CASE "RSSI" \notin carried
    BY <1>6, <1>7, <1>8, <2>4 DEF Carried
  <2> QED
    BY <2>3, <2>4
<1>11. TxList(q) = Carried("TxPower", carried, TxList(p))
  <2>1. q.TxPower = p.TxPower => TxList(q) = TxList(p)
    BY Zenon DEF TxList
  <2> QED
    BY <1>7, <2>1, NothingListed, Zenon DEF Carried
<1>12. UuidTexts(q) = Carried("UUIDs", carried, UuidTexts(p))
  <2>1. q.UUIDs = p.UUIDs => UuidTexts(q) = UuidTexts(p)
    BY Zenon DEF UuidTexts
  <2> QED
    BY <1>7, <2>1, NothingListed, Zenon DEF Carried
<1>13. CompanyList(q) = Carried("ManufacturerData", carried, CompanyList(p))
  <2>1. q.ManufacturerData = p.ManufacturerData => CompanyList(q) = CompanyList(p)
    BY Zenon DEF CompanyList
  <2> QED
    BY <1>7, <2>1, NothingListed, Zenon DEF Carried
<1>14. ServiceList(q) = Carried("ServiceData", carried, ServiceList(p))
  <2>1. q.ServiceData = p.ServiceData => ServiceList(q) = ServiceList(p)
    BY Zenon DEF ServiceList
  <2> QED
    BY <1>7, <2>1, NothingListed, Zenon DEF Carried
<1>15. d.address \in Seq(Nat) /\ d.rssi \in Int
  <2>1. Int8(r.rssi) \in Int /\ 0 \in Int
    BY <1>1, Int8Typed
  <2> QED
    BY <1>1, <1>9, <1>10, <2>1, Zenon
<1> QED
  BY <1>7, <1>8, <1>9, <1>10, <1>11, <1>12, <1>13, <1>14, <1>15, Zenon DEF d, p

\* The signal that carries all that BlueZ publishes of a report.
LEMMA DbusDeviceIs ==
  ASSUME NEW r \in Report
  PROVE  LET d == Signalled(r, Property)  x == r.fields IN
         /\ d \in Device
         /\ d.address = r.addr /\ d.rssi = Int8(r.rssi)
         /\ d.name = IF Of(x, {8, 9}, 0) = {} THEN <<>> ELSE LastOf(x, Of(x, {8, 9}, 0))
         /\ d.appearance = IF Of(x, {25}, W16) = {} THEN <<>> ELSE SubSeq(LastOf(x, Of(x, {25}, W16)), 1, W16)
         /\ \A t \in ToSet(d.tx) : \E i \in Of(x, {10}, 1) : t = Int8(x[i].data[1])
         /\ ToSet(d.tx) = {} => Of(x, {10}, 1) = {}
         /\ ToSet(d.uuids) = {as_128bit(u) : u \in Listed(x)}
         /\ ToSet(d.manufacturer) = {LastOf(x, OfCompany(x, key)) : key \in Companies(x)}
         /\ ToSet(d.service) = {[uuid |-> as_128bit(ServiceAt(x, Greatest(OfKey(x, key))).uuid),
                                 data |-> ServiceAt(x, Greatest(OfKey(x, key))).data] : key \in Keys(x)}
<1> DEFINE p == Device1(r)
           d == Signalled(r, Property)
           x == r.fields
<1>0. r \in AirReport
  BY ReportTyped
<1>1. r.addr \in Seq(Nat) /\ x \in Seq(AdField) /\ r.rssi \in Nat
  BY <1>0 DEF AirReport
<1>2. /\ d.address = r.addr /\ d.rssi = Int8(r.rssi) /\ d.name = p.Name
      /\ d.tx = TxList(p) /\ d.appearance = p.Appearance /\ d.uuids = UuidTexts(p)
      /\ d.manufacturer = CompanyList(p) /\ d.service = ServiceList(p)
      /\ (/\ d.name \in Seq(Nat) /\ d.tx \in Seq(Int) /\ d.appearance \in Seq(Nat)
          /\ d.uuids \in Seq(Uuid) /\ d.manufacturer \in Seq(Seq(Nat))
          /\ d.service \in Seq(ServiceItem)) => d \in Device
  <2>1. /\ "RSSI" \in Property /\ "Name" \in Property /\ "TxPower" \in Property
        /\ "Appearance" \in Property /\ "UUIDs" \in Property
        /\ "ManufacturerData" \in Property /\ "ServiceData" \in Property
    BY DEF Property
  <2>2. \A name \in Property : \A value : Carried(name, Property, value) = value
    BY DEF Carried
  <2>3. /\ d.address = r.addr /\ d.rssi = (IF "RSSI" \in Property THEN Int8(r.rssi) ELSE 0)
        /\ d.name = Carried("Name", Property, p.Name)
        /\ d.tx = Carried("TxPower", Property, TxList(p))
        /\ d.appearance = Carried("Appearance", Property, p.Appearance)
        /\ d.uuids = Carried("UUIDs", Property, UuidTexts(p))
        /\ d.manufacturer = Carried("ManufacturerData", Property, CompanyList(p))
        /\ d.service = Carried("ServiceData", Property, ServiceList(p))
        /\ (/\ d.name \in Seq(Nat) /\ d.tx \in Seq(Int) /\ d.appearance \in Seq(Nat)
            /\ d.uuids \in Seq(Uuid) /\ d.manufacturer \in Seq(Seq(Nat))
            /\ d.service \in Seq(ServiceItem)) => d \in Device
    BY <1>0, SignalledIs, Zenon
  <2> HIDE DEF d, p
  <2> QED
    BY <2>1, <2>2, <2>3, Zenon
<1> HIDE DEF d
<1>3. /\ p.Name = IF Of(x, {8, 9}, 0) = {} THEN <<>> ELSE LastOf(x, Of(x, {8, 9}, 0))
      /\ p.TxPower = IF Of(x, {10}, 1) = {} THEN <<>> ELSE <<Int8(LastOf(x, Of(x, {10}, 1))[1])>>
      /\ p.Appearance = IF Of(x, {25}, W16) = {} THEN <<>> ELSE SubSeq(LastOf(x, Of(x, {25}, W16)), 1, W16)
  BY Device1Is, Zenon
<1>4. UuidTexts(p) \in Seq(Uuid) /\ ToSet(UuidTexts(p)) = {as_128bit(u) : u \in Listed(x)}
  BY <1>0, UuidTextsIs
<1>5. /\ CompanyList(p) \in Seq(Seq(Nat))
      /\ ToSet(CompanyList(p)) = {LastOf(x, OfCompany(x, key)) : key \in Companies(x)}
  BY CompanyListIs
<1>6. /\ ServiceList(p) \in Seq(ServiceItem)
      /\ ToSet(ServiceList(p)) = {[uuid |-> as_128bit(ServiceAt(x, Greatest(OfKey(x, key))).uuid),
                                   data |-> ServiceAt(x, Greatest(OfKey(x, key))).data] : key \in Keys(x)}
  BY <1>0, ServiceListIs
<1> HIDE DEF p, x
<1>9. d.name \in Seq(Nat)
  <2> DEFINE S == Of(x, {8, 9}, 0)
  <2>1. S \subseteq 1 .. Len(x)
    BY <1>1, IndicesFinite
  <2> HIDE DEF S
  <2>2. S # {} => LastOf(x, S) \in Seq(Nat)
    BY <1>1, <2>1, LastTyped
  <2>3. d.name = IF S = {} THEN <<>> ELSE LastOf(x, S)
    BY <1>2, <1>3 DEF S
  <2> QED
    BY <2>2, <2>3
<1>10. d.appearance \in Seq(Nat)
  <2> DEFINE S == Of(x, {25}, W16)
             s == LastOf(x, S)
  <2>1. S \subseteq 1 .. Len(x) /\ \A i \in S : Len(x[i].data) >= W16
    BY <1>1, IndicesFinite DEF Of
  <2>2. W16 \in Nat /\ 1 \in Nat \ {0}
    BY CodecAssumption
  <2> HIDE DEF S
  <2>3. ASSUME S # {} PROVE SubSeq(s, 1, W16) \in Seq(Nat)
    <3>1. Greatest(S) \in S /\ s \in Seq(Nat)
      BY <1>1, <2>1, <2>3, LastTyped
    <3>2. Len(s) >= W16 /\ Len(s) \in Nat
      BY <2>1, <3>1, LenProperties DEF LastOf
    <3> HIDE DEF s
    <3>3. W16 <= Len(s)
      BY <2>2, <3>2
    <3> QED
      BY <2>2, <3>1, <3>3, PartTyped
  <2>4. d.appearance = IF S = {} THEN <<>> ELSE SubSeq(s, 1, W16)
    BY <1>2, <1>3 DEF S
  <2> HIDE DEF s
  <2> QED
    BY <2>3, <2>4
<1>11. /\ d.tx \in Seq(Int)
       /\ \A t \in ToSet(d.tx) : \E i \in Of(x, {10}, 1) : t = Int8(x[i].data[1])
       /\ ToSet(d.tx) = {} => Of(x, {10}, 1) = {}
  <2> DEFINE S == Of(x, {10}, 1)
             g == Greatest(S)
             n == Int8(x[g].data[1])
  <2>1. S \subseteq 1 .. Len(x) /\ \A i \in S : Len(x[i].data) >= 1
    BY <1>1, IndicesFinite DEF Of
  <2> HIDE DEF S
  <2>2. CASE S = {}
    <3>1. p.TxPower = <<>>
      BY <1>3, <2>2 DEF S
    <3>2. d.tx = <<>>
      BY <1>2, <3>1 DEF TxList
    <3>3. ToSet(d.tx) = {}
      BY <3>2 DEF ToSet
    <3> QED
      BY <2>2, <3>2, <3>3, EmptySeq DEF S
  <2>3. CASE S # {}
    <3>1. g \in S
      BY <1>1, <2>1, <2>3, LastTyped
    <3> HIDE DEF g
    <3>2. x[g].data[1] \in Nat
      <4>1. x[g].data \in Seq(Nat) /\ Len(x[g].data) \in Nat /\ Len(x[g].data) >= 1
        BY <1>1, <2>1, <3>1, FieldTyped
      <4>2. 1 \in 1 .. Len(x[g].data)
        BY <4>1
      <4> QED
        BY <4>1, <4>2, ElementOfSeq
    <3>3. n \in Int /\ Int8(n) = n
      BY <3>2, Int8Typed, Int8Twice
    <3>4. p.TxPower = <<n>>
      BY <1>3, <2>3 DEF S, LastOf, g
    <3> DEFINE m == n
    <3> HIDE DEF n
    <3>5. DOMAIN <<n>> = {1} /\ <<n>>[1] = n
      BY <3>3
    <3>6. d.tx = [i \in {1} |-> Int8(<<n>>[i])]
      BY <1>2, <3>4, <3>5 DEF TxList
    <3>7. d.tx = [i \in {1} |-> n]
      BY <3>3, <3>5, <3>6
    <3>8. d.tx \in Seq(Int) /\ ToSet(d.tx) = {n}
      <4>1. d.tx \in [1 .. 1 -> Int]
        BY <3>3, <3>7
      <4>2. d.tx \in Seq(Int)
        BY <4>1, FunctionIsSeq
      <4> QED
        BY <3>7, <4>2 DEF ToSet
    <3> QED
      BY <3>1, <3>8 DEF n, S
  <2> QED
    BY <2>2, <2>3
<1>13. d \in Device
  BY <1>2, <1>4, <1>5, <1>6, <1>9, <1>10, <1>11, Zenon
<1>14. d.name = IF Of(x, {8, 9}, 0) = {} THEN <<>> ELSE LastOf(x, Of(x, {8, 9}, 0))
  BY <1>2, <1>3, Zenon
<1>15. d.appearance = IF Of(x, {25}, W16) = {} THEN <<>> ELSE SubSeq(LastOf(x, Of(x, {25}, W16)), 1, W16)
  BY <1>2, <1>3, Zenon
<1>16. /\ ToSet(d.uuids) = {as_128bit(u) : u \in Listed(x)}
       /\ ToSet(d.manufacturer) = {LastOf(x, OfCompany(x, key)) : key \in Companies(x)}
       /\ ToSet(d.service) = {[uuid |-> as_128bit(ServiceAt(x, Greatest(OfKey(x, key))).uuid),
                               data |-> ServiceAt(x, Greatest(OfKey(x, key))).data] : key \in Keys(x)}
  BY <1>2, <1>4, <1>5, <1>6, Zenon
<1> QED
  BY <1>2, <1>11, <1>13, <1>14, <1>15, <1>16, Zenon DEF d, x, p

\* Any other signal shows a part of that device.
LEMMA SignalLimits ==
  ASSUME NEW r \in Report, NEW carried
  PROVE  LET d == Signalled(r, carried)  e == Signalled(r, Property) IN
         /\ d \in Device
         /\ d.address = e.address /\ d.rssi = (IF "RSSI" \in carried THEN e.rssi ELSE 0)
         /\ d.name = Carried("Name", carried, e.name)
         /\ d.tx = Carried("TxPower", carried, e.tx)
         /\ d.appearance = Carried("Appearance", carried, e.appearance)
         /\ d.uuids = Carried("UUIDs", carried, e.uuids)
         /\ d.manufacturer = Carried("ManufacturerData", carried, e.manufacturer)
         /\ d.service = Carried("ServiceData", carried, e.service)
<1> DEFINE d == Signalled(r, carried)
           e == Signalled(r, Property)
           p == Device1(r)
<1>1. /\ "RSSI" \in Property /\ "Name" \in Property /\ "TxPower" \in Property
      /\ "Appearance" \in Property /\ "UUIDs" \in Property
      /\ "ManufacturerData" \in Property /\ "ServiceData" \in Property
  BY DEF Property
<1>2. \A name \in Property : \A value : Carried(name, Property, value) = value
  BY DEF Carried
<1>3. r \in AirReport
  BY ReportTyped
<1>4. /\ e.address = r.addr /\ e.rssi = (IF "RSSI" \in Property THEN Int8(r.rssi) ELSE 0)
      /\ e.name = Carried("Name", Property, p.Name)
      /\ e.tx = Carried("TxPower", Property, TxList(p))
      /\ e.appearance = Carried("Appearance", Property, p.Appearance)
      /\ e.uuids = Carried("UUIDs", Property, UuidTexts(p))
      /\ e.manufacturer = Carried("ManufacturerData", Property, CompanyList(p))
      /\ e.service = Carried("ServiceData", Property, ServiceList(p))
  BY <1>3, SignalledIs, Zenon
<1>5. /\ d.address = r.addr /\ d.rssi = (IF "RSSI" \in carried THEN Int8(r.rssi) ELSE 0)
      /\ d.name = Carried("Name", carried, p.Name)
      /\ d.tx = Carried("TxPower", carried, TxList(p))
      /\ d.appearance = Carried("Appearance", carried, p.Appearance)
      /\ d.uuids = Carried("UUIDs", carried, UuidTexts(p))
      /\ d.manufacturer = Carried("ManufacturerData", carried, CompanyList(p))
      /\ d.service = Carried("ServiceData", carried, ServiceList(p))
      /\ (/\ d.name \in Seq(Nat) /\ d.tx \in Seq(Int) /\ d.appearance \in Seq(Nat)
          /\ d.uuids \in Seq(Uuid) /\ d.manufacturer \in Seq(Seq(Nat))
          /\ d.service \in Seq(ServiceItem)) => d \in Device
  BY <1>3, SignalledIs, Zenon
<1>6. e \in Device
  BY DbusDeviceIs, Zenon
<1> HIDE DEF d, e, p
<1>7. /\ e.name \in Seq(Nat) /\ e.tx \in Seq(Int) /\ e.appearance \in Seq(Nat)
      /\ e.uuids \in Seq(Uuid) /\ e.manufacturer \in Seq(Seq(Nat)) /\ e.service \in Seq(ServiceItem)
  BY <1>6 DEF Device
<1>8. /\ e.name = p.Name /\ e.tx = TxList(p) /\ e.appearance = p.Appearance /\ e.uuids = UuidTexts(p)
      /\ e.manufacturer = CompanyList(p) /\ e.service = ServiceList(p) /\ e.rssi = Int8(r.rssi)
  BY <1>1, <1>2, <1>4, Zenon
<1>9. /\ d.address = e.address /\ d.rssi = (IF "RSSI" \in carried THEN e.rssi ELSE 0)
      /\ d.name = Carried("Name", carried, e.name)
      /\ d.tx = Carried("TxPower", carried, e.tx)
      /\ d.appearance = Carried("Appearance", carried, e.appearance)
      /\ d.uuids = Carried("UUIDs", carried, e.uuids)
      /\ d.manufacturer = Carried("ManufacturerData", carried, e.manufacturer)
      /\ d.service = Carried("ServiceData", carried, e.service)
  BY <1>4, <1>5, <1>8, Zenon
<1>10. \A S, name : \A s \in Seq(S) : Carried(name, carried, s) \in Seq(S)
  BY EmptySeq DEF Carried
<1>11. /\ d.name \in Seq(Nat) /\ d.tx \in Seq(Int) /\ d.appearance \in Seq(Nat)
       /\ d.uuids \in Seq(Uuid) /\ d.manufacturer \in Seq(Seq(Nat)) /\ d.service \in Seq(ServiceItem)
  BY <1>7, <1>9, <1>10, Zenon
<1> QED
  BY <1>5, <1>9, <1>11, Zenon DEF d, e

-----------------------------------------------------------------------------
(***************************************************************************)
(* AdvCodec: the invariant.                                                *)
(***************************************************************************)
\* The buffer of the proxy never grows past its limit.
LEMMA SerializedFits ==
  ASSUME NEW d \in Device
  PROVE  Serialized(d) \in Seq(Nat) /\ Len(Serialized(d)) <= BUF
<1> DEFINE asked == Resent(d)
           n == Len(asked)
<1>1. asked \in Seq(AdField)
  BY ResentTyped
<1>2. PICK f : Buffers(asked, f) /\ Serialized(d) = f[n]
  BY <1>1, SerializedIs
<1> HIDE DEF asked
<1>3. n \in Nat /\ BUF \in Nat
  BY <1>1, LenProperties, CodecAssumption
<1> DEFINE S == {k \in Nat : k <= n => Len(f[k]) <= BUF}
<1>4. 0 \in S
  <2>1. f[0] = <<>>
    BY <1>2 DEF Buffers
  <2> QED
    BY <1>3, <2>1
<1>5. ASSUME NEW k \in Nat, k \in S PROVE k + 1 \in S
  <2> SUFFICES ASSUME k + 1 <= n PROVE Len(f[k + 1]) <= BUF
    OBVIOUS
  <2>1. k + 1 \in 1 .. n /\ (k + 1) - 1 = k /\ k \in 0 .. n
    BY <1>3
  <2> DEFINE x == asked[k + 1]
             e == AdStructure(x)
             b == f[k]
  <2>2. f[k + 1] = append_ad(b, x) /\ b \in Seq(Nat) /\ Len(b) <= BUF
    <3>1. \A i \in 1 .. n : f[i] = append_ad(f[i - 1], asked[i])
      BY <1>2 DEF Buffers
    <3>2. \A i \in 0 .. n : f[i] \in Seq(Nat)
      BY <1>2 DEF Buffers
    <3>3. Len(f[k]) <= BUF
      BY <1>5, <2>1
    <3> HIDE DEF n
    <3> QED
      BY <2>1, <3>1, <3>2, <3>3
  <2>3. x \in AdField
    BY <1>1, <2>1, ElementOfSeq
  <2> HIDE DEF x, b
  <2>4. e \in Seq(Nat) /\ Len(e) = 2 + Len(x.data) /\ Len(x.data) \in Nat
    BY <2>3, AdStructureBytes
  <2>5. CASE Len(b) + 2 + Len(x.data) > BUF
    BY <2>2, <2>5 DEF append_ad
  <2>6. CASE ~(Len(b) + 2 + Len(x.data) > BUF)
    <3>1. f[k + 1] = b \o e
      BY <2>2, <2>6 DEF append_ad
    <3> HIDE DEF e
    <3>2. Len(b \o e) = Len(b) + Len(e) /\ Len(b) \in Nat
      <4>1. b \in Seq(Nat) /\ e \in Seq(Nat)
        BY <2>2, <2>4
      <4>2. Len(b) \in Nat
        BY <4>1, LenProperties
      <4> QED
        BY <4>1, <4>2, ConcatProperties
    <3> DEFINE p == Len(b)
               q == Len(x.data)
    <3>3. p \in Nat /\ q \in Nat /\ ~(p + 2 + q > BUF) /\ Len(f[k + 1]) = p + (2 + q)
      BY <2>4, <2>6, <3>1, <3>2
    <3> HIDE DEF p, q
    <3> QED
      BY <1>3, <3>3
  <2> QED
    BY <2>5, <2>6
<1>6. n \in S
  <2> HIDE DEF S
  <2> QED
    BY <1>3, <1>4, <1>5, NaturalSetInduction
<1>7. n \in 0 .. n
  BY <1>3
<1>8. f[n] \in Seq(Nat)
  BY <1>2, <1>7 DEF Buffers
<1> QED
  BY <1>2, <1>3, <1>6, <1>8

\* An advertisement of the batch: the bytes of a device.
Batched == {e \in [of : Device, data : Seq(Nat)] : e.data = Serialized(e.of)}

CodecInv ==
  /\ air \in Air /\ via \in {"hci", "dbus"} /\ cut \in Nat
  /\ via = "hci" => cut <= Len(Event(air))
  /\ via = "dbus" => signal \in [DOMAIN air -> SUBSET Property]
  /\ received \in BOOLEAN /\ api \in BOOLEAN
  /\ devices \in Seq(Device)
  /\ batch \in Seq(Batched) /\ Len(batch) < BATCH

LEMMA CodecInitially ==
  ASSUME CodecInit
  PROVE  CodecInv
<1>1. air \in Air /\ via \in {"hci", "dbus"} /\ received = FALSE /\ api = FALSE /\ devices = <<>> /\ batch = <<>>
  BY DEF CodecInit
<1>2. Len(Event(air)) \in Nat
  BY <1>1, AirTyped, EventTyped, LenProperties
<1>3. cut \in Nat /\ (via = "hci" => cut <= Len(Event(air)))
  <2>1. CASE via = "hci"
    <3>1. cut \in 0 .. Len(Event(air))
      BY <2>1 DEF CodecInit
    <3> QED
      BY <1>2, <3>1
  <2>2. CASE via # "hci"
    <3>1. cut \in {0}
      BY <2>2 DEF CodecInit
    <3> QED
      BY <2>2, <3>1
  <2> QED
    BY <2>1, <2>2
<1>4. BATCH \in Nat \ {0}
  BY CodecAssumption
<1>5. devices \in Seq(Device) /\ batch \in Seq(Batched) /\ Len(batch) = 0
  BY <1>1, EmptySeq
<1>6. Len(batch) < BATCH
  <2> DEFINE n == Len(batch)
  <2>1. n = 0
    BY <1>5
  <2> HIDE DEF n
  <2>2. n < BATCH
    BY <1>4, <2>1
  <2> QED
    BY <2>2 DEF n
<1>7. received \in BOOLEAN /\ api \in BOOLEAN
  BY <1>1
<1>8. via = "dbus" => signal \in [DOMAIN air -> SUBSET Property]
  <2> SUFFICES ASSUME via = "dbus" PROVE signal \in [DOMAIN air -> SUBSET Property]
    OBVIOUS
  <2>1. signal \in [DOMAIN air -> {Property} \cup Changes]
    BY DEF CodecInit
  <2>2. \A carried \in {Property} \cup Changes : carried \in SUBSET Property
    BY CodecAssumption
  <2> QED
    BY <2>1, <2>2
<1> QED
  BY <1>1, <1>3, <1>5, <1>6, <1>7, <1>8 DEF CodecInv

LEMMA ReceiveHciKeeps ==
  ASSUME CodecInv, ReceiveHci
  PROVE  CodecInv'
<1>1. /\ air \in Air /\ via = "hci" /\ cut \in Nat /\ cut <= Len(Event(air))
      /\ devices' = handle_le_meta_event(SubSeq(Event(air), 1, cut))
      /\ received' = TRUE /\ UNCHANGED <<air, cut, via, signal, api, batch>>
  BY DEF CodecInv, ReceiveHci
<1>2. Event(air) \in Seq(Nat)
  BY <1>1, AirTyped, EventTyped
<1>3. SubSeq(Event(air), 1, cut) \in Seq(Nat)
  <2>1. 1 \in Nat \ {0}
    OBVIOUS
  <2> QED
    BY <1>1, <1>2, <2>1, PartTyped
<1>4. devices' \in Seq(Device)
  BY <1>1, <1>3, HandledTyped
<1> QED
  BY <1>1, <1>4 DEF CodecInv

LEMMA ReceiveDbusKeeps ==
  ASSUME CodecInv, ReceiveDbus
  PROVE  CodecInv'
<1>1. /\ air \in Air /\ devices' = [i \in DOMAIN air |-> Signalled(air[i], signal[i])]
      /\ received' = TRUE /\ UNCHANGED <<air, cut, via, signal, api, batch>>
  BY DEF CodecInv, ReceiveDbus
<1> DEFINE n == Len(air)
<1>2. n \in Nat /\ DOMAIN air = 1 .. n /\ \A i \in 1 .. n : air[i] \in Report
  BY <1>1, AirTyped, LenProperties
<1>3. \A i \in 1 .. n : Signalled(air[i], signal[i]) \in Device
  BY <1>2, SignalLimits, Zenon
<1> HIDE DEF n
<1>4. devices' \in [1 .. n -> Device]
  BY <1>1, <1>2, <1>3
<1>5. devices' \in Seq(Device)
  BY <1>2, <1>4, FunctionIsSeq
<1> QED
  BY <1>1, <1>5 DEF CodecInv

LEMMA parse_deviceKeeps ==
  ASSUME CodecInv, parse_device
  PROVE  CodecInv'
<1> DEFINE h == Head(devices)
           e == [of |-> h, data |-> Serialized(h)]
<1>1. /\ devices \in Seq(Device) /\ devices # <<>> /\ devices' = Tail(devices)
      /\ batch \in Seq(Batched) /\ Len(batch) < BATCH
      /\ batch' = IF api THEN Added(batch, e) ELSE batch
      /\ UNCHANGED <<air, cut, via, signal, received, api>>
  BY DEF CodecInv, parse_device
<1>2. h \in Device /\ devices' \in Seq(Device)
  BY <1>1, HeadTailProperties
<1> HIDE DEF h
<1>3. e \in Batched
  BY <1>2, SerializedFits DEF Batched
<1> HIDE DEF e
<1>4. BATCH \in Nat \ {0} /\ Len(batch) \in Nat
  BY <1>1, CodecAssumption, LenProperties
<1>5. batch' \in Seq(Batched) /\ Len(batch') < BATCH
  <2> DEFINE full == Append(batch, e)
  <2>1. full \in Seq(Batched) /\ Len(full) = Len(batch) + 1
    BY <1>1, <1>3, AppendProperties
  <2>2. Added(batch, e) = IF Len(full) >= BATCH THEN <<>> ELSE full
    BY DEF Added
  <2> HIDE DEF full
  <2>3. Added(batch, e) \in Seq(Batched) /\ Len(Added(batch, e)) < BATCH
    <3>1. <<>> \in Seq(Batched) /\ Len(<<>>) = 0
      BY EmptySeq
    <3>2. CASE Len(full) >= BATCH
      BY <1>4, <2>2, <3>1, <3>2
    <3>3. CASE ~(Len(full) >= BATCH)
      BY <1>4, <2>1, <2>2, <3>3
    <3> QED
      BY <3>2, <3>3
  <2> QED
    BY <1>1, <2>3
<1> QED
  BY <1>1, <1>2, <1>5 DEF CodecInv

LEMMA CodecStep ==
  ASSUME CodecInv, [CodecNext]_codecVars
  PROVE  CodecInv'
<1>1. CASE ReceiveHci
  BY <1>1, ReceiveHciKeeps
<1>2. CASE ReceiveDbus
  BY <1>2, ReceiveDbusKeeps
<1>3. CASE parse_device
  BY <1>3, parse_deviceKeeps
<1>4. CASE FlushPending
  <2>1. <<>> \in Seq(Batched) /\ Len(<<>>) = 0 /\ BATCH \in Nat \ {0}
    BY EmptySeq, CodecAssumption
  <2> QED
    BY <1>4, <2>1 DEF FlushPending, CodecInv
<1>5. CASE ApiChanges
  BY <1>5 DEF ApiChanges, CodecInv
<1>6. CASE UNCHANGED codecVars
  BY <1>6 DEF codecVars, CodecInv
<1> QED
  BY <1>1, <1>2, <1>3, <1>4, <1>5, <1>6 DEF CodecNext

LEMMA CodecInvariant == CodecSpec => []CodecInv
<1>1. CodecInit => CodecInv
  BY CodecInitially
<1>2. CodecInv /\ [CodecNext]_codecVars => CodecInv'
  BY CodecStep
<1> QED
  BY <1>1, <1>2, PTL DEF CodecSpec

\* The batch is never full and no advertisement in it is longer than the API
\* message holds; every device has all the fields of an ESPBTDevice.
THEOREM CodecIsTyped == CodecSpec => []CodecTypeOK
<1>1. ASSUME CodecInv PROVE CodecTypeOK
  <2>1. \A i \in DOMAIN devices : DOMAIN devices[i] = DOMAIN NoData
    <3>1. \A d \in Device : DOMAIN d = DOMAIN NoData
      BY DEF Device, NoData
    <3>2. \A i \in DOMAIN devices : devices[i] \in Device
      BY <1>1, LenProperties, ElementOfSeq DEF CodecInv
    <3> QED
      BY <3>1, <3>2
  <2>2. \A i \in DOMAIN batch : Len(batch[i].data) <= BUF
    <3>1. \A i \in DOMAIN batch : batch[i] \in Batched
      BY <1>1, LenProperties, ElementOfSeq DEF CodecInv
    <3>2. \A i \in DOMAIN batch : batch[i].of \in Device /\ batch[i].data = Serialized(batch[i].of)
      BY <3>1 DEF Batched
    <3> QED
      BY <3>2, SerializedFits
  <2> QED
    BY <1>1, <2>1, <2>2 DEF CodecTypeOK, CodecInv
<1> QED
  BY <1>1, CodecInvariant, PTL

\* BluetoothProxy::parse_device(): however its fields were cut and whichever did
\* not fit, what is batched for Home Assistant parses again, all of it, into
\* fields of the device, in their order, and into all of them if there is room.
THEOREM ForwardedParsesAgain == CodecSpec => []ForwardedReparses
<1>1. ASSUME CodecInv PROVE ForwardedReparses
  <2>1. \A i \in DOMAIN batch : batch[i] \in Batched
    BY <1>1, LenProperties, ElementOfSeq DEF CodecInv
  <2>2. \A i \in DOMAIN batch : Reparses(batch[i].of, batch[i].data)
    <3> SUFFICES ASSUME NEW i \in DOMAIN batch PROVE Reparses(batch[i].of, batch[i].data)
      OBVIOUS
    <3>1. batch[i].of \in Device /\ batch[i].data = Serialized(batch[i].of)
      BY <2>1 DEF Batched
    <3>2. Resent(batch[i].of) \in Seq(AdField)
      BY <3>1, ResentTyped
    <3>3. Reparses(batch[i].of, Serialized(batch[i].of))
      BY <3>2, SerializedReparses
    <3> QED
      BY <3>1, <3>3
  <2> QED
    BY <2>2, Zenon DEF ForwardedReparses, Reparses
<1> QED
  BY <1>1, CodecInvariant, PTL

-----------------------------------------------------------------------------
(***************************************************************************)
(* AdvCodec: the reports of an event that was cut.                         *)
(***************************************************************************)
\* Where a framed report has its parts.
FramedAs(e, r) ==
  LET y == Payload(r) IN
  /\ Len(e) = HEAD + Len(y) + 1
  /\ \A i \in 1 .. ADDR : e[2 + i] = r.addr[i]
  /\ e[HEAD] = Len(y)
  /\ \A i \in 1 .. Len(y) : e[HEAD + i] = y[i]
  /\ e[HEAD + Len(y) + 1] = r.rssi

LEMMA FramedLayout ==
  ASSUME NEW r \in AirReport, Len(r.addr) = ADDR
  PROVE  FramedAs(Framed(r), r)
<1> DEFINE y == Payload(r)
           n == Len(y)
           a == <<0, 0>>
           u == r.addr
           b == <<n>>
           z == <<r.rssi>>
           x1 == a \o u
           x2 == x1 \o b
           x3 == x2 \o y
           x4 == x3 \o z
<1>1. u \in Seq(Nat) /\ r.rssi \in Nat /\ Len(u) = ADDR /\ ADDR \in Nat \ {0} /\ HEAD = ADDR + 3
  BY CodecAssumption DEF AirReport, HEAD
<1>2. y \in Seq(Nat) /\ n \in Nat
  BY FramedTyped, LenProperties
<1>3. Framed(r) = x4
  BY DEF Framed
<1> HIDE DEF u, y, n
<1>4. a \in Seq(Nat) /\ Len(a) = 2 /\ b \in Seq(Nat) /\ Len(b) = 1 /\ b[1] = n /\ z \in Seq(Nat) /\ Len(z) = 1 /\ z[1] = r.rssi
  BY <1>1, <1>2
<1> HIDE DEF a, b, z
<1>5. /\ x1 \in Seq(Nat) /\ Len(x1) = 2 + ADDR /\ \A i \in 1 .. ADDR : x1[2 + i] = u[i]
  <2>1. /\ x1 \in Seq(Nat) /\ Len(x1) = Len(a) + Len(u)
        /\ \A i \in 1 .. Len(a) + Len(u) : x1[i] = IF i <= Len(a) THEN a[i] ELSE u[i - Len(a)]
    BY <1>1, <1>4, ConcatProperties
  <2> HIDE DEF x1
  <2>2. \A i \in 1 .. 2 + ADDR : x1[i] = IF i <= 2 THEN a[i] ELSE u[i - 2]
    BY <1>1, <1>4, <2>1
  <2>3. ASSUME NEW i \in 1 .. ADDR PROVE x1[2 + i] = u[i]
    <3>1. 2 + i \in 1 .. 2 + ADDR /\ ~(2 + i <= 2) /\ (2 + i) - 2 = i
      BY <1>1
    <3> QED
      BY <2>2, <3>1
  <2> QED
    BY <1>1, <1>4, <2>1, <2>3
<1> HIDE DEF x1
<1>6. /\ x2 \in Seq(Nat) /\ Len(x2) = HEAD /\ x2[HEAD] = n /\ \A i \in 1 .. ADDR : x2[2 + i] = u[i]
  <2>1. /\ x2 \in Seq(Nat) /\ Len(x2) = Len(x1) + Len(b)
        /\ \A i \in 1 .. Len(x1) + Len(b) : x2[i] = IF i <= Len(x1) THEN x1[i] ELSE b[i - Len(x1)]
    BY <1>4, <1>5, ConcatProperties
  <2> HIDE DEF x2
  <2>2. Len(x1) + Len(b) = HEAD /\ Len(x1) = HEAD - 1 /\ HEAD \in Nat
    BY <1>1, <1>4, <1>5
  <2>3. \A i \in 1 .. HEAD : x2[i] = IF i <= HEAD - 1 THEN x1[i] ELSE b[i - (HEAD - 1)]
    BY <2>1, <2>2
  <2>4. ASSUME NEW i \in 1 .. ADDR PROVE x2[2 + i] = u[i]
    <3>1. 2 + i \in 1 .. HEAD /\ 2 + i <= HEAD - 1
      BY <1>1
    <3> QED
      BY <1>5, <2>3, <3>1
  <2>5. x2[HEAD] = b[1]
    <3>1. HEAD \in 1 .. HEAD /\ ~(HEAD <= HEAD - 1) /\ HEAD - (HEAD - 1) = 1
      BY <1>1
    <3> QED
      BY <2>3, <3>1
  <2> QED
    BY <1>4, <2>1, <2>2, <2>4, <2>5
<1> HIDE DEF x2
<1>7. HEAD \in Nat /\ HEAD >= 1 /\ \A i \in 1 .. ADDR : 2 + i \in 1 .. HEAD
  BY <1>1
<1>8. /\ x3 \in Seq(Nat) /\ Len(x3) = HEAD + n /\ \A i \in 1 .. HEAD : x3[i] = x2[i]
      /\ \A i \in 1 .. n : x3[HEAD + i] = y[i]
  <2>1. /\ x3 \in Seq(Nat) /\ Len(x3) = Len(x2) + Len(y)
        /\ \A i \in 1 .. Len(x2) + Len(y) : x3[i] = IF i <= Len(x2) THEN x2[i] ELSE y[i - Len(x2)]
    BY <1>2, <1>6, ConcatProperties
  <2> HIDE DEF x3
  <2>2. \A i \in 1 .. HEAD + n : x3[i] = IF i <= HEAD THEN x2[i] ELSE y[i - HEAD]
    BY <1>6, <2>1 DEF n
  <2>3. ASSUME NEW i \in 1 .. HEAD PROVE x3[i] = x2[i]
    <3>1. i \in 1 .. HEAD + n /\ i <= HEAD
      BY <1>2, <1>7
    <3> QED
      BY <2>2, <3>1
  <2>4. ASSUME NEW i \in 1 .. n PROVE x3[HEAD + i] = y[i]
    <3>1. HEAD + i \in 1 .. HEAD + n /\ ~(HEAD + i <= HEAD) /\ (HEAD + i) - HEAD = i
      BY <1>2, <1>7
    <3> QED
      BY <2>2, <3>1
  <2> QED
    BY <1>6, <2>1, <2>3, <2>4 DEF n
<1> HIDE DEF x3
<1> DEFINE m == HEAD + n
<1>9. m \in Nat /\ m = HEAD + n
  BY <1>2, <1>7
<1> HIDE DEF m
<1>10. /\ Len(x4) = m + 1 /\ x4[m + 1] = r.rssi /\ \A i \in 1 .. m : x4[i] = x3[i]
  <2>1. /\ x4 \in Seq(Nat) /\ Len(x4) = Len(x3) + Len(z)
        /\ \A i \in 1 .. Len(x3) + Len(z) : x4[i] = IF i <= Len(x3) THEN x3[i] ELSE z[i - Len(x3)]
    BY <1>4, <1>8, ConcatProperties, ZenonT(40)
  <2> HIDE DEF x4
  <2>2. Len(x4) = m + 1 /\ \A i \in 1 .. m + 1 : x4[i] = IF i <= m THEN x3[i] ELSE z[i - m]
    BY <1>4, <1>8, <1>9, <2>1
  <2>3. ASSUME NEW i \in 1 .. m PROVE x4[i] = x3[i]
    <3>1. i \in 1 .. m + 1 /\ i <= m
      BY <1>9
    <3> QED
      BY <2>2, <3>1
  <2>4. x4[m + 1] = z[1]
    <3>1. m + 1 \in 1 .. m + 1 /\ ~(m + 1 <= m) /\ (m + 1) - m = 1
      BY <1>9
    <3> QED
      BY <2>2, <3>1
  <2> QED
    BY <1>4, <2>2, <2>3, <2>4
<1> HIDE DEF x4
<1>11. \A i \in 1 .. HEAD : x4[i] = x2[i]
  <2>1. \A i \in 1 .. HEAD : i \in 1 .. m
    BY <1>2, <1>7, <1>9
  <2> QED
    BY <1>8, <1>10, <2>1
<1>12. \A i \in 1 .. ADDR : x4[2 + i] = u[i]
  BY <1>6, <1>7, <1>11
<1>13. x4[HEAD] = n
  <2>1. HEAD \in 1 .. HEAD
    BY <1>7
  <2> QED
    BY <1>6, <1>11, <2>1
<1>14. \A i \in 1 .. n : x4[HEAD + i] = y[i]
  <2>1. \A i \in 1 .. n : HEAD + i \in 1 .. m
    BY <1>2, <1>7, <1>9
  <2> QED
    BY <1>8, <1>10, <2>1
<1>15. Len(x4) = HEAD + n + 1 /\ x4[HEAD + n + 1] = r.rssi
  BY <1>9, <1>10
<1> QED
  BY <1>3, <1>12, <1>13, <1>14, <1>15 DEF FramedAs, y, n, u

\* What parse_ad_payload() makes of a payload is what its report says.
LEMMA PayloadMeans ==
  ASSUME NEW r \in AirReport, NoField(r.tail)
  PROVE  parse_ad_payload(Payload(r), Started(r.addr, r.rssi)) = Meant(r)
<1>1. r.fields \in Seq(AdField) /\ r.tail \in Seq(Nat)
  BY DEF AirReport
<1>2. FieldsOf(Encode(r.fields) \o r.tail) = r.fields
  BY <1>1, EncodedReadsBack
<1> QED
  BY <1>2, Zenon DEF parse_ad_payload, Payload, Started, Meant

\* The bytes of a report behind others, in the bytes of the event.
LEMMA FramedBehind ==
  ASSUME NEW out \in Seq(Nat), NEW r \in AirReport, Len(r.addr) = ADDR
  PROVE  LET w == out \o Framed(r)  p == Len(out)  y == Payload(r) IN
         /\ w \in Seq(Nat) /\ Len(w) = p + (HEAD + Len(y) + 1)
         /\ \A i \in 1 .. ADDR : w[p + (2 + i)] = r.addr[i]
         /\ w[p + HEAD] = Len(y)
         /\ \A i \in 1 .. Len(y) : w[p + (HEAD + i)] = y[i]
         /\ w[p + (HEAD + Len(y) + 1)] = r.rssi
         /\ p \in Nat /\ Len(y) \in Nat /\ HEAD = ADDR + 3 /\ ADDR \in Nat \ {0}
<1> DEFINE e == Framed(r)
           w == out \o e
           p == Len(out)
           y == Payload(r)
           n == Len(y)
           m == Len(e)
<1>1. e \in Seq(Nat) /\ n \in Nat /\ p \in Nat
  BY FramedTyped, LenProperties
<1>2. ADDR \in Nat \ {0} /\ HEAD = ADDR + 3 /\ HEAD \in Nat
  BY CodecAssumption DEF HEAD
<1>3. /\ m = HEAD + n + 1
      /\ \A i \in 1 .. ADDR : e[2 + i] = r.addr[i]
      /\ e[HEAD] = n
      /\ \A i \in 1 .. n : e[HEAD + i] = y[i]
      /\ e[HEAD + n + 1] = r.rssi
  BY FramedLayout DEF FramedAs
<1> HIDE DEF e, y
<1>4. /\ w \in Seq(Nat) /\ Len(w) = p + m
      /\ \A i \in 1 .. p + m : w[i] = IF i <= p THEN out[i] ELSE e[i - p]
  BY <1>1, ConcatProperties
<1> HIDE DEF w, p, n, m
<1>5. ASSUME NEW j \in 1 .. m PROVE w[p + j] = e[j]
  <2>1. m \in Nat
    BY <1>1, <1>2, <1>3
  <2>2. p + j \in 1 .. p + m /\ ~(p + j <= p) /\ (p + j) - p = j
    BY <1>1, <2>1
  <2> QED
    BY <1>4, <2>2
<1>6. /\ \A i \in 1 .. ADDR : 2 + i \in 1 .. m
      /\ HEAD \in 1 .. m /\ \A i \in 1 .. n : HEAD + i \in 1 .. m
      /\ HEAD + n + 1 \in 1 .. m
  BY <1>1, <1>2, <1>3, SMTT(30)
<1>7. \A i \in 1 .. ADDR : w[p + (2 + i)] = r.addr[i]
  BY <1>3, <1>5, <1>6
<1>8. w[p + HEAD] = n
  BY <1>3, <1>5, <1>6
<1>9. \A i \in 1 .. n : w[p + (HEAD + i)] = y[i]
  BY <1>3, <1>5, <1>6
<1>10. w[p + (HEAD + n + 1)] = r.rssi
  BY <1>3, <1>5, <1>6
<1>11. Len(w) = p + (HEAD + n + 1)
  BY <1>3, <1>4
<1> QED
  BY <1>1, <1>2, <1>4, <1>7, <1>8, <1>9, <1>10, <1>11 DEF w, p, n, y, e

\* The loop is between two reports: the next is there, all of it.
LEMMA ReadsFramed ==
  ASSUME NEW out \in Seq(Nat), NEW r \in AirReport, Len(r.addr) = ADDR, NoField(r.tail),
         NEW evt \in Seq(Nat), NEW at \in ReportReading,
         Extends(evt, out \o Framed(r)), at.pos = Len(out)
  PROVE  ReadReport(evt, at) = [pos |-> Len(out \o Framed(r)), got |-> Append(at.got, Meant(r))]
<1> DEFINE w == out \o Framed(r)
           p == Len(out)
           y == Payload(r)
           n == Len(y)
           q == Len(w)
           L == Len(evt)
<1>1. /\ w \in Seq(Nat) /\ q = p + (HEAD + n + 1)
      /\ \A i \in 1 .. ADDR : w[p + (2 + i)] = r.addr[i]
      /\ w[p + HEAD] = n
      /\ \A i \in 1 .. n : w[p + (HEAD + i)] = y[i]
      /\ w[p + (HEAD + n + 1)] = r.rssi
      /\ p \in Nat /\ n \in Nat /\ HEAD = ADDR + 3 /\ ADDR \in Nat \ {0}
  BY FramedBehind
<1>2. y \in Seq(Nat) /\ r.addr \in Seq(Nat) /\ L \in Nat
  BY FramedTyped, LenProperties DEF AirReport
<1> HIDE DEF w, y
<1>3. q <= L /\ \A i \in 1 .. q : evt[i] = w[i]
  BY DEF Extends, w
<1> HIDE DEF p, n, q, L
<1>4. /\ q \in Nat /\ q = p + (HEAD + n + 1) /\ p \in Nat /\ n \in Nat
      /\ HEAD = ADDR + 3 /\ ADDR \in Nat \ {0} /\ HEAD \in Nat /\ L \in Nat /\ q <= L
  <2>1. /\ q = p + (HEAD + n + 1) /\ p \in Nat /\ n \in Nat
        /\ HEAD = ADDR + 3 /\ ADDR \in Nat \ {0}
    BY <1>1
  <2>2. L \in Nat /\ q <= L
    BY <1>2, <1>3
  <2>3. HEAD \in Nat
    BY <2>1
  <2>4. q \in Nat
    BY <2>1, <2>3
  <2> QED
    BY <2>1, <2>2, <2>3, <2>4
<1>5. /\ \A i \in 1 .. ADDR : p + (2 + i) \in 1 .. q
      /\ p + HEAD \in 1 .. q /\ \A i \in 1 .. n : p + (HEAD + i) \in 1 .. q
      /\ p + (HEAD + n + 1) \in 1 .. q
  <2>1. \A i \in 1 .. ADDR : p + (2 + i) \in 1 .. q
    BY <1>4
  <2>2. p + HEAD \in 1 .. q /\ p + (HEAD + n + 1) \in 1 .. q
    BY <1>4
  <2>3. \A i \in 1 .. n : p + (HEAD + i) \in 1 .. q
    BY <1>4
  <2> QED
    BY <2>1, <2>2, <2>3
<1> DEFINE data == at.pos + HEAD
           end == data + evt[data] + 1
<1>6. data = p + HEAD /\ at.pos = p
  BY DEF p
<1>7. evt[data] = n
  BY <1>1, <1>3, <1>5, <1>6
<1>8. end = q
  BY <1>4, <1>6, <1>7
<1>9. ~(data > L) /\ ~(end > L)
  <2>1. ~(p + HEAD > L) /\ ~(q > L)
    BY <1>4
  <2> QED
    BY <1>6, <1>8, <2>1
<1>10. evt[q] = r.rssi
  BY <1>1, <1>3, <1>5
<1>11. SubSeq(evt, p + 3, p + 2 + ADDR) = r.addr
  <2> DEFINE s == SubSeq(evt, p + 3, p + 2 + ADDR)
  <2>1. p + 3 \in Int /\ p + 2 + ADDR \in Int /\ \A i \in p + 3 .. p + 2 + ADDR : i \in 1 .. L
    BY <1>4
  <2>2. \A i \in p + 3 .. p + 2 + ADDR : evt[i] \in Nat
    BY <2>1, ElementOfSeq DEF L
  <2>3. /\ s \in Seq(Nat)
        /\ Len(s) = IF p + 3 <= p + 2 + ADDR THEN (p + 2 + ADDR) - (p + 3) + 1 ELSE 0
        /\ \A i \in 1 .. (p + 2 + ADDR) - (p + 3) + 1 : s[i] = evt[(p + 3) + i - 1]
    BY <2>1, <2>2, SubSeqProperties, SMTT(30)
  <2> HIDE DEF s
  <2>4. (p + 2 + ADDR) - (p + 3) + 1 = ADDR /\ p + 3 <= p + 2 + ADDR
    BY <1>1
  <2>5. Len(s) = ADDR
    BY <2>3, <2>4
  <2>6. ASSUME NEW i \in 1 .. ADDR PROVE s[i] = r.addr[i]
    <3>1. (p + 3) + i - 1 = p + (2 + i)
      BY <1>1
    <3>2. s[i] = evt[p + (2 + i)]
      BY <2>3, <2>4, <3>1
    <3> QED
      BY <1>1, <1>3, <1>5, <3>2
  <2>7. Len(s) = Len(r.addr) /\ \A i \in 1 .. Len(s) : s[i] = r.addr[i]
    BY <2>5, <2>6
  <2>8. s = r.addr
    BY <1>2, <2>3, <2>7, SeqEqual
  <2> QED
    BY <2>8 DEF s
<1>12. SubSeq(evt, data + 1, end - 1) = y
  <2> DEFINE f == p + HEAD + 1
             t == q - 1
             s == SubSeq(evt, f, t)
  <2>1. data + 1 = f /\ end - 1 = t
    BY <1>1, <1>6, <1>8
  <2>2. f \in Int /\ t \in Int /\ (t - f) + 1 = n /\ (\A i \in f .. t : i \in 1 .. L) /\ (f <= t <=> n # 0)
    <3>1. f \in Int /\ t \in Int /\ (t - f) + 1 = n
      BY <1>4
    <3>2. \A i \in f .. t : i \in 1 .. L
      BY <1>4
    <3>3. f <= t <=> n # 0
      BY <1>4
    <3> QED
      BY <3>1, <3>2, <3>3
  <2>3. \A i \in f .. t : evt[i] \in Nat
    BY <2>2, ElementOfSeq DEF L
  <2>4. \A i \in 1 .. n : f + i - 1 = p + (HEAD + i)
    BY <1>1
  <2> HIDE DEF f, t
  <2>5. /\ s \in Seq(Nat) /\ Len(s) = IF f <= t THEN (t - f) + 1 ELSE 0
        /\ \A i \in 1 .. (t - f) + 1 : s[i] = evt[f + i - 1]
    BY <2>2, <2>3, SubSeqProperties
  <2> HIDE DEF s
  <2>6. Len(s) = n
    BY <1>1, <2>2, <2>5
  <2>7. ASSUME NEW i \in 1 .. n PROVE s[i] = y[i]
    <3>1. s[i] = evt[p + (HEAD + i)]
      BY <2>2, <2>4, <2>5
    <3> QED
      BY <1>1, <1>3, <1>5, <3>1
  <2>8. s = y
    BY <1>2, <2>5, <2>6, <2>7, SeqEqual DEF n
  <2> QED
    BY <2>1, <2>8 DEF s
<1>13. ReadReport(evt, at) =
         [pos |-> end, got |-> Append(at.got, parse_ad_payload(SubSeq(evt, data + 1, end - 1),
            Started(SubSeq(evt, at.pos + 3, at.pos + 2 + ADDR), evt[end])))]
  BY <1>9, Zenon DEF ReadReport, Started, L
<1> HIDE DEF data, end
<1>14. ReadReport(evt, at) = [pos |-> q, got |-> Append(at.got, parse_ad_payload(y, Started(r.addr, r.rssi)))]
  BY <1>6, <1>8, <1>10, <1>11, <1>12, <1>13
<1>15. parse_ad_payload(y, Started(r.addr, r.rssi)) = Meant(r)
  BY PayloadMeans DEF y
<1> QED
  BY <1>14, <1>15 DEF q, w

\* The next report is not all there: the loop ends.
LEMMA FramedCutShort ==
  ASSUME NEW out \in Seq(Nat), NEW r \in AirReport, Len(r.addr) = ADDR,
         NEW evt \in Seq(Nat), NEW at \in ReportReading,
         Len(evt) < Len(out \o Framed(r)), \A i \in 1 .. Len(evt) : evt[i] = (out \o Framed(r))[i],
         at.pos = Len(out)
  PROVE  ReadReport(evt, at) = at
<1> DEFINE w == out \o Framed(r)
           p == Len(out)
           n == Len(Payload(r))
           q == Len(w)
           L == Len(evt)
           data == at.pos + HEAD
           end == data + evt[data] + 1
<1>1. /\ q = p + (HEAD + n + 1) /\ w[p + HEAD] = n
      /\ p \in Nat /\ n \in Nat /\ HEAD = ADDR + 3 /\ ADDR \in Nat \ {0}
  BY FramedBehind
<1>2. L \in Nat /\ L < q /\ \A i \in 1 .. L : evt[i] = w[i]
  BY LenProperties
<1>3. data = p + HEAD
  OBVIOUS
<1> HIDE DEF w, p, n, q, L
<1>4. data > L \/ end > L
  <2> SUFFICES ASSUME ~(data > L) PROVE end > L
    OBVIOUS
  <2>1. p + HEAD \in 1 .. L
    BY <1>1, <1>2, <1>3
  <2>2. evt[data] = n
    BY <1>1, <1>2, <1>3, <2>1
  <2>3. end = q
    <3>1. HEAD \in Nat /\ q = p + (HEAD + n + 1) /\ p \in Nat /\ n \in Nat
      BY <1>1
    <3>2. (p + HEAD) + n + 1 = q
      BY <3>1
    <3> QED
      BY <1>3, <2>2, <3>2
  <2> QED
    BY <1>2, <2>3
<1> QED
  BY <1>4, Zenon DEF ReadReport, L

LEMMA FramingStep ==
  ASSUME NEW a \in Seq(AirReport), NEW f, Framing(a, f), NEW k \in 1 .. Len(a)
  PROVE  /\ k - 1 \in 0 .. Len(a) /\ a[k] \in AirReport
         /\ f[k - 1] \in Seq(Nat) /\ f[k] \in Seq(Nat) /\ f[k] = f[k - 1] \o Framed(a[k])
         /\ Len(f[k]) = Len(f[k - 1]) + Len(Framed(a[k]))
         /\ Len(f[k]) \in Nat /\ Len(f[k - 1]) \in Nat /\ Len(Framed(a[k])) \in Nat
         /\ Extends(f[k], f[k - 1])
<1> DEFINE s == f[k - 1]
           t == Framed(a[k])
<1>1. Len(a) \in Nat
  BY LenProperties
<1>2. k - 1 \in 0 .. Len(a) /\ k \in 0 .. Len(a)
  BY <1>1
<1>3. a[k] \in AirReport
  BY ElementOfSeq
<1>4. f[k] = s \o t /\ s \in Seq(Nat) /\ f[k] \in Seq(Nat)
  BY <1>2 DEF Framing
<1>5. t \in Seq(Nat)
  BY <1>3, FramedTyped
<1> HIDE DEF s, t
<1>6. Extends(s \o t, s) /\ Len(s \o t) = Len(s) + Len(t)
  BY <1>4, <1>5, ConcatExtends
<1>7. Len(s) \in Nat /\ Len(t) \in Nat
  BY <1>4, <1>5, LenProperties
<1>8. Len(f[k]) \in Nat
  BY <1>4, LenProperties
<1> QED
  BY <1>2, <1>3, <1>4, <1>6, <1>7, <1>8 DEF s, t

LEMMA FramingExtends ==
  ASSUME NEW a \in Seq(AirReport), NEW f, Framing(a, f), NEW k \in 0 .. Len(a)
  PROVE  Extends(f[Len(a)], f[k]) /\ Len(f[k]) \in Nat /\ f[k] \in Seq(Nat)
<1> DEFINE n == Len(a)
           S == {m \in Nat : k + m <= n => Extends(f[k + m], f[k])}
<1>1. n \in Nat
  BY LenProperties
<1>2. \A m \in 0 .. n : f[m] \in Seq(Nat) /\ Len(f[m]) \in Nat
  BY LenProperties DEF Framing
<1>3. 0 \in S
  <2>1. k + 0 = k /\ Len(f[k]) \in Nat
    BY <1>2
  <2> QED
    BY <2>1 DEF Extends
<1>4. ASSUME NEW m \in Nat, m \in S PROVE m + 1 \in S
  <2> SUFFICES ASSUME k + (m + 1) <= n PROVE Extends(f[k + (m + 1)], f[k])
    OBVIOUS
  <2> DEFINE j == k + (m + 1)
  <2>1. j \in 1 .. n /\ j \in 0 .. n /\ j - 1 = k + m /\ k + m \in 0 .. n /\ k + m <= n
    BY <1>1
  <2>2. Extends(f[j - 1], f[k])
    BY <1>4, <2>1
  <2> HIDE DEF j
  <2>3. Extends(f[j], f[j - 1])
    BY <2>1, FramingStep
  <2>4. Len(f[j]) \in Nat /\ Len(f[j - 1]) \in Nat /\ Len(f[k]) \in Nat
    BY <1>2, <2>1
  <2>5. Extends(f[j], f[k])
    BY <2>2, <2>3, <2>4, ExtendsFurther
  <2> QED
    BY <2>5 DEF j
<1>5. n - k \in Nat /\ k + (n - k) = n
  BY <1>1
<1>6. n - k \in S
  <2> HIDE DEF S
  <2> QED
    BY <1>3, <1>4, <1>5, NaturalSetInduction
<1> QED
  BY <1>1, <1>2, <1>5, <1>6

\* An event of the first k reports is as long as the bytes up to the k-th.
LEMMA EventLength ==
  ASSUME NEW a \in Seq(AirReport), NEW f, Framing(a, f), NEW k \in 0 .. Len(a)
  PROVE  Len(Event(SubSeq(a, 1, k))) = Len(f[k])
<1> DEFINE s == SubSeq(a, 1, k)
<1>1. Len(a) \in Nat /\ k \in Nat /\ k <= Len(a)
  BY LenProperties
<1>2. s \in Seq(AirReport) /\ Len(s) = k /\ \A i \in 1 .. k : s[i] = a[i]
  <2>1. 1 \in Int /\ k \in Int /\ \A i \in 1 .. k : i \in 1 .. Len(a)
    BY <1>1
  <2>2. \A i \in 1 .. k : a[i] \in AirReport
    BY <2>1, ElementOfSeq
  <2>3. /\ s \in Seq(AirReport) /\ Len(s) = IF 1 <= k THEN k - 1 + 1 ELSE 0
        /\ \A i \in 1 .. k - 1 + 1 : s[i] = a[1 + i - 1]
    BY <2>1, <2>2, SubSeqProperties
  <2> HIDE DEF s
  <2>4. k - 1 + 1 = k /\ \A i \in 1 .. k : 1 + i - 1 = i
    BY <1>1
  <2> QED
    BY <1>1, <2>3, <2>4
<1> HIDE DEF s
<1>3. PICK h : Framing(s, h) /\ Event(s) = h[Len(s)]
  BY <1>2, EventIs
<1> DEFINE S == {m \in Nat : m <= k => Len(h[m]) = Len(f[m])}
<1>4. 0 \in S
  <2>1. h[0] = <<LE_ADVERTISING_REPORT, Len(s)>> /\ f[0] = <<LE_ADVERTISING_REPORT, Len(a)>>
    BY <1>3 DEF Framing
  <2> QED
    BY <2>1
<1>5. ASSUME NEW m \in Nat, m \in S PROVE m + 1 \in S
  <2> SUFFICES ASSUME m + 1 <= k PROVE Len(h[m + 1]) = Len(f[m + 1])
    OBVIOUS
  <2> DEFINE j == m + 1
  <2>1. j \in 1 .. k /\ j \in 1 .. Len(a) /\ j \in 1 .. Len(s) /\ j - 1 = m /\ m <= k
    BY <1>1, <1>2
  <2>2. Len(h[j - 1]) = Len(f[j - 1])
    BY <1>5, <2>1
  <2> HIDE DEF j
  <2>3. Len(h[j]) = Len(h[j - 1]) + Len(Framed(s[j]))
    BY <1>2, <1>3, <2>1, FramingStep
  <2>4. Len(f[j]) = Len(f[j - 1]) + Len(Framed(a[j]))
    BY <2>1, FramingStep
  <2>5. s[j] = a[j]
    BY <1>2, <2>1
  <2>6. Len(h[j]) = Len(f[j])
    BY <2>2, <2>3, <2>4, <2>5
  <2> QED
    BY <2>6 DEF j
<1>6. k \in S
  <2> HIDE DEF S
  <2> QED
    BY <1>1, <1>4, <1>5, NaturalSetInduction
<1> QED
  BY <1>1, <1>2, <1>3, <1>6 DEF s

\* The start of an event, up to where it was cut.
LEMMA CutEvent ==
  ASSUME NEW s \in Seq(Nat), NEW q \in Nat, q <= Len(s)
  PROVE  LET evt == SubSeq(s, 1, q) IN
         evt \in Seq(Nat) /\ Len(evt) = q /\ \A i \in 1 .. q : evt[i] = s[i]
<1> DEFINE evt == SubSeq(s, 1, q)
<1>1. Len(s) \in Nat
  BY LenProperties
<1>2. 1 \in Int /\ q \in Int /\ \A i \in 1 .. q : i \in 1 .. Len(s)
  BY <1>1
<1>3. \A i \in 1 .. q : s[i] \in Nat
  BY <1>2, ElementOfSeq
<1>4. /\ evt \in Seq(Nat) /\ Len(evt) = IF 1 <= q THEN q - 1 + 1 ELSE 0
      /\ \A i \in 1 .. q - 1 + 1 : evt[i] = s[1 + i - 1]
  BY <1>2, <1>3, SubSeqProperties
<1> HIDE DEF evt
<1>5. q - 1 + 1 = q /\ \A i \in 1 .. q : 1 + i - 1 = i
  OBVIOUS
<1>6. evt \in Seq(Nat) /\ Len(evt) = q /\ \A i \in 1 .. q : evt[i] = s[i]
  BY <1>4, <1>5
<1> QED
  BY <1>6 DEF evt

\* After k passes the loop has the first k reports, while they are all there.
LEMMA ReadsReports ==
  ASSUME NEW a \in Air, NEW f, Framing(a, f), NEW evt \in Seq(Nat), NEW g, ReportReadingOf(evt, g),
         Len(evt) >= 2, evt[2] = Len(a), \A i \in 1 .. Len(evt) : i <= Len(f[Len(a)]) /\ evt[i] = f[Len(a)][i],
         NEW n \in 0 .. Len(a), \A k \in 1 .. n : Len(f[k]) <= Len(evt)
  PROVE  /\ g[n].pos = Len(f[n]) /\ Len(g[n].got) = n /\ \A i \in 1 .. n : g[n].got[i] = Meant(a[i])
         /\ g[n] \in ReportReading
<1> DEFINE L == Len(evt)
           Done(k) == g[k].pos = Len(f[k]) /\ Len(g[k].got) = k /\ \A i \in 1 .. k : g[k].got[i] = Meant(a[i])
           S == {k \in Nat : k <= n => Done(k)}
<1>1. a \in Seq(AirReport) /\ \A i \in 1 .. Len(a) : a[i] \in AirReport /\ Len(a[i].addr) = ADDR /\ NoField(a[i].tail)
  BY AirTyped
<1>2. Len(a) \in Nat /\ n \in Nat /\ n <= Len(a) /\ L \in Nat
  BY <1>1, LenProperties
<1>3. \A k \in 0 .. Len(a) : g[k] \in ReportReading
  BY DEF ReportReadingOf
<1>4. 0 \in S
  <2>1. f[0] = <<LE_ADVERTISING_REPORT, Len(a)>> /\ g[0] = [pos |-> 2, got |-> <<>>]
    BY DEF Framing, ReportReadingOf
  <2>2. Len(f[0]) = 2
    BY <2>1
  <2>3. g[0].pos = 2 /\ g[0].got = <<>>
    BY <2>1
  <2>4. Len(g[0].got) = 0
    BY <2>3
  <2>5. \A i \in 1 .. 0 : FALSE
    OBVIOUS
  <2>6. Done(0)
    BY <2>2, <2>3, <2>4, <2>5
  <2> HIDE DEF Done
  <2> QED
    BY <2>6
<1>5. ASSUME NEW k \in Nat, k \in S PROVE k + 1 \in S
  <2> SUFFICES ASSUME k + 1 <= n PROVE Done(k + 1)
    BY SMTT(30)
  <2> DEFINE j == k + 1
             out == f[k]
             r == a[k + 1]
             w == out \o Framed(r)
             at == g[k]
             m == Meant(r)
  <2>1. /\ j \in 1 .. n /\ j \in 1 .. Len(a) /\ j \in 0 .. Len(a) /\ j - 1 = k /\ k <= n
        /\ k \in 0 .. Len(a)
    BY <1>2, SMTT(30)
  <2>2. at.pos = Len(out) /\ Len(at.got) = k /\ \A i \in 1 .. k : at.got[i] = Meant(a[i])
    BY <1>5, <2>1
  <2>3. f[j] = w /\ out \in Seq(Nat) /\ f[j] \in Seq(Nat)
    <3> HIDE DEF j
    <3>1. f[j] = f[j - 1] \o Framed(a[j]) /\ f[j - 1] \in Seq(Nat) /\ f[j] \in Seq(Nat)
      BY <1>1, <2>1, FramingStep
    <3> QED
      BY <2>1, <3>1 DEF j
  <2>4. r \in AirReport /\ Len(r.addr) = ADDR /\ NoField(r.tail)
    BY <1>1, <2>1
  <2>5. Extends(evt, f[j])
    <3>1. Extends(f[Len(a)], f[j]) /\ Len(f[j]) \in Nat
      <4> HIDE DEF j
      <4> QED
        BY <1>1, <2>1, FramingExtends
    <3>2. Len(f[j]) <= L
      BY <2>1
    <3> HIDE DEF j
    <3>3. \A i \in 1 .. Len(f[j]) : i \in 1 .. L
      BY <1>2, <3>1, <3>2
    <3> QED
      BY <3>1, <3>2, <3>3 DEF Extends
  <2>6. g[j] = ReadReport(evt, at)
    BY <2>1 DEF ReportReadingOf
  <2>7. at \in ReportReading
    BY <1>3, <2>1
  <2> HIDE DEF j, out, r, w, at
  <2>8. Extends(evt, out \o Framed(r))
    BY <2>3, <2>5 DEF w
  <2>9. ReadReport(evt, at) = [pos |-> Len(out \o Framed(r)), got |-> Append(at.got, m)]
    BY <2>2, <2>3, <2>4, <2>7, <2>8, ReadsFramed, SMTT(30)
  <2>10. g[j].pos = Len(f[j]) /\ g[j].got = Append(at.got, m)
    BY <2>3, <2>6, <2>9 DEF w
  <2>11. m \in Device /\ at.got \in Seq(Device)
    <3>1. r.addr \in Seq(Nat) /\ r.rssi \in Int /\ r.fields \in Seq(AdField)
      BY <2>4 DEF AirReport
    <3>2. Started(r.addr, r.rssi) \in Device
      BY <3>1, StartedTyped
    <3>3. Applied(Started(r.addr, r.rssi), r.fields) \in Device
      BY <3>1, <3>2, AppliedTyped
    <3> QED
      BY <2>7, <3>3 DEF Meant, Started, ReportReading
  <2> HIDE DEF m
  <2>12. /\ Len(Append(at.got, m)) = Len(at.got) + 1 /\ Append(at.got, m)[Len(at.got) + 1] = m
         /\ \A i \in 1 .. Len(at.got) : Append(at.got, m)[i] = at.got[i]
    BY <2>11, AppendProperties
  <2>13. Len(g[j].got) = j /\ \A i \in 1 .. j : g[j].got[i] = Meant(a[i])
    <3>1. Len(g[j].got) = k + 1 /\ g[j].got[k + 1] = m /\ \A i \in 1 .. k : g[j].got[i] = at.got[i]
      BY <2>2, <2>10, <2>12
    <3>2. m = Meant(a[k + 1])
      BY DEF m, r
    <3>3. \A i \in 1 .. k + 1 : i \in 1 .. k \/ i = k + 1
      OBVIOUS
    <3>4. \A i \in 1 .. k + 1 : g[j].got[i] = Meant(a[i])
      BY <2>2, <3>1, <3>2, <3>3
    <3> QED
      BY <3>1, <3>4 DEF j
  <2> QED
    BY <2>10, <2>13 DEF j
<1>6. n \in S
  <2> HIDE DEF S
  <2> QED
    BY <1>2, <1>4, <1>5, NaturalSetInduction
<1> QED
  BY <1>2, <1>3, <1>6

\* Once a report is not all there the loop rests.
LEMMA ReportReadingRests ==
  ASSUME NEW evt \in Seq(Nat), NEW g, ReportReadingOf(evt, g), evt[2] \in Nat, NEW m \in 0 .. evt[2],
         ReadReport(evt, g[m]) = g[m]
  PROVE  g[evt[2]] = g[m]
<1> DEFINE n == evt[2]
           S == {k \in Nat : m + k <= n => g[m + k] = g[m]}
<1>1. 0 \in S
  OBVIOUS
<1>2. ASSUME NEW k \in Nat, k \in S PROVE k + 1 \in S
  <2> SUFFICES ASSUME m + (k + 1) <= n PROVE g[m + (k + 1)] = g[m]
    OBVIOUS
  <2>1. m + (k + 1) \in 1 .. n /\ (m + (k + 1)) - 1 = m + k /\ m + k <= n
    OBVIOUS
  <2>2. g[m + (k + 1)] = ReadReport(evt, g[m + k]) /\ g[m + k] = g[m]
    BY <1>2, <2>1 DEF ReportReadingOf
  <2> QED
    BY <2>2
<1>3. n - m \in Nat /\ m + (n - m) = n
  OBVIOUS
<1>4. n - m \in S
  <2> HIDE DEF S
  <2> QED
    BY <1>1, <1>2, <1>3, NaturalSetInduction
<1> QED
  BY <1>3, <1>4

\* Of an event cut after q bytes, handle_le_meta_event_() delivers the reports
\* that are all there.
LEMMA HandlesWhole ==
  ASSUME NEW a \in Air, NEW q \in Nat, q <= Len(Event(a))
  PROVE  \E n \in 0 .. Len(a) :
           /\ n = 0 \/ Len(Event(SubSeq(a, 1, n))) <= q
           /\ n < Len(a) => ~(Len(Event(SubSeq(a, 1, n + 1))) <= q)
           /\ handle_le_meta_event(SubSeq(Event(a), 1, q)) = [i \in 1 .. n |-> Meant(a[i])]
<1> DEFINE N == Len(a)
           b == Event(a)
           evt == SubSeq(b, 1, q)
<1>1. a \in Seq(AirReport) /\ \A i \in 1 .. N : a[i] \in AirReport /\ Len(a[i].addr) = ADDR /\ NoField(a[i].tail)
  BY AirTyped
<1>2. N \in Nat /\ b \in Seq(Nat)
  BY <1>1, EventTyped, LenProperties
<1>3. PICK f : Framing(a, f) /\ b = f[N]
  BY <1>1, EventIs
<1> HIDE DEF b
<1>4. q <= Len(b)
  BY DEF b
<1>5. evt \in Seq(Nat) /\ Len(evt) = q /\ \A i \in 1 .. q : evt[i] = b[i]
  BY <1>2, <1>4, CutEvent
<1> HIDE DEF evt
<1>6. \A k \in 0 .. N : Len(Event(SubSeq(a, 1, k))) = Len(f[k]) /\ Len(f[k]) \in Nat /\ f[k] \in Seq(Nat)
  BY <1>1, <1>3, EventLength, FramingExtends
<1> DEFINE T == {k \in Nat : k < N => ~(Len(f[k + 1]) <= q)}
<1>7. PICK n \in T : \A k \in T : n <= k
  <2>1. N \in T
    BY <1>2
  <2> HIDE DEF T
  <2>2. T \in SUBSET Nat /\ T # {}
    BY <2>1 DEF T
  <2> QED
    BY <2>2, LeastNatural
<1>8. n \in Nat /\ n <= N /\ n \in 0 .. N /\ (n < N => ~(Len(f[n + 1]) <= q))
  BY <1>2, <1>7
<1>9. ASSUME NEW k \in 1 .. n PROVE Len(f[k]) <= q
  <2>1. k - 1 \in Nat /\ k - 1 < N /\ ~(n <= k - 1) /\ (k - 1) + 1 = k
    BY <1>2, <1>8
  <2>2. k - 1 \notin T
    BY <1>7, <2>1
  <2> QED
    BY <2>1, <2>2
<1> HIDE DEF T
<1>10. n = 0 \/ Len(Event(SubSeq(a, 1, n))) <= q
  <2>1. n # 0 => n \in 1 .. n
    BY <1>8
  <2> QED
    BY <1>6, <1>8, <1>9, <2>1
<1>11. n < N => ~(Len(Event(SubSeq(a, 1, n + 1))) <= q)
  <2>1. n < N => n + 1 \in 0 .. N
    BY <1>2, <1>8
  <2> QED
    BY <1>6, <1>8, <2>1
<1> DEFINE given == [i \in 1 .. n |-> Meant(a[i])]
<1>12. f[0] = <<LE_ADVERTISING_REPORT, N>>
  BY <1>3 DEF Framing
<1>13. CASE q < 2
  <2>1. handle_le_meta_event(evt) = <<>>
    BY <1>5, <1>13, Zenon DEF handle_le_meta_event
  <2>2. n = 0
    <3> SUFFICES ASSUME n # 0 PROVE FALSE
      OBVIOUS
    <3>1. 1 \in 1 .. n /\ 1 \in 1 .. N /\ 1 - 1 = 0
      BY <1>2, <1>8
    <3>2. Len(f[1]) = Len(f[1 - 1]) + Len(Framed(a[1])) /\ Len(Framed(a[1])) \in Nat
      BY <1>1, <1>3, <3>1, FramingStep
    <3>3. Len(f[0]) = 2
      BY <1>12
    <3>4. Len(f[1]) <= q
      BY <1>9, <3>1
    <3> DEFINE x == Len(Framed(a[1]))
    <3>5. x \in Nat /\ 2 + x <= q
      BY <3>1, <3>2, <3>3, <3>4
    <3> HIDE DEF x
    <3> QED
      BY <1>13, <3>5
  <2>3. given = <<>>
    <3>1. given = [i \in 1 .. 0 |-> Meant(a[i])] /\ 1 .. 0 = {}
      BY <2>2
    <3> QED
      BY <3>1
  <2> QED
    BY <1>8, <1>10, <1>11, <2>1, <2>3 DEF evt, b
<1>14. CASE ~(q < 2)
  <2>1. Len(evt) >= 2 /\ 1 \in 1 .. q /\ 2 \in 1 .. q
    BY <1>5, <1>14
  <2>2. Extends(b, f[0])
    <3>1. 0 \in 0 .. N
      BY <1>2
    <3> QED
      BY <1>1, <1>3, <3>1, FramingExtends
  <2>3. evt[1] = LE_ADVERTISING_REPORT /\ evt[2] = N
    <3>1. Len(f[0]) = 2 /\ f[0][1] = LE_ADVERTISING_REPORT /\ f[0][2] = N /\ 1 \in 1 .. 2 /\ 2 \in 1 .. 2
      BY <1>12
    <3>2. b[1] = f[0][1] /\ b[2] = f[0][2]
      BY <2>2, <3>1 DEF Extends
    <3> QED
      BY <1>5, <2>1, <3>1, <3>2
  <2>4. PICK g : ReportReadingOf(evt, g) /\ handle_le_meta_event(evt) = g[evt[2]].got
    BY <1>5, <2>1, <2>3, HandledIs
  <2>5. \A i \in 1 .. Len(evt) : i <= Len(f[N]) /\ evt[i] = f[N][i]
    <3>1. \A i \in 1 .. q : i <= Len(b)
      BY <1>2, <1>4, LenProperties
    <3> QED
      BY <1>3, <1>5, <3>1
  <2>6. \A k \in 1 .. n : Len(f[k]) <= Len(evt)
    BY <1>5, <1>9
  <2>7. /\ g[n].pos = Len(f[n]) /\ Len(g[n].got) = n /\ \A i \in 1 .. n : g[n].got[i] = Meant(a[i])
        /\ g[n] \in ReportReading
    BY <1>3, <1>5, <1>8, <2>1, <2>3, <2>4, <2>5, <2>6, ReadsReports
  <2>8. g[N] = g[n]
    <3>1. CASE n = N
      BY <3>1
    <3>2. CASE n < N
      <4> DEFINE out == f[n]
                 r == a[n + 1]
                 w == out \o Framed(r)
                 j == n + 1
      <4>1. j \in 1 .. N /\ j - 1 = n /\ j \in 0 .. N
        BY <1>2, <1>8, <3>2
      <4>2. r \in AirReport /\ Len(r.addr) = ADDR
        BY <1>1, <4>1
      <4>3. f[j] = w /\ out \in Seq(Nat)
        <5> HIDE DEF j
        <5>1. f[j] = f[j - 1] \o Framed(a[j]) /\ f[j - 1] \in Seq(Nat)
          BY <1>1, <1>3, <4>1, FramingStep
        <5> QED
          BY <4>1, <5>1 DEF j
      <4>4. Len(evt) < Len(w)
        <5>1. Len(f[j]) \in Nat /\ ~(Len(f[j]) <= q)
          BY <1>6, <1>8, <3>2, <4>1
        <5> DEFINE x == Len(f[j])
        <5> HIDE DEF x
        <5>2. x \in Nat /\ ~(x <= q)
          BY <5>1 DEF x
        <5>3. q < x
          BY <5>2
        <5> QED
          BY <1>5, <4>3, <5>3 DEF x
      <4>5. \A i \in 1 .. Len(evt) : evt[i] = w[i]
        <5>1. Extends(b, f[j]) /\ Len(f[j]) \in Nat
          <6> HIDE DEF j
          <6> QED
            BY <1>1, <1>3, <4>1, FramingExtends
        <5>2. \A i \in 1 .. q : i \in 1 .. Len(f[j])
          <6> DEFINE x == Len(f[j])
          <6>1. x \in Nat /\ q < x
            BY <1>5, <4>3, <4>4, <5>1
          <6> HIDE DEF x
          <6>2. \A i \in 1 .. q : i \in 1 .. x
            BY <6>1
          <6> QED
            BY <6>2 DEF x
        <5> QED
          BY <1>5, <4>3, <5>1, <5>2 DEF Extends
      <4> HIDE DEF out, r, w
      <4>6. ReadReport(evt, g[n]) = g[n]
        BY <1>5, <2>7, <4>2, <4>3, <4>4, <4>5, FramedCutShort DEF w, out
      <4>7. evt[2] \in Nat /\ n \in 0 .. evt[2]
        BY <1>2, <1>8, <2>3
      <4>8. g[evt[2]] = g[n]
        BY <1>5, <2>4, <4>6, <4>7, ReportReadingRests
      <4> QED
        BY <2>3, <4>8
    <3> QED
      BY <1>8, <3>1, <3>2
  <2>9. handle_le_meta_event(evt) = given
    <3> DEFINE s == g[n].got
    <3>1. s \in Seq(Device) /\ Len(s) = n
      BY <2>7 DEF ReportReading
    <3>2. handle_le_meta_event(evt) = s
      BY <2>3, <2>4, <2>8
    <3>3. \A i \in 1 .. n : s[i] = Meant(a[i])
      BY <2>7
    <3> HIDE DEF s
    <3>4. s = [i \in 1 .. n |-> s[i]]
      BY <3>1, LenProperties
    <3> QED
      BY <3>2, <3>3, <3>4
  <2> QED
    BY <1>8, <1>10, <1>11, <2>9 DEF evt, b
<1> QED
  BY <1>13, <1>14

\* handle_le_meta_event_() and parse_ad_payload(): an event cut anywhere, with
\* payloads that end in padding or in a structure that overruns, becomes exactly
\* the devices of the reports that are all there, each with its whole fields.
THEOREM OnlyWholeReports == CodecSpec => WholeReportsOnly
<1>1. ASSUME CodecInv, [CodecNext]_codecVars, via = "hci", ~received, received'
      PROVE  \E n \in 0 .. Len(air) :
               /\ Whole(n) /\ (n < Len(air) => ~Whole(n + 1))
               /\ devices' = [i \in 1 .. n |-> Meant(air[i])]
  <2>1. ReceiveHci
    BY <1>1 DEF CodecNext, ReceiveHci, ReceiveDbus, parse_device, FlushPending, ApiChanges, codecVars
  <2>2. /\ air \in Air /\ cut \in Nat /\ cut <= Len(Event(air))
        /\ devices' = handle_le_meta_event(SubSeq(Event(air), 1, cut))
    BY <1>1, <2>1 DEF CodecInv, ReceiveHci
  <2>3. PICK n \in 0 .. Len(air) :
          /\ n = 0 \/ Len(Event(SubSeq(air, 1, n))) <= cut
          /\ n < Len(air) => ~(Len(Event(SubSeq(air, 1, n + 1))) <= cut)
          /\ handle_le_meta_event(SubSeq(Event(air), 1, cut)) = [i \in 1 .. n |-> Meant(air[i])]
    BY <2>2, HandlesWhole
  <2>4. n + 1 # 0
    BY <2>2, AirTyped, LenProperties
  <2>5. Whole(n) /\ (n < Len(air) => ~Whole(n + 1))
    BY <2>3, <2>4 DEF Whole
  <2> QED
    BY <2>2, <2>3, <2>5
<1>2. CodecInv /\ [CodecNext]_codecVars =>
        [via = "hci" /\ ~received /\ received' =>
           \E n \in 0 .. Len(air) :
             /\ Whole(n) /\ (n < Len(air) => ~Whole(n + 1))
             /\ devices' = [i \in 1 .. n |-> Meant(air[i])]]_codecVars
  BY <1>1
<1> QED
  BY <1>2, CodecInvariant, PTL DEF CodecSpec, WholeReportsOnly

-----------------------------------------------------------------------------
(***************************************************************************)
(* AdvCodec: the two backends.                                             *)
(***************************************************************************)
LEMMA ToSetConcat ==
  ASSUME NEW S, NEW s \in Seq(S), NEW t \in Seq(S)
  PROVE  ToSet(s \o t) = ToSet(s) \cup ToSet(t)
<1>1. Range(s \o t) = Range(s) \cup Range(t)
  BY RangeConcatenation
<1> QED
  BY <1>1 DEF Range, ToSet

LEMMA ToSetAppend ==
  ASSUME NEW S, NEW s \in Seq(S), NEW e \in S
  PROVE  ToSet(Append(s, e)) = ToSet(s) \cup {e}
<1> DEFINE n == Len(s)
           t == Append(s, e)
<1>1. t \in Seq(S) /\ Len(t) = n + 1 /\ (\A i \in 1 .. n : t[i] = s[i]) /\ t[n + 1] = e
  BY AppendProperties
<1> HIDE DEF t
<1>2. n \in Nat /\ DOMAIN s = 1 .. n /\ DOMAIN t = 1 .. n + 1
  BY <1>1, LenProperties
<1> HIDE DEF n
<1>3. \A i \in 1 .. n + 1 : i \in 1 .. n \/ i = n + 1
  BY <1>2
<1>4. \A i \in 1 .. n : i \in 1 .. n + 1
  BY <1>2
<1>5. n + 1 \in 1 .. n + 1
  BY <1>2
<1>6. ToSet(t) = ToSet(s) \cup {e}
  BY <1>1, <1>2, <1>3, <1>4, <1>5 DEF ToSet
<1> QED
  BY <1>6 DEF t

\* What one AD structure changes, field by field of the device.
LEMMA ApplyFieldSays ==
  ASSUME NEW d \in Device, NEW f \in AdField
  PROVE  LET e == ApplyField(d, f)  s == f.data  n == Len(f.data) IN
         /\ e.address = d.address /\ e.rssi = d.rssi
         /\ e.name = IF f.type \in {8, 9} THEN s ELSE d.name
         /\ e.appearance = IF f.type = 25 /\ n >= W16 THEN SubSeq(s, 1, W16) ELSE d.appearance
         /\ e.tx = IF f.type = 10 /\ n > 0 THEN Append(d.tx, Int8(s[1])) ELSE d.tx
         /\ e.uuids = IF f.type \in 2 .. 7 THEN d.uuids \o UuidList(ListWidth(f.type), s) ELSE d.uuids
         /\ e.manufacturer = IF f.type = 255 /\ n >= W16 THEN Append(d.manufacturer, s) ELSE d.manufacturer
         /\ e.service = IF IsService(f) THEN Append(d.service, ServiceData(ServiceWidth(f.type), s)) ELSE d.service
<1> DEFINE s == f.data
           n == Len(s)
           t == f.type
           a1 == <<s[1]>>
           a2 == UuidList(ListWidth(t), s)
           a3 == Int8(s[1])
           a4 == SubSeq(s, 1, W16)
           a5 == ServiceData(ServiceWidth(t), s)
           e == ApplyField(d, f)
<1>1. e = CASE t = 1 /\ n > 0 -> [d EXCEPT !.flag = a1]
            [] t \in 2 .. 7 -> [d EXCEPT !.uuids = @ \o a2]
            [] t \in {8, 9} -> [d EXCEPT !.name = s]
            [] t = 10 /\ n > 0 -> [d EXCEPT !.tx = Append(@, a3)]
            [] t = 25 /\ n >= W16 -> [d EXCEPT !.appearance = a4]
            [] IsService(f) -> [d EXCEPT !.service = Append(@, a5)]
            [] t = 255 /\ n >= W16 -> [d EXCEPT !.manufacturer = Append(@, s)]
            [] OTHER -> d
  BY Zenon DEF ApplyField
<1>2. t \in Nat
  BY DEF AdField
<1>3. IsService(f) => t \in {22, 32, 33}
  BY DEF IsService
<1> HIDE DEF s, n, t, a1, a2, a3, a4, a5, e
<1>4. \/ e = d /\ ~(t \in 2 .. 7 \/ t \in {8, 9} \/ (t = 10 /\ n > 0) \/ (t = 25 /\ n >= W16) \/ IsService(f) \/ (t = 255 /\ n >= W16))
      \/ e = [d EXCEPT !.flag = a1] /\ t = 1
      \/ e = [d EXCEPT !.uuids = @ \o a2] /\ t \in 2 .. 7
      \/ e = [d EXCEPT !.name = s] /\ t \in {8, 9}
      \/ e = [d EXCEPT !.tx = Append(@, a3)] /\ t = 10 /\ n > 0
      \/ e = [d EXCEPT !.appearance = a4] /\ t = 25 /\ n >= W16
      \/ e = [d EXCEPT !.service = Append(@, a5)] /\ IsService(f)
      \/ e = [d EXCEPT !.manufacturer = Append(@, s)] /\ t = 255 /\ n >= W16
  BY <1>1, <1>2, <1>3
<1> DEFINE P == /\ e.address = d.address /\ e.rssi = d.rssi
                /\ e.name = IF t \in {8, 9} THEN s ELSE d.name
                /\ e.appearance = IF t = 25 /\ n >= W16 THEN a4 ELSE d.appearance
                /\ e.tx = IF t = 10 /\ n > 0 THEN Append(d.tx, a3) ELSE d.tx
                /\ e.uuids = IF t \in 2 .. 7 THEN d.uuids \o a2 ELSE d.uuids
                /\ e.manufacturer = IF t = 255 /\ n >= W16 THEN Append(d.manufacturer, s) ELSE d.manufacturer
                /\ e.service = IF IsService(f) THEN Append(d.service, a5) ELSE d.service
<1>5. CASE e = d /\ ~(t \in 2 .. 7 \/ t \in {8, 9} \/ (t = 10 /\ n > 0) \/ (t = 25 /\ n >= W16) \/ IsService(f) \/ (t = 255 /\ n >= W16))
  <2>1. P
    BY <1>5
  <2> QED
    BY <2>1, Zenon DEF s, n, t, a2, a3, a4, a5, e
<1>6. CASE e = [d EXCEPT !.flag = a1] /\ t = 1
  <2>1. P
    BY <1>3, <1>6 DEF Device
  <2> QED
    BY <2>1, Zenon DEF s, n, t, a2, a3, a4, a5, e
<1>7. CASE e = [d EXCEPT !.uuids = @ \o a2] /\ t \in 2 .. 7
  <2>1. P
    <3>1. t \in 2 .. 7 /\ t \notin {8, 9} /\ t # 10 /\ t # 25 /\ t # 255 /\ ~IsService(f)
      BY <1>2, <1>3, <1>7
    <3>2. /\ e.address = d.address /\ e.rssi = d.rssi /\ e.name = d.name /\ e.appearance = d.appearance
          /\ e.tx = d.tx /\ e.uuids = d.uuids \o a2 /\ e.manufacturer = d.manufacturer /\ e.service = d.service
      BY <1>7 DEF Device
    <3> QED
      BY <3>1, <3>2
  <2> QED
    BY <2>1, Zenon DEF s, n, t, a2, a3, a4, a5, e
<1>8. CASE e = [d EXCEPT !.name = s] /\ t \in {8, 9}
  <2>1. P
    <3>1. t \in {8, 9} /\ t \notin 2 .. 7 /\ t # 10 /\ t # 25 /\ t # 255 /\ ~IsService(f)
      BY <1>2, <1>3, <1>8
    <3>2. /\ e.address = d.address /\ e.rssi = d.rssi /\ e.name = s /\ e.appearance = d.appearance
          /\ e.tx = d.tx /\ e.uuids = d.uuids /\ e.manufacturer = d.manufacturer /\ e.service = d.service
      BY <1>8 DEF Device
    <3> QED
      BY <3>1, <3>2
  <2> QED
    BY <2>1, Zenon DEF s, n, t, a2, a3, a4, a5, e
<1>9. CASE e = [d EXCEPT !.tx = Append(@, a3)] /\ t = 10 /\ n > 0
  <2>1. P
    BY <1>3, <1>9 DEF Device
  <2> QED
    BY <2>1, Zenon DEF s, n, t, a2, a3, a4, a5, e
<1>10. CASE e = [d EXCEPT !.appearance = a4] /\ t = 25 /\ n >= W16
  <2>1. P
    BY <1>3, <1>10 DEF Device
  <2> QED
    BY <2>1, Zenon DEF s, n, t, a2, a3, a4, a5, e
<1>11. CASE e = [d EXCEPT !.service = Append(@, a5)] /\ IsService(f)
  <2>1. P
    <3>1. IsService(f) /\ t \notin {8, 9} /\ t \notin 2 .. 7 /\ t # 10 /\ t # 25 /\ t # 255
      BY <1>2, <1>3, <1>11
    <3>2. /\ e.address = d.address /\ e.rssi = d.rssi /\ e.name = d.name /\ e.appearance = d.appearance
          /\ e.tx = d.tx /\ e.uuids = d.uuids /\ e.manufacturer = d.manufacturer /\ e.service = Append(d.service, a5)
      BY <1>11 DEF Device
    <3> QED
      BY <3>1, <3>2
  <2> QED
    BY <2>1, Zenon DEF s, n, t, a2, a3, a4, a5, e
<1>12. CASE e = [d EXCEPT !.manufacturer = Append(@, s)] /\ t = 255 /\ n >= W16
  <2>1. P
    BY <1>3, <1>12 DEF Device
  <2> QED
    BY <2>1, Zenon DEF s, n, t, a2, a3, a4, a5, e
<1> QED
  BY <1>4, <1>5, <1>6, <1>7, <1>8, <1>9, <1>10, <1>11, <1>12

UpTo(S, k) == {i \in S : i <= k}

\* A device after the first k structures x of a report, by what is in them.
Says(d, x, k, d0) ==
  LET names == UpTo(Of(x, {8, 9}, 0), k)
      looks == UpTo(Of(x, {25}, W16), k) IN
  /\ d.address = d0.address /\ d.rssi = d0.rssi
  /\ d.name = IF names = {} THEN d0.name ELSE LastOf(x, names)
  /\ d.appearance = IF looks = {} THEN d0.appearance ELSE SubSeq(LastOf(x, looks), 1, W16)
  /\ ToSet(d.tx) = ToSet(d0.tx) \cup {Int8(x[i].data[1]) : i \in UpTo(Of(x, {10}, 1), k)}
  /\ ToSet(d.uuids) = ToSet(d0.uuids) \cup UNION {UuidsAt(x, i) : i \in UpTo(Of(x, 2 .. 7, 0), k)}
  /\ ToSet(d.manufacturer) = ToSet(d0.manufacturer) \cup {x[i].data : i \in UpTo(Of(x, {255}, W16), k)}
  /\ ToSet(d.service) = ToSet(d0.service) \cup {ServiceAt(x, i) : i \in UpTo(ServicesOf(x), k)}

LEMMA UpToNext ==
  ASSUME NEW x \in Seq(AdField), NEW S, S \subseteq 1 .. Len(x), NEW k \in Nat
  PROVE  /\ k + 1 \in S => /\ UpTo(S, k + 1) = UpTo(S, k) \cup {k + 1} /\ UpTo(S, k + 1) # {}
                           /\ LastOf(x, UpTo(S, k + 1)) = x[k + 1].data
         /\ k + 1 \notin S => UpTo(S, k + 1) = UpTo(S, k)
<1>1. S \subseteq Nat
  BY LenProperties
<1>2. \A i \in S : i \in Nat /\ (i <= k + 1 <=> (i <= k \/ i = k + 1))
  <2>1. \A i \in Nat : i <= k + 1 <=> (i <= k \/ i = k + 1)
    OBVIOUS
  <2> QED
    BY <1>1, <2>1
<1>3. /\ k + 1 \notin S => UpTo(S, k + 1) = UpTo(S, k)
      /\ k + 1 \in S => UpTo(S, k + 1) = UpTo(S, k) \cup {k + 1}
  BY <1>2, Zenon DEF UpTo
<1>4. ASSUME k + 1 \in S PROVE LastOf(x, UpTo(S, k + 1)) = x[k + 1].data
  <2> DEFINE T == UpTo(S, k + 1)
             g == Greatest(T)
  <2>1. T # {} /\ T \subseteq 1 .. Len(x) /\ k + 1 \in T /\ \A i \in T : i <= k + 1
    <3>1. T = {i \in S : i <= k + 1} /\ k + 1 <= k + 1
      BY DEF UpTo
    <3> HIDE DEF T
    <3> QED
      BY <1>4, <3>1
  <2>2. g \in T /\ \A j \in T : j <= g
    <3> HIDE DEF T
    <3> QED
      BY <2>1, LastTyped
  <2> HIDE DEF g
  <2>3. g = k + 1
    <3>1. g <= k + 1 /\ k + 1 <= g /\ g \in Nat
      BY <2>1, <2>2, LenProperties
    <3> QED
      BY <3>1
  <2> QED
    BY <2>3 DEF LastOf, g
<1>5. k + 1 \in S => UpTo(S, k + 1) # {}
  BY <1>3
<1> QED
  BY <1>3, <1>4, <1>5

LEMMA SaysNext ==
  ASSUME NEW x \in Seq(AdField), NEW k \in Nat, k + 1 <= Len(x), NEW d0, NEW d \in Device, Says(d, x, k, d0)
  PROVE  Says(ApplyField(d, x[k + 1]), x, k + 1, d0)
<1> DEFINE j == k + 1
           f == x[j]
           s == f.data
           n == Len(s)
           t == f.type
           e == ApplyField(d, f)
<1>1. j \in 1 .. Len(x) /\ j \in DOMAIN x /\ j \in Nat
  BY LenProperties
<1>2. f \in AdField /\ t \in Nat /\ s \in Seq(Nat) /\ n \in Nat
  BY <1>1, FieldTyped
<1>3. /\ e.address = d.address /\ e.rssi = d.rssi
      /\ e.name = IF t \in {8, 9} THEN s ELSE d.name
      /\ e.appearance = IF t = 25 /\ n >= W16 THEN SubSeq(s, 1, W16) ELSE d.appearance
      /\ e.tx = IF t = 10 /\ n > 0 THEN Append(d.tx, Int8(s[1])) ELSE d.tx
      /\ e.uuids = IF t \in 2 .. 7 THEN d.uuids \o UuidList(ListWidth(t), s) ELSE d.uuids
      /\ e.manufacturer = IF t = 255 /\ n >= W16 THEN Append(d.manufacturer, s) ELSE d.manufacturer
      /\ e.service = IF IsService(f) THEN Append(d.service, ServiceData(ServiceWidth(t), s)) ELSE d.service
  <2> HIDE DEF f
  <2> QED
    BY <1>2, ApplyFieldSays, Zenon
<1>4. W16 \in Nat
  BY CodecAssumption
<1>5. /\ j \in Of(x, {8, 9}, 0) <=> t \in {8, 9}
      /\ j \in Of(x, {25}, W16) <=> t = 25 /\ n >= W16
      /\ j \in Of(x, {10}, 1) <=> t = 10 /\ n > 0
      /\ j \in Of(x, 2 .. 7, 0) <=> t \in 2 .. 7
      /\ j \in Of(x, {255}, W16) <=> t = 255 /\ n >= W16
      /\ j \in ServicesOf(x) <=> IsService(f)
  <2>1. n >= 0 /\ (n >= 1 <=> n > 0)
    BY <1>2
  <2>2. \A types, w : j \in Of(x, types, w) <=> t \in types /\ n >= w
    BY <1>1 DEF Of
  <2>3. j \in ServicesOf(x) <=> IsService(f)
    BY <1>1 DEF ServicesOf
  <2> HIDE DEF n, t, s, f, j
  <2> QED
    BY <2>1, <2>2, <2>3
<1>6. /\ d.tx \in Seq(Int) /\ d.uuids \in Seq(Uuid) /\ d.manufacturer \in Seq(Seq(Nat)) /\ d.service \in Seq(ServiceItem)
  BY DEF Device
<1> DEFINE A == Of(x, {8, 9}, 0)
           B == Of(x, {25}, W16)
           C == Of(x, {10}, 1)
           D == Of(x, 2 .. 7, 0)
           E == Of(x, {255}, W16)
           F == ServicesOf(x)
<1>7. /\ A \subseteq 1 .. Len(x) /\ B \subseteq 1 .. Len(x) /\ C \subseteq 1 .. Len(x)
      /\ D \subseteq 1 .. Len(x) /\ E \subseteq 1 .. Len(x) /\ F \subseteq 1 .. Len(x)
  BY IndicesFinite
<1>8. /\ d.address = d0.address /\ d.rssi = d0.rssi
      /\ d.name = IF UpTo(A, k) = {} THEN d0.name ELSE LastOf(x, UpTo(A, k))
      /\ d.appearance = IF UpTo(B, k) = {} THEN d0.appearance ELSE SubSeq(LastOf(x, UpTo(B, k)), 1, W16)
      /\ ToSet(d.tx) = ToSet(d0.tx) \cup {Int8(x[i].data[1]) : i \in UpTo(C, k)}
      /\ ToSet(d.uuids) = ToSet(d0.uuids) \cup UNION {UuidsAt(x, i) : i \in UpTo(D, k)}
      /\ ToSet(d.manufacturer) = ToSet(d0.manufacturer) \cup {x[i].data : i \in UpTo(E, k)}
      /\ ToSet(d.service) = ToSet(d0.service) \cup {ServiceAt(x, i) : i \in UpTo(F, k)}
  BY Zenon DEF Says
<1> HIDE DEF A, B, C, D, E, F, e
<1>9. \A S : S \subseteq 1 .. Len(x) =>
        /\ j \in S => /\ UpTo(S, j) = UpTo(S, k) \cup {j} /\ UpTo(S, j) # {}
                      /\ LastOf(x, UpTo(S, j)) = s
        /\ j \notin S => UpTo(S, j) = UpTo(S, k)
  BY UpToNext, ZenonT(40)
<1> HIDE DEF j
<1>10. e.name = IF UpTo(A, j) = {} THEN d0.name ELSE LastOf(x, UpTo(A, j))
  <2>1. CASE j \in A
    <3>1. UpTo(A, j) # {} /\ LastOf(x, UpTo(A, j)) = s
      BY <1>7, <1>9, <2>1
    <3>2. e.name = s
      BY <1>3, <1>5, <2>1 DEF A
    <3> QED
      BY <3>1, <3>2
  <2>2. CASE j \notin A
    <3>1. UpTo(A, j) = UpTo(A, k)
      BY <1>7, <1>9, <2>2
    <3>2. e.name = d.name
      BY <1>3, <1>5, <2>2 DEF A
    <3> QED
      BY <1>8, <3>1, <3>2
  <2> QED
    BY <2>1, <2>2
<1>11. e.appearance = IF UpTo(B, j) = {} THEN d0.appearance ELSE SubSeq(LastOf(x, UpTo(B, j)), 1, W16)
  <2>1. CASE j \in B
    <3>1. UpTo(B, j) # {} /\ LastOf(x, UpTo(B, j)) = s
      BY <1>7, <1>9, <2>1
    <3>2. e.appearance = SubSeq(s, 1, W16)
      BY <1>3, <1>5, <2>1 DEF B
    <3> QED
      BY <3>1, <3>2
  <2>2. CASE j \notin B
    <3>1. UpTo(B, j) = UpTo(B, k)
      BY <1>7, <1>9, <2>2
    <3>2. e.appearance = d.appearance
      BY <1>3, <1>5, <2>2 DEF B
    <3> QED
      BY <1>8, <3>1, <3>2
  <2> QED
    BY <2>1, <2>2
<1>12. ToSet(e.tx) = ToSet(d0.tx) \cup {Int8(x[i].data[1]) : i \in UpTo(C, j)}
  <2>1. CASE j \in C
    <3>1. UpTo(C, j) = UpTo(C, k) \cup {j}
      BY <1>7, <1>9, <2>1
    <3> DEFINE v == Int8(s[1])
    <3>2. e.tx = Append(d.tx, v)
      BY <1>3, <1>5, <2>1 DEF C
    <3>3. v \in Int
      <4>1. n > 0
        BY <1>5, <2>1 DEF C
      <4>2. 1 \in 1 .. n
        BY <1>2, <4>1
      <4>3. s[1] \in Nat
        BY <1>2, <4>2, ElementOfSeq
      <4>4. s[1] \in Int
        BY <4>3
      <4> HIDE DEF s
      <4> QED
        BY <4>4, Int8Typed
    <3>4. v = Int8(x[j].data[1])
      OBVIOUS
    <3> HIDE DEF v
    <3>5. ToSet(e.tx) = ToSet(d.tx) \cup {v}
      <4> DEFINE S == Int
      <4>1. d.tx \in Seq(S) /\ v \in S
        BY <1>6, <3>3
      <4> HIDE DEF S
      <4>2. ToSet(Append(d.tx, v)) = ToSet(d.tx) \cup {v}
        BY <4>1, ToSetAppend
      <4> QED
        BY <3>2, <4>2
    <3> QED
      BY <1>8, <3>1, <3>4, <3>5
  <2>2. CASE j \notin C
    <3>1. UpTo(C, j) = UpTo(C, k)
      BY <1>7, <1>9, <2>2
    <3>2. e.tx = d.tx
      BY <1>3, <1>5, <2>2 DEF C
    <3> QED
      BY <1>8, <3>1, <3>2
  <2> QED
    BY <2>1, <2>2
<1>13. ToSet(e.uuids) = ToSet(d0.uuids) \cup UNION {UuidsAt(x, i) : i \in UpTo(D, j)}
  <2>1. CASE j \in D
    <3>1. UpTo(D, j) = UpTo(D, k) \cup {j}
      BY <1>7, <1>9, <2>1
    <3> DEFINE v == UuidList(ListWidth(t), s)
    <3>2. e.uuids = d.uuids \o v
      BY <1>3, <1>5, <2>1 DEF D
    <3>3. v \in Seq(Uuid)
      BY <1>2, WidthsByType, UuidListTyped
    <3>4. ToSet(v) = UuidsAt(x, j)
      BY DEF UuidsAt
    <3> HIDE DEF v
    <3>5. ToSet(e.uuids) = ToSet(d.uuids) \cup ToSet(v)
      BY <1>6, <3>2, <3>3, ToSetConcat
    <3> QED
      BY <1>8, <3>1, <3>4, <3>5
  <2>2. CASE j \notin D
    <3>1. UpTo(D, j) = UpTo(D, k)
      BY <1>7, <1>9, <2>2
    <3>2. e.uuids = d.uuids
      BY <1>3, <1>5, <2>2 DEF D
    <3> QED
      BY <1>8, <3>1, <3>2
  <2> QED
    BY <2>1, <2>2
<1>14. ToSet(e.manufacturer) = ToSet(d0.manufacturer) \cup {x[i].data : i \in UpTo(E, j)}
  <2>1. CASE j \in E
    <3>1. UpTo(E, j) = UpTo(E, k) \cup {j}
      BY <1>7, <1>9, <2>1
    <3> DEFINE v == s
    <3>2. e.manufacturer = Append(d.manufacturer, v)
      BY <1>3, <1>5, <2>1 DEF E
    <3>3. v \in Seq(Nat) /\ v = x[j].data
      BY <1>2
    <3> HIDE DEF v
    <3>4. ToSet(e.manufacturer) = ToSet(d.manufacturer) \cup {v}
      BY <1>6, <3>2, <3>3, ToSetAppend
    <3> QED
      BY <1>8, <3>1, <3>3, <3>4
  <2>2. CASE j \notin E
    <3>1. UpTo(E, j) = UpTo(E, k)
      BY <1>7, <1>9, <2>2
    <3>2. e.manufacturer = d.manufacturer
      BY <1>3, <1>5, <2>2 DEF E
    <3> QED
      BY <1>8, <3>1, <3>2
  <2> QED
    BY <2>1, <2>2
<1>15. ToSet(e.service) = ToSet(d0.service) \cup {ServiceAt(x, i) : i \in UpTo(F, j)}
  <2>1. CASE j \in F
    <3>1. UpTo(F, j) = UpTo(F, k) \cup {j}
      BY <1>7, <1>9, <2>1
    <3> DEFINE v == ServiceAt(x, j)
    <3>2. e.service = Append(d.service, v)
      BY <1>3, <1>5, <2>1 DEF F, ServiceAt
    <3>3. v \in ServiceItem
      BY <2>1, ServiceIs DEF F
    <3> HIDE DEF v
    <3>4. ToSet(e.service) = ToSet(d.service) \cup {v}
      BY <1>6, <3>2, <3>3, ToSetAppend
    <3> QED
      BY <1>8, <3>1, <3>4 DEF v
  <2>2. CASE j \notin F
    <3>1. UpTo(F, j) = UpTo(F, k)
      BY <1>7, <1>9, <2>2
    <3>2. e.service = d.service
      BY <1>3, <1>5, <2>2 DEF F
    <3> QED
      BY <1>8, <3>1, <3>2
  <2> QED
    BY <2>1, <2>2
<1>16. e.address = d0.address /\ e.rssi = d0.rssi
  BY <1>3, <1>8
<1> QED
  BY <1>10, <1>11, <1>12, <1>13, <1>14, <1>15, <1>16, Zenon DEF Says, A, B, C, D, E, F, e, j

\* What a report says, by what is in it.
LEMMA MeantIs ==
  ASSUME NEW r \in AirReport
  PROVE  LET h == Meant(r)  x == r.fields IN
         /\ h.address = r.addr /\ h.rssi = Int8(r.rssi)
         /\ h.name = IF Of(x, {8, 9}, 0) = {} THEN <<>> ELSE LastOf(x, Of(x, {8, 9}, 0))
         /\ h.appearance = IF Of(x, {25}, W16) = {} THEN <<>> ELSE SubSeq(LastOf(x, Of(x, {25}, W16)), 1, W16)
         /\ ToSet(h.tx) = {Int8(x[i].data[1]) : i \in Of(x, {10}, 1)}
         /\ ToSet(h.uuids) = Listed(x)
         /\ ToSet(h.manufacturer) = {x[i].data : i \in Of(x, {255}, W16)}
         /\ ToSet(h.service) = {ServiceAt(x, i) : i \in ServicesOf(x)}
<1> DEFINE x == r.fields
           n == Len(x)
           d0 == Started(r.addr, r.rssi)
           h == Meant(r)
<1>1. r.addr \in Seq(Nat) /\ r.rssi \in Int /\ x \in Seq(AdField) /\ n \in Nat
  BY LenProperties DEF AirReport
<1>2. d0 \in Device
  BY <1>1, StartedTyped
<1>3. /\ d0.address = r.addr /\ d0.rssi = Int8(r.rssi) /\ d0.name = <<>> /\ d0.appearance = <<>>
      /\ d0.tx = <<>> /\ d0.uuids = <<>> /\ d0.manufacturer = <<>> /\ d0.service = <<>>
  BY DEF Started, NoData
<1>4. h = Applied(d0, x)
  BY DEF Meant, Started
<1> HIDE DEF d0, h, x
<1>5. PICK f : Applying(d0, x, f) /\ h = f[n]
  BY <1>1, <1>2, <1>4, AppliedIs
<1> DEFINE S == {k \in Nat : k <= n => Says(f[k], x, k, d0)}
<1>6. \A I : I \subseteq 1 .. n => UpTo(I, 0) = {} /\ UpTo(I, n) = I
  <2>1. \A i \in 1 .. n : i <= n /\ ~(i <= 0)
    BY <1>1
  <2> HIDE DEF n
  <2> QED
    BY <2>1, Zenon DEF UpTo
<1>7. /\ Of(x, {8, 9}, 0) \subseteq 1 .. n /\ Of(x, {25}, W16) \subseteq 1 .. n /\ Of(x, {10}, 1) \subseteq 1 .. n
      /\ Of(x, 2 .. 7, 0) \subseteq 1 .. n /\ Of(x, {255}, W16) \subseteq 1 .. n /\ ServicesOf(x) \subseteq 1 .. n
  BY <1>1, IndicesFinite
<1>8. 0 \in S
  <2>1. f[0] = d0
    BY <1>5 DEF Applying
  <2>2. /\ UpTo(Of(x, {8, 9}, 0), 0) = {} /\ UpTo(Of(x, {25}, W16), 0) = {} /\ UpTo(Of(x, {10}, 1), 0) = {}
        /\ UpTo(Of(x, 2 .. 7, 0), 0) = {} /\ UpTo(Of(x, {255}, W16), 0) = {} /\ UpTo(ServicesOf(x), 0) = {}
    BY <1>6, <1>7, Zenon
  <2>3. Says(d0, x, 0, d0)
    BY <2>2, Zenon DEF Says
  <2> QED
    BY <2>1, <2>3
<1>9. ASSUME NEW k \in Nat, k \in S PROVE k + 1 \in S
  <2> SUFFICES ASSUME k + 1 <= n PROVE Says(f[k + 1], x, k + 1, d0)
    OBVIOUS
  <2>1. k + 1 \in 1 .. n /\ (k + 1) - 1 = k /\ k \in 0 .. n /\ k <= n
    BY <1>1
  <2>2. f[k + 1] = ApplyField(f[k], x[k + 1]) /\ f[k] \in Device
    BY <1>5, <2>1 DEF Applying
  <2>3. Says(f[k], x, k, d0)
    BY <1>9, <2>1
  <2>4. Says(ApplyField(f[k], x[k + 1]), x, k + 1, d0)
    BY <1>1, <2>2, <2>3, SaysNext
  <2> QED
    BY <2>2, <2>4
<1>10. n \in S
  <2> HIDE DEF S
  <2> QED
    BY <1>1, <1>8, <1>9, NaturalSetInduction
<1>11. Says(h, x, n, d0)
  BY <1>1, <1>5, <1>10
<1> DEFINE A == Of(x, {8, 9}, 0)
           B == Of(x, {25}, W16)
           C == Of(x, {10}, 1)
           D == Of(x, 2 .. 7, 0)
           E == Of(x, {255}, W16)
           F == ServicesOf(x)
<1>12. /\ UpTo(A, n) = A /\ UpTo(B, n) = B /\ UpTo(C, n) = C /\ UpTo(D, n) = D /\ UpTo(E, n) = E /\ UpTo(F, n) = F
  BY <1>6, <1>7, Zenon
<1>13. /\ h.address = d0.address /\ h.rssi = d0.rssi
       /\ h.name = IF UpTo(A, n) = {} THEN d0.name ELSE LastOf(x, UpTo(A, n))
       /\ h.appearance = IF UpTo(B, n) = {} THEN d0.appearance ELSE SubSeq(LastOf(x, UpTo(B, n)), 1, W16)
       /\ ToSet(h.tx) = ToSet(d0.tx) \cup {Int8(x[i].data[1]) : i \in UpTo(C, n)}
       /\ ToSet(h.uuids) = ToSet(d0.uuids) \cup UNION {UuidsAt(x, i) : i \in UpTo(D, n)}
       /\ ToSet(h.manufacturer) = ToSet(d0.manufacturer) \cup {x[i].data : i \in UpTo(E, n)}
       /\ ToSet(h.service) = ToSet(d0.service) \cup {ServiceAt(x, i) : i \in UpTo(F, n)}
  BY <1>11, Zenon DEF Says
<1>14. ToSet(<<>>) = {}
  BY DEF ToSet
<1> HIDE DEF A, B, C, D, E, F, n
<1>15. /\ h.address = r.addr /\ h.rssi = Int8(r.rssi)
       /\ h.name = IF A = {} THEN <<>> ELSE LastOf(x, A)
       /\ h.appearance = IF B = {} THEN <<>> ELSE SubSeq(LastOf(x, B), 1, W16)
  BY <1>3, <1>12, <1>13, Zenon
<1>16. /\ ToSet(h.tx) = {Int8(x[i].data[1]) : i \in C}
       /\ ToSet(h.uuids) = UNION {UuidsAt(x, i) : i \in D}
       /\ ToSet(h.manufacturer) = {x[i].data : i \in E}
       /\ ToSet(h.service) = {ServiceAt(x, i) : i \in F}
  BY <1>3, <1>12, <1>13, <1>14
<1> QED
  BY <1>15, <1>16, Zenon DEF Listed, A, B, C, D, E, F, h, x

\* The device of the signal that carries all of a report is like the report.
LEMMA BackendsAlike ==
  ASSUME NEW r \in Report
  PROVE  Alike(Signalled(r, Property), Meant(r))
<1> DEFINE d == Signalled(r, Property)
           h == Meant(r)
           x == r.fields
           m(key) == LastOf(x, OfCompany(x, key))
           v(key) == ServiceAt(x, Greatest(OfKey(x, key)))
           I == Of(x, {255}, W16)
           J == ServicesOf(x)
           item(s) == [uuid |-> as_128bit(s.uuid), data |-> s.data]
<1>0. r \in AirReport
  BY ReportTyped
<1>1. x \in Seq(AdField) /\ x \in Seq(Field)
  BY ReportTyped
<1>2. /\ d.address = r.addr /\ d.rssi = Int8(r.rssi)
      /\ d.name = IF Of(x, {8, 9}, 0) = {} THEN <<>> ELSE LastOf(x, Of(x, {8, 9}, 0))
      /\ d.appearance = IF Of(x, {25}, W16) = {} THEN <<>> ELSE SubSeq(LastOf(x, Of(x, {25}, W16)), 1, W16)
      /\ \A t \in ToSet(d.tx) : \E i \in Of(x, {10}, 1) : t = Int8(x[i].data[1])
      /\ ToSet(d.tx) = {} => Of(x, {10}, 1) = {}
      /\ ToSet(d.uuids) = {as_128bit(u) : u \in Listed(x)}
      /\ ToSet(d.manufacturer) = {m(key) : key \in Companies(x)}
      /\ ToSet(d.service) = {item(v(key)) : key \in Keys(x)}
  BY DbusDeviceIs, Zenon
<1>3. /\ h.address = r.addr /\ h.rssi = Int8(r.rssi)
      /\ h.name = IF Of(x, {8, 9}, 0) = {} THEN <<>> ELSE LastOf(x, Of(x, {8, 9}, 0))
      /\ h.appearance = IF Of(x, {25}, W16) = {} THEN <<>> ELSE SubSeq(LastOf(x, Of(x, {25}, W16)), 1, W16)
      /\ ToSet(h.tx) = {Int8(x[i].data[1]) : i \in Of(x, {10}, 1)}
      /\ ToSet(h.uuids) = Listed(x)
      /\ ToSet(h.manufacturer) = {x[i].data : i \in I}
      /\ ToSet(h.service) = {ServiceAt(x, i) : i \in J}
  BY <1>0, MeantIs, Zenon
<1> HIDE DEF d, h, x
<1>4. ToSet(d.tx) \subseteq ToSet(h.tx) /\ (ToSet(d.tx) = {} => ToSet(h.tx) = {})
  BY <1>2, <1>3
<1>5. ToSet(d.uuids) = {as_128bit(u) : u \in ToSet(h.uuids)}
  BY <1>2, <1>3
<1>6. ASSUME NEW key \in Companies(x)
      PROVE  \E i \in I : m(key) = x[i].data /\ CompanyAt(x, i) = key
  <2> DEFINE K == OfCompany(x, key)
  <2>1. K # {} /\ K \subseteq I
    BY DEF OfCompany, Companies
  <2>2. K \subseteq 1 .. Len(x)
    BY <1>1, <2>1, IndicesFinite
  <2>3. \A i \in K : CompanyAt(x, i) = key
    BY DEF OfCompany
  <2> HIDE DEF K, I
  <2>4. Greatest(K) \in K
    BY <1>1, <2>1, <2>2, LastTyped
  <2>5. LastOf(x, K) = x[Greatest(K)].data
    BY DEF LastOf
  <2> QED
    BY <2>1, <2>3, <2>4, <2>5 DEF K
<1>7. \A i \in I : get_16bit(x[i].data) = Bytes16(CompanyAt(x, i)) /\ CompanyAt(x, i) \in Companies(x)
  BY <1>1, CompanyIs DEF Companies
<1>8. ASSUME NEW key \in Keys(x)
      PROVE  \E i \in J : v(key) = ServiceAt(x, i) /\ KeyAt(x, i) = key
  <2> DEFINE K == OfKey(x, key)
  <2>1. K # {} /\ K \subseteq J
    BY DEF OfKey, Keys
  <2>2. K \subseteq 1 .. Len(x)
    BY <1>1, <2>1, IndicesFinite
  <2>3. \A i \in K : KeyAt(x, i) = key
    BY DEF OfKey
  <2> HIDE DEF K, J
  <2>4. Greatest(K) \in K
    BY <1>1, <2>1, <2>2, LastTyped
  <2> QED
    BY <2>1, <2>3, <2>4 DEF K
<1>9. \A i \in J : /\ KeyAt(x, i) \in Keys(x)
                   /\ from_uuid_str(KeyAt(x, i)) = as_128bit(ServiceAt(x, i).uuid)
  BY <1>1, ServiceIs DEF Keys
<1> HIDE DEF I, J, m, v
<1>10. ToSet(d.manufacturer) \subseteq ToSet(h.manufacturer)
  BY <1>2, <1>3, <1>6
<1>11. {get_16bit(y) : y \in ToSet(d.manufacturer)} = {get_16bit(y) : y \in ToSet(h.manufacturer)}
  <2>1. \A key \in Companies(x) : get_16bit(m(key)) = Bytes16(key)
    BY <1>6, <1>7
  <2>2. {get_16bit(y) : y \in ToSet(d.manufacturer)} = {Bytes16(key) : key \in Companies(x)}
    <3>1. \A y \in ToSet(d.manufacturer) : \E key \in Companies(x) : get_16bit(y) = Bytes16(key)
      BY <1>2, <2>1
    <3>2. \A key \in Companies(x) : \E y \in ToSet(d.manufacturer) : get_16bit(y) = Bytes16(key)
      BY <1>2, <2>1
    <3> QED
      BY <3>1, <3>2
  <2>3. \A key \in Companies(x) : \E i \in I : CompanyAt(x, i) = key
    BY <1>6
  <2>4. {get_16bit(y) : y \in ToSet(h.manufacturer)} = {Bytes16(key) : key \in Companies(x)}
    <3>1. \A y \in ToSet(h.manufacturer) : \E key \in Companies(x) : get_16bit(y) = Bytes16(key)
      BY <1>3, <1>7
    <3>2. \A key \in Companies(x) : \E y \in ToSet(h.manufacturer) : get_16bit(y) = Bytes16(key)
      BY <1>3, <1>7, <2>3
    <3> QED
      BY <3>1, <3>2
  <2> QED
    BY <2>2, <2>4
<1>12. ToSet(d.service) \subseteq {item(s) : s \in ToSet(h.service)}
  <2> HIDE DEF item
  <2> QED
    BY <1>2, <1>3, <1>8
<1>13. {s.uuid : s \in ToSet(d.service)} = {as_128bit(s.uuid) : s \in ToSet(h.service)}
  <2>1. \A s : item(s).uuid = as_128bit(s.uuid)
    OBVIOUS
  <2> HIDE DEF item
  <2>2. ASSUME NEW i \in J PROVE \E s \in ToSet(d.service) : s.uuid = as_128bit(ServiceAt(x, i).uuid)
    <3>1. KeyAt(x, i) \in Keys(x)
      BY <1>9
    <3>2. PICK j \in J : v(KeyAt(x, i)) = ServiceAt(x, j) /\ KeyAt(x, j) = KeyAt(x, i)
      BY <1>8, <3>1
    <3>3. as_128bit(ServiceAt(x, j).uuid) = as_128bit(ServiceAt(x, i).uuid)
      BY <1>9, <3>2
    <3>4. item(v(KeyAt(x, i))) \in ToSet(d.service)
      BY <1>2, <3>1
    <3>5. item(v(KeyAt(x, i))).uuid = as_128bit(ServiceAt(x, i).uuid)
      BY <2>1, <3>2, <3>3
    <3> QED
      BY <3>4, <3>5
  <2>3. \A s \in ToSet(h.service) : \E t \in ToSet(d.service) : t.uuid = as_128bit(s.uuid)
    BY <1>3, <2>2
  <2>4. \A t \in ToSet(d.service) : \E s \in ToSet(h.service) : t.uuid = as_128bit(s.uuid)
    BY <1>12, <2>1
  <2> QED
    BY <2>3, <2>4
<1> QED
  BY <1>2, <1>3, <1>4, <1>5, <1>10, <1>11, <1>12, <1>13, Zenon DEF Alike, d, h, item

\* What a signal shows of two devices that are alike is alike.
LEMMA PartsAlike ==
  ASSUME NEW e, NEW d, NEW h \in Device, NEW carried, Alike(e, h),
         d.address = e.address, d.rssi = (IF "RSSI" \in carried THEN e.rssi ELSE 0),
         d.name = Carried("Name", carried, e.name),
         d.tx = Carried("TxPower", carried, e.tx),
         d.appearance = Carried("Appearance", carried, e.appearance),
         d.uuids = Carried("UUIDs", carried, e.uuids),
         d.manufacturer = Carried("ManufacturerData", carried, e.manufacturer),
         d.service = Carried("ServiceData", carried, e.service)
  PROVE  Alike(d, Limited(h, carried))
<1> DEFINE g == Limited(h, carried)
           wide(item) == [uuid |-> as_128bit(item.uuid), data |-> item.data]
<1>1. /\ g.address = h.address /\ g.rssi = (IF "RSSI" \in carried THEN h.rssi ELSE 0)
      /\ g.name = Carried("Name", carried, h.name)
      /\ g.tx = Carried("TxPower", carried, h.tx)
      /\ g.appearance = Carried("Appearance", carried, h.appearance)
      /\ g.uuids = Carried("UUIDs", carried, h.uuids)
      /\ g.manufacturer = Carried("ManufacturerData", carried, h.manufacturer)
      /\ g.service = Carried("ServiceData", carried, h.service)
  BY DEF Limited, Carried, Device
<1>2. /\ e.address = h.address /\ e.rssi = h.rssi /\ e.name = h.name
      /\ e.appearance = h.appearance
      /\ ToSet(e.tx) \subseteq ToSet(h.tx) /\ (ToSet(e.tx) = {} => ToSet(h.tx) = {})
      /\ ToSet(e.uuids) = {as_128bit(u) : u \in ToSet(h.uuids)}
      /\ ToSet(e.manufacturer) \subseteq ToSet(h.manufacturer)
      /\ {get_16bit(m) : m \in ToSet(e.manufacturer)} = {get_16bit(m) : m \in ToSet(h.manufacturer)}
      /\ ToSet(e.service) \subseteq {wide(item) : item \in ToSet(h.service)}
      /\ {item.uuid : item \in ToSet(e.service)} = {as_128bit(item.uuid) : item \in ToSet(h.service)}
  BY Zenon DEF Alike
<1> HIDE DEF g, wide
<1>3. ToSet(<<>>) = {}
  BY DEF ToSet
<1>4. d.address = g.address /\ d.rssi = g.rssi /\ d.name = g.name /\ d.appearance = g.appearance
  BY <1>1, <1>2, Zenon
<1>5. ToSet(d.tx) \subseteq ToSet(g.tx) /\ (ToSet(d.tx) = {} => ToSet(g.tx) = {})
  BY <1>1, <1>2, <1>3 DEF Carried
<1>6. ToSet(d.uuids) = {as_128bit(u) : u \in ToSet(g.uuids)}
  BY <1>1, <1>2, <1>3 DEF Carried
<1>7. /\ ToSet(d.manufacturer) \subseteq ToSet(g.manufacturer)
      /\ {get_16bit(m) : m \in ToSet(d.manufacturer)} = {get_16bit(m) : m \in ToSet(g.manufacturer)}
  <2>1. CASE "ManufacturerData" \in carried
    <3>1. d.manufacturer = e.manufacturer /\ g.manufacturer = h.manufacturer
      BY <1>1, <2>1 DEF Carried
    <3> QED
      BY <1>2, <3>1, Zenon
  <2>2. CASE "ManufacturerData" \notin carried
    <3>1. d.manufacturer = <<>> /\ g.manufacturer = <<>>
      BY <1>1, <2>2 DEF Carried
    <3> QED
      BY <1>3, <3>1
  <2> QED
    BY <2>1, <2>2
<1>8. /\ ToSet(d.service) \subseteq {wide(item) : item \in ToSet(g.service)}
      /\ {item.uuid : item \in ToSet(d.service)} = {as_128bit(item.uuid) : item \in ToSet(g.service)}
  <2>1. CASE "ServiceData" \in carried
    <3>1. d.service = e.service /\ g.service = h.service
      BY <1>1, <2>1 DEF Carried
    <3> QED
      BY <1>2, <3>1, Zenon
  <2>2. CASE "ServiceData" \notin carried
    <3>1. d.service = <<>> /\ g.service = <<>>
      BY <1>1, <2>2 DEF Carried
    <3> QED
      BY <1>3, <3>1
  <2> QED
    BY <2>1, <2>2
<1> QED
  BY <1>4, <1>5, <1>6, <1>7, <1>8, Zenon DEF Alike, g, wide

LEMMA MeantTyped ==
  ASSUME NEW r \in AirReport
  PROVE  Meant(r) \in Device
<1>1. r.addr \in Seq(Nat) /\ r.rssi \in Int /\ r.fields \in Seq(AdField)
  BY DEF AirReport
<1>2. Started(r.addr, r.rssi) \in Device
  BY <1>1, StartedTyped
<1> QED
  BY <1>1, <1>2, AppliedTyped DEF Meant, Started

LEMMA SignalsAlike ==
  ASSUME NEW r \in Report, NEW carried
  PROVE  Alike(Signalled(r, carried), Limited(Meant(r), carried))
<1> DEFINE d == Signalled(r, carried)
           e == Signalled(r, Property)
<1>1. Meant(r) \in Device
  BY ReportTyped, MeantTyped
<1>2. Alike(e, Meant(r))
  BY BackendsAlike
<1>3. /\ d.address = e.address /\ d.rssi = (IF "RSSI" \in carried THEN e.rssi ELSE 0)
      /\ d.name = Carried("Name", carried, e.name)
      /\ d.tx = Carried("TxPower", carried, e.tx)
      /\ d.appearance = Carried("Appearance", carried, e.appearance)
      /\ d.uuids = Carried("UUIDs", carried, e.uuids)
      /\ d.manufacturer = Carried("ManufacturerData", carried, e.manufacturer)
      /\ d.service = Carried("ServiceData", carried, e.service)
  BY SignalLimits, Zenon
<1> HIDE DEF d, e
<1>4. Alike(d, Limited(Meant(r), carried))
  BY <1>1, <1>2, <1>3, PartsAlike
<1> QED
  BY <1>4 DEF d

\* parse_device1_props_(), on_interfaces_added_() and on_properties_changed_():
\* the device a signal of BlueZ makes says of the report what the HCI backend
\* reads in it, as far as the signal goes: it is alike, but for UUIDs widened to
\* 128 bits, in every property the signal carries, whichever those are, has the
\* address always, and is blank in the rest.
THEOREM BackendsDescribeAlike == CodecSpec => BackendsAgree
<1>1. ASSUME CodecInv, [CodecNext]_codecVars, via = "dbus", ~received, received'
      PROVE  \A i \in DOMAIN air : Alike(devices'[i], Limited(Meant(air[i]), signal[i]))
  <2>1. ReceiveDbus
    BY <1>1 DEF CodecNext, ReceiveHci, ReceiveDbus, parse_device, FlushPending, ApiChanges, codecVars
  <2>2. air \in Air /\ devices' = [i \in DOMAIN air |-> Signalled(air[i], signal[i])]
    BY <1>1, <2>1 DEF CodecInv, ReceiveDbus
  <2>3. \A i \in DOMAIN air : air[i] \in Report
    BY <2>2, AirTyped, LenProperties
  <2>4. \A i \in DOMAIN air : devices'[i] = Signalled(air[i], signal[i])
    BY <2>2
  <2> QED
    BY <2>3, <2>4, SignalsAlike
<1>2. CodecInv /\ [CodecNext]_codecVars =>
        [via = "dbus" /\ ~received /\ received' =>
           \A i \in DOMAIN air : Alike(devices'[i], Limited(Meant(air[i]), signal[i]))]_codecVars
  BY <1>1
<1> QED
  BY <1>2, CodecInvariant, PTL DEF CodecSpec, BackendsAgree

-----------------------------------------------------------------------------
(***************************************************************************)
(* ClientNodes: the binary output's handle.  A missing characteristic      *)
(* leaves the output's handle as it is, so a discovery must find it        *)
(* forgotten: between two discoveries the worker has posted a disconnect.  *)
(* Position 0 stands for the discovery the output holds, position          *)
(* Len(s) + 1 for the one that a link not yet resolved may still post.     *)
(***************************************************************************)
NodeEvent == [kind : {"CONNECTED", "DISCONNECTED"}]
           \cup [kind : {"SERVICES_DISCOVERED", "WRITE_COMPLETE", "READ_COMPLETE"}, handle : Nat]
NodeCommand == [kind : {"connect", "disconnect"}] \cup [kind : {"write", "read"}, handle : Nat]

Found(s, o, l, i) ==
  \/ i = 0 /\ o # 0
  \/ i \in DOMAIN s /\ s[i].kind = "SERVICES_DISCOVERED"
  \/ i = Len(s) + 1 /\ l # "resolved"

Between(s, i, j) == \E k \in DOMAIN s : i < k /\ k < j /\ s[k].kind = "DISCONNECTED"

Apart(s, o, l) ==
  \A i, j \in 0 .. Len(s) + 1 : i < j /\ Found(s, o, l, i) /\ Found(s, o, l, j) => Between(s, i, j)

NodesType ==
  /\ tree \in Nat /\ output \in Nat /\ sensor \in Nat
  /\ cmds \in Seq(NodeCommand) /\ events \in Seq(NodeEvent)

NodesInv == NodesType /\ Apart(events, output, link) /\ OutputHandleIsCurrent

\* An event joins: a disconnect, or one that says nothing about the tree, or
\* the discovery that a link not yet resolved owed.
LEMMA EventPosted ==
  ASSUME NEW s \in Seq(NodeEvent), NEW e \in NodeEvent, NEW o, NEW l, NEW m, Apart(s, o, l),
         \/ e.kind = "DISCONNECTED"
         \/ e.kind # "SERVICES_DISCOVERED" /\ (l = "resolved" => m = "resolved")
         \/ e.kind = "SERVICES_DISCOVERED" /\ l # "resolved" /\ m = "resolved"
  PROVE  Apart(Append(s, e), o, m)
<1> DEFINE r == Append(s, e)
<1>1. /\ DOMAIN s = 1 .. Len(s) /\ DOMAIN r = 1 .. Len(s) + 1 /\ Len(s) \in Nat
      /\ Len(r) = Len(s) + 1 /\ r[Len(s) + 1] = e
      /\ \A i \in DOMAIN s : r[i] = s[i]
  OBVIOUS
<1> HIDE DEF r
<1> SUFFICES ASSUME NEW i \in 0 .. Len(s) + 2, NEW j \in 0 .. Len(s) + 2, i < j,
                    Found(r, o, m, i), Found(r, o, m, j)
             PROVE  Between(r, i, j)
  BY <1>1 DEF Apart, r
<1>2. \A a, b : Between(s, a, b) => Between(r, a, b)
  BY <1>1 DEF Between
<1>3. \A a \in 0 .. Len(s) : Found(r, o, m, a) => Found(s, o, l, a)
  BY <1>1 DEF Found
<1>4. i \in 0 .. Len(s) + 1 /\ i \in Nat /\ j \in Nat
  BY <1>1
<1>5. CASE j \in 0 .. Len(s)
  BY <1>1, <1>2, <1>3, <1>4, <1>5 DEF Apart
<1>6. CASE e.kind = "DISCONNECTED" /\ j \notin 0 .. Len(s)
  <2>1. j = Len(s) + 2 /\ i # Len(s) + 1
    BY <1>1, <1>4, <1>6 DEF Found
  <2> QED
    BY <1>1, <1>4, <1>6, <2>1 DEF Between
<1>7. CASE e.kind # "DISCONNECTED" /\ j \notin 0 .. Len(s)
  <2>1. Found(s, o, l, Len(s) + 1) /\ i \in 0 .. Len(s)
    BY <1>1, <1>4, <1>7 DEF Found
  <2>2. Between(s, i, Len(s) + 1)
    BY <1>1, <1>3, <2>1 DEF Apart
  <2>3. Between(r, i, Len(s) + 1)
    BY <1>2, <2>2
  <2> QED
    BY <1>1, <1>4, <1>7, <2>3 DEF Between
<1> QED
  BY <1>5, <1>6, <1>7

\* An event is dispatched: after a disconnect the output holds nothing, and a
\* discovery finds that it holds nothing.
LEMMA EventTaken ==
  ASSUME NEW s \in Seq(NodeEvent), s # <<>>, NEW o, NEW p, NEW l, Apart(s, o, l),
         \/ Head(s).kind = "DISCONNECTED" /\ p = 0
         \/ Head(s).kind = "SERVICES_DISCOVERED"
         \/ Head(s).kind \notin {"DISCONNECTED", "SERVICES_DISCOVERED"} /\ p = o
  PROVE  /\ Apart(Tail(s), p, l)
         /\ Head(s).kind = "SERVICES_DISCOVERED" => o = 0
<1> DEFINE r == Tail(s)
           h == Head(s)
<1>1. /\ DOMAIN s = 1 .. Len(s) /\ DOMAIN r = 1 .. Len(s) - 1 /\ Len(s) \in Nat /\ Len(s) > 0
      /\ Len(r) = Len(s) - 1 /\ h = s[1]
      /\ \A i \in DOMAIN r : r[i] = s[i + 1]
  OBVIOUS
<1>2. \/ h.kind = "DISCONNECTED" /\ p = 0
      \/ h.kind = "SERVICES_DISCOVERED"
      \/ h.kind \notin {"DISCONNECTED", "SERVICES_DISCOVERED"} /\ p = o
  OBVIOUS
<1> HIDE DEF r, h
<1>3. ASSUME h.kind = "SERVICES_DISCOVERED" PROVE o = 0
  <2>1. Found(s, o, l, 1) /\ ~Between(s, 0, 1)
    BY <1>1, <1>3 DEF Found, Between
  <2>2. ~Found(s, o, l, 0)
    BY <1>1, <2>1 DEF Apart
  <2> QED
    BY <2>2 DEF Found
<1>4. /\ \A a \in DOMAIN r : a + 1 \in DOMAIN s /\ r[a] = s[a + 1]
      /\ \A k \in DOMAIN s : k # 1 => k - 1 \in DOMAIN r /\ r[k - 1] = s[k]
  <2>1. \A k \in DOMAIN s : k # 1 => k - 1 \in DOMAIN r /\ (k - 1) + 1 = k
    BY <1>1
  <2> QED
    BY <1>1, <2>1
<1>5. ASSUME NEW i \in 0 .. Len(s), NEW j \in 0 .. Len(s), i < j,
             Found(r, p, l, i), Found(r, p, l, j)
      PROVE  Between(r, i, j)
  <2>1. i \in Nat /\ j \in Nat /\ j > 0 /\ j + 1 \in 0 .. Len(s) + 1 /\ i + 1 \in 0 .. Len(s) + 1
    BY <1>1, <1>5
  <2>2. \A a \in Nat : a > 0 /\ Found(r, p, l, a) => Found(s, o, l, a + 1)
    <3> SUFFICES ASSUME NEW a \in Nat, a > 0, Found(r, p, l, a) PROVE Found(s, o, l, a + 1)
      OBVIOUS
    <3>1. CASE a \in DOMAIN r /\ r[a].kind = "SERVICES_DISCOVERED"
      BY <1>4, <3>1 DEF Found
    <3>2. CASE a = Len(r) + 1 /\ l # "resolved"
      BY <1>1, <3>2 DEF Found
    <3> QED
      BY <3>1, <3>2 DEF Found
  <2>3. Found(s, o, l, j + 1)
    BY <1>5, <2>1, <2>2
  <2>4. CASE Found(s, o, l, i + 1)
    <3>1. Between(s, i + 1, j + 1)
      BY <1>5, <2>1, <2>3, <2>4 DEF Apart
    <3>2. PICK k \in DOMAIN s : i + 1 < k /\ k < j + 1 /\ s[k].kind = "DISCONNECTED"
      BY <3>1 DEF Between
    <3>3. k \in Nat /\ k # 1 /\ i < k - 1 /\ k - 1 < j
      BY <1>1, <2>1, <3>2
    <3> QED
      BY <1>4, <3>2, <3>3 DEF Between
  <2>5. CASE ~Found(s, o, l, i + 1)
    <3>1. i = 0 /\ p # 0
      <4>1. i = 0
        BY <1>5, <2>1, <2>2, <2>5
      <4>2. ~(0 \in DOMAIN r) /\ ~(0 = Len(r) + 1)
        BY <1>1
      <4> QED
        BY <1>5, <4>1, <4>2 DEF Found
    <3>2. p = o /\ h.kind # "DISCONNECTED"
      BY <1>1, <1>2, <2>5, <3>1 DEF Found
    <3>3. Between(s, 0, j + 1)
      BY <1>1, <2>1, <2>3, <3>1, <3>2 DEF Apart, Found
    <3>4. PICK k \in DOMAIN s : 0 < k /\ k < j + 1 /\ s[k].kind = "DISCONNECTED"
      BY <3>3 DEF Between
    <3>5. k \in Nat /\ k # 1 /\ 0 < k - 1 /\ k - 1 < j
      BY <1>1, <2>1, <3>2, <3>4
    <3> QED
      BY <1>4, <3>1, <3>4, <3>5 DEF Between
  <2> QED
    BY <2>4, <2>5
<1>6. Len(r) + 1 = Len(s)
  BY <1>1
<1> QED
  BY <1>3, <1>5, <1>6 DEF Apart, r, h

\* The commands stay commands.
LEMMA NodesCommandsTyped ==
  ASSUME NodesType,
         \/ cmds' = cmds \/ cmds' = Append(cmds, [kind |-> "connect"])
         \/ cmds' = Append(cmds, [kind |-> "disconnect"])
         \/ \E n \in Nat : \/ cmds' = Append(cmds, [kind |-> "read", handle |-> n])
                          \/ cmds' = Append(cmds, [kind |-> "write", handle |-> n])
  PROVE  cmds' \in Seq(NodeCommand)
<1>1. /\ [kind |-> "connect"] \in NodeCommand /\ [kind |-> "disconnect"] \in NodeCommand
      /\ \A n \in Nat : /\ [kind |-> "read", handle |-> n] \in NodeCommand
                       /\ [kind |-> "write", handle |-> n] \in NodeCommand
  BY DEF NodeCommand
<1>2. cmds \in Seq(NodeCommand) /\ \A x \in NodeCommand : Append(cmds, x) \in Seq(NodeCommand)
  BY DEF NodesType
<1> QED
  BY <1>1, <1>2

LEMMA NodesOrdersTyped ==
  ASSUME NodesType, NEW a, NEW b
  PROVE  /\ cmds \o DisconnectOrder(a) \in Seq(NodeCommand)
         /\ cmds \o DisconnectOrder(a) \o DisconnectOrder(b) \in Seq(NodeCommand)
         /\ cmds \o <<>> \o DisconnectOrder(b) \in Seq(NodeCommand)
<1>1. <<[kind |-> "disconnect"]>> \in Seq(NodeCommand) /\ <<>> \in Seq(NodeCommand)
  BY DEF NodeCommand
<1>2. DisconnectOrder(a) \in Seq(NodeCommand) /\ DisconnectOrder(b) \in Seq(NodeCommand)
  BY <1>1 DEF DisconnectOrder
<1> QED
  BY <1>1, <1>2 DEF NodesType

\* Giving up the handle frees a discovery.
LEMMA ForgettingKeepsApart ==
  ASSUME NEW s, NEW o, NEW l, Apart(s, o, l) PROVE Apart(s, 0, l)
<1>1. \A i : Found(s, 0, l, i) => Found(s, o, l, i)
  BY DEF Found
<1> QED
  BY <1>1 DEF Apart

LEMMA NodesStepOrders ==
  ASSUME NodesInv,
         \/ Advertised \/ (\E on \in BOOLEAN : set_enabled(on)) \/ PlayConnect \/ PlayDisconnect
         \/ PlayWrite \/ OutputWrites \/ SensorReads
  PROVE  NodesInv'
<1> USE DEF NodesInv
<1>1. UNCHANGED <<tree, link, events, output, sensor>>
  BY DEF Advertised, set_enabled, PlayConnect, PlayDisconnect, PlayWrite, OutputWrites, SensorReads,
         nodeVars
<1>2. cmds' \in Seq(NodeCommand)
  <2>1. CASE \E on \in BOOLEAN : set_enabled(on)
    BY <2>1, NodesOrdersTyped DEF set_enabled, NodesType
  <2>2. CASE PlayDisconnect
    BY <2>2, NodesOrdersTyped DEF PlayDisconnect
  <2>3. CASE Advertised \/ PlayConnect
    BY <2>3, NodesCommandsTyped DEF Advertised, PlayConnect
  <2>4. CASE PlayWrite
    BY <2>4, NodesCommandsTyped DEF PlayWrite, Write, NodesType
  <2>5. CASE OutputWrites
    BY <2>5, NodesCommandsTyped DEF OutputWrites, Write, NodesType
  <2>6. CASE SensorReads
    BY <2>6, NodesCommandsTyped DEF SensorReads, NodesType
  <2> QED
    BY <2>1, <2>2, <2>3, <2>4, <2>5, <2>6
<1> QED
  BY <1>1, <1>2 DEF NodesType, OutputHandleIsCurrent

LEMMA NodesStepDispatch ==
  ASSUME NodesInv, Dispatch PROVE NodesInv'
<1> DEFINE e == Head(events)
<1>1. NodesType /\ Apart(events, output, link) /\ OutputHandleIsCurrent
  BY DEF NodesInv
<1>2. /\ events \in Seq(NodeEvent) /\ events # <<>> /\ events' = Tail(events) /\ link' = link
      /\ e \in NodeEvent
  BY <1>1 DEF Dispatch, NodesType
<1>3. /\ Tail(events) \in Seq(NodeEvent)
      /\ e.kind = "SERVICES_DISCOVERED" => e.handle \in Nat
  <2>1. e.kind = "SERVICES_DISCOVERED" => e.handle \in Nat
    BY <1>2 DEF NodeEvent
  <2> QED
    BY <1>2, <2>1
<1> HIDE DEF e
<1>4. CASE e.kind = "SERVICES_DISCOVERED" /\ OnDiscoveredEvent(e.handle)
  <2>1. output = 0 /\ Apart(Tail(events), output', link)
    BY <1>1, <1>2, <1>4, EventTaken DEF e
  <2>2. cmds' \in Seq(NodeCommand)
    BY <1>1, <1>3, <1>4, NodesCommandsTyped DEF OnDiscoveredEvent
  <2> QED
    BY <1>1, <1>2, <1>3, <1>4, <2>1, <2>2
    DEF NodesInv, NodesType, OnDiscoveredEvent, OutputHandleIsCurrent
<1>5. CASE e.kind = "DISCONNECTED" /\ OnDisconnectedEvent
  <2>1. output' = 0 /\ tree' = 0 /\ UNCHANGED <<cmds, sensor>>
    BY <1>5 DEF OnDisconnectedEvent, OutputOnDisconnected
  <2>2. Apart(Tail(events), output', link)
    BY <1>1, <1>2, <1>5, <2>1, EventTaken DEF e
  <2> QED
    BY <1>1, <1>2, <1>3, <2>1, <2>2 DEF NodesInv, NodesType, OutputHandleIsCurrent
<1>6. CASE /\ e.kind \in {"CONNECTED", "WRITE_COMPLETE", "READ_COMPLETE"}
           /\ UNCHANGED <<tree, output, sensor>>
           /\ cmds' = cmds \/ cmds' = Append(cmds, [kind |-> "disconnect"])
  <2>1. Apart(Tail(events), output, link)
    BY <1>1, <1>2, <1>6, EventTaken DEF e
  <2>2. cmds' \in Seq(NodeCommand)
    BY <1>1, <1>6, NodesCommandsTyped
  <2> QED
    BY <1>1, <1>2, <1>3, <1>6, <2>1, <2>2 DEF NodesInv, NodesType, OutputHandleIsCurrent
<1>7. \/ e.kind = "CONNECTED" /\ OnConnectedEvent
      \/ e.kind = "SERVICES_DISCOVERED" /\ OnDiscoveredEvent(e.handle)
      \/ e.kind = "DISCONNECTED" /\ OnDisconnectedEvent
      \/ e.kind = "WRITE_COMPLETE" /\ OnWriteEvent(e.handle)
      \/ e.kind = "READ_COMPLETE" /\ UNCHANGED <<c, tree, cmds, write, chains, output, sensor>>
  BY DEF Dispatch, e
<1> QED
  BY <1>4, <1>5, <1>6, <1>7 DEF OnConnectedEvent, OnWriteEvent

LEMMA NodesStepTimeLimit ==
  ASSUME NodesInv, TimeLimit PROVE NodesInv'
<1>1. NodesType /\ Apart(events, output, link)
  BY DEF NodesInv
<1>2. output' = 0 /\ tree' = 0 /\ UNCHANGED <<events, link, sensor>>
  BY DEF TimeLimit, OutputOnDisconnected
<1>3. cmds' \in Seq(NodeCommand)
  BY <1>1, NodesCommandsTyped DEF TimeLimit
<1>4. Apart(events, 0, link)
  BY <1>1, ForgettingKeepsApart
<1> QED
  BY <1>1, <1>2, <1>3, <1>4 DEF NodesInv, NodesType, OutputHandleIsCurrent

LEMMA NodesStepPosts ==
  ASSUME NodesInv, UNCHANGED <<tree, output, sensor>>, cmds' \in Seq(NodeCommand),
         NEW e \in NodeEvent, events' = events \o <<e>>,
         \/ e.kind = "DISCONNECTED"
         \/ e.kind # "SERVICES_DISCOVERED" /\ (link = "resolved" => link' = "resolved")
         \/ e.kind = "SERVICES_DISCOVERED" /\ link # "resolved" /\ link' = "resolved"
  PROVE  NodesInv'
<1>1. NodesType /\ Apart(events, output, link) /\ OutputHandleIsCurrent
  BY DEF NodesInv
<1>2. events \in Seq(NodeEvent) /\ events \o <<e>> = Append(events, e) /\ Append(events, e) \in Seq(NodeEvent)
  BY <1>1 DEF NodesType
<1>3. Apart(Append(events, e), output, link')
  BY <1>1, <1>2, EventPosted
<1> QED
  BY <1>1, <1>2, <1>3 DEF NodesInv, NodesType, OutputHandleIsCurrent

LEMMA NodesStepWorker ==
  ASSUME NodesInv, RunCommand \/ ReadTree \/ LinkDrops PROVE NodesInv'
<1>1. NodesType
  BY DEF NodesInv
<1>2. UNCHANGED <<tree, output, sensor>>
  BY DEF RunCommand, ReadTree, LinkDrops, clientVars2, nodeVars
<1>3. [kind |-> "CONNECTED"] \in NodeEvent /\ [kind |-> "DISCONNECTED"] \in NodeEvent
  BY DEF NodeEvent
<1>4. \A n \in Nat : /\ [kind |-> "SERVICES_DISCOVERED", handle |-> n] \in NodeEvent
                     /\ [kind |-> "WRITE_COMPLETE", handle |-> n] \in NodeEvent
                     /\ [kind |-> "READ_COMPLETE", handle |-> n] \in NodeEvent
  BY DEF NodeEvent
<1>5. CASE RunCommand
  <2> DEFINE m == Head(cmds)
  <2>1. cmds' \in Seq(NodeCommand) /\ m \in NodeCommand
    BY <1>1, <1>5 DEF RunCommand, NodesType
  <2>2. m.kind \in {"read", "write"} => m.handle \in Nat
    BY <2>1 DEF NodeCommand
  <2>3. \/ link' = "up" /\ link = "down" /\ events' = events \o <<[kind |-> "CONNECTED"]>>
        \/ link' = link /\ events' = events \o <<[kind |-> "CONNECTED"]>>
        \/ events' = events \o <<[kind |-> "DISCONNECTED"]>>
        \/ UNCHANGED <<link, events>>
        \/ /\ m.kind = "write" /\ link' = link
           /\ events' = events \o <<[kind |-> "WRITE_COMPLETE", handle |-> m.handle]>>
        \/ /\ m.kind = "read" /\ link' = link
           /\ events' = events \o <<[kind |-> "READ_COMPLETE", handle |-> m.handle]>>
    BY <1>5 DEF RunCommand, Post, Lifecycle
  <2> HIDE DEF m
  <2>4. CASE UNCHANGED <<link, events>>
    BY <1>2, <2>1, <2>4 DEF NodesInv, NodesType, OutputHandleIsCurrent
  <2>5. CASE /\ events' = events \o <<[kind |-> "CONNECTED"]>>
             /\ link' = link \/ (link' = "up" /\ link = "down")
    BY <1>2, <1>3, <2>1, <2>5, NodesStepPosts
  <2>6. CASE events' = events \o <<[kind |-> "DISCONNECTED"]>>
    BY <1>2, <1>3, <2>1, <2>6, NodesStepPosts
  <2>7. CASE /\ m.kind = "write" /\ link' = link
             /\ events' = events \o <<[kind |-> "WRITE_COMPLETE", handle |-> m.handle]>>
    BY <1>2, <1>4, <2>1, <2>2, <2>7, NodesStepPosts
  <2>8. CASE /\ m.kind = "read" /\ link' = link
             /\ events' = events \o <<[kind |-> "READ_COMPLETE", handle |-> m.handle]>>
    BY <1>2, <1>4, <2>1, <2>2, <2>8, NodesStepPosts
  <2> QED
    BY <2>3, <2>4, <2>5, <2>6, <2>7, <2>8
<1>6. CASE ReadTree
  <2>1. PICK h \in Handles : events' = events \o <<[kind |-> "SERVICES_DISCOVERED", handle |-> h]>>
    BY <1>6 DEF ReadTree, Post
  <2>2. h \in Nat
    BY NodesAssumption
  <2>3. cmds' \in Seq(NodeCommand) /\ link # "resolved" /\ link' = "resolved"
    BY <1>1, <1>6 DEF ReadTree, NodesType
  <2> QED
    BY <1>2, <1>4, <2>1, <2>2, <2>3, NodesStepPosts
<1>7. CASE LinkDrops
  <2>1. cmds' \in Seq(NodeCommand) /\ events' = events \o <<[kind |-> "DISCONNECTED"]>>
    BY <1>1, <1>7 DEF LinkDrops, Post, Lifecycle, NodesType
  <2> QED
    BY <1>2, <1>3, <2>1, NodesStepPosts
<1> QED
  BY <1>5, <1>6, <1>7

\* The output of a ble_client never holds a handle of an earlier connection:
\* whatever order the worker's events, the time limits and the actions come in,
\* and whether or not the characteristic is found again.
THEOREM OutputKeepsCurrentHandle == NodesSpec => []OutputHandleIsCurrent
<1>1. NodesInit => NodesInv
  <2> SUFFICES ASSUME NodesInit PROVE NodesInv
    OBVIOUS
  <2>1. NodesType /\ OutputHandleIsCurrent
    BY DEF NodesInit, NodesType, OutputHandleIsCurrent
  <2>2. Apart(<<>>, 0, link)
    BY DEF Apart, Found
  <2> QED
    BY <2>1, <2>2 DEF NodesInit, NodesInv
<1>2. NodesInv /\ [NodesNext]_nodesVars => NodesInv'
  <2> SUFFICES ASSUME NodesInv, [NodesNext]_nodesVars PROVE NodesInv'
    OBVIOUS
  <2>1. CASE UNCHANGED nodesVars
    BY <2>1 DEF nodesVars, clientVars2, workerVars, nodeVars, NodesInv, NodesType, OutputHandleIsCurrent
  <2> QED
    BY <2>1, NodesStepOrders, NodesStepDispatch, NodesStepTimeLimit, NodesStepWorker DEF NodesNext
<1>3. NodesInv => OutputHandleIsCurrent
  BY DEF NodesInv
<1> QED
  BY <1>1, <1>2, <1>3, PTL DEF NodesSpec
=============================================================================
