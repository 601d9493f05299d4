----------------------- MODULE BluetoothProxy_proofs -----------------------
(***************************************************************************)
(* Proofs about BluetoothProxy, for any number of slots, any addresses and *)
(* any service counts.                                                     *)
(***************************************************************************)
EXTENDS BluetoothProxy, BleClientBase_proofs, FiniteSetTheorems, WellFoundedInduction, TLAPS

-----------------------------------------------------------------------------
(* The helpers: the first slot of a set, and counting by value.            *)

\* A scan over the slots that finds something finds a first one.
LEMMA FirstIsIn ==
  ASSUME NEW S \in SUBSET Slots, S # {}
  PROVE  First(S) \in S
<1> DEFINE R == OpToRel(<, Nat)
<1>1. S \subseteq Nat
  BY ProxyAssumption DEF Slots
<1>2. PICK x \in S : \A y \in S : ~ (<<y, x>> \in R)
  BY <1>1, NatLessThanWellFounded, WFMin
<1>3. \A m, n \in Nat : m < n => <<m, n>> \in R
  BY Zenon DEF OpToRel
<1> HIDE DEF R
<1>4. \A y \in S : ~ (y < x)
  BY <1>1, <1>2, <1>3
<1>5. \A y \in S : x <= y
  BY <1>1, <1>4
<1> QED
  BY <1>5 DEF First

\* The slots of any kind are a finite set.
LEMMA HoldingFinite ==
  ASSUME NEW f, NEW v
  PROVE  IsFiniteSet(Holding(f, v)) /\ Cardinality(Holding(f, v)) \in Nat
<1>1. IsFiniteSet(Slots)
  BY FS_Interval, ProxyAssumption DEF Slots
<1>2. Holding(f, v) \in SUBSET Slots
  BY DEF Holding
<1> QED
  BY <1>1, <1>2, FS_Subset, FS_CardinalityType

\* Table f with entry i overwritten by y, and how often v is in f.
Put(f, i, y) == [f EXCEPT ![i] = y]
Count(f, v) == Cardinality(Holding(f, v))

\* Overwriting one entry by y: one y more, one of the old value less.
LEMMA Overwrite ==
  ASSUME NEW f \in [Slots -> Nat], NEW i \in Slots, NEW y \in Nat, f[i] # y, NEW v
  PROVE  /\ v = y => Count(Put(f, i, y), v) = Count(f, v) + 1
         /\ v = f[i] => Count(Put(f, i, y), v) = Count(f, v) - 1
         /\ v # y /\ v # f[i] => Count(Put(f, i, y), v) = Count(f, v)
<1> DEFINE g == Put(f, i, y)
<1>1. ASSUME v = y PROVE Count(g, v) = Count(f, v) + 1
  <2>1. Holding(g, v) = Holding(f, v) \cup {i} /\ i \notin Holding(f, v)
    BY <1>1 DEF Holding, Put
  <2> QED
    BY <2>1, HoldingFinite, FS_AddElement DEF Count
<1>2. ASSUME v = f[i] PROVE Count(g, v) = Count(f, v) - 1
  <2>1. Holding(g, v) = Holding(f, v) \ {i} /\ i \in Holding(f, v)
    BY <1>2 DEF Holding, Put
  <2> QED
    BY <2>1, HoldingFinite, FS_RemoveElement DEF Count
<1>3. ASSUME v # y, v # f[i] PROVE Count(g, v) = Count(f, v)
  <2>1. Holding(g, v) = Holding(f, v)
    BY <1>3 DEF Holding, Put
  <2> QED
    BY <2>1 DEF Count
<1> QED
  BY <1>1, <1>2, <1>3

\* update_allocated_slot_() replaces one entry, if the value is there at all.
LEMMA UpdateAllocatedIs ==
  ASSUME NEW find \in Nat, NEW set \in Nat, allocated \in [Slots -> Nat],
         Count(allocated, find) # 0
  PROVE  \E k \in Slots : /\ allocated[k] = find
                          /\ UpdateAllocated(find, set) = Put(allocated, k, set)
<1> DEFINE H == {k \in Slots : allocated[k] = find}
<1>1. H = Holding(allocated, find)
  BY DEF Holding
<1>2. H # {}
  BY <1>1, FS_EmptySet DEF Count
<1>3. First(H) \in H
  BY <1>2, FirstIsIn
<1> QED
  BY <1>2, <1>3 DEF UpdateAllocated, Put


-----------------------------------------------------------------------------
(***************************************************************************)
(* The inductive invariant.  What is true of each slot by itself is        *)
(* LocalOK: to UsedSlotIsLive, StreamInRange and NoStaleIntent it adds     *)
(* that an established slot, or one with a stream, has a worker that has   *)
(* walked its link, so that no second tree arrives under a stream.         *)
(***************************************************************************)
LocalOK(c, k, w) ==
  /\ c.address # 0 => c.state # "IDLE" /\ c.address \in Addr
  /\ k >= 0 => c.address # 0 /\ k <= c.services
  /\ c.address = 0 => k = Init_Sending
  /\ c.want => c.address # 0 /\ c.state \in {"CONNECTING", "DISCONNECTING", "ESTABLISHED"}
  /\ c.state = "ESTABLISHED" \/ k >= 0 => w.phase = "walked"

LocalInv == \A s \in Slots : LocalOK(slot[s], send[s], worker[s])

Phases == [phase : {"down", "up", "walked"}, asked : BOOLEAN]

LEMMA DisconnectLocal ==
  ASSUME NEW c \in Client, NEW k \in Int, NEW w, LocalOK(c, k, w), c.address # 0
  PROVE  LocalOK(Disconnect(c), k, w)
BY DEF LocalOK, Disconnect, UnconditionalDisconnect, SetState, Client, ClientState

LEMMA CloseLocal ==
  ASSUME NEW c \in Client, NEW w
  PROVE  /\ [OnDisconnected(c) EXCEPT !.address = 0] \in Client
         /\ LocalOK([OnDisconnected(c) EXCEPT !.address = 0], Init_Sending, w)
<1>1. OnDisconnected(c) \in Client
  BY ClientOperators
<1>2. OnDisconnected(c).state = "IDLE" /\ ~OnDisconnected(c).want
  BY DEF OnDisconnected, SetState, ReleaseServices, Client
<1> QED
  BY <1>1, <1>2 DEF LocalOK, Init_Sending, Client

LEMMA ConnectedLocal ==
  ASSUME NEW c \in Client, NEW k \in Int, NEW w \in Phases, NEW asked \in BOOLEAN,
         LocalOK(c, k, w)
  PROVE  LocalOK(OnConnected(c), k,
                 [phase |-> IF w.phase = "down" THEN "up" ELSE w.phase, asked |-> asked])
BY DEF LocalOK, OnConnected, UnconditionalDisconnect, SetState, Client, ClientState,
       Phases, Init_Sending

LEMMA ServicesLocal ==
  ASSUME NEW c \in Client, NEW k \in Int, NEW w \in Phases, NEW n \in Nat,
         LocalOK(c, k, w), w.phase = "up"
  PROVE  LocalOK(OnServicesDiscovered(c, n), k, [w EXCEPT !.phase = "walked"])
BY DEF LocalOK, OnServicesDiscovered, SetState, Client, ClientState, Phases, Init_Sending

LEMMA ConnectLocal ==
  ASSUME NEW c \in Client, NEW k \in Int, NEW w \in Phases,
         LocalOK(c, k, w), c.state = "DISCOVERED"
  PROVE  LocalOK(Connect(c), k, [w EXCEPT !.asked = TRUE])
BY DEF LocalOK, Connect, SetState, Client, ClientState, Phases, Init_Sending

\* A connect request leaves the slot it found, or reserved, for the address.
LEMMA RequestLocal ==
  ASSUME NEW s \in Slots, NEW a \in Addr, NEW hasType \in BOOLEAN,
         slot[s] \in Client, send[s] \in Int, LocalOK(slot[s], send[s], worker[s]),
         slot[s].address \in {0, a},
         NEW d, d = IF hasType THEN ConnectRequested(Reserved(s, a)) ELSE Reserved(s, a),
         NEW k, k = IF slot[s].address = 0 THEN Init_Sending ELSE send[s]
  PROVE  /\ d \in Client /\ d.address = a
         /\ LocalOK(d, k, worker[s])
<1> DEFINE c == Reserved(s, a)
<1>0. a \in Nat /\ a # 0
  BY ProxyAssumption
<1>1. c \in Client /\ c.address = a /\ LocalOK(c, k, worker[s])
  <2>1. CASE slot[s].address = 0
    BY <1>0, <2>1 DEF Reserved, SetState, LocalOK, Client, ClientState, Init_Sending
  <2>2. CASE slot[s].address = a
    BY <1>0, <2>2 DEF Reserved
  <2> QED
    BY <2>1, <2>2
<1> HIDE DEF c
<1>2. /\ ConnectRequested(c) \in Client /\ ConnectRequested(c).address = a
      /\ LocalOK(ConnectRequested(c), k, worker[s])
  BY <1>0, <1>1 DEF ConnectRequested, SetState, LocalOK, Client, ClientState
<1> QED
  BY <1>1, <1>2 DEF c

-----------------------------------------------------------------------------
(* Slot accounting under set_address().                                    *)

LEMMA AccountType ==
  ASSUME NEW s \in Slots, NEW a \in Nat, Account(s, a),
         allocated \in [Slots -> Nat], free \in Int, slot \in [Slots -> Client]
  PROVE  free' \in Int /\ allocated' \in [Slots -> Nat]
<1>1. \A find, set \in Nat : UpdateAllocated(find, set) \in [Slots -> Nat]
  <2> SUFFICES ASSUME NEW find \in Nat, NEW set \in Nat
               PROVE  UpdateAllocated(find, set) \in [Slots -> Nat]
    OBVIOUS
  <2> DEFINE H == {k \in Slots : allocated[k] = find}
  <2>1. H # {} => First(H) \in Slots
    BY FirstIsIn
  <2> QED
    BY <2>1 DEF UpdateAllocated
<1>2. CASE UNCHANGED <<free, allocated>>
  BY <1>2
<1>3. CASE free' = free + 1 /\ allocated' = UpdateAllocated(slot[s].address, 0)
  BY <1>1, <1>3 DEF Client
<1>4. CASE free' = free - 1 /\ allocated' = UpdateAllocated(0, a)
  BY <1>1, <1>4
<1> QED
  BY <1>2, <1>3, <1>4 DEF Account

\* The same exchange of one value in two tables keeps their counts equal.
LEMMA SameExchange ==
  ASSUME NEW f \in [Slots -> Nat], NEW i \in Slots, NEW g \in [Slots -> Nat],
         NEW k \in Slots, NEW y \in Nat, f[i] # y, g[k] = f[i], NEW v,
         Count(f, v) = Count(g, v)
  PROVE  Count(Put(f, i, y), v) = Count(Put(g, k, y), v)
<1>1. CASE v = y
  BY <1>1, Overwrite
<1>2. CASE v = f[i]
  BY <1>2, Overwrite
<1>3. CASE v # y /\ v # f[i]
  BY <1>3, Overwrite
<1> QED
  BY <1>1, <1>2, <1>3

\* Giving a slot an address, or taking it away, keeps the report true.
LEMMA AccountStep ==
  ASSUME NEW s \in Slots, NEW a \in Addr \cup {0}, Account(s, a),
         slot \in [Slots -> Client], allocated \in [Slots -> Nat],
         slot[s].address \in Addr \cup {0},
         a = 0 \/ slot[s].address \in {0, a},
         SlotAddress' = Put(SlotAddress, s, a),
         SlotAccounting
  PROVE  SlotAccounting'
<1> DEFINE x == slot[s].address
<1>1. a \in Nat /\ x \in Nat
  BY ProxyAssumption DEF Client
<1>2. SlotAddress \in [Slots -> Nat] /\ SlotAddress[s] = x
  BY DEF SlotAddress, Client
<1>3. CASE a = x
  <2>1. SlotAddress' = SlotAddress
    BY <1>2, <1>3 DEF Put
  <2>2. UNCHANGED <<free, allocated>>
    BY <1>3 DEF Account
  <2> QED
    BY <2>1, <2>2 DEF SlotAccounting
<1>4. CASE a # x
  <2>1. s \in Holding(SlotAddress, x)
    BY <1>2 DEF Holding
  <2>2. Count(SlotAddress, x) # 0
    BY <2>1, HoldingFinite, FS_EmptySet DEF Count
  <2>3. /\ free = Count(SlotAddress, 0)
        /\ \A v \in Addr \cup {0} : Count(allocated, v) = Count(SlotAddress, v)
    BY DEF SlotAccounting, Count
  <2>4. allocated' = UpdateAllocated(x, a)
    BY <1>4 DEF Account
  <2>5. Count(allocated, x) # 0
    BY <2>2, <2>3
  <2>6. PICK k \in Slots : allocated[k] = x /\ allocated' = Put(allocated, k, a)
    BY <1>1, <2>4, <2>5, UpdateAllocatedIs
  <2>7. ASSUME NEW v \in Addr \cup {0}
        PROVE  Count(allocated', v) = Count(SlotAddress', v)
    <3>1. Count(Put(SlotAddress, s, a), v) = Count(Put(allocated, k, a), v)
      BY <1>1, <1>2, <1>4, <2>3, <2>6, SameExchange
    <3> QED
      BY <2>6, <3>1
  <2>8. free' = Count(SlotAddress', 0)
    <3>1. CASE a = 0
      <4>1. Count(Put(SlotAddress, s, 0), 0) = Count(SlotAddress, 0) + 1
        BY <1>2, <1>4, <3>1, Overwrite
      <4> QED
        BY <1>4, <2>3, <3>1, <4>1 DEF Account
    <3>2. CASE x = 0
      <4>1. Count(Put(SlotAddress, s, a), 0) = Count(SlotAddress, 0) - 1
        BY <1>1, <1>2, <1>4, <3>2, Overwrite
      <4> QED
        BY <1>4, <2>3, <3>2, <4>1 DEF Account
    <3> QED
      BY <1>4, <3>1, <3>2
  <2> QED
    BY <2>7, <2>8 DEF SlotAccounting, Count
<1> QED
  BY <1>3, <1>4

\* Nothing to account for while no slot changes hands.
LEMMA AccountStutter ==
  ASSUME SlotAccounting, UNCHANGED <<free, allocated>>, SlotAddress' = SlotAddress
  PROVE  SlotAccounting'
BY DEF SlotAccounting, Holding

-----------------------------------------------------------------------------
(* Every step changes one slot, except CloseAll.                           *)

Inv == TypeOK /\ LocalInv /\ SlotAccounting

LEMMA OneSlot ==
  ASSUME NEW s \in Slots, slot \in [Slots -> Client], NEW d \in Client,
         slot' = [slot EXCEPT ![s] = d]
  PROVE  /\ slot' \in [Slots -> Client]
         /\ slot'[s] = d /\ \A r \in Slots \ {s} : slot'[r] = slot[r]
         /\ SlotAddress' = Put(SlotAddress, s, d.address)
         /\ d.address = slot[s].address => SlotAddress' = SlotAddress
<1>1. /\ slot' \in [Slots -> Client]
      /\ slot'[s] = d /\ \A r \in Slots \ {s} : slot'[r] = slot[r]
  OBVIOUS
<1>2. SlotAddress' = [r \in Slots |-> slot'[r].address]
  BY DEF SlotAddress
<1>3. SlotAddress' = Put(SlotAddress, s, d.address)
  BY <1>1, <1>2 DEF SlotAddress, Put
<1>4. d.address = slot[s].address => SlotAddress' = SlotAddress
  BY <1>1, <1>2 DEF SlotAddress
<1> QED
  BY <1>1, <1>3, <1>4

\* If the slot that changes stays LocalOK, they all do.
LEMMA OneSlotLocal ==
  ASSUME NEW s \in Slots, LocalInv,
         \A r \in Slots \ {s} :
           slot'[r] = slot[r] /\ send'[r] = send[r] /\ worker'[r] = worker[r],
         LocalOK(slot'[s], send'[s], worker'[s])
  PROVE  LocalInv'
<1> SUFFICES ASSUME NEW r \in Slots PROVE LocalOK(slot'[r], send'[r], worker'[r])
  BY DEF LocalInv, LocalOK
<1>1. CASE r = s
  BY <1>1
<1>2. CASE r # s
  <2>1. LocalOK(slot[r], send[r], worker[r])
    BY DEF LocalInv
  <2> QED
    BY <1>2, <2>1
<1> QED
  BY <1>1, <1>2

\* CloseSlot, the end of every connection.
LEMMA CloseSlotStep ==
  ASSUME NEW s \in Slots, Inv, CloseSlot(s), NEW w \in Phases,
         worker' = [worker EXCEPT ![s] = w], pass' \in Slots \cup {NoPass}
  PROVE  Inv'
<1> DEFINE d == [OnDisconnected(slot[s]) EXCEPT !.address = 0]
<1>1. slot \in [Slots -> Client] /\ slot[s] \in Client
  BY DEF Inv, TypeOK
<1>2. d \in Client /\ LocalOK(d, Init_Sending, w) /\ d.address = 0
  BY <1>1, CloseLocal, ClientOperators DEF Client
<1>3. slot' = [slot EXCEPT ![s] = d]
  BY DEF CloseSlot
<1> HIDE DEF d
<1>4. /\ slot' \in [Slots -> Client] /\ slot'[s] = d
      /\ \A r \in Slots \ {s} : slot'[r] = slot[r]
      /\ SlotAddress' = Put(SlotAddress, s, 0)
  BY <1>1, <1>2, <1>3, OneSlot
<1>5. /\ worker' \in [Slots -> Phases] /\ worker'[s] = w
      /\ \A r \in Slots \ {s} : worker'[r] = worker[r]
  BY DEF Inv, TypeOK, Phases
<1>6. LocalOK(slot[s], send[s], worker[s])
  BY DEF Inv, LocalInv
<1>7. /\ send' \in [Slots -> Int] /\ send'[s] = Init_Sending
      /\ \A r \in Slots \ {s} : send'[r] = send[r]
  <2>1. CASE slot[s].address = 0
    BY <1>6, <2>1 DEF CloseSlot, Inv, TypeOK, LocalOK
  <2>2. CASE slot[s].address # 0
    BY <2>2 DEF CloseSlot, Inv, TypeOK, Init_Sending
  <2> QED
    BY <2>1, <2>2
<1>8. LocalInv'
  BY <1>2, <1>4, <1>5, <1>7, OneSlotLocal DEF Inv
<1>9. Account(s, 0)
  BY DEF CloseSlot, Account
<1>10. free' \in Int /\ allocated' \in [Slots -> Nat]
  BY <1>1, <1>9, AccountType DEF Inv, TypeOK
<1>11. SlotAccounting'
  <2>1. slot[s].address \in Addr \cup {0}
    BY <1>6 DEF LocalOK
  <2> QED
    BY <1>1, <1>4, <1>9, <2>1, AccountStep DEF Inv, TypeOK
<1>12. api' \in BOOLEAN /\ told' \subseteq Addr
  BY DEF CloseSlot, TellDown, Inv, TypeOK
<1> QED
  BY <1>4, <1>5, <1>7, <1>8, <1>10, <1>11, <1>12 DEF Inv, TypeOK, Phases

\* A step of one slot that does not change hands.
LEMMA SameHandsStep ==
  ASSUME NEW s \in Slots, Inv, NEW d \in Client, NEW k \in Int, NEW w \in Phases,
         slot' = [slot EXCEPT ![s] = d], send' = [send EXCEPT ![s] = k],
         worker' = [worker EXCEPT ![s] = w],
         d.address = slot[s].address, LocalOK(d, k, w),
         UNCHANGED <<free, allocated, api>>, told' \subseteq Addr,
         pass' \in Slots \cup {NoPass}
  PROVE  Inv'
<1>1. slot \in [Slots -> Client]
  BY DEF Inv, TypeOK
<1>2. /\ slot' \in [Slots -> Client] /\ slot'[s] = d
      /\ \A r \in Slots \ {s} : slot'[r] = slot[r]
      /\ SlotAddress' = SlotAddress
  BY <1>1, OneSlot
<1>3. /\ send' \in [Slots -> Int] /\ send'[s] = k
      /\ \A r \in Slots \ {s} : send'[r] = send[r]
  BY DEF Inv, TypeOK
<1>4. /\ worker' \in [Slots -> Phases] /\ worker'[s] = w
      /\ \A r \in Slots \ {s} : worker'[r] = worker[r]
  BY DEF Inv, TypeOK, Phases
<1>5. LocalInv'
  BY <1>2, <1>3, <1>4, OneSlotLocal DEF Inv
<1>6. SlotAccounting'
  BY <1>2, AccountStutter DEF Inv
<1> QED
  BY <1>2, <1>3, <1>4, <1>5, <1>6 DEF Inv, TypeOK, Phases

\* What Inv says about one slot.
LEMMA SlotFacts ==
  ASSUME Inv, NEW s \in Slots
  PROVE  /\ slot[s] \in Client /\ send[s] \in Int /\ worker[s] \in Phases
         /\ LocalOK(slot[s], send[s], worker[s])
         /\ slot[s].address \in Addr \cup {0}
         /\ slot = [slot EXCEPT ![s] = slot[s]] /\ send = [send EXCEPT ![s] = send[s]]
         /\ worker = [worker EXCEPT ![s] = worker[s]]
<1>1. /\ slot[s] \in Client /\ send[s] \in Int /\ worker[s] \in Phases
      /\ slot = [slot EXCEPT ![s] = slot[s]] /\ send = [send EXCEPT ![s] = send[s]]
      /\ worker = [worker EXCEPT ![s] = worker[s]]
  BY DEF Inv, TypeOK, Phases
<1>2. LocalOK(slot[s], send[s], worker[s])
  BY DEF Inv, LocalInv
<1>3. slot[s].address \in Addr \cup {0}
  BY <1>2 DEF LocalOK
<1> QED
  BY <1>1, <1>2, <1>3

\* get_connection_() returns a slot of the address asked for, or a free one.
LEMMA CandidateFacts ==
  ASSUME NEW a \in Addr, NEW reserve \in BOOLEAN, Candidates(a, reserve) # {}
  PROVE  /\ First(Candidates(a, reserve)) \in Slots
         /\ LET c == slot[First(Candidates(a, reserve))]
            IN c.address = a \/ (reserve /\ c.address = 0)
<1>1. Candidates(a, reserve) \in SUBSET Slots
  BY DEF Candidates
<1>2. First(Candidates(a, reserve)) \in Candidates(a, reserve)
  BY <1>1, FirstIsIn
<1> QED
  BY <1>2 DEF Candidates

-----------------------------------------------------------------------------
(* Inv holds at the start and is kept by every handler.                    *)

LEMMA InitInv == Init => Inv
<1> SUFFICES ASSUME Init PROVE Inv
  OBVIOUS
<1>1. Setup(0) \in Client /\ Setup(0).address = 0 /\ ~Setup(0).want
      /\ Setup(0).state = "IDLE"
  <2> DEFINE c == [state |-> "INIT", want |-> FALSE, services |-> 0,
                   host |-> NoHost, address |-> 0]
  <2>1. NoHost \in Int
    BY DEF NoHost
  <2>2. c \in Client /\ c.address = 0
    BY <2>1 DEF Client, ClientState
  <2>3. SetState(c, "IDLE") = Setup(0)
    BY DEF Setup
  <2> HIDE DEF c
  <2>4. SetState(c, "IDLE") \in Client /\ SetState(c, "IDLE").address = 0
    BY <2>2, ClientOperators DEF ClientState
  <2>5. ~SetState(c, "IDLE").want /\ SetState(c, "IDLE").state = "IDLE"
    BY <2>2 DEF SetState, Client
  <2> QED
    BY <2>3, <2>4, <2>5
<1>2. TypeOK
  <2>1. slot \in [Slots -> Client]
    BY <1>1 DEF Init
  <2>2. send \in [Slots -> Int] /\ free \in Int /\ allocated \in [Slots -> Nat]
    BY ProxyAssumption DEF Init, Init_Sending
  <2>3. /\ worker \in [Slots -> Phases] /\ api \in BOOLEAN /\ told \subseteq Addr
        /\ pass \in Slots \cup {NoPass}
    BY DEF Init, Phases
  <2> QED
    BY <2>1, <2>2, <2>3 DEF TypeOK, Phases
<1>3. LocalInv
  BY <1>1 DEF Init, LocalInv, LocalOK, Init_Sending
<1>4. SlotAccounting
  <2>1. Cardinality(Slots) = N
    BY FS_Interval, ProxyAssumption DEF Slots
  <2>2. SlotAddress = allocated
    BY <1>1 DEF Init, SlotAddress
  <2>3. Holding(allocated, 0) = Slots
    BY DEF Init, Holding
  <2> QED
    BY <2>1, <2>2, <2>3 DEF SlotAccounting, Init
<1> QED
  BY <1>2, <1>3, <1>4 DEF Inv

\* Every handler leaves `pass' at a slot or at NoPass.
LEMMA PassType ==
  ASSUME NEW s \in Slots, OutsideLoop \/ InLoop(s) \/ LoopEnds(s)
  PROVE  pass' \in Slots \cup {NoPass}
BY DEF OutsideLoop, InLoop, LoopEnds

\* Only what the API client was told, or whether there is one, changes.
LEMMA QuietStep ==
  ASSUME Inv, UNCHANGED <<slotVars, worker>>, api' \in BOOLEAN, told' \subseteq Addr,
         pass' \in Slots \cup {NoPass}
  PROVE  Inv'
<1>1. SlotAddress' = SlotAddress
  BY DEF SlotAddress, slotVars
<1>2. SlotAccounting'
  BY <1>1, AccountStutter DEF Inv, slotVars
<1>3. LocalInv'
  BY DEF Inv, LocalInv, LocalOK, slotVars
<1>4. TypeOK'
  BY DEF Inv, TypeOK, slotVars
<1> QED
  BY <1>2, <1>3, <1>4 DEF Inv

\* A connect request: the slot changes hands if it was free.
LEMMA ConnectRequestStep ==
  ASSUME Inv, NEW a \in Addr, NEW hasType \in BOOLEAN, ConnectRequest(a, hasType)
  PROVE  Inv'
<1> DEFINE s == First(Candidates(a, TRUE))
           c == Reserved(s, a)
           d == IF hasType THEN ConnectRequested(c) ELSE c
           k == IF slot[s].address = 0 THEN Init_Sending ELSE send[s]
<1>1. s \in Slots /\ slot[s].address \in {0, a}
  BY CandidateFacts DEF ConnectRequest
<1>2. Account(s, a) /\ ReserveResetsStream(s) /\ slot' = [slot EXCEPT ![s] = d]
      /\ UNCHANGED <<api, worker>>
  BY DEF ConnectRequest
<1>3. told' \subseteq Addr /\ pass' \in Slots \cup {NoPass}
  BY DEF ConnectRequest, TellDown, TellUp, OutsideLoop, Inv, TypeOK
<1> HIDE DEF s
<1>4. slot[s] \in Client /\ send[s] \in Int /\ LocalOK(slot[s], send[s], worker[s])
  BY <1>1, SlotFacts
<1>5. d \in Client /\ d.address = a /\ LocalOK(d, k, worker[s])
  BY <1>1, <1>4, RequestLocal
<1> HIDE DEF d
<1>6. slot \in [Slots -> Client]
  BY DEF Inv, TypeOK
<1>7. /\ slot' \in [Slots -> Client] /\ slot'[s] = d
      /\ \A r \in Slots \ {s} : slot'[r] = slot[r]
      /\ SlotAddress' = Put(SlotAddress, s, a)
  BY <1>1, <1>2, <1>5, <1>6, OneSlot
<1>8. /\ send' \in [Slots -> Int] /\ send'[s] = k
      /\ \A r \in Slots \ {s} : send'[r] = send[r]
  BY <1>1, <1>2 DEF ReserveResetsStream, Inv, TypeOK, Init_Sending
<1>9. worker' = worker
  BY <1>2
<1>10. LocalInv'
  BY <1>1, <1>5, <1>7, <1>8, <1>9, OneSlotLocal DEF Inv
<1>11. a \in Nat
  BY ProxyAssumption
<1>12. free' \in Int /\ allocated' \in [Slots -> Nat]
  BY <1>1, <1>2, <1>6, <1>11, AccountType DEF Inv, TypeOK
<1>13. SlotAccounting'
  BY <1>1, <1>2, <1>6, <1>7, AccountStep DEF Inv, TypeOK
<1> QED
  BY <1>2, <1>3, <1>7, <1>8, <1>10, <1>12, <1>13 DEF Inv, TypeOK

\* A disconnect request never finds the slot IDLE: UsedSlotIsLive.
LEMMA DisconnectRequestStep ==
  ASSUME Inv, NEW a \in Addr, DisconnectRequest(a)
  PROVE  Inv'
<1> DEFINE s == First(Candidates(a, FALSE))
<1>1. s \in Slots /\ slot[s].address = a
  BY CandidateFacts DEF DisconnectRequest
<1>2. a # 0
  BY ProxyAssumption
<1>3. slot[s] \in Client /\ send[s] \in Int /\ worker[s] \in Phases
      /\ LocalOK(slot[s], send[s], worker[s])
      /\ send = [send EXCEPT ![s] = send[s]] /\ worker = [worker EXCEPT ![s] = worker[s]]
  BY <1>1, SlotFacts
<1>4. slot[s].state # "IDLE"
  BY <1>1, <1>2, <1>3 DEF LocalOK
<1>5. slot' = [slot EXCEPT ![s] = Disconnect(slot[s])]
      /\ UNCHANGED <<free, allocated, told, send, api, worker>>
  BY <1>4 DEF DisconnectRequest
<1> HIDE DEF s
<1>6. Disconnect(slot[s]) \in Client /\ Disconnect(slot[s]).address = slot[s].address
      /\ LocalOK(Disconnect(slot[s]), send[s], worker[s])
  BY <1>1, <1>2, <1>3, ClientOperators, DisconnectLocal
<1>7. told' \subseteq Addr /\ pass' \in Slots \cup {NoPass}
  BY <1>5 DEF DisconnectRequest, OutsideLoop, Inv, TypeOK
<1> QED
  BY <1>1, <1>3, <1>5, <1>6, <1>7, SameHandsStep

LEMMA ServicesRequestStep ==
  ASSUME Inv, NEW a \in Addr, ServicesRequest(a)
  PROVE  Inv'
<1> DEFINE s == First(Candidates(a, FALSE))
<1>1. s \in Slots /\ slot[s].address = a
  BY CandidateFacts DEF ServicesRequest
<1>2. slot[s].state = "ESTABLISHED" /\ send' = [send EXCEPT ![s] = 0]
      /\ UNCHANGED <<slot, free, allocated, api, told, worker>>
  BY DEF ServicesRequest
<1> HIDE DEF s
<1>3. /\ slot[s] \in Client /\ worker[s] \in Phases
      /\ LocalOK(slot[s], send[s], worker[s])
      /\ slot = [slot EXCEPT ![s] = slot[s]] /\ worker = [worker EXCEPT ![s] = worker[s]]
  BY <1>1, SlotFacts
<1>4. LocalOK(slot[s], 0, worker[s])
  BY <1>1, <1>2, <1>3, ProxyAssumption DEF LocalOK, Client
<1>5. told' \subseteq Addr /\ pass' \in Slots \cup {NoPass}
  BY <1>2 DEF ServicesRequest, OutsideLoop, Inv, TypeOK
<1>6. slot' = [slot EXCEPT ![s] = slot[s]] /\ worker' = [worker EXCEPT ![s] = worker[s]]
  BY <1>2, <1>3
<1>7. 0 \in Int /\ UNCHANGED <<free, allocated, api>>
  BY <1>2
<1> QED
  BY <1>1, <1>2, <1>3, <1>4, <1>5, <1>6, <1>7, SameHandsStep

\* loop() without an API client: every slot at once, none changes hands.
LEMMA CloseAllStep ==
  ASSUME Inv, CloseAll
  PROVE  Inv'
<1>1. ASSUME NEW s \in Slots
      PROVE  /\ slot'[s] \in Client /\ slot'[s].address = slot[s].address
             /\ LocalOK(slot'[s], send[s], worker[s])
  <2>1. slot[s] \in Client /\ send[s] \in Int /\ LocalOK(slot[s], send[s], worker[s])
    BY SlotFacts
  <2>2. CASE slot[s].address # 0 /\ ~slot[s].want
    <3>1. slot'[s] = Disconnect(slot[s])
      BY <2>2 DEF CloseAll
    <3> QED
      <4>1. Disconnect(slot[s]) \in Client /\ Disconnect(slot[s]).address = slot[s].address
        BY <2>1, ClientOperators
      <4>2. LocalOK(Disconnect(slot[s]), send[s], worker[s])
        BY <2>1, <2>2, DisconnectLocal
      <4> QED
        BY <3>1, <4>1, <4>2
  <2>3. CASE ~(slot[s].address # 0 /\ ~slot[s].want)
    <3>1. slot'[s] = slot[s]
      BY <2>3 DEF CloseAll
    <3> QED
      BY <2>1, <3>1
  <2> QED
    BY <2>2, <2>3
<1>2. slot' \in [Slots -> Client]
  BY <1>1 DEF CloseAll
<1>3. SlotAddress' = SlotAddress
  <2>1. SlotAddress' = [s \in Slots |-> slot'[s].address]
    BY DEF SlotAddress
  <2> QED
    BY <1>1, <2>1 DEF SlotAddress
<1>4. LocalInv'
  <2>1. send' = send /\ worker' = worker
    BY DEF CloseAll
  <2>2. \A s \in Slots : LocalOK(slot'[s], send'[s], worker'[s])
    BY <1>1, <2>1
  <2> QED
    BY <2>2 DEF LocalInv, LocalOK
<1>5. SlotAccounting'
  BY <1>3, AccountStutter DEF Inv, CloseAll
<1> QED
  BY <1>2, <1>4, <1>5 DEF Inv, TypeOK, CloseAll, OutsideLoop

\* send_service_for_discovery_(): the stream moves inside the tree or ends.
LEMMA StreamServicesStep ==
  ASSUME Inv, NEW s \in Slots, StreamServices(s)
  PROVE  Inv'
<1>1. /\ slot[s] \in Client /\ worker[s] \in Phases
      /\ LocalOK(slot[s], send[s], worker[s])
      /\ slot = [slot EXCEPT ![s] = slot[s]] /\ worker = [worker EXCEPT ![s] = worker[s]]
  BY SlotFacts
<1>2. UNCHANGED <<free, allocated, api, told, worker>> /\ slot[s].address # 0
      /\ send[s] \in 0 .. slot[s].services
  BY DEF StreamServices, Streaming
<1>3. told' \subseteq Addr /\ pass' \in Slots \cup {NoPass}
  BY <1>2, PassType DEF StreamServices, Inv, TypeOK
<1>4. CASE /\ send' = [send EXCEPT ![s] = Done_Sending]
           /\ slot' = [slot EXCEPT ![s] = ReleaseServices(slot[s])]
  <2>1. ReleaseServices(slot[s]) \in Client
        /\ ReleaseServices(slot[s]).address = slot[s].address
    BY <1>1, ClientOperators
  <2>2. LocalOK(ReleaseServices(slot[s]), Done_Sending, worker[s])
    BY <1>1, <1>2 DEF LocalOK, ReleaseServices, Done_Sending, Init_Sending, Client
  <2>3. Done_Sending \in Int
    BY DEF Done_Sending
  <2> QED
    BY <1>1, <1>2, <1>3, <1>4, <2>1, <2>2, <2>3, SameHandsStep
<1>5. CASE send' = [send EXCEPT ![s] = Done_Sending] /\ UNCHANGED slot
  <2>1. LocalOK(slot[s], Done_Sending, worker[s])
    BY <1>1, <1>2 DEF LocalOK, Done_Sending, Init_Sending, Client
  <2>2. Done_Sending \in Int
    BY DEF Done_Sending
  <2> QED
    BY <1>1, <1>2, <1>3, <1>5, <2>1, <2>2, SameHandsStep
<1>6. ASSUME NEW next \in (send[s] + 1) .. slot[s].services,
             send' = [send EXCEPT ![s] = next], UNCHANGED slot
      PROVE  Inv'
  <2>1. next \in Int /\ next >= 0 /\ next <= slot[s].services /\ send[s] >= 0
    BY <1>1, <1>2 DEF Client
  <2>2. LocalOK(slot[s], next, worker[s])
    BY <1>1, <1>2, <2>1 DEF LocalOK, Init_Sending
  <2> QED
    BY <1>1, <1>2, <1>3, <1>6, <2>1, <2>2, SameHandsStep
<1> QED
  BY <1>4, <1>5, <1>6 DEF StreamServices

LEMMA NextInv == Inv /\ [Next]_vars => Inv'
<1> SUFFICES ASSUME Inv, [Next]_vars PROVE Inv'
  OBVIOUS
<1>0. CASE UNCHANGED vars
  BY <1>0, QuietStep DEF vars, slotVars, Inv, TypeOK
<1>1. ASSUME NEW a \in Addr, ConnectNoSlot(a) \/ DisconnectNoSlot(a)
                             \/ LegacyConnectRequest(a)
      PROVE  Inv'
  BY <1>1, QuietStep DEF ConnectNoSlot, DisconnectNoSlot, LegacyConnectRequest,
                         TellDown, OutsideLoop, Inv, TypeOK
<1>2. ASSUME Subscribe \/ Unsubscribe PROVE Inv'
  BY <1>2, QuietStep DEF Subscribe, Unsubscribe, OutsideLoop, Inv, TypeOK
<1>3. ASSUME NEW s \in Slots, TrackerConnect(s) PROVE Inv'
  <2> DEFINE w == [worker[s] EXCEPT !.asked = TRUE]
  <2>1. /\ slot[s] \in Client /\ worker[s] \in Phases /\ send[s] \in Int
        /\ LocalOK(slot[s], send[s], worker[s]) /\ send = [send EXCEPT ![s] = send[s]]
    BY SlotFacts
  <2>2. slot' = [slot EXCEPT ![s] = Connect(slot[s])] /\ slot[s].state = "DISCOVERED"
        /\ worker' = [worker EXCEPT ![s] = w]
        /\ UNCHANGED <<send, free, allocated, api, told>>
    BY <1>3 DEF TrackerConnect
  <2>3. w \in Phases
    BY <2>1 DEF Phases
  <2>4. Connect(slot[s]) \in Client /\ Connect(slot[s]).address = slot[s].address
        /\ LocalOK(Connect(slot[s]), send[s], w)
    BY <2>1, <2>2, ClientOperators, ConnectLocal
  <2>5. told' \subseteq Addr /\ pass' \in Slots \cup {NoPass}
    BY <1>3, <2>2, PassType DEF TrackerConnect, Inv, TypeOK
  <2> HIDE DEF w
  <2> QED
    BY <2>1, <2>2, <2>3, <2>4, <2>5, SameHandsStep
<1>4. ASSUME NEW s \in Slots, Connected(s) PROVE Inv'
  <2>1. /\ slot[s] \in Client /\ worker[s] \in Phases /\ send[s] \in Int
        /\ LocalOK(slot[s], send[s], worker[s]) /\ send = [send EXCEPT ![s] = send[s]]
    BY SlotFacts
  <2>2. PICK asked \in BOOLEAN :
          worker' = [worker EXCEPT ![s] =
            [phase |-> IF worker[s].phase = "down" THEN "up" ELSE worker[s].phase,
             asked |-> asked]]
    BY <1>4, <2>1 DEF Connected, Phases
  <2> DEFINE w == [phase |-> IF worker[s].phase = "down" THEN "up" ELSE worker[s].phase,
                   asked |-> asked]
  <2>3. slot' = [slot EXCEPT ![s] = OnConnected(slot[s])]
        /\ UNCHANGED <<send, free, allocated, api, told>>
    BY <1>4 DEF Connected
  <2>4. w \in Phases
    BY <2>1 DEF Phases
  <2>5. OnConnected(slot[s]) \in Client /\ OnConnected(slot[s]).address = slot[s].address
        /\ LocalOK(OnConnected(slot[s]), send[s], w)
    BY <2>1, ClientOperators, ConnectedLocal
  <2>6. told' \subseteq Addr /\ pass' \in Slots \cup {NoPass}
    BY <1>4, <2>3, PassType DEF Connected, Inv, TypeOK
  <2>7. worker' = [worker EXCEPT ![s] = w]
    BY <2>2
  <2> HIDE DEF w
  <2> QED
    BY <2>1, <2>3, <2>4, <2>5, <2>6, <2>7, SameHandsStep
<1>5. ASSUME NEW s \in Slots, NEW n \in ServiceCounts, ServicesDiscovered(s, n)
      PROVE  Inv'
  <2> DEFINE w == [worker[s] EXCEPT !.phase = "walked"]
             d == OnServicesDiscovered(slot[s], n)
  <2>0. n \in Nat
    BY ProxyAssumption
  <2>1. /\ slot[s] \in Client /\ worker[s] \in Phases /\ send[s] \in Int
        /\ LocalOK(slot[s], send[s], worker[s]) /\ send = [send EXCEPT ![s] = send[s]]
        /\ slot[s].address \in Addr \cup {0}
    BY SlotFacts
  <2>2. slot' = [slot EXCEPT ![s] = d] /\ worker[s].phase = "up"
        /\ worker' = [worker EXCEPT ![s] = w]
        /\ UNCHANGED <<send, free, allocated, api>>
    BY <1>5 DEF ServicesDiscovered
  <2>3. w \in Phases
    BY <2>1 DEF Phases
  <2>4. d \in Client /\ d.address = slot[s].address /\ LocalOK(d, send[s], w)
    BY <2>0, <2>1, <2>2, ClientOperators, ServicesLocal
  <2>5. told' \subseteq Addr /\ pass' \in Slots \cup {NoPass}
    BY <1>5, <2>1, PassType DEF ServicesDiscovered, TellUp, Inv, TypeOK
  <2> HIDE DEF w, d
  <2> QED
    BY <2>1, <2>2, <2>3, <2>4, <2>5, SameHandsStep
<1>6. ASSUME NEW s \in Slots, Disconnected(s) PROVE Inv'
  <2>1. worker[s] \in Phases
    BY SlotFacts
  <2>2. PICK asked \in BOOLEAN :
          worker' = [worker EXCEPT ![s] = [phase |-> "down", asked |-> asked]]
    BY <1>6, <2>1 DEF Disconnected, Phases
  <2>3. [phase |-> "down", asked |-> asked] \in Phases
    BY DEF Phases
  <2>4. CloseSlot(s) /\ pass' \in Slots \cup {NoPass}
    BY <1>6, PassType DEF Disconnected
  <2> QED
    BY <2>2, <2>3, <2>4, CloseSlotStep
<1>7. ASSUME NEW s \in Slots, Timeout(s) PROVE Inv'
  <2>1. worker[s] \in Phases /\ worker' = [worker EXCEPT ![s] = worker[s]]
    BY <1>7, SlotFacts DEF Timeout
  <2>2. CloseSlot(s) /\ pass' \in Slots \cup {NoPass}
    BY <1>7, PassType DEF Timeout
  <2> QED
    BY <2>1, <2>2, CloseSlotStep
<1>10. ASSUME NEW s \in Slots, LoopDone(s) PROVE Inv'
  BY <1>10, PassType, QuietStep DEF LoopDone, Inv, TypeOK
<1>8. ASSUME NEW a \in Addr, Request(a) PROVE Inv'
  BY <1>1, <1>8, ConnectRequestStep, DisconnectRequestStep, ServicesRequestStep
     DEF Request
<1>9. ASSUME NEW s \in Slots, ConnectionLoop(s) PROVE Inv'
  BY <1>3, <1>4, <1>5, <1>6, <1>7, <1>9, <1>10, StreamServicesStep
     DEF ConnectionLoop
<1> QED
  BY <1>0, <1>2, <1>8, <1>9, CloseAllStep DEF Next

LEMMA Invariance == Spec => []Inv
BY InitInv, NextInv, PTL DEF Spec

-----------------------------------------------------------------------------
(* What follows for the proxy.                                             *)

\* The proxy's tables keep their shape whatever requests and reports come.
THEOREM ProxyTypeCorrect == Spec => []TypeOK
BY Invariance, PTL DEF Inv

\* The free count and the list of allocated addresses that the proxy sends
\* (send_connections_free) always agree with the slots themselves.
THEOREM ProxySlotAccounting == Spec => []SlotAccounting
BY Invariance, PTL DEF Inv

\* A slot with an address is never left IDLE, where only its own events could
\* move it.
THEOREM ProxyUsedSlotIsLive == Spec => []UsedSlotIsLive
<1>1. Inv => UsedSlotIsLive
  BY DEF Inv, LocalInv, LocalOK, UsedSlotIsLive
<1> QED
  BY <1>1, Invariance, PTL

\* A service stream stays inside the tree of the device it was asked for.
THEOREM ProxyStreamInRange == Spec => []StreamInRange
<1>1. Inv => StreamInRange
  BY DEF Inv, LocalInv, LocalOK, StreamInRange
<1> QED
  BY <1>1, Invariance, PTL

\* A deferred disconnect dies with the connection it was asked for.
THEOREM ProxyNoStaleIntent == Spec => []NoStaleIntent
<1>1. Inv => NoStaleIntent
  BY DEF Inv, LocalInv, LocalOK, NoStaleIntent
<1> QED
  BY <1>1, Invariance, PTL

-----------------------------------------------------------------------------
(***************************************************************************)
(* ToldUpIsHeld.  It needs one more fact: nothing counts as told while there  *)
(* is no API client, since a slot freed then is reported to nobody.        *)
(***************************************************************************)
ToldInv == (~api => told = {}) /\ ToldUpIsHeld

\* A step after which every slot in use still has its address.
LEMMA KeepsHolding ==
  ASSUME Inv, ToldInv, api' = api,
         \A s \in Slots : slot[s].address # 0 => slot'[s].address = slot[s].address,
         ~api => told' = told,
         \A a \in told' : a \in told \/ \E s \in Slots : slot'[s].address = a
  PROVE  ToldInv'
<1>1. ASSUME NEW a \in told' PROVE \E s \in Slots : slot'[s].address = a
  <2>1. CASE a \in told
    <3>1. PICK s \in Slots : slot[s].address = a
      BY <2>1 DEF ToldInv, ToldUpIsHeld
    <3>2. a # 0
      BY <2>1, ProxyAssumption DEF Inv, TypeOK
    <3> QED
      BY <3>1, <3>2
  <2> QED
    BY <1>1, <2>1
<1> QED
  BY <1>1 DEF ToldInv, ToldUpIsHeld

\* The end of a connection is reported before the slot is given up.
LEMMA CloseSlotTold ==
  ASSUME Inv, ToldInv, NEW s \in Slots, CloseSlot(s)
  PROVE  ToldInv'
<1> DEFINE d == [OnDisconnected(slot[s]) EXCEPT !.address = 0]
<1>1. /\ slot' = [slot EXCEPT ![s] = d] /\ api' = api
      /\ slot[s].address = 0 => told' = told
      /\ slot[s].address # 0 => told' = IF api THEN told \ {slot[s].address} ELSE told
  BY DEF CloseSlot, TellDown
<1> HIDE DEF d
<1>2. \A r \in Slots \ {s} : slot'[r] = slot[r]
  BY <1>1 DEF Inv, TypeOK
<1>3. ASSUME NEW a \in told' PROVE \E r \in Slots : slot'[r].address = a
  <2>1. a \in told /\ a # slot[s].address
    BY <1>1, <1>3, ProxyAssumption DEF ToldInv, Inv, TypeOK
  <2>2. PICK r \in Slots : slot[r].address = a
    BY <2>1 DEF ToldInv, ToldUpIsHeld
  <2> QED
    BY <1>2, <2>1, <2>2
<1>4. ~api' => told' = {}
  BY <1>1 DEF ToldInv
<1> QED
  BY <1>3, <1>4 DEF ToldInv, ToldUpIsHeld

\* A slot keeps its address while its connection is only moved on.
LEMMA AddressKept ==
  ASSUME Inv, NEW s \in Slots, NEW d, slot' = [slot EXCEPT ![s] = d],
         slot[s].address # 0 => d.address = slot[s].address
  PROVE  \A r \in Slots : slot[r].address # 0 => slot'[r].address = slot[r].address
<1> SUFFICES ASSUME NEW r \in Slots, slot[r].address # 0
             PROVE  slot'[r].address = slot[r].address
  OBVIOUS
<1>1. CASE r = s
  <2>1. slot'[s] = d
    BY DEF Inv, TypeOK
  <2> QED
    BY <1>1, <2>1
<1>2. CASE r # s
  <2>1. slot'[r] = slot[r]
    BY <1>2 DEF Inv, TypeOK
  <2> QED
    BY <2>1
<1> QED
  BY <1>1, <1>2

LEMMA NextTold == Inv /\ ToldInv /\ [Next]_vars => ToldInv'
<1> SUFFICES ASSUME Inv, ToldInv, [Next]_vars PROVE ToldInv'
  OBVIOUS
<1>0. CASE UNCHANGED vars
  BY <1>0, KeepsHolding DEF vars
<1>1. ASSUME NEW a \in Addr,
             \/ ConnectNoSlot(a) \/ DisconnectNoSlot(a)
             \/ LegacyConnectRequest(a) \/ ServicesRequest(a)
      PROVE  ToldInv'
  <2>1. slot' = slot /\ api' = api /\ told' \subseteq told /\ (~api => told' = told)
    BY <1>1 DEF ConnectNoSlot, DisconnectNoSlot, LegacyConnectRequest,
                ServicesRequest, slotVars, TellDown
  <2> QED
    BY <2>1, KeepsHolding
<1>2. ASSUME NEW a \in Addr, NEW hasType \in BOOLEAN, ConnectRequest(a, hasType)
      PROVE  ToldInv'
  <2> DEFINE s == First(Candidates(a, TRUE))
             d == IF hasType THEN ConnectRequested(Reserved(s, a)) ELSE Reserved(s, a)
             k == IF slot[s].address = 0 THEN Init_Sending ELSE send[s]
  <2>1. s \in Slots /\ slot[s].address \in {0, a}
    BY <1>2, CandidateFacts DEF ConnectRequest
  <2>2. slot' = [slot EXCEPT ![s] = d] /\ api' = api /\ told' \subseteq told \cup {a}
        /\ (~api => told' = told)
    BY <1>2 DEF ConnectRequest, TellDown, TellUp, ToldInv
  <2> HIDE DEF s
  <2>3. slot[s] \in Client /\ send[s] \in Int /\ LocalOK(slot[s], send[s], worker[s])
    BY <2>1, SlotFacts
  <2>4. d.address = a
    BY <2>1, <2>3, RequestLocal
  <2> HIDE DEF d
  <2>5. \A r \in Slots : slot[r].address # 0 => slot'[r].address = slot[r].address
    BY <2>1, <2>2, <2>4, AddressKept
  <2>6. slot'[s].address = a
    BY <2>1, <2>2, <2>4 DEF Inv, TypeOK
  <2> QED
    BY <2>1, <2>2, <2>5, <2>6, KeepsHolding
<1>3. ASSUME NEW a \in Addr, DisconnectRequest(a) PROVE ToldInv'
  <2> DEFINE s == First(Candidates(a, FALSE))
  <2>1. s \in Slots /\ slot[s].address = a /\ a # 0
    BY <1>3, CandidateFacts, ProxyAssumption DEF DisconnectRequest
  <2>2. slot[s] \in Client /\ slot[s].state # "IDLE"
    BY <2>1, SlotFacts DEF LocalOK
  <2>3. slot' = [slot EXCEPT ![s] = Disconnect(slot[s])] /\ UNCHANGED <<told, api>>
    BY <1>3, <2>2 DEF DisconnectRequest
  <2> HIDE DEF s
  <2>4. Disconnect(slot[s]).address = slot[s].address
    BY <2>2, ClientOperators
  <2>5. \A r \in Slots : slot[r].address # 0 => slot'[r].address = slot[r].address
    BY <2>1, <2>3, <2>4, AddressKept
  <2> QED
    BY <2>3, <2>5, KeepsHolding
<1>4. ASSUME Subscribe \/ Unsubscribe PROVE ToldInv'
  BY <1>4 DEF Subscribe, Unsubscribe, slotVars, ToldInv, ToldUpIsHeld
<1>5. ASSUME CloseAll PROVE ToldInv'
  BY <1>5 DEF CloseAll, ToldInv, ToldUpIsHeld
<1>6. ASSUME NEW s \in Slots,
             \/ TrackerConnect(s) \/ Connected(s) \/ StreamServices(s) \/ LoopDone(s)
      PROVE  ToldInv'
  <2>1. PICK d \in {slot[s], Connect(slot[s]), OnConnected(slot[s]),
                    ReleaseServices(slot[s])} :
          slot' = [slot EXCEPT ![s] = d]
    BY <1>6, SlotFacts DEF TrackerConnect, Connected, StreamServices, LoopDone, slotVars
  <2>2. d.address = slot[s].address
    BY <2>1, SlotFacts, ClientOperators
  <2>3. \A r \in Slots : slot[r].address # 0 => slot'[r].address = slot[r].address
    BY <2>1, <2>2, AddressKept
  <2>4. UNCHANGED <<told, api>>
    BY <1>6 DEF TrackerConnect, Connected, StreamServices, LoopDone, slotVars
  <2> QED
    BY <2>3, <2>4, KeepsHolding
<1>7. ASSUME NEW s \in Slots, NEW n \in ServiceCounts, ServicesDiscovered(s, n)
      PROVE  ToldInv'
  <2> DEFINE d == OnServicesDiscovered(slot[s], n)
             x == slot[s].address
  <2>1. slot' = [slot EXCEPT ![s] = d] /\ api' = api
        /\ told' \subseteq told \cup {x} /\ (~api => told' = told)
    BY <1>7 DEF ServicesDiscovered, TellUp
  <2>2. d.address = x
    BY <1>7, SlotFacts, ClientOperators, ProxyAssumption
  <2> HIDE DEF d
  <2>3. \A r \in Slots : slot[r].address # 0 => slot'[r].address = slot[r].address
    BY <2>1, <2>2, AddressKept
  <2>4. slot'[s].address = x
    BY <2>1, <2>2 DEF Inv, TypeOK
  <2> QED
    BY <2>1, <2>3, <2>4, KeepsHolding
<1>8. ASSUME NEW s \in Slots, Disconnected(s) \/ Timeout(s) PROVE ToldInv'
  BY <1>8, CloseSlotTold DEF Disconnected, Timeout
<1> QED
  BY <1>0, <1>1, <1>2, <1>3, <1>4, <1>5, <1>6, <1>7, <1>8
     DEF Next, Request, ConnectionLoop

\* An address the present API client believes connected is in some slot: it
\* hears of every loss, also through timeouts and late worker reports.
THEOREM ProxyToldUpIsHeld == Spec => []ToldUpIsHeld
<1>1. Init => ToldInv
  BY DEF Init, ToldInv, ToldUpIsHeld
<1>2. ToldInv => ToldUpIsHeld
  BY DEF ToldInv
<1> QED
  BY <1>1, <1>2, NextTold, Invariance, PTL DEF Spec
=============================================================================
