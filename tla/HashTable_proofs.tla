-------------------------- MODULE HashTable_proofs --------------------------
(***************************************************************************)
(* Proofs about HashTable for every set of keys, hash function, initial    *)
(* capacity and limit: its invariants, and that it implements StringMap.   *)
(*                                                                         *)
(* The argument: a probe that has got as far as slot i has met only other  *)
(* keys (Scanned), so an empty slot at its end shows that the key is not   *)
(* in the array (Absent), and storing it there keeps every stored key      *)
(* findable (StoredFindable).  During a rehash the new array holds exactly *)
(* what the slots copied so far hold (Copied), so that swapping the arrays *)
(* changes no key's value.                                                 *)
(***************************************************************************)
EXTENDS HashTable, FiniteSetTheorems, TLAPS

-----------------------------------------------------------------------------
(* Probing *)

\* Every slot a probe for k has passed on its way to i holds another key.
Scanned(arr, k, i, c) ==
  \A j \in 0..(c - 1) :
     Distance(Home(k, c), j, c) < Distance(Home(k, c), i, c) =>
       arr[j].key \notin {Null, k}

\* The arrays of c slots.
Arrays(c) == [0..(c - 1) -> Slot]

\* A key's home is a slot of the array.
LEMMA HomeType ==
  ASSUME NEW k \in Keys, NEW c \in Nat \ {0}
  PROVE  Home(k, c) \in 0..(c - 1)
BY HashAssumption DEF Home

\* The probe's next slot: the one after, or the first after the last.
LEMMA FollowingValue ==
  ASSUME NEW c \in Nat \ {0}, NEW i \in 0..(c - 1)
  PROVE  /\ Following(i, c) = IF i + 1 = c THEN 0 ELSE i + 1
         /\ Following(i, c) \in 0..(c - 1)
BY DEF Following

\* Distances from one slot tell the slots of an array apart, and one turn of
\* a probe adds one to its distance or brings it back to where it began.
LEMMA DistanceFacts ==
  ASSUME NEW c \in Nat \ {0},
         NEW h \in 0..(c - 1), NEW i \in 0..(c - 1), NEW j \in 0..(c - 1)
  PROVE  /\ Distance(h, i, c) \in 0..(c - 1)
         /\ Distance(h, h, c) = 0
         /\ Distance(h, i, c) = Distance(h, j, c) => i = j
         /\ Distance(h, Following(i, c), c) \in {0, Distance(h, i, c) + 1}
BY FollowingValue DEF Distance

\* A probe that has just started has passed nothing.
LEMMA ScanStart ==
  ASSUME NEW c \in Nat \ {0}, NEW k \in Keys, NEW arr
  PROVE  Scanned(arr, k, Home(k, c), c)
BY HomeType, DistanceFacts DEF Scanned

\* A collision lets the probe pass its slot.
LEMMA ScanNext ==
  ASSUME NEW c \in Nat \ {0}, NEW k \in Keys, NEW arr, NEW i \in 0..(c - 1),
         Scanned(arr, k, i, c), arr[i].key \notin {Null, k}
  PROVE  Scanned(arr, k, Following(i, c), c)
<1> DEFINE h == Home(k, c)
<1>1. h \in 0..(c - 1)
  BY HomeType
<1>2. SUFFICES ASSUME NEW j \in 0..(c - 1),
                      Distance(h, j, c) < Distance(h, Following(i, c), c)
               PROVE  arr[j].key \notin {Null, k}
  BY DEF Scanned
<1> HIDE DEF h
<1>3. Distance(h, j, c) <= Distance(h, i, c)
  <2>1. Distance(h, j, c) \in Nat /\ Distance(h, i, c) \in Nat
    BY <1>1 DEF Distance
  <2>2. Distance(h, Following(i, c), c) \in {0, Distance(h, i, c) + 1}
    BY <1>1, DistanceFacts
  <2>3. QED
    BY <1>2, <2>1, <2>2
<1>4. CASE Distance(h, j, c) = Distance(h, i, c)
  BY <1>1, <1>4, DistanceFacts
<1>5. CASE Distance(h, j, c) < Distance(h, i, c)
  BY <1>5 DEF Scanned, h
<1>6. QED
  BY <1>1, <1>3, <1>4, <1>5, DistanceFacts

\* A probe that ends at an empty slot has shown that its key is not there.
LEMMA Absent ==
  ASSUME NEW c \in Nat \ {0}, NEW k \in Keys, NEW arr \in Arrays(c),
         NEW i \in 0..(c - 1),
         Findable(arr, c), Scanned(arr, k, i, c), arr[i].key = Null
  PROVE  \A j \in 0..(c - 1) : arr[j].key # k
<1>1. SUFFICES ASSUME NEW j \in 0..(c - 1), arr[j].key = k
               PROVE  FALSE
  OBVIOUS
<1> DEFINE h == Home(k, c)
<1>2. h \in 0..(c - 1)
  BY HomeType
<1>3. k # Null
  BY NullAssumption
<1>4. ~(Distance(h, j, c) < Distance(h, i, c))
  BY <1>1 DEF Scanned
<1>5. ~(Distance(h, i, c) < Distance(h, j, c))
  BY <1>1, <1>3 DEF Findable, Occupied, Arrays
<1>6. Distance(h, i, c) = Distance(h, j, c)
  <2> HIDE DEF h
  <2> QED
    BY <1>2, <1>4, <1>5, DistanceFacts
<1>7. i = j
  <2> HIDE DEF h
  <2> QED
    BY <1>2, <1>6, DistanceFacts
<1>8. QED
  BY <1>1, <1>3, <1>7

-----------------------------------------------------------------------------
(* Storing *)

\* The array after the probe for k ended at slot i and v was stored there.
Put(arr, i, k, v) == [arr EXCEPT ![i] = [key |-> k, value |-> v]]

\* Storing at the end of a probe keeps every stored key findable.
LEMMA StoredFindable ==
  ASSUME NEW c \in Nat \ {0}, NEW k \in Keys, NEW v \in Values,
         NEW arr \in Arrays(c), NEW i \in 0..(c - 1),
         Findable(arr, c), Scanned(arr, k, i, c), arr[i].key \in {Null, k}
  PROVE  Findable(Put(arr, i, k, v), c)
<1> DEFINE new == Put(arr, i, k, v)
<1>1. k # Null
  BY NullAssumption
<1>2. /\ DOMAIN new = 0..(c - 1)
      /\ DOMAIN arr = 0..(c - 1)
      /\ new[i].key = k
      /\ \A j \in 0..(c - 1) : j # i => new[j] = arr[j]
  BY DEF Put, Arrays
<1>3. Occupied(new) = Occupied(arr) \cup {i}
  BY <1>1, <1>2 DEF Occupied
<1> HIDE DEF new
<1>4. \A j \in 0..(c - 1) : j # i => new[j].key # k
  <2>1. CASE arr[i].key = Null
    BY <1>2, <2>1, Absent
  <2>2. CASE arr[i].key = k
    BY <1>1, <1>2, <2>2 DEF Findable, Occupied
  <2>3. QED
    BY <2>1, <2>2
<1>5. ASSUME NEW a \in Occupied(new), NEW b \in Occupied(new),
             new[a].key = new[b].key
      PROVE  a = b
  <2>1. CASE a = i \/ b = i
    BY <1>2, <1>4, <1>5, <2>1 DEF Occupied
  <2>2. CASE a # i /\ b # i
    BY <1>2, <1>3, <1>5, <2>2 DEF Findable, Occupied
  <2>3. QED
    BY <2>1, <2>2
<1>6. ASSUME NEW a \in Occupied(new), NEW j \in 0..(c - 1),
             Distance(Home(new[a].key, c), j, c) < Distance(Home(new[a].key, c), a, c)
      PROVE  new[j].key # Null
  <2>1. CASE a = i
    BY <1>1, <1>2, <1>6, <2>1 DEF Scanned
  <2>2. CASE a # i
    <3>1. a \in Occupied(arr) /\ new[a] = arr[a]
      BY <1>2, <1>3, <2>2 DEF Occupied
    <3>2. arr[j].key # Null
      BY <1>2, <1>6, <3>1 DEF Findable
    <3>3. QED
      BY <1>1, <1>2, <3>2
  <2>3. QED
    BY <2>1, <2>2
<1>7. QED
  BY <1>2, <1>5, <1>6 DEF Findable, new

\* An array occupies finitely many slots.
LEMMA OccupiedFinite ==
  ASSUME NEW c \in Nat, NEW arr \in Arrays(c)
  PROVE  /\ IsFiniteSet(Occupied(arr))
         /\ Cardinality(Occupied(arr)) \in Nat
<1>1. IsFiniteSet(0..(c - 1))
  BY FS_Interval
<1>2. Occupied(arr) \subseteq 0..(c - 1)
  BY DEF Occupied, Arrays
<1>3. IsFiniteSet(Occupied(arr))
  BY <1>1, <1>2, FS_Subset
<1>4. QED
  BY <1>3, FS_CardinalityType

\* Storing occupies one slot more, unless the key was there.
LEMMA StoredCount ==
  ASSUME NEW c \in Nat \ {0}, NEW k \in Keys, NEW v \in Values,
         NEW arr \in Arrays(c), NEW i \in 0..(c - 1)
  PROVE  /\ Put(arr, i, k, v) \in Arrays(c)
         /\ Occupied(Put(arr, i, k, v)) = Occupied(arr) \cup {i}
         /\ Cardinality(Occupied(Put(arr, i, k, v))) =
              Cardinality(Occupied(arr)) + (IF arr[i].key = Null THEN 1 ELSE 0)
<1> DEFINE new == Put(arr, i, k, v)
<1>1. k # Null
  BY NullAssumption
<1>2. new \in Arrays(c)
  BY DEF Put, Arrays, Slot
<1>3. Occupied(new) = Occupied(arr) \cup {i}
  BY <1>1 DEF Occupied, Put, Arrays
<1>4. i \in Occupied(arr) <=> arr[i].key # Null
  BY DEF Occupied, Arrays
<1> HIDE DEF new
<1>5. Cardinality(Occupied(arr) \cup {i}) =
        IF i \in Occupied(arr) THEN Cardinality(Occupied(arr))
                               ELSE Cardinality(Occupied(arr)) + 1
  BY OccupiedFinite, FS_AddElement
<1>6. Cardinality(Occupied(new)) =
        Cardinality(Occupied(arr)) + (IF arr[i].key = Null THEN 1 ELSE 0)
  BY <1>3, <1>4, <1>5, OccupiedFinite
<1>7. QED
  BY <1>2, <1>3, <1>6 DEF new

-----------------------------------------------------------------------------
(* The inductive invariant *)

Rehashing == pc \in {"rehash", "reprobe"}

\* A slot holds a value exactly if it holds a key.
Paired(arr) == \A i \in DOMAIN arr : arr[i].key = Null <=> arr[i].value = Null

\* The probe in progress has not overlooked its key.
ProbeInv ==
  /\ pc = "reprobe" => Scanned(newEntries, RehashKey, index, NewCapacity)
  /\ pc \in {"probe", "lookup"} => Scanned(entries, call.key, index, capacity)

\* The occupied slots the copy loop is done with.
CopiedSlots == {j \in Occupied(entries) : j < source}

\* The new array holds the entries of those slots and nothing else.
CopiedInv ==
  Rehashing =>
    /\ \A i \in Occupied(newEntries) : \E j \in CopiedSlots : newEntries[i] = entries[j]
    /\ \A j \in CopiedSlots : \E i \in Occupied(newEntries) : newEntries[i] = entries[j]

\* What the arrays hold and how far the loops over them have come.
SlotsInv ==
  /\ TypeOK
  /\ KeysFindable
  /\ Paired(entries) /\ Paired(newEntries)
  /\ ProbeInv
  /\ CopiedInv

\* Before it probes for an insertion the table has room for it.
RoomInv == pc = "probe" => length < capacity \div 2

\* The new array has as many entries as were copied.
CopiedCount ==
  Rehashing => Cardinality(Occupied(newEntries)) = Cardinality(CopiedSlots)

\* How many strings and entries there are.
CountInv ==
  /\ LengthExact
  /\ HalfLoad
  /\ RoomInv
  /\ CopiedCount
  /\ NoStringLeak

IInv == SlotsInv /\ CountInv

-----------------------------------------------------------------------------
(* Types *)

\* An array's copies can be counted.
LEMMA CopiesType ==
  ASSUME NEW c \in Nat, NEW arr \in Arrays(c)
  PROVE  CopiesIn(arr) \in Nat
BY OccupiedFinite DEF CopiesIn

\* A fresh array is one, and owns nothing.
LEMMA CallocValue ==
  ASSUME NEW c \in Nat
  PROVE  /\ Calloc(c) \in Arrays(c)
         /\ Occupied(Calloc(c)) = {}
         /\ CopiesIn(Calloc(c)) = 0
<1>1. Calloc(c) \in Arrays(c)
  BY DEF Calloc, Arrays, EmptySlot, Slot
<1>2. Occupied(Calloc(c)) = {}
  BY DEF Calloc, Occupied, EmptySlot
<1>3. CopiesIn(Calloc(c)) = 0
  BY <1>2, FS_EmptySet DEF CopiesIn
<1>4. QED
  BY <1>1, <1>2, <1>3

\* What an entry that cannot be made had copied is what it frees.
LEMMA CleanUp ==
  ASSUME TypeOK, NEW arr, NEW rest \in Int,
         \E copied \in CopiedAtFailure(arr) :
           heap' = heap + copied - FreedAtFailure(copied) - rest
  PROVE  heap' = heap - rest
BY DEF CopiedAtFailure, FreedAtFailure, TypeOK

\* A set that fails in the end leaves as many copies as there were.
LEMMA StoreFailsHeap == TypeOK /\ StoreFails => heap' = heap
BY DEF StoreFails, CopiedAtFailure, FreedAtFailure, TypeOK

\* Every step keeps the types.
LEMMA TypeStep == TypeOK /\ [Next]_vars => TypeOK'
<1> SUFFICES ASSUME TypeOK, [Next]_vars PROVE TypeOK'
  OBVIOUS
<1>1. /\ entries \in Arrays(capacity)
      /\ CopiesIn(entries) \in Nat
  BY CopiesType DEF TypeOK, Arrays
<1>2. ASSUME pc \in {"rehash", "reprobe"}
      PROVE  /\ NewCapacity \in Nat \ {0}
             /\ newEntries \in Arrays(NewCapacity)
             /\ CopiesIn(newEntries) \in Nat
  <2>1. capacity \in Nat \ {0}
    BY <1>2 DEF TypeOK
  <2>2. NewCapacity \in Nat \ {0}
    BY <2>1 DEF NewCapacity
  <2>3. newEntries \in Arrays(NewCapacity)
    BY <1>2 DEF TypeOK, Arrays
  <2>4. QED
    BY <2>2, <2>3, CopiesType
<1>3. CASE Create
  <2>1. entries' \in [0..(capacity' - 1) -> Slot]
    BY <1>3, CallocValue, CapacityAssumption DEF Create, Arrays
  <2>2. QED
    BY <1>3, <2>1, CapacityAssumption
    DEF Create, TypeOK, NoCall, NoTable, GetCalls, SetCalls, Setting, PCs, ProbedArray
<1>4. CASE Destroy
  <2>1. entries' \in [0..(capacity' - 1) -> Slot]
    BY <1>4, CallocValue DEF Destroy, Arrays
  <2>2. heap' \in Int
    BY <1>1, <1>4 DEF Destroy, TypeOK
  <2>3. QED
    BY <1>4, <2>1, <2>2
    DEF Destroy, NoCall, NoTable, TypeOK, GetCalls, SetCalls, Setting, PCs, ProbedArray, Idle
<1>5. CASE \E k \in Keys : GetCall(k)
  <2>1. PICK k \in Keys : GetCall(k)
    BY <1>5
  <2>2. index' \in 0..(capacity - 1)
    BY <2>1, HomeType DEF GetCall, Idle, TypeOK
  <2>3. QED
    BY <2>1, <2>2, NullAssumption
    DEF GetCall, NoCall, NoTable, TypeOK, GetCalls, SetCalls, Setting, PCs, ProbedArray, Idle, NewCapacity
<1>6. CASE \E k \in Keys, v \in Values \cup {Null} : SetCall(k, v)
  <2>1. PICK k \in Keys, v \in Values \cup {Null} : SetCall(k, v)
    BY <1>6
  <2>2. CASE HalfFull
    BY <2>1, <2>2, NullAssumption
    DEF SetCall, NoCall, NoTable, TypeOK, GetCalls, SetCalls, Setting, PCs, ProbedArray, Idle, NewCapacity
  <2>3. CASE ~HalfFull
    <3>1. index' \in 0..(capacity - 1)
      BY <2>1, <2>3, HomeType DEF SetCall, Idle, TypeOK
    <3>2. QED
      BY <2>1, <2>3, <3>1, NullAssumption
      DEF SetCall, NoCall, NoTable, TypeOK, GetCalls, SetCalls, Setting, PCs, ProbedArray, Idle, NewCapacity
  <2>4. QED
    BY <2>2, <2>3
<1>7. CASE ExpandRefused \/ StoreFails
  <2>1. UNCHANGED <<entries, capacity, length, newEntries, source, index, heap>> /\ pc' = "idle"
    BY <1>7, StoreFailsHeap DEF ExpandRefused, StoreFails, Return
  <2>2. pc \in {"expand", "probe"} /\ reply' = Null /\ call' = NoCall
    BY <1>7 DEF ExpandRefused, StoreFails, Return
  <2>3. QED
    BY <2>1, <2>2
    DEF NoCall, NoTable, TypeOK, GetCalls, SetCalls, Setting, PCs, ProbedArray, NewCapacity
<1>8. CASE ExpandStart
  <2>1. NewCapacity \in Nat /\ NewCapacity' = NewCapacity
    BY <1>8 DEF ExpandStart, TypeOK, NewCapacity
  <2>2. newEntries' \in [0..(NewCapacity - 1) -> Slot]
    BY <1>8, <2>1, CallocValue DEF ExpandStart, Arrays
  <2>3. pc = "expand" /\ pc' = "rehash" /\ source' = 0
    BY <1>8 DEF ExpandStart
  <2>4. UNCHANGED <<entries, capacity, length, index, call, reply, heap>>
    BY <1>8 DEF ExpandStart
  <2>5. QED
    BY <2>1, <2>2, <2>3, <2>4
    DEF TypeOK, GetCalls, SetCalls, Setting, PCs, ProbedArray
<1>9. CASE RehashSkip
  BY <1>9 DEF RehashSkip, TypeOK, GetCalls, SetCalls, Setting, PCs, ProbedArray, NewCapacity
<1>10. CASE RehashEntry
  <2>1. RehashKey \in Keys
    BY <1>10 DEF RehashEntry, RehashKey, TypeOK, Slot
  <2>2. index' \in 0..(NewCapacity - 1)
    BY <1>10, <2>1, HomeType DEF RehashEntry, RehashHome, TypeOK, NewCapacity
  <2>3. QED
    BY <1>10, <2>2
    DEF RehashEntry, RehashKey, TypeOK, GetCalls, SetCalls, Setting, PCs, ProbedArray, NewCapacity
<1>11. CASE RehashCollision
  <2>1. index \in 0..(NewCapacity - 1)
    BY <1>2, <1>11 DEF RehashCollision, TypeOK, ProbedArray, Arrays
  <2>2. index' \in 0..(NewCapacity - 1)
    BY <1>2, <1>11, <2>1, FollowingValue DEF RehashCollision
  <2>3. QED
    BY <1>11, <2>2
    DEF RehashCollision, RehashKey, TypeOK, GetCalls, SetCalls, Setting, PCs, ProbedArray, NewCapacity
<1>12. CASE RehashStore
  <2>1. newEntries' \in [0..(NewCapacity - 1) -> Slot]
    <3>1. entries[source] \in Slot
      BY <1>12 DEF RehashStore, TypeOK
    <3>2. QED
      BY <1>2, <1>12, <3>1 DEF RehashStore, Stored, RehashKey, Slot, Arrays
  <2>2. heap' \in Int
    BY <1>12 DEF RehashStore, CopiesAdded, TypeOK
  <2>3. QED
    BY <1>12, <2>1, <2>2
    DEF RehashStore, TypeOK, GetCalls, SetCalls, Setting, PCs, ProbedArray, NewCapacity
<1>13. CASE RehashFails
  <2>1. heap' \in Int
    BY <1>2, <1>13, CleanUp DEF RehashFails, FreedOnFailure, TypeOK
  <2>2. newEntries' \in [0..(0 - 1) -> Slot]
    BY <1>13, CallocValue DEF RehashFails, Arrays
  <2>3. QED
    BY <1>13, <2>1, <2>2
    DEF RehashFails, Return, NoCall, NoTable, TypeOK, GetCalls, SetCalls, Setting, PCs, ProbedArray, NewCapacity
<1>14. CASE Swap
  <2>1. index' \in 0..(NewCapacity - 1)
    BY <1>14, HomeType DEF Swap, TypeOK, GetCalls, SetCalls, Setting, NewCapacity
  <2>2. entries' \in [0..(capacity' - 1) -> Slot]
    BY <1>2, <1>14 DEF Swap, Arrays
  <2>3. newEntries' \in [0..(0 - 1) -> Slot]
    BY <1>14, CallocValue DEF Swap, Arrays
  <2>4. capacity' \in Nat /\ capacity' # 0 /\ heap' \in Int
    BY <1>2, <1>1, <1>14 DEF Swap, TypeOK
  <2>5. DOMAIN entries' = 0..(NewCapacity - 1)
    BY <1>14, <2>2 DEF Swap
  <2>6. QED
    BY <1>14, <2>1, <2>2, <2>3, <2>4, <2>5
    DEF Swap, TypeOK, GetCalls, SetCalls, Setting, PCs, ProbedArray
<1>15. CASE ProbeCollision \/ LookupCollision
  <2>1. pc \in {"probe", "lookup"} /\ index' = Following(index, capacity)
    BY <1>15 DEF ProbeCollision, LookupCollision
  <2>2. UNCHANGED <<entries, capacity, length, newEntries, source, pc, call, reply, heap>>
    BY <1>15 DEF ProbeCollision, LookupCollision
  <2>3. capacity \in Nat \ {0} /\ index \in 0..(capacity - 1)
    BY <2>1 DEF TypeOK, ProbedArray
  <2>4. index' \in 0..(capacity - 1)
    BY <2>1, <2>3, FollowingValue
  <2>5. QED
    BY <2>1, <2>2, <2>4
    DEF TypeOK, GetCalls, SetCalls, Setting, PCs, ProbedArray, NewCapacity
<1>16. CASE Store
  <2>1. entries' \in [0..(capacity - 1) -> Slot]
    BY <1>16 DEF Store, Stored, TypeOK, Slot, GetCalls, SetCalls, Setting
  <2>2. length' \in Nat /\ heap' \in Int
    BY <1>16 DEF Store, LengthAfterStore, CopiesAdded, TypeOK
  <2>3. reply' \in Values \cup {Null}
    BY <1>16 DEF Store, Return, TypeOK, GetCalls, SetCalls, Setting
  <2>4. QED
    BY <1>16, <2>1, <2>2, <2>3
    DEF Store, Return, NoCall, NoTable, TypeOK, GetCalls, SetCalls, Setting, PCs, ProbedArray, NewCapacity
<1>17. CASE LookupEnd
  <2>1. reply' \in Values \cup {Null}
    BY <1>17 DEF LookupEnd, Return, TypeOK, Slot, ProbedArray
  <2>2. QED
    BY <1>17, <2>1
    DEF LookupEnd, Return, NoCall, NoTable, TypeOK, GetCalls, SetCalls, Setting, PCs, ProbedArray, NewCapacity
<1>18. CASE UNCHANGED vars
  BY <1>18 DEF vars, TypeOK, ProbedArray, NewCapacity, RehashKey, Setting
<1>19. QED
  BY <1>3, <1>4, <1>5, <1>6, <1>7, <1>8, <1>9, <1>10, <1>11, <1>12, <1>13,
     <1>14, <1>15, <1>16, <1>17, <1>18
  DEF Next, Step, Expand, Rehash, Probe, Lookup

-----------------------------------------------------------------------------
(* Slots *)

\* What a rehash may rely on.
LEMMA RehashFacts ==
  ASSUME TypeOK, Rehashing
  PROVE  /\ NewCapacity \in Nat \ {0}
         /\ newEntries \in Arrays(NewCapacity)
<1>1. capacity \in Nat \ {0}
  BY DEF TypeOK, Rehashing
<1>2. QED
  BY <1>1 DEF TypeOK, NewCapacity, Rehashing, Arrays

\* An array of empty slots satisfies everything said about arrays.
LEMMA CallocFine ==
  ASSUME NEW c \in Nat
  PROVE  Findable(Calloc(c), c) /\ Paired(Calloc(c))
BY CallocValue DEF Findable, Paired, Calloc, EmptySlot

\* The key of the entry being copied is not in the new array yet.
LEMMA RehashKeyIsNew ==
  ASSUME SlotsInv, pc = "reprobe"
  PROVE  \A i \in 0..(NewCapacity - 1) : newEntries[i].key # RehashKey
<1>1. SUFFICES ASSUME NEW i \in 0..(NewCapacity - 1), newEntries[i].key = RehashKey
               PROVE  FALSE
  OBVIOUS
<1>2. source \in 0..(capacity - 1) /\ RehashKey # Null
  BY DEF SlotsInv, TypeOK
<1>3. i \in Occupied(newEntries)
  BY <1>1, <1>2, RehashFacts DEF SlotsInv, Rehashing, Occupied, Arrays
<1>4. PICK j \in CopiedSlots : newEntries[i] = entries[j]
  BY <1>3 DEF SlotsInv, CopiedInv, Rehashing
<1>5. j < source /\ j \in Occupied(entries)
  BY DEF CopiedSlots
<1>6. source \in Occupied(entries)
  BY <1>2 DEF Occupied, RehashKey, SlotsInv, TypeOK
<1>7. entries[j].key = entries[source].key
  BY <1>1, <1>4 DEF RehashKey
<1>8. j = source
  BY <1>5, <1>6, <1>7 DEF SlotsInv, KeysFindable, Findable
<1>9. QED
  BY <1>2, <1>5, <1>8

\* The steps of a rehash keep the slots in order.
LEMMA RehashSlots == SlotsInv /\ (Expand \/ Rehash) => SlotsInv'
<1> SUFFICES ASSUME SlotsInv, Expand \/ Rehash PROVE SlotsInv'
  OBVIOUS
<1> USE DEF SlotsInv
<1>1. TypeOK'
  BY TypeStep DEF Next, Step
<1>2. CASE ExpandRefused
  BY <1>1, <1>2
  DEF ExpandRefused, Return, KeysFindable, ProbeInv, CopiedInv, Rehashing
<1>3. CASE ExpandStart
  <2>1. NewCapacity \in Nat
    BY DEF TypeOK, NewCapacity
  <2>2. Findable(newEntries', NewCapacity) /\ Paired(newEntries')
    BY <1>3, <2>1, CallocFine DEF ExpandStart
  <2>3. Occupied(newEntries') = {} /\ CopiedSlots' = {}
    BY <1>3, <2>1, CallocValue DEF ExpandStart, CopiedSlots, Occupied, TypeOK
  <2>4. CopiedInv'
    BY <2>3 DEF CopiedInv
  <2>5. KeysFindable' /\ ProbeInv' /\ Paired(entries')
    BY <1>3, <2>2 DEF ExpandStart, KeysFindable, ProbeInv, NewCapacity
  <2>6. QED
    BY <1>1, <2>2, <2>4, <2>5
<1>4. CASE RehashSkip
  <2>1. CopiedSlots' = CopiedSlots
    BY <1>4 DEF RehashSkip, CopiedSlots, Occupied, RehashKey, TypeOK
  <2>2. CopiedInv'
    BY <1>4, <2>1 DEF RehashSkip, CopiedInv, Rehashing
  <2>3. KeysFindable' /\ ProbeInv' /\ Paired(entries') /\ Paired(newEntries')
    BY <1>4 DEF RehashSkip, KeysFindable, ProbeInv, NewCapacity
  <2>4. QED
    BY <1>1, <2>2, <2>3
<1>5. CASE RehashEntry
  <2>1. NewCapacity \in Nat \ {0}
    BY <1>5, RehashFacts DEF RehashEntry, Rehashing
  <2>2. RehashKey \in Keys
    BY <1>5 DEF RehashEntry, RehashKey, TypeOK, Slot
  <2>3. Scanned(newEntries, RehashKey, index', NewCapacity)
    BY <1>5, <2>1, <2>2, ScanStart DEF RehashEntry, RehashHome
  <2>4. ProbeInv'
    BY <1>5, <2>3 DEF RehashEntry, ProbeInv, RehashKey, NewCapacity
  <2>5. KeysFindable' /\ CopiedInv' /\ Paired(entries') /\ Paired(newEntries')
    BY <1>5 DEF RehashEntry, KeysFindable, CopiedInv, CopiedSlots, Rehashing, NewCapacity
  <2>6. QED
    BY <1>1, <2>4, <2>5
<1>6. CASE RehashCollision
  <2>1. NewCapacity \in Nat \ {0} /\ newEntries \in Arrays(NewCapacity)
    BY <1>6, RehashFacts DEF RehashCollision, Rehashing
  <2>2. RehashKey \in Keys
    BY <1>6 DEF RehashCollision, RehashKey, TypeOK, Slot
  <2>3. index \in 0..(NewCapacity - 1)
    BY <1>6, <2>1 DEF RehashCollision, TypeOK, ProbedArray, Arrays
  <2>4. Scanned(newEntries, RehashKey, Following(index, NewCapacity), NewCapacity)
    BY <1>6, <2>1, <2>2, <2>3, ScanNext DEF RehashCollision, Collides, ProbeInv
  <2>5. ProbeInv'
    BY <1>6, <2>4 DEF RehashCollision, ProbeInv, RehashKey, NewCapacity
  <2>6. KeysFindable' /\ CopiedInv' /\ Paired(entries') /\ Paired(newEntries')
    BY <1>6 DEF RehashCollision, KeysFindable, CopiedInv, CopiedSlots, Rehashing, NewCapacity
  <2>7. QED
    BY <1>1, <2>5, <2>6
<1>7. CASE RehashStore
  <2> DEFINE v == entries[source].value
  <2>1. NewCapacity \in Nat \ {0} /\ newEntries \in Arrays(NewCapacity)
    BY <1>7, RehashFacts DEF RehashStore, Rehashing
  <2>2. source \in 0..(capacity - 1) /\ source \in Occupied(entries)
    BY <1>7 DEF RehashStore, TypeOK, RehashKey, Occupied
  <2>3. RehashKey \in Keys /\ v \in Values
    BY <1>7, <2>2 DEF RehashStore, RehashKey, TypeOK, Slot, Paired
  <2>4. index \in 0..(NewCapacity - 1)
    BY <1>7, <2>1 DEF RehashStore, TypeOK, ProbedArray, Arrays
  <2>5. newEntries[index].key \in {Null, RehashKey}
    BY <1>7 DEF RehashStore, Collides
  <2>6. newEntries' = Put(newEntries, index, RehashKey, v)
    BY <1>7 DEF RehashStore, Stored, Put
  <2>7. Findable(newEntries', NewCapacity)
    BY <1>7, <2>1, <2>3, <2>4, <2>5, <2>6, StoredFindable
    DEF RehashStore, KeysFindable, ProbeInv
  <2>8. Occupied(newEntries') = Occupied(newEntries) \cup {index}
    BY <2>1, <2>3, <2>4, <2>6, StoredCount
  <2>9. Paired(newEntries')
    BY <2>1, <2>3, <2>4, <2>6, NullAssumption DEF Paired, Put, Arrays
  <2>10. CopiedSlots' = CopiedSlots \cup {source}
    BY <1>7, <2>2 DEF RehashStore, CopiedSlots, Occupied, TypeOK
  <2>11. newEntries'[index] = entries[source]
    BY <2>1, <2>2, <2>4, <2>6 DEF Put, Arrays, RehashKey, TypeOK, Slot
  <2>12. index \notin Occupied(newEntries)
    BY <1>7, <2>4, <2>5, RehashKeyIsNew DEF RehashStore, Occupied
  <2>13. \A i \in Occupied(newEntries) : newEntries'[i] = newEntries[i]
    BY <2>1, <2>6, <2>12 DEF Put, Arrays, Occupied
  <2>14. CopiedInv'
    <3>1. \A i \in Occupied(newEntries') : \E j \in CopiedSlots' : newEntries'[i] = entries[j]
      BY <1>7, <2>8, <2>10, <2>11, <2>13 DEF RehashStore, CopiedInv, Rehashing
    <3>2. \A j \in CopiedSlots' : \E i \in Occupied(newEntries') : newEntries'[i] = entries[j]
      BY <1>7, <2>8, <2>10, <2>11, <2>13 DEF RehashStore, CopiedInv, Rehashing
    <3>3. entries' = entries
      BY <1>7 DEF RehashStore
    <3>4. QED
      BY <3>1, <3>2, <3>3 DEF CopiedInv
  <2>15. KeysFindable' /\ ProbeInv' /\ Paired(entries')
    BY <1>7, <2>7 DEF RehashStore, KeysFindable, ProbeInv, NewCapacity
  <2>16. QED
    BY <1>1, <2>9, <2>14, <2>15
<1>8. CASE RehashFails
  BY <1>1, <1>8, CallocFine
  DEF RehashFails, Return, KeysFindable, ProbeInv, CopiedInv, Rehashing
<1>9. CASE Swap
  <2>1. NewCapacity \in Nat \ {0}
    BY <1>9, RehashFacts DEF Swap, Rehashing
  <2>2. call.key \in Keys
    BY <1>9 DEF Swap, TypeOK, GetCalls, SetCalls, Setting
  <2>3. Scanned(entries', call.key, index', NewCapacity)
    BY <1>9, <2>1, <2>2, ScanStart DEF Swap
  <2>4. ProbeInv'
    BY <1>9, <2>3 DEF Swap, ProbeInv
  <2>5. KeysFindable' /\ CopiedInv' /\ Paired(entries') /\ Paired(newEntries')
    BY <1>9, CallocFine DEF Swap, KeysFindable, CopiedInv, Rehashing
  <2>6. QED
    BY <1>1, <2>4, <2>5
<1>10. QED
  BY <1>2, <1>3, <1>4, <1>5, <1>6, <1>7, <1>8, <1>9 DEF Expand, Rehash

\* So do the other steps of a call.
LEMMA CallSlots == SlotsInv /\ (Probe \/ Lookup) => SlotsInv'
<1> SUFFICES ASSUME SlotsInv, Probe \/ Lookup PROVE SlotsInv'
  OBVIOUS
<1> USE DEF SlotsInv
<1>1. TypeOK'
  BY TypeStep DEF Next, Step
<1>2. CASE StoreFails \/ LookupEnd
  BY <1>1, <1>2
  DEF StoreFails, LookupEnd, Return, KeysFindable, ProbeInv, CopiedInv, Rehashing
<1>3. /\ capacity \in Nat \ {0}
      /\ entries \in Arrays(capacity)
      /\ call.key \in Keys
      /\ index \in 0..(capacity - 1)
      /\ Scanned(entries, call.key, index, capacity)
      /\ pc \in {"probe", "lookup"}
  <2>1. pc \in {"probe", "lookup"}
    BY DEF Probe, Lookup, ProbeCollision, Store, StoreFails, LookupCollision, LookupEnd
  <2>2. QED
    BY <2>1 DEF TypeOK, Arrays, ProbedArray, GetCalls, SetCalls, Setting, ProbeInv
<1>4. CASE ProbeCollision \/ LookupCollision
  <2>1. Scanned(entries, call.key, Following(index, capacity), capacity)
    BY <1>3, <1>4, ScanNext DEF ProbeCollision, LookupCollision, Collides
  <2>2. ProbeInv'
    BY <1>4, <2>1 DEF ProbeCollision, LookupCollision, ProbeInv
  <2>3. KeysFindable' /\ CopiedInv' /\ Paired(entries') /\ Paired(newEntries')
    BY <1>3, <1>4
    DEF ProbeCollision, LookupCollision, KeysFindable, CopiedInv, Rehashing
  <2>4. QED
    BY <1>1, <2>2, <2>3
<1>5. CASE Store
  <2>1. entries' = Put(entries, index, call.key, call.value) /\ call.value \in Values
    BY <1>5 DEF Store, Stored, Put, TypeOK, GetCalls, SetCalls, Setting
  <2>2. Findable(entries', capacity)
    BY <1>3, <1>5, <2>1, StoredFindable DEF Store, Collides, KeysFindable
  <2>3. Paired(entries')
    BY <1>3, <2>1, NullAssumption DEF Paired, Put, Arrays
  <2>4. KeysFindable' /\ CopiedInv' /\ Paired(newEntries') /\ ProbeInv'
    BY <1>5, <2>2 DEF Store, Return, KeysFindable, CopiedInv, Rehashing, ProbeInv
  <2>5. QED
    BY <1>1, <2>3, <2>4
<1>6. QED
  BY <1>2, <1>4, <1>5 DEF Probe, Lookup

\* And so does a call that starts, or one that makes or frees the table.
LEMMA ClientSlots ==
  SlotsInv /\ ( \/ Create \/ Destroy
               \/ \E k \in Keys : GetCall(k) \/ \E v \in Values \cup {Null} : SetCall(k, v))
  => SlotsInv'
<1> SUFFICES ASSUME SlotsInv,
                    \/ Create \/ Destroy
                    \/ \E k \in Keys : GetCall(k) \/ \E v \in Values \cup {Null} : SetCall(k, v)
             PROVE  SlotsInv'
  OBVIOUS
<1> USE DEF SlotsInv
<1>1. TypeOK'
  BY TypeStep DEF Next
<1>2. CASE Create
  <2>1. Findable(entries', capacity') /\ Paired(entries')
    BY <1>2, CallocFine, CapacityAssumption DEF Create
  <2>2. QED
    BY <1>1, <1>2, <2>1
    DEF Create, KeysFindable, ProbeInv, CopiedInv, Rehashing
<1>3. CASE Destroy
  <2>1. Findable(entries', capacity') /\ Paired(entries')
    BY <1>3, CallocFine DEF Destroy
  <2>2. QED
    BY <1>1, <1>3, <2>1
    DEF Destroy, KeysFindable, ProbeInv, CopiedInv, Rehashing
<1>4. ASSUME NEW k \in Keys, GetCall(k) \/ \E v \in Values \cup {Null} : SetCall(k, v)
      PROVE  SlotsInv'
  <2>1. capacity \in Nat \ {0}
    BY <1>4 DEF GetCall, SetCall, Idle, TypeOK
  <2>2. Scanned(entries, k, Home(k, capacity), capacity)
    BY <2>1, ScanStart
  <2>3. ProbeInv'
    BY <1>4, <2>2 DEF GetCall, SetCall, ProbeInv
  <2>4. KeysFindable' /\ CopiedInv' /\ Paired(entries') /\ Paired(newEntries')
    BY <1>4 DEF GetCall, SetCall, KeysFindable, CopiedInv, Rehashing, Idle
  <2>5. QED
    BY <1>1, <2>3, <2>4
<1>5. QED
  BY <1>2, <1>3, <1>4

-----------------------------------------------------------------------------
(* Counts *)

\* The arrays of a state, with their counts.
LEMMA CountFacts ==
  ASSUME TypeOK
  PROVE  /\ entries \in Arrays(capacity) /\ capacity \in Nat
         /\ Cardinality(Occupied(entries)) \in Nat
         /\ Cardinality(Occupied(newEntries)) \in Nat
         /\ IsFiniteSet(CopiedSlots)
         /\ heap \in Int /\ length \in Nat
<1>1. entries \in Arrays(capacity) /\ capacity \in Nat
  BY DEF TypeOK, Arrays
<1>2. IsFiniteSet(Occupied(entries)) /\ Cardinality(Occupied(entries)) \in Nat
  BY <1>1, OccupiedFinite
<1>3. IsFiniteSet(CopiedSlots)
  <2>1. CopiedSlots \subseteq Occupied(entries)
    BY DEF CopiedSlots
  <2>2. QED
    BY <1>2, <2>1, FS_Subset
<1>4. Cardinality(Occupied(newEntries)) \in Nat
  <2>1. CASE Rehashing
    BY <2>1, RehashFacts, OccupiedFinite
  <2>2. CASE ~Rehashing
    <3>1. newEntries \in Arrays(0)
      BY <2>2 DEF TypeOK, Rehashing, Arrays
    <3>2. QED
      BY <3>1, OccupiedFinite
  <2>3. QED
    BY <2>1, <2>2
<1>5. QED
  BY <1>1, <1>2, <1>3, <1>4 DEF TypeOK

\* Every step keeps the counts right.
LEMMA CountStep == SlotsInv /\ CountInv /\ [Next]_vars => CountInv'
<1> SUFFICES ASSUME SlotsInv, CountInv, [Next]_vars PROVE CountInv'
  OBVIOUS
<1> USE DEF SlotsInv
<1>1. /\ length = Cardinality(Occupied(entries))
      /\ length <= capacity \div 2
      /\ heap = CopiesIn(entries) + CopiesIn(newEntries)
  BY DEF CountInv, LengthExact, HalfLoad, NoStringLeak
<1>2. Rehashing \/ CopiesIn(newEntries) = 0
  <2>1. CASE ~Rehashing
    <3>1. Occupied(newEntries) = {}
      BY <2>1 DEF TypeOK, Rehashing, Occupied
    <3>2. QED
      BY <3>1, FS_EmptySet DEF CopiesIn
  <2>2. QED
    BY <2>1
<1>3. CASE Create
  <2>1. Occupied(entries) = {} /\ CopiesIn(entries) = 0
    <3>1. Occupied(entries) = {}
      BY <1>3 DEF Create, TypeOK, Occupied
    <3>2. QED
      BY <3>1, FS_EmptySet DEF CopiesIn
  <2>2. Cardinality(Occupied(entries')) = 0 /\ CopiesIn(entries') = 0
    BY <1>3, CallocValue, CapacityAssumption, FS_EmptySet DEF Create
  <2>3. 0 <= InitialCapacity \div 2
    BY CapacityAssumption
  <2>4. QED
    BY <1>1, <1>3, <2>1, <2>2, <2>3
    DEF Create, CountInv, LengthExact, HalfLoad, RoomInv, CopiedCount, NoStringLeak, Rehashing
<1>4. CASE Destroy
  <2>1. Cardinality(Occupied(entries')) = 0 /\ CopiesIn(entries') = 0
    BY <1>4, CallocValue, FS_EmptySet DEF Destroy
  <2>2. heap' = CopiesIn(newEntries)
    BY <1>1, <1>4, CountFacts DEF Destroy, CopiesIn
  <2>3. QED
    BY <1>4, <2>1, <2>2
    DEF Destroy, CountInv, LengthExact, HalfLoad, RoomInv, CopiedCount, NoStringLeak, Rehashing
<1>5. CASE \E k \in Keys : GetCall(k) \/ \E v \in Values \cup {Null} : SetCall(k, v)
  <2>1. UNCHANGED <<entries, capacity, length, newEntries, source, heap>> /\ ~Rehashing'
    BY <1>5 DEF GetCall, SetCall, Rehashing
  <2>2. pc' = "probe" => length < capacity \div 2
    BY <1>1, <1>5, CountFacts DEF GetCall, SetCall, HalfFull
  <2>3. QED
    BY <1>1, <2>1, <2>2
    DEF CountInv, LengthExact, HalfLoad, RoomInv, CopiedCount, NoStringLeak
<1>6. CASE ExpandRefused \/ StoreFails \/ LookupEnd \/ ProbeCollision \/ LookupCollision
  BY <1>6, StoreFailsHeap
  DEF ExpandRefused, StoreFails, LookupEnd, ProbeCollision, LookupCollision, Return,
      CountInv, LengthExact, HalfLoad, RoomInv, CopiedCount, NoStringLeak, Rehashing
<1>7. CASE ExpandStart
  <2>1. NewCapacity \in Nat
    BY DEF TypeOK, NewCapacity
  <2>2. Occupied(newEntries') = {} /\ CopiesIn(newEntries') = 0
    BY <1>7, <2>1, CallocValue DEF ExpandStart
  <2>3. CopiedSlots' = {}
    BY <1>7 DEF ExpandStart, CopiedSlots, Occupied, TypeOK
  <2>4. QED
    BY <1>1, <1>2, <1>7, <2>2, <2>3
    DEF ExpandStart, CountInv, LengthExact, HalfLoad, RoomInv, CopiedCount, NoStringLeak, Rehashing
<1>8. CASE RehashSkip
  <2>1. CopiedSlots' = CopiedSlots
    BY <1>8 DEF RehashSkip, CopiedSlots, Occupied, RehashKey, TypeOK
  <2>2. QED
    BY <1>8, <2>1
    DEF RehashSkip, CountInv, LengthExact, HalfLoad, RoomInv, CopiedCount, NoStringLeak, Rehashing
<1>9. CASE RehashEntry \/ RehashCollision
  BY <1>9
  DEF RehashEntry, RehashCollision, CountInv, LengthExact, HalfLoad, RoomInv, CopiedCount,
      CopiedSlots, NoStringLeak, Rehashing
<1>10. CASE RehashStore
  <2> DEFINE v == entries[source].value
  <2>1. NewCapacity \in Nat \ {0} /\ newEntries \in Arrays(NewCapacity)
    BY <1>10, RehashFacts DEF RehashStore, Rehashing
  <2>2. source \in 0..(capacity - 1) /\ source \in Occupied(entries)
    BY <1>10 DEF RehashStore, TypeOK, RehashKey, Occupied
  <2>3. RehashKey \in Keys /\ v \in Values
    BY <1>10, <2>2 DEF RehashStore, RehashKey, TypeOK, Slot, Paired
  <2>4. index \in 0..(NewCapacity - 1)
    BY <1>10, <2>1 DEF RehashStore, TypeOK, ProbedArray, Arrays
  <2>5. newEntries[index].key = Null
    BY <1>10, <2>4, RehashKeyIsNew DEF RehashStore, Collides
  <2>6. newEntries' = Put(newEntries, index, RehashKey, v)
    BY <1>10 DEF RehashStore, Stored, Put
  <2>7. Cardinality(Occupied(newEntries')) = Cardinality(Occupied(newEntries)) + 1
    BY <2>1, <2>3, <2>4, <2>5, <2>6, StoredCount
  <2>8. CopiesIn(newEntries') = CopiesIn(newEntries) + 2
    BY <2>7, CountFacts DEF CopiesIn
  <2>9. CopiedSlots' = CopiedSlots \cup {source} /\ source \notin CopiedSlots
    BY <1>10, <2>2 DEF RehashStore, CopiedSlots, Occupied, TypeOK
  <2>10. Cardinality(CopiedSlots') = Cardinality(CopiedSlots) + 1
    BY <2>9, CountFacts, FS_AddElement
  <2>11. CopiedCount'
    BY <1>10, <2>7, <2>10 DEF RehashStore, CountInv, CopiedCount, Rehashing
  <2>12. NoStringLeak'
    BY <1>1, <1>10, <2>5, <2>8, CountFacts DEF RehashStore, CopiesAdded, NoStringLeak, CopiesIn
  <2>13. QED
    BY <1>1, <1>10, <2>11, <2>12
    DEF RehashStore, CountInv, LengthExact, HalfLoad, RoomInv
<1>11. CASE RehashFails
  <2>1. CopiesIn(newEntries') = 0
    BY <1>11, CallocValue DEF RehashFails
  <2>2. heap' = CopiesIn(entries)
    <3>1. CopiesIn(newEntries) \in Nat
      BY CountFacts DEF CopiesIn
    <3>2. heap' = heap - CopiesIn(newEntries)
      BY <1>11, <3>1, CleanUp DEF RehashFails, FreedOnFailure
    <3>3. QED
      BY <1>1, <3>1, <3>2, CountFacts DEF CopiesIn
  <2>3. NoStringLeak'
    BY <1>11, <2>1, <2>2, CountFacts DEF RehashFails, NoStringLeak, CopiesIn
  <2>4. QED
    BY <1>1, <1>11, <2>3
    DEF RehashFails, Return, CountInv, LengthExact, HalfLoad, RoomInv, CopiedCount, Rehashing
<1>12. CASE Swap
  <2>1. CopiedSlots = Occupied(entries)
    BY <1>12 DEF Swap, RehashDone, CopiedSlots, Occupied, TypeOK
  <2>2. Cardinality(Occupied(newEntries)) = Cardinality(Occupied(entries))
    BY <1>12, <2>1 DEF Swap, Rehashing, CountInv, CopiedCount
  <2>3. LengthExact'
    BY <1>1, <1>12, <2>2 DEF Swap, LengthExact
  <2>4. heap' = CopiesIn(newEntries) /\ CopiesIn(newEntries') = 0
    BY <1>1, <1>12, CountFacts, CallocValue DEF Swap, CopiesIn
  <2>5. NoStringLeak'
    BY <1>12, <2>4, CountFacts DEF Swap, NoStringLeak, CopiesIn
  <2>6. length' < capacity' \div 2
    <3>1. capacity \in Nat \ {0} /\ length \in Nat
      BY <1>12, CountFacts DEF Swap, TypeOK
    <3>2. (2 * capacity) \div 2 = capacity /\ capacity \div 2 < capacity
      BY <3>1
    <3>3. capacity \div 2 \in Nat
      BY <3>1
    <3>4. QED
      BY <1>1, <1>12, <3>1, <3>2, <3>3 DEF Swap, NewCapacity
  <2>7. HalfLoad' /\ RoomInv'
    <3>1. length' \in Nat /\ capacity' \div 2 \in Nat
      BY <1>12, CountFacts DEF Swap, NewCapacity
    <3>2. QED
      BY <2>6, <3>1 DEF HalfLoad, RoomInv
  <2>8. QED
    BY <1>12, <2>3, <2>5, <2>7 DEF Swap, CountInv, CopiedCount, Rehashing
<1>13. CASE Store
  <2>1. /\ capacity \in Nat \ {0}
        /\ entries \in Arrays(capacity)
        /\ call.key \in Keys
        /\ index \in 0..(capacity - 1)
    BY <1>13 DEF Store, TypeOK, Arrays, ProbedArray, GetCalls, SetCalls, Setting
  <2>2. entries' = Put(entries, index, call.key, call.value) /\ call.value \in Values
    BY <1>13 DEF Store, Stored, Put, TypeOK, GetCalls, SetCalls, Setting
  <2>3. Cardinality(Occupied(entries')) =
          Cardinality(Occupied(entries)) + (IF entries[index].key = Null THEN 1 ELSE 0)
    BY <2>1, <2>2, StoredCount
  <2>4. LengthExact'
    BY <1>1, <1>13, <2>3, CountFacts DEF Store, LengthAfterStore, LengthExact
  <2>5. NoStringLeak'
    BY <1>1, <1>13, <2>3, CountFacts DEF Store, CopiesAdded, NoStringLeak, CopiesIn
  <2>6. HalfLoad'
    <3>1. capacity \div 2 \in Nat /\ length \in Nat
      BY <2>1, CountFacts
    <3>2. length < capacity \div 2
      BY <1>13 DEF Store, CountInv, RoomInv
    <3>3. length' \in {length, length + 1} /\ capacity' = capacity
      BY <1>13 DEF Store, LengthAfterStore
    <3>4. QED
      BY <3>1, <3>2, <3>3 DEF HalfLoad
  <2>7. QED
    BY <1>13, <2>4, <2>5, <2>6
    DEF Store, Return, CountInv, RoomInv, CopiedCount, Rehashing
<1>14. CASE UNCHANGED vars
  BY <1>14
  DEF vars, CountInv, LengthExact, HalfLoad, RoomInv, CopiedCount, CopiedSlots, NoStringLeak, Rehashing
<1>15. QED
  BY <1>3, <1>4, <1>5, <1>6, <1>7, <1>8, <1>9, <1>10, <1>11, <1>12, <1>13, <1>14
  DEF Next, Step, Expand, Rehash, Probe, Lookup

\* It holds before the table is made.
LEMMA InitInv == Init => IInv
<1> SUFFICES ASSUME Init PROVE IInv
  OBVIOUS
<1>1. entries \in Arrays(0) /\ newEntries \in Arrays(0)
  BY CallocValue DEF Init
<1>2. TypeOK
  BY <1>1 DEF Init, TypeOK, Arrays, NoCall, NoTable, GetCalls, SetCalls, Setting, PCs
<1>3. SlotsInv
  BY <1>2, CallocFine
  DEF Init, SlotsInv, KeysFindable, ProbeInv, CopiedInv, Rehashing
<1>4. /\ Cardinality(Occupied(entries)) = 0
      /\ CopiesIn(entries) = 0 /\ CopiesIn(newEntries) = 0
  BY CallocValue, FS_EmptySet DEF Init
<1>5. CountInv
  BY <1>4
  DEF Init, CountInv, LengthExact, HalfLoad, RoomInv, CopiedCount, NoStringLeak, Rehashing
<1>6. QED
  BY <1>3, <1>5 DEF IInv

\* Every step keeps the whole of it.
LEMMA InvStep == IInv /\ [Next]_vars => IInv'
<1> SUFFICES ASSUME IInv, [Next]_vars PROVE IInv'
  OBVIOUS
<1>1. CountInv'
  BY CountStep DEF IInv
<1>2. CASE UNCHANGED vars
  <2>1. SlotsInv'
    BY <1>2, TypeStep
    DEF IInv, SlotsInv, vars, KeysFindable, ProbeInv, CopiedInv, CopiedSlots, Rehashing,
        RehashKey, NewCapacity
  <2>2. QED
    BY <1>1, <2>1 DEF IInv
<1>3. CASE Next
  BY <1>1, <1>3, RehashSlots, CallSlots, ClientSlots DEF IInv, Next, Step
<1>4. QED
  BY <1>2, <1>3

-----------------------------------------------------------------------------
(* Theorems *)

\* IInv holds of every reachable state.
THEOREM Invariant == Spec => []IInv
<1>1. Init => IInv
  BY InitInv
<1>2. IInv /\ [Next]_vars => IInv'
  BY InvStep
<1>3. QED
  BY <1>1, <1>2, PTL DEF Spec

\* A probe never leaves its array, and every variable keeps its type.
THEOREM TypeCorrect == Spec => []TypeOK
BY Invariant, PTL DEF IInv, SlotsInv

\* No key is ever lost to a gap or stored twice, in either array.
THEOREM Findability == Spec => []KeysFindable
BY Invariant, PTL DEF IInv, SlotsInv

\* ini_ht_length is the number of keys, whatever fails on the way.
THEOREM Counting == Spec => []LengthExact
BY Invariant, PTL DEF IInv, CountInv

\* At most half the slots are taken, so that every probe meets a free one.
THEOREM Load == Spec => []HalfLoad
BY Invariant, PTL DEF IInv, CountInv

\* No path of ini_ht_set leaks a string or frees one twice.
THEOREM NoLeak == Spec => []NoStringLeak
BY Invariant, PTL DEF IInv, CountInv

-----------------------------------------------------------------------------
(* Refinement *)

\* The value of a key that some slot holds.
LEMMA ContentsAt ==
  ASSUME NEW c \in Nat, NEW arr \in Arrays(c), NEW k \in Keys, NEW i \in 0..(c - 1),
         Findable(arr, c), arr[i].key = k
  PROVE  Contents(arr)[k] = arr[i].value
<1>1. DOMAIN arr = 0..(c - 1) /\ k # Null
  BY NullAssumption DEF Arrays
<1> DEFINE j == CHOOSE n \in DOMAIN arr : arr[n].key = k
<1>2. j \in DOMAIN arr /\ arr[j].key = k
  BY <1>1
<1>3. Contents(arr)[k] = arr[j].value
  BY <1>1 DEF Contents
<1> HIDE DEF j
<1>4. j = i
  BY <1>1, <1>2 DEF Findable, Occupied
<1>5. QED
  BY <1>3, <1>4

\* The value of a key that no slot holds.
LEMMA ContentsNowhere ==
  ASSUME NEW c \in Nat, NEW arr \in Arrays(c), NEW k \in Keys,
         \A i \in 0..(c - 1) : arr[i].key # k
  PROVE  Contents(arr)[k] = Null
BY DEF Contents, Arrays

\* A store at the end of a probe changes the value of its key and no other.
LEMMA ContentsStored ==
  ASSUME NEW c \in Nat \ {0}, NEW k \in Keys, NEW v \in Values,
         NEW arr \in Arrays(c), NEW i \in 0..(c - 1),
         Findable(arr, c), Scanned(arr, k, i, c), arr[i].key \in {Null, k}
  PROVE  Contents(Put(arr, i, k, v)) = [Contents(arr) EXCEPT ![k] = v]
<1> DEFINE new == Put(arr, i, k, v)
<1>1. /\ new \in Arrays(c)
      /\ new[i] = [key |-> k, value |-> v]
      /\ \A j \in 0..(c - 1) : j # i => new[j] = arr[j]
  BY StoredCount DEF Put, Arrays
<1>2. Findable(new, c)
  BY StoredFindable
<1> HIDE DEF new
<1>3. Contents(new)[k] = v
  BY <1>1, <1>2, ContentsAt
<1>4. ASSUME NEW l \in Keys, l # k
      PROVE  Contents(new)[l] = Contents(arr)[l]
  <2>1. CASE \E j \in 0..(c - 1) : arr[j].key = l
    <3>1. PICK j \in 0..(c - 1) : arr[j].key = l
      BY <2>1
    <3>2. j # i
      BY <1>4, <3>1, NullAssumption
    <3>3. Contents(new)[l] = new[j].value
      BY <1>1, <1>2, <3>1, <3>2, ContentsAt
    <3>4. Contents(arr)[l] = arr[j].value
      BY <3>1, ContentsAt
    <3>5. QED
      BY <1>1, <3>2, <3>3, <3>4
  <2>2. CASE \A j \in 0..(c - 1) : arr[j].key # l
    <3>1. \A j \in 0..(c - 1) : new[j].key # l
      BY <1>1, <1>4, <2>2
    <3>2. QED
      BY <1>1, <2>2, <3>1, ContentsNowhere
  <2>3. QED
    BY <2>1, <2>2
<1>5. Contents(new) = [l \in Keys |-> Contents(new)[l]]
  BY DEF Contents
<1>6. [Contents(arr) EXCEPT ![k] = v] =
        [l \in Keys |-> IF l = k THEN v ELSE Contents(arr)[l]]
  BY DEF Contents
<1>7. QED
  BY <1>3, <1>4, <1>5, <1>6 DEF new

\* Two arrays that hold the same entries stand for the same map.
LEMMA ContentsSame ==
  ASSUME NEW c \in Nat, NEW arr \in Arrays(c), Findable(arr, c),
         NEW d \in Nat, NEW brr \in Arrays(d), Findable(brr, d),
         \A i \in Occupied(arr) : \E j \in Occupied(brr) : arr[i] = brr[j],
         \A j \in Occupied(brr) : \E i \in Occupied(arr) : arr[i] = brr[j]
  PROVE  Contents(arr) = Contents(brr)
<1>1. ASSUME NEW k \in Keys
      PROVE  Contents(arr)[k] = Contents(brr)[k]
  <2>1. k # Null
    BY NullAssumption
  <2>2. DOMAIN arr = 0..(c - 1) /\ DOMAIN brr = 0..(d - 1)
    BY DEF Arrays
  <2>3. CASE \E i \in 0..(c - 1) : arr[i].key = k
    <3>1. PICK i \in 0..(c - 1) : arr[i].key = k
      BY <2>3
    <3>2. PICK j \in Occupied(brr) : arr[i] = brr[j]
      BY <2>1, <2>2, <3>1 DEF Occupied
    <3>3. j \in 0..(d - 1) /\ brr[j].key = k
      BY <2>2, <3>1, <3>2 DEF Occupied
    <3>4. QED
      BY <3>1, <3>2, <3>3, ContentsAt
  <2>4. CASE \A i \in 0..(c - 1) : arr[i].key # k
    <3>1. \A j \in 0..(d - 1) : brr[j].key # k
      BY <2>1, <2>2, <2>4 DEF Occupied
    <3>2. QED
      BY <2>4, <3>1, ContentsNowhere
  <2>5. QED
    BY <2>3, <2>4
<1>2. QED
  BY <1>1 DEF Contents

\* An array without slots stands for the empty map.
LEMMA ContentsEmpty ==
  ASSUME NEW c \in Nat
  PROVE  Contents(Calloc(c)) = [k \in Keys |-> Null]
BY NullAssumption DEF Contents, Calloc, EmptySlot

\* Every step is a step of the map or leaves it alone.
LEMMA StepRefines == IInv /\ [Next]_vars => [Map!Next]_Map!mapVars
<1> SUFFICES ASSUME IInv, [Next]_vars PROVE [Map!Next]_Map!mapVars
  OBVIOUS
<1> USE DEF IInv, SlotsInv
<1>1. TypeOK /\ Findable(entries, capacity)
  BY DEF KeysFindable
<1>2. CASE Create
  <2>1. entries = Calloc(0)
    BY <1>1, <1>2 DEF Create, TypeOK, Calloc
  <2>2. Contents(entries') = Contents(entries)
    BY <1>2, <2>1, ContentsEmpty, CapacityAssumption DEF Create
  <2>3. call = NoTable
    BY <1>1, <1>2 DEF Create, TypeOK
  <2>4. QED
    BY <1>2, <2>2, <2>3 DEF Create, NoTable, NoCall, Map!Next, Map!Create, Map!NoMap, Map!NoCall
<1>3. CASE Destroy
  <2>1. Contents(entries') = [k \in Keys |-> Null]
    BY <1>3, ContentsEmpty DEF Destroy
  <2>2. call = NoCall
    BY <1>1, <1>3 DEF Destroy, Idle, TypeOK
  <2>3. QED
    BY <1>3, <2>1, <2>2
    DEF Destroy, NoTable, NoCall, Map!Next, Map!Destroy, Map!NoMap, Map!NoCall, Map!EmptyMap
<1>4. CASE \E k \in Keys : GetCall(k) \/ \E v \in Values \cup {Null} : SetCall(k, v)
  <2>1. call = NoCall
    BY <1>1, <1>4 DEF GetCall, SetCall, Idle, TypeOK
  <2>2. PICK k \in Keys : GetCall(k) \/ \E v \in Values \cup {Null} : SetCall(k, v)
    BY <1>4
  <2>3. GetCall(k) => Map!InvokeGet(k)
    BY <2>1 DEF GetCall, NoCall, Map!InvokeGet, Map!NoCall
  <2>4. \A v \in Values \cup {Null} : SetCall(k, v) => Map!InvokeSet(k, v)
    BY <2>1 DEF SetCall, NoCall, Map!InvokeSet, Map!NoCall
  <2>5. QED
    BY <2>2, <2>3, <2>4 DEF Map!Next
<1>5. CASE ExpandRefused \/ RehashFails \/ StoreFails
  <2>1. call.op = "set"
    BY <1>1, <1>5 DEF ExpandRefused, RehashFails, StoreFails, TypeOK, GetCalls, SetCalls, Setting
  <2>2. QED
    BY <1>5, <2>1
    DEF ExpandRefused, RehashFails, StoreFails, Return, NoCall, Map!Next, Map!RefuseSet, Map!NoCall
<1>6. CASE ExpandStart \/ RehashSkip \/ RehashEntry \/ RehashCollision \/ RehashStore
           \/ ProbeCollision \/ LookupCollision
  BY <1>6
  DEF ExpandStart, RehashSkip, RehashEntry, RehashCollision, RehashStore, ProbeCollision,
      LookupCollision, Map!mapVars
<1>7. CASE Swap
  <2>1. Rehashing /\ source = capacity
    BY <1>7 DEF Swap, Rehashing, RehashDone
  <2>2. NewCapacity \in Nat /\ newEntries \in Arrays(NewCapacity)
    BY <1>1, <2>1, RehashFacts
  <2>3. Findable(newEntries, NewCapacity)
    BY <2>1 DEF KeysFindable, Rehashing
  <2>4. CopiedSlots = Occupied(entries)
    BY <1>1, <2>1 DEF CopiedSlots, Occupied, TypeOK
  <2>5. Contents(newEntries) = Contents(entries)
    BY <1>1, <2>1, <2>2, <2>3, <2>4, CountFacts, ContentsSame DEF CopiedInv
  <2>6. QED
    BY <1>7, <2>5 DEF Swap, Map!mapVars
<1>8. CASE Store \/ LookupEnd
  <2>1. /\ capacity \in Nat \ {0}
        /\ entries \in Arrays(capacity)
        /\ call.key \in Keys
        /\ index \in 0..(capacity - 1)
        /\ Scanned(entries, call.key, index, capacity)
        /\ entries[index].key \in {Null, call.key}
    BY <1>1, <1>8
    DEF Store, LookupEnd, TypeOK, Arrays, ProbedArray, GetCalls, SetCalls, Setting, ProbeInv, Collides
  <2>2. CASE Store
    <3>1. call.op = "set"
      BY <1>1, <2>2 DEF Store, TypeOK, GetCalls, SetCalls, Setting
    <3>2. entries' = Put(entries, index, call.key, call.value) /\ call.value \in Values
      BY <1>1, <2>2 DEF Store, Stored, Put, TypeOK, GetCalls, SetCalls, Setting
    <3>3. Contents(entries') = [Contents(entries) EXCEPT ![call.key] = call.value]
      BY <1>1, <2>1, <3>2, ContentsStored
    <3>4. QED
      BY <2>2, <3>1, <3>3 DEF Store, Return, NoCall, Map!Next, Map!CommitSet, Map!NoCall
  <2>3. CASE LookupEnd
    <3>1. call.op = "get"
      BY <1>1, <2>3 DEF LookupEnd, TypeOK
    <3>2. Contents(entries)[call.key] = entries[index].value
      <4>1. CASE entries[index].key = call.key
        BY <1>1, <2>1, <4>1, ContentsAt
      <4>2. CASE entries[index].key = Null
        <5>1. Contents(entries)[call.key] = Null
          BY <1>1, <2>1, <4>2, Absent, ContentsNowhere
        <5>2. entries[index].value = Null
          BY <2>1, <4>2 DEF Paired, Arrays
        <5>3. QED
          BY <5>1, <5>2
      <4>3. QED
        BY <2>1, <4>1, <4>2
    <3>3. QED
      BY <2>3, <3>1, <3>2 DEF LookupEnd, Return, NoCall, Map!Next, Map!AnswerGet, Map!NoCall
  <2>4. QED
    BY <1>8, <2>2, <2>3
<1>9. CASE UNCHANGED vars
  BY <1>9 DEF vars, Map!mapVars
<1>10. QED
  BY <1>2, <1>3, <1>4, <1>5, <1>6, <1>7, <1>8, <1>9
  DEF Next, Step, Expand, Rehash, Probe, Lookup

\* The table implements the map: what any sequence of calls observes, with
\* allocations failing anywhere, is what a map would have answered.
THEOREM Refinement == Spec => ImplementsMap
<1>1. Init => Map!Init
  BY ContentsEmpty DEF Init, NoTable, Map!Init, Map!EmptyMap, Map!NoMap
<1>2. IInv /\ [Next]_vars => [Map!Next]_Map!mapVars
  BY StepRefines
<1>3. QED
  BY <1>1, <1>2, Invariant, PTL DEF Spec, ImplementsMap, Map!Spec
=============================================================================
