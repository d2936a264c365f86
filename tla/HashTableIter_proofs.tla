------------------------ MODULE HashTableIter_proofs ------------------------
(***************************************************************************)
(* Proofs about HashTableIter.  As long as the table keeps its capacity an *)
(* entry stays in its slot, so the slots behind the iterator are those it  *)
(* has reported since the last expansion, or that were filled behind its   *)
(* back.                                                                   *)
(***************************************************************************)
EXTENDS HashTableIter, HashTable_proofs

IterTypes ==
  /\ TypeOK
  /\ it \in Nat \cup {None}
  /\ present \subseteq Keys
  /\ reported \in [Keys -> Nat]
  /\ ended \in BOOLEAN
  /\ moved \in Nat

\* What has been reported, slot by slot, before the first expansion.
StillInv ==
  it # None /\ moved = 0 =>
    /\ \A k \in present : \E i \in Occupied(entries) : entries[i].key = k
    /\ \A i \in Occupied(entries) : i < it /\ entries[i].key \in present => reported[entries[i].key] = 1
    /\ ended => it >= capacity

\* A key ahead of the iterator, or not in the table, has not been reported
\* since the last expansion.
AheadInv ==
  it # None =>
    /\ \A i \in Occupied(entries) : i >= it => reported[entries[i].key] <= moved
    /\ \A k \in Keys \ StoredKeys : reported[k] <= moved
    /\ ReportedOnce

\* Without an iterator there is nothing to tell.
NoIterator == it = None => moved = 0 /\ ~ended /\ reported = [k \in Keys |-> 0]

IterInv ==
  /\ IInv
  /\ IterTypes
  /\ StillInv
  /\ AheadInv
  /\ NoIterator

\* A step of the table that leaves its capacity alone moves no entry: it
\* changes no slot's key, or fills one slot with a key that was not stored.
LEMMA SlotsStandStill ==
  ASSUME IInv, Next, capacity' = capacity, pc' # "absent"
  PROVE  \/ /\ Occupied(entries') = Occupied(entries)
            /\ \A i \in Occupied(entries) : entries'[i].key = entries[i].key
         \/ \E n \in 0..(capacity - 1) :
              /\ n \notin Occupied(entries)
              /\ Occupied(entries') = Occupied(entries) \cup {n}
              /\ \A i \in Occupied(entries) : entries'[i] = entries[i]
              /\ entries'[n].key \in Keys \ StoredKeys
<1> USE DEF IInv, SlotsInv
<1>1. CASE UNCHANGED entries
  BY <1>1
<1>2. CASE Store
  <2>1. /\ capacity \in Nat \ {0}
        /\ entries \in Arrays(capacity)
        /\ call.key \in Keys /\ call.value \in Values
        /\ index \in 0..(capacity - 1)
        /\ Scanned(entries, call.key, index, capacity)
        /\ Findable(entries, capacity)
        /\ entries[index].key \in {Null, call.key}
    BY <1>2
    DEF Store, TypeOK, Arrays, ProbedArray, SetCalls, Setting, ProbeInv, Collides, KeysFindable
  <2>2. entries' = Put(entries, index, call.key, call.value)
    BY <1>2 DEF Store, Stored, Put
  <2>3. Occupied(entries') = Occupied(entries) \cup {index}
    BY <2>1, <2>2, StoredCount
  <2>4. /\ entries'[index].key = call.key
        /\ \A i \in 0..(capacity - 1) : i # index => entries'[i] = entries[i]
    BY <2>1, <2>2 DEF Put, Arrays
  <2>5. Occupied(entries) \subseteq 0..(capacity - 1)
    BY <2>1 DEF Occupied, Arrays
  <2>6. CASE entries[index].key = call.key
    BY <2>1, <2>3, <2>4, <2>5, <2>6, NullAssumption DEF Occupied, Arrays
  <2>7. CASE entries[index].key = Null
    <3>1. \A j \in 0..(capacity - 1) : entries[j].key # call.key
      BY <2>1, <2>7, Absent
    <3>2. call.key \notin StoredKeys
      BY <2>5, <3>1 DEF StoredKeys
    <3>3. index \notin Occupied(entries)
      BY <2>7 DEF Occupied
    <3>4. QED
      BY <2>1, <2>3, <2>4, <2>5, <3>2, <3>3
  <2>8. QED
    BY <2>1, <2>6, <2>7
<1>3. CASE Create
  BY <1>3, CapacityAssumption DEF Create, TypeOK
<1>4. CASE Swap
  BY <1>4 DEF Swap, NewCapacity, TypeOK
<1>5. CASE Destroy
  BY <1>5 DEF Destroy
<1>6. QED
  BY <1>1, <1>2, <1>3, <1>4, <1>5
  DEF Next, GetCall, SetCall, Step, Expand, Rehash, Probe, Lookup, ExpandRefused, ExpandStart,
      RehashSkip, RehashEntry, RehashCollision, RehashStore, RehashFails, ProbeCollision,
      StoreFails, LookupCollision, LookupEnd

\* Every step keeps the iterator's invariant.
LEMMA IterStep == IterInv /\ [IterNext]_<<vars, iterVars>> => IterInv'
<1> SUFFICES ASSUME IterInv, [IterNext]_<<vars, iterVars>> PROVE IterInv'
  OBVIOUS
<1> USE DEF IterInv, IterTypes, None
<1>1. IInv'
  <2>1. [Next]_vars
    BY DEF IterNext, Iterator, NextEntry, NextEnd, Drop, TableStep, vars, iterVars
  <2>2. QED
    BY <2>1, InvStep
<1>2. TypeOK'
  BY <1>1 DEF IInv, SlotsInv
<1>3. /\ Occupied(entries) \subseteq 0..(capacity - 1)
      /\ entries \in Arrays(capacity)
      /\ capacity \in Nat
  BY DEF TypeOK, Occupied, Arrays
<1>4. \A i \in Occupied(entries) : entries[i].key \in Keys
  BY <1>3 DEF Occupied, Arrays, Slot
<1>5. StoredKeys \subseteq Keys
  BY <1>4 DEF StoredKeys
<1>6. CASE Iterator
  <2>1. entries' = entries /\ capacity' = capacity
    BY <1>6 DEF Iterator, vars
  <2>2. StillInv'
    BY <1>3, <1>4, <1>6, <2>1 DEF Iterator, StillInv, StoredKeys
  <2>3. AheadInv'
    BY <1>4, <1>6, <2>1 DEF Iterator, AheadInv, ReportedOnce
  <2>4. QED
    BY <1>1, <1>2, <1>5, <1>6, <2>2, <2>3 DEF Iterator, NoIterator
<1>7. CASE NextEntry
  <2>1. entries' = entries /\ capacity' = capacity /\ present' = present /\ moved' = moved
    BY <1>7 DEF NextEntry, vars
  <2>2. PICK i \in Ahead :
          /\ \A j \in Ahead : i <= j
          /\ it' = i + 1
          /\ reported' = [reported EXCEPT ![entries[i].key] = @ + 1]
    BY <1>7 DEF NextEntry, IndexAfter
  <2>3. i \in Occupied(entries) /\ i >= it /\ i \in Nat
    BY <1>3 DEF Ahead
  <2> DEFINE k == entries[i].key
  <2>4. k \in Keys /\ k \in StoredKeys
    BY <1>4, <2>3 DEF StoredKeys
  <2>5. it \in Nat /\ ended' = FALSE
    BY <1>7 DEF NextEntry
  <2>6. \A j \in Occupied(entries) : entries[j].key = k => j = i
    BY <2>3 DEF IInv, SlotsInv, KeysFindable, Findable
  <2>7. reported' \in [Keys -> Nat]
    BY <2>2, <2>4
  <2>8. /\ reported'[k] = reported[k] + 1
        /\ \A l \in Keys : l # k => reported'[l] = reported[l]
    BY <2>2, <2>4
  <2>9. \A j \in Occupied(entries) :
          /\ j \in Nat /\ entries[j].key \in Keys
          /\ j < i => j < it
          /\ j # i => reported'[entries[j].key] = reported[entries[j].key]
    BY <1>3, <1>4, <2>2, <2>3, <2>5, <2>6, <2>8 DEF Ahead
  <2>10. StoredKeys' = StoredKeys
    BY <2>1 DEF StoredKeys
  <2>11. reported[k] <= moved
    BY <2>3, <2>5 DEF AheadInv
  <2> HIDE DEF k
  <2>12. StillInv'
    <3>1. SUFFICES ASSUME moved = 0
                   PROVE  StillInv'
      BY <2>1 DEF StillInv
    <3>2. reported'[k] = 1
      BY <2>4, <2>8, <2>11, <3>1
    <3>3. ASSUME NEW j \in Occupied(entries), j < i + 1, entries[j].key \in present
          PROVE  reported'[entries[j].key] = 1
      <4>1. CASE j = i
        BY <3>2, <4>1 DEF k
      <4>2. CASE j # i
        BY <2>3, <2>5, <2>9, <3>1, <3>3, <4>2 DEF StillInv
      <4>3. QED
        BY <4>1, <4>2
    <3>4. QED
      BY <2>1, <2>2, <2>5, <3>1, <3>3 DEF StillInv
  <2>13. AheadInv'
    <3>1. ASSUME NEW j \in Occupied(entries), j >= i + 1
          PROVE  reported'[entries[j].key] <= moved
      BY <2>3, <2>5, <2>9, <3>1 DEF AheadInv
    <3>2. ASSUME NEW l \in Keys \ StoredKeys
          PROVE  reported'[l] <= moved
      BY <2>4, <2>5, <2>8 DEF AheadInv
    <3>3. ASSUME NEW l \in Keys
          PROVE  reported'[l] <= 1 + moved
      BY <2>4, <2>5, <2>8, <2>11 DEF AheadInv, ReportedOnce
    <3>4. QED
      BY <2>1, <2>2, <2>10, <3>1, <3>2, <3>3 DEF AheadInv, ReportedOnce
  <2>14. NoIterator'
    BY <2>2, <2>3 DEF NoIterator
  <2>15. it' \in Nat /\ moved' \in Nat /\ present' \subseteq Keys
    BY <2>1, <2>2, <2>3
  <2>16. QED
    BY <1>1, <1>2, <2>5, <2>7, <2>12, <2>13, <2>14, <2>15
<1>8. CASE NextEnd
  <2>1. UNCHANGED <<entries, capacity, present, reported, moved>> /\ ended' = TRUE
    BY <1>8 DEF NextEnd, vars
  <2>2. it \in Nat /\ it' \in Nat /\ it' >= it /\ it' >= capacity
    BY <1>3, <1>8 DEF NextEnd
  <2>3. \A i \in Occupied(entries) : i < it /\ i \in Nat
    BY <1>3, <1>8, <2>2 DEF NextEnd, Ahead
  <2>4. \A i \in Occupied(entries) : i < it' /\ ~(i >= it')
    BY <2>2, <2>3
  <2>5. StoredKeys' = StoredKeys
    BY <2>1 DEF StoredKeys
  <2>6. StillInv'
    BY <2>1, <2>2, <2>3, <2>4 DEF StillInv
  <2>7. AheadInv'
    BY <2>1, <2>2, <2>4, <2>5 DEF AheadInv, ReportedOnce
  <2>8. QED
    BY <1>1, <1>2, <2>1, <2>2, <2>6, <2>7 DEF NoIterator
<1>9. CASE Drop
  BY <1>1, <1>2, <1>9 DEF Drop, StillInv, AheadInv, NoIterator
<1>10. CASE TableStep
  <2>1. UNCHANGED <<it, present, reported, ended>>
    BY <1>10 DEF TableStep
  <2>2. moved' \in {moved, moved + 1} /\ moved' \in Nat /\ NoIterator'
    BY <1>10, <2>1 DEF TableStep, NoIterator
  <2>3. CASE it = None
    BY <1>1, <1>2, <2>1, <2>2, <2>3 DEF StillInv, AheadInv
  <2>4. CASE it # None /\ capacity' # capacity
    <3>1. moved' = moved + 1
      BY <1>10, <2>4 DEF TableStep
    <3>2. \A k \in Keys : reported[k] <= moved'
      BY <2>4, <3>1 DEF AheadInv, ReportedOnce
    <3>3. \A i \in Occupied(entries') : entries'[i].key \in Keys
      BY <1>2 DEF TypeOK, Occupied, Slot
    <3>4. AheadInv'
      BY <2>1, <2>2, <3>2, <3>3 DEF AheadInv, ReportedOnce
    <3>5. StillInv'
      BY <3>1 DEF StillInv
    <3>6. QED
      BY <1>1, <1>2, <2>1, <2>2, <3>4, <3>5
  <2>5. CASE it # None /\ capacity' = capacity
    <3>1. moved' = moved /\ pc' # "absent"
      BY <1>10, <2>5 DEF TableStep
    <3>2. CASE /\ Occupied(entries') = Occupied(entries)
               /\ \A i \in Occupied(entries) : entries'[i].key = entries[i].key
      <4>1. StoredKeys' = StoredKeys
        BY <3>2 DEF StoredKeys
      <4>2. StillInv'
        BY <2>1, <2>5, <3>1, <3>2 DEF StillInv
      <4>3. AheadInv'
        BY <2>1, <2>5, <3>1, <3>2, <4>1 DEF AheadInv, ReportedOnce
      <4>4. QED
        BY <1>1, <1>2, <2>1, <2>2, <4>2, <4>3
    <3>3. ASSUME NEW n \in 0..(capacity - 1), n \notin Occupied(entries),
                 Occupied(entries') = Occupied(entries) \cup {n},
                 \A i \in Occupied(entries) : entries'[i] = entries[i],
                 entries'[n].key \in Keys \ StoredKeys
          PROVE  IterInv'
      <4>1. StoredKeys' = StoredKeys \cup {entries'[n].key}
        BY <3>3 DEF StoredKeys
      <4>2. reported[entries'[n].key] <= moved
        BY <2>5, <3>3 DEF AheadInv
      <4>3. AheadInv'
        BY <2>1, <2>5, <3>1, <3>3, <4>1, <4>2 DEF AheadInv, ReportedOnce
      <4>4. moved = 0 => entries'[n].key \notin present
        BY <2>5, <3>3 DEF StillInv, StoredKeys
      <4>5. StillInv'
        BY <2>1, <2>5, <3>1, <3>3, <4>4 DEF StillInv
      <4>6. QED
        BY <1>1, <1>2, <2>1, <2>2, <4>3, <4>5
    <3>4. QED
      BY <1>10, <2>5, <3>1, <3>2, <3>3, SlotsStandStill DEF TableStep
  <2>6. QED
    BY <2>3, <2>4, <2>5
<1>11. CASE UNCHANGED <<vars, iterVars>>
  BY <1>1, <1>2, <1>11 DEF vars, iterVars, StillInv, AheadInv, ReportedOnce, NoIterator, StoredKeys
<1>12. QED
  BY <1>6, <1>7, <1>8, <1>9, <1>10, <1>11 DEF IterNext

\* IterInv holds of every reachable state.
THEOREM IterInvariant == IterSpec => []IterInv
<1>1. IterInit => IterInv
  <2> SUFFICES ASSUME IterInit PROVE IterInv
    OBVIOUS
  <2>1. IInv
    BY InitInv DEF IterInit
  <2>2. TypeOK
    BY <2>1 DEF IInv, SlotsInv
  <2>3. QED
    BY <2>1, <2>2 DEF IterInit, IterInv, IterTypes, StillInv, AheadInv, NoIterator, None
<1>2. QED
  BY <1>1, IterStep, PTL DEF IterSpec

\* An iteration reports no key twice between two expansions, whatever
\* ini_ht_set stores between two reports.
THEOREM NoRepetition == IterSpec => []ReportedOnce
<1>1. IterInv => ReportedOnce
  <2> SUFFICES ASSUME IterInv PROVE ReportedOnce
    OBVIOUS
  <2>1. CASE it = None
    BY <2>1 DEF IterInv, NoIterator, ReportedOnce
  <2>2. CASE it # None
    BY <2>2 DEF IterInv, AheadInv
  <2>3. QED
    BY <2>1, <2>2
<1>2. QED
  BY <1>1, IterInvariant, PTL

\* When it ends it has reported every key that was there when it began, if no
\* expansion came between.
THEOREM Iteration == IterSpec => []NoneMissed
<1>1. IterInv => NoneMissed
  <2> SUFFICES ASSUME IterInv, ended, moved = 0, NEW k \in present
               PROVE  reported[k] = 1
    BY DEF NoneMissed
  <2>1. it # None
    BY DEF IterInv, NoIterator
  <2>2. PICK i \in Occupied(entries) : entries[i].key = k
    BY <2>1 DEF IterInv, StillInv
  <2>3. i \in 0..(capacity - 1) /\ capacity \in Nat /\ it \in Nat /\ it >= capacity
    BY <2>1, <2>2
    DEF IterInv, StillInv, IterTypes, None, IInv, SlotsInv, TypeOK, Occupied
  <2>4. QED
    BY <2>1, <2>2, <2>3 DEF IterInv, StillInv
<1>2. QED
  BY <1>1, IterInvariant, PTL
=============================================================================
