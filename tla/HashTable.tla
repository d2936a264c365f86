------------------------------ MODULE HashTable ------------------------------
(***************************************************************************)
(* One ini_ht_t of src/ini_hash_table.c: an open-addressing table with     *)
(* linear probing that doubles when it is half full and never deletes a    *)
(* key, from its creation to its destruction, over and over.               *)
(*                                                                         *)
(* Calls run one at a time (the table's mutex is the subject of IniMutex). *)
(* Inside a call every turn of a probe loop and of the rehash loop is a    *)
(* step, because each turn may fail to allocate and leave the call halfway.*)
(* Strings are members of Keys and Values; heap counts the live copies     *)
(* ini_strdup made.                                                        *)
(***************************************************************************)
EXTENDS Integers, FiniteSets

CONSTANTS Keys, Values, Null,
          Hash,             \* hash_key: the 64-bit FNV-1a value of each key
          InitialCapacity,  \* INI_HT_INITIAL_CAPACITY
          MaxCapacity       \* SIZE_MAX / sizeof(ini_ht_key_value_t)

ASSUME NullAssumption == Null \notin Keys /\ Null \notin Values
ASSUME HashAssumption == Hash \in [Keys -> Nat]
ASSUME CapacityAssumption == InitialCapacity \in Nat \ {0} /\ MaxCapacity \in Nat
\* "Must be a power of 2": then hash & (capacity - 1) is hash % capacity.
ASSUME MaskAssumption == \E n \in 0..62 : InitialCapacity = 2^n

VARIABLES
  entries,     \* table->entries
  capacity,    \* table->capacity
  length,      \* table->length
  newEntries,  \* new_entries of __ini_details_ht_expand; no slots outside it
  source,      \* i of its copy loop
  index,       \* index of the probe loop in progress
  pc,          \* where the call in progress is
  call,        \* the call in progress and its arguments
  reply,       \* what the last finished call returned
  heap         \* live string copies

vars == <<entries, capacity, length, newEntries, source, index, pc, call, reply, heap>>

-----------------------------------------------------------------------------
(* Slot arrays *)

Slot == [key : Keys \cup {Null}, value : Values \cup {Null}]
EmptySlot == [key |-> Null, value |-> Null]
Calloc(c) == [i \in 0..(c - 1) |-> EmptySlot]
Occupied(arr) == {i \in DOMAIN arr : arr[i].key # Null}

Home_NoMask(k, c) == Hash[k]
\* Where the probe for k starts in an array of c slots.
Home(k, c) == Hash[k] % c

Following_NoWrap(i, c) == IF i + 1 < c THEN i + 1 ELSE i
Following(i, c) == (i + 1) % c

\* The slot the probe stands on is taken by another key.
Collides(arr, k) == arr[index].key \notin {Null, k}

\* __ini_details_ht_set_entry at the end of its probe: replace or insert.
Stored(arr, k, v) == [arr EXCEPT ![index] = [key |-> k, value |-> v]]

\* A replaced value is freed, so only an insertion adds live copies.
CopiesAdded(arr) == IF arr[index].key = Null THEN 2 ELSE 0

\* What it has copied when ini_strdup fails: nothing, or the key of a new entry.
CopiedAtFailure(arr) == IF arr[index].key = Null THEN {0, 1} ELSE {0}

FreedAtFailure_Nothing(copied) == 0
\* free(new_key)
FreedAtFailure(copied) == copied

\* The copies an array of entries owns.
CopiesIn(arr) == 2 * Cardinality(Occupied(arr))

-----------------------------------------------------------------------------
(* Calls *)

NoCall == [op |-> "none", key |-> Null, value |-> Null]
NoTable == [op |-> "absent", key |-> Null, value |-> Null]
Idle == pc = "idle"
Busy == pc \notin {"absent", "idle"}

Return(r) ==
  /\ reply' = r
  /\ call' = NoCall
  /\ pc' = "idle"

Init ==
  /\ entries = Calloc(0)
  /\ capacity = 0
  /\ length = 0
  /\ newEntries = Calloc(0)
  /\ source = 0
  /\ index = 0
  /\ pc = "absent"
  /\ call = NoTable
  /\ reply = Null
  /\ heap = 0

\* ini_ht_create when its allocations succeed; else there is still no table.
Create ==
  /\ pc = "absent"
  /\ entries' = Calloc(InitialCapacity)
  /\ capacity' = InitialCapacity
  /\ length' = 0
  /\ pc' = "idle"
  /\ call' = NoCall
  /\ UNCHANGED <<newEntries, source, index, reply, heap>>

\* ini_ht_destroy: the strings, the slots, then the table itself.
Destroy ==
  /\ Idle
  /\ heap' = heap - CopiesIn(entries)
  /\ entries' = Calloc(0)
  /\ capacity' = 0
  /\ length' = 0
  /\ pc' = "absent"
  /\ call' = NoTable
  /\ UNCHANGED <<newEntries, source, index, reply>>

HalfFull_Late == length > capacity \div 2
HalfFull_WhenFull == length >= capacity
HalfFull == length >= capacity \div 2

\* ini_ht_set, up to the choice between expanding and probing at once.  The
\* table expands before it is known whether the key is already there.
SetCall(k, v) ==
  /\ Idle
  /\ call' = [op |-> "set", key |-> k, value |-> v]
  /\ IF HalfFull
     THEN pc' = "expand" /\ UNCHANGED index
     ELSE pc' = "probe" /\ index' = Home(k, capacity)
  /\ UNCHANGED <<entries, capacity, length, newEntries, source, reply, heap>>

NewCapacity == 2 * capacity

\* __ini_details_ht_expand: the size check or calloc fails.
ExpandRefused ==
  /\ pc = "expand"
  /\ Return(Null)
  /\ UNCHANGED <<entries, capacity, length, newEntries, source, index, heap>>

ExpandStart ==
  /\ pc = "expand"
  /\ NewCapacity <= MaxCapacity
  /\ newEntries' = Calloc(NewCapacity)
  /\ source' = 0
  /\ pc' = "rehash"
  /\ UNCHANGED <<entries, capacity, length, index, call, reply, heap>>

RehashKey == entries[source].key

RehashSkip ==
  /\ pc = "rehash"
  /\ source < capacity
  /\ RehashKey = Null
  /\ source' = source + 1
  /\ UNCHANGED <<entries, capacity, length, newEntries, index, pc, call, reply, heap>>

RehashHome_OldMask == Home(RehashKey, capacity)
RehashHome == Home(RehashKey, NewCapacity)

RehashEntry ==
  /\ pc = "rehash"
  /\ source < capacity
  /\ RehashKey # Null
  /\ index' = RehashHome
  /\ pc' = "reprobe"
  /\ UNCHANGED <<entries, capacity, length, newEntries, source, call, reply, heap>>

RehashCollision ==
  /\ pc = "reprobe"
  /\ Collides(newEntries, RehashKey)
  /\ index' = Following(index, NewCapacity)
  /\ UNCHANGED <<entries, capacity, length, newEntries, source, pc, call, reply, heap>>

RehashStore ==
  /\ pc = "reprobe"
  /\ ~Collides(newEntries, RehashKey)
  /\ newEntries' = Stored(newEntries, RehashKey, entries[source].value)
  /\ heap' = heap + CopiesAdded(newEntries)
  /\ source' = source + 1
  /\ pc' = "rehash"
  /\ UNCHANGED <<entries, capacity, length, index, call, reply>>

FreedOnFailure_Nothing == 0
\* The cleanup loop over j frees whatever the new array owns.
FreedOnFailure == CopiesIn(newEntries)

\* ini_strdup fails while copying an entry: the new array is thrown away.
RehashFails ==
  /\ pc = "reprobe"
  /\ ~Collides(newEntries, RehashKey)
  /\ \E copied \in CopiedAtFailure(newEntries) :
       heap' = heap + copied - FreedAtFailure(copied) - FreedOnFailure
  /\ newEntries' = Calloc(0)
  /\ Return(Null)
  /\ UNCHANGED <<entries, capacity, length, source, index>>

RehashDone_OffByOne == source = capacity - 1
RehashDone == source = capacity

\* The old array is freed, the new one takes its place, and ini_ht_set
\* probes it for the key it was called with.
Swap ==
  /\ pc = "rehash"
  /\ RehashDone
  /\ heap' = heap - CopiesIn(entries)
  /\ entries' = newEntries
  /\ capacity' = NewCapacity
  /\ newEntries' = Calloc(0)
  /\ index' = Home(call.key, NewCapacity)
  /\ pc' = "probe"
  /\ UNCHANGED <<length, source, call, reply>>

ProbeCollision ==
  /\ pc = "probe"
  /\ Collides(entries, call.key)
  /\ index' = Following(index, capacity)
  /\ UNCHANGED <<entries, capacity, length, newEntries, source, pc, call, reply, heap>>

LengthAfterStore_EveryStore == length + 1
LengthAfterStore == IF entries[index].key = Null THEN length + 1 ELSE length

Store ==
  /\ pc = "probe"
  /\ ~Collides(entries, call.key)
  /\ call.value # Null
  /\ entries' = Stored(entries, call.key, call.value)
  /\ length' = LengthAfterStore
  /\ heap' = heap + CopiesAdded(entries)
  /\ Return(call.value)
  /\ UNCHANGED <<capacity, newEntries, source, index>>

\* ini_strdup returns NULL for the key or the value; it always does for a
\* null value.
StoreFails ==
  /\ pc = "probe"
  /\ ~Collides(entries, call.key)
  /\ \E copied \in CopiedAtFailure(entries) : heap' = heap + copied - FreedAtFailure(copied)
  /\ Return(Null)
  /\ UNCHANGED <<entries, capacity, length, newEntries, source, index>>

\* ini_ht_get
GetCall(k) ==
  /\ Idle
  /\ call' = [op |-> "get", key |-> k, value |-> Null]
  /\ index' = Home(k, capacity)
  /\ pc' = "lookup"
  /\ UNCHANGED <<entries, capacity, length, newEntries, source, reply, heap>>

LookupCollision ==
  /\ pc = "lookup"
  /\ Collides(entries, call.key)
  /\ index' = Following(index, capacity)
  /\ UNCHANGED <<entries, capacity, length, newEntries, source, pc, call, reply, heap>>

\* An empty slot holds Null, which is what ini_ht_get answers for it.
LookupEnd ==
  /\ pc = "lookup"
  /\ ~Collides(entries, call.key)
  /\ Return(entries[index].value)
  /\ UNCHANGED <<entries, capacity, length, newEntries, source, index, heap>>

Expand == ExpandRefused \/ ExpandStart
Rehash == \/ RehashSkip \/ RehashEntry \/ RehashCollision
          \/ RehashStore \/ RehashFails \/ Swap
Probe == ProbeCollision \/ Store \/ StoreFails
Lookup == LookupCollision \/ LookupEnd

\* The steps of a call in progress.
Step == Expand \/ Rehash \/ Probe \/ Lookup

Next ==
  \/ Create \/ Destroy
  \/ \E k \in Keys : GetCall(k) \/ \E v \in Values \cup {Null} : SetCall(k, v)
  \/ Step

Spec == Init /\ [][Next]_vars

\* A call runs on its caller's thread until it returns.
FairSpec == Spec /\ WF_vars(Step)

-----------------------------------------------------------------------------
(* Properties *)

Setting == pc \in {"expand", "rehash", "reprobe", "probe"}
PCs == {"absent", "idle", "expand", "rehash", "reprobe", "probe", "lookup"}
GetCalls == [op : {"get"}, key : Keys, value : {Null}]
SetCalls == [op : {"set"}, key : Keys, value : Values \cup {Null}]

\* The array the probe in progress walks over.
ProbedArray == IF pc = "reprobe" THEN newEntries ELSE entries

\* Every variable has its type; a probe in progress stands on a slot of the
\* array it walks (an index past the end is an out-of-bounds read), and the
\* entry being rehashed exists.
TypeOK ==
  /\ capacity \in Nat
  /\ capacity = 0 <=> pc = "absent"
  /\ entries \in [0..(capacity - 1) -> Slot]
  /\ length \in Nat
  /\ newEntries \in [0..((IF pc \in {"rehash", "reprobe"} THEN NewCapacity ELSE 0) - 1) -> Slot]
  /\ source \in Nat
  /\ pc \in {"rehash"} => source <= capacity
  /\ pc = "reprobe" => source < capacity /\ RehashKey # Null
  /\ index \in Nat
  /\ pc \in {"reprobe", "probe", "lookup"} => index \in DOMAIN ProbedArray
  /\ pc \in PCs
  /\ pc = "absent" => call = NoTable
  /\ pc = "idle" => call = NoCall
  /\ pc = "lookup" => call \in GetCalls
  /\ Setting => call \in SetCalls
  /\ reply \in Values \cup {Null}
  /\ heap \in Int

\* How many turns a probe that starts at a takes to reach b among c slots.
Distance(a, b, c) == IF a <= b THEN b - a ELSE b - a + c

\* A probe for any stored key reaches it: no empty slot lies between the
\* key's home and the slot that holds it, and it is stored once.
Findable(arr, c) ==
  \A i \in Occupied(arr) :
     /\ \A j \in Occupied(arr) : arr[j].key = arr[i].key => j = i
     /\ \A j \in DOMAIN arr :
          LET h == Home(arr[i].key, c) IN
          Distance(h, j, c) < Distance(h, i, c) => arr[j].key # Null

\* What the probe loops rely on, in the live array and in the one being
\* filled: a gap would make ini_ht_get miss a key and ini_ht_set store it twice.
KeysFindable ==
  /\ Findable(entries, capacity)
  /\ pc \in {"rehash", "reprobe"} => Findable(newEntries, NewCapacity)

\* table->length counts the stored keys through updates, failed stores,
\* failed and successful expansions.
LengthExact == length = Cardinality(Occupied(entries))

\* At most half the slots are taken, so that a probe loop, which stops only
\* at the key or at an empty slot, stops.
HalfLoad == length <= capacity \div 2

\* The string copies alive are exactly those the arrays own: whichever of the
\* allocations of ini_ht_set fails, and however many had succeeded, those that
\* went into no table are freed, once.
NoStringLeak == heap = CopiesIn(entries) + CopiesIn(newEntries)

\* The map a table stands for.
Contents(arr) ==
  [k \in Keys |->
     IF \E i \in DOMAIN arr : arr[i].key = k
     THEN arr[CHOOSE i \in DOMAIN arr : arr[i].key = k].value
     ELSE Null]

\* The table implements the map of StringMap: a set that fails, before,
\* during or after an expansion, changes nothing a get could see.
Map == INSTANCE StringMap WITH map <- Contents(entries)
ImplementsMap == Map!Spec

\* Every call of ini_ht_set and ini_ht_get returns.
CallsReturn == Busy ~> Idle
=============================================================================
