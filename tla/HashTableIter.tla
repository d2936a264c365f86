---------------------------- MODULE HashTableIter ----------------------------
(***************************************************************************)
(* An iterator over a HashTable that other calls change while it is used.  *)
(* ini_ht_next takes the table's lock for one report only, so ini_ht_set   *)
(* may insert, replace and expand between two reports; the iterator keeps  *)
(* a slot number and nothing that would tell it the slots have moved.      *)
(***************************************************************************)
EXTENDS HashTable

VARIABLES
  it,        \* it._index, once an iterator exists
  present,   \* history: the keys stored when it was made
  reported,  \* history: how often ini_ht_next has reported each key
  ended,     \* history: its last answer was INI_STATUS_ITERATOR_END
  moved      \* history: how often the table has expanded under it

iterVars == <<it, present, reported, ended, moved>>

None == -1
StoredKeys == {entries[i].key : i \in Occupied(entries)}

IterInit ==
  /\ Init
  /\ it = None
  /\ present = {}
  /\ reported = [k \in Keys |-> 0]
  /\ ended = FALSE
  /\ moved = 0

\* ini_ht_iterator; a caller may start over at any time.
Iterator ==
  /\ Idle
  /\ it' = 0
  /\ present' = StoredKeys
  /\ reported' = [k \in Keys |-> 0]
  /\ ended' = FALSE
  /\ moved' = 0
  /\ UNCHANGED vars

Ahead_Exclusive == {i \in Occupied(entries) : i > it}
\* The slots ini_ht_next still has to report.
Ahead == {i \in Occupied(entries) : i >= it}

IndexAfter_Stays(i) == i
IndexAfter(i) == i + 1

\* ini_ht_next finds an entry: the first one ahead.
NextEntry ==
  /\ Idle
  /\ it # None
  /\ \E i \in Ahead :
       /\ \A j \in Ahead : i <= j
       /\ it' = IndexAfter(i)
       /\ reported' = [reported EXCEPT ![entries[i].key] = @ + 1]
  /\ ended' = FALSE
  /\ UNCHANGED <<present, moved>>
  /\ UNCHANGED vars

\* ini_ht_next runs off the end.
NextEnd ==
  /\ Idle
  /\ it # None
  /\ Ahead = {}
  /\ it' = IF it < capacity THEN capacity ELSE it
  /\ ended' = TRUE
  /\ UNCHANGED <<present, reported, moved>>
  /\ UNCHANGED vars

\* Any other call on the table.  Its caller drops the iterator before it
\* destroys the table.
TableStep ==
  /\ Next
  /\ pc' = "absent" => it = None
  /\ moved' = IF it # None /\ capacity' # capacity THEN moved + 1 ELSE moved
  /\ UNCHANGED <<it, present, reported, ended>>

\* The caller is done with its iterator.
Drop ==
  /\ it # None
  /\ it' = None
  /\ present' = {}
  /\ reported' = [k \in Keys |-> 0]
  /\ ended' = FALSE
  /\ moved' = 0
  /\ UNCHANGED vars

IterNext == Iterator \/ NextEntry \/ NextEnd \/ Drop \/ TableStep

IterSpec == IterInit /\ [][IterNext]_<<vars, iterVars>>

\* As in FairSpec, a call in progress goes on.
FairIterSpec == IterSpec /\ WF_<<vars, iterVars>>(Step /\ TableStep)

-----------------------------------------------------------------------------
(* Properties *)

\* ini_ht_next reports a key at most once, and once more for each time that the
\* table has expanded under it and the entries have moved, whatever ini_ht_set
\* inserts and replaces between two reports.  (ini_ht_set expands a half-full
\* table even when the key it stores is already there.)
ReportedOnce == \A k \in Keys : reported[k] <= 1 + moved

\* Unless the table expands under it, an iterator at its end has reported
\* every key that was stored when it was made.
NoneMissed == ended /\ moved = 0 => \A k \in present : reported[k] = 1
=============================================================================
