------------------------------ MODULE IniStore ------------------------------
(***************************************************************************)
(* What include/ini_parser.h promises of a context, with its pointers,     *)
(* its lock and its allocations left out: a map from section names to maps *)
(* from keys to values, which is emptied as a whole and filled section by  *)
(* section and pair by pair, and read one pair at a time.                  *)
(***************************************************************************)
CONSTANTS
  Readers, Names, Keys, Values,
  Null       \* no value, and none of Values (IniContext assumes it)

VARIABLES
  store,     \* section name -> its pairs; Absent if there is no such section
  answer     \* the value a reader was last given, or Null

storeVars == <<store, answer>>

Absent == [k \in {} |-> Null]
NoPairs == [k \in Keys |-> Null]
Empty == [n \in Names |-> Absent]

StoreInit ==
  /\ store = Empty
  /\ answer \in [Readers -> {Null}]

Clear == store' = Empty /\ UNCHANGED answer

Open(n) ==
  /\ store[n] = Absent
  /\ store' = [store EXCEPT ![n] = NoPairs]
  /\ UNCHANGED answer

Put(n, k, v) ==
  /\ store[n] # Absent
  /\ store' = [store EXCEPT ![n][k] = v]
  /\ UNCHANGED answer

\* What is stored under the name and the key.
Stored(n, k) == IF store[n] = Absent THEN Null ELSE store[n][k]

\* A reader is given what is stored, or nothing: there may be no memory for it.
Get(r, n, k) ==
  /\ answer' = [answer EXCEPT ![r] = Stored(n, k)] \/ answer' = [answer EXCEPT ![r] = Null]
  /\ UNCHANGED store

StoreNext ==
  \/ Clear
  \/ \E n \in Names : Open(n)
  \/ \E n \in Names, k \in Keys, v \in Values : Put(n, k, v)
  \/ \E r \in Readers, n \in Names, k \in Keys : Get(r, n, k)

StoreSpec == StoreInit /\ [][StoreNext]_storeVars
=============================================================================
