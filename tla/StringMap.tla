------------------------------ MODULE StringMap ------------------------------
(***************************************************************************)
(* What a table of src/ini_hash_table.c is to its users, without slots,    *)
(* hashing or memory: a map from keys to values, created empty, changed by *)
(* ini_ht_set and read by ini_ht_get, one call at a time.  A call is       *)
(* pending from its invocation until it replies; a set either takes effect *)
(* and replies with the value it was given, or has no effect on the map    *)
(* and replies Null.                                                       *)
(*                                                                         *)
(* It departs from include/ini_hash_table.h:78 in that reply: the header   *)
(* promises the "Previous value (if key existed), or NULL".                *)
(***************************************************************************)
CONSTANTS Keys,    \* strings used as keys
          Values,  \* strings used as values
          Null     \* the C null pointer

VARIABLES map,     \* map[k]: the value stored under k, or Null
          call,    \* the call in progress
          reply    \* what the last finished call returned

mapVars == <<map, call, reply>>

EmptyMap == [k \in Keys |-> Null]
NoCall == [op |-> "none", key |-> Null, value |-> Null]
NoMap == [op |-> "absent", key |-> Null, value |-> Null]

Init ==
  /\ map = EmptyMap
  /\ call = NoMap
  /\ reply = Null

Create ==
  /\ call = NoMap
  /\ call' = NoCall
  /\ UNCHANGED <<map, reply>>

Destroy ==
  /\ call = NoCall
  /\ map' = EmptyMap
  /\ call' = NoMap
  /\ UNCHANGED reply

InvokeSet(k, v) ==
  /\ call = NoCall
  /\ call' = [op |-> "set", key |-> k, value |-> v]
  /\ UNCHANGED <<map, reply>>

InvokeGet(k) ==
  /\ call = NoCall
  /\ call' = [op |-> "get", key |-> k, value |-> Null]
  /\ UNCHANGED <<map, reply>>

\* The set takes effect, and replies with what is now stored, never with what
\* was; a null value is never stored.
CommitSet ==
  /\ call.op = "set"
  /\ call.value # Null
  /\ map' = [map EXCEPT ![call.key] = call.value]
  /\ reply' = call.value
  /\ call' = NoCall

\* The set fails (out of memory, table at its limit, null value).
RefuseSet ==
  /\ call.op = "set"
  /\ reply' = Null
  /\ call' = NoCall
  /\ UNCHANGED map

AnswerGet ==
  /\ call.op = "get"
  /\ reply' = map[call.key]
  /\ call' = NoCall
  /\ UNCHANGED map

Next ==
  \/ Create \/ Destroy
  \/ \E k \in Keys : InvokeGet(k) \/ \E v \in Values \cup {Null} : InvokeSet(k, v)
  \/ CommitSet \/ RefuseSet \/ AnswerGet

Spec == Init /\ [][Next]_mapVars
=============================================================================
