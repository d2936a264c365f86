---------------------------- MODULE MCIniWrapper ----------------------------
(***************************************************************************)
(* IniWrapper with two parsers (and a third context, for what is made      *)
(* before another is freed), two sections and one key.                     *)
(***************************************************************************)
EXTENDS IniWrapper, TLC

CONSTANTS a, b, k, v, w

MCFiles == {(a :> (k :> v)) @@ (b :> Absent), (a :> (k :> w)) @@ (b :> EmptySection)}
\* Contexts are interchangeable, and so are parsers.
Symmetry == Permutations(Contexts) \cup Permutations(Parsers)
=============================================================================
