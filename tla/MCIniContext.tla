---------------------------- MODULE MCIniContext ----------------------------
(***************************************************************************)
(* IniContext with small files.  Between two opens the file turns into     *)
(* another one, so that ini_load also parses what ini_good would refuse.   *)
(***************************************************************************)
EXTENDS IniContext

CONSTANTS a, b, k, v, w

MCNames == {Global, a, b}

\* The same key in two sections, and twice in one.
TwoSections == <<Header(a), Pair(k, v), Header(b), Pair(k, w), Pair(k, v)>>
\* Its section comes twice, and has a pair the second time.
Repeated == <<Header(a), Blank, Header(a), Pair(k, v)>>
\* Not valid: a key before the first header; text and a header without its
\* end; nothing at all.
Headless == <<Pair(k, v), Header(b), Pair(k, w)>>
Malformed == <<Text, Header(a), Pair(k, w), Broken>>
Empty == <<>>

ValidFiles == {TwoSections, Repeated}
AllFiles == ValidFiles \cup {Headless, Malformed, Empty}
RepeatedOnly == {Repeated}
=============================================================================
