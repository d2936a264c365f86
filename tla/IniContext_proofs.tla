-------------------------- MODULE IniContext_proofs --------------------------
(***************************************************************************)
(* Proofs about IniContext, for any names, keys, values, addresses and     *)
(* files.  Types, and that the sections own their tables, hold for any     *)
(* number of threads that load the context at once; the rest holds if they *)
(* take turns, as README_CPP.md asks of writers: if they do not, a second  *)
(* load clears the context before the first parses.                        *)
(***************************************************************************)
EXTENDS IniContext, WellFoundedInduction, TLAPS

\* Calls of ini_load do not overlap; readers come whenever they like.
LoadsTakeTurns == \A s, t \in Loaders : pc[s] # "idle" /\ pc[t] # "idle" => s = t

\* Nobody is in a call without a context, nor with the one of a load that
\* was given NULL but that load.
AloneInv ==
  /\ ~exists => NobodyInside /\ ~private
  /\ private => \A s, t \in Threads : pc[s] # "idle" /\ pc[t] # "idle" => s = t

\* What holds however many threads load.
OwnInv ==
  /\ TypeOK
  /\ AloneInv
  /\ SectionsOwnTables
  /\ \A t \in Threads : current[t] # Null => pc[t] \in {"parse", "undefined"}
  /\ \A t \in Threads : current[t] \in Addresses => pc[t] = "parse"

\* The headers before line i, and the section of the next line to come.
Headers(f, i) == {j \in 1..(i - 1) : f[j].kind = "header"}
Here == SectionOf(loaded, Len(loaded) + 1)

\* Where a thread that loads is, and what it has put into the context.
PhaseInv ==
  /\ ~exists => sections = NoTable /\ loaded = <<>>
  /\ \A t \in Loaders : pc[t] \in {"open", "relock"} => sections = NoSections /\ loaded = <<>>
  /\ \A t \in Loaders : pc[t] = "parse" => DOMAIN sections = Names
  /\ \A t \in Loaders : pc[t] = "parse" /\ current[t] = Null =>
       sections = NoSections /\ Headers(loaded, Len(loaded) + 1) = {}

\* The table that pairs go to is that of the section the file is in, unless
\* its address could not be stored.
CurrentInv ==
  \A t \in Loaders : current[t] \in Addresses =>
    /\ \A n \in Names : sections[n] = current[t] => n = Here
    /\ ~fault => Here \in Names /\ sections[Here] = current[t]

LoadInv == OwnInv /\ PhaseInv /\ CurrentInv /\ LeakedIsLost /\ ContextIsPrefix /\ NothingInvented

-----------------------------------------------------------------------------
(* The greatest of some numbers *)

Below == OpToRel(<, Nat)

LEMMA BelowWellFounded == IsWellFoundedOn(Below, Nat)
BY NatLessThanWellFounded DEF Below

LEMMA BelowIs == \A x, y \in Nat : x < y => <<x, y>> \in Below
BY DEF Below, OpToRel

LEMMA MaxExists ==
  ASSUME NEW n \in Nat, NEW S \in SUBSET (1..n), S # {}
  PROVE  Max(S) \in S /\ \A y \in S : y <= Max(S)
<1> DEFINE T == {n - y : y \in S}
<1>1. T \subseteq Nat /\ T # {}
  <2>1. ASSUME NEW y \in S PROVE n - y \in Nat
    OBVIOUS
  <2>2. PICK y \in S : TRUE
    OBVIOUS
  <2>3. n - y \in T
    OBVIOUS
  <2>4. T \subseteq Nat
    BY <2>1
  <2>5. QED
    BY <2>3, <2>4
<1>2. PICK x \in T : \A y \in T : ~(<<y, x>> \in Below)
  <2> HIDE DEF T
  <2> QED
    BY <1>1, BelowWellFounded, WFMin
<1>3. PICK m \in S : x = n - m
  BY <1>2
<1>4. ASSUME NEW y \in S PROVE m >= y
  <2>1. n - y \in T /\ n - y \in Nat /\ n - m \in Nat
    OBVIOUS
  <2>2. ~(n - y < n - m)
    BY <2>1, <1>2, <1>3, BelowIs
  <2>3. QED
    BY <2>2
<1>5. \E z \in S : \A y \in S : z >= y
  BY <1>4
<1>6. Max(S) \in S /\ \A y \in S : Max(S) >= y
  BY <1>5 DEF Max
<1>7. QED
  BY <1>6

LEMMA MaxIs ==
  ASSUME NEW S \in SUBSET Nat, NEW x \in S, \A y \in S : y <= x
  PROVE  Max(S) = x
<1>1. \A y \in S : x >= y
  OBVIOUS
<1>2. \A z \in S : (\A y \in S : z >= y) => z = x
  BY <1>1
<1>3. Max(S) \in S /\ \A y \in S : Max(S) >= y
  BY <1>1 DEF Max
<1>4. QED
  BY <1>2, <1>3

-----------------------------------------------------------------------------
(* What one more line adds to the meaning of a file *)

LEMMA LineParts ==
  ASSUME NEW l \in Line
  PROVE  /\ l.kind = "header" => l.name \in Names
         /\ l.kind = "pair" => l.key \in Keys /\ l.value \in Values
BY DEF Line, Blank, Broken, Text, Other

LEMMA AppendKeeps ==
  ASSUME NEW f \in Seq(Line), NEW l \in Line
  PROVE  \A i \in 1..Len(f) : Append(f, l)[i] = f[i]
OBVIOUS

LEMMA SectionIs ==
  ASSUME NEW f, NEW i
  PROVE  SectionOf(f, i) = IF Headers(f, i) = {} THEN Global ELSE f[Max(Headers(f, i))].name
BY DEF SectionOf, Headers

LEMMA HeadersAppend ==
  ASSUME NEW f \in Seq(Line), NEW l \in Line
  PROVE  /\ \A i \in 1..(Len(f) + 1) : Headers(Append(f, l), i) = Headers(f, i)
         /\ Headers(Append(f, l), Len(f) + 2) =
              Headers(f, Len(f) + 1) \cup (IF l.kind = "header" THEN {Len(f) + 1} ELSE {})
<1> DEFINE g == Append(f, l)
<1>1. /\ Len(f) \in Nat
      /\ \A j \in 1..Len(f) : g[j] = f[j]
      /\ g[Len(f) + 1] = l
  OBVIOUS
<1> HIDE DEF g
<1>2. ASSUME NEW i \in 1..(Len(f) + 1) PROVE Headers(g, i) = Headers(f, i)
  BY <1>1 DEF Headers
<1>3. Headers(g, Len(f) + 2) = Headers(f, Len(f) + 1) \cup (IF l.kind = "header" THEN {Len(f) + 1} ELSE {})
  <2>1. (Len(f) + 2) - 1 = Len(f) + 1 /\ (Len(f) + 1) - 1 = Len(f)
    BY <1>1
  <2>2. 1..(Len(f) + 1) = 1..Len(f) \cup {Len(f) + 1}
    BY <1>1
  <2>3. Headers(g, Len(f) + 2) = {j \in 1..(Len(f) + 1) : g[j].kind = "header"}
    BY <2>1 DEF Headers
  <2>4. Headers(f, Len(f) + 1) = {j \in 1..Len(f) : f[j].kind = "header"}
    BY <2>1 DEF Headers
  <2>5. QED
    BY <1>1, <2>2, <2>3, <2>4
<1>4. QED
  BY <1>2, <1>3 DEF g

\* A line does not change the section of those before it, nor its own.
LEMMA SectionKept ==
  ASSUME NEW f \in Seq(Line), NEW l \in Line, NEW i \in 1..(Len(f) + 1)
  PROVE  SectionOf(Append(f, l), i) = SectionOf(f, i)
<1>1. Headers(Append(f, l), i) = Headers(f, i)
  BY HeadersAppend
<1>2. CASE Headers(f, i) = {}
  BY <1>1, <1>2, SectionIs
<1>3. CASE Headers(f, i) # {}
  <2>1. Headers(f, i) \in SUBSET (1..Len(f)) /\ Len(f) \in Nat
    BY DEF Headers
  <2>2. Max(Headers(f, i)) \in 1..Len(f)
    BY <1>3, <2>1, MaxExists
  <2>3. Append(f, l)[Max(Headers(f, i))] = f[Max(Headers(f, i))]
    BY <2>2
  <2>4. QED
    BY <1>1, <1>3, <2>3, SectionIs
<1>4. QED
  BY <1>2, <1>3

\* After a header, its section; after any other line, the same as before.
LEMMA SectionAfter ==
  ASSUME NEW f \in Seq(Line), NEW l \in Line
  PROVE  SectionOf(Append(f, l), Len(Append(f, l)) + 1) =
           IF l.kind = "header" THEN l.name ELSE SectionOf(f, Len(f) + 1)
<1> DEFINE g == Append(f, l)
<1>1. /\ Len(f) \in Nat /\ Len(g) + 1 = Len(f) + 2
      /\ \A j \in 1..Len(f) : g[j] = f[j]
      /\ g[Len(f) + 1] = l
  OBVIOUS
<1>2. Headers(g, Len(f) + 2) = Headers(f, Len(f) + 1) \cup (IF l.kind = "header" THEN {Len(f) + 1} ELSE {})
  BY HeadersAppend
<1>3. Headers(f, Len(f) + 1) \in SUBSET (1..Len(f))
  BY <1>1 DEF Headers
<1>4. SectionOf(g, Len(g) + 1) =
        IF Headers(g, Len(f) + 2) = {} THEN Global ELSE g[Max(Headers(g, Len(f) + 2))].name
  BY <1>1, SectionIs
<1>5. SectionOf(f, Len(f) + 1) =
        IF Headers(f, Len(f) + 1) = {} THEN Global ELSE f[Max(Headers(f, Len(f) + 1))].name
  BY SectionIs
<1> HIDE DEF g
<1>6. CASE l.kind = "header"
  <2> DEFINE S == Headers(g, Len(f) + 2)
  <2>1. S \in SUBSET Nat /\ Len(f) + 1 \in S /\ \A y \in S : y <= Len(f) + 1
    BY <1>1, <1>2, <1>3, <1>6
  <2>2. Max(S) = Len(f) + 1
    <3> HIDE DEF S
    <3> QED
      BY <2>1, MaxIs
  <2>3. QED
    BY <1>1, <1>4, <1>6, <2>1, <2>2 DEF g
<1>7. CASE l.kind # "header"
  <2>1. Headers(g, Len(f) + 2) = Headers(f, Len(f) + 1)
    BY <1>2, <1>7
  <2>2. CASE Headers(f, Len(f) + 1) = {}
    BY <1>4, <1>5, <1>7, <2>1, <2>2 DEF g
  <2>3. CASE Headers(f, Len(f) + 1) # {}
    <3>1. Max(Headers(f, Len(f) + 1)) \in 1..Len(f)
      BY <1>1, <1>3, <2>3, MaxExists
    <3>2. g[Max(Headers(f, Len(f) + 1))] = f[Max(Headers(f, Len(f) + 1))]
      BY <1>1, <3>1
    <3>3. QED
      BY <1>4, <1>5, <1>7, <2>1, <2>3, <3>2 DEF g
  <2>4. QED
    BY <2>2, <2>3
<1>8. QED
  BY <1>6, <1>7

\* The line l assigns key k of section n, after the lines f.
Assigns(f, l, n, k) == l.kind = "pair" /\ l.key = k /\ SectionOf(f, Len(f) + 1) = n

LEMMA AssigningAppend ==
  ASSUME NEW f \in Seq(Line), NEW l \in Line, NEW n, NEW k
  PROVE  /\ Assigning(f, n, k) \in SUBSET (1..Len(f))
         /\ Assigning(Append(f, l), n, k) =
              Assigning(f, n, k) \cup (IF Assigns(f, l, n, k) THEN {Len(f) + 1} ELSE {})
<1> DEFINE g == Append(f, l)
<1>1. /\ Len(f) \in Nat /\ DOMAIN f = 1..Len(f) /\ DOMAIN g = 1..Len(f) \cup {Len(f) + 1}
      /\ \A j \in 1..Len(f) : g[j] = f[j]
      /\ g[Len(f) + 1] = l
  OBVIOUS
<1>2. \A i \in 1..(Len(f) + 1) : SectionOf(g, i) = SectionOf(f, i)
  BY SectionKept
<1> HIDE DEF g
<1>3. \A i \in 1..Len(f) : i \in Assigning(g, n, k) <=> i \in Assigning(f, n, k)
  <2>1. \A i \in 1..Len(f) : i \in 1..(Len(f) + 1)
    BY <1>1
  <2>2. QED
    BY <1>1, <1>2, <2>1 DEF Assigning
<1>4. Len(f) + 1 \in Assigning(g, n, k) <=> Assigns(f, l, n, k)
  <2>1. Len(f) + 1 \in 1..(Len(f) + 1)
    BY <1>1
  <2>2. QED
    BY <1>1, <1>2, <2>1 DEF Assigning, Assigns
<1>5. Assigning(f, n, k) \subseteq 1..Len(f) /\ Assigning(g, n, k) \subseteq 1..Len(f) \cup {Len(f) + 1}
  BY <1>1 DEF Assigning
<1>6. QED
  BY <1>3, <1>4, <1>5 DEF g

\* The last assignment wins.
LEMMA MeaningAppend ==
  ASSUME NEW f \in Seq(Line), NEW l \in Line, NEW n, NEW k
  PROVE  Meaning(Append(f, l), n, k) = IF Assigns(f, l, n, k) THEN l.value ELSE Meaning(f, n, k)
<1> DEFINE g == Append(f, l)
           A == Assigning(f, n, k)
           B == Assigning(g, n, k)
<1>1. /\ Len(f) \in Nat
      /\ \A j \in 1..Len(f) : g[j] = f[j]
      /\ g[Len(f) + 1] = l
  OBVIOUS
<1>2. /\ A \in SUBSET (1..Len(f))
      /\ B = A \cup (IF Assigns(f, l, n, k) THEN {Len(f) + 1} ELSE {})
  BY AssigningAppend
<1>3. /\ Meaning(f, n, k) = IF A = {} THEN Null ELSE f[Max(A)].value
      /\ Meaning(g, n, k) = IF B = {} THEN Null ELSE g[Max(B)].value
  BY DEF Meaning
<1> HIDE DEF A, B, g
<1>4. CASE Assigns(f, l, n, k)
  <2>1. B = A \cup {Len(f) + 1}
    BY <1>2, <1>4
  <2>2. \A y \in 1..Len(f) \cup {Len(f) + 1} : y \in Nat /\ y <= Len(f) + 1
    BY <1>1
  <2>3. B \in SUBSET Nat /\ Len(f) + 1 \in Nat /\ Len(f) + 1 \in B /\ \A y \in B : y <= Len(f) + 1
    BY <1>1, <1>2, <2>1, <2>2
  <2>4. Max(B) = Len(f) + 1
    BY <2>3, MaxIs
  <2>5. QED
    BY <1>1, <1>3, <1>4, <2>3, <2>4 DEF g
<1>5. CASE ~Assigns(f, l, n, k)
  <2>1. B = A
    BY <1>2, <1>5
  <2>2. CASE A = {}
    BY <1>3, <1>5, <2>1, <2>2 DEF g
  <2>3. CASE A # {}
    <3>1. Max(A) \in 1..Len(f)
      BY <1>1, <1>2, <2>3, MaxExists
    <3>2. g[Max(A)] = f[Max(A)]
      BY <1>1, <3>1
    <3>3. QED
      BY <1>3, <1>5, <2>1, <2>3, <3>2 DEF g
  <2>4. QED
    BY <2>2, <2>3
<1>6. QED
  BY <1>4, <1>5

-----------------------------------------------------------------------------
(* Types, and whose the tables are: any number of loaders *)

LEMMA TableTypes ==
  /\ EmptyTable \in [Keys -> Values \cup {Null}]
  /\ \A f \in [Keys -> Values \cup {Null}] : f # Free
BY KeysAssumption DEF EmptyTable, Free

LEMMA SectionsTypes ==
  ASSUME TypeOK
  PROVE  /\ NoSections \in [Names -> Addresses \cup {Null}]
         /\ \A n \in DOMAIN sections : n \in Names /\ sections[n] \in Addresses \cup {Null}
         /\ \A n : SectionAt(n) \in Addresses \cup {Null}
         /\ Referenced \subseteq Addresses
         /\ \A a \in Live : a \in Addresses /\ tables[a] \in [Keys -> Values \cup {Null}]
         /\ \A a \in Addresses : a \in Live <=> tables[a] # Free
<1>1. \A n \in DOMAIN sections : n \in Names /\ sections[n] \in Addresses \cup {Null}
  BY DEF TypeOK, NoTable
<1>2. QED
  BY <1>1 DEF TypeOK, NoSections, SectionAt, Referenced, Live

LEMMA DestroyedIs ==
  /\ Destroyed = [a \in Addresses |-> IF a \in Referenced THEN Free ELSE tables[a]]
  /\ TypeOK => Destroyed \in [Addresses -> [Keys -> Values \cup {Null}] \cup {Free}]
BY DEF Destroyed, Freed, TypeOK

\* A load that returns leaves the context as it is, or its own one ends: the
\* tables are freed, or nobody has their addresses any more.
LEMMA FinishIs ==
  ASSUME NEW s, Finish(s)
  PROVE  \/ UNCHANGED <<exists, private, sections, tables, loaded, fault, lost>>
         \/ /\ private /\ exists' = FALSE /\ private' = FALSE
            /\ sections' = NoTable /\ loaded' = <<>> /\ fault' = FALSE
            /\ \/ tables' = Destroyed /\ UNCHANGED lost
               \/ UNCHANGED tables /\ lost' = lost \cup Referenced
BY DEF Finish, DestroyedOnError

LEMMA FinishTypes ==
  ASSUME TypeOK, NEW s, Finish(s)
  PROVE  /\ exists' \in BOOLEAN /\ private' \in BOOLEAN /\ fault' \in BOOLEAN
         /\ sections' \in [Names -> Addresses \cup {Null}] \cup {NoTable}
         /\ tables' \in [Addresses -> [Keys -> Values \cup {Null}] \cup {Free}]
         /\ loaded' \in Seq(Line)
         /\ lost' \subseteq Addresses
<1>1. CASE UNCHANGED <<exists, private, sections, tables, loaded, fault, lost>>
  BY <1>1 DEF TypeOK
<1>2. CASE /\ exists' = FALSE /\ private' = FALSE
           /\ sections' = NoTable /\ loaded' = <<>> /\ fault' = FALSE
           /\ \/ tables' = Destroyed /\ UNCHANGED lost
              \/ UNCHANGED tables /\ lost' = lost \cup Referenced
  <2>1. tables' \in [Addresses -> [Keys -> Values \cup {Null}] \cup {Free}]
    BY <1>2, DestroyedIs DEF TypeOK
  <2>2. lost' \subseteq Addresses
    BY <1>2, SectionsTypes DEF TypeOK
  <2>3. loaded' \in Seq(Line)
    BY <1>2
  <2>4. QED
    BY <1>2, <2>1, <2>2, <2>3
<1>3. QED
  BY <1>1, <1>2, FinishIs

\* A thread goes from one place to another that does not need the lock.
LEMMA GotoTypes ==
  ASSUME TypeOK, NEW t \in Threads, NEW l \in PCs, Goto(t, l), holder' = holder,
         l \in {"parse", "undefined"} <=> pc[t] \in {"parse", "undefined"}
  PROVE  /\ pc' \in [Threads -> PCs]
         /\ \A u \in Threads : holder' = u <=> pc'[u] \in {"parse", "undefined"}
BY DEF TypeOK, Goto

\* A thread that has the lock leaves ini_load.
LEMMA LeaveTypes ==
  ASSUME TypeOK, NEW t \in Threads, NEW s, pc[t] = "parse", Leave(t, s)
  PROVE  /\ holder' = NoThread /\ pc' \in [Threads -> PCs] /\ pc'[t] = "idle"
         /\ \A u \in Threads : holder' = u <=> pc'[u] \in {"parse", "undefined"}
         /\ rest' \in [Threads -> Seq(Line)]
         /\ current' \in [Threads -> Addresses \cup {Null, Wild}]
         /\ current' = [current EXCEPT ![t] = Null]
         /\ \A u \in Threads : pc'[u] = IF u = t THEN "idle" ELSE pc[u]
<1>1. /\ holder' = NoThread
      /\ pc' = [pc EXCEPT ![t] = "idle"]
      /\ rest' = [rest EXCEPT ![t] = <<>>]
      /\ current' = [current EXCEPT ![t] = Null]
  BY DEF Leave, HolderAfterLoad, Return, Goto
<1>2. pc' \in [Threads -> PCs] /\ \A u \in Threads : pc'[u] = IF u = t THEN "idle" ELSE pc[u]
  BY <1>1 DEF TypeOK, PCs
<1>3. holder = t
  BY DEF TypeOK
<1>4. ASSUME NEW u \in Threads PROVE ~(holder' = u) /\ pc'[u] \notin {"parse", "undefined"}
  BY <1>1, <1>2, <1>3, ThreadsAssumption DEF TypeOK
<1>5. <<>> \in Seq(Line)
  OBVIOUS
<1>6. QED
  BY <1>1, <1>2, <1>4, <1>5 DEF TypeOK

\* The next line is a line, and a line is put after those loaded.
LEMMA ReadsTypes ==
  ASSUME TypeOK, NEW t \in Threads, NEW kind, Reads(t, kind)
  PROVE  /\ pc[t] = "parse" /\ Head(rest[t]) \in Line /\ Head(rest[t]).kind = kind
         /\ Tail(rest[t]) \in Seq(Line)
         /\ Append(loaded, Head(rest[t])) \in Seq(Line)
<1>1. rest[t] \in Seq(Line) /\ rest[t] # <<>>
  BY DEF TypeOK, Reads
<1>2. QED
  BY <1>1 DEF Reads, TypeOK

LEMMA AdvanceTypes ==
  ASSUME TypeOK, NEW t \in Threads, NEW kind, Reads(t, kind), Advance(t)
  PROVE  /\ rest' \in [Threads -> Seq(Line)]
         /\ loaded' = Append(loaded, Head(rest[t]))
         /\ loaded' \in Seq(Line)
BY ReadsTypes DEF Advance, TypeOK

\* Opening a section: where its table goes, and what becomes of its address.
LEMMA OpenSectionIs ==
  ASSUME TypeOK, NEW t \in Threads, NEW n \in Names, OpenSection(t, n)
  PROVE  \E a \in Addresses :
           /\ tables[a] = Free
           /\ tables' = [tables EXCEPT ![a] = EmptyTable]
           /\ current' = [current EXCEPT ![t] = a]
           /\ \/ /\ n \in DOMAIN sections
                 /\ sections' = [sections EXCEPT ![n] = a]
                 /\ sections' \in [Names -> Addresses \cup {Null}]
                 /\ UNCHANGED <<fault, lost>>
              \/ fault' = TRUE /\ lost' = lost \cup {a} /\ UNCHANGED sections
<1>1. PICK a \in Addresses :
        /\ Allocates(a)
        /\ tables' = [tables EXCEPT ![a] = EmptyTable]
        /\ current' = [current EXCEPT ![t] = CurrentAfterOpening(t, a)]
        /\ StoreSection(n, a)
  BY DEF OpenSection
<1>2. n \in DOMAIN sections => [sections EXCEPT ![n] = a] \in [Names -> Addresses \cup {Null}]
  BY DEF TypeOK, NoTable
<1>3. QED
  BY <1>1, <1>2 DEF StoreSection, CurrentAfterOpening, Allocates

LEMMA OpenSectionTypes ==
  ASSUME TypeOK, NEW t \in Threads, NEW n \in Names, OpenSection(t, n)
  PROVE  /\ sections' \in [Names -> Addresses \cup {Null}] \cup {NoTable}
         /\ tables' \in [Addresses -> [Keys -> Values \cup {Null}] \cup {Free}]
         /\ current' \in [Threads -> Addresses \cup {Null, Wild}]
         /\ fault' \in BOOLEAN
         /\ lost' \subseteq Addresses
<1>1. PICK a \in Addresses :
        /\ tables' = [tables EXCEPT ![a] = EmptyTable]
        /\ current' = [current EXCEPT ![t] = a]
        /\ \/ /\ sections' \in [Names -> Addresses \cup {Null}]
              /\ UNCHANGED <<fault, lost>>
           \/ fault' = TRUE /\ lost' = lost \cup {a} /\ UNCHANGED sections
  BY OpenSectionIs
<1>2. tables' \in [Addresses -> [Keys -> Values \cup {Null}] \cup {Free}]
  BY <1>1, TableTypes DEF TypeOK
<1>3. current' \in [Threads -> Addresses \cup {Null, Wild}]
  BY <1>1 DEF TypeOK
<1>4. CASE sections' \in [Names -> Addresses \cup {Null}] /\ UNCHANGED <<fault, lost>>
  BY <1>2, <1>3, <1>4 DEF TypeOK
<1>5. CASE fault' = TRUE /\ lost' = lost \cup {a} /\ UNCHANGED sections
  BY <1>2, <1>3, <1>5 DEF TypeOK
<1>6. QED
  BY <1>1, <1>4, <1>5

\* What a pair changes in the table it is stored in.
LEMMA StorePairIs ==
  ASSUME OwnInv, NEW t \in Loaders, StorePair(t)
  PROVE  /\ pc[t] = "parse" /\ Head(rest[t]) \in Line /\ Head(rest[t]).kind = "pair"
         /\ current[t] \in Live
         /\ \/ /\ tables' = [tables EXCEPT ![current[t]] =
                               [tables[current[t]] EXCEPT ![Head(rest[t]).key] = Head(rest[t]).value]]
               /\ UNCHANGED fault
            \/ fault' = TRUE /\ UNCHANGED tables
         /\ tables' \in [Addresses -> [Keys -> Values \cup {Null}] \cup {Free}]
         /\ \A a \in Addresses : tables'[a] # Free <=> tables[a] # Free
<1> DEFINE l == Head(rest[t])
           T == [tables[current[t]] EXCEPT ![l.key] = l.value]
<1>1. t \in Threads /\ Reads(t, "pair") /\ current[t] \in Addresses
  BY DEF StorePair, Threads
<1>2. /\ pc[t] = "parse" /\ l \in Line /\ l.kind = "pair"
      /\ l.key \in Keys /\ l.value \in Values
  BY <1>1, ReadsTypes, LineParts DEF OwnInv
<1>3. current[t] \in Live /\ tables[current[t]] \in [Keys -> Values \cup {Null}]
  BY <1>1, SectionsTypes DEF OwnInv, SectionsOwnTables
<1>4. T \in [Keys -> Values \cup {Null}] /\ T # Free
  BY <1>2, <1>3, TableTypes
<1>5. \/ tables' = [tables EXCEPT ![current[t]] = T] /\ UNCHANGED fault
      \/ fault' = TRUE /\ UNCHANGED tables
  BY <1>1 DEF StorePair
<1> HIDE DEF T
<1>6. CASE tables' = [tables EXCEPT ![current[t]] = T] /\ UNCHANGED fault
  <2>1. tables' \in [Addresses -> [Keys -> Values \cup {Null}] \cup {Free}]
    BY <1>1, <1>4, <1>6 DEF OwnInv, TypeOK
  <2>2. tables[current[t]] # Free
    BY <1>3 DEF Live
  <2>3. \A a \in Addresses : tables'[a] = IF a = current[t] THEN T ELSE tables[a]
    BY <1>1, <1>6 DEF OwnInv, TypeOK
  <2>4. QED
    BY <1>2, <1>3, <1>4, <1>6, <2>1, <2>2, <2>3 DEF T
<1>7. CASE fault' = TRUE /\ UNCHANGED tables
  BY <1>2, <1>3, <1>7 DEF OwnInv, TypeOK
<1>8. QED
  BY <1>5, <1>6, <1>7

LEMMA TypeStep == OwnInv /\ [Next]_vars => TypeOK'
<1> SUFFICES ASSUME OwnInv, [Next]_vars PROVE TypeOK'
  OBVIOUS
<1> USE DEF OwnInv
<1>1. CASE Create
  BY <1>1, SectionsTypes DEF Create, TypeOK
<1>2. CASE FreeContext
  <2>1. tables' \in [Addresses -> [Keys -> Values \cup {Null}] \cup {Free}]
    BY <1>2, DestroyedIs DEF FreeContext
  <2>2. loaded' \in Seq(Line)
    BY <1>2 DEF FreeContext
  <2>3. QED
    BY <1>2, <2>1, <2>2 DEF FreeContext, TypeOK
<1>3. CASE WriteDisk
  BY <1>3 DEF WriteDisk, TypeOK
<1>4. ASSUME NEW t \in Loaders, LoadCall(t) PROVE TypeOK'
  <2>1. t \in Threads /\ (Goto(t, "clear") \/ Goto(t, "idle")) /\ pc[t] = "idle" /\ holder' = holder
    BY <1>4 DEF LoadCall, Return, Threads
  <2>2. /\ pc' \in [Threads -> PCs]
        /\ \A u \in Threads : holder' = u <=> pc'[u] \in {"parse", "undefined"}
    BY <2>1, GotoTypes DEF PCs
  <2>3. QED
    BY <1>4, <2>2 DEF LoadCall, TypeOK
<1>5. ASSUME NEW t \in Loaders, Clear(t) PROVE TypeOK'
  <2>1. t \in Threads /\ (Goto(t, "open") \/ Goto(t, "idle")) /\ pc[t] = "clear" /\ holder' = holder
    BY <1>5 DEF Clear, Return, Threads
  <2>2. /\ pc' \in [Threads -> PCs]
        /\ \A u \in Threads : holder' = u <=> pc'[u] \in {"parse", "undefined"}
    BY <2>1, GotoTypes DEF PCs
  <2>3. tables' \in [Addresses -> [Keys -> Values \cup {Null}] \cup {Free}]
    BY <1>5, DestroyedIs DEF Clear
  <2>4. sections' \in [Names -> Addresses \cup {Null}] \cup {NoTable}
    BY <1>5, SectionsTypes DEF Clear, ClearedSections
  <2>5. loaded' \in Seq(Line)
    <3>1. loaded' = <<>>
      BY <1>5 DEF Clear
    <3>2. QED
      BY <3>1
  <2>6. QED
    BY <1>5, <2>2, <2>3, <2>4, <2>5 DEF Clear, TypeOK
<1>6. ASSUME NEW t \in Loaders, Open(t) PROVE TypeOK'
  <2>1. t \in Threads /\ (Goto(t, "relock") \/ Goto(t, "idle")) /\ pc[t] = "open" /\ holder' = holder
    BY <1>6 DEF Open, Return, Threads
  <2>2. /\ pc' \in [Threads -> PCs]
        /\ \A u \in Threads : holder' = u <=> pc'[u] \in {"parse", "undefined"}
    BY <2>1, GotoTypes DEF PCs
  <2>3. rest' \in [Threads -> Seq(Line)]
    BY <1>6, <2>1, FilesAssumption DEF Open, TypeOK
  <2>4. CASE Finish("open failed")
    BY <1>6, <2>2, <2>3, <2>4, FinishTypes DEF Open, TypeOK
  <2>5. CASE UNCHANGED <<exists, private, sections, tables, loaded, fault, lost>>
    BY <1>6, <2>2, <2>3, <2>5 DEF Open, TypeOK
  <2>6. QED
    BY <1>6, <2>4, <2>5 DEF Open
<1>7. ASSUME NEW t \in Loaders, Relock(t) PROVE TypeOK'
  <2>1. t \in Threads /\ holder = NoThread /\ holder' = t /\ pc' = [pc EXCEPT ![t] = "parse"]
    BY <1>7 DEF Relock, Goto, Threads
  <2>2. /\ pc' \in [Threads -> PCs]
        /\ \A u \in Threads : holder' = u <=> pc'[u] \in {"parse", "undefined"}
    BY <2>1, ThreadsAssumption DEF TypeOK, PCs
  <2>3. current' \in [Threads -> Addresses \cup {Null, Wild}]
    BY <1>7 DEF Relock, TypeOK
  <2>4. QED
    BY <1>7, <2>1, <2>2, <2>3 DEF Relock, TypeOK
<1>8. ASSUME NEW t \in Loaders, Skip(t) PROVE TypeOK'
  <2>1. rest' \in [Threads -> Seq(Line)] /\ loaded' \in Seq(Line)
    BY <1>8, AdvanceTypes DEF Skip, Threads
  <2>2. QED
    BY <1>8, <2>1 DEF Skip, TypeOK
<1>9. ASSUME NEW t \in Loaders, NEW s, pc[t] = "parse", Leave(t, s) PROVE TypeOK'
  <2>1. t \in Threads
    BY DEF Threads
  <2>2. /\ holder' = NoThread /\ pc' \in [Threads -> PCs]
        /\ \A u \in Threads : holder' = u <=> pc'[u] \in {"parse", "undefined"}
        /\ rest' \in [Threads -> Seq(Line)]
        /\ current' \in [Threads -> Addresses \cup {Null, Wild}]
    BY <1>9, <2>1, LeaveTypes
  <2>3. /\ exists' \in BOOLEAN /\ private' \in BOOLEAN /\ fault' \in BOOLEAN
        /\ sections' \in [Names -> Addresses \cup {Null}] \cup {NoTable}
        /\ tables' \in [Addresses -> [Keys -> Values \cup {Null}] \cup {Free}]
        /\ loaded' \in Seq(Line)
        /\ lost' \subseteq Addresses
    BY <1>9, FinishTypes DEF Leave
  <2>4. disk' = disk /\ answer' = answer
    BY <1>9 DEF Leave
  <2>5. QED
    BY <2>2, <2>3, <2>4 DEF TypeOK
<1>10. ASSUME NEW t \in Loaders, NewSection(t) PROVE TypeOK'
  <2>1. t \in Threads /\ Reads(t, "header") /\ Advance(t) /\ OpenSection(t, Head(rest[t]).name)
    BY <1>10 DEF NewSection, Threads
  <2>2. Head(rest[t]).name \in Names /\ rest' \in [Threads -> Seq(Line)] /\ loaded' \in Seq(Line)
    BY <2>1, ReadsTypes, LineParts, AdvanceTypes
  <2>3. /\ sections' \in [Names -> Addresses \cup {Null}] \cup {NoTable}
        /\ tables' \in [Addresses -> [Keys -> Values \cup {Null}] \cup {Free}]
        /\ current' \in [Threads -> Addresses \cup {Null, Wild}]
        /\ fault' \in BOOLEAN
        /\ lost' \subseteq Addresses
    BY <2>1, <2>2, OpenSectionTypes
  <2>4. QED
    BY <1>10, <2>2, <2>3 DEF NewSection, TypeOK
<1>11. ASSUME NEW t \in Loaders, KnownSection(t) PROVE TypeOK'
  <2>1. rest' \in [Threads -> Seq(Line)] /\ loaded' \in Seq(Line)
    BY <1>11, AdvanceTypes DEF KnownSection, Threads
  <2>2. QED
    BY <1>11, <2>1 DEF KnownSection, TypeOK
<1>12. ASSUME NEW t \in Loaders, GlobalSection(t) PROVE TypeOK'
  <2>1. /\ sections' \in [Names -> Addresses \cup {Null}] \cup {NoTable}
        /\ tables' \in [Addresses -> [Keys -> Values \cup {Null}] \cup {Free}]
        /\ current' \in [Threads -> Addresses \cup {Null, Wild}]
        /\ fault' \in BOOLEAN
        /\ lost' \subseteq Addresses
    BY <1>12, NamesAssumption, OpenSectionTypes DEF GlobalSection, Threads
  <2>2. QED
    BY <1>12, <2>1 DEF GlobalSection, TypeOK
<1>13. ASSUME NEW t \in Loaders, StorePair(t) PROVE TypeOK'
  <2>1. rest' \in [Threads -> Seq(Line)] /\ loaded' \in Seq(Line)
    BY <1>13, AdvanceTypes DEF StorePair, Threads
  <2>2. tables' \in [Addresses -> [Keys -> Values \cup {Null}] \cup {Free}]
    BY <1>13, StorePairIs
  <2>3. QED
    BY <1>13, <2>1, <2>2 DEF StorePair, TypeOK
<1>14. ASSUME NEW t \in Loaders, Crash(t) PROVE TypeOK'
  <2>1. t \in Threads /\ Goto(t, "undefined") /\ pc[t] = "parse" /\ holder' = holder
    BY <1>14 DEF Crash, Reads, Threads
  <2>2. /\ pc' \in [Threads -> PCs]
        /\ \A u \in Threads : holder' = u <=> pc'[u] \in {"parse", "undefined"}
    BY <2>1, GotoTypes DEF PCs
  <2>3. QED
    BY <1>14, <2>2 DEF Crash, TypeOK
<1>15. ASSUME NEW t \in Loaders, LoadNull(t) PROVE TypeOK'
  <2>1. t \in Threads /\ (Goto(t, "open") \/ Goto(t, "idle")) /\ pc[t] = "idle" /\ holder' = holder
    BY <1>15 DEF LoadNull, Return, Threads
  <2>2. /\ pc' \in [Threads -> PCs]
        /\ \A u \in Threads : holder' = u <=> pc'[u] \in {"parse", "undefined"}
    BY <2>1, GotoTypes DEF PCs
  <2>3. sections' \in [Names -> Addresses \cup {Null}] \cup {NoTable}
    BY <1>15, SectionsTypes DEF LoadNull, TypeOK
  <2>4. exists' \in BOOLEAN /\ private' \in BOOLEAN
    BY <1>15 DEF LoadNull, TypeOK
  <2>5. QED
    BY <1>15, <2>2, <2>3, <2>4 DEF LoadNull, TypeOK
<1>16. ASSUME NEW t \in Readers, NEW n \in Names, NEW k \in Keys, GetValue(t, n, k) PROVE TypeOK'
  <2>1. Lookup(n, k) \in Values \cup {Null}
    BY SectionsTypes DEF Lookup
  <2>2. answer' = [answer EXCEPT ![t] = Null] \/ answer' = [answer EXCEPT ![t] = Lookup(n, k)]
    BY <1>16 DEF GetValue, Answer
  <2>3. answer' \in [Threads -> Values \cup {Null}]
    BY <2>1, <2>2 DEF TypeOK
  <2>4. QED
    BY <1>16, <2>3 DEF GetValue, TypeOK
<1>17. CASE UNCHANGED vars
  BY <1>17 DEF vars, TypeOK
<1>18. QED
  BY <1>1, <1>2, <1>3, <1>4, <1>5, <1>6, <1>7, <1>8, <1>9, <1>10, <1>11, <1>12, <1>13, <1>14,
     <1>15, <1>16, <1>17
  DEF Next, LoadStep, BrokenHeader, NoMemory, LoadDone, Reads

LEMMA AloneStep == OwnInv /\ [Next]_vars => AloneInv'
<1> SUFFICES ASSUME OwnInv, [Next]_vars PROVE AloneInv'
  OBVIOUS
<1>0. /\ AloneInv /\ exists \in BOOLEAN /\ private \in BOOLEAN /\ pc \in [Threads -> PCs]
      /\ \A u \in Loaders : u \in Threads
  BY DEF OwnInv, TypeOK, Threads
<1>1. CASE Create
  BY <1>0, <1>1 DEF Create, AloneInv
<1>2. CASE FreeContext
  BY <1>0, <1>2 DEF FreeContext, Shared, AloneInv, NobodyInside
<1>3. CASE UNCHANGED <<exists, private, pc>>
  BY <1>0, <1>3 DEF AloneInv, NobodyInside
<1>4. ASSUME NEW t \in Loaders, LoadCall(t) PROVE AloneInv'
  BY <1>0, <1>4 DEF LoadCall, Shared, AloneInv
<1>5. ASSUME NEW t \in Loaders, LoadNull(t) PROVE AloneInv'
  <2>1. NobodyInside /\ ~exists /\ ~private
    BY <1>0, <1>5 DEF LoadNull, AloneInv
  <2>2. CASE Goto(t, "open") /\ exists' /\ private'
    <3>1. \A u \in Threads : u # t => pc'[u] = "idle"
      BY <1>0, <2>1, <2>2 DEF Goto, NobodyInside
    <3>2. QED
      BY <2>2, <3>1 DEF AloneInv
  <2>3. CASE Goto(t, "idle") /\ UNCHANGED <<exists, private>>
    <3>1. pc' = pc
      BY <1>0, <2>1, <2>3 DEF Goto, NobodyInside
    <3>2. QED
      BY <1>3, <2>3, <3>1
  <2>4. QED
    BY <1>5, <2>2, <2>3 DEF LoadNull, Return
\* A load goes on.
<1>6. ASSUME NEW t \in Loaders, NEW l, Goto(t, l), pc[t] # "idle", UNCHANGED <<exists, private>>
      PROVE  AloneInv'
  <2>1. \A u \in Threads : pc'[u] = IF u = t THEN l ELSE pc[u]
    BY <1>0, <1>6 DEF Goto
  <2>2. exists
    BY <1>0, <1>6 DEF AloneInv, NobodyInside
  <2>3. QED
    BY <1>0, <1>6, <2>1, <2>2 DEF AloneInv
\* A load returns.
<1>7. ASSUME NEW t \in Loaders, NEW s, Goto(t, "idle"), pc[t] # "idle", Finish(s)
      PROVE  AloneInv'
  <2>1. CASE UNCHANGED <<exists, private>>
    BY <1>6, <1>7, <2>1
  <2>2. CASE private /\ exists' = FALSE /\ private' = FALSE
    <3>1. \A u \in Threads : pc'[u] = "idle"
      BY <1>0, <1>7, <2>2 DEF Goto, AloneInv
    <3>2. QED
      BY <2>2, <3>1 DEF AloneInv, NobodyInside
  <2>3. QED
    BY <1>7, <2>1, <2>2, FinishIs
<1>8. ASSUME NEW t \in Loaders, Clear(t) \/ Open(t) \/ Relock(t) \/ Crash(t) PROVE AloneInv'
  BY <1>6, <1>7, <1>8 DEF Clear, Open, Relock, Crash, Reads, Return
<1>9. ASSUME NEW t \in Loaders, NEW s, pc[t] = "parse", Leave(t, s) PROVE AloneInv'
  BY <1>7, <1>9 DEF Leave, Return
<1>10. ASSUME NEW t \in Loaders, BrokenHeader(t) \/ NoMemory(t) \/ LoadDone(t) PROVE AloneInv'
  BY <1>9, <1>10 DEF BrokenHeader, NoMemory, LoadDone, Reads
<1>11. ASSUME NEW t \in Loaders,
              Skip(t) \/ NewSection(t) \/ KnownSection(t) \/ GlobalSection(t) \/ StorePair(t)
       PROVE  AloneInv'
  BY <1>3, <1>11 DEF Skip, NewSection, KnownSection, GlobalSection, StorePair
<1>12. ASSUME NEW t \in Readers, NEW n \in Names, NEW k \in Keys, GetValue(t, n, k) PROVE AloneInv'
  BY <1>3, <1>12 DEF GetValue
<1>13. CASE WriteDisk \/ UNCHANGED vars
  BY <1>3, <1>13 DEF WriteDisk, vars
<1>14. QED
  BY <1>1, <1>2, <1>4, <1>5, <1>8, <1>10, <1>11, <1>12, <1>13 DEF Next, LoadStep

\* What else OwnInv says: nobody but a thread that parses has a table.
OwnPart ==
  /\ SectionsOwnTables
  /\ \A t \in Threads : current[t] # Null => pc[t] \in {"parse", "undefined"}
  /\ \A t \in Threads : current[t] \in Addresses => pc[t] = "parse"

\* Nobody's table is touched, and no thread gets one.
LEMMA OwnKeep ==
  ASSUME OwnInv, sections' = sections,
         \A a \in Addresses : tables[a] # Free => tables'[a] # Free,
         \A t \in Threads : current'[t] \in {current[t], Null, Wild},
         \A t \in Threads : current'[t] # Null => pc'[t] \in {"parse", "undefined"},
         \A t \in Threads : current'[t] \in Addresses => pc'[t] = "parse"
  PROVE  OwnPart'
<1>1. Live \subseteq Live'
  BY DEF Live
<1>2. Referenced' = Referenced
  BY DEF Referenced
<1>3. ASSUME NEW t \in Threads, current'[t] \in Addresses PROVE current'[t] \in Live'
  <2>1. current'[t] = current[t]
    BY <1>3, PointersAssumption
  <2>2. QED
    BY <1>1, <1>3, <2>1 DEF OwnInv, SectionsOwnTables
<1>4. SectionsOwnTables'
  BY <1>1, <1>2, <1>3 DEF OwnInv, SectionsOwnTables
<1>5. QED
  BY <1>4 DEF OwnPart

\* The context is emptied, and nobody parses.
LEMMA OwnCleared ==
  ASSUME sections' \in {NoSections, NoTable}, \A t \in Threads : current'[t] = Null
  PROVE  OwnPart'
<1>1. \A t \in Threads : current'[t] = Null
  OBVIOUS
<1>2. \A n \in DOMAIN sections' : sections'[n] = Null
  BY DEF NoSections, NoTable
<1>3. Referenced' = {}
  BY <1>2 DEF Referenced
<1>4. SectionsOwnTables'
  BY <1>1, <1>2, <1>3, PointersAssumption DEF SectionsOwnTables
<1>5. QED
  BY <1>1, <1>4, PointersAssumption DEF OwnPart

\* A section is opened at a free address, which nothing else refers to.
LEMMA OwnOpened ==
  ASSUME OwnInv, NEW t \in Threads, NEW n \in Names, OpenSection(t, n), pc[t] = "parse", pc' = pc
  PROVE  OwnPart'
<1>0. TypeOK
  BY DEF OwnInv
<1>1. PICK a \in Addresses :
        /\ tables[a] = Free
        /\ tables' = [tables EXCEPT ![a] = EmptyTable]
        /\ current' = [current EXCEPT ![t] = a]
        /\ \/ n \in DOMAIN sections /\ sections' = [sections EXCEPT ![n] = a]
           \/ UNCHANGED sections
  BY <1>0, OpenSectionIs
<1>2. EmptyTable # Free
  BY TableTypes
<1>3. Live' = Live \cup {a}
  BY <1>1, <1>2 DEF Live, OwnInv, TypeOK
<1>4. a \notin Live /\ a # Null
  BY <1>1, PointersAssumption DEF Live
<1>5. /\ \A u \in Threads : current'[u] = IF u = t THEN a ELSE current[u]
  BY <1>1 DEF OwnInv, TypeOK
<1>6. ASSUME NEW u \in Threads, current'[u] \in Addresses PROVE current'[u] \in Live'
  BY <1>3, <1>5, <1>6 DEF OwnInv, SectionsOwnTables
<1>7. \A m \in DOMAIN sections : sections[m] # a /\ (sections[m] # Null => sections[m] \in Live)
  BY <1>4 DEF OwnInv, SectionsOwnTables, Referenced
<1>8. CASE UNCHANGED sections
  <2>1. Referenced' = Referenced
    BY <1>8 DEF Referenced
  <2>2. SectionsOwnTables'
    BY <1>3, <1>6, <1>8, <2>1 DEF OwnInv, SectionsOwnTables
  <2>3. QED
    BY <1>5, <2>2 DEF OwnInv, OwnPart
<1>9. CASE n \in DOMAIN sections /\ sections' = [sections EXCEPT ![n] = a]
  <2>1. DOMAIN sections' = DOMAIN sections
    BY <1>9
  <2>2. \A m \in DOMAIN sections : sections'[m] = IF m = n THEN a ELSE sections[m]
    BY <1>9
  <2>3. Referenced' \subseteq Live'
    BY <1>3, <1>7, <2>1, <2>2 DEF Referenced
  <2>4. \A l, m \in DOMAIN sections' : sections'[l] = sections'[m] => l = m \/ sections'[l] = Null
    BY <1>7, <2>1, <2>2 DEF OwnInv, SectionsOwnTables
  <2>5. SectionsOwnTables'
    BY <1>6, <2>3, <2>4 DEF SectionsOwnTables
  <2>6. QED
    BY <1>5, <2>5 DEF OwnInv, OwnPart
<1>10. QED
  BY <1>1, <1>8, <1>9

LEMMA OwnStep == OwnInv /\ [Next]_vars => OwnInv'
<1> SUFFICES ASSUME OwnInv, [Next]_vars PROVE OwnPart'
  BY TypeStep, AloneStep DEF OwnInv, OwnPart
<1>1. CASE Create
  <2>1. Referenced' = {} /\ \A n \in DOMAIN sections' : sections'[n] = Null
    BY <1>1 DEF Create, NoSections, Referenced
  <2>2. Live' = Live
    BY <1>1 DEF Create, Live
  <2>3. SectionsOwnTables'
    BY <1>1, <2>1, <2>2 DEF Create, OwnInv, SectionsOwnTables
  <2>4. QED
    BY <1>1, <2>3 DEF Create, OwnInv, OwnPart
<1>2. CASE FreeContext
  BY <1>2, OwnCleared DEF FreeContext, NobodyInside, OwnInv
<1>3. CASE WriteDisk
  BY <1>3, OwnKeep DEF WriteDisk, OwnInv
<1>4. ASSUME NEW t \in Loaders, Clear(t) PROVE OwnPart'
  <2>1. \A u \in Threads : pc[u] \notin {"parse", "undefined"}
    BY <1>4, ThreadsAssumption DEF Clear, OwnInv, TypeOK
  <2>2. QED
    BY <1>4, <2>1, OwnCleared DEF Clear, ClearedSections, OwnInv
<1>5. ASSUME NEW t \in Loaders, pc[t] \notin {"parse", "undefined"}, NEW l, Goto(t, l),
             UNCHANGED <<sections, current>>,
             \A a \in Addresses : tables[a] # Free => tables'[a] # Free
      PROVE  OwnPart'
  <2>1. \A u \in Threads : pc'[u] = IF u = t THEN l ELSE pc[u]
    BY <1>5 DEF Goto, OwnInv, TypeOK
  <2>2. current[t] = Null /\ t \in Threads
    BY <1>5 DEF OwnInv, Threads
  <2>3. \A u \in Threads : current'[u] # Null => pc'[u] \in {"parse", "undefined"}
    BY <1>5, <2>1, <2>2 DEF OwnInv
  <2>4. \A u \in Threads : current'[u] \in Addresses => pc'[u] = "parse"
    BY <1>5, <2>1, <2>2, PointersAssumption DEF OwnInv
  <2>5. QED
    BY <1>5, <2>3, <2>4, OwnKeep
<1>6. ASSUME NEW t \in Loaders, Relock(t) PROVE OwnPart'
  <2>1. t \in Threads /\ holder = NoThread
    BY <1>6 DEF Relock, Threads
  <2>2. \A u \in Threads : pc[u] \notin {"parse", "undefined"}
    BY <2>1, ThreadsAssumption DEF OwnInv, TypeOK
  <2>3. \A u \in Threads : current[u] = Null
    BY <2>2 DEF OwnInv
  <2>4. \A u \in Threads : current'[u] = Null
    BY <1>6, <2>3 DEF Relock, OwnInv, TypeOK
  <2>5. QED
    BY <1>6, <2>4, OwnKeep, PointersAssumption DEF Relock
<1>7. ASSUME NEW t \in Loaders, Skip(t) PROVE OwnPart'
  BY <1>7, OwnKeep DEF Skip, OwnInv
<1>8. ASSUME NEW t \in Loaders, NEW s, pc[t] = "parse", Leave(t, s) PROVE OwnPart'
  <2>1. t \in Threads
    BY DEF Threads
  <2>2. /\ \A u \in Threads : pc'[u] = IF u = t THEN "idle" ELSE pc[u]
        /\ current' = [current EXCEPT ![t] = Null]
    BY <1>8, <2>1, LeaveTypes DEF OwnInv
  <2>3. \A u \in Threads : current'[u] = IF u = t THEN Null ELSE current[u]
    BY <2>2 DEF OwnInv, TypeOK
  <2>4. CASE UNCHANGED <<sections, tables>>
    BY <2>2, <2>3, <2>4, OwnKeep, PointersAssumption DEF OwnInv
  <2>5. CASE sections' = NoTable
    <3>1. \A u \in Threads : u # t => pc[u] \notin {"parse", "undefined"}
      BY <1>8, <2>1 DEF OwnInv, TypeOK
    <3>2. \A u \in Threads : current'[u] = Null
      BY <2>3, <3>1 DEF OwnInv
    <3>3. QED
      BY <2>5, <3>2, OwnCleared
  <2>6. QED
    BY <1>8, <2>4, <2>5, FinishIs DEF Leave
<1>9. ASSUME NEW t \in Loaders, NewSection(t) PROVE OwnPart'
  <2>1. t \in Threads /\ Reads(t, "header") /\ OpenSection(t, Head(rest[t]).name) /\ pc' = pc
    BY <1>9 DEF NewSection, Threads
  <2>2. Head(rest[t]).name \in Names /\ pc[t] = "parse"
    BY <2>1, ReadsTypes, LineParts DEF OwnInv
  <2>3. QED
    BY <2>1, <2>2, OwnOpened
<1>10. ASSUME NEW t \in Loaders, KnownSection(t) PROVE OwnPart'
  <2>1. t \in Threads /\ pc[t] = "parse"
    BY <1>10 DEF KnownSection, Reads, Threads
  <2>2. \A u \in Threads : current'[u] = IF u = t THEN Wild ELSE current[u]
    BY <1>10 DEF KnownSection, OwnInv, TypeOK
  <2>3. QED
    BY <1>10, <2>1, <2>2, OwnKeep, PointersAssumption DEF KnownSection, OwnInv
<1>11. ASSUME NEW t \in Loaders, GlobalSection(t) PROVE OwnPart'
  BY <1>11, OwnOpened, NamesAssumption DEF GlobalSection, Reads, Threads
<1>12. ASSUME NEW t \in Loaders, StorePair(t) PROVE OwnPart'
  <2>1. \A a \in Addresses : tables'[a] # Free <=> tables[a] # Free
    BY <1>12, StorePairIs
  <2>2. QED
    BY <1>12, <2>1, OwnKeep DEF StorePair, OwnInv
<1>13. ASSUME NEW t \in Loaders, Crash(t) PROVE OwnPart'
  <2>1. t \in Threads /\ current[t] = Wild /\ UNCHANGED <<sections, tables, current>>
        /\ pc' = [pc EXCEPT ![t] = "undefined"]
    BY <1>13 DEF Crash, Goto, Threads
  <2>2. \A u \in Threads : pc'[u] = IF u = t THEN "undefined" ELSE pc[u]
    BY <2>1 DEF OwnInv, TypeOK
  <2>3. QED
    BY <2>1, <2>2, OwnKeep, PointersAssumption DEF OwnInv
<1>14. ASSUME NEW t \in Loaders, LoadNull(t) PROVE OwnPart'
  <2>1. CASE UNCHANGED <<sections, tables, current>>
    BY <1>5, <1>14, <2>1 DEF LoadNull, Return
  <2>2. CASE sections' = NoSections /\ current' = current
    <3>1. \A u \in Threads : current'[u] = Null
      BY <1>14, <2>2 DEF LoadNull, OwnInv, AloneInv, NobodyInside
    <3>2. QED
      BY <2>2, <3>1, OwnCleared
  <2>3. QED
    BY <1>14, <2>1, <2>2 DEF LoadNull
<1>15. ASSUME NEW t \in Readers, NEW n \in Names, NEW k \in Keys, GetValue(t, n, k) PROVE OwnPart'
  BY <1>15, OwnKeep DEF GetValue, OwnInv
<1>16. CASE UNCHANGED vars
  BY <1>16, OwnKeep DEF vars, OwnInv
<1>17. ASSUME NEW t \in Loaders, LoadCall(t) \/ Open(t) PROVE OwnPart'
  <2>1. /\ pc[t] \in {"idle", "open"} /\ current' = current
        /\ Goto(t, "clear") \/ Goto(t, "idle") \/ Goto(t, "relock")
    BY <1>17 DEF LoadCall, Open, Return
  <2>2. CASE UNCHANGED <<sections, tables>>
    BY <1>5, <2>1, <2>2
  <2>3. CASE pc[t] = "open" /\ private /\ sections' = NoTable
    <3>1. \A u \in Threads : pc[u] \notin {"parse", "undefined"}
      BY <2>3 DEF OwnInv, AloneInv, Threads
    <3>2. \A u \in Threads : current'[u] = Null
      BY <2>1, <3>1 DEF OwnInv
    <3>3. QED
      BY <2>3, <3>2, OwnCleared
  <2>4. QED
    BY <1>17, <2>2, <2>3, FinishIs DEF LoadCall, Open
<1>18. QED
  BY <1>1, <1>2, <1>3, <1>4, <1>6, <1>7, <1>8, <1>9, <1>10, <1>11, <1>12, <1>13, <1>14,
     <1>15, <1>16, <1>17
  DEF Next, LoadStep, BrokenHeader, NoMemory, LoadDone, Reads

LEMMA OwnInit == Init => OwnInv
<1> SUFFICES ASSUME Init PROVE OwnInv
  OBVIOUS
<1>1. TypeOK
  <2>1. <<>> \in Seq(Line)
    OBVIOUS
  <2>2. QED
    BY <2>1, ThreadsAssumption DEF Init, TypeOK, PCs
<1>2. SectionsOwnTables
  BY PointersAssumption DEF Init, SectionsOwnTables, Referenced, NoTable
<1>3. AloneInv
  BY DEF Init, AloneInv, NobodyInside
<1>4. QED
  BY <1>1, <1>2, <1>3, PointersAssumption DEF OwnInv, Init

\* Every variable has its type, and the lock is held by whoever parses.
THEOREM TypeCorrect == Spec => []TypeOK
BY OwnInit, OwnStep, PTL DEF Spec, OwnInv

\* No pointer that the context or a load follows is dangling or shared.
THEOREM Ownership == Spec => []SectionsOwnTables
BY OwnInit, OwnStep, PTL DEF Spec, OwnInv

-----------------------------------------------------------------------------
(* What the steps do to the tables of the sections *)

\* The table that following the context's pointers finds for a section.
TableAt(n) == IF SectionAt(n) \in Live THEN tables[SectionAt(n)] ELSE Free

LEMMA LookupIs ==
  \A n, k : /\ Lookup(n, k) = IF TableAt(n) = Free THEN Null ELSE TableAt(n)[k]
            /\ Lookup(n, k)' = IF TableAt(n)' = Free THEN Null ELSE TableAt(n)'[k]
BY DEF Lookup, TableAt, Live

LEMMA SectionLive ==
  ASSUME OwnInv, NEW n, SectionAt(n) # Null
  PROVE  n \in DOMAIN sections /\ SectionAt(n) = sections[n] /\ SectionAt(n) \in Live
BY DEF OwnInv, SectionsOwnTables, SectionAt, Referenced

LEMMA TablesCleared ==
  ASSUME OwnInv, tables' = Destroyed, sections' \in {NoSections, NoTable}
  PROVE  /\ \A n \in Names : TableAt(n)' = Free
         /\ Live' = Live \ Referenced /\ Referenced' = {}
<1>1. \A n \in Names : SectionAt(n)' = Null
  BY DEF SectionAt, NoSections, NoTable
<1>2. Null \notin Live'
  BY PointersAssumption DEF Live
<1>3. Live' = Live \ Referenced
  BY DestroyedIs DEF Live
<1>4. Referenced' = {}
  BY DEF Referenced, NoSections, NoTable
<1>5. QED
  BY <1>1, <1>2, <1>3, <1>4 DEF TableAt

LEMMA TablesOpened ==
  ASSUME OwnInv, NEW t \in Threads, NEW n \in Names, OpenSection(t, n), SectionAt(n) = Null
  PROVE  \E a \in Addresses :
           /\ a \notin Live
           /\ current' = [current EXCEPT ![t] = a]
           /\ Live' = Live \cup {a}
           /\ \A m \in DOMAIN sections : sections[m] # a
           /\ \/ /\ n \in DOMAIN sections /\ sections' = [sections EXCEPT ![n] = a]
                 /\ Referenced' = Referenced \cup {a}
                 /\ UNCHANGED <<fault, lost>>
                 /\ \A m \in Names : TableAt(m)' = IF m = n THEN EmptyTable ELSE TableAt(m)
              \/ /\ fault' = TRUE /\ lost' = lost \cup {a} /\ UNCHANGED sections
                 /\ \A m \in Names : TableAt(m)' = TableAt(m)
<1>0. TypeOK
  BY DEF OwnInv
<1>1. PICK a \in Addresses :
        /\ tables[a] = Free
        /\ tables' = [tables EXCEPT ![a] = EmptyTable]
        /\ current' = [current EXCEPT ![t] = a]
        /\ \/ /\ n \in DOMAIN sections
              /\ sections' = [sections EXCEPT ![n] = a]
              /\ UNCHANGED <<fault, lost>>
           \/ fault' = TRUE /\ lost' = lost \cup {a} /\ UNCHANGED sections
  BY <1>0, OpenSectionIs
<1>2. \A b \in Addresses : tables'[b] = IF b = a THEN EmptyTable ELSE tables[b]
  BY <1>0, <1>1 DEF TypeOK
<1>3. Live' = Live \cup {a} /\ a \notin Live /\ a # Null
  <2>1. \A b \in Addresses : tables'[b] # Free <=> tables[b] # Free \/ b = a
    BY <1>2, TableTypes
  <2>2. QED
    BY <1>1, <2>1, PointersAssumption DEF Live
<1>4. \A m : SectionAt(m) # Null => SectionAt(m) \in Live
  BY SectionLive
<1>5. \A m \in DOMAIN sections : sections[m] # a
  BY <1>3, <1>4 DEF SectionAt
<1>6. \A m : SectionAt(m) # a /\ (SectionAt(m) \in Live => SectionAt(m) \in Addresses)
  BY <1>3, <1>4 DEF Live
<1>7. CASE UNCHANGED sections
  <2>1. \A m \in Names : SectionAt(m)' = SectionAt(m)
    BY <1>7 DEF SectionAt
  <2>2. \A m \in Names : TableAt(m)' = TableAt(m)
    BY <1>2, <1>3, <1>6, <2>1 DEF TableAt
  <2>3. QED
    BY <1>1, <1>3, <1>5, <1>7, <2>2
<1>8. CASE n \in DOMAIN sections /\ sections' = [sections EXCEPT ![n] = a] /\ UNCHANGED <<fault, lost>>
  <2>1. /\ DOMAIN sections' = DOMAIN sections
        /\ \A m \in DOMAIN sections : sections'[m] = IF m = n THEN a ELSE sections[m]
    BY <1>8
  <2>2. \A m \in Names : SectionAt(m)' = IF m = n THEN a ELSE SectionAt(m)
    BY <1>8, <2>1 DEF SectionAt
  <2>3. TableAt(n)' = EmptyTable
    BY <1>2, <1>3, <2>2 DEF TableAt
  <2>4. ASSUME NEW m \in Names, m # n PROVE TableAt(m)' = TableAt(m)
    BY <1>2, <1>3, <1>6, <2>2, <2>4 DEF TableAt
  <2>5. sections[n] = Null
    BY <1>8 DEF SectionAt
  <2>6. Referenced' = Referenced \cup {a}
    BY <1>3, <1>8, <2>1, <2>5 DEF Referenced
  <2>7. QED
    BY <1>1, <1>3, <1>5, <1>8, <2>3, <2>4, <2>6
<1>9. QED
  BY <1>1, <1>7, <1>8

LEMMA TablesPaired ==
  ASSUME OwnInv, NEW t \in Loaders, StorePair(t)
  PROVE  /\ Live' = Live
         /\ \/ /\ UNCHANGED fault
               /\ \A n \in Names : TableAt(n)' =
                    IF SectionAt(n) = current[t]
                    THEN [TableAt(n) EXCEPT ![Head(rest[t]).key] = Head(rest[t]).value]
                    ELSE TableAt(n)
            \/ fault' = TRUE /\ UNCHANGED tables /\ \A n \in Names : TableAt(n)' = TableAt(n)
<1> DEFINE l == Head(rest[t])
<1>1. \A a \in Addresses : tables'[a] # Free <=> tables[a] # Free
  BY StorePairIs
<1>2. Live' = Live /\ \A n \in Names : SectionAt(n)' = SectionAt(n)
  BY <1>1 DEF Live, SectionAt, StorePair
<1>3. current[t] \in Live
  BY StorePairIs
<1>4. \/ tables' = [tables EXCEPT ![current[t]] = [tables[current[t]] EXCEPT ![l.key] = l.value]]
         /\ UNCHANGED fault
      \/ fault' = TRUE /\ UNCHANGED tables
  BY StorePairIs
<1>5. CASE fault' = TRUE /\ UNCHANGED tables
  BY <1>2, <1>5 DEF TableAt
<1>6. CASE tables' = [tables EXCEPT ![current[t]] = [tables[current[t]] EXCEPT ![l.key] = l.value]]
           /\ UNCHANGED fault
  <2>1. \A a \in Addresses : tables'[a] =
          IF a = current[t] THEN [tables[a] EXCEPT ![l.key] = l.value] ELSE tables[a]
    BY <1>6 DEF OwnInv, TypeOK
  <2>2. ASSUME NEW n \in Names PROVE
          TableAt(n)' = IF SectionAt(n) = current[t]
                        THEN [TableAt(n) EXCEPT ![l.key] = l.value] ELSE TableAt(n)
    BY <1>2, <1>3, <2>1 DEF TableAt, Live
  <2>3. QED
    BY <1>2, <1>6, <2>2
<1>7. QED
  BY <1>4, <1>5, <1>6

\* A load returns: nothing changes, or its own context is gone, and every
\* table of it is freed or lost.
LEMMA TablesFinished ==
  ASSUME OwnInv, NEW s, Finish(s)
  PROVE  \/ UNCHANGED <<sections, tables, loaded, fault, lost>>
         \/ /\ \A n \in Names : TableAt(n)' = Free
            /\ loaded' = <<>>
            /\ LeakedIsLost => LeakedIsLost'
<1>1. CASE sections' = NoTable /\ loaded' = <<>> /\ tables' = Destroyed /\ UNCHANGED lost
  <2>1. (\A n \in Names : TableAt(n)' = Free) /\ Live' = Live \ Referenced /\ Referenced' = {}
    BY <1>1, TablesCleared
  <2>2. QED
    BY <1>1, <2>1 DEF LeakedIsLost
<1>2. CASE sections' = NoTable /\ loaded' = <<>> /\ UNCHANGED tables /\ lost' = lost \cup Referenced
  <2>1. Live' = Live /\ Null \notin Live
    BY <1>2, PointersAssumption DEF Live
  <2>2. \A n \in Names : TableAt(n)' = Free
    BY <1>2, <2>1 DEF TableAt, SectionAt, NoTable
  <2>3. Referenced' = {} /\ Referenced \subseteq Live
    BY <1>2 DEF Referenced, NoTable, OwnInv, SectionsOwnTables
  <2>4. QED
    BY <1>2, <2>1, <2>2, <2>3 DEF LeakedIsLost
<1>3. QED
  BY <1>1, <1>2, FinishIs

-----------------------------------------------------------------------------
(* Where the thread that loads is *)

LEMMA PhaseStep ==
  ASSUME LoadsTakeTurns, LoadsTakeTurns', OwnInv, PhaseInv, [Next]_vars
  PROVE  PhaseInv'
<1> DEFINE Phase(u) ==
      /\ pc[u] \in {"open", "relock"} => sections = NoSections /\ loaded = <<>>
      /\ pc[u] = "parse" => DOMAIN sections = Names
      /\ pc[u] = "parse" /\ current[u] = Null =>
           sections = NoSections /\ Headers(loaded, Len(loaded) + 1) = {}
<1>0. \A u \in Loaders : u \in Threads
  BY DEF Threads
\* A step of a load: only its thread has to know where the context is.
<1>1. ASSUME NEW t \in Loaders, exists, exists' = exists, Phase(t)',
             pc' = [pc EXCEPT ![t] = pc'[t]], pc[t] # "idle" \/ pc'[t] # "idle"
      PROVE  PhaseInv'
  <2>1. ASSUME NEW u \in Loaders, u # t PROVE pc'[u] = "idle"
    <3>1. pc'[u] = pc[u]
      BY <1>0, <1>1, <2>1 DEF OwnInv, TypeOK
    <3>2. QED
      BY <1>1, <2>1, <3>1 DEF LoadsTakeTurns
  <2>2. \A u \in Loaders : Phase(u)'
    BY <1>1, <2>1
  <2>3. QED
    BY <1>1, <2>2 DEF PhaseInv
<1>2. /\ \A u \in Threads : pc[u] # "idle" => exists
      /\ \A u \in Threads : pc' = pc => pc' = [pc EXCEPT ![u] = pc'[u]]
  BY DEF AloneInv, NobodyInside, OwnInv, TypeOK
<1>3. CASE Create
  <2>1. \A u \in Loaders : pc'[u] = "idle"
    BY <1>0, <1>3 DEF Create, OwnInv, AloneInv, NobodyInside
  <2>2. QED
    BY <1>3, <2>1 DEF Create, PhaseInv
<1>4. CASE FreeContext
  <2>1. \A u \in Threads : pc'[u] = "idle"
    BY <1>4 DEF FreeContext, NobodyInside
  <2>2. QED
    BY <1>0, <1>4, <2>1 DEF FreeContext, PhaseInv
<1>5. CASE UNCHANGED <<exists, sections, pc, current, loaded>>
  BY <1>5 DEF PhaseInv
<1>6. ASSUME NEW t \in Loaders, NEW l \in {"idle", "clear"}, exists, Goto(t, l), exists' = exists,
             pc[t] # "idle" \/ l # "idle"
      PROVE  PhaseInv'
  <2>1. pc'[t] = l /\ pc' = [pc EXCEPT ![t] = pc'[t]]
    BY <1>0, <1>6 DEF Goto, OwnInv, TypeOK
  <2>2. QED
    BY <1>1, <1>6, <2>1
\* A load returns.
<1>6a. ASSUME NEW t \in Loaders, NEW s, Goto(t, "idle"), pc[t] # "idle", Finish(s) PROVE PhaseInv'
  <2>1. CASE exists' = exists
    BY <1>0, <1>2, <1>6, <1>6a, <2>1
  <2>2. CASE ~exists' /\ sections' = NoTable /\ loaded' = <<>>
    <3>1. \A u \in Loaders : pc'[u] = "idle"
      BY <1>0, <1>6a DEF Goto, LoadsTakeTurns, OwnInv, TypeOK
    <3>2. QED
      BY <2>2, <3>1 DEF PhaseInv
  <2>3. QED
    BY <1>6a, <2>1, <2>2, FinishIs
<1>7. ASSUME NEW t \in Loaders, Clear(t) PROVE PhaseInv'
  <2>1. exists /\ exists' = exists
    BY <1>0, <1>2, <1>7 DEF Clear
  <2>2. CASE Goto(t, "open") /\ sections' = NoSections /\ loaded' = <<>>
    <3>1. pc'[t] = "open" /\ pc' = [pc EXCEPT ![t] = pc'[t]]
      BY <1>0, <2>2 DEF Goto, OwnInv, TypeOK
    <3>2. QED
      BY <1>1, <2>1, <2>2, <3>1
  <2>3. CASE Goto(t, "idle")
    BY <1>6, <1>7, <2>1, <2>3 DEF Clear
  <2>4. QED
    BY <1>7, <2>2, <2>3 DEF Clear, ClearedSections, Return
<1>8. ASSUME NEW t \in Loaders, Open(t) PROVE PhaseInv'
  <2>1. exists /\ pc[t] = "open"
    BY <1>0, <1>2, <1>8 DEF Open
  <2>2. CASE Goto(t, "relock") /\ UNCHANGED <<exists, sections, loaded>>
    <3>1. pc'[t] = "relock" /\ pc' = [pc EXCEPT ![t] = pc'[t]]
      BY <1>0, <2>2 DEF Goto, OwnInv, TypeOK
    <3>2. QED
      BY <1>1, <2>1, <2>2, <3>1 DEF PhaseInv
  <2>3. CASE Goto(t, "idle") /\ Finish("open failed")
    BY <1>6a, <2>1, <2>3
  <2>4. QED
    BY <1>8, <2>2, <2>3 DEF Open, Return
<1>9. ASSUME NEW t \in Loaders, Relock(t) PROVE PhaseInv'
  <2>1. exists /\ exists' = exists /\ UNCHANGED <<sections, loaded>>
    BY <1>0, <1>2, <1>9 DEF Relock
  <2>2. sections = NoSections /\ loaded = <<>>
    BY <1>9 DEF Relock, PhaseInv
  <2>3. pc'[t] = "parse" /\ pc' = [pc EXCEPT ![t] = pc'[t]]
    BY <1>0, <1>9 DEF Relock, Goto, OwnInv, TypeOK
  <2>4. Headers(<<>>, Len(<<>>) + 1) = {} /\ DOMAIN NoSections = Names
    BY DEF Headers, NoSections
  <2>5. QED
    BY <1>1, <2>1, <2>2, <2>3, <2>4
<1>10. ASSUME NEW t \in Loaders, Skip(t) PROVE PhaseInv'
  <2>1. /\ pc[t] = "parse" /\ Head(rest[t]) \in Line /\ Head(rest[t]).kind # "header"
        /\ loaded' = Append(loaded, Head(rest[t])) /\ loaded \in Seq(Line)
        /\ UNCHANGED <<exists, sections, pc, current>>
    BY <1>0, <1>10, ReadsTypes DEF Skip, Advance, OwnInv, TypeOK
  <2>2. Len(loaded') + 1 = Len(loaded) + 2
    BY <2>1
  <2>3. Headers(loaded', Len(loaded') + 1) = Headers(loaded, Len(loaded) + 1)
    <3>1. Headers(Append(loaded, Head(rest[t])), Len(loaded) + 2) = Headers(loaded, Len(loaded) + 1)
      BY <2>1, HeadersAppend
    <3>2. QED
      BY <2>1, <2>2, <3>1
  <2>4. exists
    BY <1>0, <1>2, <2>1
  <2>5. Phase(t)'
    BY <2>1, <2>3 DEF PhaseInv
  <2>6. QED
    BY <1>0, <1>2, <1>1, <2>1, <2>4, <2>5
<1>11. ASSUME NEW t \in Loaders, NEW s, pc[t] = "parse", Leave(t, s) PROVE PhaseInv'
  BY <1>6a, <1>11 DEF Leave, Return
<1>12. ASSUME NEW t \in Loaders, NEW n \in Names, OpenSection(t, n), pc[t] = "parse", pc' = pc,
              exists' = exists
       PROVE  PhaseInv'
  <2>1. TypeOK
    BY DEF OwnInv
  <2>2. PICK a \in Addresses :
          /\ current' = [current EXCEPT ![t] = a]
          /\ \/ sections' \in [Names -> Addresses \cup {Null}]
             \/ UNCHANGED sections
    BY <1>0, <1>12, <2>1, OpenSectionIs
  <2>3. current'[t] # Null
    BY <1>0, <2>1, <2>2, PointersAssumption DEF TypeOK
  <2>4. DOMAIN sections' = Names
    BY <1>12, <2>2 DEF PhaseInv
  <2>5. exists
    BY <1>0, <1>2, <1>12
  <2>6. QED
    BY <1>0, <1>2, <1>1, <1>12, <2>3, <2>4, <2>5
<1>13. ASSUME NEW t \in Loaders, KnownSection(t) PROVE PhaseInv'
  <2>1. /\ pc[t] = "parse" /\ UNCHANGED <<exists, sections, pc>>
        /\ current' = [current EXCEPT ![t] = Wild]
    BY <1>13 DEF KnownSection, Reads
  <2>2. current'[t] # Null
    BY <1>0, <2>1, PointersAssumption DEF OwnInv, TypeOK
  <2>3. exists
    BY <1>0, <1>2, <2>1
  <2>4. Phase(t)'
    BY <2>1, <2>2 DEF PhaseInv
  <2>5. QED
    BY <1>0, <1>2, <1>1, <2>1, <2>3, <2>4
<1>14. ASSUME NEW t \in Loaders, StorePair(t) PROVE PhaseInv'
  <2>1. /\ pc[t] = "parse" /\ UNCHANGED <<exists, sections, pc, current>>
        /\ current[t] # Null
    BY <1>14, PointersAssumption DEF StorePair, Reads
  <2>2. exists
    BY <1>0, <1>2, <2>1
  <2>3. Phase(t)'
    BY <2>1 DEF PhaseInv
  <2>4. QED
    BY <1>0, <1>2, <1>1, <2>1, <2>2, <2>3
<1>15. ASSUME NEW t \in Loaders, Crash(t) PROVE PhaseInv'
  <2>1. exists /\ exists' = exists /\ pc' = [pc EXCEPT ![t] = "undefined"]
    BY <1>0, <1>2, <1>15 DEF Crash, Reads, Goto
  <2>2. pc'[t] = "undefined" /\ pc' = [pc EXCEPT ![t] = pc'[t]]
    BY <1>0, <2>1 DEF OwnInv, TypeOK
  <2>3. QED
    BY <1>1, <2>1, <2>2
<1>16. ASSUME NEW t \in Loaders, LoadNull(t) PROVE PhaseInv'
  <2>1. NobodyInside /\ ~exists /\ loaded = <<>> /\ loaded' = loaded
    BY <1>16 DEF LoadNull, OwnInv, AloneInv, PhaseInv
  <2>2. CASE exists' /\ sections' = NoSections /\ Goto(t, "open")
    <3>1. \A u \in Loaders : pc'[u] \in {"idle", "open"}
      BY <1>0, <2>1, <2>2 DEF Goto, NobodyInside, OwnInv, TypeOK
    <3>2. QED
      BY <2>1, <2>2, <3>1 DEF PhaseInv
  <2>3. CASE Goto(t, "idle") /\ UNCHANGED <<exists, sections>>
    <3>1. pc' = pc
      BY <1>0, <1>16, <2>3 DEF LoadNull, Goto, OwnInv, TypeOK
    <3>2. QED
      BY <1>5, <1>16, <2>3, <3>1 DEF LoadNull
  <2>4. QED
    BY <1>16, <2>2, <2>3 DEF LoadNull, Return
<1>17. ASSUME NEW t \in Loaders, NewSection(t) PROVE PhaseInv'
  <2>1. Reads(t, "header") /\ OpenSection(t, Head(rest[t]).name) /\ UNCHANGED <<pc, exists>>
    BY <1>17 DEF NewSection
  <2>2. Head(rest[t]).name \in Names /\ pc[t] = "parse"
    BY <1>0, <2>1, ReadsTypes, LineParts DEF OwnInv
  <2>3. QED
    BY <1>12, <2>1, <2>2
<1>18. ASSUME NEW t \in Loaders, GlobalSection(t) PROVE PhaseInv'
  BY <1>12, <1>18, NamesAssumption DEF GlobalSection, Reads
<1>19. ASSUME NEW t \in Loaders, LoadCall(t) PROVE PhaseInv'
  <2>1. CASE Goto(t, "clear")
    BY <1>6, <1>19, <2>1 DEF LoadCall, Shared
  <2>2. CASE Goto(t, "idle")
    <3>1. pc' = pc
      BY <1>0, <1>19, <2>2 DEF LoadCall, Goto, OwnInv, TypeOK
    <3>2. QED
      BY <1>5, <1>19, <3>1 DEF LoadCall
  <2>3. QED
    BY <1>19, <2>1, <2>2 DEF LoadCall, Return
<1>20. ASSUME NEW t \in Readers, NEW n \in Names, NEW k \in Keys, GetValue(t, n, k) PROVE PhaseInv'
  BY <1>5, <1>20 DEF GetValue
<1>21. QED
  BY <1>3, <1>4, <1>5, <1>7, <1>8, <1>9, <1>10, <1>11, <1>13, <1>14, <1>15, <1>16, <1>17, <1>18,
     <1>19, <1>20
  DEF Next, LoadStep, BrokenHeader, NoMemory, LoadDone, Reads, WriteDisk, vars

LEMMA CurrentStep ==
  ASSUME LoadsTakeTurns, OwnInv, PhaseInv, CurrentInv, [Next]_vars
  PROVE  CurrentInv'
<1> DEFINE Belongs(u) ==
      /\ \A n \in Names : sections[n] = current[u] => n = Here
      /\ ~fault => Here \in Names /\ sections[Here] = current[u]
<1>0. /\ \A u \in Loaders : u \in Threads
      /\ \A u \in Loaders : current[u] \in Addresses => pc[u] = "parse" /\ DOMAIN sections = Names
  BY DEF Threads, OwnInv, PhaseInv
<1>1. \A t, u \in Loaders : pc[t] # "idle" /\ u # t => pc[u] = "idle" /\ current[u] \notin Addresses
  BY <1>0 DEF LoadsTakeTurns
\* No step can make an address current but one that opens a section.
<1>2. ASSUME \A u \in Loaders : current'[u] \notin Addresses
      PROVE  CurrentInv'
  BY <1>2 DEF CurrentInv
<1>3. ASSUME UNCHANGED <<sections, fault>>, Here' = Here,
             \A u \in Loaders : current'[u] = current[u]
      PROVE  CurrentInv'
  BY <1>3 DEF CurrentInv
<1>4. CASE Create \/ FreeContext \/ \E t \in Loaders : LoadNull(t)
  <2>1. \A u \in Loaders : current'[u] = current[u] /\ pc[u] = "idle"
    BY <1>0, <1>4 DEF Create, FreeContext, LoadNull, OwnInv, AloneInv, NobodyInside
  <2>2. QED
    BY <1>0, <1>2, <2>1
<1>5. ASSUME NEW t \in Loaders, Clear(t) \/ Open(t) PROVE CurrentInv'
  <2>1. \A u \in Loaders : current'[u] = current[u] /\ pc[u] \in {"idle", "clear", "open"}
    BY <1>1, <1>5 DEF Clear, Open
  <2>2. QED
    BY <1>0, <1>2, <2>1
<1>6. CASE UNCHANGED <<sections, fault, loaded, current>>
  BY <1>3, <1>6 DEF Here
<1>7. ASSUME NEW t \in Loaders, NEW c \in {Null, Wild}, current' = [current EXCEPT ![t] = c], pc[t] # "idle"
      PROVE  CurrentInv'
  <2>1. \A u \in Loaders : current'[u] = IF u = t THEN c ELSE current[u]
    BY <1>0, <1>7 DEF OwnInv, TypeOK
  <2>2. QED
    BY <1>1, <1>2, <1>7, <2>1, PointersAssumption
\* The section stays the same after a line that is no header.
<1>8. ASSUME NEW t \in Loaders, NEW kind \in {"blank", "text", "pair"}, Reads(t, kind), Advance(t)
      PROVE  Here' = Here
  <2>1. /\ Head(rest[t]) \in Line /\ Head(rest[t]).kind # "header"
        /\ loaded \in Seq(Line) /\ loaded' = Append(loaded, Head(rest[t]))
    BY <1>0, <1>8, ReadsTypes DEF Advance, OwnInv, TypeOK
  <2>2. QED
    BY <2>1, SectionAfter DEF Here
<1>9. ASSUME NEW t \in Loaders, Skip(t) PROVE CurrentInv'
  BY <1>3, <1>8, <1>9 DEF Skip
<1>10. ASSUME NEW t \in Loaders, StorePair(t) PROVE CurrentInv'
  <2>1. Here' = Here /\ UNCHANGED <<sections, current>> /\ (fault' = fault \/ fault')
    BY <1>8, <1>10 DEF StorePair
  <2>2. QED
    BY <2>1 DEF CurrentInv
<1>11. ASSUME NEW t \in Loaders, NEW n \in Names, OpenSection(t, n), SectionAt(n) = Null, Here' = n,
              pc[t] = "parse"
       PROVE  CurrentInv'
  <2>1. PICK a \in Addresses :
          /\ current' = [current EXCEPT ![t] = a]
          /\ \A m \in DOMAIN sections : sections[m] # a
          /\ \/ n \in DOMAIN sections /\ sections' = [sections EXCEPT ![n] = a] /\ UNCHANGED fault
             \/ fault' = TRUE /\ UNCHANGED sections
    BY <1>0, <1>11, TablesOpened
  <2>2. \A u \in Loaders : current'[u] \in Addresses => current'[u] = a
    <3>1. \A u \in Loaders : current'[u] = IF u = t THEN a ELSE current[u]
      BY <1>0, <2>1 DEF OwnInv, TypeOK
    <3>2. QED
      BY <1>1, <1>11, <3>1
  <2>3. DOMAIN sections = Names
    BY <1>11 DEF PhaseInv
  <2>4. CASE n \in DOMAIN sections /\ sections' = [sections EXCEPT ![n] = a]
    <3>1. \A m \in Names : sections'[m] = a <=> m = n
      BY <2>1, <2>3, <2>4
    <3>2. QED
      BY <1>11, <2>2, <3>1 DEF CurrentInv
  <2>5. CASE fault' = TRUE /\ UNCHANGED sections
    BY <2>1, <2>2, <2>3, <2>5 DEF CurrentInv
  <2>6. QED
    BY <2>1, <2>4, <2>5
<1>12. ASSUME NEW t \in Loaders, NewSection(t) PROVE CurrentInv'
  <2>1. /\ Head(rest[t]) \in Line /\ Head(rest[t]).kind = "header" /\ Head(rest[t]).name \in Names
        /\ loaded \in Seq(Line) /\ loaded' = Append(loaded, Head(rest[t]))
    BY <1>0, <1>12, ReadsTypes, LineParts DEF NewSection, Advance, OwnInv, TypeOK
  <2>2. Here' = Head(rest[t]).name
    BY <2>1, SectionAfter DEF Here
  <2>3. QED
    BY <1>11, <1>12, <2>1, <2>2 DEF NewSection, Reads
<1>13. ASSUME NEW t \in Loaders, GlobalSection(t) PROVE CurrentInv'
  <2>1. sections = NoSections /\ Headers(loaded, Len(loaded) + 1) = {} /\ loaded' = loaded
    BY <1>13 DEF GlobalSection, Reads, PhaseInv
  <2>2. Here' = Global
    BY <2>1, SectionIs DEF Here
  <2>3. SectionAt(Global) = Null
    BY <2>1, NamesAssumption DEF SectionAt, NoSections
  <2>4. QED
    BY <1>11, <1>13, <2>2, <2>3, NamesAssumption DEF GlobalSection, Reads
<1>14. QED
  BY <1>4, <1>5, <1>6, <1>7, <1>9, <1>10, <1>12, <1>13
  DEF Next, LoadStep, BrokenHeader, NoMemory, LoadDone, Leave, WriteDisk, LoadCall, Relock,
      KnownSection, Crash, GetValue, Reads, vars

-----------------------------------------------------------------------------
(* What the context says, and what is lost *)

\* Nothing that the context says changes, nor does what the file says.
LEMMA ContentsKept ==
  ASSUME ContextIsPrefix, NothingInvented, TypeOK, fault => fault',
         \A n \in Names, k \in Keys : Lookup(n, k)' = Lookup(n, k),
         \/ loaded' = loaded
         \/ \E l \in Line : l.kind # "pair" /\ loaded' = Append(loaded, l)
  PROVE  ContextIsPrefix' /\ NothingInvented'
<1>1. CASE loaded' = loaded
  BY <1>1 DEF ContextIsPrefix, NothingInvented
<1>2. ASSUME NEW l \in Line, l.kind # "pair", loaded' = Append(loaded, l)
      PROVE  ContextIsPrefix' /\ NothingInvented'
  <2>1. loaded \in Seq(Line) /\ \A n, k : ~Assigns(loaded, l, n, k)
    BY <1>2 DEF TypeOK, Assigns
  <2>2. ASSUME NEW n \in Names, NEW k \in Keys PROVE Meaning(loaded', n, k) = Meaning(loaded, n, k)
    BY <1>2, <2>1, MeaningAppend
  <2>3. ASSUME NEW n \in Names, NEW k \in Keys
        PROVE  /\ Assigning(loaded', n, k) = Assigning(loaded, n, k)
               /\ \A i \in Assigning(loaded, n, k) : loaded'[i] = loaded[i]
    <3>1. Assigning(loaded, n, k) \in SUBSET (1..Len(loaded))
      BY <1>2, <2>1, AssigningAppend
    <3>2. Assigning(Append(loaded, l), n, k) = Assigning(loaded, n, k)
      <4>1. Assigning(Append(loaded, l), n, k) =
              Assigning(loaded, n, k) \cup (IF Assigns(loaded, l, n, k) THEN {Len(loaded) + 1} ELSE {})
        BY <2>1, AssigningAppend
      <4>2. ~Assigns(loaded, l, n, k)
        BY <2>1
      <4>3. QED
        BY <4>1, <4>2
    <3>3. \A i \in 1..Len(loaded) : Append(loaded, l)[i] = loaded[i]
      BY <2>1, AppendKeeps
    <3>4. QED
      BY <1>2, <3>1, <3>2, <3>3
  <2>4. ContextIsPrefix'
    BY <2>2 DEF ContextIsPrefix
  <2>5. NothingInvented'
    BY <2>3 DEF NothingInvented
  <2>6. QED
    BY <2>4, <2>5
<1>3. QED
  BY <1>1, <1>2

LEMMA ContentsCleared ==
  ASSUME \A n \in Names : TableAt(n)' = Free, loaded' = <<>>
  PROVE  ContextIsPrefix' /\ NothingInvented'
<1>1. \A n \in Names, k \in Keys : Lookup(n, k)' = Null
  BY LookupIs
<1>2. \A n \in Names, k \in Keys : Meaning(<<>>, n, k) = Null
  BY DEF Meaning, Assigning
<1>3. QED
  BY <1>1, <1>2 DEF ContextIsPrefix, NothingInvented

\* A section is opened without a pair.
LEMMA ContentsOpened ==
  ASSUME LoadInv, NEW t \in Threads, NEW n \in Names, OpenSection(t, n), SectionAt(n) = Null,
         \/ loaded' = loaded
         \/ \E l \in Line : l.kind # "pair" /\ loaded' = Append(loaded, l)
  PROVE  ContextIsPrefix' /\ NothingInvented' /\ LeakedIsLost'
<1>1. PICK a \in Addresses :
        /\ Live' = Live \cup {a}
        /\ a \notin Live
        /\ \A m \in DOMAIN sections : sections[m] # a
        /\ \/ /\ Referenced' = Referenced \cup {a}
              /\ UNCHANGED <<fault, lost>>
              /\ \A m \in Names : TableAt(m)' = IF m = n THEN EmptyTable ELSE TableAt(m)
           \/ /\ fault' = TRUE /\ lost' = lost \cup {a} /\ UNCHANGED sections
              /\ \A m \in Names : TableAt(m)' = TableAt(m)
  BY TablesOpened DEF LoadInv
<1>2. LeakedIsLost'
  BY <1>1 DEF LoadInv, LeakedIsLost, Referenced
<1>3. CASE fault' = TRUE /\ \A m \in Names : TableAt(m)' = TableAt(m)
  <2>1. \A m \in Names, k \in Keys : Lookup(m, k)' = Lookup(m, k)
    BY <1>3, LookupIs
  <2>2. ContextIsPrefix' /\ NothingInvented'
    BY <1>3, <2>1, ContentsKept DEF LoadInv, OwnInv
  <2>3. QED
    BY <1>2, <2>2
<1>4. CASE /\ UNCHANGED fault
           /\ \A m \in Names : TableAt(m)' = IF m = n THEN EmptyTable ELSE TableAt(m)
  <2>1. TableAt(n) = Free
    BY PointersAssumption DEF TableAt, Live
  <2>2. ASSUME NEW m \in Names, NEW k \in Keys PROVE Lookup(m, k)' = Lookup(m, k)
    <3>1. CASE m # n
      BY <1>4, <3>1, LookupIs
    <3>2. CASE m = n
      BY <1>4, <2>1, <3>2, LookupIs, TableTypes DEF EmptyTable
    <3>3. QED
      BY <3>1, <3>2
  <2>3. ContextIsPrefix' /\ NothingInvented'
    BY <1>4, <2>2, ContentsKept DEF LoadInv, OwnInv
  <2>4. QED
    BY <1>2, <2>3
<1>5. QED
  BY <1>1, <1>3, <1>4

\* A pair is stored where the file has it, or its table was lost.
LEMMA ContentsPaired ==
  ASSUME LoadInv, NEW t \in Loaders, StorePair(t)
  PROVE  ContextIsPrefix' /\ NothingInvented' /\ LeakedIsLost'
<1> DEFINE l == Head(rest[t])
<1>1. /\ pc[t] = "parse" /\ l \in Line /\ l.kind = "pair" /\ current[t] \in Live
      /\ OwnInv /\ TypeOK /\ t \in Threads
  BY StorePairIs DEF LoadInv, OwnInv, Threads
<1>2. /\ loaded \in Seq(Line) /\ loaded' = Append(loaded, l) /\ Len(loaded) \in Nat
      /\ l.key \in Keys /\ current[t] \in Addresses /\ DOMAIN sections = Names
  BY <1>1, LineParts DEF TypeOK, StorePair, Advance, LoadInv, PhaseInv
<1>3. /\ \A n \in Names : SectionAt(n) = current[t] => n = Here
      /\ ~fault => Here \in Names /\ SectionAt(Here) = current[t]
  BY <1>2 DEF LoadInv, CurrentInv, SectionAt
<1>4. /\ Live' = Live
      /\ \/ /\ UNCHANGED fault
            /\ \A n \in Names : TableAt(n)' =
                 IF SectionAt(n) = current[t] THEN [TableAt(n) EXCEPT ![l.key] = l.value] ELSE TableAt(n)
         \/ fault' = TRUE /\ \A n \in Names : TableAt(n)' = TableAt(n)
  BY <1>1, TablesPaired
<1>5. LeakedIsLost'
  BY <1>4 DEF LoadInv, LeakedIsLost, StorePair, Referenced
<1>6. ASSUME NEW n \in Names, NEW k \in Keys
      PROVE  /\ Assigning(loaded, n, k) \in SUBSET (1..Len(loaded))
             /\ Assigning(loaded', n, k) = Assigning(loaded, n, k) \cup
                  (IF l.key = k /\ Here = n THEN {Len(loaded) + 1} ELSE {})
             /\ Meaning(loaded', n, k) = IF l.key = k /\ Here = n THEN l.value ELSE Meaning(loaded, n, k)
  BY <1>1, <1>2, AssigningAppend, MeaningAppend DEF Assigns, Here
<1>7. /\ \A i \in 1..Len(loaded) : loaded'[i] = loaded[i]
      /\ loaded'[Len(loaded) + 1] = l
  <2>1. Append(loaded, l)[Len(loaded) + 1] = l
    BY <1>1, <1>2
  <2>2. QED
    BY <1>1, <1>2, <2>1, AppendKeeps
\* What was said before is said still.
<1>8. ASSUME NEW n \in Names, NEW k \in Keys, Lookup(n, k)' = Lookup(n, k), Lookup(n, k)' # Null
      PROVE  \E i \in Assigning(loaded', n, k) : loaded'[i].value = Lookup(n, k)'
  <2>1. PICK i \in Assigning(loaded, n, k) : loaded[i].value = Lookup(n, k)
    BY <1>8 DEF LoadInv, NothingInvented
  <2>2. i \in 1..Len(loaded) /\ i \in Assigning(loaded', n, k)
    BY <1>6, <2>1
  <2>3. QED
    BY <1>7, <1>8, <2>1, <2>2
<1>9. CASE fault' = TRUE /\ \A n \in Names : TableAt(n)' = TableAt(n)
  <2>1. \A n \in Names, k \in Keys : Lookup(n, k)' = Lookup(n, k)
    BY <1>9, LookupIs
  <2>2. NothingInvented'
    BY <1>8, <2>1 DEF NothingInvented
  <2>3. QED
    BY <1>5, <1>9, <2>2 DEF ContextIsPrefix
<1>10. CASE /\ UNCHANGED fault
            /\ \A n \in Names : TableAt(n)' =
                 IF SectionAt(n) = current[t] THEN [TableAt(n) EXCEPT ![l.key] = l.value] ELSE TableAt(n)
  <2>1. ASSUME NEW n \in Names, NEW k \in Keys
        PROVE  Lookup(n, k)' =
                 IF SectionAt(n) = current[t] /\ l.key = k THEN l.value ELSE Lookup(n, k)
    <3>1. CASE SectionAt(n) # current[t]
      BY <1>10, <3>1, LookupIs
    <3>2. CASE SectionAt(n) = current[t]
      <4>1. TableAt(n) \in [Keys -> Values \cup {Null}]
        BY <1>1, <3>2, SectionsTypes DEF TableAt
      <4>2. TableAt(n)' = [TableAt(n) EXCEPT ![l.key] = l.value]
        BY <1>10, <3>2
      <4>3. TableAt(n) # Free /\ TableAt(n)' # Free
        BY <4>1, <4>2, KeysAssumption DEF Free
      <4>4. Lookup(n, k) = TableAt(n)[k] /\ Lookup(n, k)' = TableAt(n)'[k]
        BY <4>3, LookupIs
      <4>5. TableAt(n)'[k] = IF l.key = k THEN l.value ELSE TableAt(n)[k]
        BY <4>1, <4>2
      <4>6. QED
        BY <3>2, <4>4, <4>5
    <3>3. QED
      BY <3>1, <3>2
  <2>2. ContextIsPrefix'
    <3>1. ASSUME ~fault', NEW n \in Names, NEW k \in Keys
          PROVE  Lookup(n, k)' = Meaning(loaded', n, k)
      <4>1. ~fault /\ (SectionAt(n) = current[t] <=> Here = n)
        BY <1>3, <1>10, <3>1
      <4>2. Lookup(n, k) = Meaning(loaded, n, k)
        BY <4>1 DEF LoadInv, ContextIsPrefix
      <4>3. QED
        BY <1>6, <2>1, <4>1, <4>2
    <3>2. QED
      BY <3>1 DEF ContextIsPrefix
  <2>3. ASSUME NEW n \in Names, NEW k \in Keys, Lookup(n, k)' # Null
        PROVE  \E i \in Assigning(loaded', n, k) : loaded'[i].value = Lookup(n, k)'
    <3>1. CASE SectionAt(n) = current[t] /\ l.key = k
      <4>1. Len(loaded) + 1 \in Assigning(loaded', n, k)
        BY <1>3, <1>6, <3>1
      <4>2. QED
        BY <1>7, <2>1, <3>1, <4>1
    <3>2. CASE ~(SectionAt(n) = current[t] /\ l.key = k)
      BY <1>8, <2>1, <2>3, <3>2
    <3>3. QED
      BY <3>1, <3>2
  <2>4. QED
    BY <1>5, <2>2, <2>3 DEF NothingInvented
<1>11. QED
  BY <1>4, <1>9, <1>10

ContentsInv == LeakedIsLost /\ ContextIsPrefix /\ NothingInvented

LEMMA ContentsStep ==
  ASSUME LoadInv, [Next]_vars
  PROVE  ContentsInv'
\* A step that leaves the context and what was read of the file alone.
<1>1. ASSUME UNCHANGED <<sections, tables, loaded, fault, lost>> PROVE ContentsInv'
  BY <1>1 DEF LoadInv, ContentsInv, LeakedIsLost, ContextIsPrefix, NothingInvented,
              Live, Referenced, Lookup, SectionAt
<1>2. ASSUME NEW t \in Loaders, NEW l \in Line, l.kind # "pair", loaded' = Append(loaded, l),
             UNCHANGED <<sections, tables, fault, lost>>
      PROVE  ContentsInv'
  <2>1. \A n \in Names, k \in Keys : Lookup(n, k)' = Lookup(n, k)
    BY <1>2 DEF Lookup, SectionAt, Live
  <2>2. ContextIsPrefix' /\ NothingInvented'
    BY <1>2, <2>1, ContentsKept DEF LoadInv, OwnInv
  <2>3. LeakedIsLost'
    BY <1>2 DEF LoadInv, LeakedIsLost, Live, Referenced
  <2>4. QED
    BY <2>2, <2>3 DEF ContentsInv
<1>3. ASSUME tables' = Destroyed, sections' \in {NoSections, NoTable}, loaded' = <<>>, lost' = lost
      PROVE  ContentsInv'
  <2>1. (\A n \in Names : TableAt(n)' = Free) /\ Live' = Live \ Referenced /\ Referenced' = {}
    BY <1>3, TablesCleared DEF LoadInv
  <2>2. ContextIsPrefix' /\ NothingInvented'
    BY <1>3, <2>1, ContentsCleared
  <2>3. LeakedIsLost'
    BY <1>3, <2>1 DEF LoadInv, LeakedIsLost
  <2>4. QED
    BY <2>2, <2>3 DEF ContentsInv
<1>4. ASSUME ~exists, sections' = NoSections, UNCHANGED <<tables, loaded, fault, lost>>
      PROVE  ContentsInv'
  <2>1. sections = NoTable /\ sections' = NoSections /\ UNCHANGED <<tables, loaded, fault, lost>>
    BY <1>4 DEF LoadInv, PhaseInv
  <2>2. \A n \in Names : SectionAt(n) = Null /\ SectionAt(n)' = Null
    BY <2>1 DEF SectionAt, NoTable, NoSections
  <2>3. \A n \in Names, k \in Keys : Lookup(n, k)' = Lookup(n, k)
    BY <2>1, <2>2 DEF Lookup, Live
  <2>4. Referenced = {} /\ Referenced' = {} /\ Live' = Live
    BY <2>1 DEF Referenced, NoTable, NoSections, Live
  <2>5. ContextIsPrefix' /\ NothingInvented'
    BY <2>1, <2>3, ContentsKept DEF LoadInv, OwnInv
  <2>6. QED
    BY <2>1, <2>4, <2>5 DEF LoadInv, LeakedIsLost, ContentsInv
<1>5. CASE FreeContext
  BY <1>3, <1>5 DEF FreeContext
<1>6. ASSUME NEW t \in Loaders, Clear(t) PROVE ContentsInv'
  BY <1>3, <1>6 DEF Clear, ClearedSections
<1>7. ASSUME NEW t \in Loaders, NEW kind \in {"blank", "text", "header"}, Reads(t, kind), Advance(t)
      PROVE  \E l \in Line : l.kind # "pair" /\ loaded' = Append(loaded, l)
  BY <1>7, ReadsTypes DEF Advance, LoadInv, OwnInv, Threads
<1>8. ASSUME NEW t \in Loaders, Skip(t) \/ KnownSection(t) PROVE ContentsInv'
  <2>1. \E l \in Line : l.kind # "pair" /\ loaded' = Append(loaded, l)
    BY <1>7, <1>8 DEF Skip, KnownSection
  <2>2. UNCHANGED <<sections, tables, fault, lost>>
    BY <1>8 DEF Skip, KnownSection
  <2>3. QED
    BY <1>2, <2>1, <2>2, <1>8
<1>9. ASSUME NEW t \in Loaders, NewSection(t) PROVE ContentsInv'
  <2>1. \E l \in Line : l.kind # "pair" /\ loaded' = Append(loaded, l)
    BY <1>7, <1>9 DEF NewSection
  <2>2. t \in Threads /\ Head(rest[t]).name \in Names
    BY <1>9, ReadsTypes, LineParts DEF NewSection, Threads, LoadInv, OwnInv
  <2>3. QED
    BY <1>9, <2>1, <2>2, ContentsOpened DEF NewSection, ContentsInv
<1>10. ASSUME NEW t \in Loaders, GlobalSection(t) PROVE ContentsInv'
  <2>1. SectionAt(Global) = Null /\ t \in Threads
    BY <1>10 DEF GlobalSection, Reads, LoadInv, PhaseInv, SectionAt, NoSections, Threads
  <2>2. QED
    BY <1>10, <2>1, NamesAssumption, ContentsOpened DEF GlobalSection, ContentsInv
<1>11. ASSUME NEW t \in Loaders, StorePair(t) PROVE ContentsInv'
  BY <1>11, ContentsPaired DEF ContentsInv
<1>12. ASSUME NEW s, Finish(s) PROVE ContentsInv'
  <2>1. CASE UNCHANGED <<sections, tables, loaded, fault, lost>>
    BY <1>1, <2>1
  <2>2. CASE /\ \A n \in Names : TableAt(n)' = Free
             /\ loaded' = <<>>
             /\ LeakedIsLost => LeakedIsLost'
    BY <2>2, ContentsCleared DEF LoadInv, ContentsInv
  <2>3. QED
    BY <1>12, <2>1, <2>2, TablesFinished DEF LoadInv
<1>13. ASSUME NEW t \in Readers, NEW n \in Names, NEW k \in Keys, GetValue(t, n, k) PROVE ContentsInv'
  BY <1>1, <1>13 DEF GetValue
<1>14. CASE WriteDisk \/ UNCHANGED vars
  BY <1>1, <1>14 DEF WriteDisk, vars
<1>15. ASSUME NEW t \in Loaders, LoadCall(t) \/ Relock(t) \/ Crash(t) PROVE ContentsInv'
  BY <1>1, <1>15 DEF LoadCall, Relock, Crash
<1>16. ASSUME NEW t \in Loaders, Open(t) \/ BrokenHeader(t) \/ NoMemory(t) \/ LoadDone(t)
       PROVE  ContentsInv'
  BY <1>1, <1>12, <1>16 DEF Open, BrokenHeader, NoMemory, LoadDone, Leave
<1>17. CASE Create \/ \E t \in Loaders : LoadNull(t)
  BY <1>1, <1>4, <1>17 DEF Create, LoadNull
<1>18. QED
  BY <1>5, <1>6, <1>8, <1>9, <1>10, <1>11, <1>13, <1>14, <1>15, <1>16, <1>17 DEF Next, LoadStep

LEMMA LoadInit == Init => LoadInv
<1> SUFFICES ASSUME Init PROVE LoadInv
  OBVIOUS
<1>1. OwnInv
  BY OwnInit
<1>2. PhaseInv
  BY DEF Init, PhaseInv, Threads
<1>3. CurrentInv
  BY PointersAssumption DEF Init, CurrentInv, Threads
<1>4. Live = {} /\ lost = {}
  BY DEF Init, Live
<1>5. \A n \in Names, k \in Keys : Lookup(n, k) = Null
  BY <1>4 DEF Lookup
<1>6. \A n \in Names, k \in Keys : Meaning(loaded, n, k) = Null
  BY DEF Init, Meaning, Assigning
<1>7. QED
  BY <1>1, <1>2, <1>3, <1>4, <1>5, <1>6 DEF LoadInv, LeakedIsLost, ContextIsPrefix, NothingInvented

\* LoadInv is inductive as long as loads take turns.
LEMMA LoadInvStep == LoadInv /\ LoadsTakeTurns /\ LoadsTakeTurns' /\ [Next]_vars => LoadInv'
BY OwnStep, PhaseStep, CurrentStep, ContentsStep DEF LoadInv, ContentsInv

\* LoadInv holds of every state, and so does what it says of the context.
THEOREM LoadInvariant == Spec /\ []LoadsTakeTurns => []LoadInv
BY LoadInit, LoadInvStep, PTL DEF Spec

\* The tables that are leaked are those whose address could not be stored, and
\* those of a successful load that was given NULL: every other way out of a
\* load, of either kind, accounts for each table it made.
THEOREM LeakBound == Spec /\ []LoadsTakeTurns => []LeakedIsLost
BY LoadInvariant, PTL DEF LoadInv

\* The context says what the lines parsed since it was cleared say.
THEOREM Meaningful == Spec /\ []LoadsTakeTurns => []ContextIsPrefix
BY LoadInvariant, PTL DEF LoadInv

\* No value is answered that the file does not give to that key there.
THEOREM Honest == Spec /\ []LoadsTakeTurns => []NothingInvented
BY LoadInvariant, PTL DEF LoadInv

-----------------------------------------------------------------------------
(* Refinement: the steps of the context as steps of IniStore *)

\* What the pointers lead to, and what the readers were answered.
StoreOf == [n \in Names |-> IF SectionAt(n) \in Live THEN tables[SectionAt(n)] ELSE Free]
Answers == [r \in Readers |-> answer[r]]

LEMMA StoreOfIs ==
  /\ StoreOf = [n \in Names |-> TableAt(n)]
  /\ StoreOf' = [n \in Names |-> TableAt(n)']
BY DEF StoreOf, TableAt

LEMMA AnswersKept == answer' = answer => Answers' = Answers
BY DEF Answers

LEMMA AsStutter ==
  ASSUME \A n \in Names : TableAt(n)' = TableAt(n), answer' = answer
  PROVE  UNCHANGED Store!storeVars
<1>1. StoreOf' = StoreOf /\ Answers' = Answers
  BY StoreOfIs, AnswersKept
<1>2. QED
  BY <1>1 DEF StoreOf, Answers, Store!storeVars

LEMMA AsClear ==
  ASSUME \A n \in Names : TableAt(n)' = Free, answer' = answer
  PROVE  Store!StoreNext
<1>1. StoreOf' = [n \in Names |-> Free] /\ Answers' = Answers
  BY StoreOfIs, AnswersKept
<1>2. Store!Clear
  BY <1>1 DEF StoreOf, Answers, Free, Store!Clear, Store!Empty, Store!Absent
<1>3. QED
  BY <1>2 DEF Store!StoreNext

LEMMA AsOpen ==
  ASSUME NEW n \in Names, TableAt(n) = Free, answer' = answer,
         \A m \in Names : TableAt(m)' = IF m = n THEN EmptyTable ELSE TableAt(m)
  PROVE  Store!StoreNext
<1>1. StoreOf' = [StoreOf EXCEPT ![n] = EmptyTable] /\ Answers' = Answers /\ StoreOf[n] = Free
  BY StoreOfIs, AnswersKept
<1>2. Store!Open(n)
  BY <1>1 DEF StoreOf, Answers, Free, EmptyTable, Store!Open, Store!NoPairs, Store!Absent
<1>3. QED
  BY <1>2 DEF Store!StoreNext

LEMMA AsPut ==
  ASSUME NEW n \in Names, NEW k \in Keys, NEW v \in Values, TableAt(n) # Free, answer' = answer,
         \A m \in Names : TableAt(m)' = IF m = n THEN [TableAt(m) EXCEPT ![k] = v] ELSE TableAt(m)
  PROVE  Store!StoreNext
<1>1. StoreOf' = [StoreOf EXCEPT ![n] = [StoreOf[n] EXCEPT ![k] = v]] /\ Answers' = Answers
      /\ StoreOf[n] # Free
  BY StoreOfIs, AnswersKept
<1>2. Store!Put(n, k, v)
  BY <1>1 DEF StoreOf, Answers, Free, Store!Put, Store!Absent
<1>3. QED
  BY <1>2 DEF Store!StoreNext

LEMMA AsGet ==
  ASSUME TypeOK, NEW r \in Readers, NEW n \in Names, NEW k \in Keys, NEW v \in {Lookup(n, k), Null},
         answer' = [answer EXCEPT ![r] = v], \A m \in Names : TableAt(m)' = TableAt(m)
  PROVE  Store!StoreNext
<1>1. StoreOf' = StoreOf /\ Answers' = [Answers EXCEPT ![r] = v]
  BY StoreOfIs DEF Answers, TypeOK, Threads
<1>2. Store!Stored(n, k) = Lookup(n, k)
  BY LookupIs, StoreOfIs DEF StoreOf, Free, Store!Stored, Store!Absent
<1>3. Store!Get(r, n, k)
  BY <1>1, <1>2 DEF StoreOf, Answers, Store!Get
<1>4. QED
  BY <1>3 DEF Store!StoreNext

LEMMA StepRefines ==
  ASSUME LoadInv, [Next]_vars
  PROVE  [Store!StoreNext]_Store!storeVars
<1>1. OwnInv /\ TypeOK
  BY DEF LoadInv, OwnInv
<1>2. ASSUME UNCHANGED <<sections, tables, answer>> PROVE UNCHANGED Store!storeVars
  BY <1>2, AsStutter DEF TableAt, SectionAt, Live
<1>3. ASSUME tables' = Destroyed, sections' \in {NoSections, NoTable}, answer' = answer
      PROVE  Store!StoreNext
  BY <1>1, <1>3, TablesCleared, AsClear
<1>4. ASSUME NEW t \in Threads, NEW n \in Names, OpenSection(t, n), SectionAt(n) = Null, answer' = answer
      PROVE  [Store!StoreNext]_Store!storeVars
  <2>1. \/ \A m \in Names : TableAt(m)' = IF m = n THEN EmptyTable ELSE TableAt(m)
        \/ \A m \in Names : TableAt(m)' = TableAt(m)
    BY <1>1, <1>4, TablesOpened
  <2>2. TableAt(n) = Free
    BY <1>4, PointersAssumption DEF TableAt, Live
  <2>3. QED
    BY <1>4, <2>1, <2>2, AsOpen, AsStutter
<1>5. ASSUME ~exists, sections' = NoSections, UNCHANGED <<tables, answer>>
      PROVE  UNCHANGED Store!storeVars
  <2>1. sections = NoTable /\ sections' = NoSections /\ UNCHANGED <<tables, answer>>
    BY <1>5 DEF LoadInv, PhaseInv
  <2>2. \A n \in Names : SectionAt(n) = Null /\ SectionAt(n)' = Null
    BY <2>1 DEF SectionAt, NoTable, NoSections
  <2>3. Null \notin Live /\ Null \notin Live'
    BY PointersAssumption DEF Live
  <2>4. \A n \in Names : TableAt(n)' = TableAt(n)
    BY <2>2, <2>3 DEF TableAt
  <2>5. QED
    BY <2>1, <2>4, AsStutter
<1>6. CASE FreeContext
  BY <1>3, <1>6 DEF FreeContext
<1>7. ASSUME NEW t \in Loaders, Clear(t) PROVE [Store!StoreNext]_Store!storeVars
  BY <1>3, <1>7 DEF Clear, ClearedSections
<1>8. ASSUME NEW t \in Loaders, NewSection(t) PROVE [Store!StoreNext]_Store!storeVars
  <2>1. t \in Threads /\ Head(rest[t]).name \in Names
    BY <1>1, <1>8, ReadsTypes, LineParts DEF NewSection, Threads
  <2>2. QED
    BY <1>4, <1>8, <2>1 DEF NewSection
<1>9. ASSUME NEW t \in Loaders, GlobalSection(t) PROVE [Store!StoreNext]_Store!storeVars
  <2>1. SectionAt(Global) = Null /\ t \in Threads
    BY <1>9 DEF GlobalSection, Reads, LoadInv, PhaseInv, SectionAt, NoSections, Threads
  <2>2. QED
    BY <1>4, <1>9, <2>1, NamesAssumption DEF GlobalSection
<1>10. ASSUME NEW t \in Loaders, StorePair(t) PROVE [Store!StoreNext]_Store!storeVars
  <2> DEFINE l == Head(rest[t])
  <2>1. /\ l.key \in Keys /\ l.value \in Values /\ answer' = answer /\ current[t] \in Live
    BY <1>1, <1>10, StorePairIs, LineParts DEF StorePair
  <2>2. \/ \A n \in Names : TableAt(n)' =
             IF SectionAt(n) = current[t] THEN [TableAt(n) EXCEPT ![l.key] = l.value] ELSE TableAt(n)
        \/ \A n \in Names : TableAt(n)' = TableAt(n)
    BY <1>1, <1>10, TablesPaired
  <2>3. CASE \A n \in Names : SectionAt(n) # current[t]
    <3>1. \A n \in Names : TableAt(n)' = TableAt(n)
      BY <2>2, <2>3
    <3>2. QED
      BY <2>1, <3>1, AsStutter
  <2>4. ASSUME NEW n \in Names, SectionAt(n) = current[t]
        PROVE  [Store!StoreNext]_Store!storeVars
    <3>1. \A m \in Names : SectionAt(m) = current[t] => m = n
      BY <1>1, <2>1, <2>4, PointersAssumption DEF OwnInv, SectionsOwnTables, SectionAt, Live
    <3>2. TableAt(n) # Free
      BY <2>1, <2>4 DEF TableAt, Live
    <3>3. CASE \A m \in Names : TableAt(m)' = TableAt(m)
      BY <2>1, <3>3, AsStutter
    <3>4. CASE \A m \in Names : TableAt(m)' =
                 IF SectionAt(m) = current[t] THEN [TableAt(m) EXCEPT ![l.key] = l.value] ELSE TableAt(m)
      <4>1. \A m \in Names : TableAt(m)' =
              IF m = n THEN [TableAt(m) EXCEPT ![l.key] = l.value] ELSE TableAt(m)
        BY <2>4, <3>1, <3>4
      <4>2. QED
        BY <2>1, <3>2, <4>1, AsPut
    <3>5. QED
      BY <2>2, <3>3, <3>4
  <2>5. QED
    BY <2>3, <2>4
<1>11. ASSUME NEW s, Finish(s), answer' = answer PROVE [Store!StoreNext]_Store!storeVars
  BY <1>1, <1>2, <1>11, TablesFinished, AsClear
<1>12. ASSUME NEW r \in Readers, NEW n \in Names, NEW k \in Keys, GetValue(r, n, k)
       PROVE  [Store!StoreNext]_Store!storeVars
  <2>1. PICK v \in {Lookup(n, k), Null} : answer' = [answer EXCEPT ![r] = v]
    BY <1>12 DEF GetValue, Answer
  <2>2. \A m \in Names : TableAt(m)' = TableAt(m)
    BY <1>12 DEF GetValue, TableAt, SectionAt, Live
  <2>3. QED
    BY <1>1, <2>1, <2>2, AsGet
<1>13. CASE WriteDisk \/ UNCHANGED vars
  BY <1>2, <1>13 DEF WriteDisk, vars
<1>14. ASSUME NEW t \in Loaders,
              LoadCall(t) \/ Relock(t) \/ Skip(t) \/ KnownSection(t) \/ Crash(t)
       PROVE  UNCHANGED Store!storeVars
  BY <1>2, <1>14 DEF LoadCall, Relock, Skip, KnownSection, Crash
<1>15. ASSUME NEW t \in Loaders, Open(t) \/ BrokenHeader(t) \/ NoMemory(t) \/ LoadDone(t)
       PROVE  [Store!StoreNext]_Store!storeVars
  BY <1>2, <1>11, <1>15 DEF Open, BrokenHeader, NoMemory, LoadDone, Leave
<1>16. CASE Create \/ \E t \in Loaders : LoadNull(t)
  BY <1>2, <1>5, <1>16 DEF Create, LoadNull
<1>17. QED
  BY <1>6, <1>7, <1>8, <1>9, <1>10, <1>12, <1>13, <1>14, <1>15, <1>16 DEF Next, LoadStep

\* Following the pointers gives the map of maps of IniStore, whatever fails.
THEOREM Refinement == Spec /\ []LoadsTakeTurns => ImplementsStore
<1>1. Init => Store!StoreInit
  <2> SUFFICES ASSUME Init PROVE Store!StoreInit
    OBVIOUS
  <2>1. Live = {}
    BY DEF Init, Live
  <2>2. StoreOf = [n \in Names |-> Free] /\ Answers \in [Readers -> {Null}]
    BY <2>1 DEF Init, StoreOf, Answers, Threads
  <2>3. QED
    BY <2>2 DEF StoreOf, Answers, Free, Store!StoreInit, Store!Empty, Store!Absent
<1>2. LoadInv /\ [Next]_vars => [Store!StoreNext]_Store!storeVars
  BY StepRefines
<1>3. QED
  BY <1>1, <1>2, LoadInvariant, PTL DEF Spec, ImplementsStore, Store!StoreSpec
=============================================================================
