--------------------------- MODULE IniSave_proofs ---------------------------
(***************************************************************************)
(* Proofs about IniSave, for any number of threads, any texts and buffers  *)
(* of any size: when all saves have returned the file is one whole text,   *)
(* or how one begins if the process crashed; a section save truncates no   *)
(* text; and ini_load understands every file that ini_good accepts.        *)
(***************************************************************************)
EXTENDS IniSave, IniText_proofs

\* What ini_save has printed when it has passed n sections.
SoFar(n) == Upto(Parts(contents, slots), n)

PCs == {"idle", "opened", "iterating", "printed", "looking", "creating", "copying", "printing"}
Inside == {"iterating", "looking", "creating", "copying", "printing"}

\* The types of the variables.
Types ==
  /\ IsContext(contents)
  /\ slots \in Seq(DOMAIN contents) /\ DOMAIN contents = {slots[i] : i \in DOMAIN slots}
  /\ file \in Text \cup {NoFile} /\ target \in Text \cup {NoFile}
  /\ lock \in Threads \cup {NoThread}
  /\ pc \in [Threads -> PCs]
  /\ next \in [Threads -> Nat \ {0}]
  /\ buffer \in [Threads -> Text]
  /\ at \in [Threads -> Nat]
  /\ plan \in [Threads -> Text \cup {NoText}]
  /\ damage \subseteq {"cut", "gap", "shared", "mixed"}

\* What a thread has by where it is.
ThreadInv(t) ==
  /\ lock = t <=> pc[t] \in Inside
  /\ pc[t] \in {"idle", "opened", "looking", "printing"} => buffer[t] = <<>>
  /\ pc[t] \in {"idle", "opened", "looking", "printing", "creating"} => at[t] = 0
  /\ pc[t] \notin {"iterating", "printed"} => next[t] = 1
  /\ pc[t] \in {"idle", "opened", "printing"} => plan[t] = NoText
  /\ pc[t] \in {"iterating", "printed", "creating", "copying"} => plan[t] \in Text
  /\ pc[t] = "iterating" => plan[t] = SavedText(contents, slots) /\ next[t] <= Len(slots) + 1
  /\ pc[t] = "creating" => buffer[t] = plan[t]

\* Whose file has been removed has it open, and has written nothing to the one
\* at the path.
GoneInv == gone \subseteq Streams /\ \A t \in gone : at[t] = 0

\* Who has the file open.
OpenInv ==
  /\ file = NoFile <=> target = NoFile
  /\ file = NoFile => Writing = {}
  /\ (\E t \in Threads : pc[t] = "creating") =>
       file \in {NoFile, <<>>} /\ \A u \in Writing : pc[u] = "opened"
  /\ "shared" \notin damage => \A t, u \in Writing : t = u
  /\ "cut" \in damage => Writing = {}

\* The text has s at an offset.
Has(text, s, offset) == \A i \in 1..Len(s) : s[i] = text[offset + i]

\* Unless a write failed, what a thread has buffered is what comes next in its
\* text, as far as it has printed it.
Carried(t) ==
  /\ at[t] + Len(buffer[t]) <= Len(plan[t])
  /\ Has(plan[t], buffer[t], at[t])
  /\ pc[t] \in {"printed", "copying"} => at[t] + Len(buffer[t]) = Len(plan[t])
  /\ pc[t] = "iterating" => at[t] + Len(buffer[t]) = Len(SoFar(next[t] - 1))
CarriedInv ==
  "gap" \notin damage => \A t \in Writing : pc[t] # "opened" => Carried(t)

\* Unless two texts are being written, all that write have one, the target.
PlansInv == "mixed" \notin damage => \A t \in Writing : plan[t] \in {NoText, target}

\* A writer that has the file to itself has written how the target begins.
PrefixInv ==
  damage \subseteq {"cut"} /\ file # NoFile =>
    Begins(file, target) /\ \A t \in Writing : at[t] = Len(file)

\* Writers that share the file write the same text; where it is not in the file
\* yet, one of them has still to come.
CoverInv ==
  damage \subseteq {"shared"} /\ file # NoFile =>
    /\ Len(file) <= Len(target)
    /\ \A i \in 1..Len(target) :
         \/ i <= Len(file) /\ file[i] = target[i]
         \/ \E u \in Writing : at[u] < i

SaveInv ==
  /\ Types
  /\ \A t \in Threads : ThreadInv(t)
  /\ GoneInv /\ OpenInv /\ CarriedInv /\ PlansInv /\ PrefixInv /\ CoverInv

-----------------------------------------------------------------------------

\* What a step makes of the thread t: where it is, which section comes next,
\* what it has buffered, how far it has written, and what it is to write.
Becomes(t, p, n, b, a, text) ==
  /\ pc' = [pc EXCEPT ![t] = p]
  /\ next' = [next EXCEPT ![t] = n]
  /\ buffer' = [buffer EXCEPT ![t] = b]
  /\ at' = [at EXCEPT ![t] = a]
  /\ plan' = [plan EXCEPT ![t] = text]

\* The lock stays where it is, or goes from nobody to t, or back.
LockMoves(t) ==
  \/ lock' = lock
  \/ lock = NoThread /\ lock' = t
  \/ lock = t /\ lock' = NoThread

\* The other threads stand still.
LEMMA Became ==
  ASSUME SaveInv, NEW t \in Threads, NEW p \in PCs, NEW n \in Nat \ {0}, NEW b \in Text,
         NEW a \in Nat, NEW text \in Text \cup {NoText}, Becomes(t, p, n, b, a, text),
         UNCHANGED <<contents, slots>>, LockMoves(t),
         file' \in Text \cup {NoFile}, target' \in Text \cup {NoFile},
         damage' \subseteq {"cut", "gap", "shared", "mixed"}
  PROVE  /\ Types'
         /\ pc'[t] = p /\ next'[t] = n /\ buffer'[t] = b /\ at'[t] = a /\ plan'[t] = text
         /\ \A u \in Threads \ {t} :
              /\ pc'[u] = pc[u] /\ at'[u] = at[u] /\ plan'[u] = plan[u] /\ buffer'[u] = buffer[u]
              /\ ThreadInv(u)'
              /\ Carried(u) => Carried(u)'
<1>1. /\ pc \in [Threads -> PCs] /\ next \in [Threads -> Nat \ {0}]
      /\ buffer \in [Threads -> Text] /\ at \in [Threads -> Nat]
      /\ plan \in [Threads -> Text \cup {NoText}] /\ lock \in Threads \cup {NoThread}
  BY DEF SaveInv, Types
<1>2. Types'
  <2>1. /\ pc' \in [Threads -> PCs] /\ next' \in [Threads -> Nat \ {0}]
        /\ buffer' \in [Threads -> Text] /\ at' \in [Threads -> Nat]
        /\ plan' \in [Threads -> Text \cup {NoText}]
    BY <1>1 DEF Becomes
  <2>2. lock' \in Threads \cup {NoThread}
    BY <1>1 DEF LockMoves
  <2>3. /\ IsContext(contents)' /\ (slots \in Seq(DOMAIN contents))'
        /\ (DOMAIN contents = {slots[i] : i \in DOMAIN slots})'
    BY DEF SaveInv, Types
  <2>4. QED
    BY <2>1, <2>2, <2>3 DEF Types
<1>3. pc'[t] = p /\ next'[t] = n /\ buffer'[t] = b /\ at'[t] = a /\ plan'[t] = text
  BY <1>1 DEF Becomes
<1>4. ASSUME NEW u \in Threads \ {t}
      PROVE  /\ pc'[u] = pc[u] /\ at'[u] = at[u] /\ plan'[u] = plan[u] /\ buffer'[u] = buffer[u]
             /\ ThreadInv(u)'
             /\ Carried(u) => Carried(u)'
  <2>1. /\ pc'[u] = pc[u] /\ at'[u] = at[u] /\ plan'[u] = plan[u] /\ buffer'[u] = buffer[u]
        /\ next'[u] = next[u]
    BY <1>1 DEF Becomes
  <2>2. lock' = u <=> lock = u
    BY SaveThreadsAssumption DEF LockMoves
  <2>3. /\ SavedText(contents, slots)' = SavedText(contents, slots) /\ Len(slots)' = Len(slots)
        /\ SoFar(next[u] - 1)' = SoFar(next'[u] - 1)
    BY DEF SavedText, SoFar, Parts, Printed
  <2>4. ThreadInv(u)
    BY DEF SaveInv
  <2>5. ThreadInv(u)'
    BY <2>1, <2>2, <2>3, <2>4 DEF ThreadInv
  <2>6. Carried(u) => Carried(u)'
    BY <2>1, <2>3 DEF Carried
  <2>7. QED
    BY <2>1, <2>5, <2>6
<1>5. QED
  BY <1>2, <1>3, <1>4

\* A thread that stands still becomes what it is.
LEMMA StandsStill ==
  ASSUME Types, NEW t \in Threads
  PROVE  /\ next = [next EXCEPT ![t] = next[t]] /\ buffer = [buffer EXCEPT ![t] = buffer[t]]
         /\ at = [at EXCEPT ![t] = at[t]] /\ plan = [plan EXCEPT ![t] = plan[t]]
         /\ pc = [pc EXCEPT ![t] = pc[t]]
         /\ next[t] \in Nat \ {0} /\ buffer[t] \in Text /\ at[t] \in Nat
         /\ plan[t] \in Text \cup {NoText} /\ pc[t] \in PCs
BY DEF Types

OpenPCs == {"opened", "iterating", "printed", "copying"}

\* A step that leaves the file alone, and whose thread writes as before.
LEMMA Quiet ==
  ASSUME SaveInv, NEW t \in Threads, NEW p \in PCs, NEW n \in Nat \ {0}, NEW b \in Text,
         NEW a \in Nat, NEW text \in Text \cup {NoText}, Becomes(t, p, n, b, a, text),
         UNCHANGED <<contents, slots, file, target, damage, gone>>, LockMoves(t),
         ThreadInv(t)', pc[t] # "opened", p # "opened", p \in OpenPCs <=> pc[t] \in OpenPCs,
         p \in OpenPCs => a = at[t] /\ text = plan[t] /\ (Carried(t) => Carried(t)'),
         p = "creating" => file = NoFile
  PROVE  SaveInv'
<1>1. /\ Types /\ Types'
      /\ pc'[t] = p /\ next'[t] = n /\ buffer'[t] = b /\ at'[t] = a /\ plan'[t] = text
      /\ \A u \in Threads \ {t} :
           /\ pc'[u] = pc[u] /\ at'[u] = at[u] /\ plan'[u] = plan[u] /\ buffer'[u] = buffer[u]
           /\ ThreadInv(u)'
           /\ Carried(u) => Carried(u)'
  BY Became, ZenonT(60) DEF SaveInv, Types
<1>2. Writing' = Writing
  BY <1>1 DEF Writing, Streams, OpenPCs
<1>3. \A u \in Writing : at'[u] = at[u] /\ plan'[u] = plan[u] /\ (pc'[u] = "opened" <=> pc[u] = "opened")
  BY <1>1 DEF Writing, Streams, OpenPCs
<1>4. OpenInv'
  <2>1. ASSUME NEW c \in Threads, pc'[c] = "creating"
        PROVE  file' \in {NoFile, <<>>} /\ \A u \in Writing' : pc'[u] = "opened"
    <3>1. CASE c = t
      BY <1>1, <1>2, <2>1, <3>1 DEF SaveInv, OpenInv
    <3>2. CASE c # t
      <4>1. pc[c] = "creating"
        BY <1>1, <2>1, <3>2
      <4>2. QED
        BY <1>2, <1>3, <4>1 DEF SaveInv, OpenInv
    <3>3. QED
      BY <3>1, <3>2
  <2>2. QED
    BY <1>2, <2>1 DEF SaveInv, OpenInv
<1>5. CarriedInv'
  BY <1>1, <1>2, <1>3 DEF SaveInv, CarriedInv, Writing, Streams, OpenPCs
<1>6. PlansInv' /\ PrefixInv' /\ CoverInv'
  BY <1>2, <1>3 DEF SaveInv, PlansInv, PrefixInv, CoverInv, Begins
<1>7. GoneInv'
  BY <1>1 DEF SaveInv, GoneInv, Streams, OpenPCs
<1>8. QED
  BY <1>1, <1>4, <1>5, <1>6, <1>7 DEF SaveInv

\* How a thread is called and returns when it has not opened the file.
LEMMA ReturnsQuietly ==
  ASSUME SaveInv, NEW t \in Threads, pc[t] \in {"looking", "creating", "printing"},
         Becomes(t, "idle", 1, <<>>, 0, NoText), lock' = NoThread,
         UNCHANGED <<contents, slots, file, target, damage>>, gone' \in {gone, gone \ {t}}
  PROVE  SaveInv'
<1>1. lock = t /\ LockMoves(t) /\ "idle" \in PCs /\ <<>> \in Text
  BY CharacterTexts DEF SaveInv, ThreadInv, Inside, LockMoves, PCs
<1>2. pc'[t] = "idle" /\ next'[t] = 1 /\ buffer'[t] = <<>> /\ at'[t] = 0 /\ plan'[t] = NoText
  BY DEF Becomes, SaveInv, Types
<1>3. ThreadInv(t)'
  BY <1>2, SaveThreadsAssumption DEF ThreadInv, Inside
<1>4. gone' = gone
  BY DEF SaveInv, GoneInv, Streams
<1>5. QED
  BY <1>1, <1>3, <1>4, Quiet DEF OpenPCs

LEMMA CalledQuietly ==
  ASSUME SaveInv, NEW t \in Threads, pc[t] = "idle", lock = NoThread, lock' = t,
         NEW p \in {"looking", "printing"}, NEW text \in Text \cup {NoText},
         p = "printing" => text = NoText, Becomes(t, p, next[t], buffer[t], at[t], text),
         UNCHANGED <<contents, slots, file, target, damage, gone>>
  PROVE  SaveInv'
<1>1. Types /\ LockMoves(t) /\ p \in PCs
  BY DEF SaveInv, LockMoves, PCs
<1>2. pc'[t] = p /\ next'[t] = next[t] /\ buffer'[t] = buffer[t] /\ at'[t] = at[t] /\ plan'[t] = text
  BY <1>1 DEF Becomes, Types
<1>3. ThreadInv(t)'
  BY <1>2 DEF SaveInv, ThreadInv, Inside
<1>4. QED
  BY <1>1, <1>3, StandsStill, Quiet DEF OpenPCs

LEMMA SelectedIsText ==
  ASSUME IsContext(contents), NEW n, NEW k
  PROVE  Selected(n, k) \in Text \cup {NoText}
<1>1. CASE Found(n, k)
  <2> DEFINE table == IF k = AllKeys THEN contents[n] ELSE [l \in {k} |-> contents[n][k]]
  <2>1. n \in Text /\ IsTable(contents[n])
    BY <1>1 DEF Found, IsContext
  <2>2. IsTable(table)
    <3>1. CASE k = AllKeys
      BY <2>1, <3>1
    <3>2. CASE k # AllKeys
      <4>1. k \in DOMAIN contents[n]
        BY <1>1, <3>2 DEF Found
      <4>2. k \in Text /\ contents[n][k] \in Text
        BY <2>1, <4>1 DEF IsTable
      <4>3. IsFiniteSet({k})
        BY FS_Singleton
      <4>4. IsTable([l \in {k} |-> contents[n][k]])
        BY <4>2, <4>3 DEF IsTable
      <4>5. QED
        BY <3>2, <4>4
    <3>3. QED
      BY <3>1, <3>2
  <2>3. Selected(n, k) = SectionText(n, table)
    BY <1>1 DEF Selected
  <2> HIDE DEF table
  <2>4. QED
    BY <2>1, <2>2, <2>3, SectionTextIsText
<1>2. CASE ~Found(n, k)
  BY <1>2 DEF Selected
<1>3. QED
  BY <1>1, <1>2

\* The steps of ini_save_section_value that leave the file alone, and ini_print.
LEMMA QuietSteps ==
  ASSUME SaveInv, NEW t \in Threads,
         \/ \E n \in Names, k \in Keys \cup {AllKeys} : SectionCall(t, n, k)
         \/ SectionNotFound(t) \/ SectionExists(t) \/ SectionRefused(t)
         \/ PrintCall(t) \/ PrintReturn(t)
  PROVE  SaveInv'
<1>1. Types
  BY DEF SaveInv
<1>2. CASE \E n \in Names, k \in Keys \cup {AllKeys} : SectionCall(t, n, k)
  <2>1. PICK n, k : SectionCall(t, n, k)
    BY <1>2
  <2>2. Selected(n, k) \in Text \cup {NoText}
    BY <1>1, SelectedIsText DEF Types
  <2>3. Becomes(t, "looking", next[t], buffer[t], at[t], Selected(n, k))
    BY <1>1, <2>1, StandsStill DEF SectionCall, Goto, Becomes
  <2>4. QED
    BY <2>1, <2>2, <2>3, CalledQuietly DEF SectionCall
<1>3. CASE SectionNotFound(t) \/ SectionExists(t) \/ SectionRefused(t)
  <2>1. /\ pc[t] \in {"looking", "creating"} /\ lock' = NoThread
        /\ Becomes(t, "idle", 1, <<>>, 0, NoText)
        /\ UNCHANGED <<contents, slots, file, target, damage>> /\ gone' = gone \ {t}
    BY <1>3 DEF SectionNotFound, SectionExists, SectionRefused, SectionReturns, LockAfterSection,
                Returns, Goto, Becomes
  <2>2. QED
    BY <2>1, ReturnsQuietly
<1>4. CASE PrintCall(t)
  <2>1. plan[t] = NoText
    BY <1>4 DEF PrintCall, SaveInv, ThreadInv
  <2>2. Becomes(t, "printing", next[t], buffer[t], at[t], plan[t])
    BY <1>1, <1>4, StandsStill DEF PrintCall, Goto, Becomes
  <2>3. QED
    BY <1>4, <2>1, <2>2, CalledQuietly DEF PrintCall
<1>5. CASE PrintReturn(t)
  <2>1. next[t] = 1 /\ buffer[t] = <<>> /\ at[t] = 0 /\ plan[t] = NoText
    BY <1>5 DEF PrintReturn, SaveInv, ThreadInv
  <2>2. Becomes(t, "idle", 1, <<>>, 0, NoText)
    BY <1>1, <1>5, <2>1, StandsStill DEF PrintReturn, Goto, Becomes
  <2>3. QED
    BY <1>5, <2>2, ReturnsQuietly DEF PrintReturn, LockAfterPrint
<1>6. QED
  BY <1>2, <1>3, <1>4, <1>5

LEMMA AbsentPreserves ==
  ASSUME SaveInv, NEW t \in Threads, SectionAbsent(t)
  PROVE  SaveInv'
<1>1. Types /\ plan[t] \in Text
  BY StandsStill DEF SaveInv, SectionAbsent
<1>2. Becomes(t, "creating", next[t], plan[t], at[t], plan[t])
  BY <1>1, StandsStill DEF SectionAbsent, Goto, Becomes
<1>3. /\ pc'[t] = "creating" /\ next'[t] = next[t] /\ buffer'[t] = plan[t] /\ at'[t] = at[t]
      /\ plan'[t] = plan[t] /\ lock' = lock
  BY <1>1, <1>2 DEF Becomes, Types, SectionAbsent
<1>4. ThreadInv(t)'
  BY <1>1, <1>3 DEF SaveInv, ThreadInv, Inside, SectionAbsent
<1>5. pc[t] = "looking" /\ file = NoFile /\ LockMoves(t)
  BY <1>3 DEF SectionAbsent, LockMoves
<1>6. UNCHANGED <<contents, slots, file, target, damage, gone>>
  BY DEF SectionAbsent
<1>7. QED
  BY <1>1, <1>2, <1>4, <1>5, <1>6, StandsStill, Quiet DEF OpenPCs, PCs

\* What is buffered after more has been printed.
LEMMA PrintedOn ==
  ASSUME NEW whole \in Text, NEW b \in Text, NEW part \in Text, NEW s \in Text, NEW a \in Nat,
         a + Len(b) = Len(s), Has(whole, b, a), Begins(s \o part, whole)
  PROVE  /\ a + Len(b \o part) = Len(s \o part) /\ a + Len(b \o part) <= Len(whole)
         /\ Has(whole, b \o part, a)
<1> DEFINE joined == b \o part
           known == s \o part
<1>1. /\ Len(b) \in Nat /\ Len(part) \in Nat /\ Len(s) \in Nat /\ Len(whole) \in Nat
      /\ Len(joined) = Len(b) + Len(part) /\ Len(known) = Len(s) + Len(part)
      /\ \A i \in 1..(Len(b) + Len(part)) : joined[i] = IF i <= Len(b) THEN b[i] ELSE part[i - Len(b)]
      /\ \A i \in 1..(Len(s) + Len(part)) : known[i] = IF i <= Len(s) THEN s[i] ELSE part[i - Len(s)]
  BY ConcatProperties DEF Text
<1>2. Len(known) <= Len(whole) /\ \A i \in 1..Len(known) : known[i] = whole[i]
  BY DEF Begins
<1> HIDE DEF joined, known
<1>3. ASSUME NEW i \in 1..Len(joined) PROVE joined[i] = whole[a + i]
  <2>1. CASE i <= Len(b)
    <3>1. i \in 1..Len(b) /\ i \in 1..(Len(b) + Len(part))
      BY <1>1, <2>1
    <3>2. QED
      BY <1>1, <2>1, <3>1 DEF Has
  <2>2. CASE ~(i <= Len(b))
    <3> DEFINE lb == Len(b)
               lp == Len(part)
               ls == Len(s)
    <3>0. lb \in Nat /\ lp \in Nat /\ ls \in Nat /\ a + lb = ls /\ i \in 1..(lb + lp) /\ ~(i <= lb)
      BY <1>1, <2>2
    <3> HIDE DEF lb, lp, ls
    <3>a. i \in 1..(lb + lp) /\ a + i \in 1..(ls + lp) /\ ~(a + i <= ls) /\ a + i - ls = i - lb
      BY <3>0
    <3>1. i \in 1..(Len(b) + Len(part)) /\ a + i \in 1..(Len(s) + Len(part))
          /\ ~(a + i <= Len(s)) /\ a + i - Len(s) = i - Len(b)
      BY <3>a DEF lb, lp, ls
    <3>2. known[a + i] = part[i - Len(b)] /\ joined[i] = part[i - Len(b)]
      BY <1>1, <2>2, <3>1
    <3>3. known[a + i] = whole[a + i]
      BY <1>1, <1>2, <3>1
    <3>4. QED
      BY <3>2, <3>3
  <2>3. QED
    BY <2>1, <2>2
<1>4. a + Len(joined) = Len(known) /\ a + Len(joined) <= Len(whole)
  BY <1>1, <1>2
<1>5. QED
  BY <1>3, <1>4 DEF joined, known, Has

\* The text of the sections up to the n-th grows with each.
LEMMA SoFarIs ==
  ASSUME Types
  PROVE  /\ SoFar(0) = <<>> /\ SoFar(Len(slots)) = SavedText(contents, slots)
         /\ \A n \in 0..Len(slots) :
              SoFar(n) \in Text /\ Begins(SoFar(n), SavedText(contents, slots))
         /\ \A n \in 1..Len(slots) :
              /\ Printed(contents, slots, n) \in Text
              /\ SoFar(n) = SoFar(n - 1) \o Printed(contents, slots, n)
<1> DEFINE parts == Parts(contents, slots)
<1>1. /\ parts \in Seq(Text) /\ Len(parts) = Len(slots) /\ Len(slots) \in Nat
      /\ \A n \in 1..Len(slots) : parts[n] = Printed(contents, slots, n)
      /\ SavedText(contents, slots) = Upto(parts, Len(slots))
  <2>1. IsContext(contents) /\ slots \in Seq(DOMAIN contents)
    BY DEF Types
  <2>2. QED
    BY <2>1, PartsAre
<1>2. \A n \in Nat : SoFar(n) = Upto(parts, n)
  BY DEF SoFar
<1> HIDE DEF parts
<1>3. \A n \in 1..Len(slots) : parts[n] \in Text
  BY <1>1, ElementOfSeq
<1>4. \A n \in 0..Len(slots) : Upto(parts, n) \in Text /\ Begins(Upto(parts, n), Upto(parts, Len(slots)))
  BY <1>1, UptoIs, UptoGrows
<1>5. Upto(parts, 0) = <<>> /\ \A n \in 1..Len(slots) : Upto(parts, n) = Upto(parts, n - 1) \o parts[n]
  BY <1>1, UptoIs
<1>6. ASSUME NEW n \in 1..Len(slots)
      PROVE  SoFar(n) = SoFar(n - 1) \o Printed(contents, slots, n)
  <2>1. n \in Nat /\ n - 1 \in Nat
    BY <1>1
  <2>2. QED
    BY <1>1, <1>2, <1>5, <2>1
<1>7. \A n \in 0..Len(slots) : n \in Nat
  OBVIOUS
<1>8. QED
  BY <1>1, <1>2, <1>3, <1>4, <1>5, <1>6, <1>7

LEMMA SectionPreserves ==
  ASSUME SaveInv, NEW t \in Threads, SaveSection(t)
  PROVE  SaveInv'
<1> DEFINE n == next[t]
           part == Printed(contents, slots, n)
<1>1. Types /\ ThreadInv(t)
  BY DEF SaveInv
<1>2. /\ n \in 1..Len(slots) /\ pc[t] = "iterating" /\ LockMoves(t)
      /\ plan[t] \in Text /\ plan[t] = SavedText(contents, slots)
      /\ UNCHANGED <<contents, slots, file, lock, target, damage, gone>>
  BY <1>1 DEF SaveSection, Types, ThreadInv, LockMoves
<1>3. part \in Text /\ buffer[t] \o part \in Text /\ n + 1 \in Nat \ {0}
  BY <1>1, <1>2, SoFarIs, StandsStill, JoinIsText
<1>4. /\ SoFar(n) = SoFar(n - 1) \o part /\ SoFar(n - 1) \in Text
      /\ Begins(SoFar(n), plan[t])
  <2>1. n \in 0..Len(slots) /\ n - 1 \in 0..Len(slots)
    BY <1>2
  <2>2. QED
    BY <1>1, <1>2, <2>1, SoFarIs
<1>5. Becomes(t, "iterating", n + 1, buffer[t] \o part, at[t], plan[t])
  BY <1>1, <1>2, StandsStill DEF SaveSection, Becomes
<1>6. /\ pc'[t] = "iterating" /\ next'[t] = n + 1 /\ buffer'[t] = buffer[t] \o part
      /\ at'[t] = at[t] /\ plan'[t] = plan[t]
  BY <1>1, <1>5 DEF Becomes, Types
<1> HIDE DEF part
<1>7. SavedText(contents, slots)' = SavedText(contents, slots) /\ Len(slots)' = Len(slots)
  BY <1>2 DEF SavedText, Printed
<1>8. ThreadInv(t)'
  <2>1. n + 1 <= Len(slots) + 1
    BY <1>1, <1>2 DEF Types
  <2>2. QED
    BY <1>1, <1>2, <1>6, <1>7, <2>1 DEF ThreadInv, Inside
<1>9. ASSUME Carried(t) PROVE Carried(t)'
  <2>1. at[t] \in Nat /\ buffer[t] \in Text
    BY <1>1, StandsStill
  <2>2. /\ at[t] + Len(buffer[t]) = Len(SoFar(n - 1))
        /\ Has(plan[t], buffer[t], at[t])
    BY <1>2, <1>9 DEF Carried
  <2>3. /\ at[t] + Len(buffer[t] \o part) = Len(SoFar(n))
        /\ at[t] + Len(buffer[t] \o part) <= Len(plan[t])
        /\ Has(plan[t], buffer[t] \o part, at[t])
    <3>1. Begins(SoFar(n - 1) \o part, plan[t]) /\ SoFar(n - 1) \in Text
      BY <1>4
    <3> DEFINE s == SoFar(n - 1)
    <3>2. /\ s \in Text /\ at[t] + Len(buffer[t]) = Len(s) /\ Begins(s \o part, plan[t])
          /\ plan[t] \in Text
      BY <1>2, <2>2, <3>1
    <3> HIDE DEF s
    <3>3. /\ at[t] + Len(buffer[t] \o part) = Len(s \o part)
          /\ at[t] + Len(buffer[t] \o part) <= Len(plan[t])
          /\ Has(plan[t], buffer[t] \o part, at[t])
      <4>1. \A whole, b, p, x \in Text, a \in Nat :
              a + Len(b) = Len(x) /\ Has(whole, b, a) /\ Begins(x \o p, whole) =>
                /\ a + Len(b \o p) = Len(x \o p)
                /\ a + Len(b \o p) <= Len(whole)
                /\ Has(whole, b \o p, a)
        BY PrintedOn
      <4>2. /\ part \in Text /\ s \in Text /\ buffer[t] \in Text /\ at[t] \in Nat /\ plan[t] \in Text
            /\ at[t] + Len(buffer[t]) = Len(s) /\ Has(plan[t], buffer[t], at[t]) /\ Begins(s \o part, plan[t])
        BY <1>3, <2>1, <2>2, <3>2
      <4>3. QED
        BY <4>1, <4>2
    <3>4. s \o part = SoFar(n)
      BY <1>4 DEF s
    <3>5. QED
      BY <3>3, <3>4
  <2>4. next'[t] - 1 = n
    BY <1>2, <1>6
  <2>5. Len(SoFar(next[t] - 1))' = Len(SoFar(n))
    BY <1>2, <2>4 DEF SoFar
  <2>6. QED
    BY <1>6, <2>3, <2>5 DEF Carried
<1>10. QED
  BY <1>1, <1>2, <1>3, <1>5, <1>8, <1>9, StandsStill, Quiet DEF OpenPCs, PCs

LEMMA UnlockPreserves ==
  ASSUME SaveInv, NEW t \in Threads, SaveUnlock(t)
  PROVE  SaveInv'
<1>1. Types /\ ThreadInv(t)
  BY DEF SaveInv
<1>2. /\ pc[t] = "iterating" /\ lock = t /\ LockMoves(t) /\ lock' = NoThread
      /\ next[t] = Len(slots) + 1 /\ Len(slots) \in Nat
      /\ plan[t] \in Text /\ plan[t] = SavedText(contents, slots)
      /\ UNCHANGED <<contents, slots, file, target, damage, gone>>
  BY <1>1 DEF SaveUnlock, SectionsLeft, Types, ThreadInv, LockMoves, Inside
<1>3. Becomes(t, "printed", next[t], buffer[t], at[t], plan[t])
  BY <1>1, <1>2, StandsStill DEF SaveUnlock, Goto, Becomes
<1>4. /\ pc'[t] = "printed" /\ next'[t] = next[t] /\ buffer'[t] = buffer[t]
      /\ at'[t] = at[t] /\ plan'[t] = plan[t]
  BY <1>1, <1>3 DEF Becomes, Types
<1>5. ThreadInv(t)'
  BY <1>1, <1>2, <1>4, SaveThreadsAssumption DEF ThreadInv, Inside
<1>6. ASSUME Carried(t) PROVE Carried(t)'
  <2>1. SoFar(next[t] - 1) = plan[t]
    <3>1. next[t] - 1 = Len(slots)
      BY <1>2
    <3>2. QED
      BY <1>1, <1>2, <3>1, SoFarIs
  <2>2. QED
    BY <1>2, <1>4, <1>6, <2>1 DEF Carried
<1>7. QED
  BY <1>1, <1>2, <1>3, <1>5, <1>6, StandsStill, Quiet DEF OpenPCs, PCs

LEMMA EmptyText == <<>> \in Text /\ Len(<<>>) = 0 /\ NoFile \notin Text /\ NoText \notin Text
BY CharacterTexts, TextsAssumption

\* Who is writing has a file, and from fprintf on a text.
LEMMA WritersHave ==
  ASSUME SaveInv, NEW t \in Writing
  PROVE  /\ t \in Threads /\ file \in Text /\ file # NoFile /\ target \in Text /\ target # NoFile
         /\ pc[t] \in OpenPCs
         /\ pc[t] # "opened" => plan[t] \in Text
<1>1. t \in Threads /\ pc[t] \in OpenPCs
  BY DEF Writing, Streams, OpenPCs
<1>2. file # NoFile /\ target # NoFile
  BY DEF SaveInv, OpenInv
<1>3. pc[t] # "opened" => plan[t] \in Text
  BY <1>1 DEF SaveInv, ThreadInv, OpenPCs
<1>4. QED
  BY <1>1, <1>2, <1>3 DEF SaveInv, Types

LEMMA OpenPreserves ==
  ASSUME SaveInv, NEW t \in Threads, SaveOpen(t)
  PROVE  SaveInv'
<1>1. Types /\ ThreadInv(t) /\ OpenInv /\ CarriedInv /\ PlansInv
  BY DEF SaveInv
<1>2. /\ pc[t] = "idle" /\ file' = <<>> /\ LockMoves(t)
      /\ UNCHANGED <<contents, slots, lock, gone>>
      /\ target' = (IF Writing = {} THEN <<>> ELSE target)
      /\ damage' = (IF Writing = {} THEN {} ELSE damage \cup {"shared"})
  BY DEF SaveOpen, Opens, OpenedText, DamageAfterOpen, LockMoves
<1>3. Becomes(t, "opened", next[t], buffer[t], 0, plan[t])
  BY <1>1, StandsStill DEF SaveOpen, Opens, Goto, Becomes
<1>4. Writing # {} => target \in Text /\ target # NoFile
  BY WritersHave
<1>5. /\ target' \in Text /\ file' \in Text /\ file' # NoFile /\ target' # NoFile
  BY <1>2, <1>4, EmptyText
<1>6. damage' \subseteq {"cut", "gap", "shared", "mixed"}
  BY <1>1, <1>2 DEF Types
<1>a. /\ "opened" \in PCs /\ next[t] \in Nat \ {0} /\ buffer[t] \in Text /\ 0 \in Nat
      /\ plan[t] \in Text \cup {NoText} /\ UNCHANGED <<contents, slots>> /\ LockMoves(t)
      /\ file' \in Text \cup {NoFile} /\ target' \in Text \cup {NoFile}
      /\ damage' \subseteq {"cut", "gap", "shared", "mixed"}
  BY <1>1, <1>2, <1>5, <1>6, StandsStill DEF PCs
<1>7. /\ Types'
      /\ pc'[t] = "opened" /\ next'[t] = next[t] /\ buffer'[t] = buffer[t] /\ at'[t] = 0
      /\ plan'[t] = plan[t]
      /\ \A u \in Threads \ {t} :
           /\ pc'[u] = pc[u] /\ at'[u] = at[u] /\ plan'[u] = plan[u] /\ buffer'[u] = buffer[u]
           /\ ThreadInv(u)'
           /\ Carried(u) => Carried(u)'
  BY <1>3, <1>a, Became
<1>8. ThreadInv(t)'
  BY <1>1, <1>2, <1>7 DEF ThreadInv, Inside
<1>b. t \notin gone /\ GoneInv'
  BY <1>2, <1>7 DEF SaveInv, GoneInv, Streams
<1>9. t \notin Writing /\ Writing' = Writing \cup {t}
  BY <1>2, <1>7, <1>b DEF Writing, Streams
<1>10. \A u \in Writing : u \in Threads \ {t}
  BY <1>9 DEF Writing, Streams
<1>11. OpenInv'
  <2>1. ASSUME NEW c \in Threads, pc'[c] = "creating" PROVE \A u \in Writing' : pc'[u] = "opened"
    <3>1. pc[c] = "creating"
      BY <1>7, <2>1
    <3>2. QED
      BY <1>1, <1>7, <1>9, <1>10, <3>1 DEF OpenInv
  <2>2. "shared" \notin damage' => \A u, v \in Writing' : u = v
    BY <1>2, <1>9
  <2>3. "cut" \notin damage'
    BY <1>1, <1>2 DEF OpenInv
  <2>4. QED
    BY <1>2, <1>5, <2>1, <2>2, <2>3 DEF OpenInv
<1>12. CarriedInv' /\ PlansInv'
  <2>1. ASSUME "gap" \notin damage', NEW u \in Writing', pc'[u] # "opened" PROVE Carried(u)'
    BY <1>1, <1>2, <1>7, <1>9, <1>10, <2>1 DEF CarriedInv
  <2>2. plan'[t] = NoText
    BY <1>1, <1>2, <1>7 DEF ThreadInv
  <2>3. ASSUME "mixed" \notin damage', NEW u \in Writing' PROVE plan'[u] \in {NoText, target'}
    BY <1>1, <1>2, <1>7, <1>9, <1>10, <2>2, <2>3 DEF PlansInv
  <2>4. QED
    BY <2>1, <2>3 DEF CarriedInv, PlansInv
<1>13. PrefixInv'
  <2>1. file' = <<>> /\ Len(file') = 0 /\ target' \in Text
    BY <1>2, <1>5, EmptyText
  <2>2. Begins(file', target')
    BY <2>1 DEF Begins, Text
  <2>3. ASSUME damage' \subseteq {"cut"}, NEW u \in Writing' PROVE at'[u] = 0
    <3>1. "shared" \notin damage'
      BY <2>3
    <3>2. Writing = {}
      BY <1>2, <3>1
    <3>3. QED
      BY <1>7, <1>9, <3>2
  <2>4. QED
    BY <2>1, <2>2, <2>3 DEF PrefixInv, Begins
<1>14. CoverInv'
  <2>1. Len(file') = 0 /\ Len(target') \in Nat
    BY <1>2, <1>5, EmptyText DEF Text
  <2>2. \A i \in 1..Len(target') : at'[t] < i
    BY <1>7, <2>1
  <2>3. QED
    BY <1>9, <2>1, <2>2 DEF CoverInv
<1>15. \A u \in Threads : ThreadInv(u)'
  BY <1>7, <1>8
<1>16. QED
  BY <1>7, <1>b, <1>11, <1>12, <1>13, <1>14, <1>15 DEF SaveInv

LEMMA SectionOpenPreserves ==
  ASSUME SaveInv, NEW t \in Threads, SectionOpen(t)
  PROVE  SaveInv' /\ file \in {NoFile, <<>>}
<1>1. Types /\ ThreadInv(t) /\ OpenInv /\ CarriedInv /\ PlansInv
  BY DEF SaveInv
<1>2. /\ pc[t] = "creating" /\ lock = t /\ file' = <<>> /\ LockMoves(t)
      /\ UNCHANGED <<contents, slots, lock, gone>>
      /\ target' = plan[t] /\ plan[t] \in Text /\ buffer[t] = plan[t]
      /\ Writing # {} => "shared" \in damage'
      /\ damage' \subseteq (IF Writing = {} THEN {} ELSE damage \cup {"shared"}) \cup {"mixed"}
  BY <1>1 DEF SectionOpen, Opens, OpenedText, DamageAfterOpen, LockMoves, ThreadInv, Inside
<1>3. Becomes(t, "copying", next[t], buffer[t], 0, plan[t])
  BY <1>1, StandsStill DEF SectionOpen, Opens, Goto, Becomes
<1>4. file' \in Text /\ file' # NoFile /\ target' \in Text /\ target' # NoFile
  BY <1>2, EmptyText
<1>5. damage' \subseteq {"cut", "gap", "shared", "mixed"}
  BY <1>1, <1>2 DEF Types
<1>a. /\ "copying" \in PCs /\ next[t] \in Nat \ {0} /\ buffer[t] \in Text /\ 0 \in Nat
      /\ plan[t] \in Text \cup {NoText} /\ UNCHANGED <<contents, slots>> /\ LockMoves(t)
      /\ file' \in Text \cup {NoFile} /\ target' \in Text \cup {NoFile}
      /\ damage' \subseteq {"cut", "gap", "shared", "mixed"}
  BY <1>1, <1>2, <1>4, <1>5, StandsStill DEF PCs
<1>6. /\ Types'
      /\ pc'[t] = "copying" /\ next'[t] = next[t] /\ buffer'[t] = buffer[t] /\ at'[t] = 0
      /\ plan'[t] = plan[t]
      /\ \A u \in Threads \ {t} :
           /\ pc'[u] = pc[u] /\ at'[u] = at[u] /\ plan'[u] = plan[u] /\ buffer'[u] = buffer[u]
           /\ ThreadInv(u)'
           /\ Carried(u) => Carried(u)'
  BY <1>3, <1>a, Became
<1>7. ThreadInv(t)'
  BY <1>1, <1>2, <1>6 DEF ThreadInv, Inside
<1>b. t \notin gone /\ GoneInv'
  BY <1>2, <1>6 DEF SaveInv, GoneInv, Streams
<1>8. t \notin Writing /\ Writing' = Writing \cup {t}
  BY <1>2, <1>6, <1>b DEF Writing, Streams
<1>9. \A u \in Writing : u \in Threads \ {t} /\ pc[u] = "opened" /\ plan[u] = NoText
  BY <1>1, <1>2, <1>8 DEF Writing, Streams, OpenInv, SaveInv, ThreadInv
<1>10. OpenInv'
  <2>1. ASSUME NEW c \in Threads PROVE pc'[c] # "creating"
    <3>1. CASE c = t
      BY <1>6, <3>1
    <3>2. CASE c # t
      BY <1>2, <1>6, <3>2 DEF SaveInv, ThreadInv, Inside
    <3>3. QED
      BY <3>1, <3>2
  <2>2. "shared" \notin damage' => \A u, v \in Writing' : u = v
    BY <1>2, <1>8
  <2>3. "cut" \notin damage'
    BY <1>1, <1>2 DEF OpenInv
  <2>4. QED
    BY <1>4, <2>1, <2>2, <2>3 DEF OpenInv
<1>11. Carried(t)'
  <2>1. Len(plan[t]) \in Nat
    BY <1>2 DEF Text
  <2>2. \A i \in 1..Len(plan[t]) : 0 + i = i
    BY <2>1
  <2>3. Has(plan[t], plan[t], 0)
    BY <2>2 DEF Has
  <2>4. QED
    BY <1>2, <1>6, <2>1, <2>3 DEF Carried
<1>12. CarriedInv' /\ PlansInv'
  BY <1>2, <1>6, <1>8, <1>9, <1>11 DEF CarriedInv, PlansInv
<1>13. Len(file') = 0 /\ Len(target') \in Nat
  BY <1>2, <1>4, EmptyText DEF Text
<1>14. PrefixInv'
  BY <1>2, <1>6, <1>8, <1>13 DEF PrefixInv, Begins
<1>15. CoverInv'
  <2>1. \A i \in 1..Len(target') : at'[t] < i
    BY <1>6, <1>13
  <2>2. QED
    BY <1>8, <1>13, <2>1 DEF CoverInv
<1>16. \A u \in Threads : ThreadInv(u)'
  BY <1>6, <1>7
<1>17. file \in {NoFile, <<>>}
  BY <1>1, <1>2 DEF OpenInv
<1>18. QED
  BY <1>6, <1>b, <1>10, <1>12, <1>14, <1>15, <1>16, <1>17 DEF SaveInv

LEMMA LockPreserves ==
  ASSUME SaveInv, NEW t \in Threads \ gone, SaveLock(t)
  PROVE  SaveInv'
<1> DEFINE text == SavedText(contents, slots)
<1>1. Types /\ ThreadInv(t) /\ OpenInv /\ CarriedInv /\ PlansInv /\ PrefixInv /\ CoverInv
  BY DEF SaveInv
<1>2. /\ pc[t] = "opened" /\ lock = NoThread /\ lock' = t /\ LockMoves(t)
      /\ UNCHANGED <<contents, slots, file, gone>> /\ target' = text
      /\ next[t] = 1 /\ buffer[t] = <<>> /\ at[t] = 0
      /\ damage \subseteq damage' /\ damage' \subseteq damage \cup {"mixed"}
      /\ Clashes(t, text) \/ HasLonger(text) => "mixed" \in damage'
  BY <1>1 DEF SaveLock, MayIterate, LockMoves, ThreadInv, Damages
<1>3. Becomes(t, "iterating", next[t], buffer[t], at[t], text)
  BY <1>1, <1>2, StandsStill DEF SaveLock, Goto, Becomes
<1>4. text \in Text /\ SoFar(0) = <<>> /\ Len(slots) \in Nat
  <2>1. IsContext(contents) /\ slots \in Seq(DOMAIN contents)
    BY <1>1 DEF Types
  <2>2. QED
    BY <1>1, <2>1, PartsAre, SoFarIs
<1> HIDE DEF text
<1>5. t \in Writing /\ file \in Text /\ file # NoFile /\ target \in Text /\ target # NoFile
  <2>1. t \in Writing
    BY <1>2 DEF Writing, Streams
  <2>2. QED
    BY <2>1, WritersHave
<1>a. /\ "iterating" \in PCs /\ next[t] \in Nat \ {0} /\ buffer[t] \in Text /\ at[t] \in Nat
      /\ text \in Text \cup {NoText} /\ UNCHANGED <<contents, slots>> /\ LockMoves(t)
      /\ file' \in Text \cup {NoFile} /\ target' \in Text \cup {NoFile}
      /\ damage' \subseteq {"cut", "gap", "shared", "mixed"}
  <2>1. damage' \subseteq {"cut", "gap", "shared", "mixed"}
    BY <1>1, <1>2 DEF Types
  <2>2. QED
    BY <1>1, <1>2, <1>4, <1>5, <2>1, StandsStill DEF PCs
<1>6. /\ Types'
      /\ pc'[t] = "iterating" /\ next'[t] = next[t] /\ buffer'[t] = buffer[t] /\ at'[t] = at[t]
      /\ plan'[t] = text
      /\ \A u \in Threads \ {t} :
           /\ pc'[u] = pc[u] /\ at'[u] = at[u] /\ plan'[u] = plan[u] /\ buffer'[u] = buffer[u]
           /\ ThreadInv(u)'
           /\ Carried(u) => Carried(u)'
  BY <1>3, <1>a, Became
<1>7. SavedText(contents, slots)' = text /\ SoFar(next[t] - 1)' = <<>>
  <2>1. SavedText(contents, slots)' = text
    BY <1>2 DEF text
  <2>2. next'[t] - 1 = 0
    BY <1>2, <1>6
  <2>3. QED
    BY <1>2, <1>4, <2>1, <2>2 DEF SoFar
<1>8. ThreadInv(t)'
  <2>1. next'[t] <= Len(slots') + 1
    BY <1>2, <1>4, <1>6
  <2>2. QED
    BY <1>2, <1>4, <1>6, <1>7, <2>1 DEF ThreadInv, Inside
<1>9. Carried(t)'
  <2>1. at'[t] = 0 /\ buffer'[t] = <<>> /\ plan'[t] \in Text /\ pc'[t] = "iterating"
    BY <1>2, <1>4, <1>6
  <2>2. Len(buffer'[t]) = 0 /\ Len(plan'[t]) \in Nat
    BY <2>1, EmptyText DEF Text
  <2>3. Len(SoFar(next[t] - 1))' = 0
    BY <1>7, EmptyText
  <2>4. Has(plan[t], buffer[t], at[t])'
    BY <2>2 DEF Has
  <2>5. QED
    BY <2>1, <2>2, <2>3, <2>4 DEF Carried
<1>10. Writing' = Writing
  BY <1>2, <1>6 DEF Writing, Streams
<1>11. OpenInv'
  <2>1. ASSUME NEW c \in Threads PROVE pc'[c] # "creating"
    <3>1. CASE c = t
      BY <1>6, <3>1
    <3>2. CASE c # t
      BY <1>2, <1>6, <3>2, SaveThreadsAssumption DEF SaveInv, ThreadInv, Inside
    <3>3. QED
      BY <3>1, <3>2
  <2>2. file' # NoFile /\ target' # NoFile
    BY <1>2, <1>4, <1>5, EmptyText
  <2>3. /\ "shared" \notin damage' => \A u, v \in Writing' : u = v
        /\ "cut" \in damage' => Writing' = {}
    BY <1>1, <1>2, <1>10 DEF OpenInv
  <2>4. QED
    BY <2>1, <2>2, <2>3 DEF OpenInv
<1>12. CarriedInv'
  <2>1. ASSUME "gap" \notin damage', NEW u \in Writing', pc'[u] # "opened" PROVE Carried(u)'
    <3>1. CASE u = t
      BY <1>9, <3>1
    <3>2. CASE u # t
      <4>1. u \in Threads \ {t} /\ u \in Writing /\ "gap" \notin damage
        BY <1>2, <1>10, <2>1, <3>2 DEF Writing, Streams
      <4>2. QED
        BY <1>1, <1>6, <2>1, <4>1 DEF CarriedInv
    <3>3. QED
      BY <3>1, <3>2
  <2>2. QED
    BY <2>1 DEF CarriedInv
<1>13. PlansInv'
  <2>1. ASSUME "mixed" \notin damage', NEW u \in Writing' PROVE plan'[u] \in {NoText, target'}
    <3>1. CASE u = t
      BY <1>2, <1>6, <3>1
    <3>2. CASE u # t
      <4>1. u \in Threads \ {t} /\ u \in Writing \ {t}
        BY <1>10, <2>1, <3>2 DEF Writing, Streams
      <4>2. plan[u] \in {NoText, text}
        BY <1>2, <2>1, <4>1 DEF Clashes
      <4>3. QED
        BY <1>2, <1>6, <4>1, <4>2
    <3>3. QED
      BY <3>1, <3>2
  <2>2. QED
    BY <2>1 DEF PlansInv
<1>14. ASSUME "shared" \notin damage', damage' \subseteq {"cut", "shared"}
       PROVE  Len(file) = 0 /\ \A u \in Writing' : u = t
  <2>1. damage \subseteq {"cut"} /\ \A u \in Writing : u = t
    BY <1>1, <1>2, <1>5, <1>14 DEF OpenInv
  <2>2. at[t] = Len(file)
    BY <1>1, <1>5, <2>1 DEF PrefixInv
  <2>3. QED
    BY <1>2, <1>10, <2>1, <2>2
<1>15. PrefixInv'
  <2>1. ASSUME damage' \subseteq {"cut"} PROVE Begins(file', target') /\ \A u \in Writing' : at'[u] = Len(file')
    <3>1. Len(file') = 0 /\ \A u \in Writing' : u = t
      BY <1>2, <1>14, <2>1
    <3>2. Len(target') \in Nat
      BY <1>2, <1>4 DEF Text
    <3>3. QED
      BY <1>2, <1>6, <3>1, <3>2 DEF Begins
  <2>2. QED
    BY <2>1 DEF PrefixInv
<1>16. CoverInv'
  <2>1. ASSUME damage' \subseteq {"shared"}
        PROVE  Len(file') <= Len(target')
    <3>1. Len(file) \in Nat /\ Len(text) \in Nat
      BY <1>4, <1>5 DEF Text
    <3>2. CASE "shared" \in damage
      BY <1>2, <2>1, <3>1, <3>2 DEF HasLonger
    <3>3. CASE "shared" \notin damage
      <4>1. "shared" \notin damage'
        BY <1>2, <3>3
      <4>2. Len(file) = 0
        BY <1>14, <2>1, <4>1
      <4>3. QED
        BY <1>2, <3>1, <4>2
    <3>4. QED
      BY <3>2, <3>3
  <2>2. \A i \in 1..Len(target') : \E u \in Writing' : at'[u] < i
    <3>1. Len(target') \in Nat /\ at'[t] = 0 /\ t \in Writing'
      BY <1>2, <1>4, <1>5, <1>6, <1>10 DEF Text
    <3>2. \A i \in 1..Len(target') : at'[t] < i
      BY <3>1
    <3>3. QED
      BY <3>1, <3>2
  <2>3. QED
    BY <2>1, <2>2 DEF CoverInv
<1>17. (\A u \in Threads : ThreadInv(u)') /\ GoneInv'
  BY <1>2, <1>6, <1>8 DEF SaveInv, GoneInv, Streams
<1>18. QED
  BY <1>6, <1>11, <1>12, <1>13, <1>15, <1>16, <1>17 DEF SaveInv

\* What is in the file after a write, whether it overwrites, appends or leaves
\* a hole.
LEMMA OverlayIs ==
  ASSUME NEW text \in Text, NEW a \in Nat, NEW s \in Text
  PROVE  /\ Overlay(text, a, s) \in Text
         /\ Len(Overlay(text, a, s)) = IF a + Len(s) <= Len(text) THEN Len(text) ELSE a + Len(s)
         /\ \A i \in 1..Len(s) : Overlay(text, a, s)[a + i] = s[i]
         /\ \A i \in 1..Len(text) : i \notin (a + 1)..(a + Len(s)) => Overlay(text, a, s)[i] = text[i]
<1> DEFINE lt == Len(text)
           ls == Len(s)
           m == Max({lt, a + ls})
           At(i) == IF i \in (a + 1)..(a + ls) THEN s[i - a]
                    ELSE IF i \in DOMAIN text THEN text[i] ELSE NUL
<1>1. Overlay(text, a, s) = [i \in 1..m |-> At(i)]
  BY DEF Overlay
<1>2. /\ lt \in Nat /\ ls \in Nat /\ DOMAIN text = 1..lt
      /\ \A i \in 1..lt : text[i] \in Chars
      /\ \A i \in 1..ls : s[i] \in Chars
  BY DEF Text
<1> HIDE DEF lt, ls
<1>3. m = IF a + ls <= lt THEN lt ELSE a + ls
  <2> DEFINE S == {lt, a + ls}
  <2>1. S \in SUBSET (0..(lt + a + ls)) /\ S # {} /\ lt + a + ls \in Nat
    BY <1>2
  <2> HIDE DEF S
  <2>2. Max(S) \in S /\ \A y \in S : y <= Max(S)
    BY <2>1, MaxIs
  <2>3. (m = lt \/ m = a + ls) /\ lt <= m /\ a + ls <= m
    BY <2>2 DEF S
  <2> HIDE DEF m
  <2>4. QED
    BY <1>2, <2>3
<1> HIDE DEF m
<1>4. m \in Nat
  BY <1>2, <1>3
<1>5. ASSUME NEW i \in 1..m PROVE At(i) \in Chars
  <2>1. CASE i \in (a + 1)..(a + ls)
    <3>1. i - a \in 1..ls
      BY <1>2, <2>1
    <3>2. QED
      BY <1>2, <2>1, <3>1
  <2>2. CASE i \notin (a + 1)..(a + ls)
    <3>1. NUL \in Chars
      BY CharsAssumption
    <3>2. QED
      BY <1>2, <2>2, <3>1
  <2>3. QED
    BY <2>1, <2>2
<1>6. ASSUME NEW i \in 1..ls PROVE a + i \in 1..m /\ At(a + i) = s[i]
  <2>1. a + i \in (a + 1)..(a + ls) /\ a + i - a = i /\ a + i \in 1..m
    BY <1>2, <1>3
  <2>2. QED
    BY <2>1
<1>7. ASSUME NEW i \in 1..lt, i \notin (a + 1)..(a + ls) PROVE i \in 1..m /\ At(i) = text[i]
  <2>1. i \in 1..m
    BY <1>2, <1>3
  <2>2. QED
    BY <1>2, <1>7, <2>1
<1> HIDE DEF At
<1>8. [i \in 1..m |-> At(i)] \in Text /\ Len([i \in 1..m |-> At(i)]) = m
  BY <1>4, <1>5 DEF Text
<1>9. QED
  BY <1>1, <1>3, <1>6, <1>7, <1>8 DEF lt, ls

\* A step of a writer after which the same threads write the same texts.
LEMMA StillWriting ==
  ASSUME SaveInv, NEW t \in Writing, NEW a \in Nat, pc[t] # "opened",
         Becomes(t, pc[t], next[t], <<>>, a, plan[t]),
         UNCHANGED <<contents, slots, lock, target, gone>>, file' \in Text,
         damage \subseteq damage', damage' \subseteq damage \cup {"gap"},
         Carried(t) /\ "gap" \notin damage' => Carried(t)'
  PROVE  /\ Types' /\ (\A u \in Threads : ThreadInv(u)') /\ GoneInv' /\ OpenInv' /\ CarriedInv' /\ PlansInv'
         /\ Writing' = Writing /\ at'[t] = a
         /\ \A u \in Writing : u # t => at'[u] = at[u]
<1>1. /\ Types /\ ThreadInv(t) /\ OpenInv /\ CarriedInv /\ PlansInv
      /\ t \in Threads /\ target \in Text /\ target # NoFile /\ pc[t] \in OpenPCs
  BY WritersHave DEF SaveInv
<1>2. /\ pc[t] \in PCs /\ next[t] \in Nat \ {0} /\ <<>> \in Text
      /\ plan[t] \in Text \cup {NoText} /\ UNCHANGED <<contents, slots>> /\ LockMoves(t)
      /\ file' \in Text \cup {NoFile} /\ target' \in Text \cup {NoFile}
      /\ damage' \subseteq {"cut", "gap", "shared", "mixed"}
  <2>1. damage' \subseteq {"cut", "gap", "shared", "mixed"}
    BY <1>1 DEF Types
  <2>2. QED
    BY <1>1, <2>1, StandsStill, EmptyText DEF LockMoves
<1>3. /\ Types'
      /\ pc'[t] = pc[t] /\ next'[t] = next[t] /\ buffer'[t] = <<>> /\ at'[t] = a
      /\ plan'[t] = plan[t]
      /\ \A u \in Threads \ {t} :
           /\ pc'[u] = pc[u] /\ at'[u] = at[u] /\ plan'[u] = plan[u] /\ buffer'[u] = buffer[u]
           /\ ThreadInv(u)'
           /\ Carried(u) => Carried(u)'
  BY <1>1, <1>2, Became
<1>4. ThreadInv(t)'
  <2>1. SavedText(contents, slots)' = SavedText(contents, slots) /\ Len(slots)' = Len(slots)
    BY DEF SavedText, Printed
  <2>2. QED
    BY <1>1, <1>3, <2>1 DEF ThreadInv, Inside, OpenPCs
<1>5. \A u \in Threads : pc'[u] = pc[u] /\ plan'[u] = plan[u]
  BY <1>3
<1>6. Writing' = Writing
  BY <1>5 DEF Writing, Streams
<1>7. OpenInv'
  <2>1. file' # NoFile /\ target' # NoFile
    BY <1>1, EmptyText
  <2>2. \A c \in Threads : pc'[c] # "creating"
    BY <1>1, <1>5 DEF OpenInv
  <2>3. /\ "shared" \notin damage' => \A u, v \in Writing' : u = v
        /\ "cut" \in damage' => Writing' = {}
    BY <1>1, <1>6 DEF OpenInv
  <2>4. QED
    BY <2>1, <2>2, <2>3 DEF OpenInv
<1>8. CarriedInv'
  <2>1. ASSUME "gap" \notin damage', NEW u \in Writing', pc'[u] # "opened" PROVE Carried(u)'
    <3>1. u \in Threads /\ u \in Writing /\ pc[u] # "opened" /\ "gap" \notin damage
      BY <1>5, <1>6, <2>1 DEF Writing, Streams
    <3>2. Carried(u)
      BY <1>1, <3>1 DEF CarriedInv
    <3>3. QED
      BY <1>3, <2>1, <3>1, <3>2
  <2>2. QED
    BY <2>1 DEF CarriedInv
<1>9. PlansInv'
  <2>1. ASSUME "mixed" \notin damage', NEW u \in Writing' PROVE plan'[u] \in {NoText, target'}
    <3>1. u \in Threads /\ u \in Writing /\ "mixed" \notin damage
      BY <1>6, <2>1 DEF Writing, Streams
    <3>2. QED
      BY <1>1, <1>5, <3>1 DEF PlansInv
  <2>2. QED
    BY <2>1 DEF PlansInv
<1>10. \A u \in Writing : u # t => at'[u] = at[u]
  BY <1>3 DEF Writing, Streams
<1>11. GoneInv'
  BY <1>3, <1>5 DEF SaveInv, GoneInv, Writing, Streams
<1>12. QED
  BY <1>3, <1>4, <1>6, <1>11, <1>7, <1>8, <1>9, <1>10

\* What the writer t may count on: its text is the target, and what it has
\* buffered belongs at its offset.
LEMMA WritesTarget ==
  ASSUME SaveInv, NEW t \in Writing, pc[t] # "opened", damage \subseteq {"cut", "shared"}
  PROVE  Carried(t) /\ plan[t] = target
<1>1. plan[t] \in Text /\ NoText \notin Text
  BY WritersHave, EmptyText
<1>2. "gap" \notin damage /\ "mixed" \notin damage
  OBVIOUS
<1>3. QED
  BY <1>1, <1>2 DEF SaveInv, CarriedInv, PlansInv

LEMMA FlushPreserves ==
  ASSUME SaveInv, NEW t \in Threads \ gone, Flush(t)
  PROVE  SaveInv'
<1> DEFINE a == at[t]
           s == buffer[t]
           ls == Len(buffer[t])
           lf == Len(file)
           lt == Len(target)
<1>1. Types /\ ThreadInv(t) /\ OpenInv /\ PrefixInv /\ CoverInv
  BY DEF SaveInv
<1>2. /\ t \in Writing /\ pc[t] # "opened" /\ file' = Overlay(file, a, s)
      /\ UNCHANGED <<contents, slots, lock, target, damage, gone>>
  BY <1>1 DEF Flush, ThreadInv, Writing
<1>3. /\ file \in Text /\ target \in Text /\ file # NoFile /\ s \in Text /\ a \in Nat
      /\ plan[t] \in Text
  BY <1>1, <1>2, WritersHave, StandsStill
<1>4. ls \in Nat /\ lf \in Nat /\ lt \in Nat /\ Len(plan[t]) \in Nat
  BY <1>3 DEF Text
<1>5. /\ file' \in Text
      /\ Len(file') = IF a + ls <= lf THEN lf ELSE a + ls
      /\ \A i \in 1..ls : file'[a + i] = s[i]
      /\ \A i \in 1..lf : i \notin (a + 1)..(a + ls) => file'[i] = file[i]
  BY <1>2, <1>3, OverlayIs
<1>6. Becomes(t, pc[t], next[t], <<>>, a + ls, plan[t])
  BY <1>1, <1>2, StandsStill DEF Flush, Becomes
<1>7. ASSUME Carried(t) PROVE Carried(t)'
  <2>1. /\ pc'[t] = pc[t] /\ next'[t] = next[t] /\ buffer'[t] = <<>> /\ at'[t] = a + ls
        /\ plan'[t] = plan[t]
    BY <1>1, <1>6 DEF Becomes, Types
  <2>2. Len(buffer'[t]) = 0 /\ at'[t] + Len(buffer'[t]) = a + ls
    BY <1>3, <1>4, <2>1, EmptyText
  <2>3. Has(plan[t], buffer[t], at[t])'
    BY <2>2 DEF Has
  <2>4. SoFar(next[t] - 1)' = SoFar(next[t] - 1)
    BY <1>2, <2>1 DEF SoFar
  <2>5. QED
    BY <1>7, <2>1, <2>2, <2>3, <2>4 DEF Carried
<1>8. a + ls \in Nat
  BY <1>3, <1>4
<1>9. /\ Types' /\ (\A u \in Threads : ThreadInv(u)') /\ GoneInv' /\ OpenInv' /\ CarriedInv' /\ PlansInv'
      /\ Writing' = Writing /\ at'[t] = a + ls
      /\ \A u \in Writing : u # t => at'[u] = at[u]
  BY <1>2, <1>5, <1>6, <1>7, <1>8, StillWriting
\* What it has written is in its place, and where it has not it was there.
<1>10. ASSUME damage \subseteq {"cut", "shared"}
       PROVE  /\ a + ls <= lt
              /\ \A i \in 1..lt : i \in (a + 1)..(a + ls) => i <= Len(file') /\ file'[i] = target[i]
  <2>1. a + ls <= lt /\ Has(target, s, a)
    BY <1>2, <1>10, WritesTarget DEF Carried
  <2>2. ASSUME NEW i \in 1..lt, i \in (a + 1)..(a + ls)
        PROVE  i <= Len(file') /\ file'[i] = target[i]
    <3> DEFINE j == i - a
    <3>1. j \in 1..ls /\ a + j = i
      BY <1>3, <1>4, <2>2
    <3> HIDE DEF j
    <3>2. s[j] = target[a + j] /\ file'[a + j] = s[j]
      BY <1>5, <2>1, <3>1 DEF Has
    <3>3. i <= Len(file')
      <4> HIDE DEF a, ls, lf
      <4> QED
        BY <1>3, <1>4, <1>5, <2>2
    <3>4. QED
      BY <3>1, <3>2, <3>3
  <2>3. QED
    BY <2>1, <2>2
<1>11. PrefixInv'
  <2> SUFFICES ASSUME damage \subseteq {"cut"}
               PROVE  Begins(file', target) /\ \A u \in Writing : at'[u] = Len(file')
    BY <1>2, <1>9 DEF PrefixInv
  <2>1. a = lf /\ Begins(file, target) /\ \A u \in Writing : u = t
    BY <1>1, <1>2, <1>3 DEF PrefixInv, OpenInv
  <2>2. Len(file') = a + ls /\ a + ls <= lt
    <3>1. a + ls <= lt
      BY <1>10
    <3> HIDE DEF a, ls, lf, lt
    <3> QED
      BY <1>3, <1>4, <1>5, <2>1, <3>1
  <2>3. ASSUME NEW i \in 1..(a + ls) PROVE file'[i] = target[i]
    <3>1. CASE i \in (a + 1)..(a + ls)
      BY <1>3, <1>4, <1>10, <2>2, <3>1
    <3>2. CASE i \notin (a + 1)..(a + ls)
      <4>1. i \in 1..lf
        BY <1>3, <1>4, <2>1, <3>2
      <4>2. QED
        BY <1>5, <2>1, <3>2, <4>1 DEF Begins
    <3>3. QED
      BY <3>1, <3>2
  <2>4. QED
    BY <1>9, <2>1, <2>2, <2>3 DEF Begins
<1>12. CoverInv'
  <2> SUFFICES ASSUME damage \subseteq {"shared"}
               PROVE  /\ Len(file') <= lt
                      /\ \A i \in 1..lt :
                           \/ i <= Len(file') /\ file'[i] = target[i]
                           \/ \E u \in Writing : at'[u] < i
    BY <1>2, <1>9 DEF CoverInv
  <2>1. /\ lf <= lt
        /\ \A i \in 1..lt :
             \/ i <= lf /\ file[i] = target[i]
             \/ \E u \in Writing : at[u] < i
    BY <1>1, <1>3 DEF CoverInv
  <2>2. Len(file') <= lt /\ lf <= Len(file')
    <3>1. a + ls <= lt
      BY <1>10
    <3> HIDE DEF a, ls, lf, lt
    <3> QED
      BY <1>3, <1>4, <1>5, <2>1, <3>1
  <2>3. ASSUME NEW i \in 1..lt
        PROVE  \/ i <= Len(file') /\ file'[i] = target[i]
               \/ \E u \in Writing : at'[u] < i
    <3>1. CASE i \in (a + 1)..(a + ls)
      BY <1>10, <3>1
    <3>2. CASE i \notin (a + 1)..(a + ls) /\ i <= lf /\ file[i] = target[i]
      <4>1. i \in 1..lf
        BY <1>4, <3>2
      <4>2. i <= Len(file')
        <5>1. Len(file') \in Nat
          BY <1>5 DEF Text
        <5>2. QED
          BY <1>4, <2>2, <3>2, <5>1
      <4>3. QED
        BY <1>5, <3>2, <4>1, <4>2
    <3>3. CASE i \notin (a + 1)..(a + ls) /\ \E u \in Writing : at[u] < i
      <4>1. PICK u \in Writing : at[u] < i
        BY <3>3
      <4>2. CASE u = t
        <5>1. a + ls < i
          <6>1. a < i /\ i \in Nat
            BY <1>4, <4>1, <4>2
          <6> HIDE DEF a, ls, lt
          <6> QED
            BY <1>3, <1>4, <3>3, <6>1
        <5>2. QED
          BY <1>2, <1>9, <5>1
      <4>3. CASE u # t
        BY <1>9, <4>1, <4>3
      <4>4. QED
        BY <4>2, <4>3
    <3>4. QED
      BY <2>1, <3>1, <3>2, <3>3
  <2>4. QED
    BY <2>2, <2>3
<1>13. QED
  BY <1>9, <1>11, <1>12 DEF SaveInv

LEMMA FlushFailsPreserves ==
  ASSUME SaveInv, NEW t \in Threads \ gone, FlushFails(t)
  PROVE  SaveInv'
<1>1. Types /\ ThreadInv(t)
  BY DEF SaveInv
<1>2. /\ t \in Writing /\ pc[t] # "opened" /\ damage' = damage \cup {"gap"}
      /\ UNCHANGED <<contents, slots, file, lock, target, gone>>
  BY <1>1 DEF FlushFails, ThreadInv, Writing, Damages
<1>3. Becomes(t, pc[t], next[t], <<>>, at[t], plan[t]) /\ at[t] \in Nat /\ file' \in Text
  BY <1>1, <1>2, StandsStill, WritersHave DEF FlushFails, Becomes
<1>4. /\ Types' /\ (\A u \in Threads : ThreadInv(u)') /\ GoneInv' /\ OpenInv' /\ CarriedInv' /\ PlansInv'
  BY <1>2, <1>3, StillWriting
<1>5. PrefixInv' /\ CoverInv'
  BY <1>2 DEF PrefixInv, CoverInv
<1>6. QED
  BY <1>4, <1>5 DEF SaveInv

\* fclose: a stream whose buffer is empty, or one whose write fails.
LEMMA ClosePreserves ==
  ASSUME SaveInv, NEW t \in Threads \ gone, pc[t] \in {"printed", "copying"},
         Becomes(t, "idle", 1, <<>>, 0, NoText), LockMoves(t), lock' # t,
         UNCHANGED <<contents, slots, file, target, gone>>,
         \/ damage' = damage /\ buffer[t] = <<>>
         \/ damage' = damage \cup {"gap"}
  PROVE  SaveInv'
<1>1. Types /\ ThreadInv(t) /\ OpenInv /\ CarriedInv /\ PlansInv /\ PrefixInv /\ CoverInv
  BY DEF SaveInv
<1>2. t \in Writing
  BY DEF Writing, Streams
<1>3. file \in Text /\ file # NoFile /\ target \in Text /\ target # NoFile
  BY <1>2, WritersHave
<1>4. damage \subseteq damage' /\ damage' \subseteq {"cut", "gap", "shared", "mixed"}
  BY <1>1 DEF Types
<1>5. "idle" \in PCs /\ 1 \in Nat \ {0} /\ 0 \in Nat /\ <<>> \in Text
  BY EmptyText DEF PCs
<1>6. /\ Types'
      /\ pc'[t] = "idle" /\ next'[t] = 1 /\ buffer'[t] = <<>> /\ at'[t] = 0 /\ plan'[t] = NoText
      /\ \A u \in Threads \ {t} :
           /\ pc'[u] = pc[u] /\ at'[u] = at[u] /\ plan'[u] = plan[u] /\ buffer'[u] = buffer[u]
           /\ ThreadInv(u)'
           /\ Carried(u) => Carried(u)'
  BY <1>3, <1>4, <1>5, Became
<1>7. ThreadInv(t)'
  BY <1>6 DEF ThreadInv, Inside
<1>8. Writing' = Writing \ {t}
  BY <1>6 DEF Writing, Streams
<1>9. \A u \in Writing' : u \in Threads \ {t} /\ u \in Writing
  BY <1>8 DEF Writing, Streams
<1>10. OpenInv'
  <2>1. \A c \in Threads : pc'[c] # "creating"
    BY <1>1, <1>2, <1>6 DEF OpenInv
  <2>2. /\ "shared" \notin damage' => \A u, v \in Writing' : u = v
        /\ "cut" \in damage' => Writing' = {}
    BY <1>1, <1>2, <1>4, <1>9 DEF OpenInv
  <2>3. QED
    BY <1>3, <2>1, <2>2 DEF OpenInv
<1>11. CarriedInv'
  <2>1. ASSUME "gap" \notin damage', NEW u \in Writing', pc'[u] # "opened" PROVE Carried(u)'
    BY <1>1, <1>4, <1>6, <1>9, <2>1 DEF CarriedInv
  <2>2. QED
    BY <2>1 DEF CarriedInv
<1>12. PlansInv'
  <2>1. ASSUME "mixed" \notin damage', NEW u \in Writing' PROVE plan'[u] \in {NoText, target'}
    BY <1>1, <1>4, <1>6, <1>9, <2>1 DEF PlansInv
  <2>2. QED
    BY <2>1 DEF PlansInv
<1>13. PrefixInv'
  <2>1. ASSUME damage' \subseteq {"cut"}
        PROVE  Begins(file', target') /\ \A u \in Writing' : at'[u] = Len(file')
    BY <1>1, <1>3, <1>4, <1>6, <1>9, <2>1 DEF PrefixInv
  <2>2. QED
    BY <2>1 DEF PrefixInv
<1>14. CoverInv'
  <2> SUFFICES ASSUME damage' \subseteq {"shared"}
               PROVE  /\ Len(file) <= Len(target)
                      /\ \A i \in 1..Len(target) :
                           \/ i <= Len(file) /\ file[i] = target[i]
                           \/ \E u \in Writing' : at'[u] < i
    BY DEF CoverInv
  <2>1. damage \subseteq {"shared"} /\ buffer[t] = <<>>
    BY <1>4
  <2>2. /\ Len(file) <= Len(target)
        /\ \A i \in 1..Len(target) :
             \/ i <= Len(file) /\ file[i] = target[i]
             \/ \E u \in Writing : at[u] < i
    BY <1>1, <1>3, <2>1 DEF CoverInv
  <2>3. at[t] + Len(buffer[t]) = Len(target)
    BY <1>2, <2>1, WritesTarget DEF Carried
  <2>4. at[t] = Len(target) /\ Len(target) \in Nat
    BY <1>1, <1>3, <2>1, <2>3, EmptyText, StandsStill DEF Text
  <2>5. ASSUME NEW i \in 1..Len(target), NEW u \in Writing, at[u] < i
        PROVE  u \in Writing' /\ at'[u] < i
    <3>1. u # t
      BY <2>4, <2>5
    <3>2. QED
      BY <1>6, <1>8, <1>9, <2>5, <3>1
  <2>6. QED
    BY <2>2, <2>5
<1>15. (\A u \in Threads : ThreadInv(u)') /\ GoneInv'
  BY <1>6, <1>7 DEF SaveInv, GoneInv, Streams
<1>16. QED
  BY <1>6, <1>10, <1>11, <1>12, <1>13, <1>14, <1>15 DEF SaveInv

LEMMA ClosingSteps ==
  ASSUME SaveInv, NEW t \in Threads \ gone, SaveClose(t) \/ SaveCloseFails(t) \/ SectionClose(t)
  PROVE  SaveInv'
<1>1. /\ pc[t] \in {"printed", "copying"} /\ Becomes(t, "idle", 1, <<>>, 0, NoText)
      /\ UNCHANGED <<contents, slots, file, target, gone>>
      /\ \/ damage' = damage /\ buffer[t] = <<>>
         \/ damage' = damage \cup {"gap"}
  BY DEF SaveClose, SaveCloseFails, SectionClose, SectionReturns, Returns, Goto, Becomes, Damages
<1>2. ThreadInv(t)
  BY DEF SaveInv
<1>3. LockMoves(t) /\ lock' # t
  <2>1. CASE SaveClose(t) \/ SaveCloseFails(t)
    BY <1>2, <2>1 DEF SaveClose, SaveCloseFails, ThreadInv, Inside, LockMoves
  <2>2. CASE SectionClose(t)
    BY <1>2, <2>2, SaveThreadsAssumption
    DEF SectionClose, SectionReturns, LockAfterSection, ThreadInv, Inside, LockMoves
  <2>3. QED
    BY <2>1, <2>2
<1>4. QED
  BY <1>1, <1>3, ClosePreserves

\* A step of a thread whose file has been removed: the one at the path stays
\* as it is, and so do those that write to it.
LEMMA ElsewherePreserves ==
  ASSUME SaveInv, NEW t \in gone, NEW p \in PCs, NEW n \in Nat \ {0}, NEW b \in Text,
         NEW text \in Text \cup {NoText}, Becomes(t, p, n, b, 0, text),
         UNCHANGED <<contents, slots, file, target, damage>>, LockMoves(t), ThreadInv(t)',
         (p \in OpenPCs /\ gone' = gone) \/ (p = "idle" /\ gone' = gone \ {t})
  PROVE  SaveInv'
<1>1. t \in Threads /\ pc[t] \in OpenPCs /\ 0 \in Nat
  BY DEF SaveInv, GoneInv, Streams, OpenPCs
<1>2. /\ Types'
      /\ pc'[t] = p /\ next'[t] = n /\ buffer'[t] = b /\ at'[t] = 0 /\ plan'[t] = text
      /\ \A u \in Threads \ {t} :
           /\ pc'[u] = pc[u] /\ at'[u] = at[u] /\ plan'[u] = plan[u] /\ buffer'[u] = buffer[u]
           /\ ThreadInv(u)'
           /\ Carried(u) => Carried(u)'
  <2>1. /\ file' \in Text \cup {NoFile} /\ target' \in Text \cup {NoFile}
        /\ damage' \subseteq {"cut", "gap", "shared", "mixed"}
        /\ UNCHANGED <<contents, slots>>
    BY DEF SaveInv, Types
  <2>2. QED
    BY <1>1, <2>1, Became
<1>3. Writing' = Writing /\ t \notin Writing
  BY <1>1, <1>2 DEF Writing, Streams, OpenPCs
<1>4. \A u \in Writing : u \in Threads \ {t} /\ at'[u] = at[u] /\ plan'[u] = plan[u] /\ pc'[u] = pc[u]
  BY <1>2, <1>3 DEF Writing, Streams
<1>5. GoneInv'
  BY <1>1, <1>2 DEF SaveInv, GoneInv, Streams, OpenPCs
<1>6. OpenInv'
  <2>1. \A c \in Threads : pc'[c] = "creating" => pc[c] = "creating"
    BY <1>2 DEF OpenPCs
  <2>2. QED
    BY <1>3, <1>4, <2>1 DEF SaveInv, OpenInv
<1>7. CarriedInv'
  BY <1>2, <1>3, <1>4 DEF SaveInv, CarriedInv
<1>8. PlansInv' /\ PrefixInv' /\ CoverInv'
  BY <1>3, <1>4 DEF SaveInv, PlansInv, PrefixInv, CoverInv, Begins
<1>9. QED
  BY <1>2, <1>5, <1>6, <1>7, <1>8 DEF SaveInv

LEMMA ElsewhereSteps ==
  ASSUME SaveInv, NEW t \in gone,
         \/ SaveLock(t) \/ Flush(t) \/ FlushFails(t)
         \/ SaveClose(t) \/ SaveCloseFails(t) \/ SectionClose(t)
  PROVE  SaveInv'
<1>1. Types /\ t \in Threads /\ ThreadInv(t) /\ at[t] = 0 /\ pc[t] \in OpenPCs /\ t \notin Writing
  BY DEF SaveInv, GoneInv, Writing, Streams, OpenPCs
<1>2. CASE SaveLock(t)
  <2> DEFINE text == SavedText(contents, slots)
  <2>1. /\ pc[t] = "opened" /\ lock' = t /\ LockMoves(t)
        /\ next[t] = 1 /\ buffer[t] = <<>>
        /\ UNCHANGED <<contents, slots, file, target, damage, gone>>
    BY <1>1, <1>2 DEF SaveLock, MayIterate, LockMoves, ThreadInv, Damages
  <2>2. text \in Text /\ Len(slots) \in Nat
    <3>1. IsContext(contents) /\ slots \in Seq(DOMAIN contents)
      BY <1>1 DEF Types
    <3>2. QED
      BY <1>1, <3>1, PartsAre, SoFarIs
  <2>3. SavedText(contents, slots)' = text /\ Len(slots') = Len(slots)
    BY <2>1
  <2> HIDE DEF text
  <2>4. Becomes(t, "iterating", next[t], buffer[t], 0, text)
    BY <1>1, <1>2, <2>1, StandsStill DEF SaveLock, Goto, Becomes, text
  <2>5. /\ pc'[t] = "iterating" /\ next'[t] = 1 /\ at'[t] = 0 /\ plan'[t] = text
    BY <1>1, <2>1, <2>4 DEF Becomes, Types
  <2>6. ThreadInv(t)'
    BY <2>1, <2>2, <2>3, <2>5 DEF ThreadInv, Inside
  <2>7. QED
    BY <2>1, <2>2, <2>4, <2>6, ElsewherePreserves, <1>1, StandsStill DEF OpenPCs, PCs
<1>3. CASE Flush(t) \/ FlushFails(t)
  <2>1. /\ buffer' = [buffer EXCEPT ![t] = <<>>]
        /\ UNCHANGED <<contents, slots, file, lock, pc, next, at, plan, target, damage, gone>>
    BY <1>1, <1>3 DEF Flush, FlushFails, Damages
  <2>2. Becomes(t, pc[t], next[t], <<>>, 0, plan[t]) /\ LockMoves(t)
    BY <1>1, <2>1, StandsStill DEF Becomes, LockMoves
  <2>3. buffer'[t] = <<>> /\ SavedText(contents, slots)' = SavedText(contents, slots)
    BY <1>1, <2>1 DEF Types, SavedText, Printed
  <2>4. ThreadInv(t)'
    BY <1>1, <2>1, <2>3 DEF ThreadInv, OpenPCs
  <2>5. QED
    BY <1>1, <2>1, <2>2, <2>4, ElsewherePreserves, StandsStill, EmptyText
<1>4. CASE SaveClose(t) \/ SaveCloseFails(t) \/ SectionClose(t)
  <2>1. /\ pc[t] \in {"printed", "copying"} /\ Becomes(t, "idle", 1, <<>>, 0, NoText)
        /\ UNCHANGED <<contents, slots, file, target, damage>> /\ gone' = gone \ {t}
    BY <1>4 DEF SaveClose, SaveCloseFails, SectionClose, SectionReturns, Returns, Goto, Becomes, Damages
  <2>2. LockMoves(t) /\ lock' # t
    <3>1. CASE SaveClose(t) \/ SaveCloseFails(t)
      BY <1>1, <3>1 DEF SaveClose, SaveCloseFails, ThreadInv, Inside, LockMoves
    <3>2. CASE SectionClose(t)
      BY <1>1, <3>2, SaveThreadsAssumption
      DEF SectionClose, SectionReturns, LockAfterSection, ThreadInv, Inside, LockMoves
    <3>3. QED
      BY <1>4, <3>1, <3>2
  <2>3. pc'[t] = "idle" /\ next'[t] = 1 /\ buffer'[t] = <<>> /\ at'[t] = 0 /\ plan'[t] = NoText
    BY <1>1, <2>1 DEF Becomes, Types
  <2>4. ThreadInv(t)'
    BY <2>2, <2>3 DEF ThreadInv, Inside
  <2>5. QED
    BY <2>1, <2>2, <2>4, ElsewherePreserves, EmptyText DEF PCs
<1>5. QED
  BY <1>2, <1>3, <1>4

-----------------------------------------------------------------------------
(* Loads, removals and crashes *)

LEMMA NothingIsContext ==
  /\ IsContext(Nothing) /\ <<>> \in Seq(DOMAIN Nothing)
  /\ DOMAIN Nothing = {<<>>[i] : i \in DOMAIN <<>>}
<1>1. DOMAIN Nothing = {} /\ IsFiniteSet({})
  BY FS_EmptySet DEF Nothing
<1>2. IsContext(Nothing)
  BY <1>1 DEF IsContext
<1>3. QED
  BY <1>1, <1>2

LEMMA LoadedTypes ==
  ASSUME NEW text \in Text, Loads(text)
  PROVE  /\ IsContext(contents') /\ slots' \in Seq(DOMAIN contents')
         /\ DOMAIN contents' = {slots'[i] : i \in DOMAIN slots'}
<1>1. IsContext(Loaded(text)) /\ IsFiniteSet(DOMAIN Loaded(text))
  BY LoadedIsContext DEF IsContext
<1>2. slots' \in Seq(DOMAIN Loaded(text)) /\ DOMAIN Loaded(text) = {slots'[i] : i \in DOMAIN slots'}
  <2> DEFINE S == DOMAIN Loaded(text)
  <2>1. IsFiniteSet(S) /\ slots' \in SetToSeqs(S)
    BY <1>1 DEF Loads
  <2> HIDE DEF S
  <2>2. slots' \in Seq(S) /\ S = {slots'[i] : i \in DOMAIN slots'}
    BY <2>1, OrderOf
  <2>3. QED
    BY <2>2 DEF S
<1>3. QED
  BY <1>1, <1>2 DEF Loads

LEMMA LoadPreserves ==
  ASSUME SaveInv, LoadClear \/ LoadFile \/ LoadOther
  PROVE  SaveInv'
<1>1. /\ lock = NoThread /\ UNCHANGED <<file, lock, saver, target, damage>>
      /\ UNCHANGED <<pc, next, buffer, at, plan, gone>>
  BY DEF LoadClear, LoadFile, LoadOther, saver
<1>2. /\ IsContext(contents') /\ slots' \in Seq(DOMAIN contents')
      /\ DOMAIN contents' = {slots'[i] : i \in DOMAIN slots'}
  <2>1. CASE LoadFile
    BY <2>1, LoadedTypes DEF LoadFile, SaveInv, Types
  <2>2. CASE LoadOther
    BY <2>2, LoadedTypes, TextsAssumption DEF LoadOther
  <2>3. CASE LoadClear
    BY <2>3, NothingIsContext DEF LoadClear
  <2>4. QED
    BY <2>1, <2>2, <2>3
<1>3. Types'
  BY <1>1, <1>2 DEF SaveInv, Types
<1>4. \A t \in Threads : pc[t] \notin Inside
  BY <1>1, SaveThreadsAssumption DEF SaveInv, ThreadInv
<1>5. \A t \in Threads : ThreadInv(t)'
  BY <1>1, <1>4 DEF SaveInv, ThreadInv, Inside
<1>6. Writing' = Writing
  BY <1>1 DEF Writing, Streams
<1>7. CarriedInv'
  <2>1. ASSUME "gap" \notin damage', NEW t \in Writing', pc'[t] # "opened" PROVE Carried(t)'
    <3>1. t \in Threads /\ Carried(t)
      BY <1>1, <1>6, <2>1 DEF SaveInv, CarriedInv, Writing, Streams
    <3>2. pc'[t] # "iterating"
      BY <1>1, <1>4, <3>1 DEF Inside
    <3>3. QED
      BY <1>1, <3>1, <3>2 DEF Carried
  <2>2. QED
    BY <2>1 DEF CarriedInv
<1>8. GoneInv' /\ OpenInv' /\ PlansInv' /\ PrefixInv' /\ CoverInv'
  BY <1>1, <1>6 DEF SaveInv, GoneInv, Streams, OpenInv, PlansInv, PrefixInv, CoverInv
<1>9. QED
  BY <1>3, <1>5, <1>7, <1>8 DEF SaveInv

LEMMA RemovePreserves ==
  ASSUME SaveInv, RemoveFile
  PROVE  SaveInv'
<1>1. /\ file' = NoFile /\ target' = NoFile /\ damage' = {}
      /\ gone' = Streams /\ at' = [t \in Threads |-> 0]
      /\ UNCHANGED <<contents, slots, lock, pc, next, buffer, plan>>
  BY DEF RemoveFile
<1>2. Types'
  BY <1>1 DEF SaveInv, Types, IsContext, IsTable
<1>3. Writing' = {}
  BY <1>1 DEF Writing, Streams
<1>4. ASSUME NEW t \in Threads PROVE ThreadInv(t)'
  <2>1. SavedText(contents, slots)' = SavedText(contents, slots)
    BY <1>1
  <2>2. QED
    BY <1>1, <2>1 DEF SaveInv, ThreadInv
<1>5. GoneInv'
  BY <1>1 DEF GoneInv, Streams
<1>6. OpenInv' /\ CarriedInv' /\ PlansInv' /\ PrefixInv' /\ CoverInv'
  BY <1>1, <1>3 DEF OpenInv, CarriedInv, PlansInv, PrefixInv, CoverInv
<1>7. QED
  BY <1>2, <1>4, <1>5, <1>6 DEF SaveInv

\* What Init and Crash make of the threads.
Fresh ==
  /\ contents = Nothing /\ slots = <<>> /\ lock = NoThread
  /\ pc = [t \in Threads |-> "idle"] /\ next = [t \in Threads |-> 1]
  /\ buffer = [t \in Threads |-> <<>>] /\ at = [t \in Threads |-> 0]
  /\ plan = [t \in Threads |-> NoText] /\ gone = {}
  /\ file \in Text \cup {NoFile} /\ target \in Text \cup {NoFile}
  /\ damage \subseteq {"cut", "gap", "shared", "mixed"}

NobodyWrites ==
  /\ Types /\ (\A t \in Threads : ThreadInv(t)) /\ Writing = {}
  /\ GoneInv /\ CarriedInv /\ PlansInv /\ \A t \in Threads : pc[t] # "creating"

LEMMA FreshIs == Fresh => NobodyWrites
<1> SUFFICES ASSUME Fresh PROVE NobodyWrites
  OBVIOUS
<1>1. Types
  BY NothingIsContext, EmptyText DEF Fresh, Types, PCs
<1>2. \A t \in Threads : ThreadInv(t)
  BY SaveThreadsAssumption DEF Fresh, ThreadInv, Inside
<1>3. Writing = {} /\ \A t \in Threads : pc[t] # "creating"
  BY DEF Fresh, Writing, Streams
<1>4. GoneInv
  BY DEF Fresh, GoneInv
<1>5. QED
  BY <1>1, <1>2, <1>3, <1>4 DEF NobodyWrites, CarriedInv, PlansInv

LEMMA CrashPreserves ==
  ASSUME SaveInv, Crash
  PROVE  SaveInv'
<1>1. /\ UNCHANGED <<file, target>>
      /\ damage' = damage \cup (IF Writing = {} THEN {} ELSE {"cut"})
  BY DEF Crash
<1>2. Fresh'
  BY <1>1 DEF Crash, Fresh, SaveInv, Types
<1>a. NobodyWrites'
  BY <1>2, FreshIs, PTL
<1>3. /\ Types' /\ (\A t \in Threads : ThreadInv(t)') /\ Writing' = {}
      /\ GoneInv' /\ CarriedInv' /\ PlansInv' /\ \A t \in Threads : pc'[t] # "creating"
  BY <1>a DEF NobodyWrites
<1>4. OpenInv'
  BY <1>1, <1>3 DEF SaveInv, OpenInv
<1>5. PrefixInv'
  BY <1>1, <1>3 DEF SaveInv, PrefixInv
<1>6. CoverInv'
  <2>1. ASSUME damage' \subseteq {"shared"} PROVE Writing = {} /\ damage \subseteq {"shared"}
    BY <1>1, <2>1
  <2>2. QED
    BY <1>1, <1>3, <2>1 DEF SaveInv, CoverInv
<1>7. QED
  BY <1>3, <1>4, <1>5, <1>6 DEF SaveInv

LEMMA SaveInvInit == Init => SaveInv
<1> SUFFICES ASSUME Init PROVE SaveInv
  OBVIOUS
<1>1. target = file /\ damage = {} /\ file \in Text \cup {NoFile}
  BY TextsAssumption DEF Init
<1>a. Fresh
  BY <1>1 DEF Init, Fresh
<1>2. /\ Types /\ (\A t \in Threads : ThreadInv(t)) /\ Writing = {}
      /\ GoneInv /\ CarriedInv /\ PlansInv /\ \A t \in Threads : pc[t] # "creating"
  BY <1>a, FreshIs DEF NobodyWrites
<1>3. OpenInv
  BY <1>1, <1>2 DEF OpenInv
<1>4. PrefixInv /\ CoverInv
  <2>1. file # NoFile => Len(file) \in Nat
    BY <1>1 DEF Text
  <2>2. file # NoFile => Begins(file, target)
    BY <1>1, <2>1 DEF Begins
  <2>3. file # NoFile => \A i \in 1..Len(target) : i <= Len(file) /\ file[i] = target[i]
    BY <1>1, <2>1
  <2>4. QED
    BY <1>1, <1>2, <2>1, <2>2, <2>3 DEF PrefixInv, CoverInv
<1>5. QED
  BY <1>2, <1>3, <1>4 DEF SaveInv

LEMMA SaveInvStep == SaveInv /\ [Next]_vars => SaveInv'
<1> SUFFICES ASSUME SaveInv, [Next]_vars PROVE SaveInv'
  OBVIOUS
<1>1. CASE UNCHANGED vars
  <2>1. /\ UNCHANGED <<contents, slots, file, lock, pc, next, buffer, at, plan, target, damage, gone>>
    BY <1>1 DEF vars, saver
  <2>2. Types' /\ Writing' = Writing
    BY <2>1 DEF SaveInv, Types, IsContext, IsTable, Writing, Streams
  <2>3. \A t \in Threads : ThreadInv(t)' /\ (Carried(t) => Carried(t)')
    BY <2>1 DEF SaveInv, ThreadInv, Carried, SoFar
  <2>4. CarriedInv'
    BY <2>1, <2>2, <2>3 DEF SaveInv, CarriedInv, Writing, Streams
  <2>5. GoneInv' /\ OpenInv' /\ PlansInv' /\ PrefixInv' /\ CoverInv'
    BY <2>1, <2>2 DEF SaveInv, GoneInv, Streams, OpenInv, PlansInv, PrefixInv, CoverInv
  <2>6. QED
    BY <2>2, <2>3, <2>4, <2>5 DEF SaveInv
<1>2. CASE LoadClear \/ LoadFile \/ LoadOther \/ RemoveFile \/ Crash
  BY <1>2, LoadPreserves, RemovePreserves, CrashPreserves
<1>3. CASE \E t \in Savers : SaveOpen(t) \/ SaveStep(t)
  <2>1. PICK t \in Savers : SaveOpen(t) \/ SaveStep(t)
    BY <1>3
  <2>2. t \in Threads
    BY DEF Threads
  <2>3. QED
    BY <2>1, <2>2, OpenPreserves, LockPreserves, SectionPreserves, UnlockPreserves, ClosingSteps,
       ElsewhereSteps
    DEF SaveStep
<1>4. CASE \E t \in SectionSavers :
             \/ SectionStep(t)
             \/ \E n \in Names, k \in Keys \cup {AllKeys} : SectionCall(t, n, k)
  <2>1. PICK t \in SectionSavers :
             \/ SectionStep(t)
             \/ \E n \in Names, k \in Keys \cup {AllKeys} : SectionCall(t, n, k)
    BY <1>4
  <2>2. t \in Threads
    BY DEF Threads
  <2>3. CASE SectionOpen(t)
    BY <2>2, <2>3, SectionOpenPreserves
  <2>4. CASE SectionClose(t)
    BY <2>2, <2>4, ClosingSteps, ElsewhereSteps
  <2>5. CASE SectionAbsent(t)
    BY <2>2, <2>5, AbsentPreserves
  <2>6. CASE \/ \E n \in Names, k \in Keys \cup {AllKeys} : SectionCall(t, n, k)
             \/ SectionNotFound(t) \/ SectionExists(t) \/ SectionRefused(t)
    BY <2>2, <2>6, QuietSteps
  <2>7. QED
    BY <2>1, <2>3, <2>4, <2>5, <2>6 DEF SectionStep
<1>5. CASE \E t \in Printers : PrintCall(t) \/ PrintReturn(t)
  BY <1>5, QuietSteps DEF Threads
<1>6. CASE \E t \in Threads : Flush(t) \/ FlushFails(t)
  BY <1>6, FlushPreserves, FlushFailsPreserves, ElsewhereSteps
<1>7. QED
  BY <1>1, <1>2, <1>3, <1>4, <1>5, <1>6 DEF Next

LEMMA SaveInvariant == Spec => []SaveInv
BY SaveInvInit, SaveInvStep, PTL DEF Spec

-----------------------------------------------------------------------------

\* Every variable has its type, the lock is with the thread that is between
\* taking it and releasing it, and an iterator is never past the end of the
\* sections, however loads replace them: ini_load waits for its lock.
THEOREM TypeCorrect == Spec => []TypeOK
<1>1. ASSUME SaveInv PROVE TypeOK
  <2>1. Types /\ \A t \in Threads : ThreadInv(t)
    BY <1>1 DEF SaveInv
  <2>2. ASSUME NEW t \in Threads, lock = t PROVE next[t] \in 1..(Len(slots) + 1)
    <3>1. next[t] \in Nat \ {0} /\ Len(slots) \in Nat
      BY <2>1, StandsStill DEF Types
    <3>2. next[t] <= Len(slots) + 1
      BY <2>1, <2>2, <3>1 DEF ThreadInv, Inside
    <3>3. QED
      BY <3>1, <3>2
  <2>3. ASSUME NEW t \in Threads \ Writing PROVE at[t] = 0
    <3>1. CASE t \in gone
      BY <1>1, <3>1 DEF SaveInv, GoneInv
    <3>2. CASE t \notin gone
      <4>1. pc[t] \in PCs \ OpenPCs
        BY <2>1, <3>2, StandsStill DEF Writing, Streams, OpenPCs
      <4>2. QED
        BY <2>1, <4>1 DEF ThreadInv, PCs, OpenPCs
    <3>3. QED
      BY <3>1, <3>2
  <2>4. \A t \in Threads : lock = t <=> pc[t] \in Inside
    BY <2>1 DEF ThreadInv
  <2>5. QED
    BY <1>1, <2>1, <2>2, <2>3, <2>4 DEF SaveInv, GoneInv, TypeOK, Types, PCs, Inside
<1>2. QED
  BY <1>1, SaveInvariant, PTL

\* When nobody writes, the file is the whole text that the last saver set out
\* to write, whoever truncated, flushed and closed it in what order.
THEOREM Whole == Spec => []SavedWhole
<1>1. ASSUME SaveInv PROVE SavedWhole
  <2> SUFFICES ASSUME Writing = {}, damage \subseteq {"shared"} PROVE file = target
    BY DEF SavedWhole
  <2>1. CASE file = NoFile
    BY <1>1, <2>1 DEF SaveInv, OpenInv
  <2>2. CASE file # NoFile
    <3>1. file \in Seq(Chars) /\ target \in Seq(Chars)
      BY <1>1, <2>2 DEF SaveInv, Types, OpenInv, Text
    <3>2. Len(file) <= Len(target) /\ \A i \in 1..Len(target) : i <= Len(file) /\ file[i] = target[i]
      BY <1>1, <2>2 DEF SaveInv, CoverInv
    <3>3. Len(file) = Len(target)
      <4>1. Len(file) \in Nat /\ Len(target) \in Nat
        BY <3>1
      <4>2. CASE Len(target) = 0
        BY <3>2, <4>1, <4>2
      <4>3. CASE Len(target) # 0
        <5>1. Len(target) \in 1..Len(target)
          BY <4>1, <4>3
        <5>2. QED
          BY <3>2, <4>1, <5>1
      <4>4. QED
        BY <4>2, <4>3
    <3>4. \A i \in 1..Len(file) : file[i] = target[i]
      BY <3>2, <3>3
    <3>5. QED
      BY <3>1, <3>3, <3>4, SeqEqual
  <2>3. QED
    BY <2>1, <2>2
<1>2. QED
  BY <1>1, SaveInvariant, PTL

\* What a crash leaves of a thread's text, if the thread had the file to
\* itself, is how that text begins.
THEOREM Prefix == Spec => []CrashLeavesPrefix
<1>1. ASSUME SaveInv PROVE CrashLeavesPrefix
  <2> SUFFICES ASSUME damage \subseteq {"cut"}, file # NoFile PROVE IsPrefix(file, target)
    BY DEF CrashLeavesPrefix
  <2>1. file \in Seq(Chars) /\ target \in Seq(Chars)
    BY <1>1 DEF SaveInv, Types, OpenInv, Text
  <2>2. Len(file) <= Len(target) /\ \A i \in 1..Len(file) : file[i] = target[i]
    BY <1>1 DEF SaveInv, PrefixInv, Begins
  <2>3. SubSeq(file, 1, Len(file)) = SubSeq(target, 1, Len(file))
    <3>1. Len(file) \in Nat /\ Len(target) \in Nat
      BY <2>1
    <3>2. \A i \in 1..Len(file) : file[i + 1 - 1] = target[i + 1 - 1]
      BY <2>2, <3>1
    <3>3. QED
      BY <2>1, <2>2, <3>1, <3>2
  <2>4. QED
    BY <2>2, <2>3 DEF IsPrefix
<1>2. QED
  BY <1>1, SaveInvariant, PTL

\* ini_save_section_value finds the file absent and opens it with "w" later,
\* without looking again; what it truncates then is at most a file that others
\* have only opened, for they wait for the lock it has held since.
THEOREM NothingLost == Spec => SectionSaveLosesNothing
<1> DEFINE A == \A t \in SectionSavers : SectionOpen(t) => file \in {NoFile, <<>>}
<1>1. SaveInv /\ [Next]_vars => [A]_vars
  BY SectionOpenPreserves DEF Threads
<1> HIDE DEF A
<1>2. Spec => [][A]_vars
  BY <1>1, SaveInvariant, PTL DEF Spec
<1>3. QED
  BY <1>2 DEF A, SectionSaveLosesNothing

\* ini_load understands every line of a file that ini_good accepts: of the
\* samples, and of what savers leave, whatever their interleavings, crashes
\* and failed writes have made of it.
THEOREM Understanding == Spec => []GoodIsUnderstood
<1>1. ASSUME SaveInv PROVE GoodIsUnderstood
  <2>1. Misunderstood = {}
    BY GoodTexts, SamplesAssumption DEF Misunderstood
  <2>2. file # NoFile => file \in Text
    BY <1>1 DEF SaveInv, Types
  <2>3. QED
    BY <2>1, <2>2, GoodTexts DEF GoodIsUnderstood
<1>2. QED
  BY <1>1, SaveInvariant, PTL

\* ini_save writes of a context what ini_good accepts and ini_load reads back as
\* it was, if the context is representable, and only then: of those the samples
\* and setString make, and of whatever context there is to save at any time.
THEOREM Rereading == Spec => []ReadsBack
<1>1. ASSUME NEW c, IsContext(c) PROVE ReadBack(c) = Representable(c)
  <2>1. ReadBack(c) <=> Representable(c)
    BY <1>1, RoundTrip
  <2>2. ReadBack(c) \in BOOLEAN /\ Representable(c) \in BOOLEAN
    BY DEF ReadBack, Representable
  <2>3. QED
    BY <2>1, <2>2
<1>2. Misjudged = {}
  <2>1. ASSUME NEW c \in {Loaded(text) : text \in {x \in Samples : Loadable(x)}} \cup Made
        PROVE  ReadBack(c) = Representable(c)
    <3>1. CASE c \in Made
      BY <1>1, <3>1, MadeAssumption
    <3>2. CASE c \in {Loaded(text) : text \in {x \in Samples : Loadable(x)}}
      <4>1. PICK text \in Samples : c = Loaded(text)
        BY <3>2
      <4>2. IsContext(c)
        BY <4>1, SamplesAssumption, LoadedIsContext
      <4>3. QED
        BY <1>1, <4>2
    <3>3. QED
      BY <3>1, <3>2
  <2>2. QED
    BY <2>1 DEF Misjudged
<1>3. ASSUME SaveInv PROVE ReadsBack
  <2>1. IsContext(contents)
    BY <1>3 DEF SaveInv, Types
  <2>2. QED
    BY <1>1, <1>2, <2>1 DEF ReadsBack
<1>4. QED
  BY <1>3, SaveInvariant, PTL
=============================================================================
