------------------------------ MODULE IniSave -------------------------------
(***************************************************************************)
(* Threads that save one context of src/ini_parser.c to one file, with     *)
(* ini_save and ini_save_section_value, while it is loaded again, others   *)
(* print it, disks fill up and the process crashes.                        *)
(*                                                                         *)
(* ini_save truncates the file before it waits for the context's lock, and *)
(* writes what stdio has buffered after it has released it;                *)
(* ini_save_section_value holds the lock from its first look at the file   *)
(* to the end.  The lock is taken to be one (IniMutex).  What is buffered  *)
(* goes to the file whole, at any time, at the place where its stream is.  *)
(***************************************************************************)
EXTENDS IniText

CONSTANTS
  Savers, SectionSavers,   \* threads that call the one and the other,
  Printers,                \* and ini_print
  NoThread, NoFile, NoText,
  Names, Keys, AllKeys,    \* what section saves are asked for; key = NULL
  Texts,                   \* what the file may hold at first
  OtherTexts               \* what other files hold that the context is loaded from

Threads == Savers \cup SectionSavers \cup Printers

ASSUME SaveThreadsAssumption ==
  /\ NoThread \notin Threads
  /\ Savers \cap SectionSavers = {} /\ Printers \cap (Savers \cup SectionSavers) = {}
ASSUME AllKeysAssumption == AllKeys \notin Keys
ASSUME TextsAssumption ==
  Texts \cup OtherTexts \subseteq Text /\ NoText \notin Text /\ NoFile \notin Text

VARIABLES
  contents,  \* the context: section name -> key -> value
  slots,     \* the names in it, in the order an iterator gives
  file,      \* the text on the disk, or NoFile
  lock,      \* the thread that has ctx->mutex
  pc,
  next,      \* the slot that ini_save's iterator comes to next
  buffer,    \* what a thread has printed and the file has not got yet
  at,        \* how far the thread's stream has written
  plan,      \* history: the whole of what it is writing
  target,    \* history: what the last thread to print set out to write
  damage,    \* history: what has happened to the file since it was truncated
  gone       \* the threads whose stream writes to a file that has been removed

saver == <<pc, next, buffer, at, plan, gone>>
vars == <<contents, slots, file, lock, saver, target, damage>>

Nothing == [n \in {} |-> [k \in {} |-> <<>>]]

Goto(t, l) == pc' = [pc EXCEPT ![t] = l]

\* The threads that have a file open for writing, and those for whom it is
\* still the one at the path.
Streams == {t \in Threads : pc[t] \in {"opened", "iterating", "printed", "copying"}}
Writing == Streams \ gone
AllIdle == \A t \in Threads : pc[t] = "idle"

Init ==
  /\ contents = Nothing
  /\ slots = <<>>
  /\ file \in Texts \cup {NoFile}
  /\ lock = NoThread
  /\ pc = [t \in Threads |-> "idle"]
  /\ next = [t \in Threads |-> 1]
  /\ buffer = [t \in Threads |-> <<>>]
  /\ at = [t \in Threads |-> 0]
  /\ plan = [t \in Threads |-> NoText]
  /\ target = file
  /\ damage = {}
  /\ gone = {}

-----------------------------------------------------------------------------
(* The context and the file, and what else changes them *)

Loads(text) ==
  /\ contents' = Loaded(text)
  /\ slots' \in SetToSeqs(DOMAIN Loaded(text))

\* ini_load clears the context, unless a saver iterates over it.
LoadClear ==
  /\ lock = NoThread
  /\ contents' = Nothing /\ slots' = <<>>
  /\ UNCHANGED <<file, lock, saver, target, damage>>

\* If it goes on, it parses into the empty context, in a second critical section
\* (IniContext has its steps), this file, whatever part of it has been written,
LoadFile ==
  /\ lock = NoThread /\ contents = Nothing
  /\ file # NoFile /\ Loadable(file)
  /\ Loads(file)
  /\ UNCHANGED <<file, lock, saver, target, damage>>

\* or another one.
LoadOther ==
  /\ lock = NoThread /\ contents = Nothing
  /\ \E text \in OtherTexts : Loads(text)
  /\ UNCHANGED <<file, lock, saver, target, damage>>

\* Another program removes the file.  Streams that are open go on writing to
\* what is no longer at the path.
RemoveFile ==
  /\ file # NoFile
  /\ file' = NoFile /\ target' = NoFile /\ damage' = {}
  /\ gone' = Streams
  /\ at' = [t \in Threads |-> 0]
  /\ UNCHANGED <<contents, slots, lock, pc, next, buffer, plan>>

\* What thread t does to its file is damage, if the file is still there.
Damages(t, d) == damage' = damage \cup (IF t \in gone THEN {} ELSE d)

\* The process ends, and a new one begins.
Crash ==
  /\ contents' = Nothing /\ slots' = <<>>
  /\ lock' = NoThread
  /\ pc' = [t \in Threads |-> "idle"]
  /\ next' = [t \in Threads |-> 1]
  /\ buffer' = [t \in Threads |-> <<>>]
  /\ at' = [t \in Threads |-> 0]
  /\ plan' = [t \in Threads |-> NoText]
  /\ gone' = {}
  /\ damage' = damage \cup (IF Writing = {} THEN {} ELSE {"cut"})
  /\ UNCHANGED <<file, target>>

-----------------------------------------------------------------------------
(* Streams *)

OpenedText_Kept == IF file = NoFile THEN <<>> ELSE file
\* fopen with "w" leaves an empty file.
OpenedText == <<>>

Opens(t) ==
  /\ file' = OpenedText
  /\ at' = [at EXCEPT ![t] = 0]

DamageAfterOpen == IF Writing = {} THEN {} ELSE damage \cup {"shared"}

\* The file after s is written at an offset, which may be beyond its end.
Overlay(text, offset, s) ==
  [i \in 1..Max({Len(text), offset + Len(s)}) |->
     IF i \in (offset + 1)..(offset + Len(s)) THEN s[i - offset]
     ELSE IF i \in DOMAIN text THEN text[i] ELSE NUL]

Flush(t) ==
  /\ t \in Streams /\ buffer[t] # <<>>
  /\ \/ /\ t \in Writing
        /\ file' = Overlay(file, at[t], buffer[t])
        /\ at' = [at EXCEPT ![t] = @ + Len(buffer[t])]
     \/ t \in gone /\ UNCHANGED <<file, at>>
  /\ buffer' = [buffer EXCEPT ![t] = <<>>]
  /\ UNCHANGED <<contents, slots, lock, pc, next, plan, target, damage, gone>>

\* The disk is full: fprintf and fputs are not asked whether they wrote.
FlushFails(t) ==
  /\ t \in Streams /\ buffer[t] # <<>>
  /\ buffer' = [buffer EXCEPT ![t] = <<>>]
  /\ Damages(t, {"gap"})
  /\ UNCHANGED <<contents, slots, file, lock, pc, next, at, plan, target, gone>>

\* The call returns.
Returns(t) ==
  /\ Goto(t, "idle")
  /\ next' = [next EXCEPT ![t] = 1]
  /\ buffer' = [buffer EXCEPT ![t] = <<>>]
  /\ at' = [at EXCEPT ![t] = 0]
  /\ plan' = [plan EXCEPT ![t] = NoText]
  /\ gone' = gone \ {t}

\* Somebody else is writing something else than text, or has meanwhile written
\* more than it.
Clashes(t, text) == \E u \in Writing \ {t} : plan[u] \notin {NoText, text}

HasLonger(text) == "shared" \in damage /\ Len(file) > Len(text)

-----------------------------------------------------------------------------
(* ini_save *)

\* A call that is refused before it opens the file, for its arguments or for
\* want of permission, changes nothing.
SaveOpen(t) ==
  /\ pc[t] = "idle"
  /\ Opens(t)
  /\ Goto(t, "opened")
  /\ target' = IF Writing = {} THEN <<>> ELSE target
  /\ damage' = DamageAfterOpen
  /\ UNCHANGED <<contents, slots, lock, next, buffer, plan, gone>>

MayIterate_Always == TRUE
\* ini_mutex_lock lets the thread go on.
MayIterate == lock = NoThread

SaveLock(t) ==
  LET text == SavedText(contents, slots) IN
  /\ pc[t] = "opened" /\ MayIterate
  /\ lock' = t
  /\ Goto(t, "iterating")
  /\ plan' = [plan EXCEPT ![t] = text]
  /\ target' = IF t \in gone THEN target ELSE text
  /\ Damages(t, IF Clashes(t, text) \/ HasLonger(text) THEN {"mixed"} ELSE {})
  /\ UNCHANGED <<contents, slots, file, next, buffer, at, gone>>

SaveSection(t) ==
  /\ pc[t] = "iterating" /\ next[t] \in DOMAIN slots
  /\ buffer' = [buffer EXCEPT ![t] = @ \o Printed(contents, slots, next[t])]
  /\ next' = [next EXCEPT ![t] = @ + 1]
  /\ UNCHANGED <<contents, slots, file, lock, pc, at, plan, target, damage, gone>>

SectionsLeft_ButOne(t) == next[t] < Len(slots)
\* ini_ht_next finds another section.
SectionsLeft(t) == next[t] <= Len(slots)

SaveUnlock(t) ==
  /\ pc[t] = "iterating" /\ ~SectionsLeft(t)
  /\ lock' = NoThread
  /\ Goto(t, "printed")
  /\ UNCHANGED <<contents, slots, file, next, buffer, at, plan, target, damage, gone>>

\* fclose, once the buffer is written.
SaveClose(t) ==
  /\ pc[t] = "printed" /\ buffer[t] = <<>>
  /\ Returns(t)
  /\ UNCHANGED <<contents, slots, file, lock, target, damage>>

SaveCloseFails(t) ==
  /\ pc[t] = "printed"
  /\ Returns(t)
  /\ Damages(t, {"gap"})
  /\ UNCHANGED <<contents, slots, file, lock, target>>

SaveStep(t) == SaveLock(t) \/ SaveSection(t) \/ SaveUnlock(t) \/ SaveClose(t) \/ SaveCloseFails(t)

-----------------------------------------------------------------------------
(* ini_save_section_value *)

\* The text of section n with the pair of key k, or with all of them, if the
\* context has what is asked for.
Found(n, k) == n \in DOMAIN contents /\ k \in DOMAIN contents[n] \cup {AllKeys}
Selected(n, k) ==
  IF ~Found(n, k) THEN NoText
  ELSE SectionText(n, IF k = AllKeys THEN contents[n] ELSE [l \in {k} |-> contents[n][k]])

SectionCall(t, n, k) ==
  /\ pc[t] = "idle" /\ lock = NoThread
  /\ lock' = t
  /\ plan' = [plan EXCEPT ![t] = Selected(n, k)]
  /\ Goto(t, "looking")
  /\ UNCHANGED <<contents, slots, file, next, buffer, at, target, damage, gone>>

LockAfterSection_Held(t) == t
LockAfterSection(t) == NoThread

SectionReturns(t) ==
  /\ Returns(t)
  /\ lock' = LockAfterSection(t)

SectionNotFound(t) ==
  /\ pc[t] = "looking" /\ plan[t] = NoText
  /\ SectionReturns(t)
  /\ UNCHANGED <<contents, slots, file, target, damage>>

\* The file is there: existing_file, which nothing is ever assigned to, is
\* found to be NULL.
SectionExists(t) ==
  /\ pc[t] = "looking" /\ plan[t] # NoText /\ file # NoFile
  /\ SectionReturns(t)
  /\ UNCHANGED <<contents, slots, file, target, damage>>

\* It is not: the section is printed to a temporary file.
SectionAbsent(t) ==
  /\ pc[t] = "looking" /\ plan[t] # NoText /\ file = NoFile
  /\ buffer' = [buffer EXCEPT ![t] = plan[t]]
  /\ Goto(t, "creating")
  /\ UNCHANGED <<contents, slots, file, lock, next, at, plan, target, damage, gone>>

\* There is no temporary file, or no way to create the file.
SectionRefused(t) ==
  /\ pc[t] \in {"looking", "creating"} /\ plan[t] # NoText
  /\ SectionReturns(t)
  /\ UNCHANGED <<contents, slots, file, target, damage>>

SectionOpen(t) ==
  /\ pc[t] = "creating"
  /\ Opens(t)
  /\ Goto(t, "copying")
  /\ target' = plan[t]
  /\ damage' = DamageAfterOpen \cup (IF Clashes(t, plan[t]) THEN {"mixed"} ELSE {})
  /\ UNCHANGED <<contents, slots, lock, next, buffer, plan, gone>>

\* The temporary file has been copied; what fclose says does not matter.
SectionClose(t) ==
  /\ pc[t] = "copying" /\ buffer[t] = <<>>
  /\ SectionReturns(t)
  /\ UNCHANGED <<contents, slots, file, target, damage>>

SectionStep(t) ==
  \/ SectionNotFound(t) \/ SectionExists(t) \/ SectionAbsent(t)
  \/ SectionRefused(t) \/ SectionOpen(t) \/ SectionClose(t)

-----------------------------------------------------------------------------
(* ini_print, to a stream of the caller's *)

PrintCall(t) ==
  /\ pc[t] = "idle" /\ lock = NoThread
  /\ lock' = t
  /\ Goto(t, "printing")
  /\ UNCHANGED <<contents, slots, file, next, buffer, at, plan, target, damage, gone>>

LockAfterPrint_Held(t) == t
LockAfterPrint(t) == NoThread

\* After the last section, or at the first fprintf that fails.
PrintReturn(t) ==
  /\ pc[t] = "printing"
  /\ lock' = LockAfterPrint(t)
  /\ Goto(t, "idle")
  /\ UNCHANGED <<contents, slots, file, next, buffer, at, plan, target, damage, gone>>

Next ==
  \/ LoadClear \/ LoadFile \/ LoadOther \/ RemoveFile \/ Crash
  \/ \E t \in Savers : SaveOpen(t) \/ SaveStep(t)
  \/ \E t \in SectionSavers :
       \/ SectionStep(t)
       \/ \E n \in Names, k \in Keys \cup {AllKeys} : SectionCall(t, n, k)
  \/ \E t \in Printers : PrintCall(t) \/ PrintReturn(t)
  \/ \E t \in Threads : Flush(t) \/ FlushFails(t)

Spec == Init /\ [][Next]_vars

\* A call under way goes on; a thread that waits for the lock gets it if it
\* is free again and again.
FairSpec ==
  /\ Spec
  /\ \A t \in Savers : SF_vars(SaveLock(t)) /\ WF_vars(SaveStep(t))
  /\ \A t \in SectionSavers : WF_vars(SectionStep(t))
  /\ \A t \in Printers : WF_vars(PrintReturn(t))
  /\ \A t \in Threads : WF_vars(Flush(t))

-----------------------------------------------------------------------------
(* Properties *)

\* Every variable has its type, and the lock is with the thread that is
\* between taking it and releasing it.
TypeOK ==
  /\ DOMAIN contents = {slots[i] : i \in DOMAIN slots}
  /\ lock \in Threads \cup {NoThread}
  /\ pc \in [Threads -> {"idle", "opened", "iterating", "printed",
                          "looking", "creating", "copying", "printing"}]
  /\ \A t \in Threads :
       lock = t <=> pc[t] \in {"iterating", "looking", "creating", "copying", "printing"}
  /\ \A t \in Threads : next[t] \in 1..(Len(slots) + 1) \/ lock # t
  /\ \A t \in Threads \ Writing : at[t] = 0
  /\ damage \subseteq {"cut", "gap", "shared", "mixed"}
  /\ gone \subseteq Streams

\* When nobody is writing, the file is one thread's whole text: what the last
\* one set out to write, of one state of the context, however its steps were
\* interleaved with loads, with other saves of the same context, and with
\* their truncations.  Not so if the process crashed, a write failed, or two
\* wrote different texts at the same time.
SavedWhole ==
  Writing = {} /\ damage \subseteq {"shared"} => file = target

\* A thread that has the file to itself leaves a prefix of its text at any
\* moment, so that is what a crash leaves.
CrashLeavesPrefix ==
  damage \subseteq {"cut"} /\ file # NoFile => IsPrefix(file, target)

\* ini_save_section_value, which decides to create the file before it opens
\* it, never truncates a file that another thread has written to since.
SectionSaveLosesNothing ==
  [][\A t \in SectionSavers : SectionOpen(t) => file \in {NoFile, <<>>}]_vars

\* A call returns, unless the process crashes first: every way out of it
\* leaves the lock to the others.
SaveReturns == \A t \in Threads : pc[t] # "idle" ~> pc[t] = "idle"

\* What ini_good accepts, ini_load understands: every line is one to skip,
\* opens a section, or is a pair under a header.  That holds of each sample and
\* of the file, whatever savers have made of it.
GoodIsUnderstood ==
  Misunderstood = {} /\ (AllIdle /\ file # NoFile /\ Good(file) => Understood(file))

\* What ini_save writes, ini_good accepts and ini_load reads back as it was,
\* for the representable contexts and no others: those the samples make and
\* the one at hand.
ReadsBack ==
  Misjudged = {} /\ (AllIdle => ReadBack(contents) = Representable(contents))

\* The text has the sections of the part, and their pairs.
Includes(text, part) ==
  \A n \in DOMAIN Loaded(part) :
    /\ n \in DOMAIN Loaded(text)
    /\ \A k \in DOMAIN Loaded(part)[n] :
         k \in DOMAIN Loaded(text)[n] /\ Loaded(text)[n][k] = Loaded(part)[n][k]

\* ini_parser.h:117: "If the file already exists, only the specified
\* section/key will be updated, preserving all other content."  When a section
\* save that found the file returns, what it was to save is in the file.
ExistingIsUpdated ==
  [][\A t \in SectionSavers : SectionExists(t) => Includes(file', plan[t])]_vars
=============================================================================
