----------------------------- MODULE IniContext -----------------------------
(***************************************************************************)
(* One ini_context_t of src/ini_parser.c, loaded by some threads and read  *)
(* by others: ini_create_context, ini_load, ini_get_value and ini_free.    *)
(*                                                                         *)
(* The context's table maps a section name to the address, printed as a    *)
(* string, of a table of its own.  Tables are maps here, which HashTable   *)
(* is proved to implement; an allocation may fail wherever the code makes  *)
(* one.  ctx->mutex is taken to be the lock its header describes, so that  *)
(* what goes wrong here goes wrong in ini_load (IniMutex is about the      *)
(* lock).  ini_load lets go of it between clearing the context and parsing *)
(* the file, and it opens the file again after ini_good has closed it:     *)
(* other threads, and other programs writing the file, act in between.     *)
(* A load that is given NULL makes a context that only it can reach; it    *)
(* shares nothing with another context, and is followed while there is no  *)
(* other.                                                                  *)
(***************************************************************************)
EXTENDS Integers, Sequences, FiniteSetsExt

CONSTANTS
  Loaders, Readers,      \* threads that call ini_load, and ini_get_value
  NoThread,
  Names, Global,         \* section names; the name "" of the global section
  Keys, Values, Null,
  Addresses,             \* where a section's table may be allocated
  Wild,                  \* a pointer that is no table's
  Files                  \* what the file may hold: sequences of lines

Threads == Loaders \cup Readers

ASSUME ThreadsAssumption == NoThread \notin Threads /\ Loaders \cap Readers = {}
ASSUME NamesAssumption == Global \in Names
ASSUME KeysAssumption == Keys # {}
ASSUME PointersAssumption == Null \notin Addresses \cup Values /\ Wild \notin Addresses \cup {Null}

\* A line as both readers of a file see it: a header, a key and a value, a
\* line to skip, a header without its "]", text without "=".
Header(n) == [kind |-> "header", name |-> n, key |-> Null, value |-> Null]
Pair(k, v) == [kind |-> "pair", name |-> Null, key |-> k, value |-> v]
Other(kind) == [kind |-> kind, name |-> Null, key |-> Null, value |-> Null]
Blank == Other("blank")
Broken == Other("broken")
Text == Other("text")

Line == [kind : {"header"}, name : Names, key : {Null}, value : {Null}]
          \cup [kind : {"pair"}, name : {Null}, key : Keys, value : Values]
          \cup {Blank, Broken, Text}

ASSUME FilesAssumption == Files \subseteq Seq(Line)

VARIABLES
  exists,     \* the context is there
  private,    \* it was made by a load under way that was given NULL
  sections,   \* ctx->sections: name -> address or Null; NoTable if it is NULL
  tables,     \* address -> the table allocated there, or Free
  disk,       \* the file
  holder,     \* the thread that has ctx->mutex
  pc,
  rest,       \* lines the open stream of a load has still to deliver
  current,    \* current_section_ht of a load
  status,     \* what a thread's last call returned
  answer,     \* the value its last ini_get_value returned
  loaded,     \* history: the lines parsed since the context was cleared
  fault,      \* history: one of those lines could not be stored
  lost        \* history: tables whose address could not be stored, or is in
              \* the context of a load that was given NULL and succeeded

vars == <<exists, private, sections, tables, disk, holder, pc, rest, current, status,
          answer, loaded, fault, lost>>

NoTable == [n \in {} |-> Null]
NoSections == [n \in Names |-> Null]
Free == [k \in {} |-> Null]
EmptyTable == [k \in Keys |-> Null]

Live == {a \in Addresses : tables[a] # Free}
Referenced == {sections[n] : n \in DOMAIN sections} \ {Null}

\* ini_ht_get(ctx->sections, n); a NULL table has no keys.
SectionAt(n) == IF n \in DOMAIN sections THEN sections[n] ELSE Null

Goto(t, l) == pc' = [pc EXCEPT ![t] = l]
Return(t, s) == Goto(t, "idle") /\ status' = [status EXCEPT ![t] = s]

Init ==
  /\ exists = FALSE
  /\ private = FALSE
  /\ sections = NoTable
  /\ tables = [a \in Addresses |-> Free]
  /\ disk \in Files
  /\ holder = NoThread
  /\ pc = [t \in Threads |-> "idle"]
  /\ rest = [t \in Threads |-> <<>>]
  /\ current = [t \in Threads |-> Null]
  /\ status = [t \in Threads |-> "none"]
  /\ answer = [t \in Threads |-> Null]
  /\ loaded = <<>>
  /\ fault = FALSE
  /\ lost = {}

NobodyInside == \A t \in Threads : pc[t] = "idle"

\* The context is one whose address the threads have.
Shared == exists /\ ~private

\* ini_create_context, when its allocations succeed.
Create ==
  /\ ~exists
  /\ exists' = TRUE
  /\ sections' = NoSections
  /\ UNCHANGED <<private, tables, disk, holder, pc, rest, current, status, answer, loaded, fault, lost>>

Freed_Nothing == {}
\* The tables whose addresses the context holds: clearing it destroys them.
Freed == Referenced
Destroyed == [a \in Addresses |-> IF a \in Freed THEN Free ELSE tables[a]]

\* ini_free; its caller makes sure that no call is under way.
FreeContext ==
  /\ Shared /\ NobodyInside
  /\ exists' = FALSE
  /\ tables' = Destroyed
  /\ sections' = NoTable
  /\ fault' = FALSE
  /\ loaded' = <<>>
  /\ UNCHANGED <<private, disk, holder, pc, rest, current, status, answer, lost>>

\* Another program writes the file.
WriteDisk ==
  /\ disk' \in Files
  /\ UNCHANGED <<exists, private, sections, tables, holder, pc, rest, current, status,
                 answer, loaded, fault, lost>>

-----------------------------------------------------------------------------
(* ini_load *)

\* ini_good, of the lines that ini_load understands.
Good(f) ==
  /\ f # <<>>
  /\ \A i \in DOMAIN f :
       /\ f[i].kind \in {"header", "pair", "blank"}
       /\ f[i].kind = "pair" => \E j \in 1..(i - 1) : f[j].kind = "header"

LoadCall(t) ==
  /\ Shared /\ pc[t] = "idle"
  /\ IF Good(disk) THEN Goto(t, "clear") /\ UNCHANGED status
                   ELSE Return(t, "bad format")
  /\ UNCHANGED <<exists, private, sections, tables, disk, holder, rest, current, answer,
                 loaded, fault, lost>>

\* ini_load(NULL, ...): it makes a context, if it can, and goes on with that.
LoadNull(t) ==
  /\ ~exists /\ pc[t] = "idle"
  /\ \/ /\ Good(disk)
        /\ exists' = TRUE /\ private' = TRUE /\ sections' = NoSections
        /\ Goto(t, "open") /\ UNCHANGED status
     \/ /\ Return(t, IF Good(disk) THEN "memory error" ELSE "bad format")
        /\ UNCHANGED <<exists, private, sections>>
  /\ UNCHANGED <<tables, disk, holder, rest, current, answer, loaded, fault, lost>>

DestroyedOnError_Not == tables
\* need_to_free_on_error: ini_free of the load's own context.
DestroyedOnError == Destroyed

\* A load returns s.  A context of its own is freed if it failed, and if it
\* succeeded nobody has its address: all that it holds is lost.
Finish(s) ==
  IF private
  THEN /\ exists' = FALSE /\ private' = FALSE /\ sections' = NoTable
       /\ loaded' = <<>> /\ fault' = FALSE
       /\ \/ s = "success" /\ lost' = lost \cup Referenced /\ UNCHANGED tables
          \/ s # "success" /\ tables' = DestroyedOnError /\ UNCHANGED lost
  ELSE UNCHANGED <<exists, private, sections, tables, loaded, fault, lost>>

ClearedSections_Kept == sections
\* What ini_ht_create puts in the place of the table of sections.
ClearedSections == NoSections

\* Under the lock: the sections' tables, then the table of sections.
Clear(t) ==
  /\ pc[t] = "clear" /\ holder = NoThread
  /\ tables' = Destroyed
  /\ loaded' = <<>>
  /\ fault' = FALSE
  /\ \/ sections' = ClearedSections /\ Goto(t, "open") /\ UNCHANGED status
     \/ sections' = NoTable /\ Return(t, "memory error")
  /\ UNCHANGED <<exists, private, disk, holder, rest, current, answer, lost>>

\* The file is opened again, without the lock: it may have gone or changed.
Open(t) ==
  /\ pc[t] = "open"
  /\ \/ /\ rest' = [rest EXCEPT ![t] = disk]
        /\ Goto(t, "relock")
        /\ UNCHANGED <<exists, private, sections, tables, status, loaded, fault, lost>>
     \/ Return(t, "open failed") /\ Finish("open failed") /\ UNCHANGED rest
  /\ UNCHANGED <<disk, holder, current, answer>>

Relock(t) ==
  /\ pc[t] = "relock" /\ holder = NoThread
  /\ holder' = t
  /\ current' = [current EXCEPT ![t] = Null]
  /\ Goto(t, "parse")
  /\ UNCHANGED <<exists, private, sections, tables, disk, rest, status, answer, loaded, fault, lost>>

\* The next line of the file is of the given kind.
Reads(t, kind) ==
  /\ pc[t] = "parse"
  /\ rest[t] # <<>>
  /\ Head(rest[t]).kind = kind

\* The line is done with.
Advance(t) ==
  /\ rest' = [rest EXCEPT ![t] = Tail(@)]
  /\ loaded' = Append(loaded, Head(rest[t]))

Skip(t) ==
  /\ Reads(t, "blank") \/ Reads(t, "text")
  /\ Advance(t)
  /\ UNCHANGED <<exists, private, sections, tables, disk, holder, pc, current, status, answer,
                 fault, lost>>

HolderAfterLoad_Kept == holder
\* Every return of ini_load from under the lock releases it.
HolderAfterLoad == NoThread

Leave(t, s) ==
  /\ holder' = HolderAfterLoad
  /\ rest' = [rest EXCEPT ![t] = <<>>]
  /\ current' = [current EXCEPT ![t] = Null]
  /\ Return(t, s)
  /\ Finish(s)
  /\ UNCHANGED <<disk, answer>>

BrokenHeader(t) ==
  /\ Reads(t, "broken")
  /\ Leave(t, "bad format")

\* A new table is at an address that is free.
Allocates(a) == tables[a] = Free

\* ini_store_section_ht: it fails silently, always if the table of sections
\* is NULL, and then the new table is lost.
StoreSection(n, a) ==
  \/ /\ n \in DOMAIN sections
     /\ sections' = [sections EXCEPT ![n] = a]
     /\ UNCHANGED <<fault, lost>>
  \/ fault' = TRUE /\ lost' = lost \cup {a} /\ UNCHANGED sections

CurrentAfterOpening_First(t, a) == IF current[t] = Null THEN a ELSE current[t]
\* The section that the pairs to come belong to.
CurrentAfterOpening(t, a) == a

OpenSection(t, n) ==
  \E a \in Addresses :
    /\ Allocates(a)
    /\ tables' = [tables EXCEPT ![a] = EmptyTable]
    /\ current' = [current EXCEPT ![t] = CurrentAfterOpening(t, a)]
    /\ StoreSection(n, a)

\* A header of a section that is not in the context yet.
NewSection(t) ==
  /\ Reads(t, "header")
  /\ SectionAt(Head(rest[t]).name) = Null
  /\ OpenSection(t, Head(rest[t]).name)
  /\ Advance(t)
  /\ UNCHANGED <<exists, private, disk, holder, pc, status, answer>>

\* A header of a section that is there.  ini_ht_get returns the string that
\* holds the table's address; ini_load takes the string for the table.
KnownSection(t) ==
  /\ Reads(t, "header")
  /\ SectionAt(Head(rest[t]).name) # Null
  /\ current' = [current EXCEPT ![t] = Wild]
  /\ Advance(t)
  /\ UNCHANGED <<exists, private, sections, tables, disk, holder, pc, status, answer, fault, lost>>

\* A key before any header opens the global section.
GlobalSection(t) ==
  /\ Reads(t, "pair")
  /\ current[t] = Null
  /\ OpenSection(t, Global)
  /\ UNCHANGED <<exists, private, disk, holder, pc, rest, status, answer, loaded>>

\* ini_ht_create fails where either kind of section needs it.
NoMemory(t) ==
  /\ \/ Reads(t, "header") /\ SectionAt(Head(rest[t]).name) = Null
     \/ Reads(t, "pair") /\ current[t] = Null
  /\ Leave(t, "memory error")

\* ini_ht_set in the section's table; that it may fail goes unnoticed.
StorePair(t) ==
  /\ Reads(t, "pair")
  /\ current[t] \in Addresses
  /\ \/ /\ tables' = [tables EXCEPT ![current[t]][Head(rest[t]).key] = Head(rest[t]).value]
        /\ UNCHANGED fault
     \/ fault' = TRUE /\ UNCHANGED tables
  /\ Advance(t)
  /\ UNCHANGED <<exists, private, sections, disk, holder, pc, current, status, answer, lost>>

\* ini_ht_set in what is no table: undefined behaviour, and the end of what
\* can be said about the process.
Crash(t) ==
  /\ Reads(t, "pair")
  /\ current[t] = Wild
  /\ Goto(t, "undefined")
  /\ UNCHANGED <<exists, private, sections, tables, disk, holder, rest, current, status,
                 answer, loaded, fault, lost>>

\* fgets returns NULL: the end of the file, or an error of the stream, which
\* ini_load does not tell from the end.
LoadDone(t) ==
  /\ pc[t] = "parse"
  /\ Leave(t, "success")

LoadStep(t) ==
  \/ Clear(t) \/ Open(t) \/ Relock(t)
  \/ Skip(t) \/ BrokenHeader(t) \/ NewSection(t) \/ KnownSection(t) \/ GlobalSection(t)
  \/ NoMemory(t) \/ StorePair(t) \/ Crash(t) \/ LoadDone(t)

-----------------------------------------------------------------------------
(* ini_get_value: one critical section *)

Answer(t, s, v) ==
  /\ status' = [status EXCEPT ![t] = s]
  /\ answer' = [answer EXCEPT ![t] = v]

\* What the context holds under a section and a key.
Lookup(n, k) == IF SectionAt(n) \in Live THEN tables[SectionAt(n)][k] ELSE Null

GetValue(t, n, k) ==
  /\ Shared /\ holder = NoThread
  /\ \/ SectionAt(n) = Null /\ Answer(t, "section not found", Null)
     \/ SectionAt(n) # Null /\ Lookup(n, k) = Null /\ Answer(t, "key not found", Null)
     \/ Lookup(n, k) # Null /\ Answer(t, "success", Lookup(n, k))
     \/ Lookup(n, k) # Null /\ Answer(t, "memory error", Null)
  /\ UNCHANGED <<exists, private, sections, tables, disk, holder, pc, rest, current, loaded,
                 fault, lost>>

Next ==
  \/ Create \/ FreeContext \/ WriteDisk
  \/ \E t \in Loaders : LoadCall(t) \/ LoadNull(t) \/ LoadStep(t)
  \/ \E t \in Readers, n \in Names, k \in Keys : GetValue(t, n, k)

Spec == Init /\ [][Next]_vars

\* A thread in ini_load goes on unless it waits for the lock.
FairSpec == Spec /\ \A t \in Loaders : WF_vars(LoadStep(t))

-----------------------------------------------------------------------------
(* Properties *)

PCs == {"idle", "clear", "open", "relock", "parse", "undefined"}

\* Every variable has its type, and whoever is parsing, and nobody else, has
\* the lock: no way out of ini_load leaves it held.
TypeOK ==
  /\ exists \in BOOLEAN /\ private \in BOOLEAN
  /\ sections \in [Names -> Addresses \cup {Null}] \cup {NoTable}
  /\ tables \in [Addresses -> [Keys -> Values \cup {Null}] \cup {Free}]
  /\ disk \in Files
  /\ holder \in Threads \cup {NoThread}
  /\ pc \in [Threads -> PCs]
  /\ \A t \in Threads : holder = t <=> pc[t] \in {"parse", "undefined"}
  /\ rest \in [Threads -> Seq(Line)]
  /\ loaded \in Seq(Line)
  /\ current \in [Threads -> Addresses \cup {Null, Wild}]
  /\ answer \in [Threads -> Values \cup {Null}]
  /\ fault \in BOOLEAN
  /\ lost \subseteq Addresses

\* Following an address the context holds, or the one a load fills, leads to
\* a table that is there and that no other section shares: ini_get_value and
\* the parser never touch freed memory, and ini_free frees nothing twice.
SectionsOwnTables ==
  /\ Referenced \subseteq Live
  /\ \A m, n \in DOMAIN sections : sections[m] = sections[n] => m = n \/ sections[m] = Null
  /\ \A t \in Threads : current[t] \in Addresses => current[t] \in Live

\* A section's table is leaked (it is there, and no section of the context
\* leads to it) exactly if its address could not be stored, or if it is in the
\* context of a load that was given NULL and succeeded.  Clearing, ini_free
\* and every failing return of a load account for all of the others.
LeakedIsLost == Live \ Referenced = lost

\* The section that line i of a file belongs to, and what a file says of a
\* section and a key: the last line that assigns it.
SectionOf(f, i) ==
  LET headers == {j \in 1..(i - 1) : f[j].kind = "header"} IN
  IF headers = {} THEN Global ELSE f[Max(headers)].name
Assigning(f, n, k) ==
  {i \in DOMAIN f : f[i].kind = "pair" /\ f[i].key = k /\ SectionOf(f, i) = n}
Meaning(f, n, k) ==
  IF Assigning(f, n, k) = {} THEN Null ELSE f[Max(Assigning(f, n, k))].value

\* Unless a store failed, the context says at every moment what the lines
\* parsed since it was cleared say: nothing of an earlier file is left, no
\* pair is in the wrong section, the last of several assignments wins, and
\* a load that fails leaves the part it had read.
ContextIsPrefix ==
  ~fault => \A n \in Names, k \in Keys : Lookup(n, k) = Meaning(loaded, n, k)

\* Even when stores fail unnoticed, ini_get_value never answers a value that
\* the file does not give to that key in that section.
NothingInvented ==
  \A n \in Names, k \in Keys :
    Lookup(n, k) # Null => \E i \in Assigning(loaded, n, k) : loaded[i].value = Lookup(n, k)

\* Whatever fails, following the pointers gives a map of maps that is emptied
\* as a whole and otherwise changed one pair or section at a time, and readers
\* are given what it holds at that moment.
Store ==
  INSTANCE IniStore WITH
    store <- [n \in Names |-> IF SectionAt(n) \in Live THEN tables[SectionAt(n)] ELSE Free],
    answer <- [r \in Readers |-> answer[r]]
ImplementsStore == Store!StoreSpec

\* A call of ini_load returns, or has run into undefined behaviour.
LoadReturns == \A t \in Loaders : pc[t] # "idle" ~> pc[t] \in {"idle", "undefined"}

\* ini_parser.c:349: "Get or create section hash table".  What a header makes
\* current is a table.
HeaderGivesTable == \A t \in Loaders : current[t] # Wild
=============================================================================
