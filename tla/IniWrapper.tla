----------------------------- MODULE IniWrapper -----------------------------
(***************************************************************************)
(* Objects of the C++ class ini::IniParser (include/IniParser.hpp,         *)
(* src/IniParser.cpp), used by one thread: each owns a C context and keeps *)
(* a copy of its contents, m_data, that the container interface reads      *)
(* while getString reads the context.  A member function is one step; the  *)
(* steps differ in the allocation or file operation that fails, if any,    *)
(* because each leaves something else behind when the call throws.  A       *)
(* std::bad_alloc of the containers in m_data is left out, and so are      *)
(* tables of sections that no context holds (IniContext has those).        *)
(*                                                                         *)
(* A context is a map of maps here (IniContext and HashTable say how it is *)
(* one), or has lost its table of sections in a load.                      *)
(***************************************************************************)
EXTENDS Integers

CONSTANTS
  Parsers,
  Contexts, NoContext,  \* ini_context_t *
  Names, Keys, Values,
  Null,                 \* no value
  Absent,               \* no section
  FileContents          \* what ini_load leaves in a context it returns success for

ASSUME ContextsAssumption == NoContext \notin Contexts
ASSUME AbsentAssumption == Null \notin Values

Section == [Keys -> Values \cup {Null}]
Data == [Names -> Section \cup {Absent}]
EmptySection == [k \in Keys |-> Null]
EmptyData == [n \in Names |-> Absent]
\* ctx->sections is NULL.
NoTable == [n \in {} |-> Absent]

ASSUME FilesAssumption == FileContents \subseteq Data
ASSUME AbsentIsNoSection == Absent \notin Section

VARIABLES
  alive,    \* the objects that exist
  owns,     \* m_context.m_ctx
  live,     \* the contexts that are allocated
  memory,   \* what they hold
  cache,    \* m_data
  cached,   \* m_dataCached
  outcome,  \* how the last call ended
  torn      \* history: since the cache was filled, a call changed the context and threw

vars == <<alive, owns, live, memory, cache, cached, outcome, torn>>

\* What iterating over a context, and over a parser's, shows.
Shown(d) == IF d = NoTable THEN EmptyData ELSE d
DataOf(p) == IF owns[p] = NoContext THEN EmptyData ELSE Shown(memory[owns[p]])

Init ==
  /\ alive = {}
  /\ owns = [p \in Parsers |-> NoContext]
  /\ live = {}
  /\ memory = [c \in Contexts |-> EmptyData]
  /\ cache = [p \in Parsers |-> EmptyData]
  /\ cached = [p \in Parsers |-> FALSE]
  /\ outcome = "none"
  /\ torn = [p \in Parsers |-> FALSE]

-----------------------------------------------------------------------------
(* What the member functions have in common *)

\* invalidateCache
Invalidate(p) ==
  /\ cache' = [cache EXCEPT ![p] = EmptyData]
  /\ cached' = [cached EXCEPT ![p] = FALSE]
  /\ torn' = [torn EXCEPT ![p] = FALSE]

\* ensureContext: c is the context of p, a new one if it had none.
Ensures(p, c) == IF owns[p] = NoContext THEN c \in Contexts \ live ELSE c = owns[p]
Content(p) == IF owns[p] = NoContext THEN EmptyData ELSE memory[owns[p]]

\* p has the context c, and c the contents d.
Holds(p, c, d) ==
  /\ owns' = [owns EXCEPT ![p] = c]
  /\ live' = live \cup {c}
  /\ memory' = [memory EXCEPT ![c] = d]

\* p gives up its context for c: ini_free, in Context's move assignment.
HoldsInstead(p, c, d) ==
  /\ c \in Contexts \ live
  /\ owns' = [owns EXCEPT ![p] = c]
  /\ live' = (live \ {owns[p]}) \cup {c}
  /\ memory' = [memory EXCEPT ![c] = d, ![owns[p]] = EmptyData]

\* A call throws and leaves p with d.
Throws(p, d) ==
  /\ outcome' = "threw"
  /\ torn' = [torn EXCEPT ![p] = @ \/ (cached[p] /\ Shown(d) # DataOf(p))]
  /\ UNCHANGED <<cache, cached>>

\* No memory for a context, in a constructor, ensureContext or clear.
NoMemory(p) ==
  /\ Throws(p, Content(p))
  /\ UNCHANGED <<alive, owns, live, memory>>

-----------------------------------------------------------------------------
(* Construction and destruction *)

Construct(p) ==
  /\ p \notin alive
  /\ alive' = alive \cup {p}
  /\ \E c \in Contexts \ live : Holds(p, c, EmptyData)
  /\ outcome' = "returned"
  /\ UNCHANGED <<cache, cached, torn>>

\* p is no more; its context is freed, if it has one.
Gone(p) ==
  /\ alive' = alive \ {p}
  /\ owns' = [owns EXCEPT ![p] = NoContext]
  /\ live' = live \ {owns[p]}
  /\ memory' = [c \in Contexts |-> IF c = owns[p] THEN EmptyData ELSE memory[c]]
  /\ Invalidate(p)

Destruct(p) ==
  /\ p \in alive
  /\ Gone(p)
  /\ outcome' = "returned"

-----------------------------------------------------------------------------
(* load and setString *)

\* load, loadNoThrow: ini_load refuses the file before it touches the context.
LoadRefused(p) ==
  /\ p \in alive
  /\ \E c \in Contexts : Ensures(p, c) /\ Holds(p, c, Content(p))
  /\ Throws(p, Content(p))
  /\ UNCHANGED alive

\* ini_load fails later, with the context cleared or holding a part of a file.
LoadFails(p) ==
  /\ p \in alive
  /\ \E c \in Contexts, d \in FileContents \cup {EmptyData, NoTable} :
       Ensures(p, c) /\ Holds(p, c, d) /\ Throws(p, d)
  /\ UNCHANGED alive

LoadDone(p) ==
  /\ p \in alive
  /\ \E c \in Contexts, d \in FileContents : Ensures(p, c) /\ Holds(p, c, d)
  /\ Invalidate(p)
  /\ outcome' = "returned"
  /\ UNCHANGED alive

Missing(d, n) == n \in DOMAIN d => d[n] = Absent

\* d with v under k in section n, which is made if it is missing.
With(d, n, k, v) ==
  [d EXCEPT ![n] = [(IF @ = Absent THEN EmptySection ELSE @) EXCEPT ![k] = v]]

InvalidateAfterSet_Not(p) == UNCHANGED <<cache, cached, torn>>
InvalidateAfterSet(p) == Invalidate(p)

SetDone(p, n, k, v) ==
  /\ p \in alive
  /\ Content(p) # NoTable
  /\ \E c \in Contexts : Ensures(p, c) /\ Holds(p, c, With(Content(p), n, k, v))
  /\ InvalidateAfterSet(p)
  /\ outcome' = "returned"
  /\ UNCHANGED alive

\* The new section could not be stored in the context, which setString does
\* not notice: the pair goes into a table that nobody will find.
SetDropped(p, n) ==
  /\ p \in alive
  /\ Missing(Content(p), n)
  /\ \E c \in Contexts : Ensures(p, c) /\ Holds(p, c, Content(p))
  /\ Invalidate(p)
  /\ outcome' = "dropped"
  /\ UNCHANGED alive

\* No memory for the section or for the pair; a new section may stay, empty.
SetFails(p, n) ==
  /\ p \in alive
  /\ \E c \in Contexts :
       /\ Ensures(p, c)
       /\ \/ Holds(p, c, Content(p)) /\ Throws(p, Content(p))
          \/ /\ Content(p) # NoTable /\ Missing(Content(p), n)
             /\ LET d == [Content(p) EXCEPT ![n] = EmptySection] IN
                Holds(p, c, d) /\ Throws(p, d)
  /\ UNCHANGED alive

\* clear: the new context is made before the old one is freed.
Clear(p) ==
  /\ p \in alive
  /\ \E c \in Contexts : HoldsInstead(p, c, EmptyData)
  /\ Invalidate(p)
  /\ outcome' = "returned"
  /\ UNCHANGED alive

-----------------------------------------------------------------------------
(* The cache, copying and moving *)

\* m_data after populateCache.
Populated_Unrefreshed(q) == cache[q]
Populated(q) == IF cached[q] \/ owns[q] = NoContext THEN cache[q] ELSE DataOf(q)

\* getAllData, getSectionNames; getSection, getKeyNames, which throw if the
\* section is not there; a copy constructor that throws after it has filled
\* the cache of its source.
ReadAll(p) ==
  /\ p \in alive
  /\ cache' = [cache EXCEPT ![p] = Populated(p)]
  /\ cached' = [cached EXCEPT ![p] = @ \/ owns[p] # NoContext]
  /\ outcome' \in {"returned", "threw"}
  /\ UNCHANGED <<alive, owns, live, memory, torn>>

\* Pairs are copied, so a section without pairs is not.
CopyOf(d) == [n \in Names |-> IF d[n] = EmptySection THEN Absent ELSE d[n]]

\* What a copy of d cut short or missing pairs may hold.
PartsOf(d) ==
  {e \in Data : \A n \in Names :
     e[n] # Absent => d[n] # Absent /\ \A k \in Keys : e[n][k] \in {Null, d[n][k]}}

\* The source fills its cache; the copy, made or cleared first, has none.
CopyCaches(p, q) ==
  /\ cache' = [cache EXCEPT ![q] = Populated(q), ![p] = EmptyData]
  /\ cached' = [cached EXCEPT ![q] = @ \/ owns[q] # NoContext, ![p] = FALSE]
  /\ torn' = [torn EXCEPT ![p] = FALSE]

\* The copy constructor, or copy assignment, of p from q ends with d in p.
CopyInto(p, q, d) ==
  /\ q \in alive /\ p # q
  /\ IF p \in alive
     THEN \E c \in Contexts : HoldsInstead(p, c, d)
     ELSE \E c \in Contexts \ live : Holds(p, c, d)
  /\ CopyCaches(p, q)
  /\ alive' = alive \cup {p}

CopyDone(p, q) ==
  /\ CopyInto(p, q, CopyOf(Populated(q)))
  /\ outcome' = "copied"

\* A section could not be stored, so that pairs are missing.
CopyDropped(p, q) ==
  /\ \E d \in PartsOf(CopyOf(Populated(q))) :
       /\ \A n \in Names : d[n] # EmptySection
       /\ CopyInto(p, q, d)
  /\ outcome' = "dropped"

\* Copy assignment throws on the way; p stays with a part.
AssignFails(p, q) ==
  /\ p \in alive
  /\ \E d \in PartsOf(CopyOf(Populated(q))) \ {CopyOf(Populated(q))} : CopyInto(p, q, d)
  /\ outcome' = "threw"

MovedFrom_Kept(q) == owns[q]
\* Context's move leaves its source without one.
MovedFrom(q) == NoContext

\* The defaulted moves: m_data is taken out of q, m_dataCached is copied.
MoveInto(p, q) ==
  /\ q \in alive /\ p # q
  /\ alive' = alive \cup {p}
  /\ owns' = [owns EXCEPT ![p] = owns[q], ![q] = MovedFrom(q)]
  /\ live' = live \ {owns[p]}
  /\ memory' = [c \in Contexts |-> IF c = owns[p] THEN EmptyData ELSE memory[c]]
  /\ cache' = [cache EXCEPT ![p] = cache[q], ![q] = EmptyData]
  /\ cached' = [cached EXCEPT ![p] = cached[q]]
  /\ torn' = [torn EXCEPT ![p] = torn[q], ![q] = FALSE]
  /\ outcome' = "returned"

Next ==
  \E p \in Parsers :
    \/ NoMemory(p) \/ Construct(p) \/ Destruct(p)
    \/ LoadRefused(p) \/ LoadFails(p) \/ LoadDone(p)
    \/ \E n \in Names :
         \/ SetDropped(p, n) \/ SetFails(p, n)
         \/ \E k \in Keys, v \in Values : SetDone(p, n, k, v)
    \/ Clear(p) \/ ReadAll(p)
    \/ \E q \in Parsers :
         CopyDone(p, q) \/ CopyDropped(p, q) \/ AssignFails(p, q) \/ MoveInto(p, q)

Spec == Init /\ [][Next]_vars

-----------------------------------------------------------------------------
(* Properties *)

\* Every variable has its type.
TypeOK ==
  /\ alive \subseteq Parsers
  /\ owns \in [Parsers -> Contexts \cup {NoContext}]
  /\ live \subseteq Contexts
  /\ memory \in [Contexts -> Data \cup {NoTable}]
  /\ cache \in [Parsers -> Data]
  /\ cached \in [Parsers -> BOOLEAN]
  /\ outcome \in {"none", "returned", "threw", "dropped", "copied"}
  /\ torn \in [Parsers -> BOOLEAN]

\* Every context is owned by exactly one object, through copies, moves, and
\* calls that throw: none is leaked and none freed twice.
ContextsOwned ==
  /\ live = {owns[p] : p \in Parsers} \ {NoContext}
  /\ \A p, q \in Parsers : owns[p] = owns[q] => p = q \/ owns[p] = NoContext
  /\ \A p \in Parsers \ alive : owns[p] = NoContext

\* getAllData and getString show the same, unless a call has changed the
\* context and thrown since the cache was filled: every way of changing the
\* context invalidates the cache, and moves take it along with the context.
CacheFresh == \A p \in alive : cached[p] /\ ~torn[p] => cache[p] = DataOf(p)

\* A copy has the pairs of its source at that moment, whatever the state of
\* the source's cache, and the source keeps its own.
CopyIsSame ==
  [][\A p, q \in Parsers :
       CopyDone(p, q) /\ ~torn[q] =>
         /\ CopyOf(DataOf(p)') = CopyOf(DataOf(q))
         /\ DataOf(q)' = DataOf(q)]_vars

\* README_CPP.md:10: "Strong exception safety guarantees".  A call that
\* throws has changed no contents.
StrongGuarantee == [][outcome' = "threw" => \A p \in alive : DataOf(p)' = DataOf(p)]_vars
=============================================================================
