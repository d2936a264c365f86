----------------------------- MODULE IniReaders -----------------------------
(***************************************************************************)
(* Threads that read one object of the C++ class, which nobody changes:    *)
(* getAllData, getSectionNames, getSection and getKeyNames look const, but *)
(* populateCache (src/IniParser.cpp:294) fills the mutable m_data when it  *)
(* finds it stale, and only the tables of the context have locks.          *)
(*                                                                         *)
(* Each access to m_data and m_dataCached is one step here.  Two of them   *)
(* at once are undefined behaviour of std::map: what goes wrong here goes  *)
(* wrong even if every access happened to be atomic.                       *)
(***************************************************************************)
EXTENDS Naturals

CONSTANTS
  Readers,
  Length      \* how many sections the context has, in the order of their slots

VARIABLES
  m_dataCached,
  m_data,       \* the sections in the cache
  pc,
  sections_it,  \* where a reader is in the table of sections
  asked,        \* the sections its call is about
  got           \* those of them it has found

vars == <<m_dataCached, m_data, pc, sections_it, asked, got>>

Sections == 1..Length
Goto(t, l) == pc' = [pc EXCEPT ![t] = l]

\* After a load.
Init ==
  /\ m_dataCached = FALSE
  /\ m_data = {}
  /\ pc = [t \in Readers |-> "idle"]
  /\ sections_it = [t \in Readers |-> 0]
  /\ asked = [t \in Readers |-> {}]
  /\ got = [t \in Readers |-> {}]

\* getAllData and getSectionNames ask for everything, getSection and
\* getKeyNames for one section.
Call(t, wanted) ==
  /\ pc[t] = "idle"
  /\ asked' = [asked EXCEPT ![t] = wanted]
  /\ got' = [got EXCEPT ![t] = {}]
  /\ Goto(t, "cached?")
  /\ UNCHANGED <<m_dataCached, m_data, sections_it>>

CheckCached(t) ==
  /\ pc[t] = "cached?"
  /\ Goto(t, IF m_dataCached THEN "look" ELSE "clear")
  /\ UNCHANGED <<m_dataCached, m_data, sections_it, asked, got>>

ClearData(t) ==
  /\ pc[t] = "clear"
  /\ m_data' = {}
  /\ sections_it' = [sections_it EXCEPT ![t] = 0]
  /\ Goto(t, "fill")
  /\ UNCHANGED <<m_dataCached, asked, got>>

\* The next section goes into m_data, with all its pairs.
Fill(t) ==
  /\ pc[t] = "fill"
  /\ sections_it[t] < Length
  /\ sections_it' = [sections_it EXCEPT ![t] = @ + 1]
  /\ m_data' = m_data \cup {sections_it'[t]}
  /\ UNCHANGED <<m_dataCached, pc, asked, got>>

SetCached(t) ==
  /\ pc[t] = "fill"
  /\ sections_it[t] = Length
  /\ m_dataCached' = TRUE
  /\ Goto(t, "look")
  /\ UNCHANGED <<m_data, sections_it, asked, got>>

\* m_data is copied, or searched; getSection throws if it does not find.
Look(t) ==
  /\ pc[t] = "look"
  /\ got' = [got EXCEPT ![t] = asked[t] \cap m_data]
  /\ Goto(t, "answered")
  /\ UNCHANGED <<m_dataCached, m_data, sections_it, asked>>

Answer(t) ==
  /\ pc[t] = "answered"
  /\ Goto(t, "idle")
  /\ UNCHANGED <<m_dataCached, m_data, sections_it, asked, got>>

Next ==
  \E t \in Readers :
    \/ \E wanted \in {Sections} \cup {{s} : s \in Sections} : Call(t, wanted)
    \/ CheckCached(t) \/ ClearData(t) \/ Fill(t) \/ SetCached(t) \/ Look(t) \/ Answer(t)

Spec == Init /\ [][Next]_vars

-----------------------------------------------------------------------------

\* README_CPP.md:315: "Multiple readers are safe".  Nobody writes, so every
\* reader finds the sections it asks for.
ReadersFindAll == \A t \in Readers : pc[t] = "answered" => got[t] = asked[t]
=============================================================================
