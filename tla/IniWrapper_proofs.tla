-------------------------- MODULE IniWrapper_proofs --------------------------
(***************************************************************************)
(* Proofs about IniWrapper, for any number of parsers and contexts and any *)
(* file contents: contexts are owned by one object each, the cache shows   *)
(* what the context holds unless a call threw after changing it, and a     *)
(* copy is a copy.                                                         *)
(***************************************************************************)
EXTENDS IniWrapper, TLAPS

Contents == Data \cup {NoTable}

\* Who has which context.
ContextInv ==
  /\ owns \in [Parsers -> Contexts \cup {NoContext}]
  /\ live \subseteq Contexts
  /\ memory \in [Contexts -> Contents]
  /\ live = {owns[p] : p \in Parsers} \ {NoContext}
  /\ \A p, q \in Parsers : owns[p] = owns[q] => p = q \/ owns[p] = NoContext

\* What is known of an object: one that is gone has nothing, and what is not
\* cached leaves no remains in m_data.
ObjectInv(p) ==
  /\ p \notin alive => owns[p] = NoContext /\ ~cached[p]
  /\ ~cached[p] => cache[p] = EmptyData
  /\ cached[p] /\ ~torn[p] => cache[p] = DataOf(p)

WrapperInv == TypeOK /\ ContextInv /\ \A p \in Parsers : ObjectInv(p)

-----------------------------------------------------------------------------
(* The data *)

LEMMA DataTypes ==
  /\ EmptySection \in Section /\ EmptyData \in Data
  /\ \A d \in Contents : Shown(d) \in Data
  /\ \A d \in Data : Shown(d) = d
  /\ \A d \in Data : CopyOf(d) \in Data /\ CopyOf(CopyOf(d)) = CopyOf(d)
<1>1. EmptySection \in Section
  BY DEF EmptySection, Section
<1>2. EmptyData \in Data
  BY DEF EmptyData, Data
<1>3. \A d \in Contents : Shown(d) \in Data
  BY <1>2 DEF Contents, Shown
<1>4. ASSUME NEW d \in Data PROVE Shown(d) = d
  <2>1. CASE d = NoTable
    <3>1. Names = {}
      BY <2>1 DEF NoTable, Data
    <3>2. EmptyData = NoTable
      BY <3>1 DEF EmptyData, NoTable
    <3>3. QED
      BY <2>1, <3>2 DEF Shown
  <2>2. CASE d # NoTable
    BY <2>2 DEF Shown
  <2>3. QED
    BY <2>1, <2>2
<1>5. ASSUME NEW d \in Data PROVE CopyOf(d) \in Data /\ CopyOf(CopyOf(d)) = CopyOf(d)
  BY DEF CopyOf, Data
<1>6. QED
  BY <1>1, <1>2, <1>3, <1>4, <1>5

LEMMA OwnedTypes ==
  ASSUME WrapperInv, NEW p \in Parsers
  PROVE  /\ Content(p) \in Contents /\ DataOf(p) = Shown(Content(p)) /\ DataOf(p) \in Data
         /\ cache[p] \in Data /\ Populated(p) \in Data
<1>1. Content(p) \in Contents /\ cache[p] \in Data
  BY DataTypes DEF WrapperInv, ContextInv, TypeOK, Content, Contents
<1>2. DataOf(p) = Shown(Content(p))
  BY DataTypes DEF DataOf, Content
<1>3. QED
  BY <1>1, <1>2, DataTypes DEF Populated

\* What m_data holds once it is filled.
LEMMA PopulatedIs ==
  ASSUME WrapperInv, NEW p \in Parsers, ~torn[p]
  PROVE  Populated(p) = DataOf(p)
<1>1. ObjectInv(p)
  BY DEF WrapperInv
<1>2. CASE cached[p]
  BY <1>1, <1>2 DEF ObjectInv, Populated
<1>3. CASE ~cached[p] /\ owns[p] = NoContext
  BY <1>1, <1>3 DEF ObjectInv, Populated, DataOf
<1>4. CASE ~cached[p] /\ owns[p] # NoContext
  BY <1>4 DEF Populated
<1>5. QED
  BY <1>2, <1>3, <1>4

-----------------------------------------------------------------------------
(* What steps do to the contexts *)

\* p has a context of its own with d in it, and nobody else's has changed.
HasNow(p, d) ==
  /\ ContextInv'
  /\ owns'[p] # NoContext
  /\ DataOf(p)' = Shown(d)
  /\ \A q \in Parsers \ {p} : owns'[q] = owns[q] /\ DataOf(q)' = DataOf(q)

LEMMA HoldsIs ==
  ASSUME ContextInv, NEW p \in Parsers, NEW c \in Contexts, Ensures(p, c), NEW d \in Contents,
         Holds(p, c, d)
  PROVE  HasNow(p, d)
<1>1. /\ owns' = [owns EXCEPT ![p] = c]
      /\ live' = live \cup {c}
      /\ memory' = [memory EXCEPT ![c] = d]
  BY DEF Holds
<1>2. /\ \A q \in Parsers : owns'[q] = IF q = p THEN c ELSE owns[q]
      /\ \A e \in Contexts : memory'[e] = IF e = c THEN d ELSE memory[e]
      /\ owns' \in [Parsers -> Contexts \cup {NoContext}]
      /\ memory' \in [Contexts -> Contents]
  BY <1>1 DEF ContextInv
<1>3. c # NoContext /\ \A q \in Parsers \ {p} : owns[q] # c
  <2>1. CASE owns[p] = NoContext
    BY <2>1, ContextsAssumption DEF ContextInv, Ensures
  <2>2. CASE owns[p] # NoContext
    BY <2>2, ContextsAssumption DEF ContextInv, Ensures
  <2>3. QED
    BY <2>1, <2>2
<1>4. live' = {owns'[q] : q \in Parsers} \ {NoContext}
  <2>1. CASE owns[p] = NoContext
    BY <1>1, <1>2, <1>3, <2>1 DEF ContextInv
  <2>2. CASE owns[p] # NoContext
    BY <1>1, <1>2, <1>3, <2>2 DEF ContextInv, Ensures
  <2>3. QED
    BY <2>1, <2>2
<1>5. \A q, r \in Parsers : owns'[q] = owns'[r] => q = r \/ owns'[q] = NoContext
  BY <1>2, <1>3 DEF ContextInv
<1>6. ContextInv'
  BY <1>1, <1>2, <1>4, <1>5 DEF ContextInv
<1>7. owns'[p] # NoContext /\ DataOf(p)' = Shown(d)
  BY <1>2, <1>3 DEF DataOf
<1>8. ASSUME NEW q \in Parsers \ {p} PROVE owns'[q] = owns[q] /\ DataOf(q)' = DataOf(q)
  BY <1>2, <1>3 DEF DataOf, ContextInv
<1>9. QED
  BY <1>6, <1>7, <1>8 DEF HasNow

LEMMA HoldsInsteadIs ==
  ASSUME ContextInv, NEW p \in Parsers, NEW c \in Contexts, NEW d \in Contents, HoldsInstead(p, c, d)
  PROVE  HasNow(p, d)
<1>1. /\ c \in Contexts \ live
      /\ owns' = [owns EXCEPT ![p] = c]
      /\ live' = (live \ {owns[p]}) \cup {c}
      /\ memory' = [memory EXCEPT ![c] = d, ![owns[p]] = EmptyData]
  BY DEF HoldsInstead
<1>2. c # NoContext /\ \A q \in Parsers : owns[q] # c
  BY <1>1, ContextsAssumption DEF ContextInv
<1>3. /\ \A q \in Parsers : owns'[q] = IF q = p THEN c ELSE owns[q]
      /\ owns' \in [Parsers -> Contexts \cup {NoContext}]
  BY <1>1 DEF ContextInv
<1>4. /\ memory'[c] = d
      /\ \A e \in Contexts : e # c /\ e # owns[p] => memory'[e] = memory[e]
      /\ memory' \in [Contexts -> Contents]
  BY <1>1, <1>2, DataTypes DEF ContextInv, Contents
<1>5. live' = {owns'[q] : q \in Parsers} \ {NoContext}
  BY <1>1, <1>2, <1>3 DEF ContextInv
<1>6. \A q, r \in Parsers : owns'[q] = owns'[r] => q = r \/ owns'[q] = NoContext
  BY <1>2, <1>3 DEF ContextInv
<1>7. ContextInv'
  BY <1>1, <1>3, <1>4, <1>5, <1>6 DEF ContextInv
<1>8. owns'[p] # NoContext /\ DataOf(p)' = Shown(d)
  BY <1>2, <1>3, <1>4 DEF DataOf
<1>9. ASSUME NEW q \in Parsers \ {p} PROVE owns'[q] = owns[q] /\ DataOf(q)' = DataOf(q)
  BY <1>2, <1>3, <1>4 DEF DataOf, ContextInv
<1>10. QED
  BY <1>7, <1>8, <1>9 DEF HasNow

\* p gives its context back.
LEMMA GoneIs ==
  ASSUME ContextInv, NEW p \in Parsers, owns' = [owns EXCEPT ![p] = NoContext], live' = live \ {owns[p]},
         memory' = [c \in Contexts |-> IF c = owns[p] THEN EmptyData ELSE memory[c]]
  PROVE  /\ ContextInv' /\ owns'[p] = NoContext
         /\ \A q \in Parsers \ {p} : owns'[q] = owns[q] /\ DataOf(q)' = DataOf(q)
<1>1. /\ \A q \in Parsers : owns'[q] = IF q = p THEN NoContext ELSE owns[q]
      /\ owns' \in [Parsers -> Contexts \cup {NoContext}]
  BY DEF ContextInv
<1>2. memory' \in [Contexts -> Contents]
  BY DataTypes DEF ContextInv, Contents
<1>3. live' = {owns'[q] : q \in Parsers} \ {NoContext}
  BY <1>1 DEF ContextInv
<1>4. \A q, r \in Parsers : owns'[q] = owns'[r] => q = r \/ owns'[q] = NoContext
  BY <1>1 DEF ContextInv
<1>5. ContextInv'
  BY <1>1, <1>2, <1>3, <1>4 DEF ContextInv
<1>6. ASSUME NEW q \in Parsers \ {p} PROVE owns'[q] = owns[q] /\ DataOf(q)' = DataOf(q)
  BY <1>1 DEF DataOf, ContextInv
<1>7. QED
  BY <1>1, <1>5, <1>6

\* q's context moves to p, which gives its own back.
LEMMA MoveIs ==
  ASSUME ContextInv, NEW p \in Parsers, NEW q \in Parsers, MoveInto(p, q)
  PROVE  /\ ContextInv' /\ owns'[q] = NoContext
         /\ DataOf(p)' = DataOf(q) /\ DataOf(q)' = EmptyData
         /\ \A r \in Parsers \ {p, q} : owns'[r] = owns[r] /\ DataOf(r)' = DataOf(r)
<1>1. /\ p # q
      /\ owns' = [owns EXCEPT ![p] = owns[q], ![q] = NoContext]
      /\ live' = live \ {owns[p]}
      /\ memory' = [c \in Contexts |-> IF c = owns[p] THEN EmptyData ELSE memory[c]]
  BY DEF MoveInto, MovedFrom
<1>2. /\ \A r \in Parsers : owns'[r] = IF r = q THEN NoContext ELSE IF r = p THEN owns[q] ELSE owns[r]
      /\ owns' \in [Parsers -> Contexts \cup {NoContext}]
  BY <1>1 DEF ContextInv
<1>3. memory' \in [Contexts -> Contents]
  BY <1>1, DataTypes DEF ContextInv, Contents
<1>4. live' = {owns'[r] : r \in Parsers} \ {NoContext}
  <2>1. ASSUME NEW c \in live' PROVE c \in {owns'[r] : r \in Parsers} \ {NoContext}
    <3>1. PICK r \in Parsers : c = owns[r] /\ c # NoContext /\ c # owns[p]
      BY <1>1, <2>1 DEF ContextInv
    <3>2. CASE r = q
      BY <1>1, <1>2, <3>1, <3>2
    <3>3. CASE r # q
      BY <1>2, <3>1, <3>3
    <3>4. QED
      BY <3>2, <3>3
  <2>2. ASSUME NEW r \in Parsers, owns'[r] # NoContext PROVE owns'[r] \in live'
    BY <1>1, <1>2, <2>2 DEF ContextInv
  <2>3. QED
    BY <2>1, <2>2
<1>5. \A r, s \in Parsers : owns'[r] = owns'[s] => r = s \/ owns'[r] = NoContext
  BY <1>1, <1>2 DEF ContextInv
<1>6. ContextInv'
  BY <1>1, <1>2, <1>3, <1>4, <1>5 DEF ContextInv
<1>7. \A r \in Parsers \ {p} : owns[r] # NoContext => owns[r] \in Contexts /\ memory'[owns[r]] = memory[owns[r]]
  BY <1>1 DEF ContextInv
<1>8. DataOf(p)' = DataOf(q) /\ DataOf(q)' = EmptyData
  BY <1>1, <1>2, <1>7 DEF DataOf
<1>9. ASSUME NEW r \in Parsers \ {p, q} PROVE owns'[r] = owns[r] /\ DataOf(r)' = DataOf(r)
  BY <1>2, <1>7 DEF DataOf
<1>10. QED
  BY <1>2, <1>6, <1>8, <1>9

-----------------------------------------------------------------------------
(* What steps do to the caches *)

\* A step that leaves q and its context alone.
LEMMA OthersKeep ==
  ASSUME NEW q \in Parsers, ObjectInv(q), owns'[q] = owns[q], DataOf(q)' = DataOf(q),
         cache'[q] = cache[q], cached'[q] <=> cached[q], torn'[q] <=> torn[q],
         q \in alive' <=> q \in alive
  PROVE  ObjectInv(q)'
BY DEF ObjectInv

LEMMA TypesKept ==
  ASSUME ContextInv', alive' \subseteq Parsers, cache' \in [Parsers -> Data],
         cached' \in [Parsers -> BOOLEAN], torn' \in [Parsers -> BOOLEAN],
         outcome' \in {"none", "returned", "threw", "dropped", "copied"}
  PROVE  TypeOK'
BY DEF ContextInv, TypeOK, Contents

LEMMA InvalidateIs ==
  ASSUME TypeOK, NEW p \in Parsers, Invalidate(p)
  PROVE  /\ cache' \in [Parsers -> Data] /\ cached' \in [Parsers -> BOOLEAN] /\ torn' \in [Parsers -> BOOLEAN]
         /\ cache'[p] = EmptyData /\ ~cached'[p]
         /\ \A q \in Parsers \ {p} :
              cache'[q] = cache[q] /\ (cached'[q] <=> cached[q]) /\ (torn'[q] <=> torn[q])
BY DataTypes DEF Invalidate, TypeOK

LEMMA ThrowsIs ==
  ASSUME TypeOK, NEW p \in Parsers, NEW d, Throws(p, d)
  PROVE  /\ cache' = cache /\ cached' = cached /\ torn' \in [Parsers -> BOOLEAN]
         /\ outcome' = "threw"
         /\ torn'[p] <=> torn[p] \/ (cached[p] /\ Shown(d) # DataOf(p))
         /\ \A q \in Parsers \ {p} : torn'[q] <=> torn[q]
<1>1. /\ UNCHANGED <<cache, cached>> /\ outcome' = "threw"
      /\ torn' = [torn EXCEPT ![p] = torn[p] \/ (cached[p] /\ Shown(d) # DataOf(p))]
  BY DEF Throws
<1>2. torn' \in [Parsers -> BOOLEAN]
  BY <1>1 DEF TypeOK
<1>3. torn'[p] <=> torn[p] \/ (cached[p] /\ Shown(d) # DataOf(p))
  BY <1>1 DEF TypeOK
<1>4. \A q \in Parsers \ {p} : torn'[q] <=> torn[q]
  BY <1>1 DEF TypeOK
<1>5. QED
  BY <1>1, <1>2, <1>3, <1>4

\* A call changes p's context and invalidates its cache.
LEMMA ChangedPreserves ==
  ASSUME WrapperInv, NEW p \in Parsers, NEW d, HasNow(p, d), Invalidate(p),
         alive' = alive, p \in alive, outcome' \in {"returned", "dropped"}
  PROVE  WrapperInv'
<1>1. /\ TypeOK /\ ContextInv'
      /\ \A q \in Parsers \ {p} : owns'[q] = owns[q] /\ DataOf(q)' = DataOf(q)
  BY DEF WrapperInv, HasNow
<1>2. TypeOK'
  BY <1>1, InvalidateIs, TypesKept DEF TypeOK
<1>3. ASSUME NEW q \in Parsers, q # p PROVE ObjectInv(q)'
  BY <1>1, <1>3, InvalidateIs, OthersKeep DEF WrapperInv
<1>4. ObjectInv(p)'
  BY <1>1, InvalidateIs DEF ObjectInv
<1>5. QED
  BY <1>1, <1>2, <1>3, <1>4 DEF WrapperInv

\* A call throws and leaves p with d.
LEMMA ThrownPreserves ==
  ASSUME WrapperInv, NEW p \in Parsers, NEW d, HasNow(p, d), Throws(p, d), alive' = alive, p \in alive
  PROVE  WrapperInv'
<1>1. /\ TypeOK /\ ContextInv' /\ DataOf(p)' = Shown(d)
      /\ \A q \in Parsers \ {p} : owns'[q] = owns[q] /\ DataOf(q)' = DataOf(q)
  BY DEF WrapperInv, HasNow
<1>2. /\ cache' = cache /\ cached' = cached /\ torn' \in [Parsers -> BOOLEAN]
      /\ outcome' = "threw"
      /\ torn'[p] <=> torn[p] \/ (cached[p] /\ Shown(d) # DataOf(p))
      /\ \A q \in Parsers \ {p} : torn'[q] <=> torn[q]
  BY <1>1, ThrowsIs
<1>3. TypeOK'
  BY <1>1, <1>2, TypesKept DEF TypeOK
<1>4. ASSUME NEW q \in Parsers, q # p PROVE ObjectInv(q)'
  BY <1>1, <1>2, <1>4, OthersKeep DEF WrapperInv
<1>5. ObjectInv(p)'
  <2>1. ObjectInv(p)
    BY DEF WrapperInv
  <2>2. CASE cached[p] /\ ~torn'[p]
    <3>1. cache[p] = DataOf(p) /\ Shown(d) = DataOf(p)
      BY <1>2, <2>1, <2>2 DEF ObjectInv
    <3>2. QED
      BY <1>1, <1>2, <2>1, <2>2, <3>1 DEF ObjectInv
  <2>3. CASE ~cached[p] \/ torn'[p]
    BY <1>2, <2>1, <2>3 DEF ObjectInv
  <2>4. QED
    BY <2>2, <2>3
<1>6. QED
  BY <1>1, <1>3, <1>4, <1>5 DEF WrapperInv

\* p becomes a copy of q, whole or not.
LEMMA CopyPreserves ==
  ASSUME WrapperInv, NEW p \in Parsers, NEW q \in Parsers, NEW d \in Data, CopyInto(p, q, d),
         outcome' \in {"copied", "dropped", "threw"}
  PROVE  WrapperInv' /\ DataOf(p)' = d /\ DataOf(q)' = DataOf(q)
<1>1. /\ q \in alive /\ p # q /\ CopyCaches(p, q) /\ alive' = alive \cup {p}
      /\ TypeOK /\ ContextInv
  BY DEF CopyInto, WrapperInv
<1>2. HasNow(p, d)
  <2>1. CASE p \in alive
    BY <1>1, <2>1, HoldsInsteadIs DEF CopyInto, Contents
  <2>2. CASE p \notin alive
    <3>1. PICK c \in Contexts \ live : Holds(p, c, d)
      BY <2>2 DEF CopyInto
    <3>2. owns[p] = NoContext
      BY <2>2 DEF WrapperInv, ObjectInv
    <3>3. Ensures(p, c)
      BY <3>1, <3>2 DEF Ensures
    <3>4. QED
      BY <1>1, <3>1, <3>3, HoldsIs DEF Contents
  <2>3. QED
    BY <2>1, <2>2
<1>3. /\ ContextInv' /\ DataOf(p)' = d
      /\ \A r \in Parsers \ {p} : owns'[r] = owns[r] /\ DataOf(r)' = DataOf(r)
  BY <1>2, DataTypes DEF HasNow
<1>4. /\ cache' = [cache EXCEPT ![q] = Populated(q), ![p] = EmptyData]
      /\ cached' = [cached EXCEPT ![q] = cached[q] \/ owns[q] # NoContext, ![p] = FALSE]
      /\ torn' = [torn EXCEPT ![p] = FALSE]
  BY <1>1 DEF CopyCaches
<1>5. /\ cache' \in [Parsers -> Data] /\ cached' \in [Parsers -> BOOLEAN] /\ torn' \in [Parsers -> BOOLEAN]
  <2>1. cache' \in [Parsers -> Data]
    BY <1>4, OwnedTypes, DataTypes DEF WrapperInv, TypeOK
  <2>2. cached' \in [Parsers -> BOOLEAN]
    BY <1>1, <1>4 DEF TypeOK
  <2>3. torn' \in [Parsers -> BOOLEAN]
    BY <1>1, <1>4 DEF TypeOK
  <2>4. QED
    BY <2>1, <2>2, <2>3
<1>6. /\ cache'[p] = EmptyData /\ cache'[q] = Populated(q)
      /\ \A r \in Parsers \ {p, q} : cache'[r] = cache[r]
  BY <1>1, <1>4 DEF TypeOK
<1>7. /\ ~cached'[p]
      /\ \A r \in Parsers \ {p, q} : cached'[r] <=> cached[r]
  BY <1>1, <1>4 DEF TypeOK
<1>8. cached'[q] <=> cached[q] \/ owns[q] # NoContext
  BY <1>1, <1>4 DEF TypeOK
<1>9. \A r \in Parsers \ {p} : torn'[r] <=> torn[r]
  BY <1>1, <1>4 DEF TypeOK
<1>10. TypeOK'
  BY <1>1, <1>3, <1>5, TypesKept DEF TypeOK
<1>11. ASSUME NEW r \in Parsers, r # p, r # q PROVE ObjectInv(r)'
  BY <1>1, <1>3, <1>6, <1>7, <1>9, <1>11, OthersKeep DEF WrapperInv
<1>12. ObjectInv(p)'
  BY <1>1, <1>6, <1>7 DEF ObjectInv
<1>13. ObjectInv(q)'
  <2>1. ObjectInv(q) /\ q \in alive' /\ owns'[q] = owns[q] /\ DataOf(q)' = DataOf(q)
    BY <1>1, <1>3 DEF WrapperInv
  <2>2. ~cached'[q] => cache'[q] = EmptyData
    BY <1>6, <1>8, <2>1 DEF ObjectInv, Populated
  <2>3. ~torn'[q] => cache'[q] = DataOf(q)
    BY <1>1, <1>6, <1>9, PopulatedIs
  <2>4. QED
    BY <2>1, <2>2, <2>3 DEF ObjectInv
<1>14. QED
  BY <1>1, <1>3, <1>10, <1>11, <1>12, <1>13 DEF WrapperInv

LEMMA MovePreserves ==
  ASSUME WrapperInv, NEW p \in Parsers, NEW q \in Parsers, MoveInto(p, q)
  PROVE  WrapperInv'
<1>1. /\ q \in alive /\ p # q /\ alive' = alive \cup {p} /\ outcome' = "returned"
      /\ cache' = [cache EXCEPT ![p] = cache[q], ![q] = EmptyData]
      /\ cached' = [cached EXCEPT ![p] = cached[q]]
      /\ torn' = [torn EXCEPT ![p] = torn[q], ![q] = FALSE]
      /\ TypeOK /\ ContextInv
  BY DEF MoveInto, WrapperInv
<1>2. /\ ContextInv' /\ owns'[q] = NoContext
      /\ DataOf(p)' = DataOf(q) /\ DataOf(q)' = EmptyData
      /\ \A r \in Parsers \ {p, q} : owns'[r] = owns[r] /\ DataOf(r)' = DataOf(r)
  BY <1>1, MoveIs
<1>3. /\ cache' \in [Parsers -> Data]
      /\ cache'[p] = cache[q] /\ cache'[q] = EmptyData
      /\ \A r \in Parsers \ {p, q} : cache'[r] = cache[r]
  BY <1>1, DataTypes DEF TypeOK
<1>4. /\ cached' \in [Parsers -> BOOLEAN]
      /\ cached'[p] <=> cached[q]
      /\ \A r \in Parsers \ {p} : cached'[r] <=> cached[r]
  BY <1>1 DEF TypeOK
<1>5. /\ torn' \in [Parsers -> BOOLEAN]
      /\ torn'[p] <=> torn[q]
      /\ \A r \in Parsers \ {p, q} : torn'[r] <=> torn[r]
  BY <1>1 DEF TypeOK
<1>6. TypeOK'
  BY <1>1, <1>2, <1>3, <1>4, <1>5, TypesKept DEF TypeOK
<1>7. ASSUME NEW r \in Parsers, r # p, r # q PROVE ObjectInv(r)'
  BY <1>1, <1>2, <1>3, <1>4, <1>5, <1>7, OthersKeep DEF WrapperInv
<1>8. ObjectInv(q)
  BY DEF WrapperInv
<1>9. ObjectInv(p)'
  BY <1>1, <1>2, <1>3, <1>4, <1>5, <1>8 DEF ObjectInv
<1>10. ObjectInv(q)'
  BY <1>1, <1>2, <1>3, <1>4, <1>8 DEF ObjectInv
<1>11. QED
  BY <1>2, <1>6, <1>7, <1>9, <1>10 DEF WrapperInv

LEMMA ReadPreserves ==
  ASSUME WrapperInv, NEW p \in Parsers, ReadAll(p)
  PROVE  WrapperInv'
<1>1. /\ p \in alive
      /\ cache' = [cache EXCEPT ![p] = Populated(p)]
      /\ cached' = [cached EXCEPT ![p] = cached[p] \/ owns[p] # NoContext]
      /\ outcome' \in {"returned", "threw"}
      /\ UNCHANGED <<alive, owns, live, memory, torn>>
      /\ TypeOK /\ ContextInv
  BY DEF ReadAll, WrapperInv
<1>2. ContextInv' /\ \A q \in Parsers : DataOf(q)' = DataOf(q)
  BY <1>1 DEF ContextInv, DataOf
<1>3. /\ cache' \in [Parsers -> Data]
      /\ cache'[p] = Populated(p)
      /\ \A q \in Parsers \ {p} : cache'[q] = cache[q]
  BY <1>1, OwnedTypes DEF TypeOK
<1>4. /\ cached' \in [Parsers -> BOOLEAN]
      /\ cached'[p] <=> cached[p] \/ owns[p] # NoContext
      /\ \A q \in Parsers \ {p} : cached'[q] <=> cached[q]
  <2>1. cached' \in [Parsers -> BOOLEAN]
    BY <1>1 DEF TypeOK
  <2>2. cached'[p] <=> cached[p] \/ owns[p] # NoContext
    BY <1>1 DEF TypeOK
  <2>3. \A q \in Parsers \ {p} : cached'[q] <=> cached[q]
    BY <1>1 DEF TypeOK
  <2>4. QED
    BY <2>1, <2>2, <2>3
<1>5. TypeOK'
  BY <1>1, <1>2, <1>3, <1>4, TypesKept DEF TypeOK
<1>6. ASSUME NEW q \in Parsers, q # p PROVE ObjectInv(q)'
  BY <1>1, <1>2, <1>3, <1>4, <1>6, OthersKeep DEF WrapperInv
<1>7. ObjectInv(p)'
  <2>1. ObjectInv(p) /\ DataOf(p)' = DataOf(p)
    BY <1>2 DEF WrapperInv
  <2>2. ~cached'[p] => cache'[p] = EmptyData
    BY <1>3, <1>4, <2>1 DEF ObjectInv, Populated
  <2>3. ~torn'[p] => cache'[p] = DataOf(p)
    BY <1>1, <1>3, PopulatedIs
  <2>4. QED
    BY <1>1, <2>1, <2>2, <2>3 DEF ObjectInv
<1>8. QED
  BY <1>2, <1>5, <1>6, <1>7 DEF WrapperInv

-----------------------------------------------------------------------------
(* Every member function *)

LEMMA LifePreserves ==
  ASSUME WrapperInv, NEW p \in Parsers, NoMemory(p) \/ Construct(p) \/ Destruct(p)
  PROVE  WrapperInv'
<1>1. TypeOK /\ ContextInv
  BY DEF WrapperInv
<1>2. CASE NoMemory(p)
  <2>1. Throws(p, Content(p)) /\ UNCHANGED <<alive, owns, live, memory>>
    BY <1>2 DEF NoMemory
  <2>2. ContextInv' /\ \A q \in Parsers : owns'[q] = owns[q] /\ DataOf(q)' = DataOf(q)
    BY <1>1, <2>1 DEF ContextInv, DataOf
  <2>3. /\ cache' = cache /\ cached' = cached /\ torn' \in [Parsers -> BOOLEAN] /\ outcome' = "threw"
        /\ torn'[p] <=> torn[p] \/ (cached[p] /\ Shown(Content(p)) # DataOf(p))
        /\ \A q \in Parsers \ {p} : torn'[q] <=> torn[q]
    BY <1>1, <2>1, ThrowsIs
  <2>4. torn'[p] <=> torn[p]
    BY <2>3, OwnedTypes
  <2>5. TypeOK'
    BY <1>1, <2>1, <2>2, <2>3, TypesKept DEF TypeOK
  <2>6. ASSUME NEW q \in Parsers PROVE ObjectInv(q)'
    BY <2>1, <2>2, <2>3, <2>4, OthersKeep DEF WrapperInv
  <2>7. QED
    BY <2>2, <2>5, <2>6 DEF WrapperInv
<1>3. CASE Construct(p)
  <2>1. /\ p \notin alive /\ alive' = alive \cup {p} /\ outcome' = "returned"
        /\ UNCHANGED <<cache, cached, torn>>
    BY <1>3 DEF Construct
  <2>2. ObjectInv(p) /\ owns[p] = NoContext
    BY <2>1 DEF WrapperInv, ObjectInv
  <2>3. PICK c \in Contexts \ live : Holds(p, c, EmptyData)
    BY <1>3 DEF Construct
  <2>4. HasNow(p, EmptyData)
    BY <1>1, <2>2, <2>3, HoldsIs, DataTypes DEF Ensures, Contents
  <2>5. /\ ContextInv'
        /\ \A q \in Parsers \ {p} : owns'[q] = owns[q] /\ DataOf(q)' = DataOf(q)
    BY <2>4 DEF HasNow
  <2>6. TypeOK'
    BY <1>1, <2>1, <2>5, TypesKept DEF TypeOK
  <2>7. ASSUME NEW q \in Parsers, q # p PROVE ObjectInv(q)'
    BY <2>1, <2>5, <2>7, OthersKeep DEF WrapperInv
  <2>8. ObjectInv(p)'
    BY <2>1, <2>2 DEF ObjectInv
  <2>9. QED
    BY <2>5, <2>6, <2>7, <2>8 DEF WrapperInv
<1>4. CASE Destruct(p)
  <2>1. Gone(p) /\ alive' = alive \ {p} /\ Invalidate(p) /\ outcome' = "returned"
    BY <1>4 DEF Destruct, Gone
  <2>2. /\ ContextInv' /\ owns'[p] = NoContext
        /\ \A q \in Parsers \ {p} : owns'[q] = owns[q] /\ DataOf(q)' = DataOf(q)
    BY <1>1, <2>1, GoneIs DEF Gone
  <2>3. TypeOK'
    BY <1>1, <2>1, <2>2, InvalidateIs, TypesKept DEF TypeOK
  <2>4. ASSUME NEW q \in Parsers, q # p PROVE ObjectInv(q)'
    BY <1>1, <2>1, <2>2, <2>4, InvalidateIs, OthersKeep DEF WrapperInv
  <2>5. ObjectInv(p)'
    BY <1>1, <2>1, <2>2, InvalidateIs DEF ObjectInv
  <2>6. QED
    BY <2>2, <2>3, <2>4, <2>5 DEF WrapperInv
<1>5. QED
  BY <1>2, <1>3, <1>4

LEMMA LoadPreserves ==
  ASSUME WrapperInv, NEW p \in Parsers, LoadRefused(p) \/ LoadFails(p) \/ LoadDone(p) \/ Clear(p)
  PROVE  WrapperInv'
<1>1. ContextInv /\ Content(p) \in Contents
  BY OwnedTypes DEF WrapperInv
<1>2. CASE LoadRefused(p)
  <2>1. PICK c \in Contexts : Ensures(p, c) /\ Holds(p, c, Content(p))
    BY <1>2 DEF LoadRefused
  <2>2. HasNow(p, Content(p))
    BY <1>1, <2>1, HoldsIs
  <2>3. QED
    BY <1>2, <2>2, ThrownPreserves DEF LoadRefused
<1>3. CASE LoadFails(p)
  <2>1. PICK c \in Contexts, d \in FileContents \cup {EmptyData, NoTable} :
          Ensures(p, c) /\ Holds(p, c, d) /\ Throws(p, d)
    BY <1>3 DEF LoadFails
  <2>2. d \in Contents
    BY FilesAssumption, DataTypes DEF Contents
  <2>3. HasNow(p, d)
    BY <1>1, <2>1, <2>2, HoldsIs
  <2>4. QED
    BY <1>3, <2>1, <2>3, ThrownPreserves DEF LoadFails
<1>4. CASE LoadDone(p)
  <2>1. PICK c \in Contexts, d \in FileContents : Ensures(p, c) /\ Holds(p, c, d)
    BY <1>4 DEF LoadDone
  <2>2. d \in Contents
    BY FilesAssumption DEF Contents
  <2>3. HasNow(p, d)
    BY <1>1, <2>1, <2>2, HoldsIs
  <2>4. QED
    BY <1>4, <2>3, ChangedPreserves DEF LoadDone
<1>5. CASE Clear(p)
  <2>1. PICK c \in Contexts : HoldsInstead(p, c, EmptyData)
    BY <1>5 DEF Clear
  <2>2. HasNow(p, EmptyData)
    BY <1>1, <2>1, HoldsInsteadIs, DataTypes DEF Contents
  <2>3. QED
    BY <1>5, <2>2, ChangedPreserves DEF Clear
<1>6. QED
  BY <1>2, <1>3, <1>4, <1>5

LEMMA SetPreserves ==
  ASSUME WrapperInv, NEW p \in Parsers, NEW n \in Names,
         \/ SetDropped(p, n) \/ SetFails(p, n)
         \/ \E k \in Keys, v \in Values : SetDone(p, n, k, v)
  PROVE  WrapperInv'
<1>1. ContextInv /\ Content(p) \in Contents
  BY OwnedTypes DEF WrapperInv
<1>2. CASE SetDropped(p, n)
  <2>1. PICK c \in Contexts : Ensures(p, c) /\ Holds(p, c, Content(p))
    BY <1>2 DEF SetDropped
  <2>2. HasNow(p, Content(p))
    BY <1>1, <2>1, HoldsIs
  <2>3. QED
    BY <1>2, <2>2, ChangedPreserves DEF SetDropped
<1>3. CASE SetFails(p, n)
  <2>1. PICK c \in Contexts, d \in {Content(p), [Content(p) EXCEPT ![n] = EmptySection]} :
          /\ Ensures(p, c) /\ Holds(p, c, d) /\ Throws(p, d)
          /\ d = Content(p) \/ Content(p) # NoTable
    BY <1>3 DEF SetFails
  <2>2. d \in Contents
    <3>1. CASE d = Content(p)
      BY <1>1, <3>1
    <3>2. CASE d # Content(p)
      <4>1. Content(p) \in Data /\ d = [Content(p) EXCEPT ![n] = EmptySection]
        BY <1>1, <2>1, <3>2 DEF Contents
      <4>2. QED
        BY <4>1, DataTypes DEF Contents, Data
    <3>3. QED
      BY <3>1, <3>2
  <2>3. HasNow(p, d)
    BY <1>1, <2>1, <2>2, HoldsIs
  <2>4. QED
    BY <1>3, <2>1, <2>3, ThrownPreserves DEF SetFails
<1>4. ASSUME NEW k \in Keys, NEW v \in Values, SetDone(p, n, k, v) PROVE WrapperInv'
  <2>1. PICK c \in Contexts : Ensures(p, c) /\ Holds(p, c, With(Content(p), n, k, v))
    BY <1>4 DEF SetDone
  <2>2. With(Content(p), n, k, v) \in Contents
    <3>1. Content(p) \in Data
      BY <1>1, <1>4 DEF SetDone, Contents
    <3>2. [(IF Content(p)[n] = Absent THEN EmptySection ELSE Content(p)[n]) EXCEPT ![k] = v] \in Section
      BY <3>1, DataTypes DEF Data, Section
    <3>3. With(Content(p), n, k, v) \in Data
      BY <3>1, <3>2 DEF With, Data
    <3>4. QED
      BY <3>3 DEF Contents
  <2>3. HasNow(p, With(Content(p), n, k, v))
    BY <1>1, <2>1, <2>2, HoldsIs
  <2>4. QED
    BY <1>4, <2>3, ChangedPreserves DEF SetDone, InvalidateAfterSet
<1>5. QED
  BY <1>2, <1>3, <1>4

\* What may be copied of a parser's data is data.
LEMMA CopiedIs ==
  ASSUME WrapperInv, NEW q \in Parsers
  PROVE  CopyOf(Populated(q)) \in Data /\ PartsOf(CopyOf(Populated(q))) \subseteq Data
BY OwnedTypes, DataTypes DEF PartsOf

LEMMA StepPreserves == WrapperInv /\ [Next]_vars => WrapperInv'
<1> SUFFICES ASSUME WrapperInv, [Next]_vars PROVE WrapperInv'
  OBVIOUS
<1>1. ASSUME NEW p \in Parsers, NEW q \in Parsers, CopyDone(p, q) PROVE WrapperInv'
  BY <1>1, CopiedIs, CopyPreserves DEF CopyDone
<1>2. ASSUME NEW p \in Parsers, NEW q \in Parsers, CopyDropped(p, q) \/ AssignFails(p, q)
      PROVE  WrapperInv'
  <2>1. PICK d \in PartsOf(CopyOf(Populated(q))) : CopyInto(p, q, d) /\ outcome' \in {"dropped", "threw"}
    BY <1>2 DEF CopyDropped, AssignFails
  <2>2. QED
    BY <2>1, CopiedIs, CopyPreserves
<1>3. CASE UNCHANGED vars
  BY <1>3 DEF vars, WrapperInv, TypeOK, ContextInv, ObjectInv, DataOf
<1>4. QED
  BY <1>1, <1>2, <1>3, LifePreserves, LoadPreserves, SetPreserves, MovePreserves, ReadPreserves DEF Next

LEMMA InitInv == Init => WrapperInv
<1> SUFFICES ASSUME Init PROVE WrapperInv
  OBVIOUS
<1>1. ContextInv
  BY DataTypes DEF Init, ContextInv, Contents
<1>2. TypeOK
  BY DataTypes DEF Init, TypeOK
<1>3. \A p \in Parsers : ObjectInv(p)
  BY DEF Init, ObjectInv
<1>4. QED
  BY <1>1, <1>2, <1>3 DEF WrapperInv

-----------------------------------------------------------------------------
(* Theorems *)

\* WrapperInv holds of every reachable state.
THEOREM Invariant == Spec => []WrapperInv
BY InitInv, StepPreserves, PTL DEF Spec

\* Every variable keeps its type, whatever throws.
THEOREM TypeCorrect == Spec => []TypeOK
BY Invariant, PTL DEF WrapperInv

\* Through constructors, copies, moves and calls that throw, each context has
\* one owner: none is leaked, none freed twice.
THEOREM Ownership == Spec => []ContextsOwned
<1>1. WrapperInv => ContextsOwned
  BY DEF WrapperInv, ContextInv, ObjectInv, ContextsOwned
<1>2. QED
  BY <1>1, Invariant, PTL

\* The container interface and getString show the same, unless a call has
\* changed the context and thrown.
THEOREM Freshness == Spec => []CacheFresh
<1>1. WrapperInv => CacheFresh
  BY DEF WrapperInv, TypeOK, ObjectInv, CacheFresh
<1>2. QED
  BY <1>1, Invariant, PTL

\* A copy has the pairs of its source, cached or not, and the source keeps them.
THEOREM Copying == Spec => CopyIsSame
<1> DEFINE Same == \A p, q \in Parsers :
                     CopyDone(p, q) /\ ~torn[q] =>
                       /\ CopyOf(DataOf(p)') = CopyOf(DataOf(q))
                       /\ DataOf(q)' = DataOf(q)
<1>1. WrapperInv => Same
  <2> SUFFICES ASSUME WrapperInv, NEW p \in Parsers, NEW q \in Parsers, CopyDone(p, q), ~torn[q]
               PROVE  CopyOf(DataOf(p)') = CopyOf(DataOf(q)) /\ DataOf(q)' = DataOf(q)
    OBVIOUS
  <2>1. DataOf(p)' = CopyOf(Populated(q)) /\ DataOf(q)' = DataOf(q)
    BY CopiedIs, CopyPreserves DEF CopyDone
  <2>2. Populated(q) = DataOf(q) /\ DataOf(q) \in Data
    BY PopulatedIs, OwnedTypes
  <2>3. QED
    BY <2>1, <2>2, DataTypes
<1>2. QED
  BY <1>1, Invariant, PTL DEF CopyIsSame
=============================================================================
