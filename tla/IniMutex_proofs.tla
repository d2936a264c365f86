--------------------------- MODULE IniMutex_proofs ---------------------------
(***************************************************************************)
(* Proofs about IniMutex, for any number of threads and any nesting, with  *)
(* calls that overlap in every way: the locked flag and base agree between *)
(* calls until base is granted to one thread while another is on its way   *)
(* to clearing the flag.                                                   *)
(***************************************************************************)
EXTENDS IniMutex, TLAPS

\* Whoever is past the check of a call has made sure that there is a mutex, or
\* a lock to give back; whoever has locked has seen the flag set or has set it.
CallInv ==
  /\ \A t \in Threads : pc[t] \in {"lockBase", "lockFlag"} => made
  /\ \A t \in Threads : Unlocking(t) => Inside(t)
  /\ locked = Other => \A t \in Threads : ~Inside(t)
  /\ ~made => owner = NoThread

\* A flag nobody has set keeps every call away from base, until an unlock.
StaleInv ==
  stale =>
    /\ locked = Set /\ owner = NoThread
    /\ \A t \in Threads : pc[t] \notin {"lockBase", "lockFlag"}

\* A thread that has base but has not set the flag yet is alone with it.
GrantInv ==
  \A t \in Threads :
    pc[t] = "lockFlag" =>
      owner = t /\ locked # Set /\ \A u \in Threads : ~Unlocking(u)

\* After that the flag stays set as long as base is held, and is set without
\* it only until the unlock that released base has cleared it.
HeldInv ==
  /\ owner # NoThread /\ pc[owner] # "lockFlag" => locked = Set /\ Inside(owner)
  /\ \A t \in Threads : pc[t] = "unlockFlag" => owner = NoThread
  /\ locked = Set /\ owner = NoThread => stale \/ \E t \in Threads : pc[t] = "unlockFlag"

MutexInv ==
  /\ TypeOK
  /\ CallInv
  /\ ~crossed => StaleInv /\ GrantInv /\ HeldInv

\* Every step keeps the types; no count of nested locks goes below zero.
LEMMA MutexTypes == MutexInv /\ [Next]_vars => TypeOK'
<1> SUFFICES ASSUME MutexInv, [Next]_vars PROVE TypeOK'
  OBVIOUS
<1> USE DEF MutexInv, TypeOK, PCs, Flag, Unset, Set, Other
<1>1. CASE Allocate
  BY <1>1 DEF Allocate
<1>2. CASE InitMutex
  BY <1>2 DEF InitMutex
<1>3. CASE DestroyMutex
  BY <1>3 DEF DestroyMutex, DestroyAllowed
<1>4. ASSUME NEW t \in Threads, LockAlready(t) PROVE TypeOK'
  BY <1>4 DEF LockAlready, MayLock, AlreadyLocked, Locks
<1>5. ASSUME NEW t \in Threads, LockCheck(t) PROVE TypeOK'
  BY <1>5 DEF LockCheck, MayLock, AlreadyLocked, Goto
<1>6. ASSUME NEW t \in Threads, LockBase(t) PROVE TypeOK'
  BY <1>6 DEF LockBase, Goto, Unlocking
<1>7. ASSUME NEW t \in Threads, LockFlag(t) PROVE TypeOK'
  <2>1. depth' \in [Threads -> Nat]
    BY <1>7 DEF LockFlag, Locks
  <2>2. pc' \in [Threads -> PCs]
    BY <1>7 DEF LockFlag, Goto
  <2>3. QED
    BY <1>7, <2>1, <2>2 DEF LockFlag
<1>8. ASSUME NEW t \in Threads, UnlockAlready(t) PROVE TypeOK'
  <2>1. depth[t] > 0
    BY <1>8 DEF UnlockAlready, CallInv, Unlocking, Inside
  <2>2. depth' \in [Threads -> Nat]
    BY <1>8, <2>1 DEF UnlockAlready, Unlocks
  <2>3. QED
    BY <1>8, <2>2 DEF UnlockAlready, Unlocks
<1>9. ASSUME NEW t \in Threads, UnlockCheck(t) PROVE TypeOK'
  BY <1>9 DEF UnlockCheck, Goto
<1>10. ASSUME NEW t \in Threads, UnlockBase(t) PROVE TypeOK'
  BY <1>10 DEF UnlockBase, Goto
<1>11. ASSUME NEW t \in Threads, UnlockRefused(t) PROVE TypeOK'
  <2>1. depth[t] > 0
    BY <1>11 DEF UnlockRefused, CallInv, Unlocking, Inside
  <2>2. depth' \in [Threads -> Nat]
    BY <1>11, <2>1 DEF UnlockRefused, Unlocks, Goto
  <2>3. QED
    BY <1>11, <2>2 DEF UnlockRefused, Unlocks, Goto
<1>12. ASSUME NEW t \in Threads, UnlockFlag(t) PROVE TypeOK'
  <2>1. depth[t] > 0
    BY <1>12 DEF UnlockFlag, CallInv, Unlocking, Inside
  <2>2. depth' \in [Threads -> Nat]
    BY <1>12, <2>1 DEF UnlockFlag, Unlocks, Goto
  <2>3. QED
    BY <1>12, <2>2 DEF UnlockFlag, Unlocks, Goto
<1>13. CASE UNCHANGED vars
  BY <1>13 DEF vars
<1>14. QED
  BY <1>1, <1>2, <1>3, <1>4, <1>5, <1>6, <1>7, <1>8, <1>9, <1>10, <1>11, <1>12, <1>13 DEF Next, LockSteps, Unlock

\* Every step keeps what calls under way have found at their checks.
LEMMA CallStep == MutexInv /\ [Next]_vars => CallInv'
<1> SUFFICES ASSUME MutexInv, [Next]_vars PROVE CallInv'
  OBVIOUS
<1> USE ThreadsAssumption DEF MutexInv, TypeOK, CallInv, Inside, InCall, Quiet, Unlocking, Flag, Unset, Set, Other, PCs
<1>1. CASE Allocate
  BY <1>1 DEF Allocate
<1>2. CASE InitMutex
  BY <1>2 DEF InitMutex
<1>3. CASE DestroyMutex
  BY <1>3 DEF DestroyMutex, DestroyAllowed
<1>4. ASSUME NEW t \in Threads, LockAlready(t) PROVE CallInv'
  BY <1>4 DEF LockAlready, MayLock, AlreadyLocked, Locks
<1>5. ASSUME NEW t \in Threads, LockCheck(t) PROVE CallInv'
  BY <1>5 DEF LockCheck, MayLock, AlreadyLocked, Goto
<1>6. ASSUME NEW t \in Threads, LockBase(t) PROVE CallInv'
  BY <1>6 DEF LockBase, Goto, Unlocking
<1>7. ASSUME NEW t \in Threads, LockFlag(t) PROVE CallInv'
  BY <1>7 DEF LockFlag, Locks, Goto
<1>8. ASSUME NEW t \in Threads, UnlockAlready(t) PROVE CallInv'
  BY <1>8 DEF UnlockAlready, Unlocks
<1>9. ASSUME NEW t \in Threads, UnlockCheck(t) PROVE CallInv'
  BY <1>9 DEF UnlockCheck, Goto
<1>10. ASSUME NEW t \in Threads, UnlockBase(t) PROVE CallInv'
  BY <1>10 DEF UnlockBase, Goto
<1>11. ASSUME NEW t \in Threads, UnlockRefused(t) PROVE CallInv'
  BY <1>11 DEF UnlockRefused, Unlocks, Goto
<1>12. ASSUME NEW t \in Threads, UnlockFlag(t) PROVE CallInv'
  BY <1>12 DEF UnlockFlag, Unlocks, Goto
<1>13. CASE UNCHANGED vars
  BY <1>13 DEF vars
<1>14. QED
  BY <1>1, <1>2, <1>3, <1>4, <1>5, <1>6, <1>7, <1>8, <1>9, <1>10, <1>11, <1>12, <1>13 DEF Next, LockSteps, Unlock

\* Every step but the grant that crosses an unlock keeps flag and base together.
LEMMA AgreeStep == MutexInv /\ [Next]_vars => (~crossed => StaleInv /\ GrantInv /\ HeldInv)'
<1> SUFFICES ASSUME MutexInv, [Next]_vars PROVE (~crossed => StaleInv /\ GrantInv /\ HeldInv)'
  OBVIOUS
<1> USE ThreadsAssumption DEF MutexInv, TypeOK, CallInv, Inside, InCall, Quiet, Unlocking, Flag, Unset, Set, Other, PCs, StaleInv, GrantInv, HeldInv
<1>1. CASE Allocate
  BY <1>1 DEF Allocate
<1>2. CASE InitMutex
  BY <1>2 DEF InitMutex
<1>3. CASE DestroyMutex
  BY <1>3 DEF DestroyMutex, DestroyAllowed
<1>4. ASSUME NEW t \in Threads, LockAlready(t) PROVE (~crossed => StaleInv /\ GrantInv /\ HeldInv)'
  BY <1>4 DEF LockAlready, MayLock, AlreadyLocked, Locks
<1>5. ASSUME NEW t \in Threads, LockCheck(t) PROVE (~crossed => StaleInv /\ GrantInv /\ HeldInv)'
  BY <1>5 DEF LockCheck, MayLock, AlreadyLocked, Goto
<1>6. ASSUME NEW t \in Threads, LockBase(t) PROVE (~crossed => StaleInv /\ GrantInv /\ HeldInv)'
  BY <1>6 DEF LockBase, Goto, Unlocking
<1>7. ASSUME NEW t \in Threads, LockFlag(t) PROVE (~crossed => StaleInv /\ GrantInv /\ HeldInv)'
  BY <1>7 DEF LockFlag, Locks, Goto
<1>8. ASSUME NEW t \in Threads, UnlockAlready(t) PROVE (~crossed => StaleInv /\ GrantInv /\ HeldInv)'
  BY <1>8 DEF UnlockAlready, Unlocks
<1>9. ASSUME NEW t \in Threads, UnlockCheck(t) PROVE (~crossed => StaleInv /\ GrantInv /\ HeldInv)'
  BY <1>9 DEF UnlockCheck, Goto
<1>10. ASSUME NEW t \in Threads, UnlockBase(t) PROVE (~crossed => StaleInv /\ GrantInv /\ HeldInv)'
  BY <1>10 DEF UnlockBase, Goto
<1>11. ASSUME NEW t \in Threads, UnlockRefused(t) PROVE (~crossed => StaleInv /\ GrantInv /\ HeldInv)'
  BY <1>11 DEF UnlockRefused, Unlocks, Goto
<1>12. ASSUME NEW t \in Threads, UnlockFlag(t) PROVE (~crossed => StaleInv /\ GrantInv /\ HeldInv)'
  BY <1>12 DEF UnlockFlag, Unlocks, Goto
<1>13. CASE UNCHANGED vars
  BY <1>13 DEF vars
<1>14. QED
  BY <1>1, <1>2, <1>3, <1>4, <1>5, <1>6, <1>7, <1>8, <1>9, <1>10, <1>11, <1>12, <1>13 DEF Next, LockSteps, Unlock

\* MutexInv holds of every reachable state.
THEOREM MutexInvariant == Spec => []MutexInv
<1>1. Init => MutexInv
  <2> SUFFICES ASSUME Init PROVE MutexInv
    OBVIOUS
  <2>1. TypeOK
    BY DEF Init, TypeOK, PCs, Flag, Set
  <2>2. stale <=> locked = Set
    BY DEF Init
  <2>3. CallInv /\ StaleInv /\ GrantInv /\ HeldInv
    BY <2>2 DEF Init, CallInv, StaleInv, GrantInv, HeldInv, Unlocking, Inside, Other, Set
  <2>4. QED
    BY <2>1, <2>3 DEF MutexInv
<1>2. MutexInv /\ [Next]_vars => MutexInv'
  BY MutexTypes, CallStep, AgreeStep DEF MutexInv
<1>3. QED
  BY <1>1, <1>2, PTL DEF Spec

\* Between calls the flag tells whether base is held, until a lock is granted
\* base while an unlock is past its check.
THEOREM FlagCoherent == Spec => []FlagTellsBase
<1>1. MutexInv => FlagTellsBase
  <2> SUFFICES ASSUME MutexInv, Quiet, ~crossed
               PROVE  /\ locked = Set <=> owner # NoThread \/ stale
                      /\ owner # NoThread => Inside(owner) /\ ~stale
                      /\ ~made => owner = NoThread
    BY DEF FlagTellsBase
  <2>1. \A t \in Threads : pc[t] = "out"
    BY DEF Quiet, InCall
  <2>2. owner # NoThread => owner \in Threads
    BY DEF MutexInv, TypeOK
  <2>3. QED
    BY <2>1, <2>2 DEF MutexInv, CallInv, StaleInv, HeldInv
<1>2. QED
  BY <1>1, MutexInvariant, PTL
=============================================================================
