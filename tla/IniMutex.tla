------------------------------ MODULE IniMutex ------------------------------
(***************************************************************************)
(* One ini_mutex_t of src/ini_mutex.c: a pthread mutex (base, of type      *)
(* NORMAL) beside two plain ints.  ini_mutex_lock and ini_mutex_unlock     *)
(* read the locked flag before they touch base and write it after, without *)
(* synchronisation, so each is three steps that other threads interleave   *)
(* with.  Init and Destroy are whole calls: their callers own the storage, *)
(* and no lock or unlock may be under way.  What pthread_mutex_init may    *)
(* fail at changes nothing, and its fellows do not fail for this type.     *)
(*                                                                         *)
(* The storage is zeroed, or comes from malloc, as in ini_ht_create and    *)
(* ini_create_context: then ini_mutex_init reads an int nobody has set,    *)
(* and the first ini_mutex_lock another.                                   *)
(***************************************************************************)
EXTENDS Naturals

CONSTANTS Threads, NoThread,
          MaxDepth,     \* how many times a thread locks before it unlocks
          Storage       \* where mutexes are made: "zeroed", "malloc", or either

ASSUME ThreadsAssumption == NoThread \notin Threads
ASSUME DepthAssumption == MaxDepth \in Nat \ {0}
ASSUME StorageAssumption == Storage \subseteq {"zeroed", "malloc"} /\ Storage # {}

VARIABLES
  owner,        \* the thread that has base, or NoThread
  initialized,  \* mutex->initialized
  locked,       \* mutex->locked
  made,         \* ini_mutex_init has returned success
  stale,        \* history: locked says LOCKED by chance, as malloc left it
  crossed,      \* history: base was granted while an unlock was past its check
  pc,           \* where each thread is
  depth         \* calls of lock that returned, less calls of unlock

vars == <<owner, initialized, locked, made, stale, crossed, pc, depth>>

\* The values of both ints: INI_MUTEX_NOT_INITIALIZED and INI_MUTEX_UNLOCKED,
\* INI_MUTEX_INITIALIZED and INI_MUTEX_LOCKED, and all the others.
Unset == 0
Set == 1
Other == 2
Flag == {Unset, Set, Other}

\* The ints in new storage.
Left(i, l) ==
  \/ "zeroed" \in Storage /\ i = Unset /\ l = Unset
  \/ "malloc" \in Storage /\ i \in Flag /\ l \in Flag

Init ==
  /\ owner = NoThread
  /\ initialized \in Flag /\ locked \in Flag /\ Left(initialized, locked)
  /\ made = FALSE
  /\ stale = (locked = Set)
  /\ crossed = FALSE
  /\ pc = [t \in Threads |-> "out"]
  /\ depth = [t \in Threads |-> 0]

Inside(t) == depth[t] > 0
InCall(t) == pc[t] # "out"
Quiet == \A t \in Threads : ~InCall(t)

Goto(t, l) == pc' = [pc EXCEPT ![t] = l]
Locks(t) == depth' = [depth EXCEPT ![t] = @ + 1]
Unlocks(t) == depth' = [depth EXCEPT ![t] = @ - 1]

\* The storage is freed, whatever ini_mutex_destroy has said (ini_ht_destroy and
\* ini_free do not ask) or ini_mutex_init (the callers give up), and the next is
\* allocated.
Allocate ==
  /\ Quiet /\ \A t \in Threads : ~Inside(t)
  /\ owner' = NoThread
  /\ initialized' \in Flag /\ locked' \in Flag /\ Left(initialized', locked')
  /\ made' = FALSE
  /\ stale' = (locked' = Set)
  /\ crossed' = FALSE
  /\ UNCHANGED <<pc, depth>>

\* ini_mutex_init; nothing happens when pthread_mutex_init fails, or when the
\* mutex is, or happens to look, initialised.  The locked flag is not reset.
InitMutex ==
  /\ Quiet
  /\ initialized # Set
  /\ initialized' = Set
  /\ made' = TRUE
  /\ owner' = NoThread
  /\ UNCHANGED <<locked, stale, crossed, pc, depth>>

DestroyAllowed_Unchecked == initialized # Unset
\* A mutex whose flag is set is not destroyed.
DestroyAllowed == initialized # Unset /\ locked # Set

\* ini_mutex_destroy; nothing happens when pthread_mutex_destroy refuses a base
\* that is held, which it need not.
DestroyMutex ==
  /\ Quiet
  /\ made /\ DestroyAllowed
  /\ initialized' = Unset
  /\ made' = FALSE
  /\ owner' = NoThread
  /\ UNCHANGED <<locked, stale, crossed, pc, depth>>

AlreadyLocked_Unchecked == FALSE
\* What ini_mutex_lock asks before it touches base.
AlreadyLocked == locked = Set

\* Callers lock what ini_mutex_init has made; others get an error.
MayLock(t) == ~InCall(t) /\ depth[t] < MaxDepth /\ made /\ initialized # Unset

\* ini_mutex_lock finds the flag set and reports success at once.
LockAlready(t) ==
  /\ MayLock(t) /\ AlreadyLocked
  /\ Locks(t)
  /\ UNCHANGED <<owner, initialized, locked, made, stale, crossed, pc>>

LockCheck(t) ==
  /\ MayLock(t) /\ ~AlreadyLocked
  /\ Goto(t, "lockBase")
  /\ UNCHANGED <<owner, initialized, locked, made, stale, crossed, depth>>

Unlocking(t) == pc[t] \in {"unlockBase", "unlockFlag"}

\* pthread_mutex_lock: waits for base.
LockBase(t) ==
  /\ pc[t] = "lockBase"
  /\ owner = NoThread
  /\ owner' = t
  /\ crossed' = (crossed \/ \E u \in Threads : Unlocking(u))
  /\ Goto(t, "lockFlag")
  /\ UNCHANGED <<initialized, locked, made, stale, depth>>

LockFlag(t) ==
  /\ pc[t] = "lockFlag"
  /\ locked' = Set
  /\ stale' = FALSE
  /\ Locks(t)
  /\ Goto(t, "out")
  /\ UNCHANGED <<owner, initialized, made, crossed>>

\* ini_mutex_unlock finds the flag clear and reports success at once, or the
\* mutex destroyed and reports an error.
UnlockAlready(t) ==
  /\ ~InCall(t) /\ Inside(t)
  /\ initialized = Unset \/ locked = Unset
  /\ Unlocks(t)
  /\ UNCHANGED <<owner, initialized, locked, made, stale, crossed, pc>>

UnlockCheck(t) ==
  /\ ~InCall(t) /\ Inside(t)
  /\ initialized # Unset /\ locked # Unset
  /\ Goto(t, "unlockBase")
  /\ UNCHANGED <<owner, initialized, locked, made, stale, crossed, depth>>

\* pthread_mutex_unlock releases base.  It is undefined what it does for a thread
\* that has not got base: it may release it from whoever has, or refuse.
UnlockBase(t) ==
  /\ pc[t] = "unlockBase"
  /\ owner' = NoThread
  /\ Goto(t, "unlockFlag")
  /\ UNCHANGED <<initialized, locked, made, stale, crossed, depth>>

\* ini_mutex_unlock then returns an error, and the flag stays as it is.
UnlockRefused(t) ==
  /\ pc[t] = "unlockBase" /\ owner # t
  /\ Unlocks(t)
  /\ Goto(t, "out")
  /\ UNCHANGED <<owner, initialized, locked, made, stale, crossed>>

UnlockFlag(t) ==
  /\ pc[t] = "unlockFlag"
  /\ locked' = Unset
  /\ stale' = FALSE
  /\ Unlocks(t)
  /\ Goto(t, "out")
  /\ UNCHANGED <<owner, initialized, made, crossed>>

LockSteps(t) == LockBase(t) \/ LockFlag(t)
Unlock(t) ==
  UnlockAlready(t) \/ UnlockCheck(t) \/ UnlockBase(t) \/ UnlockRefused(t) \/ UnlockFlag(t)

Next ==
  \/ Allocate \/ InitMutex \/ DestroyMutex
  \/ \E t \in Threads : LockAlready(t) \/ LockCheck(t) \/ LockSteps(t) \/ Unlock(t)

Spec == Init /\ [][Next]_vars

\* A thread in a call goes on, one that has the lock unlocks it in the end,
\* and a thread waiting for base gets it if it comes free again and again.
Fairness ==
  \A t \in Threads :
    /\ SF_vars(LockBase(t))
    /\ WF_vars(LockFlag(t))
    /\ WF_vars(Unlock(t))

FairSpec == Spec /\ Fairness

-----------------------------------------------------------------------------
(* Properties *)

PCs == {"out", "lockBase", "lockFlag", "unlockBase", "unlockFlag"}

\* Every variable has its type; a mutex that was made looks it.
TypeOK ==
  /\ owner \in Threads \cup {NoThread}
  /\ initialized \in Flag
  /\ locked \in Flag
  /\ made \in BOOLEAN
  /\ stale \in BOOLEAN
  /\ crossed \in BOOLEAN
  /\ pc \in [Threads -> PCs]
  /\ depth \in [Threads -> Nat]
  /\ made => initialized = Set

\* The flag and base come apart in one way only: a lock that was past its check
\* is granted base while an unlock is between its own check and its clearing
\* of the flag.  Until then, whenever no call is under way, the flag says whether
\* base is held, and by a thread that locked the mutex and has not unlocked it as
\* often, however calls have overlapped, whoever has unlocked, and whatever
\* pthread_mutex_unlock did for those who had not got base.  A mutex that is not
\* made is neither held nor flagged, so that ini_mutex_init, which leaves the flag
\* alone, makes an unlocked one.  The worst that malloc can leave is a flag that
\* says LOCKED of a free mutex until it is first unlocked.
FlagTellsBase ==
  Quiet /\ ~crossed =>
    /\ locked = Set <=> owner # NoThread \/ stale
    /\ owner # NoThread => Inside(owner) /\ ~stale
    /\ ~made => owner = NoThread

\* Until then, too, a call of ini_mutex_lock that waits for base gets it: the
\* thread that has base will find the flag set when it unlocks, and nobody
\* waits for himself when he locks again.
LockGranted == \A t \in Threads : pc[t] = "lockBase" ~> pc[t] # "lockBase" \/ crossed

\* A call of ini_mutex_lock that waits for base gets it.
LockReturns == \A t \in Threads : pc[t] = "lockBase" ~> pc[t] # "lockBase"

\* ini_mutex.h:80: "Blocks until the mutex is available."
MutualExclusion == \A t, u \in Threads : Inside(t) /\ Inside(u) => t = u
=============================================================================
