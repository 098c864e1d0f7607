---------------------------- MODULE MutexClients ----------------------------
(***************************************************************************)
(* How the kernel calls the mutex functions: what a caller owns, and which *)
(* calls it may make then.  Shared by the modules of the two builds.       *)
(***************************************************************************)
EXTENDS FiniteSets

CONSTANTS
    Threads,
    Mutexes,
    NoThread,
    NoMutex,
    Guard,          \* Guard[m]: the mutex that guards the object m belongs to
    TimedMutexes    \* the mutexes callers lock with mutex_lock_with_timeout()

ASSUME ThreadsAssumption == IsFiniteSet(Threads) /\ NoThread \notin Threads

ASSUME GuardAssumption ==
    /\ NoMutex \notin Mutexes
    /\ Guard \in [Mutexes -> Mutexes \cup {NoMutex}]
    /\ \A m \in Mutexes : Guard[m] # m
    /\ TimedMutexes \subseteq Mutexes

VARIABLES
    owned,          \* owned[t]: the mutexes whose lock call returned B_OK to t
    destroyed       \* the mutexes mutex_destroy() was called for

-----------------------------------------------------------------------------
(***************************************************************************)
(* The callers.  A mutex without a guard is a global one: it is never      *)
(* destroyed.  A guarded mutex belongs to an object that can only be found *)
(* (and destroyed) while its guard is held, as the VMCache locks are       *)
(* guarded by sCacheListLock (vm/VMCache.cpp): it is entered by            *)
(* mutex_trylock() under the guard or by mutex_switch_lock() from the      *)
(* guard; the guard may be locked while guarded mutexes are held.          *)
(***************************************************************************)
MayLock(t, m) ==
    /\ Guard[m] = NoMutex
    /\ \A h \in owned[t] : Guard[h] = m

MayTryLock(t, m) ==
    /\ m \notin destroyed
    /\ m \notin owned[t]
    /\ IF Guard[m] = NoMutex THEN TRUE ELSE Guard[m] \in owned[t]

MaySwitch(t, from, to) ==
    /\ Guard[to] = from
    /\ to \notin destroyed
    /\ owned[t] = {from}

MayDestroy(t, m) ==
    /\ Guard[m] # NoMutex
    /\ {m, Guard[m]} \subseteq owned[t]

=============================================================================
