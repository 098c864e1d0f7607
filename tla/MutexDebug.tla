----------------------------- MODULE MutexDebug -----------------------------
(***************************************************************************)
(* The kernel mutex of the debug build (KDEBUG != 0), the default one:     *)
(* src/system/kernel/locks/lock.cpp, headers/private/kernel/lock.h.        *)
(*                                                                         *)
(* The mutex has a holder instead of a count, and every function runs as a *)
(* whole under gThreadSpinlock: the section before a thread sleeps and the *)
(* one after it are a step each.  The build panics, and stops, where it    *)
(* finds the mutex misused; LockPanics, UnlockPanics and DestroyPanics say *)
(* when, and NoPanic that correct callers never see it.                    *)
(***************************************************************************)
EXTENDS Integers, Sequences, ThreadBlock, WaiterQueue, MutexClients

CONSTANT TransferMutexes    \* the mutexes given away by mutex_transfer_lock()

VARIABLES
    holder,         \* mutex.holder; NoThread stands for -1
    waiters,        \* the queue mutex.waiters, first waiter first
    wait_status,    \* thread.wait.status
    pc,             \* "running", or "blocked" in a lock call on obj[t]
    obj,
    timed           \* the threads whose lock call has a timeout

vars == <<holder, waiters, destroyed, wait_status, pc, obj, timed, owned>>

TypeOK ==
    /\ holder \in [Mutexes -> Threads \cup {NoThread}]
    /\ waiters \in [Mutexes -> Seq(Threads)]
    /\ destroyed \subseteq Mutexes
    /\ wait_status \in [Threads -> WaitStatus]
    /\ pc \in [Threads -> {"running", "blocked"}]
    /\ obj \in [Threads -> Mutexes \cup {NoMutex}]
    /\ timed \subseteq Threads
    /\ owned \in [Threads -> SUBSET Mutexes]

Init ==
    /\ holder = [m \in Mutexes |-> NoThread]
    /\ waiters = [m \in Mutexes |-> <<>>]
    /\ destroyed = {}
    /\ wait_status = [t \in Threads |-> "B_OK"]
    /\ pc = [t \in Threads |-> "running"]
    /\ obj = [t \in Threads |-> NoMutex]
    /\ timed = {}
    /\ owned = [t \in Threads |-> {}]

-----------------------------------------------------------------------------

\* "double lock": the caller is the holder already.
LockPanics(t, m) == holder[m] = t

\* "thread is trying to release mutex (current holder ...)"
UnlockPanics(t, m) == holder[m] # t

\* "there are blocking threads, but caller doesn't hold the lock"
DestroyPanics(t, m) == waiters[m] # <<>> /\ holder[m] # t

\* Mutant: the holder is reset and the woken thread is to set it.
HandOverLater(m) == NoThread

\* lock->holder = waiter->thread->id, set by the unlocker already.
HandOver(m) == Head(waiters[m])

\* Mutant: without a waiter the holder is left as it is.
UnlockedHolderNotReset(m) ==
    [holder EXCEPT ![m] = IF waiters[m] # <<>> THEN HandOver(m) ELSE @]

\* _mutex_unlock(): how holder, waiters and wait_status change.
UnlockedHolder(m) ==
    [holder EXCEPT ![m] = IF waiters[m] # <<>> THEN HandOver(m) ELSE NoThread]

UnlockedWaiters(m) ==
    IF waiters[m] # <<>> THEN [waiters EXCEPT ![m] = Tail(@)] ELSE waiters

UnlockedStatus(m) ==
    IF waiters[m] # <<>>
    THEN thread_unblock_locked(wait_status, Head(waiters[m]), "B_OK")
    ELSE wait_status

\* lock->holder < 0
LockFree(h, m) == h[m] = NoThread

\* _mutex_lock(m) up to the wait, in a state whose holder, wait_status, ... are
\* h, ws, ...  (mutex_switch_lock() calls it after it has changed them).
LockSection(t, m, h, w, ws, own) ==
    \/ /\ LockFree(h, m)
       /\ holder' = [h EXCEPT ![m] = t]
       /\ owned' = [own EXCEPT ![t] = @ \cup {m}]
       /\ waiters' = w
       /\ wait_status' = ws
       /\ UNCHANGED <<pc, obj>>
    \/ /\ ~LockFree(h, m)
       /\ waiters' = [w EXCEPT ![m] = Append(@, t)]
       /\ wait_status' = thread_prepare_to_block(ws, t)
       /\ pc' = [pc EXCEPT ![t] = "blocked"]
       /\ obj' = [obj EXCEPT ![t] = m]
       /\ holder' = h
       /\ owned' = own

mutex_lock(t, m) ==
    /\ pc[t] = "running"
    /\ MayLock(t, m) /\ ~LockPanics(t, m)
    /\ timed' = timed \ {t}
    /\ LockSection(t, m, holder, waiters, wait_status, owned)
    /\ UNCHANGED destroyed

mutex_lock_with_timeout(t, m) ==
    /\ pc[t] = "running"
    /\ m \in TimedMutexes
    /\ MayLock(t, m) /\ ~LockPanics(t, m)
    /\ timed' = timed \cup {t}
    /\ LockSection(t, m, holder, waiters, wait_status, owned)
    /\ UNCHANGED destroyed

mutex_trylock(t, m) ==
    /\ pc[t] = "running"
    /\ MayTryLock(t, m)
    /\ LockFree(holder, m)
    /\ holder' = [holder EXCEPT ![m] = t]
    /\ owned' = [owned EXCEPT ![t] = @ \cup {m}]
    /\ UNCHANGED <<waiters, destroyed, wait_status, pc, obj, timed>>

\* _mutex_lock() and _mutex_lock_with_timeout() after the wait.
mutex_lock_return(t) ==
    LET m == obj[t] IN
    /\ pc[t] = "blocked"
    /\ ~thread_is_blocked(wait_status, t)
    /\ pc' = [pc EXCEPT ![t] = "running"]
    /\ \/ /\ wait_status[t] = "B_OK"
          /\ holder' = [holder EXCEPT ![m] = t]
          /\ owned' = [owned EXCEPT ![t] = @ \cup {m}]
          /\ UNCHANGED waiters
       \/ /\ wait_status[t] # "B_OK"
          /\ waiters' =
                IF t \in timed /\ InQueue(waiters[m], t)
                THEN [waiters EXCEPT ![m] = Dequeue(@, t)]
                ELSE waiters
          /\ UNCHANGED <<holder, owned>>
    /\ UNCHANGED <<destroyed, wait_status, obj, timed>>

\* The timer interrupt, with the thread lock held.
thread_block_timeout(t) ==
    /\ pc[t] = "blocked"
    /\ t \in timed
    /\ thread_is_blocked(wait_status, t)
    /\ wait_status' = thread_unblock_locked(wait_status, t, "B_TIMED_OUT")
    /\ UNCHANGED <<holder, waiters, destroyed, pc, obj, timed, owned>>

mutex_unlock(t, m) ==
    /\ pc[t] = "running"
    /\ m \in owned[t] /\ ~UnlockPanics(t, m)
    /\ owned' = [owned EXCEPT ![t] = @ \ {m}]
    /\ holder' = UnlockedHolder(m)
    /\ waiters' = UnlockedWaiters(m)
    /\ wait_status' = UnlockedStatus(m)
    /\ UNCHANGED <<destroyed, pc, obj, timed>>

mutex_switch_lock(t, from, to) ==
    /\ pc[t] = "running"
    /\ MaySwitch(t, from, to)
    /\ ~UnlockPanics(t, from) /\ ~LockPanics(t, to)
    /\ timed' = timed \ {t}
    /\ LockSection(t, to, UnlockedHolder(from), UnlockedWaiters(from),
                   UnlockedStatus(from), [owned EXCEPT ![t] = @ \ {from}])
    /\ UNCHANGED destroyed

\* The owner gives the mutex to another thread, which is to unlock it (BFS
\* does so with a thread it has just created).
mutex_transfer_lock(t, m, u) ==
    /\ pc[t] = "running"
    /\ m \in TransferMutexes
    /\ owned[t] = {m}
    /\ u # t
    /\ pc[u] = "running"
    /\ owned[u] = {}
    /\ holder' = [holder EXCEPT ![m] = u]
    /\ owned' = [owned EXCEPT ![t] = {}, ![u] = {m}]
    /\ UNCHANGED <<waiters, destroyed, wait_status, pc, obj, timed>>

mutex_destroy(t, m) ==
    /\ pc[t] = "running"
    /\ MayDestroy(t, m) /\ ~DestroyPanics(t, m)
    /\ wait_status' =
          thread_unblock_each(wait_status,
                              {u \in Threads : InQueue(waiters[m], u)},
                              "B_ERROR")
    /\ waiters' = [waiters EXCEPT ![m] = <<>>]
    /\ destroyed' = destroyed \cup {m}
    /\ owned' = [owned EXCEPT ![t] = @ \ {m}]
    /\ UNCHANGED <<holder, pc, obj, timed>>

Next ==
    \E t \in Threads :
        \/ mutex_lock_return(t)
        \/ thread_block_timeout(t)
        \/ \E m \in Mutexes :
              \/ mutex_lock(t, m)
              \/ mutex_lock_with_timeout(t, m)
              \/ mutex_trylock(t, m)
              \/ mutex_unlock(t, m)
              \/ mutex_destroy(t, m)
              \/ \E from \in Mutexes : mutex_switch_lock(t, from, m)
              \/ \E u \in Threads : mutex_transfer_lock(t, m, u)

Spec == Init /\ [][Next]_vars

-----------------------------------------------------------------------------
(***************************************************************************)
(* Properties.                                                             *)
(***************************************************************************)

\* The owners of m: the threads whose lock call returned B_OK, and the one
\* that has been woken with B_OK and will return it.
Owners(m) ==
    {t \in Threads : \/ m \in owned[t]
                     \/ /\ pc[t] = "blocked"
                        /\ obj[t] = m
                        /\ wait_status[t] = "B_OK"}

\* No correct caller runs into a panic() of lock.cpp: an owner is the holder
\* when it unlocks or destroys the mutex, and nobody is taken for the holder
\* who asks for the mutex.  (Where no timeouts are used.)
NoPanic ==
    \A t \in Threads, m \in Mutexes \ TimedMutexes : pc[t] = "running" =>
        /\ m \in owned[t] => ~UnlockPanics(t, m)
        /\ MayLock(t, m) => ~LockPanics(t, m)
        /\ MayDestroy(t, m) => ~DestroyPanics(t, m)

\* The thread m names as its holder owns it, or has not returned from its lock
\* call.
HolderOwns(m) ==
    LET h == holder[m] IN
    h # NoThread => m \in owned[h] \/ (pc[h] = "blocked" /\ obj[h] = m)

\* The holder "reflects the current situation" (_mutex_unlock()), with and
\* without timeouts.
HolderReflectsOwner == \A m \in Mutexes \ destroyed : HolderOwns(m)

\* ASSERT_LOCKED_MUTEX(): an owner is always the holder the mutex records, with
\* timeouts, too; so there is one owner at most, and its unlock never panics.  And
\* where no timeouts are used, the holder owns the mutex: it is never left to a
\* thread that has gone.
HolderInv ==
    /\ \A m \in Mutexes \ destroyed : Owners(m) \subseteq {holder[m]}
    /\ \A m \in Mutexes \ (destroyed \cup TimedMutexes) : HolderOwns(m)

=============================================================================
