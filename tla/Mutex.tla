------------------------------- MODULE Mutex -------------------------------
(***************************************************************************)
(* The kernel mutex of the release build (KDEBUG == 0):                    *)
(* src/system/kernel/locks/lock.cpp, headers/private/kernel/lock.h.        *)
(*                                                                         *)
(* count starts at 0 and is changed by atomic_add() without any lock.      *)
(* A caller that finds the mutex contended continues in a slow path that   *)
(* runs under gThreadSpinlock.  Between the atomic_add() and the spinlock  *)
(* any other thread may run, so an inline function and its slow path are   *)
(* two steps here.  A section that runs under the spinlock is one step;    *)
(* mutex_switch_lock(), which changes two counts under the spinlock while  *)
(* others may still change them without it, is two steps and keeps the     *)
(* spinlock (variable spin) from the first to the second.                  *)
(***************************************************************************)
EXTENDS Integers, Sequences, ThreadBlock, WaiterQueue, MutexClients

VARIABLES
    count,                  \* mutex.count
    ignore_unlock_count,    \* mutex.ignore_unlock_count
    released,               \* the mutexes whose flags have MUTEX_FLAG_RELEASED
    waiters,                \* the queue mutex.waiters, first waiter first
    wait_status,            \* thread.wait.status
    pc,                     \* where the thread is
    obj,                    \* the mutex a thread that is not "running" works on
    timed,                  \* the threads whose lock call has a timeout
    spin                    \* who keeps gThreadSpinlock between two steps

mutexVars  == <<count, ignore_unlock_count, released, waiters, destroyed>>
threadVars == <<wait_status, pc, obj, timed, owned>>
vars == <<mutexVars, threadVars, spin>>

\* "lock": before the spinlock of _mutex_lock(); "blocked": in it, waiting;
\* "unlock": before the spinlock of _mutex_unlock(); "switch": inside
\* mutex_switch_lock(), from is unlocked, to is not locked yet.
PC == {"running", "lock", "blocked", "unlock", "switch"}

TypeOK ==
    /\ count \in [Mutexes -> Int]
    /\ ignore_unlock_count \in [Mutexes -> Nat]
    /\ released \subseteq Mutexes
    /\ waiters \in [Mutexes -> Seq(Threads)]
    /\ destroyed \subseteq Mutexes
    /\ wait_status \in [Threads -> WaitStatus]
    /\ pc \in [Threads -> PC]
    /\ obj \in [Threads -> Mutexes \cup {NoMutex}]
    /\ timed \subseteq Threads
    /\ owned \in [Threads -> SUBSET Mutexes]
    /\ spin \in Threads \cup {NoThread}

\* mutex_init() of every mutex.
Init ==
    /\ count = [m \in Mutexes |-> 0]
    /\ ignore_unlock_count = [m \in Mutexes |-> 0]
    /\ released = {}
    /\ waiters = [m \in Mutexes |-> <<>>]
    /\ destroyed = {}
    /\ wait_status = [t \in Threads |-> "B_OK"]
    /\ pc = [t \in Threads |-> "running"]
    /\ obj = [t \in Threads |-> NoMutex]
    /\ timed = {}
    /\ owned = [t \in Threads |-> {}]
    /\ spin = NoThread

-----------------------------------------------------------------------------
(***************************************************************************)
(* Reaching the slow paths, and the pieces the mutants change.             *)
(***************************************************************************)

\* if (atomic_add(&lock->count, -1) < 0)
LockContended(oldCount) == oldCount < 0

\* if (atomic_add(&lock->count, 1) < -1)
UnlockContendedMutant(oldCount) == oldCount < -2
UnlockContended(oldCount) == oldCount < -1

Queued(t, m) == InQueue(waiters[m], t)

SpinlockFree == spin = NoThread

\* The lock call of t on m returns B_OK.
ReturnLocked(t, m) ==
    /\ owned' = [owned EXCEPT ![t] = @ \cup {m}]
    /\ pc' = [pc EXCEPT ![t] = "running"]

-----------------------------------------------------------------------------

\* The body of _mutex_lock() and _mutex_lock_with_timeout() under the spinlock,
\* up to the point where the thread either has the mutex or sleeps.
LockSlowPath(t, m) ==
    \/ /\ m \in released
       /\ released' = released \ {m}
       /\ ReturnLocked(t, m)
       /\ UNCHANGED <<waiters, wait_status>>
    \/ /\ m \notin released
       /\ waiters' = [waiters EXCEPT ![m] = Append(@, t)]
       /\ wait_status' = thread_prepare_to_block(wait_status, t)
       /\ pc' = [pc EXCEPT ![t] = "blocked"]
       /\ UNCHANGED <<released, owned>>

\* Mutant: the unlocker hands the mutex over although it is to be ignored.
UnlockSlowPathNoIgnore(m) ==
    \/ /\ waiters[m] # <<>>
       /\ waiters' = [waiters EXCEPT ![m] = Tail(@)]
       /\ wait_status' =
              thread_unblock_locked(wait_status, Head(waiters[m]), "B_OK")
       /\ UNCHANGED <<ignore_unlock_count, released>>
    \/ /\ waiters[m] = <<>>
       /\ released' = released \cup {m}
       /\ UNCHANGED <<ignore_unlock_count, waiters, wait_status>>

\* Mutant: without a waiter nothing is recorded for the locker on its way.
UnlockSlowPathNoRelease(m) ==
    /\ IF waiters[m] # <<>>
         THEN /\ waiters' = [waiters EXCEPT ![m] = Tail(@)]
              /\ wait_status' =
                    thread_unblock_locked(wait_status, Head(waiters[m]), "B_OK")
         ELSE UNCHANGED <<waiters, wait_status>>
    /\ UNCHANGED <<ignore_unlock_count, released>>

\* Mutant: ignore_unlock_count is decremented in any case.
UnlockSlowPathIgnoreMore(m) ==
    /\ ignore_unlock_count' = [ignore_unlock_count EXCEPT ![m] = @ - 1]
    /\ UNCHANGED <<released, waiters, wait_status>>

\* Mutant: the last waiter is dequeued instead of the first one.
UnlockSlowPathLast(m) ==
    \/ /\ waiters[m] # <<>>
       /\ waiters' = [waiters EXCEPT ![m] = SubSeq(@, 1, Len(@) - 1)]
       /\ wait_status' =
              thread_unblock_locked(wait_status, waiters[m][Len(waiters[m])],
                                    "B_OK")
       /\ UNCHANGED <<ignore_unlock_count, released>>
    \/ /\ waiters[m] = <<>>
       /\ released' = released \cup {m}
       /\ UNCHANGED <<ignore_unlock_count, waiters, wait_status>>

\* The body of _mutex_unlock() under the spinlock.
UnlockSlowPath(m) ==
    \/ /\ ignore_unlock_count[m] > 0
       /\ ignore_unlock_count' = [ignore_unlock_count EXCEPT ![m] = @ - 1]
       /\ UNCHANGED <<released, waiters, wait_status>>
    \/ /\ ignore_unlock_count[m] = 0
       /\ waiters[m] # <<>>
       /\ waiters' = [waiters EXCEPT ![m] = Tail(@)]
       /\ wait_status' =
              thread_unblock_locked(wait_status, Head(waiters[m]), "B_OK")
       /\ UNCHANGED <<ignore_unlock_count, released>>
    \/ /\ ignore_unlock_count[m] = 0
       /\ waiters[m] = <<>>
       /\ released' = released \cup {m}
       /\ UNCHANGED <<ignore_unlock_count, waiters, wait_status>>

-----------------------------------------------------------------------------
(***************************************************************************)
(* The operations.                                                         *)
(***************************************************************************)

\* The inline part of mutex_lock() and mutex_lock_with_timeout(); newTimed is
\* the set of threads whose lock call has a timeout from then on.
LockFastPath(t, m, newTimed) ==
    /\ pc[t] = "running"
    /\ MayLock(t, m)
    /\ count' = [count EXCEPT ![m] = @ - 1]
    /\ \/ /\ ~LockContended(count[m])
          /\ ReturnLocked(t, m)
          /\ UNCHANGED <<obj, timed>>
       \/ /\ LockContended(count[m])
          /\ pc' = [pc EXCEPT ![t] = "lock"]
          /\ obj' = [obj EXCEPT ![t] = m]
          /\ timed' = newTimed
          /\ UNCHANGED owned
    /\ UNCHANGED <<ignore_unlock_count, released, waiters, destroyed,
                   wait_status, spin>>

mutex_lock(t, m) == LockFastPath(t, m, timed \ {t})

mutex_lock_with_timeout(t, m) ==
    /\ m \in TimedMutexes
    /\ LockFastPath(t, m, timed \cup {t})

\* mutex_trylock(); a failing call changes nothing.
mutex_trylock(t, m) ==
    /\ pc[t] = "running"
    /\ MayTryLock(t, m)
    /\ count[m] = 0
    /\ count' = [count EXCEPT ![m] = -1]
    /\ ReturnLocked(t, m)
    /\ UNCHANGED <<ignore_unlock_count, released, waiters, destroyed,
                   wait_status, obj, timed, spin>>

\* _mutex_lock() and _mutex_lock_with_timeout(), up to the wait.
mutex_lock_slow(t) ==
    /\ pc[t] = "lock"
    /\ SpinlockFree
    /\ LockSlowPath(t, obj[t])
    /\ UNCHANGED <<count, ignore_unlock_count, destroyed, obj, timed, spin>>

\* The rest of _mutex_lock(), and of _mutex_lock_with_timeout() on B_OK.
mutex_lock_return(t) ==
    /\ pc[t] = "blocked"
    /\ SpinlockFree
    /\ ~thread_is_blocked(wait_status, t)
    /\ \/ /\ wait_status[t] = "B_OK"
          /\ ReturnLocked(t, obj[t])
       \/ /\ wait_status[t] # "B_OK"
          /\ t \notin timed
          /\ pc' = [pc EXCEPT ![t] = "running"]
          /\ UNCHANGED owned
    /\ UNCHANGED <<mutexVars, wait_status, obj, timed, spin>>

\* Mutant: the count is fixed, the pending unlock is not marked as ignored.
FixCountNoIgnore(m) ==
    /\ count' = [count EXCEPT ![m] = @ + 1]
    /\ UNCHANGED ignore_unlock_count

\* The timed out waiter takes back its decrement of the count.  If it was the
\* only one left, an unlocker is on its way to the slow path and is to find
\* nothing to do there.
FixCount(m) ==
    /\ count' = [count EXCEPT ![m] = @ + 1]
    /\ \/ /\ count[m] = -1
          /\ ignore_unlock_count' = [ignore_unlock_count EXCEPT ![m] = @ + 1]
       \/ /\ count[m] # -1
          /\ UNCHANGED ignore_unlock_count

\* The rest of _mutex_lock_with_timeout() when the wait failed.
mutex_lock_timed_out(t) ==
    LET m == obj[t] IN
    /\ pc[t] = "blocked"
    /\ SpinlockFree
    /\ t \in timed
    /\ wait_status[t] \notin {"waiting", "B_OK"}
    /\ \/ /\ Queued(t, m)
          /\ waiters' = [waiters EXCEPT ![m] = Dequeue(@, t)]
          /\ FixCount(m)
       \/ /\ ~Queued(t, m)
          /\ UNCHANGED <<waiters, count, ignore_unlock_count>>
    /\ pc' = [pc EXCEPT ![t] = "running"]
    /\ UNCHANGED <<released, destroyed, wait_status, obj, timed, owned, spin>>

\* thread_block_timeout(): the timer interrupt, with the thread lock held.
thread_block_timeout(t) ==
    /\ pc[t] = "blocked"
    /\ t \in timed
    /\ thread_is_blocked(wait_status, t)
    /\ SpinlockFree
    /\ wait_status' = thread_unblock_locked(wait_status, t, "B_TIMED_OUT")
    /\ UNCHANGED <<mutexVars, pc, obj, timed, owned, spin>>

mutex_unlock(t, m) ==
    /\ pc[t] = "running"
    /\ m \in owned[t]
    /\ count' = [count EXCEPT ![m] = @ + 1]
    /\ owned' = [owned EXCEPT ![t] = @ \ {m}]
    /\ \/ /\ ~UnlockContended(count[m])
          /\ UNCHANGED <<pc, obj>>
       \/ /\ UnlockContended(count[m])
          /\ pc' = [pc EXCEPT ![t] = "unlock"]
          /\ obj' = [obj EXCEPT ![t] = m]
    /\ UNCHANGED <<ignore_unlock_count, released, waiters, destroyed,
                   wait_status, timed, spin>>

\* _mutex_unlock(lock, false)
mutex_unlock_slow(t) ==
    /\ pc[t] = "unlock"
    /\ SpinlockFree
    /\ UnlockSlowPath(obj[t])
    /\ pc' = [pc EXCEPT ![t] = "running"]
    /\ UNCHANGED <<count, destroyed, obj, timed, owned, spin>>

\* Mutant: the spinlock is not kept between the two halves of the switch.
SwitchSpinlockNotKept(t) == UNCHANGED spin
SwitchSpinlock(t) == spin' = t

\* mutex_switch_lock(), first half: acquire gThreadSpinlock, unlock from.
mutex_switch_unlock(t, from, to) ==
    /\ pc[t] = "running"
    /\ MaySwitch(t, from, to)
    /\ SpinlockFree
    /\ SwitchSpinlock(t)
    /\ count' = [count EXCEPT ![from] = @ + 1]
    /\ owned' = [owned EXCEPT ![t] = @ \ {from}]
    /\ \/ /\ ~UnlockContended(count[from])
          /\ UNCHANGED <<ignore_unlock_count, released, waiters, wait_status>>
       \/ /\ UnlockContended(count[from])
          /\ UnlockSlowPath(from)
    /\ pc' = [pc EXCEPT ![t] = "switch"]
    /\ obj' = [obj EXCEPT ![t] = to]
    /\ timed' = timed \ {t}
    /\ UNCHANGED destroyed

\* mutex_switch_lock(), second half: mutex_lock_threads_locked(to).  The
\* spinlock is released on return or, when the thread sleeps, by the switch
\* to another thread.
mutex_switch_lock(t) ==
    LET to == obj[t] IN
    /\ pc[t] = "switch"
    /\ count' = [count EXCEPT ![to] = @ - 1]
    /\ \/ /\ ~LockContended(count[to])
          /\ ReturnLocked(t, to)
          /\ UNCHANGED <<released, waiters, wait_status>>
       \/ /\ LockContended(count[to])
          /\ LockSlowPath(t, to)
    /\ spin' = NoThread
    /\ UNCHANGED <<ignore_unlock_count, destroyed, obj, timed>>

DestroyWakes(m) ==
    wait_status' =
        thread_unblock_each(wait_status, {t \in Threads : Queued(t, m)},
                            "B_ERROR")

mutex_destroy(t, m) ==
    /\ pc[t] = "running"
    /\ MayDestroy(t, m)
    /\ SpinlockFree
    /\ DestroyWakes(m)
    /\ waiters' = [waiters EXCEPT ![m] = <<>>]
    /\ destroyed' = destroyed \cup {m}
    /\ owned' = [owned EXCEPT ![t] = @ \ {m}]
    /\ UNCHANGED <<count, ignore_unlock_count, released, pc, obj, timed, spin>>

ThreadStep(t) ==
    \/ mutex_lock_slow(t)
    \/ mutex_lock_return(t)
    \/ mutex_lock_timed_out(t)
    \/ mutex_unlock_slow(t)
    \/ mutex_switch_lock(t)

Next ==
    \E t \in Threads :
        \/ ThreadStep(t)
        \/ thread_block_timeout(t)
        \/ \E m \in Mutexes :
              \/ mutex_lock(t, m)
              \/ mutex_lock_with_timeout(t, m)
              \/ mutex_trylock(t, m)
              \/ mutex_unlock(t, m)
              \/ mutex_destroy(t, m)
              \/ \E from \in Mutexes : mutex_switch_unlock(t, from, m)

Spec == Init /\ [][Next]_vars

\* A thread inside the lock code keeps running, and if it spins for the
\* spinlock, it gets it some day though other CPUs take it, too.
FairSpec == Spec /\ \A t \in Threads : SF_vars(ThreadStep(t))

-----------------------------------------------------------------------------
(***************************************************************************)
(* Properties.                                                             *)
(***************************************************************************)

\* The owners of m: the threads whose lock call returned B_OK, and the one
\* that has been woken with B_OK and will return it.
Owners(m) ==
    {t \in Threads : \/ m \in owned[t]
                     \/ /\ pc[t] = "blocked"
                        /\ obj[t] = m
                        /\ wait_status[t] = "B_OK"}

\* The threads that will run the slow path of the unlock.
Unlockers(m) == {t \in Threads : pc[t] = "unlock" /\ obj[t] = m}

\* The threads on their way into m: before the slow path, or queued.
Lockers(m) ==
    {t \in Threads : /\ obj[t] = m
                     /\ \/ pc[t] = "lock"
                        \/ pc[t] = "blocked" /\ Queued(t, m)}

\* Those who have decremented the count and not incremented it again.
Engaged(m) == Owners(m) \cup Lockers(m)

\* How often the right to own m exists: in the hands of an owner, of an
\* unlocker who will pass it on, or in MUTEX_FLAG_RELEASED.  Unlockers that are
\* going to be ignored carry nothing.
Token(m) ==
    Cardinality(Owners(m)) + Cardinality(Unlockers(m))
        + (IF m \in released THEN 1 ELSE 0) - ignore_unlock_count[m]

\* At most one thread owns a mutex, however the inline functions, the slow
\* paths, timeouts and switches of several threads interleave.
MutualExclusion ==
    \A m \in Mutexes \ destroyed : Cardinality(Owners(m)) <= 1

\* While somebody has asked for the mutex and not got it, exactly one right to
\* own it exists: no unlock is lost between the atomic_add() of a locker and
\* its entry in the queue, and none is counted twice.  (Of the mutexes nobody
\* locks with a timeout.)
NoLostMutex ==
    \A m \in Mutexes \ (destroyed \cup TimedMutexes) :
        Lockers(m) # {} => Token(m) = 1

\* The bookkeeping that makes mutual exclusion inductive: the count tells how
\* many threads are engaged, a count of 0 means that nobody is and that no
\* right to own is around, and unlocks are only ignored if they are coming.
CountInv ==
    \A m \in Mutexes \ destroyed :
        /\ Token(m) \in {0, 1}
        /\ count[m] = 0 => Token(m) = 0 /\ Cardinality(Engaged(m)) = 0
        /\ count[m] # 0 => count[m] = Token(m) - 1 - Cardinality(Engaged(m))
        /\ count[m] <= 0
        /\ ignore_unlock_count[m] <= Cardinality(Unlockers(m))
        /\ m \in released => waiters[m] = <<>>

\* The queue holds each waiting thread once, in the queue of the mutex it waits
\* for; a queued thread has not been woken, except by its timeout.
QueueInv ==
    /\ \A m \in Mutexes : \A i, j \in DOMAIN waiters[m] :
          waiters[m][i] = waiters[m][j] => i = j
    /\ \A m \in Mutexes, t \in Threads : Queued(t, m) =>
          /\ pc[t] = "blocked"
          /\ obj[t] = m
          /\ \/ wait_status[t] = "waiting"
             \/ wait_status[t] = "B_TIMED_OUT" /\ t \in timed
    /\ \A m \in Mutexes, t \in Threads :
          pc[t] = "blocked" /\ obj[t] = m /\ wait_status[t] = "waiting"
              => Queued(t, m)

\* A thread that wants a mutex, or is about to pass one on, does not own it.
WantInv ==
    \A t \in Threads :
        pc[t] # "running" => obj[t] \in Mutexes /\ obj[t] \notin owned[t]

\* mutex_destroy() and mutex_switch_lock() are safe as the comment in lock.h
\* promises: if the guard is held while the guarded mutex is destroyed, nobody
\* is left inside the code of a destroyed mutex, or asleep on it.
DestroyedUntouched ==
    \A t \in Threads :
        /\ pc[t] \in {"lock", "unlock", "switch"} => obj[t] \notin destroyed
        /\ pc[t] = "blocked" /\ obj[t] \in destroyed
              => ~thread_is_blocked(wait_status, t)

\* First come, first served: a thread becomes owner while others are queued
\* only if it was the first in the queue.
NoOvertaking ==
    [][\A m \in Mutexes : \A t \in Threads :
          (m \notin destroyed /\ waiters[m] # <<>> /\ t \notin Owners(m) /\ t \in Owners(m)')
              => t = Head(waiters[m])]_vars

\* If no thread keeps mutexes for ever, whoever asks for a mutex gets it (or an
\* error, when the mutex is destroyed), however many threads come after it.
EveryLockerServed ==
    (\A t \in Threads : []<>(owned[t] = {}))
        => \A t \in Threads : (pc[t] # "running" ~> pc[t] = "running")

\* The threads that still wait for m to be given to them.
Wanting(m) ==
    {t \in Threads : /\ obj[t] = m
                     /\ \/ pc[t] = "lock"
                        \/ /\ pc[t] = "blocked"
                           /\ thread_is_blocked(wait_status, t)}

\* What the callers see of the mutexes; of a destroyed one, nothing.
AbstractOwners == [m \in Mutexes |-> IF m \in destroyed THEN {} ELSE Owners(m)]
AbstractWant == [m \in Mutexes |-> IF m \in destroyed THEN {} ELSE Wanting(m)]

Abstract == INSTANCE AbstractMutex WITH owners <- AbstractOwners, want <- AbstractWant

\* The count, the flag and the queue implement the abstract mutex: every step
\* is one of its steps or invisible to the callers.
ImplementsAbstractMutex == Abstract!Spec

=============================================================================
