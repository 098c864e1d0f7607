----------------------------- MODULE UserMutex -----------------------------
(***************************************************************************)
(* Userland mutexes and the pthread mutexes and condition variables that   *)
(* are built on them: src/system/kernel/locks/user_mutex.cpp,              *)
(* src/system/libroot/os/locks/mutex.cpp,                                  *)
(* src/system/libroot/posix/pthread/pthread_mutex.cpp, pthread_cond.cpp.   *)
(*                                                                         *)
(* The mutex is a word in the memory of the team.  Userland changes its    *)
(* flags with atomic operations and calls the kernel only when the mutex   *)
(* is contended; the kernel keeps a table with an entry for each waiting   *)
(* thread, under sUserMutexTableLock, and changes the same word.  Between  *)
(* the atomic operation and the system call any other thread may run.  A   *)
(* section under the table lock does one atomic operation on the word and  *)
(* is one step; _user_mutex_switch_lock() works on two words and is two    *)
(* steps, between which it keeps the table lock.  Every entry has a        *)
(* condition variable of its own, named like the thread that waits.        *)
(*                                                                         *)
(* B_USER_MUTEX_DISABLED is left out: no code of the repository sets it.   *)
(***************************************************************************)
EXTENDS Integers, FiniteSets, ConditionVariable

CONSTANTS
    Mutexes,            \* the words of the pthread mutexes
    Conditions,         \* the words of the pthread condition variables
    Recursive,          \* the mutexes of type PTHREAD_MUTEX_RECURSIVE
    MaxRecursion,       \* bound: how often a thread locks one of those
    Interrupted,        \* the words whose waiters signals may interrupt
    Timed,              \* the words whose waiters may have a timeout
    Disturbed,          \* the threads that use such mutexes
    NoWord, NoCall, NoThread

Words == Mutexes \cup Conditions

\* The mutexes whose waiters neither signals nor timeouts reach.
Undisturbed == Mutexes \ (Interrupted \cup Timed)

ASSUME UserMutexAssumption ==
    /\ IsFiniteSet(Threads) /\ Variables = Threads
    /\ Mutexes \cap Conditions = {}
    /\ Recursive \subseteq Mutexes
    /\ MaxRecursion \in Nat \ {0}
    /\ Interrupted \subseteq Words /\ Timed \subseteq Words
    /\ Disturbed \subseteq Threads
    /\ NoWord \notin Words
    /\ NoThread \notin Threads
    /\ NoCall \notin [mutex : Mutexes, cond : Conditions]

VARIABLES
    word,               \* the flags that are set in the word
    table,              \* sUserMutexTable: the entries of a word, first one first
    locked,             \* the threads whose UserMutexEntry::locked is set
    tableLock,          \* who keeps sUserMutexTableLock between two steps
    owner,              \* pthread_mutex_t::owner
    owner_count,        \* pthread_mutex_t::owner_count
    waiter_count,       \* pthread_cond_t::waiter_count
    cond_mutex,         \* pthread_cond_t::mutex
    holders,            \* who was told to have the mutex, and has not unlocked it
    pc, obj,            \* where the thread is, and the word it works on
    call,               \* the arguments of the cond_wait() it is in
    error,              \* what ConditionVariableEntry::Wait() returned
    orphaned            \* history: the mutexes whose last waiter gave up while an
                        \* unlock was on its way to the kernel

wordVars == <<word, table, locked, tableLock>>
pthreadVars == <<owner, owner_count, waiter_count, cond_mutex, holders>>
vars == <<wordVars, pthreadVars, pc, obj, call, error, orphaned, conditionVars>>

Flags == {"LOCKED", "WAITING"}

\* "lock", "unlock", "signal", "broadcast", "switch": before the kernel's critical
\* section; "switch_lock": inside it, from is unlocked; "added": before Wait();
\* "blocked": in it; "dequeue": after it; "relock": before pthread_mutex_lock() of
\* cond_wait(); "done": after it.
PC == {"running", "lock", "unlock", "signal", "broadcast", "switch",
       "switch_lock", "added", "blocked", "dequeue", "relock", "done"}

TypeOK ==
    /\ word \in [Words -> SUBSET Flags]
    /\ table \in [Words -> Seq(Threads)]
    /\ locked \subseteq Threads
    /\ tableLock \in Threads \cup {NoThread}
    /\ owner \in [Mutexes -> Threads \cup {NoThread}]
    /\ owner_count \in [Mutexes -> 0 .. MaxRecursion]
    /\ waiter_count \in [Conditions -> Nat]
    /\ cond_mutex \in [Conditions -> Mutexes \cup {NoWord}]
    /\ holders \in [Mutexes -> SUBSET Threads]
    /\ pc \in [Threads -> PC]
    /\ obj \in [Threads -> Words \cup {NoWord}]
    /\ call \in [Threads -> [mutex : Mutexes, cond : Conditions] \cup {NoCall}]
    /\ error \in [Threads -> WaitStatus]
    /\ orphaned \subseteq Mutexes
    /\ ConditionTypeOK

\* pthread_mutex_init() and pthread_cond_init() of every object.
Init ==
    /\ word = [w \in Words |-> {}]
    /\ table = [w \in Words |-> <<>>]
    /\ locked = {}
    /\ tableLock = NoThread
    /\ owner = [m \in Mutexes |-> NoThread]
    /\ owner_count = [m \in Mutexes |-> 0]
    /\ waiter_count = [c \in Conditions |-> 0]
    /\ cond_mutex = [c \in Conditions |-> NoWord]
    /\ holders = [m \in Mutexes |-> {}]
    /\ pc = [t \in Threads |-> "running"]
    /\ obj = [t \in Threads |-> NoWord]
    /\ call = [t \in Threads |-> NoCall]
    /\ error = [t \in Threads |-> "B_OK"]
    /\ orphaned = {}
    /\ ConditionInit

-----------------------------------------------------------------------------
(***************************************************************************)
(* Returning from a lock call.                                             *)
(***************************************************************************)

\* t continues at pc p, working on w.
GoTo(t, p, w) ==
    /\ pc' = [pc EXCEPT ![t] = p]
    /\ obj' = [obj EXCEPT ![t] = w]

\* "we have locked the mutex for the first time": the lock call, or the one that
\* cond_wait() makes, returns 0.
Acquired(t, m) ==
    /\ owner' = [owner EXCEPT ![m] = t]
    /\ owner_count' = [owner_count EXCEPT ![m] = 1]
    /\ holders' = [holders EXCEPT ![m] = @ \cup {t}]
    /\ GoTo(t, IF call[t] = NoCall THEN "running" ELSE "done", NoWord)

\* Mutant: the waiting flag does not keep the fast path from taking the mutex.
FreeNotLocked(flags) == "LOCKED" \notin flags

\* (oldValue & (B_USER_MUTEX_LOCKED | B_USER_MUTEX_WAITING)) == 0
Free(flags) == flags = {}

\* _kern_mutex_lock() or _kern_mutex_switch_lock() returns result to userland:
\* cond_wait() locks its mutex whatever it is, a mutex lock call is made again
\* when it was interrupted.
KernelLockReturns(t, w, result) ==
    \/ /\ w \in Conditions
       /\ GoTo(t, "relock", NoWord)
       /\ UNCHANGED <<owner, owner_count, holders>>
    \/ /\ w \in Mutexes /\ result = "B_OK"
       /\ Acquired(t, w)
    \/ /\ w \in Mutexes /\ result = "B_INTERRUPTED"
       /\ GoTo(t, "lock", w)
       /\ UNCHANGED <<owner, owner_count, holders>>
    \/ /\ w \in Mutexes /\ result = "B_TIMED_OUT"
       /\ GoTo(t, "running", NoWord)
       /\ UNCHANGED <<owner, owner_count, holders>>

-----------------------------------------------------------------------------
(***************************************************************************)
(* The kernel: user_mutex.cpp.                                             *)
(***************************************************************************)

\* Mutant: the kernel does not look whether the mutex was unlocked meanwhile.
FreeInKernelMutant(flags) == FALSE

\* "The mutex might have been unlocked (or disabled) in the meantime."
FreeInKernel(flags) == flags = {}

\* user_mutex_lock_locked() up to the wait.  (That the waiting flag is set and
\* cleared again when the mutex is free is not visible: LOCKED is set with it.)
LockLocked(t, w) ==
    \/ /\ FreeInKernel(word[w])
       /\ word' = [word EXCEPT ![w] = {"LOCKED"}]
       /\ KernelLockReturns(t, w, "B_OK")
       /\ UNCHANGED <<table, conditionVars>>
    \/ /\ ~FreeInKernel(word[w])
       /\ word' = [word EXCEPT ![w] = Flags]
       /\ table' = [table EXCEPT ![w] = Append(@, t)]
       /\ Add(t, t)
       /\ GoTo(t, "added", w)
       /\ UNCHANGED <<owner, owner_count, holders>>

\* Mutant: a mutex that is handed over is not marked locked again.
HandedOverMutant(flags) == flags
HandedOver(flags) == flags \cup {"LOCKED"}

\* The threads of the entries user_mutex_unlock_locked() unblocks.
Unblocked(w, all) ==
    IF all THEN {table[w][i] : i \in DOMAIN table[w]} ELSE {Head(table[w])}

\* user_mutex_unlock_locked(); all is B_USER_MUTEX_UNBLOCK_ALL.
UnlockLocked(w, all) ==
    \/ /\ table[w] # <<>>
       /\ word' = [word EXCEPT ![w] = HandedOver(@)]
       /\ locked' = locked \cup Unblocked(w, all)
       /\ Notify(UNION {First(t) : t \in Unblocked(w, all)}, "B_OK")
    \/ /\ table[w] = <<>>
       /\ word' = [word EXCEPT ![w] = @ \ {"LOCKED"}]
       /\ UNCHANGED <<locked, conditionVars>>

TableLockFree == tableLock = NoThread

\* _user_mutex_lock(), first section.
user_mutex_lock(t) ==
    /\ pc[t] = "lock" /\ TableLockFree
    /\ LockLocked(t, obj[t])
    /\ UNCHANGED <<locked, tableLock, waiter_count, cond_mutex, call, error, orphaned>>

\* _user_mutex_switch_lock(): user_mutex_unlock_locked(fromMutex).
user_mutex_switch_unlock(t) ==
    /\ pc[t] = "switch" /\ TableLockFree
    /\ tableLock' = t
    /\ UnlockLocked(call[t].mutex, FALSE)
    /\ GoTo(t, "switch_lock", obj[t])
    /\ UNCHANGED <<table, pthreadVars, call, error, orphaned>>

\* _user_mutex_switch_lock(): user_mutex_lock_locked(toMutex), first section.
user_mutex_switch_lock(t) ==
    /\ pc[t] = "switch_lock"
    /\ tableLock' = NoThread
    /\ LockLocked(t, obj[t])
    /\ UNCHANGED <<locked, waiter_count, cond_mutex, call, error, orphaned>>

\* waitEntry.Wait() finds the entry notified.
wait_notified(t) ==
    /\ pc[t] = "added" /\ WaitReturns(t)
    /\ error' = [error EXCEPT ![t] = fWaitStatus[t]]
    /\ GoTo(t, "dequeue", obj[t])
    /\ UNCHANGED <<wordVars, pthreadVars, call, orphaned, conditionVars>>

wait_blocks(t) ==
    /\ pc[t] = "added"
    /\ WaitBlocks(t)
    /\ GoTo(t, "blocked", obj[t])
    /\ UNCHANGED <<wordVars, pthreadVars, call, error, orphaned>>

wait_ends(t) ==
    /\ pc[t] = "blocked"
    /\ WaitEnds(t)
    /\ error' = [error EXCEPT ![t] = wait_status[t]]
    /\ GoTo(t, "dequeue", obj[t])
    /\ UNCHANGED <<wordVars, pthreadVars, call, orphaned>>

\* The results other than B_OK a wait for w can have.
EarlyResults(w) ==
    {s \in {"B_INTERRUPTED", "B_TIMED_OUT"} :
        w \in (IF s = "B_TIMED_OUT" THEN Timed ELSE Interrupted)}

\* The timeout of the wait, or a signal.
wait_given_up(t) ==
    /\ pc[t] = "blocked" /\ thread_is_blocked(wait_status, t)
    /\ \E s \in EarlyResults(obj[t]) :
          wait_status' = thread_unblock_locked(wait_status, t, s)
    /\ UNCHANGED <<wordVars, pthreadVars, pc, obj, call, error, orphaned, fEntries,
                   fVariable, fWaitStatus>>

\* Mutant: every thread that is dequeued clears the waiting flag.
FlagsLeftMutant(flags, rest) == flags \ {"WAITING"}

\* "no one is waiting anymore -- clear the waiting flag"
FlagsLeft(flags, rest) == IF rest = <<>> THEN flags \ {"WAITING"} ELSE flags

\* Mutant: a waiter the mutex was handed to returns what has ended its wait.
LockResultMutant(t) == error[t]

\* "timeout or interrupt, but the mutex was unlocked [...] in time"
LockResult(t) == IF t \in locked THEN "B_OK" ELSE error[t]

\* user_mutex_lock_locked() after the wait.
user_mutex_lock_end(t) ==
    LET w == obj[t]
        rest == Dequeue(table[w], t)
    IN  /\ pc[t] = "dequeue" /\ TableLockFree
        /\ table' = [table EXCEPT ![w] = rest]
        /\ word' = [word EXCEPT ![w] = FlagsLeft(@, rest)]
        /\ KernelLockReturns(t, w, LockResult(t))
        /\ locked' = locked \ {t}
        /\ error' = [error EXCEPT ![t] = "B_OK"]
        /\ orphaned' = orphaned \cup {m \in Mutexes \cap {w} :
                           /\ rest = <<>> /\ t \notin locked
                           /\ \E u \in Threads : pc[u] = "unlock" /\ obj[u] = m}
        /\ UNCHANGED <<tableLock, waiter_count, cond_mutex, call, conditionVars>>

\* _user_mutex_unlock(), for mutex_unlock() and for cond_signal().
user_mutex_unlock(t) ==
    /\ pc[t] \in {"unlock", "signal", "broadcast"} /\ TableLockFree
    /\ UnlockLocked(obj[t], pc[t] = "broadcast")
    /\ GoTo(t, "running", NoWord)
    /\ UNCHANGED <<table, tableLock, pthreadVars, call, error, orphaned>>

-----------------------------------------------------------------------------
(***************************************************************************)
(* Userland: pthread_mutex.cpp, pthread_cond.cpp.  A thread locks only one *)
(* mutex at a time.                                                        *)
(***************************************************************************)

MayLock(t, m) ==
    /\ \A n \in Mutexes : t \notin holders[n]
    /\ m \in Undisturbed \/ t \in Disturbed

\* The atomic_or() of mutex_lock(), and what follows it in userland.
LockWord(t, m) ==
    /\ word' = [word EXCEPT ![m] = @ \cup {"LOCKED"}]
    /\ \/ Free(word[m]) /\ Acquired(t, m)
       \/ /\ ~Free(word[m])
          /\ GoTo(t, "lock", m)
          /\ UNCHANGED <<owner, owner_count, holders>>
    /\ UNCHANGED <<table, locked, tableLock, waiter_count, cond_mutex, call,
                   error, orphaned, conditionVars>>

\* pthread_mutex_lock() and pthread_mutex_timedlock() of a mutex t does not own.
pthread_mutex_lock(t, m) ==
    /\ pc[t] = "running" /\ MayLock(t, m) /\ owner[m] # t
    /\ LockWord(t, m)

\* ... of a recursive mutex that t owns.
pthread_mutex_lock_again(t, m) ==
    /\ pc[t] = "running" /\ owner[m] = t
    /\ m \in Recursive /\ owner_count[m] < MaxRecursion
    /\ owner_count' = [owner_count EXCEPT ![m] = @ + 1]
    /\ UNCHANGED <<wordVars, owner, waiter_count, cond_mutex, holders, pc, obj,
                   call, error, orphaned, conditionVars>>

\* pthread_mutex_trylock(): LOCKED is set also when it returns EBUSY.
pthread_mutex_trylock(t, m) ==
    /\ pc[t] = "running" /\ MayLock(t, m) /\ owner[m] # t
    /\ word' = [word EXCEPT ![m] = @ \cup {"LOCKED"}]
    /\ \/ Free(word[m]) /\ Acquired(t, m)
       \/ ~Free(word[m]) /\ UNCHANGED <<owner, owner_count, holders, pc, obj>>
    /\ UNCHANGED <<table, locked, tableLock, waiter_count, cond_mutex, call,
                   error, orphaned, conditionVars>>

\* pthread_mutex_unlock() of a mutex that stays locked.
pthread_mutex_unlock_inner(t, m) ==
    /\ pc[t] = "running" /\ owner[m] = t
    /\ m \in Recursive /\ owner_count[m] > 1
    /\ owner_count' = [owner_count EXCEPT ![m] = @ - 1]
    /\ UNCHANGED <<wordVars, owner, waiter_count, cond_mutex, holders, pc, obj,
                   call, error, orphaned, conditionVars>>

\* pthread_mutex_unlock(): the kernel is called if someone waits.
pthread_mutex_unlock(t, m) ==
    /\ pc[t] = "running" /\ owner[m] = t
    /\ m \in Recursive => owner_count[m] = 1
    /\ owner_count' = [owner_count EXCEPT ![m] = IF m \in Recursive THEN 0 ELSE @]
    /\ owner' = [owner EXCEPT ![m] = NoThread]
    /\ holders' = [holders EXCEPT ![m] = @ \ {t}]
    /\ word' = [word EXCEPT ![m] = @ \ {"LOCKED"}]
    /\ IF "WAITING" \in word[m] THEN GoTo(t, "unlock", m) ELSE UNCHANGED <<pc, obj>>
    /\ UNCHANGED <<table, locked, tableLock, waiter_count, cond_mutex, call,
                   error, orphaned, conditionVars>>

\* cond_wait() up to the system call.  waiter_count and mutex are written without
\* atomic operations; they need a mutex that always excludes (see MutualExclusion).
cond_wait(t, c, m) ==
    /\ pc[t] = "running" /\ owner[m] = t /\ m \in Undisturbed
    /\ cond_mutex[c] \in {NoWord, m}
    /\ cond_mutex' = [cond_mutex EXCEPT ![c] = m]
    /\ waiter_count' = [waiter_count EXCEPT ![c] = @ + 1]
    /\ word' = [word EXCEPT ![c] = @ \cup {"LOCKED"}]
    /\ owner' = [owner EXCEPT ![m] = NoThread]
    /\ owner_count' = [owner_count EXCEPT ![m] = 0]
    /\ holders' = [holders EXCEPT ![m] = @ \ {t}]
    /\ call' = [call EXCEPT ![t] = [mutex |-> m, cond |-> c]]
    /\ GoTo(t, "switch", c)
    /\ UNCHANGED <<table, locked, tableLock, error, orphaned, conditionVars>>

\* pthread_mutex_lock() in cond_wait().
cond_wait_relock(t) ==
    /\ pc[t] = "relock"
    /\ LockWord(t, call[t].mutex)

\* Mutant: the condition variable keeps its mutex while others wait with it.
MutexLeftMutant(m, left) == NoWord

\* "If there are no more waiters, we can change mutexes."
MutexLeft(m, left) == IF left = 0 THEN NoWord ELSE m

\* The end of cond_wait().
cond_wait_end(t) ==
    LET c == call[t].cond
    IN  /\ pc[t] = "done"
        /\ waiter_count' = [waiter_count EXCEPT ![c] = @ - 1]
        /\ cond_mutex' = [cond_mutex EXCEPT ![c] = MutexLeft(@, waiter_count'[c])]
        /\ call' = [call EXCEPT ![t] = NoCall]
        /\ GoTo(t, "running", NoWord)
        /\ UNCHANGED <<wordVars, owner, owner_count, holders, error, orphaned,
                       conditionVars>>

\* cond_signal(), with or without the mutex locked.
cond_signal(t, c, kind) ==
    /\ pc[t] = "running"
    /\ waiter_count[c] # 0
    /\ GoTo(t, kind, c)
    /\ UNCHANGED <<wordVars, pthreadVars, call, error, orphaned, conditionVars>>

-----------------------------------------------------------------------------

\* The sections under the table lock.
TableStep(t) ==
    \/ user_mutex_lock(t)
    \/ user_mutex_switch_unlock(t)
    \/ user_mutex_lock_end(t)
    \/ user_mutex_unlock(t)

\* The other steps of a call that has begun.
CallStep(t) ==
    \/ user_mutex_switch_lock(t)
    \/ wait_notified(t) \/ wait_blocks(t) \/ wait_ends(t)
    \/ cond_wait_relock(t) \/ cond_wait_end(t)

Next ==
    \E t \in Threads :
        \/ TableStep(t)
        \/ CallStep(t)
        \/ wait_given_up(t)
        \/ \E m \in Mutexes :
              \/ pthread_mutex_lock(t, m)
              \/ pthread_mutex_lock_again(t, m)
              \/ pthread_mutex_trylock(t, m)
              \/ pthread_mutex_unlock_inner(t, m)
              \/ pthread_mutex_unlock(t, m)
              \/ \E c \in Conditions : cond_wait(t, c, m)
        \/ \E c \in Conditions, kind \in {"signal", "broadcast"} :
              cond_signal(t, c, kind)

Spec == Init /\ [][Next]_vars

\* A thread that is inside a call goes on, the table lock is fair (it is a Mutex),
\* and no thread keeps a pthread mutex for ever.
Fairness ==
    \A t \in Threads :
        /\ WF_vars(CallStep(t))
        /\ SF_vars(TableStep(t))
        /\ SF_vars(\E m \in Undisturbed : pthread_mutex_unlock(t, m))

FairSpec == Spec /\ Fairness

-----------------------------------------------------------------------------
(***************************************************************************)
(* Properties.                                                             *)
(***************************************************************************)

\* At most one thread has a mutex, whatever signals and timeouts do to its waiters, as
\* long as the last of them does not give up between the atomic operation of an unlock,
\* which saw the waiting flag, and its system call.
MutualExclusion == \A m \in Mutexes \ orphaned : Cardinality(holders[m]) <= 1

\* The same without that condition: "No one has the lock or is waiting for it" when
\* the fast path of mutex_lock() takes it (libroot/os/locks/mutex.cpp).
OwnedAlone == \A m \in Mutexes : Cardinality(holders[m]) <= 1

\* The places in which a thread has an entry in the table.
Waiting == {"added", "blocked", "dequeue"}

\* The threads in the kernel that have the right to own m: one it has been handed
\* over to, or one that is about to pass it on.
Given(t, m) == pc[t] \in Waiting /\ obj[t] = m /\ t \in locked
Giving(t, m) == pc[t] = "unlock" /\ obj[t] = m
Switching(t, m) == pc[t] = "switch" /\ call[t].mutex = m
Busy(t, m) == Given(t, m) \/ Giving(t, m) \/ Switching(t, m)

\* No mutex is lost: one whose word is not free has an owner, or a thread in the
\* kernel that is going to own it or to pass it on, also when a signal or a timeout
\* ends the wait of the thread it is handed to.
LockedIsOwned ==
    \A m \in Mutexes \ orphaned :
        word[m] # {} => holders[m] # {} \/ \E t \in Threads : Busy(t, m)

\* The waiting flag, which decides whether an unlocker calls the kernel, is set
\* just as long as the kernel has an entry.
WaitingFlagInv ==
    \A w \in Words : "WAITING" \in word[w] <=> table[w] # <<>>

\* A wait for w nobody has ended.
Asleep(t, w) ==
    /\ obj[t] = w /\ t \notin locked
    /\ pc[t] = "added" \/ (pc[t] = "blocked" /\ thread_is_blocked(wait_status, t))

\* A condition variable counts the threads that are in cond_wait() with it, and
\* knows the mutex they all use: a cond_signal() that finds the count at zero
\* leaves nobody asleep.
WaitersCounted ==
    \A c \in Conditions :
        LET waiting == {t \in Threads : call[t] # NoCall /\ call[t].cond = c}
        IN  /\ waiter_count[c] = Cardinality(waiting)
            /\ \A t \in waiting : call[t].mutex = cond_mutex[c]
            /\ \A t \in Threads : Asleep(t, c) => t \in waiting

\* A thread gets a mutex while others have entries in the kernel's table only if
\* it was handed over to the thread, whose entry is the first one.
NoOvertaking ==
    [][\A t \in Threads, m \in Mutexes :
          t \in holders'[m] \ holders[m] /\ table[m] # <<>>
              => Head(table[m]) = t /\ t \in locked]_vars

\* A mutex somebody sleeps in is handed over, again and again; with NoOvertaking
\* every waiter gets it.
MutexHandedOver ==
    \A m \in Undisturbed :
        (\E t \in Threads : Asleep(t, m)) ~>
            (\E t \in Threads : pc[t] = "dequeue" /\ obj[t] = m /\ t \in locked)

=============================================================================
