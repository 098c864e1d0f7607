------------------------------- MODULE RWLock -------------------------------
(***************************************************************************)
(* The kernel's read-write lock (KDEBUG_RW_LOCK_DEBUG == 0):               *)
(* src/system/kernel/locks/lock.cpp, headers/private/kernel/lock.h.        *)
(*                                                                         *)
(* count is the number of readers plus Base for each writer that holds or  *)
(* wants the lock.  Readers change it with an atomic_add() and without any *)
(* lock, and enter the slow path under gThreadSpinlock only if they see a  *)
(* writer; between the two other threads may run.  Writers change count    *)
(* under the spinlock, in one step with the rest of their section.         *)
(***************************************************************************)
EXTENDS Integers, Sequences, FiniteSets, ThreadBlock, WaiterQueue

CONSTANTS
    Threads,
    NoThread,
    Base,           \* RW_LOCK_WRITER_COUNT_BASE
    MaxNesting      \* bound: how many locks a write lock owner may nest

ASSUME RWAssumption ==
    /\ IsFiniteSet(Threads) /\ NoThread \notin Threads
    /\ MaxNesting \in Nat \ {0}
    /\ Base \in Nat
    /\ Cardinality(Threads) + MaxNesting < Base

VARIABLES
    count,              \* rw_lock.count
    holder,             \* rw_lock.holder; NoThread stands for -1
    owner_count,        \* rw_lock.owner_count
    active_readers,     \* rw_lock.active_readers
    pending_readers,    \* rw_lock.pending_readers
    waiters,            \* the queue rw_lock.waiters, first waiter first
    destroyed,          \* rw_lock_destroy() has been called
    wait_status,        \* thread.wait.status
    pc,                 \* where the thread is
    reads,              \* how many read locks the thread owns
    writes              \* how many write locks the thread owns

lockVars == <<count, holder, owner_count, active_readers, pending_readers,
              waiters, destroyed>>
vars == <<lockVars, wait_status, pc, reads, writes>>

\* "read_lock", "read_unlock": between the atomic_add() and the spinlock;
\* "wait_read", "wait_write": in rw_lock_wait().  A waiter's field writer is
\* what the pc of its thread tells.
PC == {"running", "read_lock", "read_unlock", "wait_read", "wait_write"}

TypeOK ==
    /\ count \in Nat
    /\ holder \in Threads \cup {NoThread}
    /\ owner_count \in Nat
    /\ active_readers \in Nat
    /\ pending_readers \in Nat
    /\ waiters \in Seq(Threads)
    /\ destroyed \in BOOLEAN
    /\ wait_status \in [Threads -> WaitStatus]
    /\ pc \in [Threads -> PC]
    /\ reads \in [Threads -> Nat]
    /\ writes \in [Threads -> Nat]

Init ==
    /\ count = 0
    /\ holder = NoThread
    /\ owner_count = 0
    /\ active_readers = 0
    /\ pending_readers = 0
    /\ waiters = <<>>
    /\ destroyed = FALSE
    /\ wait_status = [t \in Threads |-> "B_OK"]
    /\ pc = [t \in Threads |-> "running"]
    /\ reads = [t \in Threads |-> 0]
    /\ writes = [t \in Threads |-> 0]

-----------------------------------------------------------------------------
(***************************************************************************)
(* The callers: only the owner of the write lock nests its locks (a reader *)
(* that asked again could wait for a writer that waits for it).            *)
(***************************************************************************)
MayLock(t) ==
    /\ pc[t] = "running"
    /\ ~destroyed
    /\ reads[t] + writes[t] < MaxNesting
    /\ reads[t] > 0 => writes[t] > 0

\* A lock is destroyed by its writer, when others wait at most.
MayDestroy(t) ==
    /\ pc[t] = "running"
    /\ writes[t] > 0
    /\ \A u \in Threads : pc[u] \notin {"read_lock", "read_unlock"}

OwnsReadLock(t) ==
    /\ reads' = [reads EXCEPT ![t] = @ + 1]
    /\ pc' = [pc EXCEPT ![t] = "running"]

-----------------------------------------------------------------------------

\* rw_lock_wait()
rw_lock_wait(t, where) ==
    /\ waiters' = Append(waiters, t)
    /\ wait_status' = thread_prepare_to_block(wait_status, t)
    /\ pc' = [pc EXCEPT ![t] = where]

IsWriter(t) == pc[t] = "wait_write"

\* How many readers stand at the head of the queue.
LeadingReaders ==
    CHOOSE n \in 0 .. Len(waiters) :
        /\ \A i \in 1 .. n : ~IsWriter(waiters[i])
        /\ n < Len(waiters) => IsWriter(waiters[n + 1])

\* Mutant: a writer at the head is woken although there are pending readers.
WakesWriterMutant(h, active) ==
    /\ waiters # <<>> /\ h = NoThread
    /\ IsWriter(Head(waiters))
    /\ active = 0

WakesWriter(h, active) ==
    /\ waiters # <<>> /\ h = NoThread
    /\ IsWriter(Head(waiters))
    /\ active = 0 /\ pending_readers = 0

WakesReaders(h) ==
    /\ waiters # <<>> /\ h = NoThread
    /\ ~IsWriter(Head(waiters))

\* Mutant: the readers that are woken are not counted.
ReadersWokenMutant(c, active, n) == active

\* if (lock->count >= RW_LOCK_WRITER_COUNT_BASE) active_readers += readerCount
ReadersWoken(c, active, n) == IF c >= Base THEN active + n ELSE active

\* rw_lock_unblock(), called when holder, count and active_readers are h, c and
\* active; the number it returns is Unblocked(h, active).
rw_lock_unblock(h, c, active) ==
    \/ /\ WakesWriter(h, active)
       /\ waiters' = Tail(waiters)
       /\ holder' = Head(waiters)
       /\ wait_status' =
              thread_unblock_locked(wait_status, Head(waiters), "B_OK")
       /\ active_readers' = active
    \/ /\ WakesReaders(h)
       /\ waiters' = SubSeq(waiters, LeadingReaders + 1, Len(waiters))
       /\ wait_status' =
              thread_unblock_each(wait_status,
                  {waiters[i] : i \in 1 .. LeadingReaders}, "B_OK")
       /\ active_readers' = ReadersWoken(c, active, LeadingReaders)
       /\ holder' = h
    \/ /\ ~WakesWriter(h, active) /\ ~WakesReaders(h)
       /\ active_readers' = active
       /\ holder' = h
       /\ UNCHANGED <<waiters, wait_status>>

Unblocked(h, active) ==
    CASE WakesWriter(h, active) -> Base
      [] WakesReaders(h) -> LeadingReaders
      [] OTHER -> 0

-----------------------------------------------------------------------------
(***************************************************************************)
(* The operations.                                                         *)
(***************************************************************************)

rw_lock_read_lock(t) ==
    /\ MayLock(t)
    /\ count' = count + 1
    /\ \/ /\ count < Base
          /\ OwnsReadLock(t)
       \/ /\ count >= Base
          /\ pc' = [pc EXCEPT ![t] = "read_lock"]
          /\ UNCHANGED reads
    /\ UNCHANGED <<holder, owner_count, active_readers, pending_readers,
                   waiters, destroyed, wait_status, writes>>

\* Mutant: a pending reader that enters is not counted as active.
PendingReaderEntersMutant ==
    /\ pending_readers' = pending_readers - 1
    /\ UNCHANGED active_readers

PendingReaderEnters ==
    /\ pending_readers' = pending_readers - 1
    /\ active_readers' =
          IF count >= Base THEN active_readers + 1 ELSE active_readers

\* _rw_lock_read_lock() up to the wait.
read_lock_slow(t) ==
    /\ pc[t] = "read_lock"
    /\ \/ /\ holder = t
          /\ owner_count' = owner_count + 1
          /\ OwnsReadLock(t)
          /\ UNCHANGED <<active_readers, pending_readers, waiters, wait_status>>
       \/ /\ holder # t /\ pending_readers > 0
          /\ PendingReaderEnters
          /\ OwnsReadLock(t)
          /\ UNCHANGED <<owner_count, waiters, wait_status>>
       \/ /\ holder # t /\ pending_readers = 0
          /\ rw_lock_wait(t, "wait_read")
          /\ UNCHANGED <<owner_count, active_readers, pending_readers, reads>>
    /\ UNCHANGED <<count, holder, destroyed, writes>>

read_lock_return(t) ==
    /\ pc[t] = "wait_read"
    /\ ~thread_is_blocked(wait_status, t)
    /\ \/ wait_status[t] = "B_OK" /\ OwnsReadLock(t)
       \/ /\ wait_status[t] # "B_OK"
          /\ pc' = [pc EXCEPT ![t] = "running"]
          /\ UNCHANGED reads
    /\ UNCHANGED <<lockVars, wait_status, writes>>

rw_lock_read_unlock(t) ==
    /\ pc[t] = "running"
    /\ reads[t] > 0
    /\ ~destroyed
    /\ count' = count - 1
    /\ reads' = [reads EXCEPT ![t] = @ - 1]
    /\ pc' = IF count >= Base THEN [pc EXCEPT ![t] = "read_unlock"] ELSE pc
    /\ UNCHANGED <<holder, owner_count, active_readers, pending_readers,
                   waiters, destroyed, wait_status, writes>>

\* "lock not read-locked"
ReadUnlockPanics(t) == holder # t /\ active_readers = 0

\* _rw_lock_read_unlock()
read_unlock_slow(t) ==
    /\ pc[t] = "read_unlock"
    /\ ~ReadUnlockPanics(t)
    /\ \/ /\ holder = t
          /\ owner_count' = owner_count - 1
          /\ UNCHANGED <<holder, active_readers, waiters, wait_status>>
       \/ /\ holder # t /\ active_readers > 1
          /\ active_readers' = active_readers - 1
          /\ UNCHANGED <<holder, owner_count, waiters, wait_status>>
       \/ /\ holder # t /\ active_readers = 1
          /\ rw_lock_unblock(holder, count, 0)
          /\ UNCHANGED owner_count
    /\ pc' = [pc EXCEPT ![t] = "running"]
    /\ UNCHANGED <<count, pending_readers, destroyed, reads, writes>>

\* Mutant: the pending readers are taken for active ones.
FirstWriterMutant == IF count < Base THEN count ELSE active_readers

\* if (oldCount < RW_LOCK_WRITER_COUNT_BASE)
\*     active_readers = oldCount - pending_readers
FirstWriter == IF count < Base THEN count - pending_readers ELSE active_readers

\* rw_lock_write_lock() up to the wait.
rw_lock_write_lock(t) ==
    /\ MayLock(t)
    /\ \/ /\ holder = t
          /\ owner_count' = owner_count + Base
          /\ writes' = [writes EXCEPT ![t] = @ + 1]
          /\ UNCHANGED <<count, holder, active_readers, waiters, wait_status, pc>>
       \/ /\ holder # t /\ count = 0
          /\ count' = Base
          /\ holder' = t
          /\ owner_count' = Base
          /\ writes' = [writes EXCEPT ![t] = 1]
          /\ UNCHANGED <<active_readers, waiters, wait_status, pc>>
       \/ /\ holder # t /\ count # 0
          /\ count' = count + Base
          /\ active_readers' = FirstWriter
          /\ rw_lock_wait(t, "wait_write")
          /\ UNCHANGED <<holder, owner_count, writes>>
    /\ UNCHANGED <<pending_readers, destroyed, reads>>

write_lock_return(t) ==
    /\ pc[t] = "wait_write"
    /\ ~thread_is_blocked(wait_status, t)
    /\ pc' = [pc EXCEPT ![t] = "running"]
    /\ \/ /\ wait_status[t] = "B_OK"
          /\ holder' = t
          /\ owner_count' = Base
          /\ writes' = [writes EXCEPT ![t] = 1]
       \/ /\ wait_status[t] # "B_OK"
          /\ UNCHANGED <<holder, owner_count, writes>>
    /\ UNCHANGED <<count, active_readers, pending_readers, waiters, destroyed,
                   wait_status, reads>>

\* Mutant: no pending readers are left behind.
StillComingMutant(left, nested, woken) == 0

\* pending_readers = oldCount - readerCount - rw_lock_unblock(lock)
StillComing(left, nested, woken) == left - nested - woken

\* The write lock owner gives up its last write lock: left is what remains of
\* count, nested are the read locks it keeps.
LastWriteUnlock(left, nested) ==
    /\ count' = left
    /\ owner_count' = 0
    /\ \/ /\ left = 0
          /\ holder' = NoThread
          /\ UNCHANGED <<active_readers, pending_readers, waiters, wait_status>>
       \/ /\ left >= Base
          /\ rw_lock_unblock(NoThread, left, nested)
          /\ UNCHANGED pending_readers
       \/ /\ left # 0 /\ left < Base
          /\ rw_lock_unblock(NoThread, left, active_readers)
          /\ pending_readers' =
                StillComing(left, nested, Unblocked(NoThread, active_readers))

\* _rw_lock_write_unlock(lock, false)
rw_lock_write_unlock(t) ==
    /\ pc[t] = "running"
    /\ writes[t] > 0
    /\ ~destroyed
    /\ holder = t
    /\ writes' = [writes EXCEPT ![t] = @ - 1]
    /\ \/ /\ owner_count - Base >= Base
          /\ owner_count' = owner_count - Base
          /\ UNCHANGED <<count, holder, active_readers, pending_readers,
                         waiters, wait_status>>
       \/ /\ owner_count - Base < Base
          /\ LastWriteUnlock(count - Base, owner_count - Base)
    /\ UNCHANGED <<destroyed, pc, reads>>

\* rw_lock_destroy(); the owner's locks are gone with the lock.
rw_lock_destroy(t) ==
    /\ MayDestroy(t)
    /\ wait_status' =
          thread_unblock_each(wait_status,
              {u \in Threads : InQueue(waiters, u)}, "B_ERROR")
    /\ waiters' = <<>>
    /\ destroyed' = TRUE
    /\ reads' = [reads EXCEPT ![t] = 0]
    /\ writes' = [writes EXCEPT ![t] = 0]
    /\ UNCHANGED <<count, holder, owner_count, active_readers, pending_readers,
                   pc>>

\* rw_lock_init() of the next lock, once everybody has left the destroyed one.
rw_lock_init ==
    /\ destroyed
    /\ \A t \in Threads : pc[t] = "running"
    /\ count' = 0
    /\ holder' = NoThread
    /\ owner_count' = 0
    /\ active_readers' = 0
    /\ pending_readers' = 0
    /\ waiters' = <<>>
    /\ destroyed' = FALSE
    /\ UNCHANGED <<wait_status, pc, reads, writes>>

ThreadStep(t) ==
    \/ read_lock_slow(t)
    \/ read_lock_return(t)
    \/ read_unlock_slow(t)
    \/ write_lock_return(t)

Unlock(t) == rw_lock_read_unlock(t) \/ rw_lock_write_unlock(t)

Next ==
    \/ rw_lock_init
    \/ \E t \in Threads :
          \/ ThreadStep(t)
          \/ Unlock(t)
          \/ rw_lock_read_lock(t)
          \/ rw_lock_write_lock(t)
          \/ rw_lock_destroy(t)

Spec == Init /\ [][Next]_vars

\* A thread inside the lock code keeps running.
FairSpec == Spec /\ \A t \in Threads : WF_vars(ThreadStep(t))

-----------------------------------------------------------------------------
(***************************************************************************)
(* Properties.                                                             *)
(***************************************************************************)

Woken(t, where) == pc[t] = where /\ wait_status[t] = "B_OK"

\* The owners of the lock, those who will find out when they wake up included.
Readers == {t \in Threads : reads[t] > 0 \/ Woken(t, "wait_read")}
Writers == {t \in Threads : writes[t] > 0 \/ Woken(t, "wait_write")}

QueuedReaders == {t \in Threads : InQueue(waiters, t) /\ ~IsWriter(t)}
QueuedWriters == {t \in Threads : InQueue(waiters, t) /\ IsWriter(t)}

At(where) == {t \in Threads : pc[t] = where}

\* The read locks that are owned, numbered for each owner.
OwnedReads == {r \in Threads \X (1 .. MaxNesting) : r[2] <= reads[r[1]]}

\* The number of read locks that exist.
ReadLocks ==
    Cardinality(OwnedReads) + Cardinality({t \in Threads : Woken(t, "wait_read")})

\* A writer is alone: no other writer, and no reader but itself, however the
\* lock-free readers and the writers interleave.
Exclusion ==
    ~destroyed => /\ Cardinality(Writers) <= 1
                  /\ Writers # {} => Readers \subseteq Writers

\* No ASSERT() or panic() of lock.cpp is ever hit by a correct caller: a reader
\* starts to wait only if there is a writer, a reader that leaves is counted
\* as an active one, and a nested read lock is counted in owner_count.
NoPanic ==
    ~destroyed => \A t \in Threads :
        /\ pc[t] = "read_lock" /\ holder # t /\ pending_readers = 0
              => count >= Base
        /\ pc[t] = "read_unlock" => ~ReadUnlockPanics(t)
        /\ pc[t] = "read_unlock" /\ holder = t => owner_count % Base > 0
        /\ pc[t] = "running" /\ writes[t] > 0
              => holder = t /\ owner_count >= Base

\* The counts of readers are what lock.h says.  active_readers is positive only while
\* a writer waits, and then the number of readers that writer has to wait for;
\* pending_readers are readers that are still on their way to the spinlock: all of
\* them, if no writer has come since.
ReaderCountsInv ==
    ~destroyed =>
        /\ active_readers > 0 => QueuedWriters # {}
        /\ QueuedWriters # {} /\ Writers = {} =>
              active_readers = ReadLocks + Cardinality(At("read_unlock"))
        /\ pending_readers <= Cardinality(At("read_lock"))
        /\ Writers \cup QueuedWriters = {} =>
              /\ pending_readers = Cardinality(At("read_lock"))
              /\ QueuedReaders = {}

\* Nobody sleeps while the lock is free to be taken by the first in the queue.
NoLostWakeup ==
    ~destroyed /\ waiters # <<>> =>
        \/ Writers # {}
        \/ /\ QueuedWriters # {}
           /\ Readers \cup At("read_unlock") \cup At("read_lock") # {}

\* If no thread keeps the lock for ever, whoever waits for it gets it (or an
\* error, when the lock is destroyed), however many threads come after it.
EveryWaiterServed ==
    (\A t \in Threads : []<>(reads[t] = 0 /\ writes[t] = 0))
        => \A t \in Threads : (pc[t] # "running" ~> pc[t] = "running")

=============================================================================
