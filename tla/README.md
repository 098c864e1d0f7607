# The synchronization core of the Haiku kernel, in TLA+

Haiku's kernel rests on a small set of synchronization objects: mutexes,
read-write locks, counting semaphores, condition variables and, built on top of
these, message ports and the mutexes of userland programs. Under them are the
wait of a thread, the timers that end it, and the messages CPUs send each other.
Every other part of the system assumes that they exclude, wake and count as they
should. They are also the part that tests reach least: what can go wrong there
needs three or four threads or CPUs, a timeout and an order of steps nobody has
written down. This project models that core, checks it with TLC on small
instances, and proves its safety properties with TLAPS for any number of threads, CPUs and
objects.

All paths below are relative to the repository; `lock.cpp`, `sem.cpp`,
`port.cpp`, `thread.cpp`, `timer.cpp`, `smp.cpp`, `user_mutex.cpp` and
`condition_variable.cpp` are the files of `src/system/kernel/` (`lock.cpp` and
`user_mutex.cpp` in `locks/`), `lock.h` and `thread.h` those of
`headers/private/kernel/`; `mutex.cpp` is that of `src/system/libroot/os/locks/`,
`pthread_mutex.cpp` and `pthread_cond.cpp` are those of
`src/system/libroot/posix/pthread/`.

## 1. Inventory

### The parts that are modelled

**Thread blocking** (`thread.h`, `thread.cpp`). State: `thread.wait.status`, 1
while a thread waits. A thread prepares to block, is unblocked by whoever ends
its wait with one compare-and-swap, and reads the result when it runs again.
What is hard: an unlocker, a timer and a signal all want to end the same wait,
and the first one wins; the others have to notice that they lost.
Correct if a wait ends once and its first result is the one the thread sees.

**Mutex** (`lock.cpp`, `lock.h`). Two implementations. In the release build a
mutex is a count changed by atomic operations, a flag `MUTEX_FLAG_RELEASED`, a
counter of unlocks to be ignored and a queue; only contended calls take
`gThreadSpinlock`. In the debug build (the default one) it has a holder and a
queue, and everything runs under the spinlock. Operations: lock, lock with
timeout, trylock, unlock, destroy, switch from one mutex to another in one
step, transfer to another thread (debug). What is hard: the time between the
atomic operation and the spinlock; timeouts racing hand-overs; destroying a
mutex others are on their way into.
Correct if there is one owner at most, nobody is forgotten or overtaken, and
nobody touches a destroyed mutex whose guard was held.

**Read-write lock** (`lock.cpp`, `lock.h`). A count that readers change without
a lock and to which each writer adds 65536, the numbers of active and of
pending readers, holder and owner count, and a queue. Operations: read and
write lock and unlock, nested in each other by the write owner, and destroy.
What is hard: readers that have raised the count, but are not yet known to
anybody who looks at the queue.
Correct if a writer is alone, no assertion fails, and no waiter is forgotten.

**Semaphores** (`sem.cpp`). Per semaphore `count`, `net_count`, a queue and the
callers that selected it. Operations: create, delete, acquire (any number of
units, with timeout, interruptible), switch (queue for one, release another),
release (with the flags "all" and "if waiting only"), select, deselect. The
table of semaphores has ids, a free list and a list for each team, under three
different spinlocks; a team that goes away deletes its semaphores.
What is hard: threads in the queue whose wait has already ended; semaphores
deleted and replaced while threads return from a wait; lists that are changed in
several sections.
Correct if no unit is lost or invented, nobody sleeps beside what it waits for,
and no slot is lost or freed twice.

**Condition variables** (`condition_variable.cpp`). A list of entries; a thread
adds one, drops its lock, and waits. What is hard: a notification between `Add()`
and `Wait()`, and a notifier and a timeout that both remove the entry.

**Ports** (`port.cpp`). A bounded queue of messages: id, capacity, read count,
write count, messages, and two condition variables. Operations: create, close,
delete, read, peek, ask for message info, write. What is hard: everything may
have changed when a caller comes back from its wait, and a wake-up may hit one
that cannot use it.
Correct if the counts match the queue, nobody sleeps beside a message or a free
place, and no message ends up in another port.

**User mutexes, pthread mutexes and condition variables** (`user_mutex.cpp`,
`mutex.cpp`, `pthread_mutex.cpp`, `pthread_cond.cpp`). A mutex is a word with the
flags LOCKED and WAITING in the memory of a team; the kernel keeps a table of
waiting threads, an entry with a condition variable for each. Pthread mutexes add
an owner and a recursion count, pthread conditions a count of waiters. Operations:
lock, timed lock, trylock, unlock; wait, timed wait, signal, broadcast. What is
hard: userland and kernel change the same word, and between a thread's atomic
operation and its system call anything may happen.
Correct if there is one owner, the WAITING flag is set while someone waits, and
whoever sleeps in a mutex that is unlocked gets it in turn.

**Timers** (`timer.cpp`). Each CPU has a list of events and a hardware timer.
Operations: add, cancel, the timer interrupt. What is hard: the interrupt calls
an event's hook without the spinlock, while another CPU cancels the event, and
the one who cancels frees the event (it may be on its stack) when the call
returns.
Correct if a cancelled event is really gone, and no timeout is forgotten.

**Inter-CPU messages** (`smp.cpp`). A pool of messages, a mailbox for each CPU
and one for broadcasts. Operations: send to one CPU, to several or to all, with
or without waiting for the answers; process the pending messages, in the interrupt
and in each loop that waits with interrupts disabled. What is hard: CPUs that wait
for each other, and messages that are returned to the pool while others look at
them.
Correct if a message is freed once, by the last one who uses it, a SYNC message
has been processed by all when its sender goes on, and nobody waits for ever.

### How they interact

      pthread mutexes, conditions
                 |
             User mutexes     callers (VM, VFS, teams, drivers)
                 |            |         |           |        |
                 |          Mutex    RW lock   Semaphores  Ports -- Mutex
                 |            |         |           |        |
          Condition variables-|---------|-----------|--------+
                 |            |         |           |
                 +------------+----+----+-----------+
                                   |
                            Thread blocking  <---- Timers, signals
                                   |
                  gThreadSpinlock and other spinlocks  <-- Inter-CPU messages

The locks share `gThreadSpinlock` and the thread's wait status, not state of
their own. Ports and user mutexes use condition variables; whoever waits for a spinlock
processes inter-CPU messages meanwhile; a team's deletion calls into semaphores
and ports. The callers matter as well: a mutex may be destroyed only under
rules that its callers follow, which the module `MutexClients` states.

### The parts that are not modelled

Listed in `PROJECT.json` with the reasons: recursive locks (planned, see 8);
scheduler, thread creation and death, signals, teams, `wait_for_objects()`, the
low resource manager, the allocators, virtual memory, the caches, VFS, POSIX IPC,
file systems, drivers and everything else in userland (outside this core). Within
the modelled parts these are left out:

- mutexes and read-write locks: `mutex_switch_from_read_lock()` (planned), the
  debugging variant of the read-write lock (a plain write lock);
- ports: memory for messages and the table of ports (planned);
- condition variables: `Publish()`/`Unpublish()` and the hash of published
  variables (planned);
- user mutexes: `B_USER_MUTEX_DISABLED`, which nothing sets; a page that cannot be
  wired; a `PTHREAD_MUTEX_NORMAL` mutex that a thread locks twice (it sleeps for
  ever, as POSIX asks);
- timers: timers that are cancelled on a CPU which is in `timer_interrupt()`, by a hook
  or by an inter-CPU message that is processed while a hook spins (`timer.cpp:280` in
  section 5), and two callers that cancel one event at the same time; the hardware
  timer is what `timer.cpp` takes it for;
- inter-CPU messages: the rendezvous of the boot, the time before ICIs are
  enabled, `SMP_MSG_CPU_HALT`, and memory freed with a message
  (`SMP_MSG_FLAG_FREE_ARG`);
- everywhere: the kernel debugger's commands, tracing, and the early-boot paths
  where there is no thread yet.

The hazards of the code, each with its line and the properties aimed at it, are
the list `hazards` of `PROJECT.json`.

## 2. Modules

| Module | Models | Built on |
|---|---|---|
| `ThreadBlock` | `thread_prepare_to_block()`, `thread_unblock_locked()` | |
| `WaiterQueue` | the waiter queues of `lock.cpp`, and others, as sequences | |
| `MutexClients` | which calls a correct caller may make | |
| `AbstractMutex` | what a mutex promises | |
| `Mutex` | the release build's mutex | the four above |
| `LockLemmas` | lemmas about queues, numbers and cardinalities that the proofs share | `ThreadBlock`, `WaiterQueue` |
| `MutexProofs` | theorems about `Mutex`: types, counts, queue, exclusion, destruction, refinement of `AbstractMutex`, order of service, no lost unlock | `Mutex`, `LockLemmas` |
| `MutexDebug` | the debug build's mutex | `ThreadBlock`, `WaiterQueue`, `MutexClients` |
| `MutexDebugProofs` | theorems about `MutexDebug` | `MutexDebug`, `LockLemmas` |
| `RWLock` | the read-write lock | `ThreadBlock`, `WaiterQueue` |
| `RWLockProofs` | theorems about `RWLock` | `RWLock`, `LockLemmas` |
| `Semaphore` | acquire, switch, release, select, what deletion does to waiters | `ThreadBlock`, `WaiterQueue` |
| `SemTable` | slots, ids, free list, the teams' lists | |
| `SemProofs` | theorems about `SemTable` and about `Semaphore` | `SemTable`, `Semaphore`, `LockLemmas` |
| `ConditionVariable` | entries, `Add()`, `Wait()`, `NotifyOne()`, `NotifyAll()` | `ThreadBlock`, `WaiterQueue` |
| `Port` | one slot of the port table, with its readers and writers | `ConditionVariable` |
| `PortProofs` | theorems about `Port` | `Port`, `LockLemmas` |
| `UserMutex` | the kernel's table and system calls, libroot's mutexes, pthread mutexes and conditions | `ConditionVariable` |
| `UserMutexProofs` | theorems about `UserMutex` | `UserMutex`, `LockLemmas` |
| `Machine` | the CPUs | |
| `Timer` | the CPUs' event lists, the timer interrupt, add and cancel | `WaiterQueue`, `Machine` |
| `SMP` | message pool, mailboxes, senders and handlers of all CPUs | `WaiterQueue`, `Machine` |
| `CPUProofs` | theorems about `Timer` and about `SMP` | `Timer`, `SMP`, `LockLemmas` |
| `MCMutex`, `MCMutexDebug` | guard relations for TLC | |
| `MCSMP` | what each CPU sends | |
| `MCSemaphore` | symmetry and view for TLC | |

Variables and operators have the names of the fields and functions they model. The
specifications are called `Spec`, and `TableSpec` and `SMPSpec` in `SemTable` and `SMP`,
so that one module of proofs can extend two of them.
`pc[t]` tells where in the code a thread is; its other local variables are
functions of the thread as well.

**The grain.** A section under a spinlock or a mutex is one step. Whatever
happens outside of one is a step of its own: the `atomic_add()` of an inline
function, the sleep, the second section after it, each list that has a lock of
its own. Where the code keeps the spinlock while others can still change the
same word atomically (`mutex_switch_lock()` in the release build) the section is
two steps, and a variable says who has the spinlock in between. A port's lock is
a mutex that a writer keeps while it waits for memory, which is also two steps.
`_user_mutex_switch_lock()` changes two words under the table lock, in two steps.
The words of user mutexes are changed atomically by userland at any time; each
section of the kernel does one atomic operation on a word and is therefore one
step. In `Timer` a section under a CPU's spinlock is a step, and a hook runs between
two. `add_timer()` reads the clock before it disables interrupts: a caller that has them
enabled (an alarm, a driver) reads it in a step of its own (`add_timer_begin`) and can be
preempted before the section that uses it (`add_timer_insert`); for a caller that has
interrupts disabled already the two are one step (`add_timer`). In `SemTable`
`sem_delete_owned_sems()` takes the head of its list without a lock, in two steps. What
somebody who changes the same links in between leaves behind depends on overwritten
memory; the history variable `clash` records that it has happened. In `SMP` a section
under one of the module's own spinlocks is a step.
The spinlocks and the port's mutex themselves are taken to exclude; the module
`Mutex` is the justification of the second.

**The data.** Messages are represented by the id of the port they were written
to. Queues are sequences of threads: the linked list of `lock.cpp`, in which only
the first waiter has a valid `last` pointer, is not modelled as such. Ids of
semaphores are numbers in `SemTable`, with the wrap-around of the 32 bit id at
`MaxId`; in `Semaphore` an id is a slot and a generation, the pair the id stands
for. Wait results are the error codes that callers can tell apart. `Wait()` of
the condition variable returns a timeout and a signal as the same error, since the
callers do the same with both. Time in `Timer` is relative, what remains until an
event is due. A message in `SMP` has no contents: what matters is who processes it.

**Correct callers.** `MutexClients` says what callers do: a global mutex is
never destroyed; a guarded one belongs to an object that is found, and destroyed,
under the guard, and is entered by `mutex_trylock()` under the guard or by
`mutex_switch_lock()` from it. That is how `VMCache` uses `sCacheListLock`. A
read lock is not nested by a thread that is not the writer (a second reader
behind a waiting writer would be a deadlock of the caller's making). In the runs a
semaphore is used only by callers that know its id, and a caller passes each call
valid arguments: the early returns for bad ones change nothing. One early return does
matter and is an action: `add_timer()` refuses a timeout that would be negative, and
`thread_block_with_timeout_locked()` blocks all the same (`add_timer_refused`).

**Bounds in the guards.** `MaxNesting` (locks nested by a write owner),
`MaxCount` (units of a semaphore), `MaxGeneration` (deletions of a semaphore),
`MaxId` of `Port` (ports created in the slot) and `MaxMessages` (the messages a
port may hold before writers stop to start); `MaxRecursion` of `UserMutex` (nested
locks of a recursive mutex), `Periods` of `Timer` (how far ahead events are due),
`MaxDelay` (how long a caller of `add_timer()` is held up), and
`Sends` and `Lockers` of `SMP` (each CPU sends one message, out of the given ones,
and the given CPUs use a spinlock). In `SemTable`, `MaxSems` and `MaxId`
are no bounds but parameters of the code.

## 3. Runs

A number of states is the number of distinct ones.

**`mutex_switch`** (83,000 states). Release build, four threads, a guard `g` and
a guarded mutex `o`, with trylock, switch and destroy, no timeouts. The right to
own a mutex is never lost or doubled while somebody wants it (`NoLostMutex`, of the
mutexes nobody locks with a timeout);
nobody is inside the code of a destroyed mutex or asleep on one
(`DestroyedUntouched`); every lock call returns (`EveryLockerServed`), if no
thread keeps mutexes for ever. Four threads are an owner of the guard that
destroys, a waiter in the queue, one between `atomic_add()` and spinlock, and one
that starts anew.

**`mutex_timeout`**. Release build, four threads, one mutex locked with and
without timeouts. The count agrees with the threads (`CountInv`), the queue with
those who sleep (`QueueInv`), there is one owner at most (`MutualExclusion`),
while threads are queued only the first of them gets the mutex (`NoOvertaking`), and the
whole is an implementation of `AbstractMutex` (`ImplementsAbstractMutex`): the owner and
the waiters, seen by the callers, only change as that specification allows, which is about
exclusion and hand-over and leaves the order of the waiters open. With
four threads, two can time out while an unlock is pending and another locker
comes in. The run does not check for deadlock, because the release build has one:
see the first observation of section 5.

**`mutexdebug`** (338,000 states). Debug build, three threads, a guard, a guarded
mutex and one that is locked with timeouts; the guard is also transferred.
Owners are holders and, for mutexes nobody locks with a timeout, the holder is
never a thread that has gone (`HolderInv`); of these no `panic()` of `lock.cpp` is
reached either (`NoPanic`).

**`rwlock`** (27,000 states). Four threads read, write, nest two deep, destroy
and create anew. A writer is alone (`Exclusion`), no assertion is hit
(`NoPanic`), `active_readers` and `pending_readers` are what the comments in
`lock.h` say (`ReaderCountsInv`), nobody sleeps at a free
lock (`NoLostWakeup`) and every call returns (`EveryWaiterServed`) if no thread
keeps the lock for ever. Four threads allow for a writer in, a writer in the
queue, a pending and an active reader at the same time. `Base` is the code's 65536.

**`sem`** (626,000 states). Two semaphores that start with two units, three threads
that acquire one or three units of them and switch between them, one of which may time
out or be interrupted; releases of 1, 2 and "all", one `select_info`; semaphores are
deleted and created anew in the same slot. `net_count` is "count + acquisition count
of all blocked threads" (`NetCountInv`); nobody sleeps outside the queue of an existing
semaphore, and no queue has a thread that has left (`QueuesMatchWaiters`); a semaphore
that can be acquired, or is gone, has been reported to those who selected it
(`SelectNotified`). Unequal requests are what makes a release stop in the middle of the
queue, with units left: the case of `sem.cpp:994` in section 5 is reached. What is true
of the order in spite of it is checked: within a queue nobody is woken with its
units before one that came earlier and goes on waiting, and a caller that acquires
past sleeping threads leaves as many units as all of them together wait for
(`NoOvertaking`). And that loop end is the only place: a thread that gives up, starts to
wait or acquires, and a release of everything, never leave the first of the queue asleep
beside its units (`OnlyReleaseStrands`). The threads that never give up, and the
semaphores, are symmetric, and the view leaves out what is overwritten before it is read again
(`MCSemaphore`).

**`sem_table`** (789,000 states). Two threads, two teams, two slots, ids up to 5:
each slot uses three ids before they wrap. Teams are deleted, call `exec()` and are
created again, while threads delete their semaphores and move them to the other
team. Each slot is used, free, or on its way to the free list once (`SlotAccounting`),
the teams' lists are what the teams own (`ListsMatchOwners`), and ids lead to their slot
(`IdNamesSlot`). All three are claimed until somebody removes the very semaphore
`sem_delete_owned_sems()` has just taken, or one of the list whose head it is taking
(`clash`); who deletes whose semaphores is not restricted, as it is not in the code.

**`sem_table_clash`** ends in a violation: finding 2.

**`port`**. Two readers, two writers (one that may time out), capacities 1 and 2,
two ports in the same slot, up to three messages. Entries and conditions agree, and
nobody sleeps where no notification can reach it, or at a port that is closed, gone
or replaced (`SleepersReachable`); `read_count` and `write_count` are right, and no
message is in a port it was not written to (`MessagesInv`); no message and no free
place is left beside sleepers (`NobodyForgotten`). The last one is checked for
readers without timeouts only: a reader whose wait has timed out swallows a
notification (`port.cpp:1195`).

**`user_mutex`** (164,000 states). Three threads; a mutex `m` whose waits only
end with the mutex, used with a condition variable `c`, whose waits may time out;
and a recursive mutex `n`, which two of the threads lock, with timeouts and
interrupted by signals.
Every mutex has one owner at most, whatever ends its waits, until the race of finding 1
has happened to it (`MutualExclusion`; the history `orphaned` records the mutexes whose
last waiter gave up while an unlock was between its atomic operation and its system
call); a word that is not free has an owner, or a thread in the kernel to whom it was
given or who is about to pass it on, so that no mutex is lost to a thread that was
handed it and left with an error (`LockedIsOwned`, same exception). For all words the
WAITING flag and the kernel's table agree (`WaitingFlagInv`), the count of a condition is
the number of threads that wait for it (`WaitersCounted`), and nobody takes a mutex past
those in the table (`NoOvertaking`); a mutex somebody sleeps in, and whose waits nothing
ends, is handed over (`MutexHandedOver`). Three threads are an owner on its way into the
kernel, a waiter that gives up, and one that comes anew.

**`timer`** (170,000 states). Two CPUs and three events: a periodic alarm, the
timeout of a blocked thread, and the timer of the system profiler, whose hook adds it
again and which is cancelled on its own CPU only. The profiling timer of a thread,
which is like the last, but with the thread lock (`ThreadLocked` and `Rearming`), is
covered by the proofs.
When `cancel_timer()` has returned the event is in no list, its hook does not run, and
it will not be put back (`CancelledStaysOut`); an event is in the list its `cpu` field
names, and the lists are ordered (`ListsInv`); the hardware timer fires in time for
the first event, or late by no more than the `add_timer()` that set it was held up after
it had read the clock (`HardwareTimerSet`); a timeout that was added, and not refused, comes
if it is not cancelled (`EveryTimeoutComes`). Two CPUs are what it takes for a cancel to
meet a hook; three events, for one to be behind the one that is cancelled. Periods of 0
and 2 make events that are due at once, at the same time, and one after the other, and
with a delay of one an event may be due before it is in the list.

**`smp`** (221,000 states). Three CPUs, two messages in the pool; each CPU sends
once (`MCSends`): the first one a SYNC broadcast, the second a SYNC message to the
first, a multicast or a message to itself, the third a message without SYNC to the
second. The first and the third may hold, or wait for, a spinlock meanwhile. A message is freed once, when nobody uses
it (`MessageInv`); the sender of a SYNC message goes on when all it asked have
processed it, and no other (`SyncProcessed`); every send returns
(`EverySendReturns`). With three senders and two messages the pool runs empty while
the owners of its messages wait for answers.

**`user_mutex_race`** ends in a violation: finding 1.

Every property has a mutant in `PROJECT.json`: a change of one definition, of
the kind a slip in the code would be, under which TLC finds the property
violated.

## 4. Fairness

`Mutex`, `RWLock`, `UserMutex`, `Timer` and `SMP` have a `FairSpec` (`SMPFairSpec`). It says of each
thread or CPU that a step it can take inside the modelled code is taken some day: a
thread that is ready is scheduled, and there is no wait in these functions except
for locks and wake-ups. In `Mutex` and `RWLock` nothing is assumed of callers: they
need not unlock, and the liveness properties have "if no thread keeps ... for ever"
as their premise. In `RWLock`
no thread keeps the spinlock between two steps, so that a step stays enabled
until it is taken, and weak fairness is enough. In `Mutex` the spinlock may be
taken by others again and again while a thread spins for it, and strong fairness
is needed: a CPU that spins gets the spinlock some day. The spinlocks of this
kernel are not ticket locks; this is an assumption on the hardware, as it is in the
code. Timeouts of waits are never assumed to happen.

In `UserMutex` the table lock is a mutex of the kernel, which serves its waiters in
order, so that strong fairness of the steps that take it is justified; strong
fairness of the unlock calls says that no thread keeps a mutex for ever. In `Timer`
time goes on, an interrupt that is pending is taken some day if interrupts are enabled again
and again, and a CPU that spins for the thread spinlock, or for a hook to end, gets
through some day (strong fairness, as for the spinlocks of `Mutex`). The steps of
`timer_interrupt()` and the return from `cancel_timer()` are under one fairness condition
for each CPU, as a CPU is in one of the two at a time. A thread that
was preempted in `add_timer()` goes on some day; it finds interrupts enabled only now
and then, which makes this strong fairness as well. In `SMP` a CPU
that runs or spins goes on (weak fairness), and a pending interrupt is taken if
interrupts are enabled again and again. There each CPU sends only once: the
mailboxes are stacks and the pool has no queue, so with messages without end an old
one, or a sender without one, could wait for ever.

## 5. Findings

1. **Two threads can own a user mutex** (`user_mutex.cpp:175`, run
   `user_mutex_race`). An owner clears LOCKED, sees WAITING and is about to call the
   kernel. The only waiter is interrupted or times out, takes its entry out and
   clears WAITING. It, or another thread, takes the mutex, which is free. Now the
   late system call finds no entry and, as "no one is waiting", clears LOCKED: the
   next one who comes takes the mutex too. `mutex.cpp:58` takes a mutex because "No
   one has the lock or is waiting for it". `MutualExclusion`, checked and proved for the
   mutexes to which this has not happened, shows that it is the only way to a second
   owner.
2. **A semaphore of a team that goes away can be freed twice** (`sem.cpp:714`, run
   `sem_table_clash`). `sem_delete_owned_sems()` takes the semaphores from their list
   without a lock, and does not look whether the one it took still exists when it has
   locked it. Any other team may delete it by its id in between, since
   `delete_sem_internal()` checks only the id: `uninit_sem_locked()` then reads the id
   -1, and `free_sem_slot()` is called for the slot -1, where the comment at
   `sem.cpp:265` says "The index of the semaphore slot"; `sUsedSems` is decremented a
   second time. `SlotAccounting` shows that nothing of the kind happens as
   long as nobody meets the function at that point.

Observations. Those with a module and constants in parentheses can be reproduced
with them; the properties named are defined in the modules.

- `lock.cpp:662`: a mutex that is handed to a thread that has timed out is lost. A
  timer ends the wait of the first waiter; before that thread runs, the owner
  unlocks, dequeues it and makes it the holder. The waiter finds that it is no
  longer queued and returns `B_TIMED_OUT`. The debug build has a holder that does not
  know of it, though the comment says the holder "actually reflects the current
  situation" (`MutexDebug`, one mutex that is in `TimedMutexes`,
  `HolderReflectsOwner`); in the release build the count stays negative, and
  whoever locks the mutex from then on sleeps for ever.
- `sem.cpp:994`: a release can leave a satisfied thread asleep. The loop ends when
  the units just released are used up, although the units that were there before
  would satisfy the next thread; the comment in the loop (`sem.cpp:1005`) says "If its
  count is satisfied, unblock it". A later `acquire_sem()` may then pass the thread that
  sleeps (`Semaphore`, two threads that are not `Impatient`,
  `AcquireCounts = {1, 5}`, `ReleaseCounts = {1, 3}`, `InitialCounts = {0, 3}`,
  `SatisfiedIsUnblocked`). `OnlyReleaseStrands` shows that nothing else does it.
- `port.cpp:1383`: a full port can be written to. A writer that gives up wakes the
  next one with `B_OK`, as if a place had become free; that one does not look at
  `write_count` again (`Port`, `Capacities = {1}`, `QueueWithinCapacity`).
- `timer.cpp:273`: a hook that adds its own event again remains the current event
  of its CPU until it returns. A `cancel_timer()` on another CPU in between clears
  `current_event`, does not look into the list, and returns with the event queued
  (`Timer` with a rearmed event in `Remote`, which `TimerAssumption` excludes,
  `CancelledStaysOut`). The two profilers cancel their timers on their own CPU only.
- `timer.cpp:280`: `cancel_timer()` called by the event's own hook would spin for
  ever on `current_event_in_progress`, although the comment above says "When called
  from the timer hook we don't wait either, of course": the condition holds for
  just the CPU the hook runs on, where `!=` would be what is meant. The system profiler
  can get there: its hook (`system_profiler.cpp:1354`) spins for `fLock`, a CPU that
  spins processes inter-CPU messages (`smp.cpp:318`), and one of them may be
  `_UninitTimers()` (`system_profiler.cpp:1321`), which cancels the event on that CPU.
  And as `current_event_in_progress` is set again for the CPU's next event, a CPU that
  waits may miss the moment it is 0.
- `timer.cpp:196`: the hardware timer is set from the time read at line 167, before
  interrupts were disabled. A caller that had them enabled (`signal.cpp:867`) and is
  preempted in between sets it late by just that time, for all events of the CPU up to
  then (`Timer`, `HardwareTimerSet` without `lag`).
- `thread.cpp:2326`: the result of `add_timer()` is ignored. For an absolute real-time
  timeout `rtc_boot_time()` is subtracted (line 2320); a time before the boot becomes
  negative, `add_timer()` refuses it with `B_BAD_VALUE` (`timer.cpp:170`), and the thread
  blocks without a timeout (`add_timer_refused` of `Timer`).
- `port.cpp:1195`: the swallowed notification, see the run `port`.
- `user_mutex.cpp:160`: two signals of a condition in a row may find the same first
  entry, if the thread it belongs to has not yet removed it; the second one wakes
  nobody else.
- `pthread_cond.cpp:72`: owner and recursion count of the mutex are cleared before
  the system call that gives it up, and which may fail.
- `sem.cpp:903`: a switch that need not wait does not release the other semaphore.
- In parts not modelled yet: `port.cpp:488` and following (`sAllocatingArea` stays
  set and `sTotalSpaceInUse` is raised twice on some paths); `port.cpp:456` (memory may
  be freed between the test and the `Add()`); `port.cpp:1322` (waiting for memory
  with the port locked); `port.cpp:611` (as `sem.cpp:714`, for ports).
- Limits the code does not check: 16 bit counts of readers (`lock.h:50`), 32 bit
  counts of semaphores (`sem.cpp:1012`).

## 6. Proofs

Forty-three theorems, for every value of the constants that the modules' assumptions
allow. Where a theorem states a property of a run, the run shows it on an instance,
and the theorem in general.

| Module | Theorems |
|---|---|
| `MutexProofs` | `TypeCorrect`, `CountCorrect` (`CountInv`), `QueueCorrect` (`QueueInv`), `MutexCorrect` (`MutualExclusion`), `DestroyedSafe` (`DestroyedUntouched`), `MutexImplementsAbstract` (`ImplementsAbstractMutex`), `MutexIsFair` (`NoOvertaking`), `NoUnlockIsLost` (`NoLostMutex`) |
| `MutexDebugProofs` | `DebugHolderCorrect` (`HolderInv`), `DebugNeverPanics` (`NoPanic`) |
| `RWLockProofs` | `RWLockTypes`, `RWLockExcludes` (`Exclusion`), `RWLockNeverPanics` (`NoPanic`), `RWLockCountsReaders` (`ReaderCountsInv`), `RWLockLosesNoWakeup` (`NoLostWakeup`) |
| `SemProofs` | of the table `SemTableTypes`, `SlotsAreAccountedFor` (`SlotAccounting`), `ListsHaveTheSemaphores` (`ListsMatchOwners`), `IdsNameTheirSlots` (`IdNamesSlot`); of the semaphores `NoUnitIsLost` (`NetCountInv`), `SemSleepersAreQueued` (`QueuesMatchWaiters`), `SelectorsAreNotified` (`SelectNotified`), `NobodyIsOvertaken` (`NoOvertaking`), `OnlyReleasesStrand` (`OnlyReleaseStrands`), `FirstIsUnblocked` |
| `PortProofs` | `PortTypes`, `NobodySleepsUnreachable` (`SleepersReachable`), `PortCountsItsMessages` (`MessagesInv`), `NoWriterIsForgotten`, `NobodyIsForgotten` (`NobodyForgotten`) |
| `UserMutexProofs` | `UserMutexTypes`, `PthreadMutexExcludes` (`MutualExclusion`), `NoPthreadMutexIsLost` (`LockedIsOwned`), `WaitingFlagIsRight` (`WaitingFlagInv`), `CondWaitersAreCounted` (`WaitersCounted`), `PthreadMutexIsFair` (`NoOvertaking`) |
| `CPUProofs` | `TimerTypes`, `CancelledEventsStayOut` (`CancelledStaysOut`), `ListsAreOrdered` (`ListsInv`), `HardwareTimerIsSet` (`HardwareTimerSet`); `SMPTypes`, `MessagesAreFreedOnce` (`MessageInv`), `SyncMessagesAreAnswered` (`SyncProcessed`) |

**Assumptions.** They are the `ASSUME`s of the modules, which TLC evaluates in the
runs. Threads, CPUs and messages of the pool are finite in number, where they are
counted; what stands for "none" (`NoThread`, `NoMutex`, `NoEvent`, ...) is none of
the things. Beyond that: no mutex guards itself; `Base` of the read-write lock is
greater than the threads and the nested locks together (65536 in the code, which
does not check it, see the limits in section 5); pthread mutexes and conditions are
different words; callers and teams of `SemTable`, which are both actors there, have
different names; the event a hook adds again is not cancelled from another CPU (the
profilers' timers; section 5 says what would happen); the periods of timers are
bounded; what a CPU sends is a call the functions of `smp.cpp` allow.

The theorems about `SemTable` hold until the first `clash`, and the two about owners of
user mutexes for the mutexes that are not `orphaned`: these exceptions are the two
findings of section 5, and part of the properties. Two theorems have a hypothesis of
their own:

- `FirstIsUnblocked`, `AcquireCounts = {1}`: if somebody acquires several units,
  it is false (`sem.cpp:994` in section 5);
- `NobodyIsForgotten`, `PatientReaders`: a reader whose wait has timed out may swallow
  a notification (`port.cpp:1195`). What remains true without the hypothesis, the half
  about writers, is the theorem `NoWriterIsForgotten`.

**The form.** Every specification has an inductive invariant, a conjunction of named
parts, called `IInv` (`DebugInv` for `MutexDebug`, `UnitsInv` for `Semaphore`, `SMPInv`
for `SMP`); a lemma shows that the initial states have it, one lemma for each action (or
one for each part, with a step for each action) that the action keeps it, and each
theorem follows from `IInv` by a lemma without temporal operators. TLC has checked the
invariants on instances like those of the runs before they were proved. What the lemmas
of different modules have in common is in `LockLemmas`: what a queue contains after
`Append()`, `Tail()` and `Dequeue()`, and that it still has nobody twice; how cardinalities change when one thread enters or leaves a set.

Induction is not available as such, since the library's induction theorems take an
operator as a parameter. Where a proof needs it, for numbers, it takes the least number
without the property and derives a contradiction (`CountUp` of `SemProofs` states that
once, for a set of numbers).

### The release build's mutex

`TypeCorrect` includes that `ignore_unlock_count` never becomes negative, which is
not obvious from the types of the code.

**Exclusion.** `MutualExclusion` is not inductive: whether an unlocker may
hand a mutex to a waiter depends on what the count, the flag and the unlocks to
be ignored stand for. The idea is to count *rights to own* a mutex: an owner has
one; an unlocker between its `atomic_add()` and the spinlock carries one;
`MUTEX_FLAG_RELEASED` is one; and each unlock that is going to be ignored takes
one away. `CountInv` says that this sum (`Token`) is 0 or 1; that the count is
0 just if nobody is engaged and no right is around, and otherwise
`Token - 1 -` the number of those engaged; and that no more unlocks are ignored
than are coming. `Token <= 1` with `ignore_unlock_count <= ` the unlockers gives
`MutualExclusion`. The inductive invariant `IInv` adds `QueueInv` (the queue and
those who sleep agree; needed to know whom an unlock wakes), `WantInv` (a thread
does not own what it asks for) and `TypeOK`. `TypeStep`, `WantStep`, `QueueStep`
and `CountStep` show that each part is preserved, action by action. For the
numbers, the lemmas `NumbersOne` and `NumbersTwo` say how the cardinalities
change when one or two threads move from one set to another, so that
each action's step is only linear arithmetic.

**Destruction.** That nobody is in the code of a destroyed mutex follows from the
callers' rules and from three facts, the parts of `DestroyedInv`: a thread in
the middle of `mutex_switch_lock()` has the spinlock, so that nobody can destroy
the mutex it is going to wait for; a guarded mutex has no timeouts, so that none
of its unlocks is ignored, an unlocker on its way has the right to own, and there
can be no other owner who destroys (`OwnerIsAlone`, from `CountInv`); and the
queue of a destroyed mutex is empty and stays so. The second fact shows what the
code depends on: if a guarded mutex were locked with a timeout as well, an
unlocker could find the mutex gone.

**Refinement.** The mapping gives `AbstractMutex` the owners of each mutex and the
threads that want it (those that have passed the `atomic_add()` and have neither got
the mutex nor given up), both empty for a destroyed one. Each action of `Mutex` is
shown to be one abstract step or none. The lemmas `AbstractStutter`, `MoverTakes` and
their like reduce that to who changes sides: mostly the thread that acts, and in the
slow path of an unlock the first one in the queue. Exclusion is needed where a
mutex is taken, and `QueueInv` where it is handed over. `NoOvertaking` is an action
property; it follows from the same invariant: a mutex whose queue is not empty has a
negative count and is not released (`QueueShutsDoor`), so that no locker gets in, and
an unlock wakes the first one in the queue.

**No lost unlock.** `NoLostMutex` needs a stronger count: for a mutex nobody locks
with a timeout, it is exactly minus the number of those engaged (`EngagedCount`), as
only a waiter that gives up makes the two differ. With `CountInv` it follows that the
`Token` is 1 while somebody waits.

### The debug build's mutex

There is no count here, and no time between an atomic operation and the spinlock:
`HolderInv` is nearly inductive. What has to be added is who is in the queue.
`WaitsOf` says of each thread that sleeps that it is queued, that it is not given what
is destroyed, and that it can time out only where timeouts are used. `QueueOf` says of
each mutex that its queue has each sleeper once, nobody who has been given the mutex,
and that a mutex with a queue has a holder: so a `mutex_unlock()` can give it to nobody
but a thread that still waits or has just timed out. `HoldsOf` is `HolderInv`, over
both the owners and those woken to own. `mutex_switch_lock()` unlocks one mutex and
locks another under one spinlock; the proof goes through the state in between, which is
why the parts of the invariant have the holder, the queues, the statuses and the owners
as parameters. `NoPanic` follows: the holder of a mutex nobody locks with a timeout is
its owner, who is the only one to unlock or destroy it and does not lock it again.

### The read-write lock

The count is `Base` for each writer and one for each reader that has added itself:
the number of read locks owned and of readers on their way or asleep (`ReaderShare`).
That much is `CountInv`. What makes it inductive is the bookkeeping of the two other
numbers in the three situations the lock can be in. With a holder (`HolderInv`), no
reader is active or pending, and `owner_count` is what the holder has nested. With
writers, but none in (`WaitInv`), the active readers are those who own or are just
giving up a lock, the pending ones are among those between `atomic_add()` and
spinlock, their sum is not 0 (it is the last of them who wakes the writer), and a
writer is the first in the queue. Without writers (`ReadInv`), nobody waits, and all
the readers on their way are pending. `NoLostWakeup` is a consequence of the second
and the third situation, the assertions of the code are consequences of all three.
The numbers are products with `Base`; each action's step is first reduced to sums of
cardinalities, of which the provers then need only linear facts.

### The table of semaphores

The parts about slots: the free list has each slot once (`FreeInv`), ids and next
ids lead to their slot, through the wrap-around too (`IdInv`), what somebody is about
to free is neither used nor free and nobody else is about to free it (`FreeingInv`),
and no slot is lost (`KeptInv`). The parts about lists: who inserts a semaphore has
it for itself (`InsertInv`), each of a team's two lists has what its name says
(`ListInv`), and each semaphore has an owner that is going to find it (`OwnerInv`).
Together they give that the slots that are used, free and on their way add up.

### Semaphores

The difficulty is the loops: `release_sem_etc()` and `remove_thread_from_sem()` walk the
queue, drop threads from it and change both counts, and whether a thread is dropped
depends on what the earlier rounds have left. In the model they are folds over the
queue. `FoldExists` shows that a fold is a sequence of rounds, each applied to the
result of the one before; `ReleaseRounds` and `RemoveRounds` give each loop an invariant
over the number of rounds (`After`): the threads that are gone are the first ones of the
queue, those of them that were waiting are woken, and the distance between `net_count`
and `count` has become smaller by just what they had asked for. From it follows what
the rest of the proof knows of a loop that has ended (`Good`): `net_count` is right for
the queue that stays, nobody is in it twice, whoever waited is woken or still queued, and
nobody is woken while one before it goes on waiting.

`UnitsInv` then says that `net_count` is `count` and what the queued threads ask for
(`CountedInv`), that queues have each thread once and belong to semaphores that exist
(`QueuesInv`), that whoever is queued is in a call for this semaphore (`QueuedInv`) and
whoever waits is queued (`WaitingInv`), what a `select_info` has been told (`SelectInv`),
and, for single units, that a semaphore somebody is queued for has none left
(`SingleInv`). The converse of `WaitingInv` is not claimed: a thread whose wait has ended
stays queued until it runs, and the loops have to drop or pass it. `NoOvertaking` is an
action property; its first half follows from the last part of `Good`, the second from
`CountedInv`. For `OnlyReleaseStrands` the loop of
`remove_thread_from_sem()` is followed to its end: a thread it leaves at the head of the
queue asks for more than there is.

### Ports

`IdInv` says that each port in the slot has an id of its own, so that a caller that comes
back can tell its port from a later one. `PlaceInv` and `EntryInv` say what a thread's
place in the code, its entry and the port have to do with each other; the important part
is that an entry nobody has notified belongs to the port there is, and that it is open:
closing and deleting notify everybody before they unlock. With `EntriesInv`, of the
condition variables, this is `SleepersReachable`. `MessagesInv` is inductive together
with these. The writers' half of `NobodyForgotten` needs to know how many places have
been promised: `RoomInv` says that while writers are queued, `write_count` is negative by
at least their number. A reader, or a writer that gives up, raises it by one and takes one
writer out of the queue, so that this is kept. The readers' half (`ComingInv`, under
`PatientReaders`) is that there are at least as many readers on their way as messages
while one sleeps: each message that is written wakes one, and one that peeks wakes the
next.

### User mutexes

`PlaceInv` says which kind of word a thread works on, wherever it is. `TableInv`
ties the kernel's table to the places of the threads: one entry for each that waits,
and a mutex has been handed to the first at most. `EntryInv` says of each entry's
condition variable that a wait ends by the notification or by what may disturb the
wait (`EarlyResults`), and by nothing else. `OwnInv`, for every mutex that is not
`orphaned`, counts rights to own again: `holders` is the recorded owner; or
one thread in the kernel has been given the mutex or is about to give it up (`Busy`);
never two, and the word is not free meanwhile. The crucial case is a waiter that gives up
while an unlock is on its way: if it was not the last one, WAITING stays set, the word is
not free, and the unlock finds the next waiter; if it was, the mutex is `orphaned`, and
the exception is necessary: without it the theorem would be false, see finding 1.
`RightInv` is the converse, a word that is not free has somebody with a right. It needs
that a thread which was handed the mutex takes it whatever else ended its wait
(`LockResult`). `WaitingFlagInv`, `WaitersCounted` and `NoOvertaking` hold for all mutexes.

### Timers

`CancelledStaysOut` is about three places an event can be: in a list, the current
event of a CPU, and the event a hook is running for. The current event is `Active`
while its hook is still to return, or while it may be put back: then it belongs to
the CPU, is in use and in no list. It is `Abandoned` when `cancel_timer()` has taken
it away and waits for the hook. It is `Passed` when the hook of a timeout has
returned, and the thread may already have added it again, on this or another CPU.
`CurrentInv` says what holds in each of the three, `UseInv` what the client of an
event may rely on, `WaitsInv` that one CPU at a time waits for a hook. That the lists
stay ordered (`ListsInv`) needs that insertion takes the first place whose event is
due later, and that the longest period (`Max` of a finite set) exists, which is shown
by least counterexample (`FiniteBound`). The proof is also where the assumption on
rearmed events shows: without it `Active` is not kept. `HardwareTimerSet` is kept by a
caller that was held up in `add_timer()` because the timeout it computed exceeds what is
left by no more than the time since (`AddingInv`), which becomes the CPU's `lag`.

### Inter-CPU messages

A message is in one place: in the pool, in one mailbox, or taken out of a CPU's own
one (`PlaceInv`); a broadcast message stays in the mailbox while CPUs process it, and
is unlinked by the last one, which is alone with it by then. `CountInv` says that the
reference count is the number of CPUs that have still to find the message plus the
number of those that are at it, so that the one that sees 1 is the last. `SenderInv`
says that the sender of a SYNC message is its only owner (`Owned`): the CPUs it asked
are those that have processed it, will find it, or are at it, and the message is done
only when nobody deals with it any more. The sender of another message has no such
right, and the invariant does not claim it: the message may be used again before its
`smp_send_ici()` has sent the interrupt.

## 7. Only model-checked

Liveness (`EveryLockerServed`, `EveryWaiterServed`, `MutexHandedOver`,
`EveryTimeoutComes`, `EverySendReturns`) is beyond the prover.

`NobodyForgotten` is proved, and checked, for readers without timeouts only, because it
does not hold for others. The properties of the table of semaphores, and
`MutualExclusion` and `LockedIsOwned` of user mutexes, say themselves where they stop to
hold (`clash`, `orphaned`). All the other invariants and action properties of the runs,
and the refinement, are proved without such conditions. `SatisfiedIsUnblocked` is in no
run: the code does not keep it for several units, and for single ones it is the theorem
`FirstIsUnblocked`.

## 8. Plan

Done: the modules of section 2, in the order blocking, mutexes, read-write lock,
semaphores, condition variables, ports, user mutexes, timers, inter-CPU messages.

Proved: all the safety properties that the runs check, and that `Mutex` implements
`AbstractMutex` (section 6).

Further parts worth a module: `PortSpace`, the shared memory of all ports
(`get_port_message()`, `put_port_message()`), and its composition with `Port`, for the
wait with the lock held; the waiter list with its uninitialized `last` pointers,
shown to implement `WaiterQueue`'s sequences; `mutex_switch_from_read_lock()` as a
composition of `RWLock` and `Mutex`; recursive locks; the table of ports.
