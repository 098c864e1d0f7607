----------------------------- MODULE Semaphore -----------------------------
(***************************************************************************)
(* The counting semaphores of src/system/kernel/sem.cpp: acquire, switch,  *)
(* release, select and deselect, and what a deletion does to those who     *)
(* wait.  The table of semaphores is the module SemTable's.                *)
(*                                                                         *)
(* count is decremented by everyone who acquires or starts to wait,        *)
(* net_count by those who acquire only.  Each function is a section under  *)
(* the semaphore's spinlock (queues are touched with gThreadSpinlock held  *)
(* in addition); a thread that has to wait leaves that section, may        *)
(* release another semaphore, sleeps, and enters a second one.  The wait   *)
(* can end at any time in between.                                         *)
(***************************************************************************)
EXTENDS Integers, Sequences, SequencesExt, FiniteSetsExt, ThreadBlock, WaiterQueue

CONSTANTS
    Threads,
    Sems,               \* the slots of the table
    NoSem,
    Infos,              \* the select_infos of waiting callers
    InitialCounts,      \* what create_sem() is called with
    AcquireCounts,      \* what acquire_sem_etc() is called with
    ReleaseCounts,      \* what release_sem_etc() is called with
    Impatient,          \* the threads that use a timeout or can be interrupted
    MaxCount,           \* bound: net_count is not raised above
    MaxGeneration       \* bound: how often a semaphore is deleted

ASSUME SemaphoreAssumption ==
    /\ NoSem \notin Sems
    /\ InitialCounts \subseteq Nat
    /\ AcquireCounts \subseteq Nat \ {0}
    /\ ReleaseCounts \subseteq Nat \ {0}
    /\ Impatient \subseteq Threads

VARIABLES
    active,         \* the semaphores that exist
    generation,     \* how often the slot was used: slot and generation are the id
    count,          \* sem_entry.count
    net_count,      \* sem_entry.net_count
    queue,          \* sem_entry.queue: the queued threads, first one first
    select_infos,   \* sem_entry.select_infos
    selected,       \* the id an info has been selected for
    events,         \* the events an info has been notified of
    wait_status,    \* thread.wait.status
    pc,             \* "running"; "release": queued, the other semaphore of a
                    \* switch is not released yet; "blocked"
    obj,            \* the semaphore the thread waits for
    want,           \* queued_thread.count
    toRelease       \* the id of the semaphore a switch is to release

semVars == <<active, generation, count, net_count, queue>>
selectVars == <<select_infos, selected, events>>
threadVars == <<pc, obj, want, toRelease>>
vars == <<semVars, selectVars, wait_status, threadVars>>

Id(s) == <<s, generation[s]>>
NoId == <<NoSem, 0>>
Ids == (Sems \X (0 .. MaxGeneration)) \cup {NoId}

TypeOK ==
    /\ active \subseteq Sems
    /\ generation \in [Sems -> 0 .. MaxGeneration]
    /\ count \in [Sems -> Int]
    /\ net_count \in [Sems -> 0 .. MaxCount]
    /\ queue \in [Sems -> Seq(Threads)]
    /\ select_infos \in [Sems -> SUBSET Infos]
    /\ selected \in [Infos -> Ids]
    /\ events \in [Infos -> SUBSET {"acquire", "invalid"}]
    /\ wait_status \in [Threads -> WaitStatus]
    /\ pc \in [Threads -> {"running", "release", "blocked"}]
    /\ obj \in [Threads -> Sems \cup {NoSem}]
    /\ want \in [Threads -> Nat]
    /\ toRelease \in [Threads -> Ids]

\* Every slot has a semaphore to begin with.
Init ==
    /\ active = Sems
    /\ generation = [s \in Sems |-> 0]
    /\ count \in [Sems -> InitialCounts]
    /\ net_count = count
    /\ queue = [s \in Sems |-> <<>>]
    /\ select_infos = [s \in Sems |-> {}]
    /\ selected = [i \in Infos |-> NoId]
    /\ events = [i \in Infos |-> {}]
    /\ wait_status = [t \in Threads |-> "B_OK"]
    /\ pc = [t \in Threads |-> "running"]
    /\ obj = [t \in Threads |-> NoSem]
    /\ want = [t \in Threads |-> 0]
    /\ toRelease = [t \in Threads |-> NoId]

-----------------------------------------------------------------------------
(***************************************************************************)
(* The two loops over the queue.  Each is a fold over the queued threads   *)
(* whose accumulator has the counts, the threads to wake, the threads that *)
(* stay queued and, as left, what is still to be released; the loop stops  *)
(* at the first thread that stays.                                         *)
(***************************************************************************)
Loop(s, n) == [count |-> count[s], net |-> net_count[s], left |-> n,
               wake |-> {}, stay |-> <<>>]

Stays(r, t) == [r EXCEPT !.stay = Append(@, t)]

\* The wait of t has failed, but t has not removed its entry yet.
Drop(r, t) == [r EXCEPT !.count = @ + want[t]]

IsWaiting(t) == thread_is_blocked(wait_status, t)

\* Mutant: a thread that asks for all there is stays asleep.
UnsatisfiedMutant(n, available) == n >= available
Unsatisfied(n, available) == n > available

\* One round of the loop of release_sem_etc().
ReleaseRound(r, t) ==
    IF r.left = 0 \/ r.stay # <<>> THEN Stays(r, t)
    ELSE IF ~IsWaiting(t) THEN Drop(r, t)
    ELSE IF Unsatisfied(want[t], r.net + r.left)
    THEN [Stays(r, t) EXCEPT !.count = @ + r.left, !.net = @ + r.left, !.left = 0]
    ELSE LET delta == IF r.left < want[t] THEN r.left ELSE want[t]
         IN  [r EXCEPT !.count = @ + delta, !.net = @ + delta - want[t],
                       !.left = @ - delta, !.wake = @ \cup {t}]

\* if (entry == NULL): the queue has run empty.
NobodyWaits(r, ifWaitingOnly) ==
    IF ifWaitingOnly \/ r.stay # <<>> THEN r
    ELSE [r EXCEPT !.count = @ + r.left, !.net = @ + r.left]

Release(s, n, ifWaitingOnly) ==
    NobodyWaits(FoldLeft(ReleaseRound, Loop(s, n), queue[s]), ifWaitingOnly)

\* Mutant: a thread that is woken does not reduce net_count.
WakeNextMutant(r, t) == [r EXCEPT !.wake = @ \cup {t}]
WakeNext(r, t) == [r EXCEPT !.net = @ - want[t], !.wake = @ \cup {t}]

\* Mutant: the loop goes on behind a thread that is not satisfied.
RemoveRoundMutant(r, t) ==
    IF ~IsWaiting(t) THEN Drop(r, t)
    ELSE IF Unsatisfied(want[t], r.net) THEN Stays(r, t)
    ELSE WakeNext(r, t)

\* One round of the loop of remove_thread_from_sem().
RemoveRound(r, t) ==
    IF r.stay # <<>> THEN Stays(r, t)
    ELSE IF ~IsWaiting(t) THEN Drop(r, t)
    ELSE IF Unsatisfied(want[t], r.net) THEN Stays(r, t)
    ELSE WakeNext(r, t)

\* Mutant: the thread returns and leaves its entry in the queue.
UnqueueMutant(s, t) == [Drop(Loop(s, 0), t) EXCEPT !.stay = queue[s]]

\* remove_thread_from_sem()
Unqueue(s, t) ==
    FoldLeft(RemoveRound, Drop(Loop(s, 0), t), Dequeue(queue[s], t))

\* Mutant: select_infos are notified only when the semaphore was 0 before.
NotifyMutant(s, newCount) ==
    IF newCount > 0 /\ count[s] = 0 THEN select_infos[s] ELSE {}

\* if (count > 0) notify_sem_select_events(B_EVENT_ACQUIRE_SEMAPHORE)
Notify(s, newCount) == IF newCount > 0 THEN select_infos[s] ELSE {}

\* The state after a loop on s has ended with r.
AfterLoop(s, r) ==
    /\ count' = [count EXCEPT ![s] = r.count]
    /\ net_count' = [net_count EXCEPT ![s] = r.net]
    /\ queue' = [queue EXCEPT ![s] = r.stay]
    /\ wait_status' = thread_unblock_each(wait_status, r.wake, "B_OK")
    /\ events' = [i \in Infos |-> IF i \in Notify(s, r.count)
                                  THEN events[i] \cup {"acquire"}
                                  ELSE events[i]]

\* How far net_count may still be raised, within the bound MaxCount.
Headroom(s) ==
    MaxCount - net_count[s]
        - Cardinality({t \in Threads : pc[t] = "release" /\ toRelease[t] = Id(s)})

-----------------------------------------------------------------------------
(***************************************************************************)
(* The operations.                                                         *)
(***************************************************************************)

\* acquire_sem_etc(), switch_sem_etc() that need not wait.  The semaphore a
\* switch names is not released in this case.
acquire_sem(t, s, n) ==
    /\ pc[t] = "running"
    /\ s \in active
    /\ count[s] - n >= 0
    /\ count' = [count EXCEPT ![s] = @ - n]
    /\ net_count' = [net_count EXCEPT ![s] = @ - n]
    /\ UNCHANGED <<active, generation, queue, selectVars, wait_status,
                   threadVars>>

\* switch_sem_etc(), up to the wait; other is NoId in acquire_sem_etc().
switch_sem(t, s, n, other) ==
    /\ pc[t] = "running"
    /\ s \in active
    /\ count[s] - n < 0
    /\ other # NoId => Headroom(other[1]) >= 1
    /\ count' = [count EXCEPT ![s] = @ - n]
    /\ queue' = [queue EXCEPT ![s] = Append(@, t)]
    /\ want' = [want EXCEPT ![t] = n]
    /\ obj' = [obj EXCEPT ![t] = s]
    /\ toRelease' = [toRelease EXCEPT ![t] = other]
    /\ wait_status' = thread_prepare_to_block(wait_status, t)
    /\ pc' = [pc EXCEPT ![t] = IF other = NoId THEN "blocked" ELSE "release"]
    /\ UNCHANGED <<active, generation, net_count, selectVars>>

\* switch_sem_etc() of a thread that has a signal pending when it would have
\* to wait: it only releases the other semaphore.
switch_sem_interrupted(t, s, n, other) ==
    /\ pc[t] = "running"
    /\ t \in Impatient
    /\ s \in active
    /\ count[s] - n < 0
    /\ Headroom(other[1]) >= 1
    /\ AfterLoop(other[1], Release(other[1], 1, FALSE))
    /\ UNCHANGED <<active, generation, select_infos, selected, threadVars>>

\* switch_sem_etc() releases the other semaphore, unless its id is stale.
switch_sem_release(t) ==
    LET other == toRelease[t] IN
    /\ pc[t] = "release"
    /\ pc' = [pc EXCEPT ![t] = "blocked"]
    /\ \/ /\ other[1] \in active /\ other = Id(other[1])
          /\ AfterLoop(other[1], Release(other[1], 1, FALSE))
       \/ /\ ~(other[1] \in active /\ other = Id(other[1]))
          /\ UNCHANGED <<count, net_count, queue, wait_status, events>>
    /\ UNCHANGED <<active, generation, select_infos, selected, obj, want,
                   toRelease>>

\* The timer: thread_block_timeout().
thread_block_timeout(t) ==
    /\ pc[t] = "blocked"
    /\ t \in Impatient
    /\ thread_is_blocked(wait_status, t)
    /\ wait_status' = thread_unblock_locked(wait_status, t, "B_TIMED_OUT")
    /\ UNCHANGED <<semVars, selectVars, threadVars>>

\* A signal: thread_interrupt(), or the check in thread_block_locked().
thread_interrupt(t) ==
    /\ pc[t] \in {"release", "blocked"}
    /\ t \in Impatient
    /\ thread_is_blocked(wait_status, t)
    /\ wait_status' = thread_unblock_locked(wait_status, t, "B_INTERRUPTED")
    /\ UNCHANGED <<semVars, selectVars, threadVars>>

\* switch_sem_etc() after the wait.
switch_sem_return(t) ==
    LET s == obj[t] IN
    /\ pc[t] = "blocked"
    /\ ~thread_is_blocked(wait_status, t)
    /\ pc' = [pc EXCEPT ![t] = "running"]
    /\ obj' = [obj EXCEPT ![t] = NoSem]
    /\ want' = [want EXCEPT ![t] = 0]
    /\ toRelease' = [toRelease EXCEPT ![t] = NoId]
    /\ \/ /\ InQueue(queue[s], t)
          /\ AfterLoop(s, Unqueue(s, t))
       \/ /\ ~InQueue(queue[s], t)
          /\ UNCHANGED <<count, net_count, queue, wait_status, events>>
    /\ UNCHANGED <<active, generation, select_infos, selected>>

\* release_sem_etc(s, n, flags) without B_RELEASE_ALL.
release_sem_etc(s, n, ifWaitingOnly) ==
    /\ s \in active
    /\ Headroom(s) >= n
    /\ AfterLoop(s, Release(s, n, ifWaitingOnly))
    /\ UNCHANGED <<active, generation, select_infos, selected, threadVars>>

\* B_RELEASE_ALL: count = net_count - count
ReleaseAll(s) == net_count[s] - count[s]

\* release_sem_etc(s, 0, B_RELEASE_ALL)
release_sem_all(s) ==
    /\ s \in active
    /\ ReleaseAll(s) # 0
    /\ AfterLoop(s, Release(s, ReleaseAll(s), TRUE))
    /\ UNCHANGED <<active, generation, select_infos, selected, threadVars>>

select_sem(i, s) ==
    /\ selected[i] = NoId
    /\ s \in active
    /\ selected' = [selected EXCEPT ![i] = Id(s)]
    /\ select_infos' = [select_infos EXCEPT ![s] = @ \cup {i}]
    /\ events' = [events EXCEPT ![i] = IF count[s] > 0 THEN {"acquire"} ELSE {}]
    /\ UNCHANGED <<semVars, wait_status, threadVars>>

deselect_sem(i) ==
    LET s == selected[i][1] IN
    /\ selected[i] # NoId
    /\ selected' = [selected EXCEPT ![i] = NoId]
    /\ select_infos' =
          IF s \in active /\ selected[i] = Id(s)
          THEN [select_infos EXCEPT ![s] = @ \ {i}]
          ELSE select_infos
    /\ UNCHANGED <<semVars, events, wait_status, threadVars>>

\* All those who wait are woken.
DeleteWakes(s) ==
    thread_unblock_each(wait_status, ToSet(queue[s]), "B_BAD_SEM_ID")

\* uninit_sem_locked()
delete_sem(s) ==
    /\ s \in active
    /\ generation[s] < MaxGeneration
    /\ active' = active \ {s}
    /\ events' = [i \in Infos |-> IF i \in select_infos[s]
                                  THEN events[i] \cup {"invalid"}
                                  ELSE events[i]]
    /\ select_infos' = [select_infos EXCEPT ![s] = {}]
    /\ wait_status' = DeleteWakes(s)
    /\ queue' = [queue EXCEPT ![s] = <<>>]
    /\ UNCHANGED <<generation, count, net_count, selected, threadVars>>

\* create_sem_etc() reuses the slot with its next id.
create_sem(s, n) ==
    /\ s \notin active
    /\ active' = active \cup {s}
    /\ generation' = [generation EXCEPT ![s] = @ + 1]
    /\ count' = [count EXCEPT ![s] = n]
    /\ net_count' = [net_count EXCEPT ![s] = n]
    /\ select_infos' = [select_infos EXCEPT ![s] = {}]
    /\ queue' = [queue EXCEPT ![s] = <<>>]
    /\ UNCHANGED <<selected, events, wait_status, threadVars>>

Next ==
    \/ \E t \in Threads :
          \/ switch_sem_release(t)
          \/ switch_sem_return(t)
          \/ thread_block_timeout(t)
          \/ thread_interrupt(t)
          \/ \E s \in Sems, n \in AcquireCounts :
                \/ acquire_sem(t, s, n)
                \/ switch_sem(t, s, n, NoId)
                \/ \E o \in active \ {s} :
                      \/ switch_sem(t, s, n, Id(o))
                      \/ switch_sem_interrupted(t, s, n, Id(o))
    \/ \E s \in Sems :
          \/ \E n \in ReleaseCounts, b \in BOOLEAN : release_sem_etc(s, n, b)
          \/ release_sem_all(s)
          \/ delete_sem(s)
          \/ \E n \in InitialCounts : create_sem(s, n)
          \/ \E i \in Infos : select_sem(i, s)
    \/ \E i \in Infos : deselect_sem(i)

Spec == Init /\ [][Next]_vars

-----------------------------------------------------------------------------
(***************************************************************************)
(* Properties.                                                             *)
(***************************************************************************)

\* What the queued threads of s have asked for.
Asked(s) == FoldLeft(LAMBDA n, t : n + want[t], 0, queue[s])

\* net_count is "count + acquisition count of all blocked threads", and is
\* never overdrawn: whatever times out, is interrupted, woken or released, no
\* unit is created or lost, and nobody acquires what is not there.
NetCountInv ==
    \A s \in active :
        /\ net_count[s] = count[s] + Asked(s)
        /\ net_count[s] >= 0

\* A thread sleeps only in the queue of an existing semaphore, once, and a queue has
\* no thread that has returned, or waits for something else.
QueuesMatchWaiters ==
    /\ \A t \in Threads :
          pc[t] # "running" /\ thread_is_blocked(wait_status, t) =>
              /\ obj[t] \in active
              /\ Cardinality({k \in DOMAIN queue[obj[t]] : queue[obj[t]][k] = t}) = 1
    /\ \A s \in Sems : \A t \in ToSet(queue[s]) : pc[t] # "running" /\ obj[t] = s

\* A selected semaphore that can be acquired has been reported, whoever made
\* it so, and a deleted one as invalid.
SelectNotified ==
    \A i \in Infos : selected[i] # NoId =>
        LET s == selected[i][1] IN
        IF s \in active /\ selected[i] = Id(s)
        THEN count[s] > 0 => "acquire" \in events[i]
        ELSE "invalid" \in events[i]

\* Nobody is overtaken in a queue: a thread is woken with its units only if no thread
\* before it goes on waiting.  A caller that need not wait may pass threads that
\* sleep in the queue, after a release that ended its loop too early for them, but
\* it leaves what all of them together have asked for.
NoOvertaking ==
    [][\A s \in active :
          /\ \A i, j \in DOMAIN queue[s] :
                (/\ i < j
                 /\ thread_is_blocked(wait_status, queue[s][j])
                 /\ wait_status'[queue[s][j]] = "B_OK")
                    => ~thread_is_blocked(wait_status', queue[s][i])
          /\ \A t \in Threads, n \in AcquireCounts :
                acquire_sem(t, s, n) => Asked(s) <= net_count'[s]]_vars

\* The first thread of the queue sleeps beside the units it waits for.
Stranded(s) ==
    /\ s \in active
    /\ queue[s] # <<>> /\ IsWaiting(Head(queue[s]))
    /\ want[Head(queue[s])] <= net_count[s]

\* "If its count is satisfied, unblock it": the first thread in the queue does
\* not sleep while there is what it waits for.  The code keeps this for units that
\* are acquired one at a time.
SatisfiedIsUnblocked == \A s \in Sems : ~Stranded(s)

\* A step that releases units of s, by a caller that names their number.
ReleasesSome(s) ==
    \/ \E n \in ReleaseCounts, b \in BOOLEAN : release_sem_etc(s, n, b)
    \/ \E t \in Threads : switch_sem_release(t) /\ toRelease[t] = Id(s)
    \/ \E t \in Threads, o \in Sems, n \in AcquireCounts :
          switch_sem_interrupted(t, o, n, Id(s))

\* Only the loop of a release, which ends when its units are used up (sem.cpp:994),
\* leaves a thread asleep beside the units it waits for.  A thread that gives up, or
\* one that starts to wait or acquires, never does, nor does B_RELEASE_ALL: the loop
\* of remove_thread_from_sem() wakes everyone its leaving satisfies.
OnlyReleaseStrands ==
    [][\A s \in Sems : ~Stranded(s) /\ Stranded(s)' => ReleasesSome(s)]_vars

=============================================================================
