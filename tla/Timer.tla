------------------------------- MODULE Timer -------------------------------
(***************************************************************************)
(* Kernel timers (src/system/kernel/timer.cpp).                            *)
(*                                                                         *)
(* Every CPU has a list of events, ordered by the time they are due, under *)
(* a spinlock of its own.  timer_interrupt() takes the events that are due *)
(* out of the list of its CPU and calls their hooks without the spinlock;  *)
(* cancel_timer() may run at that time on another CPU.  A section under a  *)
(* CPU's spinlock is one step.  A CPU runs one thing at a time: the caller *)
(* of cancel_timer() has interrupts disabled, so timer_interrupt() starts  *)
(* on a CPU only when no cancel_timer() waits there.                       *)
(*                                                                         *)
(* Time is relative: left is what remains until the event's schedule_time, *)
(* and stays at -1 once the event is due (schedule_time < system_time()).  *)
(* add_timer() reads the clock before it disables interrupts: a caller     *)
(* that has them enabled can be held up between the two.                   *)
(*                                                                         *)
(* The clients are those of the kernel: alarms and the periodic timers of  *)
(* drivers; timers with B_TIMER_ACQUIRE_THREAD_LOCK, which are added and   *)
(* cancelled with the thread spinlock held (the timeouts of                *)
(* thread_block_with_timeout_locked(), and the profiling timer of a        *)
(* thread, whose hook adds it again); and the timers of the system         *)
(* profiler, whose hook adds them again too, without that lock.  An event  *)
(* is added when it is known not to be queued, and one caller at a time    *)
(* cancels it; no timer is cancelled on a CPU that is in timer_interrupt().*)
(***************************************************************************)
EXTENDS Integers, Sequences, FiniteSets, SequencesExt, WaiterQueue, Machine

CONSTANTS
    Events,
    Periodic,           \* the events added with B_PERIODIC_TIMER
    ThreadLocked,       \* ... with B_TIMER_ACQUIRE_THREAD_LOCK
    Rearming,           \* ... whose hook adds them again
    Remote,             \* ... that are cancelled on any CPU, not only on their own
    Periods,            \* bound: the times until an event that is added is due
    MaxDelay,           \* bound: how long a caller of add_timer() is held up
    NoEvent             \* NULL

ASSUME TimerAssumption ==
    /\ Periodic \subseteq Events /\ ThreadLocked \subseteq Events
    /\ Rearming \subseteq Events \ Periodic
    /\ Remote \subseteq Events \ Rearming
    /\ Periods \subseteq Nat /\ IsFiniteSet(Periods) /\ Periods # {}
    /\ MaxDelay \in Nat \ {0}
    /\ NoEvent \notin Events /\ NoCPU \notin CPUs

VARIABLES
    events,             \* per_cpu_timer_data::events, first event first
    current_event,      \* per_cpu_timer_data::current_event
    in_progress,        \* the CPUs with current_event_in_progress == 1
    cpu,                \* timer::cpu
    left,               \* timer::schedule_time - system_time()
    period,             \* timer::period of a periodic event, and of one being added
    hardware,           \* when the CPU's hardware timer fires, or Off
    intr, event,        \* where timer_interrupt() is, and its variable event
    waitsFor,           \* the event whose hook cancel_timer() on a CPU waits for
    threadLock,         \* the CPU that keeps gThreadSpinlock between two steps
    use,                \* what the event's client knows of it
    held,               \* how long ago add_timer() has read the clock
    lag                 \* history: held of the event the CPU's hardware timer was
                        \* set for, 0 if it was set by the current time

listVars == <<events, current_event, in_progress>>
eventVars == <<cpu, left, period, use, held>>
vars == <<listVars, eventVars, hardware, lag, intr, event, waitsFor, threadLock>>

Off == -1
MaxPeriod == Max(Periods)

\* "call": before the hook is called; "hook": the hook runs; "done": after it,
\* before the spinlock is acquired again.
InterruptPC == {"idle", "call", "hook", "done"}

\* "free": the event may be added, changed or freed: it was never added,
\* cancel_timer() has returned, or its hook has told so; "adding": add_timer() has
\* read the clock; "refused": add_timer() has failed, and the client goes on.
Uses == {"free", "adding", "added", "refused", "cancelling"}

\* The events whose clients call add_timer() with interrupts enabled.
Preemptible == Events \ (ThreadLocked \cup Rearming)

TypeOK ==
    /\ events \in [CPUs -> Seq(Events)]
    /\ current_event \in [CPUs -> Events \cup {NoEvent}]
    /\ in_progress \subseteq CPUs
    /\ cpu \in [Events -> CPUs \cup {NoCPU}]
    /\ left \in [Events -> -1 .. MaxPeriod]
    /\ period \in [Events -> Periods \cup {0}]
    /\ hardware \in [CPUs -> Off .. MaxPeriod + 1]
    /\ intr \in [CPUs -> InterruptPC]
    /\ event \in [CPUs -> Events \cup {NoEvent}]
    /\ waitsFor \in [CPUs -> Events \cup {NoEvent}]
    /\ threadLock \in CPUs \cup {NoCPU}
    /\ use \in [Events -> Uses]
    /\ held \in [Events -> 0 .. MaxDelay]
    /\ lag \in [CPUs -> 0 .. MaxDelay]

\* Nothing initialises timer::cpu before the event is added.
Init ==
    /\ events = [c \in CPUs |-> <<>>]
    /\ current_event = [c \in CPUs |-> NoEvent]
    /\ in_progress = {}
    /\ cpu \in [Events -> CPUs \cup {NoCPU}]
    /\ left = [e \in Events |-> -1]
    /\ period = [e \in Events |-> 0]
    /\ hardware = [c \in CPUs |-> Off]
    /\ intr = [c \in CPUs |-> "idle"]
    /\ event = [c \in CPUs |-> NoEvent]
    /\ waitsFor = [c \in CPUs |-> NoEvent]
    /\ threadLock = NoCPU
    /\ use = [e \in Events |-> "free"]
    /\ held = [e \in Events |-> 0]
    /\ lag = [c \in CPUs |-> 0]

-----------------------------------------------------------------------------
(***************************************************************************)
(* Lists of events.                                                        *)
(***************************************************************************)

Queued(list, e) == InQueue(list, e)

Without(list, e) == Dequeue(list, e)

\* Mutant: an event is put in front of the list.
PlacesMutant(list, l) == {1}

\* Where add_event_to_list() puts an event that is due in l: before the first that is
\* not due earlier.  (Which one of two overdue events is earlier is not modelled.)
Places(list, l) ==
    IF l < 0
    THEN {i \in 1 .. Len(list) + 1 : \A j \in 1 .. i - 1 : left[list[j]] < 0}
    ELSE {Min({i \in DOMAIN list : left[list[i]] >= l} \cup {Len(list) + 1})}

\* Mutant: the hardware timer is set only for the first event of an empty list.
SetsHardwareMutant(list, e) == list = <<e>>

\* "if we were stuck at the head of the list, set the hardware timer"
SetsHardware(list, e) == Head(list) = e

\* The locked section of add_timer() on the CPU c, for an event that is due in l.  The
\* hardware timer is set to timeout, which add_timer() computed late ago.
AddTimer(c, e, l, timeout, late) ==
    /\ \E i \in Places(events[c], l) :
          events' = [events EXCEPT ![c] = InsertAt(@, i, e)]
    /\ left' = [left EXCEPT ![e] = l]
    /\ cpu' = [cpu EXCEPT ![e] = c]
    /\ \/ /\ SetsHardware(events'[c], e)
          /\ hardware' = [hardware EXCEPT ![c] = timeout]
          /\ lag' = [lag EXCEPT ![c] = late]
       \/ /\ ~SetsHardware(events'[c], e)
          /\ UNCHANGED <<hardware, lag>>

-----------------------------------------------------------------------------
(***************************************************************************)
(* timer_interrupt().                                                      *)
(***************************************************************************)

\* Mutant: the hardware timer is not set again when timer_interrupt() is done.
RearmMutant(l) == Off

\* "setup the next hardware timer"
Rearm(l) == IF l <= 0 THEN 1 ELSE l

\* event != NULL && event->schedule_time < system_time()
Due(list, time) == IF list = <<>> THEN FALSE ELSE time[Head(list)] < 0

\* The loop of timer_interrupt() with the events list, due in time, and the hardware
\* timer set to h: takes the first event if it is due, or returns.
NextEvent(c, list, time, h) ==
    /\ left' = time
    /\ lag' = [lag EXCEPT ![c] = 0]
    /\ \/ /\ Due(list, time)
          /\ events' = [events EXCEPT ![c] = Tail(list)]
          /\ current_event' = [current_event EXCEPT ![c] = Head(list)]
          /\ in_progress' = in_progress \cup {c}
          /\ event' = [event EXCEPT ![c] = Head(list)]
          /\ intr' = [intr EXCEPT ![c] = "call"]
          /\ hardware' = [hardware EXCEPT ![c] = h]
       \/ /\ ~Due(list, time)
          /\ events' = [events EXCEPT ![c] = list]
          /\ current_event' = [current_event EXCEPT ![c] = NoEvent]
          /\ event' = [event EXCEPT ![c] = NoEvent]
          /\ intr' = [intr EXCEPT ![c] = "idle"]
          /\ hardware' = [hardware EXCEPT ![c] =
                              IF list = <<>> THEN h ELSE Rearm(time[Head(list)])]
          /\ UNCHANGED in_progress

\* The hardware timer fires.
timer_interrupt(c) ==
    /\ intr[c] = "idle" /\ waitsFor[c] = NoEvent
    /\ hardware[c] = 0
    /\ NextEvent(c, events[c], left, Off)
    /\ UNCHANGED <<cpu, period, use, held, waitsFor, threadLock>>

\* "If the event has been cancelled in the meantime, we don't call the hook
\* anymore."
Cancelled(c) == event[c] \in ThreadLocked /\ current_event[c] = NoEvent

\* The hook is called; with B_TIMER_ACQUIRE_THREAD_LOCK, first GRAB_THREAD_LOCK().
call_hook(c) ==
    /\ intr[c] = "call"
    /\ event[c] \in ThreadLocked => threadLock = NoCPU
    /\ ~Cancelled(c)
    /\ threadLock' = IF event[c] \in ThreadLocked THEN c ELSE threadLock
    /\ intr' = [intr EXCEPT ![c] = "hook"]
    /\ UNCHANGED <<listVars, eventVars, hardware, lag, event, waitsFor>>

\* The hook is not called.
skip_hook(c) ==
    /\ intr[c] = "call"
    /\ event[c] \in ThreadLocked /\ threadLock = NoCPU
    /\ Cancelled(c)
    /\ in_progress' = in_progress \ {c}
    /\ intr' = [intr EXCEPT ![c] = "done"]
    /\ UNCHANGED <<events, current_event, eventVars, hardware, lag, event, waitsFor,
                   threadLock>>

\* The hook returns.  thread_block_timeout() tells the thread that its event has
\* fired; the hooks of the profilers add their event again.
hook_returns(c) ==
    LET e == event[c]
    IN  /\ intr[c] = "hook"
        /\ \/ /\ e \in Rearming
              /\ \E l \in Periods : AddTimer(c, e, l, l, 0)
              /\ UNCHANGED use
           \/ /\ e \notin Rearming
              /\ use' = [use EXCEPT ![e] =
                            IF e \in ThreadLocked \ Periodic THEN "free" ELSE @]
              /\ UNCHANGED <<events, left, cpu, hardware, lag>>
        /\ in_progress' = in_progress \ {c}
        /\ threadLock' = IF e \in ThreadLocked THEN NoCPU ELSE threadLock
        /\ intr' = [intr EXCEPT ![c] = "done"]
        /\ UNCHANGED <<current_event, period, held, event, waitsFor>>

\* "we need to adjust it and add it back to the list"
Requeues(c) == event[c] \in Periodic /\ current_event[c] # NoEvent

\* timer_interrupt() acquires the spinlock again, and goes on.
timer_interrupt_next(c) ==
    LET e == event[c]
    IN  /\ intr[c] = "done"
        /\ \/ /\ Requeues(c)
              /\ \E i \in Places(events[c], period[e]) :
                    NextEvent(c, InsertAt(events[c], i, e),
                              [left EXCEPT ![e] = period[e]], hardware[c])
           \/ /\ ~Requeues(c)
              /\ NextEvent(c, events[c], left, hardware[c])
        /\ UNCHANGED <<cpu, period, use, held, waitsFor, threadLock>>

-----------------------------------------------------------------------------
(***************************************************************************)
(* The clients.                                                            *)
(***************************************************************************)

\* A client runs on c, with the thread spinlock if e needs it.
ClientMayRun(c, e) ==
    /\ intr[c] = "idle" /\ waitsFor[c] = NoEvent
    /\ e \in ThreadLocked => threadLock = NoCPU

\* add_timer() with interrupts disabled.
add_timer(c, e) ==
    /\ ClientMayRun(c, e)
    /\ e \notin Preemptible /\ use[e] = "free"
    /\ \E l \in Periods :
          /\ AddTimer(c, e, l, l, 0)
          /\ period' = [period EXCEPT ![e] = IF e \in Periodic THEN l ELSE 0]
    /\ use' = [use EXCEPT ![e] = "added"]
    /\ UNCHANGED <<current_event, in_progress, held, intr, event, waitsFor, threadLock>>

\* add_timer() with interrupts enabled: reads the clock and computes schedule_time ...
add_timer_begin(c, e) ==
    /\ ClientMayRun(c, e)
    /\ e \in Preemptible /\ use[e] = "free"
    /\ \E l \in Periods : /\ left' = [left EXCEPT ![e] = l]
                          /\ period' = [period EXCEPT ![e] = l]
    /\ use' = [use EXCEPT ![e] = "adding"]
    /\ UNCHANGED <<listVars, cpu, held, hardware, lag, intr, event, waitsFor, threadLock>>

\* ... and adds the event on the CPU the caller runs on now.
add_timer_insert(c, e) ==
    /\ ClientMayRun(c, e)
    /\ use[e] = "adding"
    /\ AddTimer(c, e, left[e], period[e], held[e])
    /\ period' = [period EXCEPT ![e] = IF e \in Periodic THEN @ ELSE 0]
    /\ use' = [use EXCEPT ![e] = "added"]
    /\ held' = [held EXCEPT ![e] = 0]
    /\ UNCHANGED <<current_event, in_progress, intr, event, waitsFor, threadLock>>

\* add_timer() of a timeout that would be negative returns B_BAD_VALUE;
\* thread_block_with_timeout_locked() blocks the thread all the same.
add_timer_refused(c, e) ==
    /\ ClientMayRun(c, e)
    /\ e \in ThreadLocked \ (Periodic \cup Rearming) /\ use[e] = "free"
    /\ use' = [use EXCEPT ![e] = "refused"]
    /\ UNCHANGED <<listVars, cpu, left, period, held, hardware, lag, intr, event,
                   waitsFor, threadLock>>

\* A client cancels e, which it has added or not, on c.  (With one caller at a
\* time cpu does not change between its test and the spinlock.)
MayCancel(c, e) ==
    /\ ClientMayRun(c, e)
    /\ use[e] \notin {"adding", "cancelling"}
    /\ e \in Remote \/ cpu[e] = c

\* cancel_timer() of an event that is not in a list.
cancel_timer_not_found(c, e) ==
    /\ MayCancel(c, e)
    /\ \/ cpu[e] = NoCPU
       \/ /\ cpu[e] # NoCPU
          /\ current_event[cpu[e]] # e
          /\ ~Queued(events[cpu[e]], e)
    /\ use' = [use EXCEPT ![e] = "free"]
    /\ UNCHANGED <<listVars, cpu, left, period, held, hardware, lag, intr, event,
                   waitsFor, threadLock>>

\* cancel_timer() of an event that is in a list.  (left and period have no meaning for
\* an event that is in no list, nor lag for a CPU without events.)
cancel_timer_queued(c, e) ==
    LET p == cpu[e]
        list == Without(events[p], e)
    IN  /\ MayCancel(c, e)
        /\ p # NoCPU
        /\ current_event[p] # e /\ Queued(events[p], e)
        /\ events' = [events EXCEPT ![p] = list]
        /\ cpu' = [cpu EXCEPT ![e] = NoCPU]
        /\ left' = [left EXCEPT ![e] = -1]
        /\ hardware' = [hardware EXCEPT ![p] =
                           CASE p # c -> @
                             [] p = c /\ list = <<>> -> Off
                             [] OTHER -> Max({left[Head(list)], 0})]
        /\ lag' = [lag EXCEPT ![p] = IF p = c \/ list = <<>> THEN 0 ELSE @]
        /\ period' = [period EXCEPT ![e] = 0]
        /\ use' = [use EXCEPT ![e] = "free"]
        /\ UNCHANGED <<current_event, in_progress, held, intr, event, waitsFor,
                       threadLock>>

\* Mutant: cancel_timer() does not wait for the hook.
WaitsForHookMutant(c, e) == FALSE

\* "we'll have to wait for the hook to complete"
WaitsForHook(c, e) == e \notin ThreadLocked \/ cpu[e] = c

\* cancel_timer() of the current event of a CPU.
cancel_timer_current(c, e) ==
    /\ MayCancel(c, e)
    /\ cpu[e] # NoCPU
    /\ current_event[cpu[e]] = e
    /\ current_event' = [current_event EXCEPT ![cpu[e]] = NoEvent]
    /\ waitsFor' = [waitsFor EXCEPT ![c] = IF WaitsForHook(c, e) THEN e ELSE NoEvent]
    /\ use' = [use EXCEPT ![e] = IF WaitsForHook(c, e) THEN "cancelling" ELSE "free"]
    /\ period' = [period EXCEPT ![e] = 0]
    /\ UNCHANGED <<events, in_progress, cpu, left, held, hardware, lag, intr, event,
                   threadLock>>

\* cancel_timer() sees current_event_in_progress cleared, and returns.
cancel_timer_returns(c) ==
    /\ waitsFor[c] # NoEvent
    /\ cpu[waitsFor[c]] \notin in_progress
    /\ use' = [use EXCEPT ![waitsFor[c]] = "free"]
    /\ waitsFor' = [waitsFor EXCEPT ![c] = NoEvent]
    /\ UNCHANGED <<listVars, cpu, left, period, held, hardware, lag, intr, event,
                   threadLock>>

-----------------------------------------------------------------------------

\* Time passes, also for those who are held up in add_timer().
Tick ==
    /\ \A e \in Events : use[e] = "adding" => held[e] < MaxDelay
    /\ held' = [e \in Events |-> IF use[e] = "adding" THEN held[e] + 1 ELSE held[e]]
    /\ left' = [e \in Events |-> Max({left[e] - 1, -1})]
    /\ hardware' = [c \in CPUs |-> IF hardware[c] > 0 THEN hardware[c] - 1
                                   ELSE hardware[c]]
    /\ UNCHANGED <<listVars, cpu, period, use, lag, intr, event, waitsFor, threadLock>>

InterruptStep(c) ==
    call_hook(c) \/ skip_hook(c) \/ hook_returns(c) \/ timer_interrupt_next(c)

Next ==
    \/ Tick
    \/ \E c \in CPUs :
          \/ timer_interrupt(c)
          \/ InterruptStep(c)
          \/ cancel_timer_returns(c)
          \/ \E e \in Events :
                \/ add_timer(c, e)
                \/ add_timer_begin(c, e)
                \/ add_timer_insert(c, e)
                \/ add_timer_refused(c, e)
                \/ cancel_timer_not_found(c, e)
                \/ cancel_timer_queued(c, e)
                \/ cancel_timer_current(c, e)

Spec == Init /\ [][Next]_vars

\* Time passes, interrupts are taken, spinlocks are got, hooks return, a thread that
\* was preempted in add_timer() goes on, and a CPU that spins on
\* current_event_in_progress sees it cleared.
Fairness ==
    /\ WF_vars(Tick)
    /\ SF_vars(\E c \in CPUs, e \in Events : add_timer_insert(c, e))
    /\ \A c \in CPUs : /\ SF_vars(timer_interrupt(c))
                       /\ SF_vars(InterruptStep(c) \/ cancel_timer_returns(c))

FairSpec == Spec /\ Fairness

-----------------------------------------------------------------------------
(***************************************************************************)
(* Properties.                                                             *)
(***************************************************************************)

\* When cancel_timer() has returned, the event is in no list, its hook does not
\* run, and timer_interrupt() will not call it or put it back: the caller may free
\* what the hook uses.  (The same after the hook of a timeout, which is not
\* cancelled, and of an event that is not added yet or was refused.)
CancelledStaysOut ==
    \A e \in Events, c \in CPUs :
        use[e] \in {"free", "adding", "refused"} =>
            /\ ~Queued(events[c], e)
            /\ event[c] = e => /\ intr[c] \in {"call", "done"}
                               /\ intr[c] = "call" => Cancelled(c)
                               /\ intr[c] = "done" => ~Requeues(c)

\* An event is in one list at most, once, and in the one its cpu field names, where
\* cancel_timer() looks for it; the lists are ordered.
ListsInv ==
    \A c \in CPUs : \A i, j \in DOMAIN events[c] :
        /\ cpu[events[c][i]] = c
        /\ i < j => /\ events[c][i] # events[c][j]
                    /\ left[events[c][i]] <= left[events[c][j]]

\* While a CPU has events, its hardware timer fires in time for the first of them, or
\* late by no more than the caller of add_timer() who set it last was held up after it
\* had read the clock: nothing that is added, cancelled or requeued adds to this delay.
HardwareTimerSet ==
    \A c \in CPUs :
        events[c] # <<>> /\ intr[c] = "idle" =>
            hardware[c] \in 0 .. Max({left[Head(events[c])], 1}) + lag[c]

\* A timeout comes: a one-shot event that was added with the thread lock is
\* cancelled, or its hook runs.  (Not so one that was refused.)
EveryTimeoutComes ==
    \A e \in ThreadLocked \ (Periodic \cup Rearming) :
        (use[e] = "added") ~> (use[e] = "free")

=============================================================================
