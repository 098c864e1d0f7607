-------------------------------- MODULE Port --------------------------------
(***************************************************************************)
(* A message port (src/system/kernel/port.cpp): one slot of the table, in  *)
(* which ports are created, closed and deleted while threads read and      *)
(* write.                                                                  *)
(*                                                                         *)
(* The port's lock protects its fields.  A caller that has to wait adds an *)
(* entry to the port's read or write condition under the lock, drops the   *)
(* lock, waits, and takes the lock again; the port may have been closed,   *)
(* deleted or replaced by then.  A section under the lock is one step,     *)
(* except that a writer keeps the lock while it gets memory for its        *)
(* message.                                                                *)
(***************************************************************************)
EXTENDS Integers, FiniteSets, ConditionVariable

CONSTANTS
    Readers,
    Writers,
    Impatient,          \* the threads that use a timeout or can be interrupted
    NoThread,
    Capacities,         \* what create_port() is called with
    MaxId,              \* bound: the ids that are used; the last port stays
    MaxMessages         \* bound: nobody writes to a port with so many messages

ASSUME PortAssumption ==
    /\ Threads = Readers \cup Writers /\ IsFiniteSet(Threads)
    /\ Readers \cap Writers = {}
    /\ NoThread \notin Threads
    /\ Impatient \subseteq Threads
    /\ Capacities \subseteq Nat \ {0}
    /\ Variables = {"read_condition", "write_condition"}
    /\ MaxId \in Nat /\ MaxMessages \in Nat

VARIABLES
    id,                 \* port_entry.id, -1 when the slot is unused
    sNextPort,          \* the id of the next port
    capacity,           \* port_entry.capacity, 0 when the port is closed
    read_count,         \* port_entry.read_count
    write_count,        \* port_entry.write_count
    messages,           \* port_entry.messages: the ids the writers wrote to
    lock,               \* the owner of port_entry.lock between two steps
    pc,                 \* "running"; "added": has added an entry; "blocked";
                        \* "relock": has waited; "get_message"
    call,               \* the call a thread is in
    portId,             \* the port id it was called with
    status              \* what Wait() returned

portVars == <<id, sNextPort, capacity, read_count, write_count, messages>>
threadVars == <<pc, call, portId, status>>
vars == <<portVars, lock, threadVars, conditionVars>>

ReadCalls == {"read", "peek", "info"}

TypeOK ==
    /\ id \in -1 .. MaxId
    /\ sNextPort \in 0 .. MaxId + 1
    /\ capacity \in Capacities \cup {0}
    /\ read_count \in Nat
    /\ write_count \in Int
    /\ messages \in Seq(0 .. MaxId)
    /\ lock \in Writers \cup {NoThread}
    /\ pc \in [Threads -> {"running", "added", "blocked", "relock", "get_message"}]
    /\ call \in [Threads -> ReadCalls \cup {"write", "none"}]
    /\ portId \in [Threads -> -1 .. MaxId]
    /\ status \in [Threads -> EntryStatus]
    /\ ConditionTypeOK

Init ==
    /\ id = -1
    /\ sNextPort = 0
    /\ capacity = 0
    /\ read_count = 0
    /\ write_count = 0
    /\ messages = <<>>
    /\ lock = NoThread
    /\ pc = [t \in Threads |-> "running"]
    /\ call = [t \in Threads |-> "none"]
    /\ portId = [t \in Threads |-> -1]
    /\ status = [t \in Threads |-> "B_OK"]
    /\ ConditionInit

-----------------------------------------------------------------------------
(***************************************************************************)
(* Creating, closing and deleting the port.                                *)
(***************************************************************************)
Unlocked == lock = NoThread

\* The calls of the threads.  With a call its local variables go away.
InCall(t, c, portID, next) ==
    /\ pc' = [pc EXCEPT ![t] = next]
    /\ call' = [call EXCEPT ![t] = c]
    /\ portId' = [portId EXCEPT ![t] = portID]
    /\ status' = [status EXCEPT ![t] = "B_OK"]

Return(t) == InCall(t, "none", -1, "running")

\* create_port()
create_port(queueLength) ==
    /\ id = -1
    /\ Unlocked
    /\ id' = sNextPort
    /\ sNextPort' = sNextPort + 1
    /\ capacity' = queueLength
    /\ read_count' = 0
    /\ write_count' = queueLength
    /\ UNCHANGED <<messages, lock, threadVars, conditionVars>>

\* Those who wait for the port.
Woken == All("read_condition") \cup All("write_condition")

\* close_port()
close_port ==
    /\ id \in 0 .. MaxId - 1
    /\ Unlocked
    /\ capacity' = 0
    /\ Notify(Woken, "B_BAD_PORT_ID")
    /\ UNCHANGED <<id, sNextPort, read_count, write_count, messages, lock, threadVars>>

\* delete_port(), with uninit_port_locked().
delete_port ==
    /\ id \in 0 .. MaxId - 1
    /\ Unlocked
    /\ id' = -1
    /\ messages' = <<>>
    /\ Notify(Woken, "B_BAD_PORT_ID")
    /\ UNCHANGED <<sNextPort, capacity, read_count, write_count, lock, threadVars>>

-----------------------------------------------------------------------------
(***************************************************************************)
(* Reading: read_port_etc(), with and without B_PEEK_PORT_MESSAGE, and     *)
(* _get_port_message_info_etc().                                           *)
(***************************************************************************)
is_port_closed == capacity = 0

NothingToRead(portID) == id # portID \/ (is_port_closed /\ messages = <<>>)

\* Who only looks at a message wakes the next reader.
Peek == Notify(First("read_condition"), "B_OK")

\* read_port_etc(): takes the message out of the queue.
TakeMessage ==
    /\ messages' = Tail(messages)
    /\ write_count' = write_count + 1
    /\ read_count' = read_count - 1
    /\ Notify(First("write_condition"), "B_OK")

\* The loop: waits for a message, or takes the first one.
ReadLoop(t, c) ==
    \/ /\ read_count = 0
       /\ Add(t, "read_condition")
       /\ InCall(t, c, id, "added")
       /\ UNCHANGED portVars
    \/ /\ read_count # 0
       /\ messages # <<>>
       /\ Return(t)
       /\ \/ /\ c = "read"
             /\ TakeMessage
             /\ UNCHANGED <<id, sNextPort, capacity>>
          \/ /\ c # "read"
             /\ Peek
             /\ UNCHANGED portVars

read_port_etc(t, c) ==
    /\ pc[t] = "running"
    /\ id # -1
    /\ Unlocked
    /\ ~NothingToRead(id)
    /\ ReadLoop(t, c)
    /\ UNCHANGED lock

\* The loop after Wait().  _get_port_message_info_etc() does not need the lock to
\* return an error.
read_port_relock(t) ==
    /\ pc[t] = "relock"
    /\ call[t] # "write"
    /\ Unlocked \/ (call[t] = "info" /\ status[t] # "B_OK")
    /\ \/ /\ NothingToRead(portId[t]) \/ status[t] # "B_OK"
          /\ Return(t)
          /\ UNCHANGED <<portVars, conditionVars>>
       \/ /\ ~NothingToRead(portId[t])
          /\ status[t] = "B_OK"
          /\ ReadLoop(t, call[t])
    /\ UNCHANGED lock

-----------------------------------------------------------------------------
(***************************************************************************)
(* Writing: writev_port_etc().                                             *)
(***************************************************************************)

\* All places are taken, or promised to those who wait.
NoRoom == write_count <= 0

writev_port_etc(t) ==
    /\ pc[t] = "running"
    /\ id # -1
    /\ Unlocked
    /\ ~is_port_closed
    /\ Len(messages) < MaxMessages
    /\ write_count' = write_count - 1
    /\ \/ /\ NoRoom
          /\ Add(t, "write_condition")
          /\ InCall(t, "write", id, "added")
          /\ UNCHANGED lock
       \/ /\ ~NoRoom
          /\ InCall(t, "write", id, "get_message")
          /\ lock' = t
          /\ UNCHANGED conditionVars
    /\ UNCHANGED <<id, sNextPort, capacity, read_count, messages>>

\* Mutant: after the wait the port is not looked for again.
WriteGoneMutant(portID) == id = -1 \/ is_port_closed
WriteGone(portID) == id # portID \/ is_port_closed

\* "Give up our slot in the queue again"
PlaceGivenUp == write_count + 1

\* Mutant: the next writer is not woken.
ErrorNotifiesNobody == UNCHANGED conditionVars
ErrorNotifies == Notify(First("write_condition"), "B_OK")

\* error: "Give up our slot in the queue again, and let someone else try".
WriteError(t) ==
    /\ write_count' = PlaceGivenUp
    /\ ErrorNotifies
    /\ Return(t)
    /\ UNCHANGED <<id, sNextPort, capacity, read_count, messages>>

writev_port_relock(t) ==
    /\ pc[t] = "relock"
    /\ call[t] = "write"
    /\ Unlocked
    /\ \/ /\ WriteGone(portId[t])
          /\ Return(t)
          /\ UNCHANGED <<portVars, lock, conditionVars>>
       \/ /\ ~WriteGone(portId[t])
          /\ status[t] # "B_OK"
          /\ WriteError(t)
          /\ UNCHANGED lock
       \/ /\ ~WriteGone(portId[t])
          /\ status[t] = "B_OK"
          /\ InCall(t, "write", portId[t], "get_message")
          /\ lock' = t
          /\ UNCHANGED <<portVars, conditionVars>>

\* get_port_message() has got the memory: the message is queued.
writev_port_add(t) ==
    /\ pc[t] = "get_message"
    /\ messages' = Append(messages, portId[t])
    /\ read_count' = read_count + 1
    /\ Notify(First("read_condition"), "B_OK")
    /\ Return(t)
    /\ lock' = NoThread
    /\ UNCHANGED <<id, sNextPort, capacity, write_count>>

\* get_port_message() has failed.
writev_port_no_memory(t) ==
    /\ pc[t] = "get_message"
    /\ WriteError(t)
    /\ lock' = NoThread

-----------------------------------------------------------------------------
(***************************************************************************)
(* ConditionVariableEntry::Wait().                                         *)
(***************************************************************************)
wait(t) ==
    /\ pc[t] = "added"
    /\ \/ /\ WaitReturns(t)
          /\ pc' = [pc EXCEPT ![t] = "relock"]
          /\ status' = [status EXCEPT ![t] = fWaitStatus[t]]
          /\ UNCHANGED conditionVars
       \/ /\ WaitBlocks(t)
          /\ pc' = [pc EXCEPT ![t] = "blocked"]
          /\ UNCHANGED status
    /\ UNCHANGED <<portVars, lock, call, portId>>

wait_return(t) ==
    /\ pc[t] = "blocked"
    /\ WaitEnds(t)
    /\ pc' = [pc EXCEPT ![t] = "relock"]
    /\ status' = [status EXCEPT ![t] = wait_status[t]]
    /\ UNCHANGED <<portVars, lock, call, portId>>

\* The timeout, or a signal: both end the call with an error.
thread_block_timeout(t) ==
    /\ pc[t] = "blocked"
    /\ t \in Impatient
    /\ thread_is_blocked(wait_status, t)
    /\ wait_status' = thread_unblock_locked(wait_status, t, "B_TIMED_OUT")
    /\ UNCHANGED <<portVars, lock, threadVars, fEntries, fVariable, fWaitStatus>>

ThreadStep(t) ==
    \/ wait(t)
    \/ wait_return(t)
    \/ read_port_relock(t)
    \/ writev_port_relock(t)
    \/ writev_port_add(t)
    \/ writev_port_no_memory(t)

Next ==
    \/ \E queueLength \in Capacities : create_port(queueLength)
    \/ close_port
    \/ delete_port
    \/ \E t \in Threads : ThreadStep(t) \/ thread_block_timeout(t)
    \/ \E t \in Readers, c \in ReadCalls : read_port_etc(t, c)
    \/ \E t \in Writers : writev_port_etc(t)

Spec == Init /\ [][Next]_vars

-----------------------------------------------------------------------------
(***************************************************************************)
(* Properties.                                                             *)
(***************************************************************************)

\* The thread waits, and nothing has ended its wait yet.
Sleeping(t) ==
    /\ ~Detached(t)
    /\ pc[t] = "added" \/ (pc[t] = "blocked" /\ thread_is_blocked(wait_status, t))

\* The thread has been notified of a message or a free place, and is coming.
Coming(t) ==
    /\ portId[t] = id
    /\ \/ pc[t] = "added" /\ Detached(t) /\ fWaitStatus[t] = "B_OK"
       \/ pc[t] = "blocked" /\ wait_status[t] = "B_OK"
       \/ pc[t] = "relock" /\ status[t] = "B_OK"

\* A notifier and a waiter that gives up agree on who takes the entry out; nobody
\* sleeps without an entry by which it can be notified, or on a port that has been
\* closed, deleted or replaced ("read_port() will see the B_BAD_PORT_ID return
\* value, and act accordingly", uninit_port_locked()).
SleepersReachable ==
    /\ EntriesInv
    /\ \A t \in Threads :
          /\ pc[t] = "blocked" /\ thread_is_blocked(wait_status, t) => Sleeping(t)
          /\ Sleeping(t) => portId[t] = id /\ ~is_port_closed

\* read_count counts the messages (or read_port_etc() would panic), which were all
\* written to this port, not to one that had the slot before; write_count is the
\* places that are left, less those who want or have one.
MessagesInv ==
    /\ id # -1 => read_count = Len(messages)
    /\ \A i \in DOMAIN messages : messages[i] = id
    /\ id # -1 /\ ~is_port_closed =>
          write_count = capacity - read_count
              - Cardinality({t \in Writers : portId[t] = id /\ pc[t] # "running"})

\* While a reader sleeps, enough others are on their way to read all messages
\* there are: no message is left with everybody asleep (without timeouts for
\* readers).  While a writer sleeps, the queue is full, counting the writers on
\* their way.
NobodyForgotten ==
    /\ id # -1 /\ (\E t \in Readers : Sleeping(t))
          => Cardinality({t \in Readers : Coming(t)}) >= read_count
    /\ id # -1 /\ (\E t \in Writers : Sleeping(t)) =>
          read_count + Cardinality({t \in Writers : /\ portId[t] = id
                                                    /\ pc[t] # "running"
                                                    /\ ~Sleeping(t)})
              >= capacity

\* "A full port can't be written to" (src/tests/system/kernel/port_wakeup_test_1.cpp).
QueueWithinCapacity == id # -1 /\ ~is_port_closed => read_count <= capacity

=============================================================================
