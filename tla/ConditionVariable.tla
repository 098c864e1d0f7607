------------------------- MODULE ConditionVariable -------------------------
(***************************************************************************)
(* Condition variables (src/system/kernel/condition_variable.cpp).         *)
(*                                                                         *)
(* A thread adds an entry to a variable, drops the lock of the object that *)
(* the variable belongs to, and calls Wait(); it may be notified before it *)
(* does.  A notifier takes entries out of the variable and leaves the      *)
(* result in them; a thread whose wait ends otherwise takes its entry out  *)
(* itself.  Each operator below is one section under                       *)
(* sConditionVariablesLock; a component that uses condition variables      *)
(* extends this module and makes them part of its actions.                 *)
(***************************************************************************)
EXTENDS Sequences, ThreadBlock, WaiterQueue

CONSTANTS
    Threads,
    Variables,          \* the condition variables
    NoVariable

ASSUME ConditionVariableAssumption == NoVariable \notin Variables

VARIABLES
    fEntries,           \* ConditionVariable::fEntries, as the threads
    fVariable,          \* ConditionVariableEntry::fVariable
    fWaitStatus,        \* ConditionVariableEntry::fWaitStatus
    wait_status         \* thread.wait.status

conditionVars == <<fEntries, fVariable, fWaitStatus, wait_status>>

EntryStatus == WaitStatus \cup {"STATUS_ADDED", "STATUS_WAITING"}

ConditionTypeOK ==
    /\ fEntries \in [Variables -> Seq(Threads)]
    /\ fVariable \in [Threads -> Variables \cup {NoVariable}]
    /\ fWaitStatus \in [Threads -> EntryStatus]
    /\ wait_status \in [Threads -> WaitStatus]

ConditionInit ==
    /\ fEntries = [v \in Variables |-> <<>>]
    /\ fVariable = [t \in Threads |-> NoVariable]
    /\ fWaitStatus = [t \in Threads |-> "B_OK"]
    /\ wait_status = [t \in Threads |-> "B_OK"]

\* ConditionVariable::Add()
Add(t, v) ==
    /\ fEntries' = [fEntries EXCEPT ![v] = Append(@, t)]
    /\ fVariable' = [fVariable EXCEPT ![t] = v]
    /\ fWaitStatus' = [fWaitStatus EXCEPT ![t] = "STATUS_ADDED"]
    /\ UNCHANGED wait_status

Detached(t) == fVariable[t] = NoVariable

\* Mutant: an entry that has been notified already is not noticed.
WaitReturnsMutant(t) == FALSE

\* ConditionVariableEntry::Wait() finds that the entry has been notified, and
\* returns fWaitStatus.
WaitReturns(t) == Detached(t)

\* ConditionVariableEntry::Wait() up to the wait.
WaitBlocks(t) ==
    /\ ~WaitReturns(t)
    /\ wait_status' = thread_prepare_to_block(wait_status, t)
    /\ fWaitStatus' = [fWaitStatus EXCEPT ![t] = "STATUS_WAITING"]
    /\ UNCHANGED <<fEntries, fVariable>>

\* ConditionVariableEntry::Wait() after the wait, which returns wait_status.  The
\* entry is not used any more, and wait.status not before the next wait.
WaitEnds(t) ==
    /\ ~thread_is_blocked(wait_status, t)
    /\ fEntries' = IF Detached(t) THEN fEntries
                   ELSE [fEntries EXCEPT ![fVariable[t]] = Dequeue(@, t)]
    /\ fVariable' = [fVariable EXCEPT ![t] = NoVariable]
    /\ fWaitStatus' = [fWaitStatus EXCEPT ![t] = "B_OK"]
    /\ wait_status' = [wait_status EXCEPT ![t] = "B_OK"]

\* The entries NotifyOne() and NotifyAll() take.
First(v) == IF fEntries[v] = <<>> THEN {} ELSE {Head(fEntries[v])}
All(v) == {fEntries[v][i] : i \in DOMAIN fEntries[v]}

\* fEntries.RemoveHead(), once or until the variable is empty: T are the first
\* entry of s or all of them, or entries of other variables.
Unnotified(s, T) ==
    IF \A i \in DOMAIN s : s[i] \in T THEN <<>>
    ELSE IF Head(s) \in T THEN Tail(s) ELSE s

\* ConditionVariable::_NotifyLocked() for the threads T, the entries of one or
\* several variables.
Notify(T, result) ==
    /\ fEntries' = [v \in Variables |-> Unnotified(fEntries[v], T)]
    /\ fVariable' = [t \in Threads |->
                        IF t \in T THEN NoVariable ELSE fVariable[t]]
    /\ wait_status' =
          thread_unblock_each(wait_status,
              {t \in T : fWaitStatus[t] = "STATUS_WAITING"}, result)
    /\ fWaitStatus' = [t \in Threads |-> IF t \in T THEN result ELSE fWaitStatus[t]]

-----------------------------------------------------------------------------

\* Every entry knows the variable that has it, and is in it once: a notifier and
\* a waiter that gives up agree on who takes the entry out.
EntriesInv ==
    \A t \in Threads : \A v \in Variables :
        /\ InQueue(fEntries[v], t) <=> fVariable[t] = v
        /\ \A i, j \in DOMAIN fEntries[v] : fEntries[v][i] = fEntries[v][j] => i = j

=============================================================================
