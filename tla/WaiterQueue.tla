---------------------------- MODULE WaiterQueue ----------------------------
(***************************************************************************)
(* The queue of waiters a lock keeps, as the sequence of the waiting       *)
(* threads, first waiter first.  (The list of events of a CPU's timer and  *)
(* the mailboxes of the CPUs are such queues too.)                         *)
(***************************************************************************)
EXTENDS Naturals, Sequences

Position(s, t) == CHOOSE i \in DOMAIN s : s[i] = t

InQueue(s, t) == \E i \in DOMAIN s : s[i] = t

\* Mutant: the head of the queue is removed, whoever it is.
DequeueHead(s, t) == Tail(s)

\* The queue without the waiter t, the others in order.
Dequeue(s, t) ==
    LET k == Position(s, t)
    IN  [i \in 1 .. (Len(s) - 1) |-> IF i < k THEN s[i] ELSE s[i + 1]]

=============================================================================
