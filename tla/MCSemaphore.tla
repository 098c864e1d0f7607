---------------------------- MODULE MCSemaphore ----------------------------
(***************************************************************************)
(* Instances of Semaphore for TLC.                                         *)
(***************************************************************************)
EXTENDS Semaphore

\* The patient threads do the same things, and so do the semaphores.
Symmetry == Permutations(Threads \ Impatient) \cup Permutations(Sems)

\* Whether t waits, and what for while it is in a queue.  Why a wait has ended, and
\* what a thread that is in no queue has waited for, is not read again.
ThreadView(t) ==
    <<pc[t], pc[t] # "running" /\ IsWaiting(t),
      IF \E s \in Sems : InQueue(queue[s], t) THEN <<obj[t], want[t]>> ELSE <<>>,
      IF pc[t] = "release" THEN toRelease[t] ELSE NoId>>

\* What a state says of the next ones: the counts of a semaphore that is deleted and
\* the events of an info that is not in use are overwritten before they are read.
View ==
    <<active, generation, queue, select_infos, selected,
      [s \in active |-> <<count[s], net_count[s]>>],
      [t \in Threads |-> ThreadView(t)],
      [i \in Infos |-> IF selected[i] = NoId THEN {} ELSE events[i]]>>

=============================================================================
