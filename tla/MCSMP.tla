------------------------------- MODULE MCSMP -------------------------------
(***************************************************************************)
(* Inter-CPU messages on three CPUs, each of which sends one message; with *)
(* two messages in the pool, the third sender has to wait for one.         *)
(***************************************************************************)
EXTENDS SMP

CONSTANTS c1, c2, c3

To(cpus, s) == [to |-> cpus, sync |-> s, broadcast |-> FALSE]
All(cpus, s) == [to |-> cpus, sync |-> s, broadcast |-> TRUE]

\* c1 broadcasts a SYNC message.  c2 sends a SYNC message to c1, multicasts one, or
\* tries to send one to itself; c3 sends one to c2.
MCSends ==
    [c \in CPUs |->
        CASE c = c1 -> {All({c2, c3}, TRUE)}
          [] c = c2 -> {To({c1}, TRUE), All({c3}, FALSE), To({c2}, FALSE)}
          [] c = c3 -> {To({c2}, FALSE)}]

=============================================================================
