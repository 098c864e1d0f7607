------------------------------ MODULE Machine ------------------------------
(***************************************************************************)
(* The CPUs, of each of which timer.cpp and smp.cpp keep state of its own. *)
(***************************************************************************)
CONSTANTS
    CPUs,
    NoCPU       \* no CPU: the cpu field of an event that has none, an unlocked spinlock

=============================================================================
