---------------------------- MODULE MCMutexDebug ----------------------------
(***************************************************************************)
(* Instances of MutexDebug for TLC.                                        *)
(***************************************************************************)
EXTENDS MutexDebug

CONSTANTS g, o, x

\* Global mutexes only.
NoGuards == [m \in Mutexes |-> NoMutex]

\* The mutex g guards the object the mutex o belongs to.
OneGuard == [m \in Mutexes |-> IF m = o THEN g ELSE NoMutex]

=============================================================================
