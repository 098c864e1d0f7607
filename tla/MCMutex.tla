------------------------------ MODULE MCMutex ------------------------------
(***************************************************************************)
(* Instances of Mutex for TLC.                                             *)
(***************************************************************************)
EXTENDS Mutex

CONSTANTS g, o

\* One or two global mutexes, no guarded one.
NoGuards == [m \in Mutexes |-> NoMutex]

\* The mutex g guards the object the mutex o belongs to.
OneGuard == [m \in Mutexes |-> IF m = o THEN g ELSE NoMutex]

=============================================================================
