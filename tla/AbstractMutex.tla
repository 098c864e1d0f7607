--------------------------- MODULE AbstractMutex ---------------------------
(***************************************************************************)
(* What a kernel mutex promises its callers.  A mutex has at most one      *)
(* owner; a thread becomes owner only of a mutex nobody owns, or by direct *)
(* hand-over from the owner; a thread that did not have to wait gets the   *)
(* mutex only if nobody is waiting for it; and a thread that has given up  *)
(* waiting is never made the owner.                                        *)
(***************************************************************************)
CONSTANTS Threads, Mutexes

VARIABLES
    owners,     \* owners[m]: the threads that own m
    want        \* want[m]: the threads that wait for m

Init ==
    /\ owners = [m \in Mutexes |-> {}]
    /\ want = [m \in Mutexes |-> {}]

\* A lock call that returns without waiting.
Take(t, m) ==
    /\ owners[m] = {}
    /\ want[m] = {}
    /\ owners' = [owners EXCEPT ![m] = {t}]
    /\ UNCHANGED want

\* A lock call that has to wait ...
Request(t, m) ==
    /\ t \notin owners[m] \cup want[m]
    /\ want' = [want EXCEPT ![m] = @ \cup {t}]
    /\ UNCHANGED owners

\* ... gets the mutex after the owner has released it ...
Grant(t, m) ==
    /\ owners[m] = {}
    /\ t \in want[m]
    /\ owners' = [owners EXCEPT ![m] = {t}]
    /\ want' = [want EXCEPT ![m] = @ \ {t}]

\* ... or directly from the owner ...
HandOver(t, u, m) ==
    /\ owners[m] = {t}
    /\ u \in want[m]
    /\ owners' = [owners EXCEPT ![m] = {u}]
    /\ want' = [want EXCEPT ![m] = @ \ {u}]

\* ... or stops waiting.
GiveUp(t, m) ==
    /\ t \in want[m]
    /\ want' = [want EXCEPT ![m] = @ \ {t}]
    /\ UNCHANGED owners

Release(t, m) ==
    /\ owners[m] = {t}
    /\ owners' = [owners EXCEPT ![m] = {}]
    /\ UNCHANGED want

\* The owner destroys the mutex; all waits end.
Destroy(t, m) ==
    /\ owners[m] = {t}
    /\ owners' = [owners EXCEPT ![m] = {}]
    /\ want' = [want EXCEPT ![m] = {}]

Next ==
    \E m \in Mutexes, t \in Threads :
        \/ Take(t, m)
        \/ Request(t, m)
        \/ Grant(t, m)
        \/ \E u \in Threads : HandOver(t, u, m)
        \/ GiveUp(t, m)
        \/ Release(t, m)
        \/ Destroy(t, m)

Spec == Init /\ [][Next]_<<owners, want>>

=============================================================================
