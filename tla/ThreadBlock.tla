---------------------------- MODULE ThreadBlock ----------------------------
(***************************************************************************)
(* The thread blocking protocol every kernel lock is built on              *)
(* (headers/private/kernel/thread.h, src/system/kernel/thread.cpp).        *)
(*                                                                         *)
(* A thread that is about to wait sets its wait.status to 1 ("waiting").   *)
(* Whoever ends the wait (an unlocker, a notifier, the timeout timer, a    *)
(* signal) replaces that 1 by a result with one compare-and-swap.  The     *)
(* first one wins: a wait that already has a result keeps it.  The         *)
(* operators below map one wait status function [Thread -> WaitStatus] to  *)
(* the next one.                                                           *)
(***************************************************************************)

\* wait.status == 1 is "waiting"; every other member is a wait result.
WaitStatus == {"waiting", "B_OK", "B_ERROR", "B_TIMED_OUT", "B_INTERRUPTED",
               "B_BAD_SEM_ID", "B_BAD_PORT_ID"}

thread_is_blocked(ws, t) == ws[t] = "waiting"

thread_prepare_to_block(ws, t) == [ws EXCEPT ![t] = "waiting"]

\* Mutant: the result is stored without comparing wait.status with 1.
UnblockAlways(ws, t, status) == [ws EXCEPT ![t] = status]

\* atomic_test_and_set(&thread->wait.status, status, 1)
thread_unblock_locked(ws, t, status) ==
    IF thread_is_blocked(ws, t) THEN [ws EXCEPT ![t] = status] ELSE ws

\* thread_unblock_locked() applied to each thread of the set T.
thread_unblock_each(ws, T, status) ==
    [t \in DOMAIN ws |->
        IF t \in T THEN thread_unblock_locked(ws, t, status)[t] ELSE ws[t]]

=============================================================================
