---------------------------- MODULE MutexProofs ----------------------------
(***************************************************************************)
(* Proofs about the release build's mutex (module Mutex), for every number *)
(* of threads and mutexes, every guard relation and every set of mutexes   *)
(* that are locked with timeouts: types and mutual exclusion, what a       *)
(* destroyed mutex leaves behind, that it keeps what AbstractMutex         *)
(* promises its callers, that it serves its waiters in order and that      *)
(* without timeouts no unlock is lost.                                     *)
(***************************************************************************)
EXTENDS Mutex, LockLemmas

-----------------------------------------------------------------------------
(***************************************************************************)
(* Types.                                                                  *)
(***************************************************************************)
LEMMA OwnedType ==
    ASSUME TypeOK, NEW t \in Threads, NEW m \in Mutexes
    PROVE  /\ [owned EXCEPT ![t] = @ \cup {m}] \in [Threads -> SUBSET Mutexes]
           /\ [owned EXCEPT ![t] = @ \ {m}] \in [Threads -> SUBSET Mutexes]
  BY DEF TypeOK

LEMMA LockSlowPathType ==
    ASSUME TypeOK, NEW t \in Threads, NEW m \in Mutexes, LockSlowPath(t, m)
    PROVE  /\ released' \in SUBSET Mutexes
           /\ waiters' \in [Mutexes -> Seq(Threads)]
           /\ wait_status' \in [Threads -> WaitStatus]
           /\ pc' \in [Threads -> PC]
           /\ owned' \in [Threads -> SUBSET Mutexes]
<1>1. CASE m \in released
  <2>1. owned' \in [Threads -> SUBSET Mutexes]
    BY <1>1, OwnedType DEF LockSlowPath, ReturnLocked
  <2> QED
    BY <1>1, <2>1 DEF LockSlowPath, ReturnLocked, TypeOK, PC
<1>2. CASE m \notin released
  <2>1. wait_status' \in [Threads -> WaitStatus]
    <3>1. wait_status' = thread_prepare_to_block(wait_status, t)
      BY <1>2 DEF LockSlowPath
    <3> QED
      BY <3>1, PrepareType DEF TypeOK
  <2>2. waiters' \in [Mutexes -> Seq(Threads)]
    <3>1. Append(waiters[m], t) \in Seq(Threads)
      BY DEF TypeOK
    <3> QED
      BY <1>2, <3>1 DEF LockSlowPath, TypeOK
  <2>3. pc' \in [Threads -> PC]
    BY <1>2 DEF LockSlowPath, TypeOK, PC
  <2> QED
    BY <1>2, <2>1, <2>2, <2>3 DEF LockSlowPath, TypeOK
<1> QED
  BY <1>1, <1>2

LEMMA UnlockSlowPathType ==
    ASSUME TypeOK, NEW m \in Mutexes, UnlockSlowPath(m)
    PROVE  /\ ignore_unlock_count' \in [Mutexes -> Nat]
           /\ released' \in SUBSET Mutexes
           /\ waiters' \in [Mutexes -> Seq(Threads)]
           /\ wait_status' \in [Threads -> WaitStatus]
<1>1. CASE ignore_unlock_count[m] > 0
  <2>1. ignore_unlock_count' \in [Mutexes -> Nat]
    BY <1>1 DEF UnlockSlowPath, TypeOK
  <2> QED
    BY <1>1, <2>1 DEF UnlockSlowPath, TypeOK
<1>2. CASE ignore_unlock_count[m] = 0 /\ waiters[m] # <<>>
  <2>1. Head(waiters[m]) \in Threads /\ Tail(waiters[m]) \in Seq(Threads)
    BY <1>2, HeadTailProperties DEF TypeOK
  <2>2. wait_status' \in [Threads -> WaitStatus]
    <3>1. "B_OK" \in WaitStatus
      BY DEF WaitStatus
    <3>2. wait_status' =
              thread_unblock_locked(wait_status, Head(waiters[m]), "B_OK")
      BY <1>2 DEF UnlockSlowPath
    <3> QED
      BY <2>1, <3>1, <3>2, UnblockType DEF TypeOK
  <2>3. waiters' \in [Mutexes -> Seq(Threads)]
    BY <1>2, <2>1 DEF UnlockSlowPath, TypeOK
  <2> QED
    BY <1>2, <2>2, <2>3 DEF UnlockSlowPath, TypeOK
<1>3. CASE ignore_unlock_count[m] = 0 /\ waiters[m] = <<>>
  BY <1>3 DEF UnlockSlowPath, TypeOK
<1> QED
  BY <1>1, <1>2, <1>3 DEF UnlockSlowPath

-----------------------------------------------------------------------------
(***************************************************************************)
(* Types.                                                                  *)
(***************************************************************************)

LEMMA TypeStep ==
    ASSUME TypeOK, WantInv, [Next]_vars
    PROVE  TypeOK'
<1>1. ASSUME NEW t \in Threads, NEW m \in Mutexes,
             mutex_lock(t, m) \/ mutex_lock_with_timeout(t, m)
      PROVE  TypeOK'
  <2>1. PICK T \in SUBSET Threads : LockFastPath(t, m, T)
    BY <1>1 DEF mutex_lock, mutex_lock_with_timeout, TypeOK
  <2>2. owned' \in [Threads -> SUBSET Mutexes]
    <3>1. \/ owned' = owned
          \/ owned' = [owned EXCEPT ![t] = @ \cup {m}]
      BY <2>1 DEF LockFastPath, ReturnLocked
    <3> QED
      BY <3>1, OwnedType DEF TypeOK
  <2>3. pc' \in [Threads -> PC]
    BY <2>1 DEF LockFastPath, ReturnLocked, TypeOK, PC
  <2>4. obj' \in [Threads -> Mutexes \cup {NoMutex}]
    BY <2>1 DEF LockFastPath, TypeOK
  <2>5. count' \in [Mutexes -> Int]
    BY <2>1 DEF LockFastPath, TypeOK
  <2> QED
    BY <2>1, <2>2, <2>3, <2>4, <2>5 DEF LockFastPath, TypeOK
<1>2. ASSUME NEW t \in Threads, NEW m \in Mutexes, mutex_trylock(t, m)
      PROVE  TypeOK'
  <2>1. owned' \in [Threads -> SUBSET Mutexes]
    BY <1>2, OwnedType DEF mutex_trylock, ReturnLocked
  <2> QED
    BY <1>2, <2>1 DEF mutex_trylock, ReturnLocked, TypeOK, PC
<1>3. ASSUME NEW t \in Threads, NEW m \in Mutexes, mutex_unlock(t, m)
      PROVE  TypeOK'
  <2>1. owned' \in [Threads -> SUBSET Mutexes]
    BY <1>3, OwnedType DEF mutex_unlock
  <2>2. pc' \in [Threads -> PC]
    BY <1>3 DEF mutex_unlock, TypeOK, PC
  <2>3. obj' \in [Threads -> Mutexes \cup {NoMutex}]
    BY <1>3 DEF mutex_unlock, TypeOK
  <2>4. count' \in [Mutexes -> Int]
    BY <1>3 DEF mutex_unlock, TypeOK
  <2> QED
    BY <1>3, <2>1, <2>2, <2>3, <2>4 DEF mutex_unlock, TypeOK
<1>4. ASSUME NEW t \in Threads, NEW m \in Mutexes, mutex_destroy(t, m)
      PROVE  TypeOK'
  <2>1. wait_status' \in [Threads -> WaitStatus]
    BY <1>4, UnblockEachType DEF mutex_destroy, DestroyWakes, TypeOK, WaitStatus
  <2>2. waiters' \in [Mutexes -> Seq(Threads)]
    BY <1>4 DEF mutex_destroy, TypeOK
  <2>3. owned' \in [Threads -> SUBSET Mutexes]
    BY <1>4, OwnedType DEF mutex_destroy
  <2> QED
    BY <1>4, <2>1, <2>2, <2>3 DEF mutex_destroy, TypeOK
<1>5. ASSUME NEW t \in Threads, NEW from \in Mutexes, NEW to \in Mutexes,
             mutex_switch_unlock(t, from, to)
      PROVE  TypeOK'
  <2>1. /\ ignore_unlock_count' \in [Mutexes -> Nat]
        /\ released' \in SUBSET Mutexes
        /\ waiters' \in [Mutexes -> Seq(Threads)]
        /\ wait_status' \in [Threads -> WaitStatus]
    <3>1. CASE UnlockContended(count[from])
      BY <1>5, <3>1, UnlockSlowPathType DEF mutex_switch_unlock
    <3>2. CASE ~UnlockContended(count[from])
      BY <1>5, <3>2 DEF mutex_switch_unlock, TypeOK
    <3> QED
      BY <3>1, <3>2
  <2>2. owned' \in [Threads -> SUBSET Mutexes]
    BY <1>5, OwnedType DEF mutex_switch_unlock
  <2>3. pc' \in [Threads -> PC]
    BY <1>5 DEF mutex_switch_unlock, TypeOK, PC
  <2>4. obj' \in [Threads -> Mutexes \cup {NoMutex}]
    BY <1>5 DEF mutex_switch_unlock, TypeOK
  <2>5. count' \in [Mutexes -> Int]
    BY <1>5 DEF mutex_switch_unlock, TypeOK
  <2> QED
    BY <1>5, <2>1, <2>2, <2>3, <2>4, <2>5
       DEF mutex_switch_unlock, SwitchSpinlock, TypeOK
<1>6. ASSUME NEW t \in Threads, mutex_lock_slow(t)
      PROVE  TypeOK'
  <2>1. obj[t] \in Mutexes
    BY <1>6 DEF mutex_lock_slow, WantInv
  <2> QED
    BY <1>6, <2>1, LockSlowPathType DEF mutex_lock_slow, TypeOK
<1>7. ASSUME NEW t \in Threads, mutex_lock_return(t)
      PROVE  TypeOK'
  <2>1. obj[t] \in Mutexes
    BY <1>7 DEF mutex_lock_return, WantInv
  <2>2. owned' \in [Threads -> SUBSET Mutexes]
    BY <1>7, <2>1, OwnedType DEF mutex_lock_return, ReturnLocked, TypeOK
  <2>3. pc' \in [Threads -> PC]
    BY <1>7 DEF mutex_lock_return, ReturnLocked, TypeOK, PC
  <2> QED
    BY <1>7, <2>2, <2>3 DEF mutex_lock_return, mutexVars, TypeOK
<1>8. ASSUME NEW t \in Threads, mutex_lock_timed_out(t)
      PROVE  TypeOK'
  <2>1. obj[t] \in Mutexes
    BY <1>8 DEF mutex_lock_timed_out, WantInv
  <2>2. pc' \in [Threads -> PC]
    BY <1>8 DEF mutex_lock_timed_out, TypeOK, PC
  <2>3. CASE Queued(t, obj[t])
    <3>1. Dequeue(waiters[obj[t]], t) \in Seq(Threads)
      BY <2>1, <2>3, DequeueType DEF Queued, InQueue, TypeOK
    <3>2. waiters' \in [Mutexes -> Seq(Threads)]
      BY <1>8, <2>1, <2>3, <3>1 DEF mutex_lock_timed_out, TypeOK
    <3>3. count' \in [Mutexes -> Int]
      BY <1>8, <2>1, <2>3 DEF mutex_lock_timed_out, FixCount, TypeOK
    <3>4. ignore_unlock_count' \in [Mutexes -> Nat]
      BY <1>8, <2>1, <2>3 DEF mutex_lock_timed_out, FixCount, TypeOK
    <3> QED
      BY <1>8, <2>2, <3>2, <3>3, <3>4 DEF mutex_lock_timed_out, TypeOK
  <2>4. CASE ~Queued(t, obj[t])
    BY <1>8, <2>2, <2>4 DEF mutex_lock_timed_out, TypeOK
  <2> QED
    BY <2>3, <2>4
<1>9. ASSUME NEW t \in Threads, mutex_unlock_slow(t)
      PROVE  TypeOK'
  <2>1. obj[t] \in Mutexes
    BY <1>9 DEF mutex_unlock_slow, WantInv
  <2>2. pc' \in [Threads -> PC]
    BY <1>9 DEF mutex_unlock_slow, TypeOK, PC
  <2> QED
    BY <1>9, <2>1, <2>2, UnlockSlowPathType DEF mutex_unlock_slow, TypeOK
<1>10. ASSUME NEW t \in Threads, mutex_switch_lock(t)
       PROVE  TypeOK'
  <2>1. obj[t] \in Mutexes
    BY <1>10 DEF mutex_switch_lock, WantInv
  <2>2. count' \in [Mutexes -> Int]
    BY <1>10, <2>1 DEF mutex_switch_lock, TypeOK
  <2>3. CASE LockContended(count[obj[t]])
    BY <1>10, <2>1, <2>2, <2>3, LockSlowPathType DEF mutex_switch_lock, TypeOK
  <2>4. CASE ~LockContended(count[obj[t]])
    <3>1. owned' \in [Threads -> SUBSET Mutexes]
      BY <1>10, <2>1, <2>4, OwnedType DEF mutex_switch_lock, ReturnLocked
    <3>2. pc' \in [Threads -> PC]
      BY <1>10, <2>4 DEF mutex_switch_lock, ReturnLocked, TypeOK, PC
    <3> QED
      BY <1>10, <2>2, <2>4, <3>1, <3>2 DEF mutex_switch_lock, TypeOK
  <2> QED
    BY <2>3, <2>4
<1>11. ASSUME NEW t \in Threads, thread_block_timeout(t)
       PROVE  TypeOK'
  <2>1. wait_status' \in [Threads -> WaitStatus]
    BY <1>11, UnblockType DEF thread_block_timeout, TypeOK, WaitStatus
  <2> QED
    BY <1>11, <2>1 DEF thread_block_timeout, mutexVars, TypeOK
<1>12. ASSUME UNCHANGED vars
       PROVE  TypeOK'
  BY <1>12 DEF vars, mutexVars, threadVars, TypeOK
<1> QED
  BY <1>1, <1>2, <1>3, <1>4, <1>5, <1>6, <1>7, <1>8, <1>9, <1>10, <1>11, <1>12
     DEF Next, ThreadStep

-----------------------------------------------------------------------------
(***************************************************************************)
(* Nobody wants, or passes on, a mutex it owns.                            *)
(***************************************************************************)

LEMMA WantStep ==
    ASSUME TypeOK, WantInv, [Next]_vars
    PROVE  WantInv'
<1> SUFFICES ASSUME NEW x \in Threads, pc'[x] # "running"
             PROVE  obj'[x] \in Mutexes /\ obj'[x] \notin owned'[x]
  BY DEF WantInv
<1> USE DEF TypeOK, WantInv
<1>1. ASSUME NEW t \in Threads, NEW m \in Mutexes,
             mutex_lock(t, m) \/ mutex_lock_with_timeout(t, m)
      PROVE  obj'[x] \in Mutexes /\ obj'[x] \notin owned'[x]
  <2>1. PICK T : LockFastPath(t, m, T)
    BY <1>1 DEF mutex_lock, mutex_lock_with_timeout
  <2>2. m \notin owned[t]
    BY <2>1, GuardAssumption DEF LockFastPath, MayLock
  <2>3. CASE x = t
    BY <2>1, <2>2, <2>3 DEF LockFastPath, ReturnLocked
  <2>4. CASE x # t
    BY <2>1, <2>4 DEF LockFastPath, ReturnLocked
  <2> QED
    BY <2>3, <2>4
<1>2. ASSUME NEW t \in Threads, NEW m \in Mutexes, mutex_trylock(t, m)
      PROVE  obj'[x] \in Mutexes /\ obj'[x] \notin owned'[x]
  BY <1>2 DEF mutex_trylock, ReturnLocked
<1>3. ASSUME NEW t \in Threads, NEW m \in Mutexes, mutex_unlock(t, m)
      PROVE  obj'[x] \in Mutexes /\ obj'[x] \notin owned'[x]
  BY <1>3 DEF mutex_unlock
<1>4. ASSUME NEW t \in Threads, NEW m \in Mutexes, mutex_destroy(t, m)
      PROVE  obj'[x] \in Mutexes /\ obj'[x] \notin owned'[x]
  BY <1>4 DEF mutex_destroy
<1>5. ASSUME NEW t \in Threads, NEW from \in Mutexes, NEW to \in Mutexes,
             mutex_switch_unlock(t, from, to)
      PROVE  obj'[x] \in Mutexes /\ obj'[x] \notin owned'[x]
  <2>1. CASE x = t
    BY <1>5, <2>1, GuardAssumption DEF mutex_switch_unlock, MaySwitch
  <2>2. CASE x # t
    BY <1>5, <2>2 DEF mutex_switch_unlock
  <2> QED
    BY <2>1, <2>2
<1>6. ASSUME NEW t \in Threads, mutex_lock_slow(t)
      PROVE  obj'[x] \in Mutexes /\ obj'[x] \notin owned'[x]
  BY <1>6 DEF mutex_lock_slow, LockSlowPath, ReturnLocked
<1>7. ASSUME NEW t \in Threads, mutex_lock_return(t)
      PROVE  obj'[x] \in Mutexes /\ obj'[x] \notin owned'[x]
  BY <1>7 DEF mutex_lock_return, ReturnLocked
<1>8. ASSUME NEW t \in Threads, mutex_lock_timed_out(t)
      PROVE  obj'[x] \in Mutexes /\ obj'[x] \notin owned'[x]
  BY <1>8 DEF mutex_lock_timed_out
<1>9. ASSUME NEW t \in Threads, mutex_unlock_slow(t)
      PROVE  obj'[x] \in Mutexes /\ obj'[x] \notin owned'[x]
  BY <1>9 DEF mutex_unlock_slow
<1>10. ASSUME NEW t \in Threads, mutex_switch_lock(t)
       PROVE  obj'[x] \in Mutexes /\ obj'[x] \notin owned'[x]
  BY <1>10 DEF mutex_switch_lock, LockSlowPath, ReturnLocked
<1>11. ASSUME NEW t \in Threads, thread_block_timeout(t)
       PROVE  obj'[x] \in Mutexes /\ obj'[x] \notin owned'[x]
  BY <1>11 DEF thread_block_timeout
<1>12. ASSUME UNCHANGED vars
       PROVE  obj'[x] \in Mutexes /\ obj'[x] \notin owned'[x]
  BY <1>12 DEF vars, threadVars
<1> QED
  BY <1>1, <1>2, <1>3, <1>4, <1>5, <1>6, <1>7, <1>8, <1>9, <1>10, <1>11, <1>12
     DEF Next, ThreadStep

-----------------------------------------------------------------------------
(***************************************************************************)
(* The queues.                                                             *)
(***************************************************************************)

\* Who is queued where after each operation that changes a queue.
LEMMA EnqueueEffect ==
    ASSUME TypeOK, QueueInv, NEW t \in Threads, NEW m \in Mutexes,
           pc[t] # "blocked",
           waiters' = [waiters EXCEPT ![m] = Append(@, t)]
    PROVE  /\ \A n \in Mutexes : Distinct(waiters'[n])
           /\ \A n \in Mutexes, u \in Threads :
                 Queued(u, n)' <=> Queued(u, n) \/ (u = t /\ n = m)
<1>1. ~InQueue(waiters[m], t) /\ waiters[m] \in Seq(Threads)
  BY DEF QueueInv, Queued, TypeOK
<1>2. \A n \in Mutexes : Distinct(waiters[n])
  BY DEF QueueInv, Distinct
<1>3. /\ waiters'[m] = Append(waiters[m], t)
      /\ \A n \in Mutexes : n # m => waiters'[n] = waiters[n]
  BY DEF TypeOK
<1> QED
  BY <1>1, <1>2, <1>3, AppendFacts DEF Queued

LEMMA DequeueHeadEffect ==
    ASSUME TypeOK, QueueInv, NEW m \in Mutexes, waiters[m] # <<>>,
           waiters' = [waiters EXCEPT ![m] = Tail(@)]
    PROVE  /\ Head(waiters[m]) \in Threads
           /\ Queued(Head(waiters[m]), m)
           /\ \A n \in Mutexes : Distinct(waiters'[n])
           /\ \A n \in Mutexes, u \in Threads :
                 Queued(u, n)' <=>
                    Queued(u, n) /\ ~(u = Head(waiters[m]) /\ n = m)
<1>1. waiters[m] \in Seq(Threads)
  BY DEF TypeOK
<1>2. \A n \in Mutexes : Distinct(waiters[n])
  BY DEF QueueInv, Distinct
<1>3. /\ waiters'[m] = Tail(waiters[m])
      /\ \A n \in Mutexes : n # m => waiters'[n] = waiters[n]
  BY DEF TypeOK
<1> QED
  BY <1>1, <1>2, <1>3, TailFacts DEF Queued

LEMMA DequeueEffect ==
    ASSUME TypeOK, QueueInv, NEW t \in Threads, NEW m \in Mutexes,
           Queued(t, m), waiters' = [waiters EXCEPT ![m] = Dequeue(@, t)]
    PROVE  /\ \A n \in Mutexes : Distinct(waiters'[n])
           /\ \A n \in Mutexes, u \in Threads :
                 Queued(u, n)' <=> Queued(u, n) /\ ~(u = t /\ n = m)
<1>1. waiters[m] \in Seq(Threads) /\ InQueue(waiters[m], t)
  BY DEF TypeOK, Queued
<1>2. \A n \in Mutexes : Distinct(waiters[n])
  BY DEF QueueInv, Distinct
<1>3. /\ waiters'[m] = Dequeue(waiters[m], t)
      /\ \A n \in Mutexes : n # m => waiters'[n] = waiters[n]
  BY DEF TypeOK
<1> QED
  BY <1>1, <1>2, <1>3, DequeueFacts DEF Queued

LEMMA ClearEffect ==
    ASSUME TypeOK, QueueInv, NEW m \in Mutexes,
           waiters' = [waiters EXCEPT ![m] = <<>>]
    PROVE  /\ \A n \in Mutexes : Distinct(waiters'[n])
           /\ \A n \in Mutexes, u \in Threads :
                 Queued(u, n)' <=> Queued(u, n) /\ n # m
<1>1. \A n \in Mutexes : Distinct(waiters[n])
  BY DEF QueueInv, Distinct
<1>2. /\ waiters'[m] = <<>>
      /\ \A n \in Mutexes : n # m => waiters'[n] = waiters[n]
  BY DEF TypeOK
<1>3. Distinct(<<>>) /\ \A u : ~InQueue(<<>>, u)
  BY DEF Distinct, InQueue
<1> QED
  BY <1>1, <1>2, <1>3 DEF Queued

LEMMA NoQueueEffect ==
    ASSUME QueueInv, waiters' = waiters
    PROVE  /\ \A n \in Mutexes : Distinct(waiters'[n])
           /\ \A n \in Mutexes, u \in Threads : Queued(u, n)' <=> Queued(u, n)
  BY DEF QueueInv, Distinct, Queued

\* The second and the third conjunct of QueueInv for one thread.
QueueInvOf(u) ==
    /\ \A n \in Mutexes : Queued(u, n) =>
          /\ pc[u] = "blocked"
          /\ obj[u] = n
          /\ \/ wait_status[u] = "waiting"
             \/ wait_status[u] = "B_TIMED_OUT" /\ u \in timed
    /\ \A n \in Mutexes :
          pc[u] = "blocked" /\ obj[u] = n /\ wait_status[u] = "waiting"
              => Queued(u, n)

LEMMA QueueInvSplit ==
    QueueInv <=> /\ \A n \in Mutexes : Distinct(waiters[n])
                 /\ \A u \in Threads : QueueInvOf(u)
  BY DEF QueueInv, QueueInvOf, Distinct

\* The unlock slow path, run for a mutex some thread has released.
LEMMA UnlockSlowPathQueue ==
    ASSUME TypeOK, WantInv, QueueInv, NEW m \in Mutexes, UnlockSlowPath(m),
           NEW u \in Threads
    PROVE  /\ \A n \in Mutexes : Distinct(waiters'[n])
           /\ \A n \in Mutexes : Queued(u, n)' =>
                 Queued(u, n) /\ wait_status'[u] = wait_status[u]
           /\ \A n \in Mutexes :
                 pc[u] = "blocked" /\ obj[u] = n /\ wait_status'[u] = "waiting"
                     => Queued(u, n)'
<1>1. CASE waiters' = waiters /\ wait_status' = wait_status
  BY <1>1, NoQueueEffect, QueueInvSplit DEF QueueInvOf, WantInv
<1>2. CASE /\ waiters[m] # <<>>
           /\ waiters' = [waiters EXCEPT ![m] = Tail(@)]
           /\ wait_status' =
                 thread_unblock_locked(wait_status, Head(waiters[m]), "B_OK")
  <2> DEFINE h == Head(waiters[m])
  <2>1. h \in Threads /\ Queued(h, m) /\ obj[h] = m
    BY <1>2, DequeueHeadEffect, QueueInvSplit DEF QueueInvOf
  <2>2. /\ \A n \in Mutexes : Distinct(waiters'[n])
        /\ \A n \in Mutexes : Queued(u, n)' <=> Queued(u, n) /\ ~(u = h /\ n = m)
    BY <1>2, DequeueHeadEffect
  <2>3. /\ u # h => wait_status'[u] = wait_status[u]
        /\ wait_status'[h] # "waiting"
    BY <1>2, <2>1 DEF thread_unblock_locked, thread_is_blocked, TypeOK
  <2>4. QueueInvOf(u)
    BY QueueInvSplit
  <2> HIDE DEF h
  <2>5. ASSUME NEW n \in Mutexes, Queued(u, n)'
        PROVE  Queued(u, n) /\ wait_status'[u] = wait_status[u]
    BY <2>1, <2>2, <2>3, <2>4, <2>5 DEF QueueInvOf
  <2>6. ASSUME NEW n \in Mutexes, pc[u] = "blocked", obj[u] = n,
               wait_status'[u] = "waiting"
        PROVE  Queued(u, n)'
    <3>1. u # h /\ wait_status[u] = "waiting"
      BY <2>3, <2>6
    <3> QED
      BY <2>2, <2>4, <2>6, <3>1 DEF QueueInvOf
  <2> QED
    BY <2>2, <2>5, <2>6
<1> QED
  BY <1>1, <1>2 DEF UnlockSlowPath

\* A step that leaves the queues and the wait results alone and moves only
\* threads that are not waiting, to places where they do not wait.
LEMMA QueueFrame ==
    ASSUME TypeOK, QueueInv, NEW t \in Threads, pc[t] # "blocked",
           pc'[t] # "blocked",
           waiters' = waiters, wait_status' = wait_status,
           \A u \in Threads : u # t => /\ pc'[u] = pc[u]
                                       /\ obj'[u] = obj[u]
                                       /\ u \in timed => u \in timed'
    PROVE  QueueInv'
<1>1. /\ \A n \in Mutexes : Distinct(waiters[n])'
      /\ \A n \in Mutexes, u \in Threads : Queued(u, n)' <=> Queued(u, n)
  BY NoQueueEffect DEF Distinct
<1>2. ASSUME NEW u \in Threads
      PROVE  QueueInvOf(u)'
  <2>1. QueueInvOf(u)
    BY QueueInvSplit
  <2> QED
    BY <1>1, <2>1 DEF QueueInvOf
<1> QED
  BY <1>1, <1>2, QueueInvSplit DEF QueueInv, QueueInvOf, Distinct

\* A thread that does not wait enters the queue.
LEMMA QueueEnter ==
    ASSUME TypeOK, QueueInv, NEW t \in Threads, NEW m \in Mutexes,
           pc[t] # "blocked", obj[t] = m, LockSlowPath(t, m),
           obj' = obj, timed' = timed
    PROVE  QueueInv'
<1>1. CASE m \in released
  BY <1>1, QueueFrame DEF LockSlowPath, ReturnLocked, TypeOK
<1>2. CASE m \notin released
  <2>1. /\ waiters' = [waiters EXCEPT ![m] = Append(@, t)]
        /\ wait_status' = [wait_status EXCEPT ![t] = "waiting"]
        /\ pc' = [pc EXCEPT ![t] = "blocked"]
    BY <1>2 DEF LockSlowPath, thread_prepare_to_block
  <2>2. /\ \A n \in Mutexes : Distinct(waiters'[n])
        /\ \A n \in Mutexes, u \in Threads :
              Queued(u, n)' <=> Queued(u, n) \/ (u = t /\ n = m)
    BY <2>1, EnqueueEffect
  <2>3. ASSUME NEW u \in Threads
        PROVE  QueueInvOf(u)'
    <3>1. QueueInvOf(u)
      BY QueueInvSplit
    <3> QED
      BY <2>1, <2>2, <3>1 DEF QueueInvOf, TypeOK
  <2> QED
    BY <2>2, <2>3 DEF QueueInv, QueueInvOf, Distinct
<1> QED
  BY <1>1, <1>2

LEMMA QueueStep ==
    ASSUME TypeOK, WantInv, QueueInv, [Next]_vars
    PROVE  QueueInv'
<1>1. ASSUME NEW t \in Threads, NEW m \in Mutexes,
             mutex_lock(t, m) \/ mutex_lock_with_timeout(t, m)
      PROVE  QueueInv'
  <2>1. PICK T : LockFastPath(t, m, T) /\ T \in {timed \ {t}, timed \cup {t}}
    BY <1>1 DEF mutex_lock, mutex_lock_with_timeout
  <2> QED
    BY <2>1, QueueFrame DEF LockFastPath, ReturnLocked, TypeOK
<1>2. ASSUME NEW t \in Threads, NEW m \in Mutexes, mutex_trylock(t, m)
      PROVE  QueueInv'
  BY <1>2, QueueFrame DEF mutex_trylock, ReturnLocked, TypeOK
<1>3. ASSUME NEW t \in Threads, NEW m \in Mutexes, mutex_unlock(t, m)
      PROVE  QueueInv'
  BY <1>3, QueueFrame DEF mutex_unlock, TypeOK
<1>4. ASSUME NEW t \in Threads, NEW m \in Mutexes, mutex_destroy(t, m)
      PROVE  QueueInv'
  <2>1. /\ waiters' = [waiters EXCEPT ![m] = <<>>]
        /\ pc' = pc /\ obj' = obj /\ timed' = timed
    BY <1>4 DEF mutex_destroy
  <2>2. /\ \A n \in Mutexes : Distinct(waiters'[n])
        /\ \A n \in Mutexes, u \in Threads :
              Queued(u, n)' <=> Queued(u, n) /\ n # m
    BY <2>1, ClearEffect
  <2>3. \A u \in Threads :
           /\ ~Queued(u, m) => wait_status'[u] = wait_status[u]
           /\ Queued(u, m) => wait_status'[u] # "waiting"
    BY <1>4 DEF mutex_destroy, DestroyWakes, thread_unblock_each,
                thread_unblock_locked, thread_is_blocked, TypeOK
  <2>4. ASSUME NEW u \in Threads
        PROVE  QueueInvOf(u)'
    <3>1. QueueInvOf(u)
      BY QueueInvSplit
    <3> QED
      BY <2>1, <2>2, <2>3, <3>1 DEF QueueInvOf
  <2> QED
    BY <2>2, <2>4 DEF QueueInv, QueueInvOf, Distinct
<1>5. ASSUME NEW t \in Threads, NEW from \in Mutexes, NEW to \in Mutexes,
             mutex_switch_unlock(t, from, to)
      PROVE  QueueInv'
  <2>1. CASE ~UnlockContended(count[from])
    BY <1>5, <2>1, QueueFrame DEF mutex_switch_unlock, TypeOK
  <2>2. CASE UnlockContended(count[from])
    <3>1. /\ UnlockSlowPath(from)
          /\ pc[t] = "running"
          /\ pc' = [pc EXCEPT ![t] = "switch"]
          /\ obj' = [obj EXCEPT ![t] = to]
          /\ timed' = timed \ {t}
      BY <1>5, <2>2 DEF mutex_switch_unlock
    <3>2. \A n \in Mutexes : Distinct(waiters'[n])
      BY <3>1, UnlockSlowPathQueue
    <3>3. ASSUME NEW u \in Threads
          PROVE  QueueInvOf(u)'
      <4>1. QueueInvOf(u)
        BY QueueInvSplit
      <4> QED
        BY <3>1, <4>1, UnlockSlowPathQueue DEF QueueInvOf, TypeOK
    <3> QED
      BY <3>2, <3>3 DEF QueueInv, QueueInvOf, Distinct
  <2> QED
    BY <2>1, <2>2
<1>6. ASSUME NEW t \in Threads, mutex_lock_slow(t)
      PROVE  QueueInv'
  <2>1. obj[t] \in Mutexes
    BY <1>6 DEF mutex_lock_slow, WantInv
  <2> QED
    BY <1>6, <2>1, QueueEnter DEF mutex_lock_slow
<1>7. ASSUME NEW t \in Threads, mutex_lock_return(t)
      PROVE  QueueInv'
  <2>1. /\ waiters' = waiters /\ wait_status' = wait_status
        /\ obj' = obj /\ timed' = timed
        /\ pc' = [pc EXCEPT ![t] = "running"]
        /\ \/ wait_status[t] = "B_OK"
           \/ wait_status[t] # "waiting" /\ t \notin timed
    BY <1>7 DEF mutex_lock_return, ReturnLocked, mutexVars, thread_is_blocked
  <2>2. /\ \A n \in Mutexes : Distinct(waiters'[n])
        /\ \A n \in Mutexes, u \in Threads : Queued(u, n)' <=> Queued(u, n)
    BY <2>1, NoQueueEffect
  <2>3. ASSUME NEW u \in Threads
        PROVE  QueueInvOf(u)'
    <3>1. QueueInvOf(u)
      BY QueueInvSplit
    <3> QED
      BY <2>1, <2>2, <3>1 DEF QueueInvOf, TypeOK
  <2> QED
    BY <2>2, <2>3 DEF QueueInv, QueueInvOf, Distinct
<1>8. ASSUME NEW t \in Threads, mutex_lock_timed_out(t)
      PROVE  QueueInv'
  <2> DEFINE m == obj[t]
  <2>1. m \in Mutexes
    BY <1>8 DEF mutex_lock_timed_out, WantInv
  <2>2. /\ wait_status' = wait_status /\ obj' = obj /\ timed' = timed
        /\ pc' = [pc EXCEPT ![t] = "running"]
    BY <1>8 DEF mutex_lock_timed_out
  <2>3. /\ \A n \in Mutexes : Distinct(waiters'[n])
        /\ \A n \in Mutexes, u \in Threads :
              Queued(u, n)' <=> Queued(u, n) /\ ~(u = t /\ n = m)
    <3>1. CASE Queued(t, m)
      BY <1>8, <2>1, <3>1, DequeueEffect DEF mutex_lock_timed_out
    <3>2. CASE ~Queued(t, m)
      <4>1. waiters' = waiters
        BY <1>8, <3>2 DEF mutex_lock_timed_out
      <4> QED
        BY <3>2, <4>1, NoQueueEffect
    <3> QED
      BY <3>1, <3>2
  <2> HIDE DEF m
  <2>4. ASSUME NEW u \in Threads
        PROVE  QueueInvOf(u)'
    <3>1. QueueInvOf(u)
      BY QueueInvSplit
    <3> QED
      BY <2>1, <2>2, <2>3, <3>1 DEF QueueInvOf, TypeOK, m
  <2> QED
    BY <2>3, <2>4 DEF QueueInv, QueueInvOf, Distinct
<1>9. ASSUME NEW t \in Threads, mutex_unlock_slow(t)
      PROVE  QueueInv'
  <2>1. /\ obj[t] \in Mutexes
        /\ UnlockSlowPath(obj[t])
        /\ pc[t] = "unlock"
        /\ pc' = [pc EXCEPT ![t] = "running"]
        /\ obj' = obj /\ timed' = timed
    BY <1>9 DEF mutex_unlock_slow, WantInv
  <2>2. \A n \in Mutexes : Distinct(waiters'[n])
    BY <2>1, UnlockSlowPathQueue
  <2>3. ASSUME NEW u \in Threads
        PROVE  QueueInvOf(u)'
    <3>1. QueueInvOf(u)
      BY QueueInvSplit
    <3> QED
      BY <2>1, <3>1, UnlockSlowPathQueue DEF QueueInvOf, TypeOK
  <2> QED
    BY <2>2, <2>3 DEF QueueInv, QueueInvOf, Distinct
<1>10. ASSUME NEW t \in Threads, mutex_switch_lock(t)
       PROVE  QueueInv'
  <2>1. obj[t] \in Mutexes
    BY <1>10 DEF mutex_switch_lock, WantInv
  <2>2. CASE LockContended(count[obj[t]])
    BY <1>10, <2>1, <2>2, QueueEnter DEF mutex_switch_lock
  <2>3. CASE ~LockContended(count[obj[t]])
    BY <1>10, <2>3, QueueFrame DEF mutex_switch_lock, ReturnLocked, TypeOK
  <2> QED
    BY <2>2, <2>3
<1>11. ASSUME NEW t \in Threads, thread_block_timeout(t)
       PROVE  QueueInv'
  <2>1. /\ waiters' = waiters /\ obj' = obj /\ timed' = timed /\ pc' = pc
        /\ t \in timed
        /\ wait_status' = [wait_status EXCEPT ![t] = "B_TIMED_OUT"]
    BY <1>11 DEF thread_block_timeout, mutexVars, thread_unblock_locked,
                 thread_is_blocked
  <2>2. /\ \A n \in Mutexes : Distinct(waiters'[n])
        /\ \A n \in Mutexes, u \in Threads : Queued(u, n)' <=> Queued(u, n)
    BY <2>1, NoQueueEffect
  <2>3. ASSUME NEW u \in Threads
        PROVE  QueueInvOf(u)'
    <3>1. QueueInvOf(u)
      BY QueueInvSplit
    <3> QED
      BY <2>1, <2>2, <3>1 DEF QueueInvOf, TypeOK
  <2> QED
    BY <2>2, <2>3 DEF QueueInv, QueueInvOf, Distinct
<1>12. ASSUME UNCHANGED vars
       PROVE  QueueInv'
  BY <1>12 DEF vars, mutexVars, threadVars, QueueInv, Queued
<1> QED
  BY <1>1, <1>2, <1>3, <1>4, <1>5, <1>6, <1>7, <1>8, <1>9, <1>10, <1>11, <1>12
     DEF Next, ThreadStep

-----------------------------------------------------------------------------
(***************************************************************************)
(* The count and the right to own.                                         *)
(***************************************************************************)
LEMMA CardNat ==
    \A S \in SUBSET Threads : Cardinality(S) \in Nat
  BY ThreadsAssumption, FS_Subset, FS_CardinalityType

LEMMA SetsOfThreads ==
    ASSUME NEW m
    PROVE  /\ Owners(m) \in SUBSET Threads
           /\ Unlockers(m) \in SUBSET Threads
           /\ Lockers(m) \in SUBSET Threads
           /\ Engaged(m) \in SUBSET Threads
  BY DEF Owners, Unlockers, Lockers, Engaged

\* The arithmetic of CountInv: count c, o owners, u unlockers, r = 1 iff
\* MUTEX_FLAG_RELEASED, i unlocks to ignore, e threads engaged.
Accounts(c, o, u, r, i, e) ==
    /\ o + u + r - i \in {0, 1}
    /\ c = 0 => o + u + r - i = 0 /\ e = 0
    /\ c # 0 => c = (o + u + r - i) - 1 - e
    /\ c <= 0
    /\ i <= u

Flag(m) == IF m \in released THEN 1 ELSE 0

CountInvOf(m) ==
    /\ Accounts(count[m], Cardinality(Owners(m)), Cardinality(Unlockers(m)),
                Flag(m), ignore_unlock_count[m], Cardinality(Engaged(m)))
    /\ m \in released => waiters[m] = <<>>

LEMMA CountInvSplit ==
    CountInv <=> \A m \in Mutexes \ destroyed : CountInvOf(m)
  BY DEF CountInv, CountInvOf, Accounts, Token, Flag

\* A mutex whose threads and fields a step leaves alone.
Untouched(m) ==
    /\ Owners(m)' = Owners(m)
    /\ Unlockers(m)' = Unlockers(m)
    /\ Engaged(m)' = Engaged(m)
    /\ count'[m] = count[m]
    /\ ignore_unlock_count'[m] = ignore_unlock_count[m]
    /\ m \in released' <=> m \in released
    /\ m \in released => waiters'[m] = waiters[m]

LEMMA UntouchedKeeps ==
    ASSUME NEW m, CountInvOf(m), Untouched(m)
    PROVE  CountInvOf(m)'
<1>1. Flag(m)' = Flag(m)
  BY DEF Untouched, Flag
<1> QED
  BY <1>1 DEF Untouched, CountInvOf

IsOwner(u, n) ==
    \/ n \in owned[u]
    \/ pc[u] = "blocked" /\ obj[u] = n /\ wait_status[u] = "B_OK"
IsUnlocker(u, n) == pc[u] = "unlock" /\ obj[u] = n
IsLocker(u, n) ==
    obj[u] = n /\ (pc[u] = "lock" \/ (pc[u] = "blocked" /\ Queued(u, n)))

LEMMA Membership ==
    ASSUME NEW u \in Threads, NEW n \in Mutexes
    PROVE  /\ u \in Owners(n) <=> IsOwner(u, n)
           /\ u \in Unlockers(n) <=> IsUnlocker(u, n)
           /\ u \in Engaged(n) <=> IsOwner(u, n) \/ IsLocker(u, n)
           /\ u \in Owners(n)' <=> IsOwner(u, n)'
           /\ u \in Unlockers(n)' <=> IsUnlocker(u, n)'
           /\ u \in Engaged(n)' <=> IsOwner(u, n)' \/ IsLocker(u, n)'
  BY DEF Owners, Unlockers, Lockers, Engaged, IsOwner, IsUnlocker, IsLocker

\* Whether a thread is an owner, unlocker or locker of n depends on its own
\* state only.
SameFor(u, n) ==
    /\ IsOwner(u, n)' <=> IsOwner(u, n)
    /\ IsUnlocker(u, n)' <=> IsUnlocker(u, n)
    /\ IsLocker(u, n)' <=> IsLocker(u, n)

LEMMA SameState ==
    ASSUME NEW u \in Threads, NEW n \in Mutexes,
           pc'[u] = pc[u], obj'[u] = obj[u], owned'[u] = owned[u],
           wait_status'[u] = wait_status[u], Queued(u, n)' <=> Queued(u, n)
    PROVE  SameFor(u, n)
  BY DEF SameFor, IsOwner, IsUnlocker, IsLocker

LEMMA SameSets ==
    ASSUME NEW n \in Mutexes, \A u \in Threads : SameFor(u, n)
    PROVE  /\ Owners(n)' = Owners(n)
           /\ Unlockers(n)' = Unlockers(n)
           /\ Engaged(n)' = Engaged(n)
<1>1. \A u \in Threads :
         /\ u \in Owners(n)' <=> u \in Owners(n)
         /\ u \in Unlockers(n)' <=> u \in Unlockers(n)
         /\ u \in Engaged(n)' <=> u \in Engaged(n)
  BY Membership DEF SameFor
<1>2. /\ Owners(n) \subseteq Threads /\ Owners(n)' \subseteq Threads
      /\ Unlockers(n) \subseteq Threads /\ Unlockers(n)' \subseteq Threads
      /\ Engaged(n) \subseteq Threads /\ Engaged(n)' \subseteq Threads
  BY DEF Owners, Unlockers, Lockers, Engaged
<1> QED
  BY <1>1, <1>2

\* How the numbers change if only x changes its part in n.
LEMMA NumbersOne ==
    ASSUME NEW n \in Mutexes, NEW x \in Threads,
           \A u \in Threads : u # x => SameFor(u, n)
    PROVE  /\ Cardinality(Owners(n)') = Cardinality(Owners(n))
                 + (IF IsOwner(x, n)' THEN 1 ELSE 0)
                 - (IF IsOwner(x, n) THEN 1 ELSE 0)
           /\ Cardinality(Unlockers(n)') = Cardinality(Unlockers(n))
                 + (IF IsUnlocker(x, n)' THEN 1 ELSE 0)
                 - (IF IsUnlocker(x, n) THEN 1 ELSE 0)
           /\ Cardinality(Engaged(n)') = Cardinality(Engaged(n))
                 + (IF IsOwner(x, n)' \/ IsLocker(x, n)' THEN 1 ELSE 0)
                 - (IF IsOwner(x, n) \/ IsLocker(x, n) THEN 1 ELSE 0)
<1>1. \A u \in Threads : u # x =>
         /\ u \in Owners(n)' <=> u \in Owners(n)
         /\ u \in Unlockers(n)' <=> u \in Unlockers(n)
         /\ u \in Engaged(n)' <=> u \in Engaged(n)
  BY Membership DEF SameFor
<1>2. /\ x \in Owners(n) <=> IsOwner(x, n)
      /\ x \in Unlockers(n) <=> IsUnlocker(x, n)
      /\ x \in Engaged(n) <=> IsOwner(x, n) \/ IsLocker(x, n)
      /\ x \in Owners(n)' <=> IsOwner(x, n)'
      /\ x \in Unlockers(n)' <=> IsUnlocker(x, n)'
      /\ x \in Engaged(n)' <=> IsOwner(x, n)' \/ IsLocker(x, n)'
  BY Membership
<1>3. /\ Owners(n) \in SUBSET Threads /\ Owners(n)' \in SUBSET Threads
      /\ Unlockers(n) \in SUBSET Threads /\ Unlockers(n)' \in SUBSET Threads
      /\ Engaged(n) \in SUBSET Threads /\ Engaged(n)' \in SUBSET Threads
  BY DEF Owners, Unlockers, Lockers, Engaged
<1>4. Cardinality(Owners(n)') = Cardinality(Owners(n))
         + (IF x \in Owners(n)' THEN 1 ELSE 0) - (IF x \in Owners(n) THEN 1 ELSE 0)
  BY <1>1, <1>3, CardOne, ThreadsAssumption
<1>5. Cardinality(Unlockers(n)') = Cardinality(Unlockers(n))
         + (IF x \in Unlockers(n)' THEN 1 ELSE 0)
         - (IF x \in Unlockers(n) THEN 1 ELSE 0)
  BY <1>1, <1>3, CardOne, ThreadsAssumption
<1>6. Cardinality(Engaged(n)') = Cardinality(Engaged(n))
         + (IF x \in Engaged(n)' THEN 1 ELSE 0)
         - (IF x \in Engaged(n) THEN 1 ELSE 0)
  BY <1>1, <1>3, CardOne, ThreadsAssumption
<1> QED
  BY <1>2, <1>4, <1>5, <1>6

\* The same for two threads.
LEMMA NumbersTwo ==
    ASSUME NEW n \in Mutexes, NEW x \in Threads, NEW y \in Threads, x # y,
           \A u \in Threads : u # x /\ u # y => SameFor(u, n)
    PROVE  /\ Cardinality(Owners(n)') = Cardinality(Owners(n))
                 + (IF IsOwner(x, n)' THEN 1 ELSE 0)
                 - (IF IsOwner(x, n) THEN 1 ELSE 0)
                 + (IF IsOwner(y, n)' THEN 1 ELSE 0)
                 - (IF IsOwner(y, n) THEN 1 ELSE 0)
           /\ Cardinality(Unlockers(n)') = Cardinality(Unlockers(n))
                 + (IF IsUnlocker(x, n)' THEN 1 ELSE 0)
                 - (IF IsUnlocker(x, n) THEN 1 ELSE 0)
                 + (IF IsUnlocker(y, n)' THEN 1 ELSE 0)
                 - (IF IsUnlocker(y, n) THEN 1 ELSE 0)
           /\ Cardinality(Engaged(n)') = Cardinality(Engaged(n))
                 + (IF IsOwner(x, n)' \/ IsLocker(x, n)' THEN 1 ELSE 0)
                 - (IF IsOwner(x, n) \/ IsLocker(x, n) THEN 1 ELSE 0)
                 + (IF IsOwner(y, n)' \/ IsLocker(y, n)' THEN 1 ELSE 0)
                 - (IF IsOwner(y, n) \/ IsLocker(y, n) THEN 1 ELSE 0)
<1>1. \A u \in Threads : u # x /\ u # y =>
         /\ u \in Owners(n)' <=> u \in Owners(n)
         /\ u \in Unlockers(n)' <=> u \in Unlockers(n)
         /\ u \in Engaged(n)' <=> u \in Engaged(n)
  BY Membership DEF SameFor
<1>2. /\ x \in Owners(n) <=> IsOwner(x, n)
      /\ x \in Unlockers(n) <=> IsUnlocker(x, n)
      /\ x \in Engaged(n) <=> IsOwner(x, n) \/ IsLocker(x, n)
      /\ x \in Owners(n)' <=> IsOwner(x, n)'
      /\ x \in Unlockers(n)' <=> IsUnlocker(x, n)'
      /\ x \in Engaged(n)' <=> IsOwner(x, n)' \/ IsLocker(x, n)'
      /\ y \in Owners(n) <=> IsOwner(y, n)
      /\ y \in Unlockers(n) <=> IsUnlocker(y, n)
      /\ y \in Engaged(n) <=> IsOwner(y, n) \/ IsLocker(y, n)
      /\ y \in Owners(n)' <=> IsOwner(y, n)'
      /\ y \in Unlockers(n)' <=> IsUnlocker(y, n)'
      /\ y \in Engaged(n)' <=> IsOwner(y, n)' \/ IsLocker(y, n)'
  BY Membership
<1>3. /\ Owners(n) \in SUBSET Threads /\ Owners(n)' \in SUBSET Threads
      /\ Unlockers(n) \in SUBSET Threads /\ Unlockers(n)' \in SUBSET Threads
      /\ Engaged(n) \in SUBSET Threads /\ Engaged(n)' \in SUBSET Threads
  BY DEF Owners, Unlockers, Lockers, Engaged
<1>4. Cardinality(Owners(n)') = Cardinality(Owners(n))
         + (IF x \in Owners(n)' THEN 1 ELSE 0) - (IF x \in Owners(n) THEN 1 ELSE 0)
         + (IF y \in Owners(n)' THEN 1 ELSE 0) - (IF y \in Owners(n) THEN 1 ELSE 0)
  BY <1>1, <1>3, CardTwo, ThreadsAssumption
<1>5. Cardinality(Unlockers(n)') = Cardinality(Unlockers(n))
         + (IF x \in Unlockers(n)' THEN 1 ELSE 0)
         - (IF x \in Unlockers(n) THEN 1 ELSE 0)
         + (IF y \in Unlockers(n)' THEN 1 ELSE 0)
         - (IF y \in Unlockers(n) THEN 1 ELSE 0)
  BY <1>1, <1>3, CardTwo, ThreadsAssumption
<1>6. Cardinality(Engaged(n)') = Cardinality(Engaged(n))
         + (IF x \in Engaged(n)' THEN 1 ELSE 0)
         - (IF x \in Engaged(n) THEN 1 ELSE 0)
         + (IF y \in Engaged(n)' THEN 1 ELSE 0)
         - (IF y \in Engaged(n) THEN 1 ELSE 0)
  BY <1>1, <1>3, CardTwo, ThreadsAssumption
<1> QED
  BY <1>2, <1>4, <1>5, <1>6

LEMMA NumberTypes ==
    ASSUME TypeOK, NEW n \in Mutexes
    PROVE  /\ count[n] \in Int
           /\ ignore_unlock_count[n] \in Nat
           /\ Flag(n) \in {0, 1}
           /\ Cardinality(Owners(n)) \in Nat
           /\ Cardinality(Unlockers(n)) \in Nat
           /\ Cardinality(Engaged(n)) \in Nat
  BY CardNat, SetsOfThreads DEF TypeOK, Flag

LEMMA EngagedBounds ==
    ASSUME NEW u \in Threads, NEW n \in Mutexes, IsOwner(u, n) \/ IsLocker(u, n)
    PROVE  /\ Cardinality(Engaged(n)) >= 1
           /\ ~IsOwner(u, n) =>
                 Cardinality(Owners(n)) <= Cardinality(Engaged(n)) - 1
<1>1. u \in Engaged(n)
  BY Membership
<1>2. /\ IsFiniteSet(Engaged(n)) /\ IsFiniteSet(Engaged(n) \ {u})
      /\ Cardinality(Engaged(n)) \in Nat
      /\ Cardinality(Engaged(n) \ {u}) \in Nat
  BY SetsOfThreads, ThreadsAssumption, FS_Subset, CardNat
<1>3. Cardinality(Engaged(n) \ {u}) = Cardinality(Engaged(n)) - 1
  BY <1>1, <1>2, FS_RemoveElement
<1>4. ASSUME ~IsOwner(u, n)
      PROVE  Cardinality(Owners(n)) <= Cardinality(Engaged(n)) - 1
  <2>1. Owners(n) \in SUBSET (Engaged(n) \ {u})
    BY <1>4, Membership DEF Engaged
  <2> QED
    BY <1>2, <1>3, <2>1, FS_Subset
<1> QED
  BY <1>2, <1>3, <1>4

\* A step that changes no thread's part in the mutex n, nor its fields.
LEMMA Bystander ==
    ASSUME NEW n \in Mutexes, CountInvOf(n), \A u \in Threads : SameFor(u, n),
           count'[n] = count[n],
           ignore_unlock_count'[n] = ignore_unlock_count[n],
           n \in released' <=> n \in released,
           waiters'[n] = waiters[n]
    PROVE  CountInvOf(n)'
  BY SameSets, UntouchedKeeps DEF Untouched

\* The thread t, which owns nothing of m, finds count 0 and takes m.
LEMMA TakeFree ==
    ASSUME TypeOK, NEW t \in Threads, NEW m \in Mutexes, CountInvOf(m),
           m \notin owned[t], pc[t] \in {"running", "switch"},
           ReturnLocked(t, m), count[m] = 0, count'[m] = -1,
           wait_status' = wait_status, obj' = obj, waiters' = waiters,
           released' = released, ignore_unlock_count' = ignore_unlock_count
    PROVE  CountInvOf(m)'
<1>1. ASSUME NEW u \in Threads, u # t
      PROVE  SameFor(u, m)
  BY <1>1, SameState DEF ReturnLocked, TypeOK, Queued
<1>2. /\ ~IsOwner(t, m) /\ ~IsUnlocker(t, m) /\ ~IsLocker(t, m)
      /\ IsOwner(t, m)' /\ ~IsUnlocker(t, m)'
  BY DEF ReturnLocked, TypeOK, IsOwner, IsUnlocker, IsLocker
<1>3. /\ Cardinality(Owners(m)') = Cardinality(Owners(m)) + 1
      /\ Cardinality(Unlockers(m)') = Cardinality(Unlockers(m))
      /\ Cardinality(Engaged(m)') = Cardinality(Engaged(m)) + 1
  BY <1>1, <1>2, NumbersOne, NumberTypes
<1>4. Flag(m)' = Flag(m)
  BY DEF Flag
<1> QED
  BY <1>3, <1>4, NumberTypes DEF CountInvOf, Accounts

\* The lock slow path; newCount is -1 off for a switch, where the decrement
\* belongs to the same step.
LEMMA LockSlowPathCount ==
    ASSUME TypeOK, WantInv, QueueInv, NEW t \in Threads, NEW m \in Mutexes,
           CountInvOf(m), m \notin owned[t], obj[t] = m, obj' = obj,
           LockSlowPath(t, m), ignore_unlock_count' = ignore_unlock_count,
           \/ pc[t] = "lock" /\ count'[m] = count[m]
           \/ pc[t] = "switch" /\ count[m] < 0 /\ count'[m] = count[m] - 1
    PROVE  CountInvOf(m)'
<1>1. ASSUME NEW u \in Threads, u # t
      PROVE  SameFor(u, m)
  <2>1. /\ pc'[u] = pc[u] /\ obj'[u] = obj[u] /\ owned'[u] = owned[u]
        /\ wait_status'[u] = wait_status[u]
    BY <1>1 DEF LockSlowPath, ReturnLocked, thread_prepare_to_block, TypeOK
  <2>2. Queued(u, m)' <=> Queued(u, m)
    <3>1. CASE m \in released
      BY <3>1 DEF LockSlowPath, Queued
    <3>2. CASE m \notin released
      BY <1>1, <3>2, EnqueueEffect DEF LockSlowPath
    <3> QED
      BY <3>1, <3>2
  <2> QED
    BY <2>1, <2>2, SameState
<1>2. /\ ~IsOwner(t, m) /\ ~IsUnlocker(t, m) /\ ~IsUnlocker(t, m)'
      /\ IsLocker(t, m) <=> pc[t] = "lock"
  BY DEF LockSlowPath, ReturnLocked, TypeOK, IsOwner, IsUnlocker, IsLocker
<1>3. CASE m \in released
  <2>1. IsOwner(t, m)'
    BY <1>3 DEF LockSlowPath, ReturnLocked, TypeOK, IsOwner
  <2>2. Flag(m) = 1 /\ Flag(m)' = 0
    BY <1>3 DEF LockSlowPath, Flag
  <2>3. /\ Cardinality(Owners(m)') = Cardinality(Owners(m)) + 1
        /\ Cardinality(Unlockers(m)') = Cardinality(Unlockers(m))
        /\ Cardinality(Engaged(m)') = Cardinality(Engaged(m))
              + (IF pc[t] = "lock" THEN 0 ELSE 1)
    BY <1>1, <1>2, <2>1, NumbersOne, NumberTypes
  <2>4. pc[t] = "lock" => Cardinality(Engaged(m)) >= 1
    BY <1>2, EngagedBounds
  <2>5. m \notin released'
    BY <1>3 DEF LockSlowPath
  <2>6. Accounts(count[m], Cardinality(Owners(m)), Cardinality(Unlockers(m)),
                 1, ignore_unlock_count[m], Cardinality(Engaged(m)))
    BY <2>2 DEF CountInvOf
  <2>7. Accounts(count'[m], Cardinality(Owners(m)) + 1,
                 Cardinality(Unlockers(m)), 0, ignore_unlock_count[m],
                 Cardinality(Engaged(m)) + (IF pc[t] = "lock" THEN 0 ELSE 1))
    BY <2>4, <2>6, NumberTypes DEF Accounts
  <2> QED
    BY <2>2, <2>3, <2>5, <2>7 DEF CountInvOf
<1>4. CASE m \notin released
  <2>1. ~IsOwner(t, m)'
    BY <1>4 DEF LockSlowPath, thread_prepare_to_block, TypeOK, IsOwner
  <2>2. IsLocker(t, m)'
    <3>1. Queued(t, m)'
      BY <1>4, EnqueueEffect DEF LockSlowPath
    <3> QED
      BY <1>4, <3>1 DEF LockSlowPath, TypeOK, IsLocker
  <2>3. Flag(m)' = Flag(m) /\ m \notin released'
    BY <1>4 DEF LockSlowPath, Flag
  <2>4. /\ Cardinality(Owners(m)') = Cardinality(Owners(m))
        /\ Cardinality(Unlockers(m)') = Cardinality(Unlockers(m))
        /\ Cardinality(Engaged(m)') = Cardinality(Engaged(m))
              + (IF pc[t] = "lock" THEN 0 ELSE 1)
    BY <1>1, <1>2, <2>1, <2>2, NumbersOne, NumberTypes
  <2> QED
    BY <2>3, <2>4, NumberTypes DEF CountInvOf, Accounts
<1> QED
  BY <1>3, <1>4

\* The unlock slow path of m: the right to own goes to the first waiter, to the
\* flag, or (timed out waiter) nowhere.  The caller t is an unlocker, or an owner
\* that switches and increments the count in the same step.
LEMMA UnlockSlowPathCount ==
    ASSUME TypeOK, WantInv, QueueInv, NEW t \in Threads, NEW m \in Mutexes,
           CountInvOf(m), UnlockSlowPath(m), pc[t] # "blocked",
           owned'[t] = owned[t] \ {m},
           pc'[t] \notin {"lock", "blocked", "unlock"},
           \A u \in Threads : u # t => /\ pc'[u] = pc[u]
                                       /\ obj'[u] = obj[u]
                                       /\ owned'[u] = owned[u],
           \/ IsUnlocker(t, m) /\ m \notin owned[t] /\ count'[m] = count[m]
           \/ /\ pc[t] = "running" /\ m \in owned[t]
              /\ count[m] < -1 /\ count'[m] = count[m] + 1
    PROVE  CountInvOf(m)'
<1> DEFINE d == IF m \in owned[t] THEN 1 ELSE 0
           O == Cardinality(Owners(m))
           U == Cardinality(Unlockers(m))
           E == Cardinality(Engaged(m))
           ig == ignore_unlock_count[m]
<1>1. /\ ~IsOwner(t, m)' /\ ~IsUnlocker(t, m)' /\ ~IsLocker(t, m)'
      /\ ~IsLocker(t, m)
      /\ m \in owned[t] => IsOwner(t, m) /\ ~IsUnlocker(t, m)
      /\ m \notin owned[t] => ~IsOwner(t, m) /\ IsUnlocker(t, m)
  BY DEF IsOwner, IsUnlocker, IsLocker
<1>2. /\ count[m] \in Int /\ count'[m] = count[m] + d
      /\ d \in {0, 1}
      /\ d = 1 => count[m] < -1
      /\ O \in Nat /\ U \in Nat /\ E \in Nat /\ ig \in Nat
      /\ Flag(m) \in {0, 1}
  BY NumberTypes
<1>3. /\ Cardinality(Owners(m)') \in Nat
      /\ Cardinality(Unlockers(m)') \in Nat
      /\ Cardinality(Engaged(m)') \in Nat
  BY CardNat DEF Owners, Unlockers, Lockers, Engaged
<1>4. Accounts(count[m], O, U, Flag(m), ig, E)
  BY DEF CountInvOf
<1>o. d = 1 => O >= 1
  <2>1. d = 1 => t \in Owners(m)
    BY <1>1, Membership
  <2> QED
    BY <1>2, <2>1, ThreadsAssumption, SetsOfThreads, FS_Subset, FS_EmptySet
<1>u. d = 0 => U >= 1
  <2>1. d = 0 => t \in Unlockers(m)
    BY <1>1, Membership
  <2> QED
    BY <1>2, <2>1, ThreadsAssumption, SetsOfThreads, FS_Subset, FS_EmptySet
<1>5. CASE waiters' = waiters /\ wait_status' = wait_status
  <2>1. ASSUME NEW u \in Threads, u # t
        PROVE  SameFor(u, m)
    BY <1>5, <2>1, SameState DEF Queued
  <2>2. /\ Cardinality(Owners(m)') = O - d
        /\ Cardinality(Unlockers(m)') = U - (1 - d)
        /\ Cardinality(Engaged(m)') = E - d
    BY <1>1, <1>2, <2>1, NumbersOne
  <2>5. CASE ig > 0
    <3>1. /\ ignore_unlock_count'[m] = ig - 1
          /\ released' = released /\ Flag(m)' = Flag(m)
      BY <2>5 DEF UnlockSlowPath, Flag, TypeOK
    <3>2. Accounts(count[m] + d, O - d, U - (1 - d), Flag(m), ig - 1, E - d)
      <4> HIDE DEF d, O, U, E, ig
      <4>1. CASE d = 0
        BY <1>2, <1>4, <1>o, <1>u, <2>5, <4>1 DEF Accounts
      <4>2. CASE d = 1
        BY <1>2, <1>4, <1>o, <1>u, <2>5, <4>2 DEF Accounts
      <4> QED
        BY <1>2, <4>1, <4>2
    <3> QED
      BY <1>2, <1>5, <2>2, <3>1, <3>2 DEF CountInvOf
  <2>6. CASE ig = 0
    <3>1. ignore_unlock_count'[m] = 0 /\ waiters[m] = <<>> /\ Flag(m)' = 1
      <4>1. CASE waiters[m] = <<>>
        BY <2>6, <4>1 DEF UnlockSlowPath, Flag, TypeOK
      <4>2. CASE waiters[m] # <<>>
        <5>1. waiters' = [waiters EXCEPT ![m] = Tail(@)]
          BY <2>6, <4>2 DEF UnlockSlowPath
        <5> QED
          BY <1>5, <4>2, <5>1, DequeueHeadEffect, NoQueueEffect
      <4> QED
        BY <4>1, <4>2
    <3>2. Accounts(count[m] + d, O - d, U - (1 - d), 1, 0, E - d)
      <4> HIDE DEF d, O, U, E, ig
      <4>1. CASE d = 0
        BY <1>2, <1>4, <1>o, <1>u, <2>6, <4>1 DEF Accounts
      <4>2. CASE d = 1
        BY <1>2, <1>4, <1>o, <1>u, <2>6, <4>2 DEF Accounts
      <4> QED
        BY <1>2, <4>1, <4>2
    <3> QED
      BY <1>2, <1>5, <2>2, <3>1, <3>2 DEF CountInvOf
  <2> QED
    BY <1>2, <2>5, <2>6
<1>6. CASE /\ ig = 0
           /\ waiters[m] # <<>>
           /\ waiters' = [waiters EXCEPT ![m] = Tail(@)]
           /\ wait_status' =
                 thread_unblock_locked(wait_status, Head(waiters[m]), "B_OK")
           /\ UNCHANGED <<ignore_unlock_count, released>>
  <2>h. PICK h \in Threads : h = Head(waiters[m])
    BY <1>6, DequeueHeadEffect
  <2> DEFINE w == IF wait_status[h] = "waiting" THEN 1 ELSE 0
  <2>1. /\ h \in Threads /\ Queued(h, m)
        /\ pc[h] = "blocked" /\ obj[h] = m
        /\ wait_status[h] \in {"waiting", "B_TIMED_OUT"}
        /\ h # t
    <3>1. Queued(h, m)
      BY <1>6, <2>h, DequeueHeadEffect
    <3> QED
      BY <3>1 DEF QueueInv
  <2>2. \A u \in Threads : Queued(u, m)' <=> Queued(u, m) /\ u # h
    BY <1>6, <2>h, DequeueHeadEffect
  <2>3. /\ \A u \in Threads : u # h => wait_status'[u] = wait_status[u]
        /\ wait_status'[h] = IF wait_status[h] = "waiting" THEN "B_OK"
                                                           ELSE wait_status[h]
    BY <1>6, <2>1, <2>h DEF thread_unblock_locked, thread_is_blocked, TypeOK
  <2>4. /\ pc'[h] = "blocked" /\ obj'[h] = m /\ owned'[h] = owned[h]
        /\ m \notin owned[h]
    BY <2>1 DEF WantInv
  <2>5. ASSUME NEW u \in Threads, u # t, u # h
        PROVE  SameFor(u, m)
    BY <2>2, <2>3, <2>5, SameState
  <2>6. /\ ~IsOwner(h, m) /\ IsLocker(h, m)
        /\ ~IsUnlocker(h, m) /\ ~IsUnlocker(h, m)' /\ ~IsLocker(h, m)'
        /\ IsOwner(h, m)' <=> wait_status[h] = "waiting"
    BY <2>1, <2>2, <2>3, <2>4 DEF IsOwner, IsLocker, IsUnlocker
  <2>7. /\ Cardinality(Owners(m)') = O - d + w
        /\ Cardinality(Unlockers(m)') = U - (1 - d)
        /\ Cardinality(Engaged(m)') = E - d - (1 - w)
    BY <1>1, <1>2, <2>1, <2>5, <2>6, NumbersTwo
  <2>8. w \in {0, 1}
    OBVIOUS
  <2>9. E >= 1 /\ O <= E - 1
    BY <2>1, <2>6, EngagedBounds
  <2>10. ig = 0
    BY <1>6
  <2>12. Flag(m)' = Flag(m) /\ ignore_unlock_count'[m] = 0
    BY <1>6 DEF Flag
  <2> HIDE DEF w
  <2>13. Accounts(count[m] + d, O - d + w, U - (1 - d), Flag(m), 0,
                  E - d - (1 - w))
    <3> HIDE DEF d, O, U, E, ig
    <3>1. CASE d = 0 /\ w = 0
      BY <1>2, <1>4, <1>u, <2>9, <2>10, <3>1 DEF Accounts
    <3>2. CASE d = 0 /\ w = 1
      BY <1>2, <1>4, <1>u, <2>9, <2>10, <3>2 DEF Accounts
    <3>3. CASE d = 1 /\ w = 0
      BY <1>2, <1>4, <1>o, <2>9, <2>10, <3>3 DEF Accounts
    <3>4. CASE d = 1 /\ w = 1
      BY <1>2, <1>4, <1>o, <2>9, <2>10, <3>4 DEF Accounts
    <3> QED
      BY <1>2, <2>8, <3>1, <3>2, <3>3, <3>4
  <2>14. m \notin released'
    BY <1>6 DEF CountInvOf
  <2> QED
    BY <1>2, <2>7, <2>12, <2>13, <2>14 DEF CountInvOf
<1> QED
  BY <1>2, <1>5, <1>6 DEF UnlockSlowPath

\* An owner gives up m with a single atomic_add(): nobody else is engaged.
LEMMA ReleaseUncontended ==
    ASSUME TypeOK, NEW t \in Threads, NEW m \in Mutexes, CountInvOf(m),
           m \in owned[t], pc[t] = "running",
           pc'[t] \in {"running", "switch"},
           owned'[t] = owned[t] \ {m},
           \A u \in Threads : u # t => SameFor(u, m),
           ~UnlockContended(count[m]), count'[m] = count[m] + 1,
           ignore_unlock_count' = ignore_unlock_count,
           released' = released, waiters' = waiters
    PROVE  CountInvOf(m)'
<1>1. /\ IsOwner(t, m) /\ ~IsUnlocker(t, m)
      /\ ~IsOwner(t, m)' /\ ~IsUnlocker(t, m)' /\ ~IsLocker(t, m)'
  BY DEF IsOwner, IsUnlocker, IsLocker
<1>2. /\ Cardinality(Owners(m)') = Cardinality(Owners(m)) - 1
      /\ Cardinality(Unlockers(m)') = Cardinality(Unlockers(m))
      /\ Cardinality(Engaged(m)') = Cardinality(Engaged(m)) - 1
  BY <1>1, NumbersOne, NumberTypes
<1>3. Cardinality(Engaged(m)) >= 1
  BY <1>1, EngagedBounds
<1>4. Flag(m)' = Flag(m)
  BY DEF Flag
<1>5. Accounts(count[m], Cardinality(Owners(m)), Cardinality(Unlockers(m)),
               Flag(m), ignore_unlock_count[m], Cardinality(Engaged(m)))
  BY DEF CountInvOf
<1>6. count[m] = -1 /\ Cardinality(Engaged(m)) = 1
  BY <1>3, <1>5, NumberTypes DEF Accounts, UnlockContended
<1>7. Accounts(count[m] + 1, Cardinality(Owners(m)) - 1,
               Cardinality(Unlockers(m)), Flag(m),
               ignore_unlock_count[m], Cardinality(Engaged(m)) - 1)
  BY <1>5, <1>6, NumberTypes DEF Accounts
<1> QED
  BY <1>2, <1>4, <1>7 DEF CountInvOf

\* The unlock slow path of m does not concern another mutex n.
LEMMA UnlockSlowPathBystander ==
    ASSUME TypeOK, QueueInv, NEW m \in Mutexes, NEW n \in Mutexes, n # m,
           UnlockSlowPath(m)
    PROVE  /\ \A u \in Threads :
                 pc'[u] = pc[u] /\ obj'[u] = obj[u] /\ owned'[u] = owned[u]
                     => SameFor(u, n)
           /\ ignore_unlock_count'[n] = ignore_unlock_count[n]
           /\ n \in released' <=> n \in released
           /\ waiters'[n] = waiters[n]
<1>1. /\ ignore_unlock_count'[n] = ignore_unlock_count[n]
      /\ n \in released' <=> n \in released
      /\ waiters'[n] = waiters[n]
  BY DEF UnlockSlowPath, TypeOK
<1>2. ASSUME NEW u \in Threads,
             pc'[u] = pc[u], obj'[u] = obj[u], owned'[u] = owned[u]
      PROVE  SameFor(u, n)
  <2>1. Queued(u, n)' <=> Queued(u, n)
    BY <1>1 DEF Queued
  <2>2. CASE wait_status'[u] = wait_status[u]
    BY <1>2, <2>1, <2>2, SameState
  <2>3. CASE wait_status'[u] # wait_status[u]
    <3>1. waiters[m] # <<>> /\ u = Head(waiters[m])
      BY <2>3 DEF UnlockSlowPath, thread_unblock_locked, TypeOK
    <3>2. waiters' = [waiters EXCEPT ![m] = Tail(@)]
      BY <2>3, <3>1 DEF UnlockSlowPath
    <3>3. Queued(u, m)
      BY <3>1, <3>2, DequeueHeadEffect
    <3>4. obj[u] = m
      BY <3>3 DEF QueueInv
    <3> QED
      BY <1>2, <3>4 DEF SameFor, IsOwner, IsUnlocker, IsLocker
  <2> QED
    BY <2>2, <2>3
<1> QED
  BY <1>1, <1>2

\* The lock slow path of m does not concern another mutex n.
LEMMA LockSlowPathBystander ==
    ASSUME TypeOK, QueueInv, NEW t \in Threads, NEW m \in Mutexes,
           NEW n \in Mutexes, n # m,
           pc[t] \in {"lock", "switch"}, obj[t] = m, obj' = obj,
           LockSlowPath(t, m)
    PROVE  /\ \A u \in Threads : SameFor(u, n)
           /\ n \in released' <=> n \in released
           /\ waiters'[n] = waiters[n]
<1>1. /\ n \in released' <=> n \in released
      /\ waiters'[n] = waiters[n]
  BY DEF LockSlowPath, TypeOK
<1>2. \A u \in Threads : Queued(u, n)' <=> Queued(u, n)
  BY <1>1 DEF Queued
<1>3. ASSUME NEW u \in Threads, u # t
      PROVE  SameFor(u, n)
  BY <1>2, <1>3, SameState
     DEF LockSlowPath, ReturnLocked, thread_prepare_to_block, TypeOK
<1>4. SameFor(t, n)
  <2>1. n \in owned'[t] <=> n \in owned[t]
    BY DEF LockSlowPath, ReturnLocked, TypeOK
  <2> QED
    BY <2>1 DEF SameFor, IsOwner, IsUnlocker, IsLocker
<1> QED
  BY <1>1, <1>3, <1>4

LEMMA CountStep ==
    ASSUME TypeOK, WantInv, QueueInv, CountInv, [Next]_vars
    PROVE  CountInv'
<1> SUFFICES ASSUME NEW n \in Mutexes, n \notin destroyed'
             PROVE  CountInvOf(n)'
  BY DEF CountInv, CountInvOf, Accounts, Token, Flag
<1>a. n \notin destroyed
  BY DEF Next, ThreadStep, mutex_lock, mutex_lock_with_timeout, LockFastPath,
         mutex_trylock, mutex_unlock, mutex_destroy, mutex_switch_unlock,
         mutex_lock_slow, mutex_lock_return, mutex_lock_timed_out,
         mutex_unlock_slow, mutex_switch_lock, thread_block_timeout, mutexVars,
         vars
<1>b. CountInvOf(n)
  BY <1>a, CountInvSplit
<1>c. n \in released => waiters[n] = <<>>
  BY <1>b DEF CountInvOf
<1>1. ASSUME NEW t \in Threads, NEW m \in Mutexes,
             mutex_lock(t, m) \/ mutex_lock_with_timeout(t, m)
      PROVE  CountInvOf(n)'
  <2>1. PICK T : LockFastPath(t, m, T)
    BY <1>1 DEF mutex_lock, mutex_lock_with_timeout
  <2>2. /\ pc[t] = "running" /\ m \notin owned[t]
        /\ count' = [count EXCEPT ![m] = @ - 1]
        /\ ignore_unlock_count' = ignore_unlock_count
        /\ released' = released /\ waiters' = waiters
        /\ wait_status' = wait_status
    BY <2>1, GuardAssumption DEF LockFastPath, MayLock
  <2>3. ASSUME NEW u \in Threads, u # t
        PROVE  SameFor(u, n)
    BY <2>1, <2>2, <2>3, SameState DEF LockFastPath, ReturnLocked, TypeOK, Queued
  <2>4. CASE ~LockContended(count[m])
    <3>1. ReturnLocked(t, m) /\ obj' = obj
      BY <2>1, <2>4 DEF LockFastPath
    <3>2. CASE n = m
      <4>1. count[m] = 0 /\ count'[m] = -1
        BY <1>b, <2>2, <2>4, <3>2 DEF CountInvOf, Accounts, LockContended, TypeOK
      <4> QED
        BY <1>b, <2>2, <3>1, <3>2, <4>1, TakeFree
    <3>3. CASE n # m
      <4>1. SameFor(t, n)
        BY <2>2, <3>1, <3>3
           DEF ReturnLocked, SameFor, IsOwner, IsUnlocker, IsLocker, TypeOK
      <4> QED
        BY <1>b, <2>2, <2>3, <3>3, <4>1, Bystander DEF TypeOK
    <3> QED
      BY <3>2, <3>3
  <2>5. CASE LockContended(count[m])
    <3>1. /\ pc' = [pc EXCEPT ![t] = "lock"]
          /\ obj' = [obj EXCEPT ![t] = m]
          /\ owned' = owned
      BY <2>1, <2>5 DEF LockFastPath
    <3>2. CASE n = m
      <4>1. /\ ~IsOwner(t, m) /\ ~IsUnlocker(t, m) /\ ~IsLocker(t, m)
            /\ ~IsOwner(t, m)' /\ ~IsUnlocker(t, m)' /\ IsLocker(t, m)'
        BY <2>2, <3>1 DEF IsOwner, IsUnlocker, IsLocker, TypeOK
      <4>2. /\ Cardinality(Owners(m)') = Cardinality(Owners(m))
            /\ Cardinality(Unlockers(m)') = Cardinality(Unlockers(m))
            /\ Cardinality(Engaged(m)') = Cardinality(Engaged(m)) + 1
        BY <2>3, <3>2, <4>1, NumbersOne, NumberTypes
      <4>3. Accounts(count[m] - 1, Cardinality(Owners(m)),
                     Cardinality(Unlockers(m)), Flag(m),
                     ignore_unlock_count[m], Cardinality(Engaged(m)) + 1)
        BY <1>b, <2>5, <3>2, NumberTypes DEF CountInvOf, Accounts, LockContended
      <4>4. count'[m] = count[m] - 1 /\ Flag(m)' = Flag(m)
        BY <2>2 DEF TypeOK, Flag
      <4> QED
        BY <1>c, <2>2, <3>2, <4>2, <4>3, <4>4 DEF CountInvOf
    <3>3. CASE n # m
      <4>1. SameFor(t, n)
        BY <2>2, <3>1, <3>3 DEF SameFor, IsOwner, IsUnlocker, IsLocker, TypeOK
      <4> QED
        BY <1>b, <2>2, <2>3, <3>3, <4>1, Bystander DEF TypeOK
    <3> QED
      BY <3>2, <3>3
  <2> QED
    BY <2>4, <2>5
<1>2. ASSUME NEW t \in Threads, NEW m \in Mutexes, mutex_trylock(t, m)
      PROVE  CountInvOf(n)'
  <2>1. /\ pc[t] = "running" /\ m \notin owned[t] /\ count[m] = 0
        /\ count' = [count EXCEPT ![m] = -1]
        /\ ReturnLocked(t, m)
        /\ ignore_unlock_count' = ignore_unlock_count
        /\ released' = released /\ waiters' = waiters /\ obj' = obj
        /\ wait_status' = wait_status
    BY <1>2 DEF mutex_trylock, MayTryLock
  <2>2. CASE n = m
    <3>1. count'[m] = -1
      BY <2>1 DEF TypeOK
    <3> QED
      BY <1>b, <2>1, <2>2, <3>1, TakeFree
  <2>3. CASE n # m
    <3>1. ASSUME NEW u \in Threads
          PROVE  SameFor(u, n)
      BY <2>1, <2>3
         DEF ReturnLocked, SameFor, IsOwner, IsUnlocker, IsLocker, TypeOK, Queued
    <3> QED
      BY <1>b, <2>1, <2>3, <3>1, Bystander DEF TypeOK
  <2> QED
    BY <2>2, <2>3
<1>3. ASSUME NEW t \in Threads, NEW m \in Mutexes, mutex_unlock(t, m)
      PROVE  CountInvOf(n)'
  <2>1. /\ pc[t] = "running" /\ m \in owned[t]
        /\ count' = [count EXCEPT ![m] = @ + 1]
        /\ owned' = [owned EXCEPT ![t] = @ \ {m}]
        /\ ignore_unlock_count' = ignore_unlock_count
        /\ released' = released /\ waiters' = waiters
        /\ wait_status' = wait_status
    BY <1>3 DEF mutex_unlock
  <2>2. ASSUME NEW u \in Threads, u # t
        PROVE  SameFor(u, n)
    BY <1>3, <2>1, <2>2, SameState DEF mutex_unlock, TypeOK, Queued
  <2>3. CASE n # m
    <3>1. SameFor(t, n)
      BY <1>3, <2>1, <2>3
         DEF mutex_unlock, SameFor, IsOwner, IsUnlocker, IsLocker, TypeOK
    <3> QED
      BY <1>b, <2>1, <2>2, <2>3, <3>1, Bystander DEF TypeOK
  <2>4. CASE n = m
    <3>1. /\ IsOwner(t, m) /\ ~IsUnlocker(t, m)
          /\ ~IsOwner(t, m)' /\ ~IsLocker(t, m)'
          /\ IsUnlocker(t, m)' <=> UnlockContended(count[m])
      BY <1>3, <2>1 DEF mutex_unlock, IsOwner, IsUnlocker, IsLocker, TypeOK
    <3>2. /\ Cardinality(Owners(m)') = Cardinality(Owners(m)) - 1
          /\ Cardinality(Unlockers(m)') = Cardinality(Unlockers(m))
                + (IF UnlockContended(count[m]) THEN 1 ELSE 0)
          /\ Cardinality(Engaged(m)') = Cardinality(Engaged(m)) - 1
      BY <2>2, <2>4, <3>1, NumbersOne, NumberTypes
    <3>3. Cardinality(Engaged(m)) >= 1
      BY <3>1, EngagedBounds
    <3>4. count'[m] = count[m] + 1 /\ Flag(m)' = Flag(m)
      BY <2>1 DEF TypeOK, Flag
    <3>5. CASE UnlockContended(count[m])
      <4>1. Accounts(count[m] + 1, Cardinality(Owners(m)) - 1,
                     Cardinality(Unlockers(m)) + 1, Flag(m),
                     ignore_unlock_count[m], Cardinality(Engaged(m)) - 1)
        BY <1>b, <2>4, <3>3, <3>5, NumberTypes
           DEF CountInvOf, Accounts, UnlockContended
      <4> QED
        BY <1>c, <2>1, <2>4, <3>2, <3>4, <3>5, <4>1 DEF CountInvOf
    <3>6. CASE ~UnlockContended(count[m])
      <4>1. pc'[t] = "running" /\ owned'[t] = owned[t] \ {m}
        BY <1>3, <2>1, <3>6 DEF mutex_unlock, TypeOK
      <4> QED
        BY <1>b, <2>1, <2>2, <2>4, <3>4, <3>6, <4>1, ReleaseUncontended
    <3> QED
      BY <3>5, <3>6
  <2> QED
    BY <2>3, <2>4
<1>4. ASSUME NEW t \in Threads, NEW m \in Mutexes, mutex_destroy(t, m)
      PROVE  CountInvOf(n)'
  <2>1. /\ n # m
        /\ waiters' = [waiters EXCEPT ![m] = <<>>]
        /\ owned' = [owned EXCEPT ![t] = @ \ {m}]
        /\ UNCHANGED <<count, ignore_unlock_count, released, pc, obj>>
    BY <1>4 DEF mutex_destroy
  <2>2. ASSUME NEW u \in Threads
        PROVE  SameFor(u, n)
    <3>1. Queued(u, n)' <=> Queued(u, n)
      BY <2>1, ClearEffect
    <3>2. n \in owned'[u] <=> n \in owned[u]
      BY <2>1 DEF TypeOK
    <3>3. CASE Queued(u, m)
      BY <2>1, <3>1, <3>2, <3>3
         DEF QueueInv, SameFor, IsOwner, IsUnlocker, IsLocker
    <3>4. CASE ~Queued(u, m)
      <4>1. wait_status'[u] = wait_status[u]
        BY <1>4, <3>4 DEF mutex_destroy, DestroyWakes, thread_unblock_each,
                          TypeOK
      <4> QED
        BY <2>1, <3>1, <3>2, <4>1 DEF SameFor, IsOwner, IsUnlocker, IsLocker
    <3> QED
      BY <3>3, <3>4
  <2> QED
    BY <1>b, <2>1, <2>2, Bystander DEF TypeOK
<1>5. ASSUME NEW t \in Threads, NEW from \in Mutexes, NEW to \in Mutexes,
             mutex_switch_unlock(t, from, to)
      PROVE  CountInvOf(n)'
  <2>1. /\ pc[t] = "running" /\ owned[t] = {from}
        /\ count' = [count EXCEPT ![from] = @ + 1]
        /\ owned' = [owned EXCEPT ![t] = @ \ {from}]
        /\ pc' = [pc EXCEPT ![t] = "switch"]
        /\ obj' = [obj EXCEPT ![t] = to]
    BY <1>5 DEF mutex_switch_unlock, MaySwitch
  <2>2. /\ pc'[t] = "switch" /\ owned'[t] = owned[t] \ {from}
        /\ \A u \in Threads : u # t => /\ pc'[u] = pc[u]
                                       /\ obj'[u] = obj[u]
                                       /\ owned'[u] = owned[u]
    BY <2>1 DEF TypeOK
  <2>3. CASE ~UnlockContended(count[from])
    <3>1. UNCHANGED <<ignore_unlock_count, released, waiters, wait_status>>
      BY <1>5, <2>3 DEF mutex_switch_unlock
    <3>2. ASSUME NEW u \in Threads, u # t
          PROVE  SameFor(u, n)
      BY <2>2, <3>1, <3>2, SameState DEF Queued
    <3>3. CASE n = from
      <4>1. count'[from] = count[from] + 1
        BY <2>1 DEF TypeOK
      <4> QED
        BY <1>b, <2>1, <2>2, <2>3, <3>1, <3>2, <3>3, <4>1, ReleaseUncontended
    <3>4. CASE n # from
      <4>1. SameFor(t, n)
        BY <2>1, <2>2, <3>4 DEF SameFor, IsOwner, IsUnlocker, IsLocker
      <4> QED
        BY <1>b, <2>1, <3>1, <3>2, <3>4, <4>1, Bystander DEF TypeOK
    <3> QED
      BY <3>3, <3>4
  <2>4. CASE UnlockContended(count[from])
    <3>1. UnlockSlowPath(from)
      BY <1>5, <2>4 DEF mutex_switch_unlock
    <3>2. CASE n = from
      <4>1. count[from] < -1 /\ count'[from] = count[from] + 1
        BY <2>1, <2>4 DEF TypeOK, UnlockContended
      <4>2. from \in owned[t] /\ pc[t] # "blocked"
        BY <2>1
      <4> QED
        BY <1>b, <2>1, <2>2, <3>1, <3>2, <4>1, <4>2, UnlockSlowPathCount
    <3>3. CASE n # from
      <4>1. SameFor(t, n)
        BY <2>1, <2>2, <3>3 DEF SameFor, IsOwner, IsUnlocker, IsLocker
      <4>2. count'[n] = count[n]
        BY <2>1, <3>3 DEF TypeOK
      <4>3. \A u \in Threads : SameFor(u, n)
        BY <2>2, <3>1, <3>3, <4>1, UnlockSlowPathBystander
      <4> QED
        BY <1>b, <3>1, <3>3, <4>2, <4>3, UnlockSlowPathBystander, Bystander
    <3> QED
      BY <3>2, <3>3
  <2> QED
    BY <2>3, <2>4
<1>6. ASSUME NEW t \in Threads, mutex_lock_slow(t)
      PROVE  CountInvOf(n)'
  <2>1. PICK m \in Mutexes : m = obj[t]
    BY <1>6 DEF mutex_lock_slow, WantInv
  <2>2. /\ pc[t] = "lock" /\ LockSlowPath(t, m) /\ m \notin owned[t]
        /\ UNCHANGED <<count, ignore_unlock_count, obj>>
    BY <1>6, <2>1 DEF mutex_lock_slow, WantInv
  <2>3. CASE n = m
    BY <1>b, <2>1, <2>2, <2>3, LockSlowPathCount
  <2>4. CASE n # m
    BY <1>b, <2>1, <2>2, <2>4, LockSlowPathBystander, Bystander
  <2> QED
    BY <2>3, <2>4
<1>7. ASSUME NEW t \in Threads, mutex_lock_return(t)
      PROVE  CountInvOf(n)'
  <2>1. /\ UNCHANGED <<count, ignore_unlock_count, released, waiters>>
        /\ UNCHANGED <<wait_status, obj>>
        /\ pc[t] = "blocked"
        /\ pc' = [pc EXCEPT ![t] = "running"]
        /\ wait_status[t] # "waiting"
        /\ \/ /\ wait_status[t] = "B_OK"
              /\ owned' = [owned EXCEPT ![t] = @ \cup {obj[t]}]
           \/ wait_status[t] # "B_OK" /\ t \notin timed /\ owned' = owned
    BY <1>7 DEF mutex_lock_return, ReturnLocked, mutexVars, thread_is_blocked
  <2>2. ASSUME NEW u \in Threads
        PROVE  SameFor(u, n)
    <3>1. Queued(u, n)' <=> Queued(u, n)
      BY <2>1 DEF Queued
    <3>2. CASE u # t
      BY <2>1, <3>1, <3>2, SameState DEF TypeOK
    <3>3. CASE u = t
      <4>1. ~Queued(t, n)
        BY <2>1 DEF QueueInv
      <4>2. pc'[t] = "running"
        BY <2>1 DEF TypeOK
      <4>3. n \in owned'[t] <=> IsOwner(t, n)
        BY <2>1 DEF IsOwner, TypeOK
      <4> QED
        BY <2>1, <3>1, <3>3, <4>1, <4>2, <4>3
           DEF SameFor, IsOwner, IsUnlocker, IsLocker
    <3> QED
      BY <3>2, <3>3
  <2> QED
    BY <1>b, <2>1, <2>2, Bystander
<1>8. ASSUME NEW t \in Threads, mutex_lock_timed_out(t)
      PROVE  CountInvOf(n)'
  <2>1. PICK m \in Mutexes : m = obj[t]
    BY <1>8 DEF mutex_lock_timed_out, WantInv
  <2>2. /\ UNCHANGED <<released, wait_status, obj, owned>>
        /\ pc[t] = "blocked" /\ m \notin owned[t]
        /\ pc' = [pc EXCEPT ![t] = "running"]
        /\ wait_status[t] # "B_OK"
    BY <1>8, <2>1 DEF mutex_lock_timed_out, WantInv
  <2>3. CASE ~Queued(t, m)
    <3>1. UNCHANGED <<waiters, count, ignore_unlock_count>>
      BY <1>8, <2>1, <2>3 DEF mutex_lock_timed_out
    <3>2. ASSUME NEW u \in Threads
          PROVE  SameFor(u, n)
      <4>1. Queued(u, n)' <=> Queued(u, n)
        BY <3>1 DEF Queued
      <4>2. CASE u # t
        BY <2>2, <4>1, <4>2, SameState DEF TypeOK
      <4>3. CASE u = t
        BY <2>1, <2>2, <2>3, <4>1, <4>3
           DEF SameFor, IsOwner, IsUnlocker, IsLocker, TypeOK
      <4> QED
        BY <4>2, <4>3
    <3> QED
      BY <1>b, <2>2, <3>1, <3>2, Bystander
  <2>4. CASE Queued(t, m)
    <3>1. waiters' = [waiters EXCEPT ![m] = Dequeue(@, t)] /\ FixCount(m)
      BY <1>8, <2>1, <2>4 DEF mutex_lock_timed_out
    <3>2. \A u \in Threads : Queued(u, n)' <=> Queued(u, n) /\ ~(u = t /\ n = m)
      BY <2>4, <3>1, DequeueEffect
    <3>3. ASSUME NEW u \in Threads, u # t
          PROVE  SameFor(u, n)
      BY <2>2, <3>2, <3>3, SameState DEF TypeOK
    <3>4. pc'[t] = "running"
      BY <2>2 DEF TypeOK
    <3>5. CASE n # m
      <4>1. SameFor(t, n)
        BY <2>1, <2>2, <3>4, <3>5 DEF SameFor, IsOwner, IsUnlocker, IsLocker
      <4>2. /\ count'[n] = count[n]
            /\ ignore_unlock_count'[n] = ignore_unlock_count[n]
            /\ waiters'[n] = waiters[n]
        BY <3>1, <3>5 DEF FixCount, TypeOK
      <4> QED
        BY <1>b, <2>2, <3>3, <4>1, <4>2, Bystander
    <3>6. CASE n = m
      <4>1. /\ ~IsOwner(t, m) /\ ~IsUnlocker(t, m) /\ IsLocker(t, m)
            /\ ~IsOwner(t, m)' /\ ~IsUnlocker(t, m)' /\ ~IsLocker(t, m)'
        BY <2>1, <2>2, <2>4, <3>4 DEF IsOwner, IsUnlocker, IsLocker
      <4>2. /\ Cardinality(Owners(m)') = Cardinality(Owners(m))
            /\ Cardinality(Unlockers(m)') = Cardinality(Unlockers(m))
            /\ Cardinality(Engaged(m)') = Cardinality(Engaged(m)) - 1
        BY <3>3, <3>6, <4>1, NumbersOne, NumberTypes
      <4>3. /\ Cardinality(Engaged(m)) >= 1
            /\ Cardinality(Owners(m)) <= Cardinality(Engaged(m)) - 1
        BY <4>1, EngagedBounds
      <4>4. m \notin released /\ m \notin released'
        BY <1>c, <2>2, <2>4, <3>6 DEF Queued, InQueue
      <4>5. Flag(m) = 0 /\ Flag(m)' = 0
        BY <4>4 DEF Flag
      <4>6. Accounts(count[m], Cardinality(Owners(m)),
                     Cardinality(Unlockers(m)), 0, ignore_unlock_count[m],
                     Cardinality(Engaged(m)))
        BY <1>b, <3>6, <4>5 DEF CountInvOf
      <4>7. count'[m] = count[m] + 1
        BY <3>1 DEF FixCount, TypeOK
      <4>8. CASE count[m] = -1
        <5>1. ignore_unlock_count'[m] = ignore_unlock_count[m] + 1
          BY <3>1, <4>8 DEF FixCount, TypeOK
        <5>2. Cardinality(Engaged(m)) = 1 /\ Cardinality(Owners(m)) = 0
          BY <4>3, <4>6, <4>8, NumberTypes DEF Accounts
        <5>3. Accounts(0, Cardinality(Owners(m)), Cardinality(Unlockers(m)), 0,
                       ignore_unlock_count[m] + 1, Cardinality(Engaged(m)) - 1)
          BY <4>6, <4>8, <5>2, NumberTypes DEF Accounts
        <5>4. count'[m] = 0
          BY <4>7, <4>8
        <5> QED
          BY <3>6, <4>2, <4>4, <4>5, <5>1, <5>3, <5>4 DEF CountInvOf
      <4>9. CASE count[m] # -1
        <5>1. ignore_unlock_count'[m] = ignore_unlock_count[m]
          BY <3>1, <4>9 DEF FixCount, TypeOK
        <5>2. Accounts(count[m] + 1, Cardinality(Owners(m)),
                       Cardinality(Unlockers(m)), 0, ignore_unlock_count[m],
                       Cardinality(Engaged(m)) - 1)
          BY <4>3, <4>6, <4>9, NumberTypes DEF Accounts
        <5> QED
          BY <3>6, <4>2, <4>4, <4>5, <4>7, <5>1, <5>2 DEF CountInvOf
      <4> QED
        BY <4>8, <4>9
    <3> QED
      BY <3>5, <3>6
  <2> QED
    BY <2>3, <2>4
<1>9. ASSUME NEW t \in Threads, mutex_unlock_slow(t)
      PROVE  CountInvOf(n)'
  <2>1. PICK m \in Mutexes : m = obj[t]
    BY <1>9 DEF mutex_unlock_slow, WantInv
  <2>2. /\ pc[t] = "unlock" /\ UnlockSlowPath(m) /\ m \notin owned[t]
        /\ UNCHANGED <<count, obj, owned>>
        /\ pc' = [pc EXCEPT ![t] = "running"]
    BY <1>9, <2>1 DEF mutex_unlock_slow, WantInv
  <2>3. /\ pc'[t] = "running"
        /\ owned'[t] = owned[t] \ {m}
        /\ \A u \in Threads : u # t => pc'[u] = pc[u]
    BY <2>2 DEF TypeOK
  <2>4. CASE n = m
    <3>1. IsUnlocker(t, m)
      BY <2>1, <2>2 DEF IsUnlocker
    <3> QED
      BY <1>b, <2>2, <2>3, <2>4, <3>1, UnlockSlowPathCount
  <2>5. CASE n # m
    <3>1. SameFor(t, n)
      BY <2>1, <2>2, <2>3, <2>5 DEF SameFor, IsOwner, IsUnlocker, IsLocker
    <3>2. \A u \in Threads : SameFor(u, n)
      BY <2>2, <2>3, <2>5, <3>1, UnlockSlowPathBystander
    <3> QED
      BY <1>b, <2>2, <2>5, <3>2, UnlockSlowPathBystander, Bystander
  <2> QED
    BY <2>4, <2>5
<1>10. ASSUME NEW t \in Threads, mutex_switch_lock(t)
       PROVE  CountInvOf(n)'
  <2>1. PICK m \in Mutexes : m = obj[t]
    BY <1>10 DEF mutex_switch_lock, WantInv
  <2>2. /\ pc[t] = "switch" /\ m \notin owned[t]
        /\ count' = [count EXCEPT ![m] = @ - 1]
        /\ UNCHANGED <<ignore_unlock_count, obj>>
    BY <1>10, <2>1 DEF mutex_switch_lock, WantInv
  <2>3. /\ count'[m] = count[m] - 1
        /\ n # m => count'[n] = count[n]
    BY <2>2 DEF TypeOK
  <2>4. CASE LockContended(count[m])
    <3>1. LockSlowPath(t, m) /\ count[m] < 0
      BY <1>10, <2>1, <2>4 DEF mutex_switch_lock, LockContended
    <3>2. CASE n = m
      BY <1>b, <2>1, <2>2, <2>3, <3>1, <3>2, LockSlowPathCount
    <3>3. CASE n # m
      BY <1>b, <2>1, <2>2, <2>3, <3>1, <3>3, LockSlowPathBystander, Bystander
    <3> QED
      BY <3>2, <3>3
  <2>5. CASE ~LockContended(count[m])
    <3>1. /\ ReturnLocked(t, m)
          /\ UNCHANGED <<released, waiters, wait_status>>
      BY <1>10, <2>1, <2>5 DEF mutex_switch_lock
    <3>2. CASE n = m
      <4>1. count[m] = 0 /\ count'[m] = -1
        BY <1>b, <2>3, <2>5, <3>2, NumberTypes
           DEF CountInvOf, Accounts, LockContended
      <4> QED
        BY <1>b, <2>2, <3>1, <3>2, <4>1, TakeFree
    <3>3. CASE n # m
      <4>1. ASSUME NEW u \in Threads
            PROVE  SameFor(u, n)
        BY <2>1, <2>2, <3>1, <3>3
           DEF ReturnLocked, SameFor, IsOwner, IsUnlocker, IsLocker, TypeOK,
               Queued
      <4> QED
        BY <1>b, <2>2, <2>3, <3>1, <3>3, <4>1, Bystander
    <3> QED
      BY <3>2, <3>3
  <2> QED
    BY <2>4, <2>5
<1>11. ASSUME NEW t \in Threads, thread_block_timeout(t)
       PROVE  CountInvOf(n)'
  <2>1. /\ UNCHANGED <<count, ignore_unlock_count, released, waiters>>
        /\ UNCHANGED <<pc, obj, owned>>
        /\ wait_status[t] = "waiting"
        /\ wait_status' = [wait_status EXCEPT ![t] = "B_TIMED_OUT"]
    BY <1>11 DEF thread_block_timeout, mutexVars, thread_unblock_locked,
                 thread_is_blocked
  <2>2. ASSUME NEW u \in Threads
        PROVE  SameFor(u, n)
    BY <2>1 DEF SameFor, IsOwner, IsUnlocker, IsLocker, TypeOK, Queued
  <2> QED
    BY <1>b, <2>1, <2>2, Bystander
<1>12. ASSUME UNCHANGED vars
       PROVE  CountInvOf(n)'
  <2>1. ASSUME NEW u \in Threads
        PROVE  SameFor(u, n)
    BY <1>12, SameState DEF vars, mutexVars, threadVars, Queued
  <2> QED
    BY <1>12, <1>b, <2>1, Bystander DEF vars, mutexVars
<1> QED
  BY <1>1, <1>2, <1>3, <1>4, <1>5, <1>6, <1>7, <1>8, <1>9, <1>10, <1>11, <1>12
     DEF Next, ThreadStep

-----------------------------------------------------------------------------
(***************************************************************************)
(* The theorems.                                                           *)
(***************************************************************************)

\* The inductive invariant.
IInv == TypeOK /\ WantInv /\ QueueInv /\ CountInv

LEMMA InitIInv == ASSUME Init PROVE IInv
<1>1. TypeOK /\ WantInv
  BY ThreadsAssumption DEF Init, TypeOK, WantInv, PC, WaitStatus
<1>2. \A m \in Mutexes, t \in Threads : ~Queued(t, m)
  BY DEF Init, Queued, InQueue
<1>3. QueueInv
  BY <1>2 DEF Init, QueueInv
<1>4. ASSUME NEW m \in Mutexes
      PROVE  CountInvOf(m)
  <2>1. Owners(m) = {} /\ Unlockers(m) = {} /\ Engaged(m) = {}
    BY DEF Init, Owners, Unlockers, Lockers, Engaged
  <2>2. /\ Cardinality(Owners(m)) = 0
        /\ Cardinality(Unlockers(m)) = 0
        /\ Cardinality(Engaged(m)) = 0
    BY <2>1, FS_EmptySet
  <2>3. count[m] = 0 /\ ignore_unlock_count[m] = 0 /\ Flag(m) = 0
    BY DEF Init, Flag
  <2> QED
    BY <2>2, <2>3 DEF Init, CountInvOf, Accounts
<1> QED
  BY <1>1, <1>3, <1>4, CountInvSplit DEF IInv

LEMMA NextIInv == ASSUME IInv, [Next]_vars PROVE IInv'
  BY TypeStep, WantStep, QueueStep, CountStep DEF IInv

LEMMA IInvMutualExclusion == ASSUME IInv PROVE MutualExclusion
<1>1. TypeOK /\ CountInv
  BY DEF IInv
<1>2. ASSUME NEW m \in Mutexes \ destroyed
      PROVE  Cardinality(Owners(m)) <= 1
  <2>1. CountInvOf(m)
    BY <1>1, <1>2, CountInvSplit
  <2> QED
    BY <1>1, <2>1, NumberTypes DEF CountInvOf, Accounts
<1> QED
  BY <1>2 DEF MutualExclusion

\* Type correctness: every field of the mutexes and of the threads keeps its
\* type whatever the callers do.
THEOREM TypeCorrect == Spec => []TypeOK
<1>1. IInv => TypeOK
  BY DEF IInv
<1> QED
  BY <1>1, InitIInv, NextIInv, PTL DEF Spec

\* The count, the ignored unlocks and MUTEX_FLAG_RELEASED account for every
\* owner, waiter and unlocker on its way, for any number of threads.
THEOREM CountCorrect == Spec => []CountInv
<1>1. IInv => CountInv
  BY DEF IInv
<1> QED
  BY <1>1, InitIInv, NextIInv, PTL DEF Spec

\* The queue of a mutex and the threads that sleep in its lock call agree: nobody
\* sleeps unqueued, is queued twice, or stays queued once it is woken.
THEOREM QueueCorrect == Spec => []QueueInv
<1>1. IInv => QueueInv
  BY DEF IInv
<1> QED
  BY <1>1, InitIInv, NextIInv, PTL DEF Spec

\* At most one thread owns a mutex: for any number of threads and mutexes, with
\* timeouts, switches and destruction.
THEOREM MutexCorrect == Spec => []MutualExclusion
<1> QED
  BY InitIInv, NextIInv, IInvMutualExclusion, PTL DEF Spec

-----------------------------------------------------------------------------
(***************************************************************************)
(* Destroying a mutex is safe: if the guard is held, nobody is left in the *)
(* code of the destroyed mutex, or asleep on it.                           *)
(***************************************************************************)

\* Only guarded mutexes are destroyed, and their queues are empty then.
DestroyedQueues ==
    \A m \in destroyed : Guard[m] # NoMutex /\ waiters[m] = <<>>

\* Guarded mutexes are not locked with a timeout, so that no unlock of one is
\* ever ignored: an unlocker on its way carries the right to own.
GuardedUnlocks ==
    \A m \in Mutexes : Guard[m] # NoMutex => ignore_unlock_count[m] = 0

\* What each thread has to do with destroyed mutexes.
LeavesDestroyed(t) ==
    /\ \A m \in owned[t] : m \notin destroyed
    /\ pc[t] = "lock" => Guard[obj[t]] = NoMutex
    /\ pc[t] = "switch" => spin = t /\ t \notin timed /\ obj[t] \notin destroyed
    /\ pc[t] = "unlock" => obj[t] \notin destroyed
    /\ pc[t] \in {"lock", "blocked"} /\ t \in timed => Guard[obj[t]] = NoMutex
    /\ pc[t] = "blocked" /\ obj[t] \in destroyed => wait_status[t] # "B_OK"

DestroyedInv ==
    /\ DestroyedQueues
    /\ GuardedUnlocks
    /\ \A t \in Threads : LeavesDestroyed(t)

-----------------------------------------------------------------------------
(***************************************************************************)
(* The slow path of an unlock.                                             *)
(***************************************************************************)

\* Ignoring one unlock, waking the first waiter or setting the flag leaves the
\* queues of destroyed mutexes empty, and wakes nobody on one of them.
LEMMA UnlockSlowPathDestroyed ==
    ASSUME IInv, DestroyedInv, NEW m \in Mutexes, m \notin destroyed,
           UnlockSlowPath(m)
    PROVE  /\ \A k \in destroyed : waiters'[k] = <<>>
           /\ \A k \in Mutexes : Guard[k] # NoMutex => ignore_unlock_count'[k] = 0
           /\ \A x \in Threads :
                 wait_status'[x] = wait_status[x]
                     \/ (pc[x] = "blocked" /\ obj[x] = m)
<1>1. /\ waiters \in [Mutexes -> Seq(Threads)]
      /\ ignore_unlock_count \in [Mutexes -> Nat]
      /\ wait_status \in [Threads -> WaitStatus]
      /\ destroyed \subseteq Mutexes
  BY DEF IInv, TypeOK
<1>2. CASE ignore_unlock_count[m] > 0
  BY <1>1, <1>2 DEF UnlockSlowPath, DestroyedInv, DestroyedQueues, GuardedUnlocks
<1>3. CASE ignore_unlock_count[m] = 0 /\ waiters[m] # <<>>
  <2> DEFINE h == Head(waiters[m])
  <2>1. h \in Threads /\ Queued(h, m)
    <3>1. Len(waiters[m]) > 0 /\ h = waiters[m][1] /\ 1 \in DOMAIN waiters[m]
      BY <1>1, <1>3
    <3> QED
      BY <1>1, <3>1 DEF Queued, InQueue
  <2>2. pc[h] = "blocked" /\ obj[h] = m
    BY <2>1 DEF IInv, QueueInv
  <2> HIDE DEF h
  <2>3. wait_status' = thread_unblock_locked(wait_status, h, "B_OK")
    BY <1>3 DEF UnlockSlowPath, h
  <2>4. \A x \in Threads : wait_status'[x] = wait_status[x] \/ x = h
    BY <1>1, <2>3 DEF thread_unblock_locked
  <2>5. \A k \in destroyed : waiters'[k] = <<>>
    BY <1>1, <1>3 DEF UnlockSlowPath, DestroyedInv, DestroyedQueues
  <2> QED
    BY <1>3, <2>2, <2>4, <2>5 DEF UnlockSlowPath, DestroyedInv, GuardedUnlocks
<1>4. CASE ignore_unlock_count[m] = 0 /\ waiters[m] = <<>>
  BY <1>4 DEF UnlockSlowPath, DestroyedInv, DestroyedQueues, GuardedUnlocks
<1> QED
  BY <1>2, <1>3, <1>4 DEF UnlockSlowPath

-----------------------------------------------------------------------------
(***************************************************************************)
(* Each step keeps the invariant.                                          *)
(***************************************************************************)

\* While t owns a guarded mutex, nobody else owns it, has been woken to own it,
\* or is on its way to pass it on.
LEMMA OwnerIsAlone ==
    ASSUME IInv, DestroyedInv, NEW t \in Threads, NEW m \in owned[t],
           m \in Mutexes, Guard[m] # NoMutex,
           NEW x \in Threads
    PROVE  /\ m \in owned[x] => x = t
           /\ pc[x] = "blocked" /\ obj[x] = m /\ wait_status[x] = "B_OK" => x = t
           /\ ~(pc[x] = "unlock" /\ obj[x] = m)
<1>1. m \notin destroyed
  BY DEF DestroyedInv, LeavesDestroyed
<1>2. ignore_unlock_count[m] = 0
  BY DEF DestroyedInv, GuardedUnlocks
<1>3. Token(m) \in {0, 1}
  BY <1>1 DEF IInv, CountInv
<1>4. IsFiniteSet(Owners(m)) /\ IsFiniteSet(Unlockers(m))
  BY ThreadsAssumption, FS_Subset DEF Owners, Unlockers
<1>5. Cardinality(Owners(m)) \in Nat /\ Cardinality(Unlockers(m)) \in Nat
  BY <1>4, FS_CardinalityType
<1>6. t \in Owners(m)
  BY DEF Owners
<1>7. Cardinality(Owners(m)) # 0
  BY <1>4, <1>6, FS_EmptySet
<1>8. Cardinality(Owners(m)) = 1 /\ Cardinality(Unlockers(m)) = 0
  BY <1>2, <1>3, <1>5, <1>7 DEF Token
<1>9. Unlockers(m) = {}
  BY <1>4, <1>8, FS_EmptySet
<1>10. Owners(m) = {t}
  BY <1>4, <1>6, <1>8, FS_Singleton
<1>11. x \in Owners(m) => x = t
  BY <1>10
<1> QED
  BY <1>9, <1>11 DEF Owners, Unlockers

\* The threads: each step leaves them away from destroyed mutexes.
LEMMA LeavesStep ==
    ASSUME IInv, DestroyedInv, [Next]_vars, NEW x \in Threads
    PROVE  LeavesDestroyed(x)'
<1> USE DEF LeavesDestroyed
<1>1. /\ pc \in [Threads -> PC]
      /\ obj \in [Threads -> Mutexes \cup {NoMutex}]
      /\ owned \in [Threads -> SUBSET Mutexes]
      /\ wait_status \in [Threads -> WaitStatus]
      /\ destroyed \subseteq Mutexes
      /\ timed \subseteq Threads
  BY DEF IInv, TypeOK
<1>2. /\ LeavesDestroyed(x)
      /\ pc[x] # "running" => obj[x] \in Mutexes
      /\ \A m \in destroyed : Guard[m] # NoMutex
  BY DEF DestroyedInv, DestroyedQueues, IInv, WantInv
<1>3. ASSUME NEW t \in Threads, NEW m \in Mutexes,
             mutex_lock(t, m) \/ mutex_lock_with_timeout(t, m)
      PROVE  LeavesDestroyed(x)'
  <2>1. PICK T : LockFastPath(t, m, T) /\ (x # t => (x \in T <=> x \in timed))
    BY <1>3 DEF mutex_lock, mutex_lock_with_timeout
  <2>2. CASE x = t
    BY <1>1, <1>2, <2>1, <2>2 DEF LockFastPath, ReturnLocked, MayLock
  <2>3. CASE x # t
    BY <1>1, <1>2, <2>1, <2>3 DEF LockFastPath, ReturnLocked
  <2> QED
    BY <2>2, <2>3
<1>4. ASSUME NEW t \in Threads, NEW m \in Mutexes, mutex_trylock(t, m)
      PROVE  LeavesDestroyed(x)'
  BY <1>1, <1>2, <1>4 DEF mutex_trylock, ReturnLocked, MayTryLock
<1>5. ASSUME NEW t \in Threads, NEW m \in Mutexes, mutex_unlock(t, m)
      PROVE  LeavesDestroyed(x)'
  <2>1. CASE x = t
    BY <1>1, <1>2, <1>5, <2>1 DEF mutex_unlock
  <2>2. CASE x # t
    BY <1>1, <1>2, <1>5, <2>2 DEF mutex_unlock
  <2> QED
    BY <2>1, <2>2
<1>6. ASSUME NEW t \in Threads, NEW m \in Mutexes, mutex_destroy(t, m)
      PROVE  LeavesDestroyed(x)'
  <2>1. /\ pc[t] = "running" /\ m \in owned[t] /\ Guard[m] # NoMutex
        /\ spin = NoThread
        /\ destroyed' = destroyed \cup {m}
        /\ owned' = [owned EXCEPT ![t] = @ \ {m}]
        /\ UNCHANGED <<pc, obj, timed, spin>>
    BY <1>6 DEF mutex_destroy, MayDestroy, SpinlockFree
  <2>2. /\ m \in owned[x] => x = t
        /\ pc[x] = "blocked" /\ obj[x] = m => wait_status[x] # "B_OK"
        /\ ~(pc[x] = "unlock" /\ obj[x] = m)
    BY <2>1, OwnerIsAlone
  <2>3. wait_status'[x] \in {wait_status[x], "B_ERROR"}
    BY <1>1, <1>6 DEF mutex_destroy, DestroyWakes, thread_unblock_each,
                      thread_unblock_locked
  <2>4. pc[x] # "switch"
    BY <1>2, <2>1, ThreadsAssumption
  <2>5. \A k \in owned'[x] : k \notin destroyed'
    BY <1>1, <1>2, <2>1, <2>2
  <2> QED
    BY <1>1, <1>2, <2>1, <2>2, <2>3, <2>4, <2>5
<1>7. ASSUME NEW t \in Threads, NEW from \in Mutexes, NEW to \in Mutexes,
             mutex_switch_unlock(t, from, to)
      PROVE  LeavesDestroyed(x)'
  <2>1. /\ pc[t] = "running" /\ from \in owned[t] /\ to \notin destroyed
        /\ spin = NoThread /\ spin' = t
        /\ owned' = [owned EXCEPT ![t] = @ \ {from}]
        /\ pc' = [pc EXCEPT ![t] = "switch"]
        /\ obj' = [obj EXCEPT ![t] = to]
        /\ timed' = timed \ {t}
        /\ destroyed' = destroyed
    BY <1>7 DEF mutex_switch_unlock, MaySwitch, SpinlockFree, SwitchSpinlock
  <2>2. from \notin destroyed
    BY <2>1 DEF DestroyedInv
  <2>3. wait_status'[x] = wait_status[x] \/ (pc[x] = "blocked" /\ obj[x] = from)
    BY <1>7, <2>2, UnlockSlowPathDestroyed DEF mutex_switch_unlock
  <2>4. CASE x = t
    BY <1>1, <1>2, <2>1, <2>4
  <2>5. CASE x # t
    <3>1. pc[x] # "switch"
      BY <1>2, <2>1, ThreadsAssumption
    <3> QED
      BY <1>1, <1>2, <2>1, <2>2, <2>3, <2>5, <3>1
  <2> QED
    BY <2>4, <2>5
<1>8. ASSUME NEW t \in Threads, mutex_lock_slow(t)
      PROVE  LeavesDestroyed(x)'
  <2>1. obj[t] \notin destroyed
    BY <1>2, <1>8 DEF mutex_lock_slow, DestroyedInv
  <2> QED
    BY <1>1, <1>2, <1>8, <2>1
       DEF mutex_lock_slow, LockSlowPath, ReturnLocked, thread_prepare_to_block
<1>9. ASSUME NEW t \in Threads, mutex_lock_return(t)
      PROVE  LeavesDestroyed(x)'
  <2>1. wait_status[t] = "B_OK" => obj[t] \notin destroyed
    BY <1>9 DEF mutex_lock_return, DestroyedInv
  <2> QED
    BY <1>1, <1>2, <1>9, <2>1 DEF mutex_lock_return, ReturnLocked, mutexVars
<1>10. ASSUME NEW t \in Threads, mutex_lock_timed_out(t)
       PROVE  LeavesDestroyed(x)'
  BY <1>1, <1>2, <1>10 DEF mutex_lock_timed_out
<1>11. ASSUME NEW t \in Threads, mutex_unlock_slow(t)
       PROVE  LeavesDestroyed(x)'
  <2>1. obj[t] \in Mutexes /\ obj[t] \notin destroyed
    BY <1>11 DEF mutex_unlock_slow, DestroyedInv, IInv, WantInv
  <2>2. wait_status'[x] = wait_status[x] \/ (pc[x] = "blocked" /\ obj[x] = obj[t])
    BY <1>11, <2>1, UnlockSlowPathDestroyed DEF mutex_unlock_slow
  <2> QED
    BY <1>1, <1>2, <1>11, <2>1, <2>2 DEF mutex_unlock_slow
<1>12. ASSUME NEW t \in Threads, mutex_switch_lock(t)
       PROVE  LeavesDestroyed(x)'
  <2>1. obj[t] \notin destroyed /\ spin = t
    BY <1>12 DEF mutex_switch_lock, DestroyedInv
  <2> QED
    BY <1>1, <1>2, <1>12, <2>1
       DEF mutex_switch_lock, LockSlowPath, ReturnLocked, thread_prepare_to_block
<1>13. ASSUME NEW t \in Threads, thread_block_timeout(t)
       PROVE  LeavesDestroyed(x)'
  BY <1>1, <1>2, <1>13
     DEF thread_block_timeout, thread_unblock_locked, mutexVars
<1>14. ASSUME UNCHANGED vars
       PROVE  LeavesDestroyed(x)'
  BY <1>2, <1>14 DEF vars, mutexVars, threadVars
<1> QED
  BY <1>3, <1>4, <1>5, <1>6, <1>7, <1>8, <1>9, <1>10, <1>11, <1>12, <1>13, <1>14
     DEF Next, ThreadStep

\* The mutexes: only guarded ones are destroyed, and nothing queues or ignores
\* there afterwards.
LEMMA QueuesStep ==
    ASSUME IInv, DestroyedInv, [Next]_vars
    PROVE  DestroyedQueues' /\ GuardedUnlocks'
<1> USE DEF DestroyedQueues, GuardedUnlocks
<1>1. /\ waiters \in [Mutexes -> Seq(Threads)]
      /\ ignore_unlock_count \in [Mutexes -> Nat]
      /\ destroyed \subseteq Mutexes
      /\ DestroyedQueues
      /\ GuardedUnlocks
  BY DEF IInv, TypeOK, DestroyedInv
<1>2. ASSUME NEW t \in Threads, NEW m \in Mutexes,
             \/ mutex_lock(t, m) \/ mutex_lock_with_timeout(t, m)
             \/ mutex_trylock(t, m) \/ mutex_unlock(t, m)
      PROVE  DestroyedQueues' /\ GuardedUnlocks'
  BY <1>1, <1>2 DEF mutex_lock, mutex_lock_with_timeout, LockFastPath,
                    mutex_trylock, mutex_unlock
<1>3. ASSUME NEW t \in Threads, NEW m \in Mutexes, mutex_destroy(t, m)
      PROVE  DestroyedQueues' /\ GuardedUnlocks'
  BY <1>1, <1>3 DEF mutex_destroy, MayDestroy
<1>4. ASSUME NEW t \in Threads, NEW from \in Mutexes, NEW to \in Mutexes,
             mutex_switch_unlock(t, from, to)
      PROVE  DestroyedQueues' /\ GuardedUnlocks'
  <2>1. from \notin destroyed /\ destroyed' = destroyed
    BY <1>4 DEF mutex_switch_unlock, MaySwitch, DestroyedInv, LeavesDestroyed
  <2>2. CASE UnlockContended(count[from])
    BY <1>1, <1>4, <2>1, <2>2, UnlockSlowPathDestroyed DEF mutex_switch_unlock
  <2>3. CASE ~UnlockContended(count[from])
    BY <1>1, <1>4, <2>1, <2>3 DEF mutex_switch_unlock
  <2> QED
    BY <2>2, <2>3
<1>5. ASSUME NEW t \in Threads, mutex_lock_slow(t) \/ mutex_switch_lock(t)
      PROVE  DestroyedQueues' /\ GuardedUnlocks'
  <2>1. obj[t] \notin destroyed
    BY <1>1, <1>5 DEF mutex_lock_slow, mutex_switch_lock, DestroyedInv,
                      LeavesDestroyed
  <2> QED
    BY <1>1, <1>5, <2>1 DEF mutex_lock_slow, mutex_switch_lock, LockSlowPath
<1>6. ASSUME NEW t \in Threads, mutex_unlock_slow(t)
      PROVE  DestroyedQueues' /\ GuardedUnlocks'
  <2>1. obj[t] \in Mutexes /\ obj[t] \notin destroyed
    BY <1>6 DEF mutex_unlock_slow, DestroyedInv, LeavesDestroyed, IInv, WantInv
  <2> QED
    BY <1>1, <1>6, <2>1, UnlockSlowPathDestroyed DEF mutex_unlock_slow
<1>7. ASSUME NEW t \in Threads, mutex_lock_timed_out(t)
      PROVE  DestroyedQueues' /\ GuardedUnlocks'
  <2>1. Guard[obj[t]] = NoMutex
    BY <1>7 DEF mutex_lock_timed_out, DestroyedInv, LeavesDestroyed
  <2> QED
    BY <1>1, <1>7, <2>1 DEF mutex_lock_timed_out, FixCount
<1>8. ASSUME NEW t \in Threads, mutex_lock_return(t) \/ thread_block_timeout(t)
      PROVE  DestroyedQueues' /\ GuardedUnlocks'
  BY <1>1, <1>8 DEF mutex_lock_return, thread_block_timeout, mutexVars
<1>9. ASSUME UNCHANGED vars
      PROVE  DestroyedQueues' /\ GuardedUnlocks'
  BY <1>1, <1>9 DEF vars, mutexVars
<1> QED
  BY <1>2, <1>3, <1>4, <1>5, <1>6, <1>7, <1>8, <1>9 DEF Next, ThreadStep

LEMMA InitDestroyedInv == ASSUME Init PROVE DestroyedInv
  BY DEF Init, DestroyedInv, DestroyedQueues, GuardedUnlocks, LeavesDestroyed

LEMMA NextDestroyedInv == ASSUME IInv, DestroyedInv, [Next]_vars PROVE DestroyedInv'
  BY LeavesStep, QueuesStep DEF DestroyedInv

-----------------------------------------------------------------------------

\* Nobody is ever inside the lock, unlock or switch code of a destroyed mutex, what
\* lock.h promises of mutex_switch_lock(); mutex_destroy() leaves nobody asleep, and
\* nobody falls asleep on a destroyed mutex; for any number of threads.
THEOREM DestroyedSafe == Spec => []DestroyedUntouched
<1>1. DestroyedInv /\ IInv => DestroyedUntouched
  <2> SUFFICES ASSUME DestroyedInv, IInv, NEW t \in Threads,
                      pc[t] = "blocked", obj[t] \in destroyed,
                      wait_status[t] = "waiting"
               PROVE  FALSE
    BY DEF DestroyedUntouched, DestroyedInv, DestroyedQueues, LeavesDestroyed,
           thread_is_blocked
  <2>1. Queued(t, obj[t])
    BY DEF IInv, TypeOK, QueueInv
  <2>2. waiters[obj[t]] = <<>>
    BY DEF DestroyedInv, DestroyedQueues
  <2> QED
    BY <2>1, <2>2 DEF Queued, InQueue
<1> QED
  BY <1>1, InitIInv, NextIInv, InitDestroyedInv, NextDestroyedInv, PTL DEF Spec

-----------------------------------------------------------------------------
(***************************************************************************)
(* What the callers see of one thread and one mutex.                       *)
(***************************************************************************)

IsWanting(u, n) ==
    obj[u] = n /\ (pc[u] = "lock" \/ (pc[u] = "blocked" /\ wait_status[u] = "waiting"))

SameSeen(u, n) ==
    /\ IsOwner(u, n)' <=> IsOwner(u, n)
    /\ IsWanting(u, n)' <=> IsWanting(u, n)

LEMMA SeenMembership ==
    ASSUME NEW n \in Mutexes
    PROVE  /\ Owners(n) = {u \in Threads : IsOwner(u, n)}
           /\ Wanting(n) = {u \in Threads : IsWanting(u, n)}
           /\ Owners(n)' = {u \in Threads : IsOwner(u, n)'}
           /\ Wanting(n)' = {u \in Threads : IsWanting(u, n)'}
  BY DEF Owners, Wanting, IsOwner, IsWanting, thread_is_blocked

LEMMA SeenFrame ==
    ASSUME NEW u \in Threads, NEW n \in Mutexes,
           pc'[u] = pc[u], obj'[u] = obj[u],
           n \in owned'[u] <=> n \in owned[u],
           wait_status'[u] = wait_status[u]
    PROVE  SameSeen(u, n)
  BY DEF SameSeen, IsOwner, IsWanting

\* A mutex of which the callers see the same before and after a step.
LEMMA SeenSame ==
    ASSUME NEW n \in Mutexes, n \in destroyed' <=> n \in destroyed,
           \A u \in Threads : SameSeen(u, n)
    PROVE  AbstractOwners'[n] = AbstractOwners[n] /\ AbstractWant'[n] = AbstractWant[n]
<1>1. Owners(n)' = Owners(n) /\ Wanting(n)' = Wanting(n)
  BY SeenMembership DEF SameSeen
<1> QED
  BY <1>1 DEF AbstractOwners, AbstractWant

LEMMA AbstractStutter ==
    ASSUME destroyed' = destroyed,
           \A u \in Threads, n \in Mutexes : SameSeen(u, n)
    PROVE  UNCHANGED <<AbstractOwners, AbstractWant>>
<1>1. \A n \in Mutexes :
         AbstractOwners'[n] = AbstractOwners[n] /\ AbstractWant'[n] = AbstractWant[n]
  BY SeenSame
<1>2. AbstractOwners' = AbstractOwners
  BY <1>1 DEF AbstractOwners
<1>3. AbstractWant' = AbstractWant
  BY <1>1 DEF AbstractWant
<1> QED
  BY <1>2, <1>3

\* A step changes what the callers see of the mutex m, which then has the owners
\* O and the waiting threads W.
LEMMA AbstractChange ==
    ASSUME NEW m \in Mutexes, m \notin destroyed, NEW O, NEW W,
           \A u \in Threads, n \in Mutexes : n # m => SameSeen(u, n),
           \A n \in Mutexes : n # m => (n \in destroyed' <=> n \in destroyed),
           O = IF m \in destroyed' THEN {} ELSE Owners(m)',
           W = IF m \in destroyed' THEN {} ELSE Wanting(m)'
    PROVE  /\ AbstractOwners' = [AbstractOwners EXCEPT ![m] = O]
           /\ AbstractWant' = [AbstractWant EXCEPT ![m] = W]
           /\ AbstractOwners[m] = Owners(m)
           /\ AbstractWant[m] = Wanting(m)
<1>1. \A n \in Mutexes : n # m =>
         AbstractOwners'[n] = AbstractOwners[n] /\ AbstractWant'[n] = AbstractWant[n]
  BY SeenSame
<1>2. AbstractOwners'[m] = O /\ AbstractWant'[m] = W
  BY DEF AbstractOwners, AbstractWant
<1>3. AbstractOwners' = [AbstractOwners EXCEPT ![m] = O]
  BY <1>1, <1>2 DEF AbstractOwners
<1>4. AbstractWant' = [AbstractWant EXCEPT ![m] = W]
  BY <1>1, <1>2 DEF AbstractWant
<1> QED
  BY <1>3, <1>4 DEF AbstractOwners, AbstractWant

\* Only the thread t changes its part, and only in m.  Each conclusion is one of
\* the abstract steps.
OnlyMover(t, m) ==
    /\ m \in Mutexes \ destroyed
    /\ destroyed' = destroyed
    /\ \A u \in Threads, n \in Mutexes : u # t \/ n # m => SameSeen(u, n)

LEMMA MoverSets ==
    ASSUME NEW t \in Threads, NEW m, OnlyMover(t, m)
    PROVE  /\ AbstractOwners' = [AbstractOwners EXCEPT ![m] = Owners(m)']
           /\ AbstractWant' = [AbstractWant EXCEPT ![m] = Wanting(m)']
           /\ AbstractOwners[m] = Owners(m) /\ AbstractWant[m] = Wanting(m)
           /\ Owners(m)' = IF IsOwner(t, m)' THEN Owners(m) \cup {t} ELSE Owners(m) \ {t}
           /\ Wanting(m)' = IF IsWanting(t, m)' THEN Wanting(m) \cup {t}
                                                ELSE Wanting(m) \ {t}
           /\ t \in Owners(m) <=> IsOwner(t, m)
           /\ t \in Wanting(m) <=> IsWanting(t, m)
<1>1. m \in Mutexes /\ m \notin destroyed /\ destroyed' = destroyed
  BY DEF OnlyMover
<1>2. /\ AbstractOwners' = [AbstractOwners EXCEPT ![m] = Owners(m)']
      /\ AbstractWant' = [AbstractWant EXCEPT ![m] = Wanting(m)']
      /\ AbstractOwners[m] = Owners(m) /\ AbstractWant[m] = Wanting(m)
  BY <1>1, AbstractChange DEF OnlyMover
<1>3. \A u \in Threads : u # t => SameSeen(u, m)
  BY <1>1 DEF OnlyMover
<1>4. /\ Owners(m) = {u \in Threads : IsOwner(u, m)}
      /\ Wanting(m) = {u \in Threads : IsWanting(u, m)}
      /\ Owners(m)' = {u \in Threads : IsOwner(u, m)'}
      /\ Wanting(m)' = {u \in Threads : IsWanting(u, m)'}
  BY <1>1, SeenMembership
<1>5. Owners(m)' = IF IsOwner(t, m)' THEN Owners(m) \cup {t} ELSE Owners(m) \ {t}
  BY <1>3, <1>4 DEF SameSeen
<1>6. Wanting(m)' = IF IsWanting(t, m)' THEN Wanting(m) \cup {t} ELSE Wanting(m) \ {t}
  BY <1>3, <1>4 DEF SameSeen
<1> QED
  BY <1>2, <1>4, <1>5, <1>6

\* The component that the mover leaves alone.
LEMMA MoverKeeps ==
    ASSUME NEW t \in Threads, NEW m, OnlyMover(t, m)
    PROVE  /\ Owners(m)' = Owners(m) => AbstractOwners' = AbstractOwners
           /\ Wanting(m)' = Wanting(m) => AbstractWant' = AbstractWant
<1>1. /\ AbstractOwners' = [AbstractOwners EXCEPT ![m] = Owners(m)']
      /\ AbstractWant' = [AbstractWant EXCEPT ![m] = Wanting(m)']
      /\ AbstractOwners[m] = Owners(m) /\ AbstractWant[m] = Wanting(m)
  BY MoverSets
<1>2. ASSUME Owners(m)' = Owners(m) PROVE AbstractOwners' = AbstractOwners
  BY <1>1, <1>2 DEF AbstractOwners
<1>3. ASSUME Wanting(m)' = Wanting(m) PROVE AbstractWant' = AbstractWant
  BY <1>1, <1>3 DEF AbstractWant
<1> QED
  BY <1>2, <1>3

LEMMA MoverTakes ==
    ASSUME NEW t \in Threads, NEW m, OnlyMover(t, m),
           Owners(m) = {}, Wanting(m) = {}, IsOwner(t, m)', ~IsWanting(t, m)'
    PROVE  Abstract!Next
<1>1. Wanting(m)' = Wanting(m)
  BY MoverSets
<1>2. AbstractWant' = AbstractWant
  BY <1>1, MoverKeeps
<1>3. Abstract!Take(t, m)
  BY <1>1, <1>2, MoverSets DEF Abstract!Take
<1> QED
  BY <1>3 DEF Abstract!Next, OnlyMover

LEMMA MoverRequests ==
    ASSUME NEW t \in Threads, NEW m, OnlyMover(t, m),
           ~IsOwner(t, m), ~IsWanting(t, m), ~IsOwner(t, m)', IsWanting(t, m)'
    PROVE  Abstract!Next
<1>1. Owners(m)' = Owners(m)
  BY MoverSets
<1>2. AbstractOwners' = AbstractOwners
  BY <1>1, MoverKeeps
<1>3. Abstract!Request(t, m)
  BY <1>1, <1>2, MoverSets DEF Abstract!Request
<1> QED
  BY <1>3 DEF Abstract!Next, OnlyMover

LEMMA MoverGranted ==
    ASSUME NEW t \in Threads, NEW m, OnlyMover(t, m),
           Owners(m) = {}, IsWanting(t, m), IsOwner(t, m)', ~IsWanting(t, m)'
    PROVE  Abstract!Next
<1>1. Abstract!Grant(t, m)
  BY MoverSets DEF Abstract!Grant
<1> QED
  BY <1>1 DEF Abstract!Next, OnlyMover

LEMMA MoverGivesUp ==
    ASSUME NEW t \in Threads, NEW m, OnlyMover(t, m),
           IsWanting(t, m), ~IsOwner(t, m), ~IsOwner(t, m)', ~IsWanting(t, m)'
    PROVE  Abstract!Next
<1>1. Owners(m)' = Owners(m)
  BY MoverSets
<1>2. AbstractOwners' = AbstractOwners
  BY <1>1, MoverKeeps
<1>3. Abstract!GiveUp(t, m)
  BY <1>1, <1>2, MoverSets DEF Abstract!GiveUp
<1> QED
  BY <1>3 DEF Abstract!Next, OnlyMover

LEMMA MoverReleases ==
    ASSUME NEW t \in Threads, NEW m, OnlyMover(t, m),
           Owners(m) = {t}, ~IsWanting(t, m), ~IsOwner(t, m)', ~IsWanting(t, m)'
    PROVE  Abstract!Next
<1>1. Wanting(m)' = Wanting(m)
  BY MoverSets
<1>2. AbstractWant' = AbstractWant
  BY <1>1, MoverKeeps
<1>3. Abstract!Release(t, m)
  BY <1>1, <1>2, MoverSets DEF Abstract!Release
<1> QED
  BY <1>3 DEF Abstract!Next, OnlyMover

-----------------------------------------------------------------------------
(***************************************************************************)
(* What the invariants say of a mutex a thread is about to get.            *)
(***************************************************************************)

LEMMA NobodyOwns ==
    ASSUME IInv, NEW m \in Mutexes, m \notin destroyed,
           \/ count[m] = 0
           \/ m \in released
           \/ ignore_unlock_count[m] = 0 /\ Unlockers(m) # {}
    PROVE  Owners(m) = {}
<1>1. /\ Token(m) \in {0, 1}
      /\ count[m] = 0 => Token(m) = 0
      /\ ignore_unlock_count[m] <= Cardinality(Unlockers(m))
  BY DEF IInv, CountInv
<1>2. IsFiniteSet(Owners(m)) /\ IsFiniteSet(Unlockers(m))
  BY SetsOfThreads, ThreadsAssumption, FS_Subset
<1>3. /\ Cardinality(Owners(m)) \in Nat
      /\ Cardinality(Unlockers(m)) \in Nat
      /\ ignore_unlock_count[m] \in Nat
  BY NumberTypes DEF IInv
<1>4. Unlockers(m) # {} => Cardinality(Unlockers(m)) # 0
  BY <1>2, FS_EmptySet
<1>5. Cardinality(Owners(m)) = 0
  BY <1>1, <1>3, <1>4 DEF Token
<1> QED
  BY <1>2, <1>5, FS_EmptySet

LEMMA OnlyOwner ==
    ASSUME IInv, NEW m \in Mutexes, m \notin destroyed, NEW t \in Threads, m \in owned[t]
    PROVE  Owners(m) = {t}
<1>1. IsFiniteSet(Owners(m))
  BY SetsOfThreads, ThreadsAssumption, FS_Subset
<1>2. t \in Owners(m)
  BY DEF Owners
<1>3. Cardinality(Owners(m)) <= 1
  BY IInvMutualExclusion DEF MutualExclusion
<1>4. Cardinality(Owners(m)) \in Nat /\ Cardinality(Owners(m)) # 0
  BY <1>1, <1>2, FS_EmptySet, FS_CardinalityType
<1>5. Cardinality(Owners(m)) = 1
  BY <1>3, <1>4
<1> QED
  BY <1>1, <1>2, <1>5, FS_Singleton

\* A count of 0: nobody waits, neither in the queue nor on the way to it.
LEMMA NobodyWaits ==
    ASSUME IInv, NEW m \in Mutexes, m \notin destroyed, count[m] = 0
    PROVE  Wanting(m) = {} /\ waiters[m] = <<>>
<1>1. Engaged(m) = {}
  <2>1. Cardinality(Engaged(m)) = 0
    BY DEF IInv, CountInv
  <2>2. IsFiniteSet(Engaged(m))
    BY SetsOfThreads, ThreadsAssumption, FS_Subset
  <2> QED
    BY <2>1, <2>2, FS_EmptySet
<1>2. Wanting(m) \subseteq Lockers(m)
  BY DEF Wanting, Lockers, thread_is_blocked, IInv, QueueInv
<1>3. waiters[m] # <<>> => \E u \in Threads : Queued(u, m)
  BY TailFacts, QueueInvSplit DEF Queued, IInv, TypeOK
<1>4. \A u \in Threads : Queued(u, m) => u \in Lockers(m)
  BY DEF Lockers, IInv, QueueInv
<1> QED
  BY <1>1, <1>2, <1>3, <1>4 DEF Engaged

\* A thread that waits does so for a mutex that is not destroyed.
LEMMA WantsLive ==
    ASSUME IInv, DestroyedInv, NEW t \in Threads, NEW m \in Mutexes, IsWanting(t, m)
    PROVE  m \notin destroyed
<1>1. CASE pc[t] = "lock"
  BY <1>1 DEF IsWanting, DestroyedInv, DestroyedQueues, LeavesDestroyed
<1>2. CASE pc[t] = "blocked"
  <2>1. Queued(t, m)
    BY <1>2 DEF IsWanting, IInv, QueueInv
  <2> QED
    BY <2>1 DEF DestroyedInv, DestroyedQueues, Queued, InQueue
<1> QED
  BY <1>1, <1>2 DEF IsWanting

\* The first waiter of a queue: either it waits, or its timeout has ended its
\* wait.
LEMMA HeadOfQueue ==
    ASSUME IInv, NEW m \in Mutexes, waiters[m] # <<>>, NEW h, h = Head(waiters[m])
    PROVE  /\ h \in Threads /\ pc[h] = "blocked" /\ obj[h] = m
           /\ m \notin owned[h]
           /\ wait_status[h] \in {"waiting", "B_TIMED_OUT"}
<1>1. h \in Threads /\ Queued(h, m)
  BY TailFacts, QueueInvSplit DEF Queued, IInv, TypeOK
<1> QED
  BY <1>1 DEF IInv, QueueInv, WantInv

-----------------------------------------------------------------------------
(***************************************************************************)
(* Each step is a step of the abstract mutex, or invisible.                *)
(***************************************************************************)

AbstractStep == Abstract!Next \/ UNCHANGED <<AbstractOwners, AbstractWant>>

\* A lock call that finds a count of 0.
LEMMA TakeStep ==
    ASSUME IInv, NEW t \in Threads, NEW m \in Mutexes, m \notin destroyed,
           pc[t] \in {"running", "switch"}, count[m] = 0, ReturnLocked(t, m),
           UNCHANGED <<destroyed, wait_status, obj>>
    PROVE  Abstract!Next
<1>1. /\ pc \in [Threads -> PC] /\ owned \in [Threads -> SUBSET Mutexes]
      /\ pc' = [pc EXCEPT ![t] = "running"]
      /\ owned' = [owned EXCEPT ![t] = @ \cup {m}]
  BY DEF IInv, TypeOK, ReturnLocked
<1>2. \A n \in Mutexes : n # m => SameSeen(t, n)
  BY <1>1 DEF SameSeen, IsOwner, IsWanting
<1>3. \A u \in Threads, n \in Mutexes : u # t => SameSeen(u, n)
  BY <1>1, SeenFrame
<1>4. OnlyMover(t, m)
  BY <1>2, <1>3 DEF OnlyMover
<1>5. IsOwner(t, m)' /\ ~IsWanting(t, m)'
  BY <1>1 DEF IsOwner, IsWanting
<1> QED
  BY <1>4, <1>5, MoverTakes, NobodyOwns, NobodyWaits

\* The slow path of a lock call, entered after the fast path of mutex_lock() or
\* directly by mutex_switch_lock().
LEMMA LockSlowPathStep ==
    ASSUME IInv, DestroyedInv, NEW t \in Threads, NEW m \in Mutexes,
           m \notin destroyed, m \notin owned[t], obj[t] = m,
           pc[t] = "lock" \/ (pc[t] = "switch" /\ Guard[m] # NoMutex),
           LockSlowPath(t, m), UNCHANGED <<destroyed, obj>>
    PROVE  AbstractStep
<1>1. /\ pc \in [Threads -> PC] /\ owned \in [Threads -> SUBSET Mutexes]
      /\ wait_status \in [Threads -> WaitStatus]
  BY DEF IInv, TypeOK
<1>2. CASE m \in released
  <2>1. /\ pc' = [pc EXCEPT ![t] = "running"]
        /\ owned' = [owned EXCEPT ![t] = @ \cup {m}]
        /\ wait_status' = wait_status
    BY <1>2 DEF LockSlowPath, ReturnLocked
  <2>2. \A n \in Mutexes : n # m => SameSeen(t, n)
    BY <1>1, <2>1 DEF SameSeen, IsOwner, IsWanting
  <2>3. \A u \in Threads, n \in Mutexes : u # t => SameSeen(u, n)
    BY <1>1, <2>1, SeenFrame
  <2>4. OnlyMover(t, m)
    BY <2>2, <2>3 DEF OnlyMover
  <2>5. IsOwner(t, m)' /\ ~IsWanting(t, m)'
    BY <1>1, <2>1 DEF IsOwner, IsWanting
  <2>6. Owners(m) = {}
    BY <1>2, NobodyOwns
  <2>7. CASE pc[t] = "lock"
    <3>1. IsWanting(t, m)
      BY <2>7 DEF IsWanting
    <3> QED
      BY <2>4, <2>5, <2>6, <3>1, MoverGranted DEF AbstractStep
  <2>8. CASE pc[t] = "switch" /\ Guard[m] # NoMutex
    <3>1. \A u \in Threads : pc[u] = "lock" => obj[u] # m
      BY <2>8 DEF DestroyedInv, LeavesDestroyed
    <3>2. waiters[m] = <<>>
      BY <1>2 DEF IInv, CountInv
    <3>3. \A u \in Threads : ~IsWanting(u, m)
      BY <3>1, <3>2 DEF IsWanting, IInv, QueueInv, Queued, InQueue
    <3>4. Wanting(m) = {}
      BY <3>3, SeenMembership
    <3> QED
      BY <2>4, <2>5, <2>6, <3>4, MoverTakes DEF AbstractStep
  <2> QED
    BY <2>7, <2>8
<1>3. CASE m \notin released
  <2>1. /\ pc' = [pc EXCEPT ![t] = "blocked"]
        /\ wait_status' = [wait_status EXCEPT ![t] = "waiting"]
        /\ owned' = owned
    BY <1>3 DEF LockSlowPath, thread_prepare_to_block
  <2>2. \A n \in Mutexes : n # m => SameSeen(t, n)
    BY <1>1, <2>1 DEF SameSeen, IsOwner, IsWanting
  <2>3. \A u \in Threads, n \in Mutexes : u # t => SameSeen(u, n)
    BY <1>1, <2>1, SeenFrame
  <2>4. IsWanting(t, m)' /\ ~IsOwner(t, m)' /\ ~IsOwner(t, m)
    BY <1>1, <2>1 DEF IsOwner, IsWanting
  <2>5. CASE pc[t] = "lock"
    <3>1. SameSeen(t, m)
      BY <2>4, <2>5 DEF SameSeen, IsWanting
    <3> QED
      BY <2>2, <2>3, <3>1, AbstractStutter DEF AbstractStep
  <2>6. CASE pc[t] = "switch"
    <3>1. OnlyMover(t, m)
      BY <2>2, <2>3 DEF OnlyMover
    <3>2. ~IsWanting(t, m)
      BY <2>6 DEF IsWanting
    <3> QED
      BY <2>4, <3>1, <3>2, MoverRequests DEF AbstractStep
  <2> QED
    BY <2>5, <2>6
<1> QED
  BY <1>2, <1>3

LEMMA LockFastPathStep ==
    ASSUME IInv, DestroyedInv, NEW t \in Threads, NEW m \in Mutexes, NEW T,
           LockFastPath(t, m, T)
    PROVE  AbstractStep
<1>1. /\ pc \in [Threads -> PC] /\ owned \in [Threads -> SUBSET Mutexes]
      /\ obj \in [Threads -> Mutexes \cup {NoMutex}] /\ count[m] \in Int
  BY DEF IInv, TypeOK
<1>2. /\ m \notin destroyed /\ m \notin owned[t] /\ pc[t] = "running"
      /\ UNCHANGED <<destroyed, wait_status>>
  BY GuardAssumption DEF LockFastPath, MayLock, DestroyedInv, DestroyedQueues
<1>3. CASE count[m] >= 0
  <2>1. count[m] = 0
    BY <1>1, <1>2, <1>3 DEF IInv, CountInv
  <2> QED
    BY <1>2, <1>3, <2>1, TakeStep DEF LockFastPath, LockContended, AbstractStep
<1>4. CASE count[m] < 0
  <2>1. /\ pc' = [pc EXCEPT ![t] = "lock"] /\ obj' = [obj EXCEPT ![t] = m]
        /\ owned' = owned
    BY <1>4 DEF LockFastPath, LockContended
  <2>2. \A n \in Mutexes : n # m => SameSeen(t, n)
    BY <1>1, <1>2, <2>1 DEF SameSeen, IsOwner, IsWanting
  <2>3. \A u \in Threads, n \in Mutexes : u # t => SameSeen(u, n)
    BY <1>1, <1>2, <2>1, SeenFrame
  <2>4. IsWanting(t, m)' /\ ~IsOwner(t, m)' /\ ~IsOwner(t, m) /\ ~IsWanting(t, m)
    BY <1>1, <1>2, <2>1 DEF IsOwner, IsWanting
  <2>5. OnlyMover(t, m)
    BY <1>2, <2>2, <2>3 DEF OnlyMover
  <2> QED
    BY <2>4, <2>5, MoverRequests DEF AbstractStep
<1> QED
  BY <1>1, <1>3, <1>4

LEMMA TrylockStep ==
    ASSUME IInv, NEW t \in Threads, NEW m \in Mutexes, mutex_trylock(t, m)
    PROVE  AbstractStep
  BY TakeStep DEF mutex_trylock, MayTryLock, AbstractStep

\* A woken thread returns: its callers saw it as an owner already.
LEMMA LockReturnStep ==
    ASSUME IInv, NEW t \in Threads, mutex_lock_return(t)
    PROVE  AbstractStep
<1>1. /\ pc \in [Threads -> PC] /\ owned \in [Threads -> SUBSET Mutexes]
      /\ pc[t] = "blocked" /\ obj[t] \in Mutexes
      /\ pc' = [pc EXCEPT ![t] = "running"]
      /\ wait_status[t] # "waiting"
      /\ UNCHANGED <<destroyed, wait_status, obj>>
  BY DEF IInv, TypeOK, WantInv, mutex_lock_return, ReturnLocked, thread_is_blocked, mutexVars
<1>2. owned' = IF wait_status[t] = "B_OK" THEN [owned EXCEPT ![t] = @ \cup {obj[t]}]
                                          ELSE owned
  BY DEF mutex_lock_return, ReturnLocked
<1>3. \A n \in Mutexes : SameSeen(t, n)
  BY <1>1, <1>2 DEF SameSeen, IsOwner, IsWanting
<1>4. \A u \in Threads, n \in Mutexes : u # t => SameSeen(u, n)
  BY <1>1, <1>2, SeenFrame
<1> QED
  BY <1>1, <1>3, <1>4, AbstractStutter DEF AbstractStep

LEMMA TimedOutStep ==
    ASSUME IInv, NEW t \in Threads, mutex_lock_timed_out(t)
    PROVE  AbstractStep
<1>1. /\ pc \in [Threads -> PC]
      /\ pc[t] = "blocked" /\ pc' = [pc EXCEPT ![t] = "running"]
      /\ wait_status[t] \notin {"waiting", "B_OK"}
      /\ UNCHANGED <<destroyed, wait_status, obj, owned>>
  BY DEF IInv, TypeOK, mutex_lock_timed_out
<1>2. \A n \in Mutexes : SameSeen(t, n)
  BY <1>1 DEF SameSeen, IsOwner, IsWanting
<1>3. \A u \in Threads, n \in Mutexes : u # t => SameSeen(u, n)
  BY <1>1, SeenFrame
<1> QED
  BY <1>1, <1>2, <1>3, AbstractStutter DEF AbstractStep

\* The timer ends the wait of a thread whose timeout has passed.
LEMMA TimeoutStep ==
    ASSUME IInv, DestroyedInv, NEW t \in Threads, thread_block_timeout(t)
    PROVE  AbstractStep
<1> PICK m \in Mutexes : obj[t] = m
  BY DEF thread_block_timeout, IInv, WantInv
<1>1. /\ wait_status \in [Threads -> WaitStatus]
      /\ pc[t] = "blocked" /\ wait_status[t] = "waiting"
      /\ m \notin owned[t]
      /\ wait_status' = [wait_status EXCEPT ![t] = "B_TIMED_OUT"]
      /\ UNCHANGED <<destroyed, pc, obj, owned>>
  BY DEF IInv, TypeOK, WantInv, thread_block_timeout, thread_is_blocked,
         thread_unblock_locked, mutexVars
<1>2. \A n \in Mutexes : n # m => SameSeen(t, n)
  BY <1>1 DEF SameSeen, IsOwner, IsWanting
<1>3. \A u \in Threads, n \in Mutexes : u # t => SameSeen(u, n)
  BY <1>1, SeenFrame
<1>4. /\ IsWanting(t, m) /\ ~IsOwner(t, m)
      /\ ~IsWanting(t, m)' /\ ~IsOwner(t, m)'
  BY <1>1 DEF IsOwner, IsWanting
<1>5. OnlyMover(t, m)
  BY <1>1, <1>2, <1>3, <1>4, WantsLive DEF OnlyMover
<1> QED
  BY <1>4, <1>5, MoverGivesUp DEF AbstractStep

LEMMA UnlockStep ==
    ASSUME IInv, DestroyedInv, NEW t \in Threads, NEW m \in Mutexes, mutex_unlock(t, m)
    PROVE  AbstractStep
<1>1. /\ pc \in [Threads -> PC] /\ owned \in [Threads -> SUBSET Mutexes]
      /\ obj \in [Threads -> Mutexes \cup {NoMutex}]
      /\ m \in owned[t] /\ pc[t] = "running" /\ pc'[t] \in {"running", "unlock"}
      /\ owned' = [owned EXCEPT ![t] = @ \ {m}]
      /\ \A u \in Threads : u # t => pc'[u] = pc[u] /\ obj'[u] = obj[u]
      /\ UNCHANGED <<destroyed, wait_status>>
  BY DEF IInv, TypeOK, mutex_unlock
<1>2. m \notin destroyed
  BY <1>1 DEF DestroyedInv, LeavesDestroyed
<1>3. \A n \in Mutexes : n # m => SameSeen(t, n)
  BY <1>1 DEF SameSeen, IsOwner, IsWanting
<1>4. \A u \in Threads, n \in Mutexes : u # t => SameSeen(u, n)
  BY <1>1, SeenFrame
<1>5. OnlyMover(t, m)
  BY <1>1, <1>2, <1>3, <1>4 DEF OnlyMover
<1>6. ~IsWanting(t, m) /\ ~IsOwner(t, m)' /\ ~IsWanting(t, m)'
  BY <1>1 DEF IsOwner, IsWanting
<1> QED
  BY <1>1, <1>2, <1>5, <1>6, OnlyOwner, MoverReleases DEF AbstractStep

\* The slow path of an unlock wakes nobody, or the first waiter of the queue.
LEMMA UnlockSlowPathWakes ==
    ASSUME IInv, NEW m \in Mutexes, UnlockSlowPath(m), wait_status' # wait_status
    PROVE  \E h \in Threads :
              /\ waiters[m] # <<>> /\ h = Head(waiters[m])
              /\ ignore_unlock_count[m] = 0
              /\ pc[h] = "blocked" /\ obj[h] = m /\ m \notin owned[h]
              /\ wait_status[h] = "waiting"
              /\ wait_status' = [wait_status EXCEPT ![h] = "B_OK"]
<1>1. /\ ignore_unlock_count[m] = 0 /\ waiters[m] # <<>>
      /\ wait_status' = thread_unblock_locked(wait_status, Head(waiters[m]), "B_OK")
  BY DEF UnlockSlowPath
<1>2. PICK h : h = Head(waiters[m])
  OBVIOUS
<1>3. /\ h \in Threads /\ pc[h] = "blocked" /\ obj[h] = m /\ m \notin owned[h]
      /\ wait_status[h] \in {"waiting", "B_TIMED_OUT"}
  BY <1>1, <1>2, HeadOfQueue
<1> QED
  BY <1>1, <1>2, <1>3 DEF thread_unblock_locked, thread_is_blocked

LEMMA UnlockSlowStep ==
    ASSUME IInv, DestroyedInv, NEW t \in Threads, mutex_unlock_slow(t)
    PROVE  AbstractStep
<1> PICK m \in Mutexes : obj[t] = m
  BY DEF mutex_unlock_slow, IInv, WantInv
<1>1. /\ pc \in [Threads -> PC] /\ wait_status \in [Threads -> WaitStatus]
      /\ m \notin destroyed
      /\ pc[t] = "unlock" /\ pc' = [pc EXCEPT ![t] = "running"]
      /\ UnlockSlowPath(m)
      /\ UNCHANGED <<destroyed, obj, owned>>
  BY DEF IInv, TypeOK, mutex_unlock_slow, DestroyedInv, LeavesDestroyed
<1>2. CASE wait_status' = wait_status
  <2>1. \A n \in Mutexes : SameSeen(t, n)
    BY <1>1, <1>2 DEF SameSeen, IsOwner, IsWanting
  <2>2. \A u \in Threads, n \in Mutexes : u # t => SameSeen(u, n)
    BY <1>1, <1>2, SeenFrame
  <2> QED
    BY <1>1, <2>1, <2>2, AbstractStutter DEF AbstractStep
<1>3. CASE wait_status' # wait_status
  <2>1. PICK h \in Threads :
              /\ ignore_unlock_count[m] = 0
              /\ pc[h] = "blocked" /\ obj[h] = m /\ m \notin owned[h]
              /\ wait_status[h] = "waiting"
              /\ wait_status' = [wait_status EXCEPT ![h] = "B_OK"]
    BY <1>1, <1>3, UnlockSlowPathWakes
  <2>2. \A n \in Mutexes : SameSeen(t, n)
    BY <1>1, <2>1 DEF SameSeen, IsOwner, IsWanting
  <2>3. \A u \in Threads, n \in Mutexes : u # t /\ u # h => SameSeen(u, n)
    BY <1>1, <2>1, SeenFrame
  <2>4. \A n \in Mutexes : n # m => SameSeen(h, n)
    BY <1>1, <2>1 DEF SameSeen, IsOwner, IsWanting
  <2>5. OnlyMover(h, m)
    BY <1>1, <2>2, <2>3, <2>4 DEF OnlyMover
  <2>6. IsWanting(h, m) /\ IsOwner(h, m)' /\ ~IsWanting(h, m)'
    BY <1>1, <2>1 DEF IsOwner, IsWanting
  <2>7. Owners(m) = {}
    <3>1. t \in Unlockers(m)
      BY <1>1 DEF Unlockers
    <3> QED
      BY <1>1, <2>1, <3>1, NobodyOwns
  <2> QED
    BY <2>5, <2>6, <2>7, MoverGranted DEF AbstractStep
<1> QED
  BY <1>2, <1>3

\* The first half of a switch releases the mutex, or hands it over.
LEMMA SwitchUnlockStep ==
    ASSUME IInv, DestroyedInv, NEW t \in Threads, NEW m \in Mutexes, NEW to \in Mutexes,
           mutex_switch_unlock(t, m, to)
    PROVE  AbstractStep
<1>1. /\ pc \in [Threads -> PC] /\ wait_status \in [Threads -> WaitStatus]
      /\ obj \in [Threads -> Mutexes \cup {NoMutex}]
      /\ owned \in [Threads -> SUBSET Mutexes]
      /\ m \notin destroyed /\ m \in owned[t]
      /\ pc[t] = "running" /\ pc' = [pc EXCEPT ![t] = "switch"]
      /\ obj' = [obj EXCEPT ![t] = to]
      /\ owned' = [owned EXCEPT ![t] = @ \ {m}]
      /\ wait_status' # wait_status => UnlockSlowPath(m)
      /\ destroyed' = destroyed
  BY DEF IInv, TypeOK, mutex_switch_unlock, MaySwitch, DestroyedInv, LeavesDestroyed
<1>2. Owners(m) = {t}
  BY <1>1, OnlyOwner
<1>3. \A n \in Mutexes : n # m => SameSeen(t, n)
  BY <1>1 DEF SameSeen, IsOwner, IsWanting
<1>4. ~IsWanting(t, m) /\ ~IsOwner(t, m)' /\ ~IsWanting(t, m)'
  BY <1>1 DEF IsOwner, IsWanting
<1>5. CASE wait_status' = wait_status
  <2>1. \A u \in Threads, n \in Mutexes : u # t => SameSeen(u, n)
    BY <1>1, <1>5, SeenFrame
  <2>2. OnlyMover(t, m)
    BY <1>1, <1>3, <2>1 DEF OnlyMover
  <2> QED
    BY <1>2, <1>4, <2>2, MoverReleases DEF AbstractStep
<1>6. CASE wait_status' # wait_status
  <2>1. PICK h \in Threads :
              /\ pc[h] = "blocked" /\ obj[h] = m /\ m \notin owned[h]
              /\ wait_status[h] = "waiting"
              /\ wait_status' = [wait_status EXCEPT ![h] = "B_OK"]
    BY <1>1, <1>6, UnlockSlowPathWakes
  <2>2. h # t
    BY <1>1, <2>1
  <2>3. \A u \in Threads, n \in Mutexes : u # t /\ u # h => SameSeen(u, n)
    BY <1>1, <2>1, SeenFrame
  <2>4. \A n \in Mutexes : n # m => SameSeen(h, n)
    BY <1>1, <2>1, <2>2 DEF SameSeen, IsOwner, IsWanting
  <2>5. IsWanting(h, m) /\ IsOwner(h, m)' /\ ~IsWanting(h, m)'
    BY <1>1, <2>1, <2>2 DEF IsOwner, IsWanting
  <2>6. /\ Owners(m) = {u \in Threads : IsOwner(u, m)}
        /\ Wanting(m) = {u \in Threads : IsWanting(u, m)}
        /\ Owners(m)' = {u \in Threads : IsOwner(u, m)'}
        /\ Wanting(m)' = {u \in Threads : IsWanting(u, m)'}
    BY SeenMembership
  <2>7. Owners(m)' = {h}
    BY <1>2, <1>4, <2>3, <2>5, <2>6 DEF SameSeen
  <2>8. Wanting(m)' = Wanting(m) \ {h} /\ h \in Wanting(m)
    BY <1>4, <2>3, <2>5, <2>6 DEF SameSeen
  <2>9. \A u \in Threads, n \in Mutexes : n # m => SameSeen(u, n)
    BY <1>3, <2>3, <2>4
  <2>10. /\ AbstractOwners' = [AbstractOwners EXCEPT ![m] = {h}]
         /\ AbstractWant' = [AbstractWant EXCEPT ![m] = Wanting(m) \ {h}]
         /\ AbstractOwners[m] = {t} /\ AbstractWant[m] = Wanting(m)
    BY <1>1, <1>2, <2>7, <2>8, <2>9, AbstractChange
  <2>11. Abstract!HandOver(t, h, m)
    BY <2>8, <2>10 DEF Abstract!HandOver
  <2> QED
    BY <2>11 DEF Abstract!Next, AbstractStep
<1> QED
  BY <1>5, <1>6

LEMMA SwitchLockStep ==
    ASSUME IInv, DestroyedInv, NEW t \in Threads, mutex_switch_lock(t),
           Guard[obj[t]] # NoMutex
    PROVE  AbstractStep
<1> PICK m \in Mutexes : obj[t] = m
  BY DEF mutex_switch_lock, IInv, WantInv
<1>1. /\ m \notin destroyed /\ m \notin owned[t] /\ count[m] \in Int /\ pc[t] = "switch"
      /\ UNCHANGED <<destroyed, obj>>
  BY DEF mutex_switch_lock, DestroyedInv, LeavesDestroyed, IInv, TypeOK, WantInv
<1>2. CASE count[m] < 0
  <2>1. LockSlowPath(t, m)
    BY <1>2 DEF mutex_switch_lock, LockContended
  <2> QED
    BY <1>1, <2>1, LockSlowPathStep
<1>3. CASE ~(count[m] < 0)
  <2>1. count[m] = 0
    BY <1>1, <1>3 DEF IInv, CountInv
  <2> QED
    BY <1>1, <1>3, <2>1, TakeStep DEF mutex_switch_lock, LockContended, AbstractStep
<1> QED
  BY <1>2, <1>3

LEMMA DestroyStep ==
    ASSUME IInv, DestroyedInv, NEW t \in Threads, NEW m \in Mutexes, mutex_destroy(t, m)
    PROVE  AbstractStep
<1>1. /\ wait_status \in [Threads -> WaitStatus] /\ owned \in [Threads -> SUBSET Mutexes]
      /\ m \in owned[t] /\ m \notin destroyed
      /\ destroyed' = destroyed \cup {m}
      /\ owned' = [owned EXCEPT ![t] = @ \ {m}]
      /\ UNCHANGED <<pc, obj>>
  BY DEF IInv, TypeOK, mutex_destroy, MayDestroy, DestroyedInv, LeavesDestroyed
<1>2. \A u \in Threads : wait_status'[u] = wait_status[u] \/ obj[u] = m
  BY <1>1 DEF mutex_destroy, DestroyWakes, thread_unblock_each, IInv, QueueInv
<1>3. \A u \in Threads, n \in Mutexes : n # m => SameSeen(u, n)
  BY <1>1, <1>2 DEF SameSeen, IsOwner, IsWanting
<1>4. /\ AbstractOwners' = [AbstractOwners EXCEPT ![m] = {}]
      /\ AbstractWant' = [AbstractWant EXCEPT ![m] = {}]
      /\ AbstractOwners[m] = {t}
  BY <1>1, <1>3, AbstractChange, OnlyOwner
<1>5. Abstract!Destroy(t, m)
  BY <1>4 DEF Abstract!Destroy
<1> QED
  BY <1>5 DEF Abstract!Next, AbstractStep

\* A switch leads from the guard to the mutex it guards.
SwitchGuarded == \A t \in Threads : pc[t] = "switch" => Guard[obj[t]] # NoMutex

LEMMA NextSwitchGuarded ==
    ASSUME IInv, SwitchGuarded, [Next]_vars
    PROVE  SwitchGuarded'
<1> USE DEF SwitchGuarded
<1>1. pc \in [Threads -> PC] /\ obj \in [Threads -> Mutexes \cup {NoMutex}]
  BY DEF IInv, TypeOK
<1>2. ASSUME NEW t \in Threads, NEW m \in Mutexes,
             \/ mutex_lock(t, m) \/ mutex_lock_with_timeout(t, m) \/ mutex_trylock(t, m)
             \/ mutex_unlock(t, m) \/ mutex_destroy(t, m)
      PROVE  SwitchGuarded'
  BY <1>1, <1>2 DEF mutex_lock, mutex_lock_with_timeout, LockFastPath, ReturnLocked,
                    mutex_trylock, mutex_unlock, mutex_destroy
<1>3. ASSUME NEW t \in Threads, NEW from \in Mutexes, NEW to \in Mutexes,
             mutex_switch_unlock(t, from, to)
      PROVE  SwitchGuarded'
  BY <1>1, <1>3, GuardAssumption DEF mutex_switch_unlock, MaySwitch
<1>4. ASSUME NEW t \in Threads, ThreadStep(t) \/ thread_block_timeout(t)
      PROVE  SwitchGuarded'
  BY <1>1, <1>4 DEF ThreadStep, mutex_lock_slow, LockSlowPath, ReturnLocked,
                    mutex_lock_return, mutex_lock_timed_out, mutex_unlock_slow,
                    mutex_switch_lock, thread_block_timeout
<1>5. ASSUME UNCHANGED vars
      PROVE  SwitchGuarded'
  BY <1>5 DEF vars, threadVars
<1> QED
  BY <1>2, <1>3, <1>4, <1>5 DEF Next

LEMMA NextAbstract ==
    ASSUME IInv, DestroyedInv, SwitchGuarded, [Next]_vars
    PROVE  AbstractStep
<1>1. ASSUME NEW t \in Threads, NEW m \in Mutexes,
             mutex_lock(t, m) \/ mutex_lock_with_timeout(t, m)
      PROVE  AbstractStep
  BY <1>1, LockFastPathStep DEF mutex_lock, mutex_lock_with_timeout
<1>2. ASSUME NEW t \in Threads, mutex_lock_slow(t)
      PROVE  AbstractStep
  <2> PICK m \in Mutexes : obj[t] = m
    BY <1>2 DEF mutex_lock_slow, IInv, WantInv
  <2>1. /\ pc[t] = "lock" /\ m \notin owned[t] /\ LockSlowPath(t, m)
        /\ UNCHANGED <<destroyed, obj>>
    BY <1>2 DEF mutex_lock_slow, IInv, WantInv
  <2>2. m \notin destroyed
    BY <2>1, WantsLive DEF IsWanting
  <2> QED
    BY <2>1, <2>2, LockSlowPathStep
<1>3. ASSUME NEW t \in Threads, mutex_switch_lock(t)
      PROVE  AbstractStep
  <2>1. Guard[obj[t]] # NoMutex
    BY <1>3 DEF SwitchGuarded, mutex_switch_lock
  <2> QED
    BY <1>3, <2>1, SwitchLockStep
<1>4. ASSUME UNCHANGED vars
      PROVE  AbstractStep
  <2>1. UNCHANGED <<destroyed, owned, pc, obj, wait_status>>
    BY <1>4 DEF vars, mutexVars, threadVars
  <2> QED
    BY <2>1, AbstractStutter, SeenFrame DEF AbstractStep
<1> QED
  BY <1>1, <1>2, <1>3, <1>4, TrylockStep, LockReturnStep, TimedOutStep, TimeoutStep,
     UnlockStep, UnlockSlowStep, SwitchUnlockStep, DestroyStep DEF Next, ThreadStep

LEMMA InitAbstract == ASSUME Init PROVE Abstract!Init
<1>1. \A m \in Mutexes : Owners(m) = {} /\ Wanting(m) = {}
  BY DEF Init, Owners, Wanting
<1> QED
  BY <1>1 DEF Abstract!Init, AbstractOwners, AbstractWant

\* The release build's mutex implements AbstractMutex: whatever the fast paths,
\* slow paths, timeouts, switches and destructions of any number of threads do
\* to the count, the flag and the queue, the callers see a mutex with at most
\* one owner that passes from owner to waiter.
THEOREM MutexImplementsAbstract == Spec => ImplementsAbstractMutex
<1>1. Init => SwitchGuarded
  BY DEF Init, SwitchGuarded
<1>2. IInv /\ DestroyedInv /\ SwitchGuarded /\ [Next]_vars
          => [Abstract!Next]_<<AbstractOwners, AbstractWant>>
  BY NextAbstract DEF AbstractStep
<1> QED
  BY <1>1, <1>2, InitIInv, NextIInv, InitDestroyedInv, NextDestroyedInv, InitAbstract,
     NextSwitchGuarded, PTL DEF Spec, ImplementsAbstractMutex, Abstract!Spec

-----------------------------------------------------------------------------
(***************************************************************************)
(* First come, first served.                                               *)
(***************************************************************************)

\* A mutex whose queue is not empty can neither be taken with a count of 0 nor
\* with MUTEX_FLAG_RELEASED.
LEMMA QueueShutsDoor ==
    ASSUME IInv, NEW m \in Mutexes, m \notin destroyed, waiters[m] # <<>>
    PROVE  count[m] < 0 /\ m \notin released
<1>1. count[m] # 0
  BY NobodyWaits
<1>2. count[m] \in Int /\ count[m] <= 0 /\ m \notin released
  BY DEF IInv, TypeOK, CountInv
<1> QED
  BY <1>1, <1>2

\* In a step, t becomes an owner of m although others are queued.
Overtakes(t, m) ==
    m \notin destroyed /\ waiters[m] # <<>> /\ ~IsOwner(t, m) /\ IsOwner(t, m)'

LEMMA OvertakesHead ==
    ASSUME IInv, [Next]_vars, NEW u \in Threads, NEW n \in Mutexes, Overtakes(u, n)
    PROVE  u = Head(waiters[n])
<1>1. /\ pc \in [Threads -> PC] /\ owned \in [Threads -> SUBSET Mutexes]
      /\ obj \in [Threads -> Mutexes \cup {NoMutex}]
      /\ wait_status \in [Threads -> WaitStatus]
  BY DEF IInv, TypeOK
<1>2. /\ n \notin destroyed /\ waiters[n] # <<>> /\ ~IsOwner(u, n) /\ IsOwner(u, n)'
      /\ count[n] < 0 /\ n \notin released
  BY QueueShutsDoor DEF Overtakes
<1>3. ASSUME NEW t \in Threads, NEW m \in Mutexes,
             \/ mutex_lock(t, m) \/ mutex_lock_with_timeout(t, m)
             \/ mutex_trylock(t, m) \/ mutex_unlock(t, m)
      PROVE  FALSE
  BY <1>1, <1>2, <1>3 DEF mutex_lock, mutex_lock_with_timeout, LockFastPath, LockContended,
                    ReturnLocked, mutex_trylock, mutex_unlock, IsOwner
<1>4. ASSUME NEW t \in Threads, NEW m \in Mutexes, mutex_destroy(t, m)
      PROVE  FALSE
  BY <1>1, <1>2, <1>4 DEF mutex_destroy, DestroyWakes, thread_unblock_each,
                    thread_unblock_locked, IsOwner
<1>5. ASSUME NEW m \in Mutexes, UnlockSlowPath(m) \/ wait_status' = wait_status,
             pc'[u] = pc[u] \/ pc'[u] # "blocked",
             obj'[u] = obj[u] \/ pc'[u] # "blocked",
             owned'[u] \subseteq owned[u]
      PROVE  u = Head(waiters[n])
  BY <1>1, <1>2, <1>5, UnlockSlowPathWakes DEF IsOwner
<1>6. ASSUME NEW t \in Threads, NEW from \in Mutexes, NEW to \in Mutexes,
             mutex_switch_unlock(t, from, to)
      PROVE  u = Head(waiters[n])
  <2>1. UnlockSlowPath(from) \/ wait_status' = wait_status
    BY <1>6 DEF mutex_switch_unlock
  <2>2. /\ pc'[u] = pc[u] \/ pc'[u] # "blocked"
        /\ obj'[u] = obj[u] \/ pc'[u] # "blocked"
        /\ owned'[u] \subseteq owned[u]
    BY <1>1, <1>6 DEF mutex_switch_unlock
  <2> QED
    BY <1>5, <2>1, <2>2
<1>7. ASSUME NEW t \in Threads, mutex_unlock_slow(t)
      PROVE  u = Head(waiters[n])
  <2>1. obj[t] \in Mutexes /\ UnlockSlowPath(obj[t])
    BY <1>7 DEF mutex_unlock_slow, IInv, WantInv
  <2>2. /\ pc'[u] = pc[u] \/ pc'[u] # "blocked"
        /\ obj'[u] = obj[u] /\ owned'[u] = owned[u]
    BY <1>1, <1>7 DEF mutex_unlock_slow
  <2> QED
    BY <1>5, <2>1, <2>2
<1>8. ASSUME NEW t \in Threads, mutex_lock_slow(t) \/ mutex_switch_lock(t)
      PROVE  FALSE
  BY <1>1, <1>2, <1>8 DEF mutex_lock_slow, mutex_switch_lock, LockSlowPath, LockContended,
                    ReturnLocked, thread_prepare_to_block, IsOwner
<1>9. ASSUME NEW t \in Threads,
             \/ mutex_lock_return(t) \/ mutex_lock_timed_out(t) \/ thread_block_timeout(t)
      PROVE  FALSE
  BY <1>1, <1>2, <1>9 DEF mutex_lock_return, mutex_lock_timed_out, thread_block_timeout,
                    ReturnLocked, thread_unblock_locked, thread_is_blocked, IsOwner
<1>10. ASSUME UNCHANGED vars
       PROVE  FALSE
  BY <1>2, <1>10 DEF vars, threadVars, IsOwner
<1> QED
  BY <1>3, <1>4, <1>6, <1>7, <1>8, <1>9, <1>10 DEF Next, ThreadStep

\* First come, first served, for any number of threads: while threads are queued
\* only the first of them can become the owner.
THEOREM MutexIsFair == Spec => NoOvertaking
<1>1. ASSUME IInv, [Next]_vars, NEW m \in Mutexes, NEW t \in Threads,
             m \notin destroyed, waiters[m] # <<>>, t \notin Owners(m), t \in Owners(m)'
      PROVE  t = Head(waiters[m])
  BY <1>1, OvertakesHead, Membership DEF Overtakes
<1>2. IInv /\ [Next]_vars =>
        [\A m \in Mutexes : \A t \in Threads :
            (m \notin destroyed /\ waiters[m] # <<>> /\ t \notin Owners(m) /\ t \in Owners(m)')
                => t = Head(waiters[m])]_vars
  BY <1>1
<1> QED
  BY <1>2, InitIInv, NextIInv, PTL DEF Spec, NoOvertaking

-----------------------------------------------------------------------------
(***************************************************************************)
(* No unlock is lost.                                                      *)
(***************************************************************************)

\* Only the mutexes of TimedMutexes are waited for with a timeout.
TimedInv ==
    \A t \in Threads :
        /\ pc[t] \in {"lock", "blocked"} /\ t \in timed => obj[t] \in TimedMutexes
        /\ pc[t] = "switch" => t \notin timed

\* Without timeouts the count is the number of engaged threads, negated.
EngagedCount ==
    \A m \in Mutexes \ (destroyed \cup TimedMutexes) :
        count[m] = 0 - Cardinality(Engaged(m))

LEMMA NextTimedInv ==
    ASSUME IInv, TimedInv, [Next]_vars
    PROVE  TimedInv'
<1> USE DEF TimedInv
<1>1. /\ pc \in [Threads -> PC] /\ obj \in [Threads -> Mutexes \cup {NoMutex}]
      /\ timed \subseteq Threads
  BY DEF IInv, TypeOK
<1>2. ASSUME NEW t \in Threads, NEW m \in Mutexes,
             \/ mutex_lock(t, m) \/ mutex_lock_with_timeout(t, m) \/ mutex_trylock(t, m)
             \/ mutex_unlock(t, m) \/ mutex_destroy(t, m)
      PROVE  TimedInv'
  BY <1>1, <1>2 DEF mutex_lock, mutex_lock_with_timeout, LockFastPath, ReturnLocked,
                    mutex_trylock, mutex_unlock, mutex_destroy
<1>3. ASSUME NEW t \in Threads, NEW from \in Mutexes, NEW to \in Mutexes,
             mutex_switch_unlock(t, from, to)
      PROVE  TimedInv'
  BY <1>1, <1>3 DEF mutex_switch_unlock
<1>4. ASSUME NEW t \in Threads, ThreadStep(t) \/ thread_block_timeout(t)
      PROVE  TimedInv'
  BY <1>1, <1>4 DEF ThreadStep, mutex_lock_slow, LockSlowPath, ReturnLocked,
                    mutex_lock_return, mutex_lock_timed_out, mutex_unlock_slow,
                    mutex_switch_lock, thread_block_timeout
<1>5. ASSUME UNCHANGED vars
      PROVE  TimedInv'
  BY <1>5 DEF vars, threadVars
<1> QED
  BY <1>2, <1>3, <1>4, <1>5 DEF Next

IsEngaged(u, n) == IsOwner(u, n) \/ IsLocker(u, n)

\* One thread at most becomes engaged in n, or is no longer engaged, and the
\* count follows.
LEMMA EngagedOne ==
    ASSUME TypeOK, NEW n \in Mutexes, NEW x \in Threads,
           \A u \in Threads : u # x => (IsEngaged(u, n)' <=> IsEngaged(u, n)),
           count[n] = 0 - Cardinality(Engaged(n)),
           \/ (IsEngaged(x, n)' <=> IsEngaged(x, n)) /\ count'[n] = count[n]
           \/ IsEngaged(x, n)' /\ ~IsEngaged(x, n) /\ count'[n] = count[n] - 1
           \/ ~IsEngaged(x, n)' /\ IsEngaged(x, n) /\ count'[n] = count[n] + 1
    PROVE  count'[n] = 0 - Cardinality(Engaged(n)')
<1>1. Engaged(n) \in SUBSET Threads /\ Engaged(n)' \in SUBSET Threads
  BY DEF Engaged, Owners, Lockers
<1>2. \A u \in Threads : /\ u \in Engaged(n) <=> IsEngaged(u, n)
                         /\ u \in Engaged(n)' <=> IsEngaged(u, n)'
  BY Membership DEF IsEngaged
<1>3. Cardinality(Engaged(n)') = Cardinality(Engaged(n))
           + (IF x \in Engaged(n)' THEN 1 ELSE 0) - (IF x \in Engaged(n) THEN 1 ELSE 0)
  BY <1>1, <1>2, CardOne, ThreadsAssumption
<1>4. Cardinality(Engaged(n)) \in Nat
  BY <1>1, CardNat
<1> QED
  BY <1>2, <1>3, <1>4

\* An untimed waiter the unlocker wakes becomes the owner: it stays engaged.
LEMMA UnlockSlowPathEngaged ==
    ASSUME IInv, TimedInv, NEW m \in Mutexes, UnlockSlowPath(m),
           NEW n \in Mutexes, n \notin TimedMutexes, NEW u \in Threads,
           pc'[u] = pc[u], obj'[u] = obj[u], owned'[u] = owned[u]
    PROVE  IsEngaged(u, n)' <=> IsEngaged(u, n)
<1>1. waiters \in [Mutexes -> Seq(Threads)] /\ wait_status \in [Threads -> WaitStatus]
  BY DEF IInv, TypeOK
<1>2. CASE waiters' = waiters
  <2>1. wait_status' = wait_status
    BY <1>1, <1>2, TailFacts, QueueInvSplit DEF UnlockSlowPath, IInv, InQueue, Distinct
  <2> QED
    BY <1>2, <2>1 DEF IsEngaged, IsOwner, IsLocker, Queued
<1>3. CASE waiters' # waiters
  <2>1. /\ waiters[m] # <<>> /\ waiters' = [waiters EXCEPT ![m] = Tail(@)]
        /\ wait_status' = thread_unblock_locked(wait_status, Head(waiters[m]), "B_OK")
    BY <1>3 DEF UnlockSlowPath
  <2> DEFINE h == Head(waiters[m])
  <2>2. /\ h \in Threads /\ pc[h] = "blocked" /\ obj[h] = m
        /\ wait_status[h] \in {"waiting", "B_TIMED_OUT"}
    BY <2>1, HeadOfQueue
  <2>3. \A k \in Mutexes : Queued(u, k)' <=> Queued(u, k) /\ ~(u = h /\ k = m)
    BY <2>1, DequeueHeadEffect DEF IInv
  <2>4. Queued(h, m)
    BY <2>1, DequeueHeadEffect DEF IInv
  <2> HIDE DEF h
  <2>5. wait_status' = IF wait_status[h] = "waiting" THEN [wait_status EXCEPT ![h] = "B_OK"]
                                                    ELSE wait_status
    BY <2>1 DEF thread_unblock_locked, thread_is_blocked, h
  <2>6. CASE u = h
    <3>1. CASE n = m
      <4>1. wait_status[h] = "waiting"
        BY <2>2, <2>4, <3>1 DEF TimedInv, IInv, QueueInv
      <4>2. wait_status'[h] = "B_OK"
        BY <1>1, <2>2, <2>5, <4>1
      <4> QED
        BY <2>2, <2>4, <2>6, <3>1, <4>2 DEF IsEngaged, IsOwner, IsLocker
    <3>2. CASE n # m
      BY <2>2, <2>3, <2>6, <3>2 DEF IsEngaged, IsOwner, IsLocker
    <3> QED
      BY <3>1, <3>2
  <2>7. CASE u # h
    <3>1. wait_status'[u] = wait_status[u]
      BY <1>1, <2>5, <2>7
    <3> QED
      BY <2>3, <2>7, <3>1 DEF IsEngaged, IsOwner, IsLocker
  <2> QED
    BY <2>6, <2>7
<1> QED
  BY <1>2, <1>3

\* A thread whose own state and place in the queue of n a step leaves alone.
LEMMA EngagedFrame ==
    ASSUME NEW u \in Threads, NEW n \in Mutexes,
           pc'[u] = pc[u], obj'[u] = obj[u], owned'[u] = owned[u],
           wait_status'[u] = wait_status[u], Queued(u, n)' <=> Queued(u, n)
    PROVE  IsEngaged(u, n)' <=> IsEngaged(u, n)
  BY SameState DEF IsEngaged, SameFor

LEMMA LockSlowPathEngaged ==
    ASSUME IInv, NEW t \in Threads, NEW m \in Mutexes, LockSlowPath(t, m),
           obj[t] = m, obj' = obj, pc[t] # "blocked", NEW n \in Mutexes
    PROVE  /\ \A u \in Threads : u # t \/ n # m => (IsEngaged(u, n)' <=> IsEngaged(u, n))
           /\ IsEngaged(t, m)'
<1>1. /\ pc \in [Threads -> PC] /\ wait_status \in [Threads -> WaitStatus]
      /\ owned \in [Threads -> SUBSET Mutexes]
  BY DEF IInv, TypeOK
<1>2. CASE m \in released
  BY <1>1, <1>2 DEF LockSlowPath, ReturnLocked, IsEngaged, IsOwner, IsLocker, Queued
<1>3. CASE m \notin released
  <2>1. /\ waiters' = [waiters EXCEPT ![m] = Append(@, t)]
        /\ wait_status' = [wait_status EXCEPT ![t] = "waiting"]
        /\ pc' = [pc EXCEPT ![t] = "blocked"]
        /\ owned' = owned
    BY <1>3 DEF LockSlowPath, thread_prepare_to_block
  <2>2. \A k \in Mutexes, u \in Threads :
           Queued(u, k)' <=> Queued(u, k) \/ (u = t /\ k = m)
    BY <2>1, EnqueueEffect DEF IInv
  <2>3. ~Queued(t, n)
    BY DEF IInv, QueueInv
  <2>4. n # m => (IsEngaged(t, n)' <=> IsEngaged(t, n))
    BY <1>1, <2>1, <2>2, <2>3 DEF IsEngaged, IsOwner, IsLocker
  <2>5. ASSUME NEW u \in Threads, u # t
        PROVE  IsEngaged(u, n)' <=> IsEngaged(u, n)
    BY <1>1, <2>1, <2>2, <2>5 DEF IsEngaged, IsOwner, IsLocker
  <2>6. IsEngaged(t, m)'
    BY <1>1, <2>1, <2>2 DEF IsEngaged, IsOwner, IsLocker
  <2> QED
    BY <2>4, <2>5, <2>6
<1> QED
  BY <1>2, <1>3

LEMMA EngagedCountStep ==
    ASSUME IInv, DestroyedInv, TimedInv, EngagedCount, [Next]_vars,
           NEW n \in Mutexes, n \notin TimedMutexes, n \notin destroyed'
    PROVE  count'[n] = 0 - Cardinality(Engaged(n)')
<1>1. /\ pc \in [Threads -> PC] /\ wait_status \in [Threads -> WaitStatus]
      /\ owned \in [Threads -> SUBSET Mutexes] /\ count \in [Mutexes -> Int]
      /\ obj \in [Threads -> Mutexes \cup {NoMutex}] /\ TypeOK
  BY DEF IInv, TypeOK
<1>2. n \notin destroyed
  BY DEF Next, ThreadStep, vars, mutexVars, mutex_lock, mutex_lock_with_timeout, LockFastPath,
         mutex_trylock, mutex_unlock, mutex_destroy, mutex_switch_unlock, mutex_lock_slow,
         mutex_lock_return, mutex_lock_timed_out, mutex_unlock_slow, mutex_switch_lock,
         thread_block_timeout
<1>3. count[n] = 0 - Cardinality(Engaged(n))
  BY <1>2 DEF EngagedCount
<1>4. ASSUME NEW t \in Threads, NEW m \in Mutexes,
             \/ mutex_lock(t, m) \/ mutex_lock_with_timeout(t, m) \/ mutex_trylock(t, m)
      PROVE  count'[n] = 0 - Cardinality(Engaged(n)')
  <2>1. /\ waiters' = waiters /\ wait_status' = wait_status /\ m \notin owned[t]
        /\ pc[t] = "running"
        /\ count' = [count EXCEPT ![m] = @ - 1]
        /\ \A u \in Threads : u # t => /\ pc'[u] = pc[u] /\ obj'[u] = obj[u]
                                       /\ owned'[u] = owned[u]
    BY <1>1, <1>4, GuardAssumption
       DEF mutex_lock, mutex_lock_with_timeout, LockFastPath, ReturnLocked, mutex_trylock,
           MayLock, MayTryLock
  <2>2. \/ /\ pc'[t] = "running" /\ owned'[t] = owned[t] \cup {m}
        \/ /\ pc'[t] = "lock" /\ obj'[t] = m /\ owned'[t] = owned[t]
    BY <1>1, <1>4
       DEF mutex_lock, mutex_lock_with_timeout, LockFastPath, ReturnLocked, mutex_trylock
  <2>3. \A u \in Threads : u # t => (IsEngaged(u, n)' <=> IsEngaged(u, n))
    BY <2>1, EngagedFrame DEF Queued
  <2>4. /\ n # m => (IsEngaged(t, n)' <=> IsEngaged(t, n))
        /\ n = m => IsEngaged(t, n)' /\ ~IsEngaged(t, n)
    BY <2>1, <2>2 DEF IsEngaged, IsOwner, IsLocker
  <2> QED
    BY <1>1, <1>3, <2>1, <2>3, <2>4, EngagedOne
<1>5. ASSUME NEW t \in Threads, NEW m \in Mutexes, mutex_unlock(t, m)
      PROVE  count'[n] = 0 - Cardinality(Engaged(n)')
  <2>1. /\ waiters' = waiters /\ wait_status' = wait_status /\ m \in owned[t]
        /\ pc[t] = "running" /\ pc'[t] \in {"running", "unlock"}
        /\ count' = [count EXCEPT ![m] = @ + 1]
        /\ owned' = [owned EXCEPT ![t] = @ \ {m}]
        /\ \A u \in Threads : u # t => pc'[u] = pc[u] /\ obj'[u] = obj[u]
    BY <1>1, <1>5 DEF mutex_unlock
  <2>2. \A u \in Threads : u # t => (IsEngaged(u, n)' <=> IsEngaged(u, n))
    BY <1>1, <2>1, EngagedFrame DEF Queued
  <2>3. /\ n # m => (IsEngaged(t, n)' <=> IsEngaged(t, n))
        /\ n = m => ~IsEngaged(t, n)' /\ IsEngaged(t, n)
    BY <1>1, <2>1 DEF IsEngaged, IsOwner, IsLocker
  <2> QED
    BY <1>1, <1>3, <2>1, <2>2, <2>3, EngagedOne
<1>6. ASSUME NEW t \in Threads, NEW m \in Mutexes, mutex_destroy(t, m)
      PROVE  count'[n] = 0 - Cardinality(Engaged(n)')
  <2>1. /\ n # m
        /\ waiters' = [waiters EXCEPT ![m] = <<>>]
        /\ owned' = [owned EXCEPT ![t] = @ \ {m}]
        /\ UNCHANGED <<count, pc, obj>>
    BY <1>6 DEF mutex_destroy
  <2>2. \A u \in Threads : wait_status'[u] = wait_status[u] \/ obj[u] = m
    BY <1>1, <1>6 DEF mutex_destroy, DestroyWakes, thread_unblock_each, IInv, QueueInv
  <2>3. \A u \in Threads : Queued(u, n)' <=> Queued(u, n)
    BY <2>1, ClearEffect DEF IInv
  <2>4. \A u \in Threads : IsEngaged(u, n)' <=> IsEngaged(u, n)
    BY <1>1, <2>1, <2>2, <2>3 DEF IsEngaged, IsOwner, IsLocker
  <2> QED
    BY <1>1, <1>3, <2>1, <2>4, EngagedOne
<1>7. ASSUME NEW t \in Threads, NEW m \in Mutexes, NEW to \in Mutexes,
             mutex_switch_unlock(t, m, to)
      PROVE  count'[n] = 0 - Cardinality(Engaged(n)')
  <2>1. /\ m \in owned[t]
        /\ pc[t] = "running" /\ pc' = [pc EXCEPT ![t] = "switch"]
        /\ count' = [count EXCEPT ![m] = @ + 1]
        /\ owned' = [owned EXCEPT ![t] = @ \ {m}]
        /\ obj' = [obj EXCEPT ![t] = to]
        /\ UnlockSlowPath(m) \/ UNCHANGED <<waiters, wait_status>>
    BY <1>7 DEF mutex_switch_unlock, MaySwitch
  <2>2. \A u \in Threads : u # t =>
            pc'[u] = pc[u] /\ obj'[u] = obj[u] /\ owned'[u] = owned[u]
    BY <1>1, <2>1
  <2>3. \A u \in Threads : u # t => (IsEngaged(u, n)' <=> IsEngaged(u, n))
    BY <2>1, <2>2, UnlockSlowPathEngaged, EngagedFrame DEF Queued
  <2>4. /\ n # m => (IsEngaged(t, n)' <=> IsEngaged(t, n))
        /\ n = m => ~IsEngaged(t, n)' /\ IsEngaged(t, n)
    BY <1>1, <2>1 DEF IsEngaged, IsOwner, IsLocker
  <2> QED
    BY <1>1, <1>3, <2>1, <2>3, <2>4, EngagedOne
<1>8. ASSUME NEW t \in Threads, mutex_lock_slow(t)
      PROVE  count'[n] = 0 - Cardinality(Engaged(n)')
  <2> PICK m \in Mutexes : obj[t] = m
    BY <1>8 DEF mutex_lock_slow, IInv, WantInv
  <2>1. /\ pc[t] = "lock" /\ LockSlowPath(t, m) /\ UNCHANGED <<count, obj>>
    BY <1>8 DEF mutex_lock_slow
  <2>2. IsEngaged(t, m)
    BY <2>1 DEF IsEngaged, IsLocker
  <2>3. \A u \in Threads : IsEngaged(u, n)' <=> IsEngaged(u, n)
    BY <2>1, <2>2, LockSlowPathEngaged
  <2> QED
    BY <1>1, <1>3, <2>1, <2>3, EngagedOne
<1>9. ASSUME NEW t \in Threads, mutex_switch_lock(t)
      PROVE  count'[n] = 0 - Cardinality(Engaged(n)')
  <2> PICK m \in Mutexes : obj[t] = m
    BY <1>9 DEF mutex_switch_lock, IInv, WantInv
  <2>1. /\ pc[t] = "switch" /\ m \notin owned[t] /\ obj' = obj
        /\ count' = [count EXCEPT ![m] = @ - 1]
    BY <1>9 DEF mutex_switch_lock, IInv, WantInv
  <2>2. ~IsEngaged(t, m)
    BY <2>1 DEF IsEngaged, IsOwner, IsLocker
  <2>3. /\ \A u \in Threads : u # t \/ n # m => (IsEngaged(u, n)' <=> IsEngaged(u, n))
        /\ IsEngaged(t, m)'
    <3>1. CASE LockSlowPath(t, m)
      BY <2>1, <3>1, LockSlowPathEngaged
    <3>2. CASE ReturnLocked(t, m) /\ UNCHANGED <<waiters, wait_status>>
      BY <1>1, <2>1, <3>2 DEF ReturnLocked, IsEngaged, IsOwner, IsLocker, Queued
    <3> QED
      BY <1>9, <3>1, <3>2 DEF mutex_switch_lock
  <2> QED
    BY <1>1, <1>3, <2>1, <2>2, <2>3, EngagedOne
<1>10. ASSUME NEW t \in Threads, mutex_lock_return(t)
       PROVE  count'[n] = 0 - Cardinality(Engaged(n)')
  <2> PICK m \in Mutexes : obj[t] = m
    BY <1>10 DEF mutex_lock_return, IInv, WantInv
  <2>1. /\ pc[t] = "blocked" /\ wait_status[t] # "waiting" /\ m \notin owned[t]
        /\ pc' = [pc EXCEPT ![t] = "running"]
        /\ UNCHANGED <<count, waiters, wait_status, obj>>
        /\ \/ wait_status[t] = "B_OK" /\ owned' = [owned EXCEPT ![t] = @ \cup {m}]
           \/ wait_status[t] # "B_OK" /\ t \notin timed /\ owned' = owned
    BY <1>10 DEF mutex_lock_return, ReturnLocked, thread_is_blocked, mutexVars, IInv, WantInv
  <2>2. \A u \in Threads : u # t => (IsEngaged(u, n)' <=> IsEngaged(u, n))
    BY <1>1, <2>1, EngagedFrame DEF Queued
  <2>3. \A k \in Mutexes : ~Queued(t, k)
    BY <2>1 DEF IInv, QueueInv
  <2>4. IsEngaged(t, n)' <=> IsEngaged(t, n)
    BY <1>1, <2>1, <2>3 DEF IsEngaged, IsOwner, IsLocker
  <2> QED
    BY <1>1, <1>3, <2>1, <2>2, <2>4, EngagedOne
<1>11. ASSUME NEW t \in Threads, mutex_lock_timed_out(t)
       PROVE  count'[n] = 0 - Cardinality(Engaged(n)')
  <2> PICK m \in Mutexes : obj[t] = m
    BY <1>11 DEF mutex_lock_timed_out, IInv, WantInv
  <2>1. /\ pc[t] = "blocked" /\ t \in timed /\ wait_status[t] \notin {"waiting", "B_OK"}
        /\ pc' = [pc EXCEPT ![t] = "running"]
        /\ UNCHANGED <<wait_status, obj, owned>>
        /\ \/ /\ Queued(t, m) /\ waiters' = [waiters EXCEPT ![m] = Dequeue(@, t)]
              /\ count' = [count EXCEPT ![m] = @ + 1]
           \/ UNCHANGED <<waiters, count>>
    BY <1>11 DEF mutex_lock_timed_out, FixCount
  <2>2. n # m
    BY <2>1 DEF TimedInv
  <2>3. \A u \in Threads : Queued(u, n)' <=> Queued(u, n)
    <3>1. CASE Queued(t, m) /\ waiters' = [waiters EXCEPT ![m] = Dequeue(@, t)]
      BY <2>2, <3>1, DequeueEffect DEF IInv
    <3>2. CASE waiters' = waiters
      BY <3>2 DEF Queued
    <3> QED
      BY <2>1, <3>1, <3>2
  <2>4. \A u \in Threads : IsEngaged(u, n)' <=> IsEngaged(u, n)
    BY <1>1, <2>1, <2>2, <2>3 DEF IsEngaged, IsOwner, IsLocker
  <2>5. count'[n] = count[n]
    BY <1>1, <2>1, <2>2
  <2> QED
    BY <1>1, <1>3, <2>4, <2>5, EngagedOne
<1>12. ASSUME NEW t \in Threads, mutex_unlock_slow(t)
       PROVE  count'[n] = 0 - Cardinality(Engaged(n)')
  <2>1. /\ pc[t] = "unlock" /\ obj[t] \in Mutexes /\ UnlockSlowPath(obj[t])
        /\ pc' = [pc EXCEPT ![t] = "running"] /\ UNCHANGED <<count, obj, owned>>
    BY <1>12 DEF mutex_unlock_slow, IInv, WantInv
  <2>2. \A u \in Threads : u # t => (IsEngaged(u, n)' <=> IsEngaged(u, n))
    BY <1>1, <2>1, UnlockSlowPathEngaged
  <2>3. IsEngaged(t, n)' <=> IsEngaged(t, n)
    BY <1>1, <2>1 DEF IsEngaged, IsOwner, IsLocker
  <2> QED
    BY <1>1, <1>3, <2>1, <2>2, <2>3, EngagedOne
<1>13. ASSUME NEW t \in Threads, thread_block_timeout(t)
       PROVE  count'[n] = 0 - Cardinality(Engaged(n)')
  <2>1. /\ pc[t] = "blocked" /\ t \in timed /\ wait_status[t] = "waiting"
        /\ wait_status' = [wait_status EXCEPT ![t] = "B_TIMED_OUT"]
        /\ UNCHANGED <<count, waiters, pc, obj, owned>>
    BY <1>13 DEF thread_block_timeout, thread_unblock_locked, thread_is_blocked, mutexVars
  <2>2. \A u \in Threads : IsEngaged(u, n)' <=> IsEngaged(u, n)
    BY <1>1, <2>1 DEF IsEngaged, IsOwner, IsLocker, Queued
  <2> QED
    BY <1>1, <1>3, <2>1, <2>2, EngagedOne
<1>14. ASSUME UNCHANGED vars
       PROVE  count'[n] = 0 - Cardinality(Engaged(n)')
  <2>1. UNCHANGED <<count, waiters, wait_status, pc, obj, owned>>
    BY <1>14 DEF vars, mutexVars, threadVars
  <2>2. Engaged(n)' = Engaged(n)
    BY <2>1 DEF Engaged, Owners, Lockers, Queued
  <2> QED
    BY <1>3, <2>1, <2>2
<1> QED
  BY <1>4, <1>5, <1>6, <1>7, <1>8, <1>9, <1>10, <1>11, <1>12, <1>13, <1>14
     DEF Next, ThreadStep

\* No unlock is lost, and none is counted twice: while a thread is on its way into
\* a mutex nobody locks with a timeout, exactly one right to own it exists, in the
\* hands of an owner, of an unlocker or in MUTEX_FLAG_RELEASED.
THEOREM NoUnlockIsLost == Spec => []NoLostMutex
<1>1. ASSUME Init PROVE TimedInv /\ EngagedCount
  <2>1. \A m \in Mutexes : count[m] = 0 /\ Engaged(m) = {}
    BY <1>1 DEF Init, Engaged, Owners, Lockers
  <2>2. Cardinality({}) = 0
    BY FS_EmptySet
  <2>3. \A m \in Mutexes : count[m] = 0 - Cardinality(Engaged(m))
    BY <2>1, <2>2
  <2>4. TimedInv
    BY <1>1 DEF Init, TimedInv
  <2> QED
    BY <2>3, <2>4 DEF EngagedCount
<1>2. ASSUME IInv, DestroyedInv, TimedInv, EngagedCount, [Next]_vars
      PROVE  TimedInv' /\ EngagedCount'
  BY <1>2, NextTimedInv, EngagedCountStep DEF EngagedCount
<1>3. ASSUME IInv, EngagedCount PROVE NoLostMutex
  <2> SUFFICES ASSUME NEW m \in Mutexes, m \notin destroyed, m \notin TimedMutexes,
                      Lockers(m) # {}
               PROVE  Token(m) = 1
    BY DEF NoLostMutex
  <2>1. Engaged(m) # {} /\ IsFiniteSet(Engaged(m))
    BY SetsOfThreads, ThreadsAssumption, FS_Subset DEF Engaged
  <2>2. Cardinality(Engaged(m)) \in Nat /\ Cardinality(Engaged(m)) # 0
    BY <2>1, FS_EmptySet, FS_CardinalityType
  <2>3. count[m] = 0 - Cardinality(Engaged(m))
    BY <1>3 DEF EngagedCount
  <2>4. count[m] # 0 => count[m] = Token(m) - 1 - Cardinality(Engaged(m))
    BY <1>3 DEF IInv, CountInv
  <2>5. Token(m) \in {0, 1}
    BY <1>3 DEF IInv, CountInv
  <2> QED
    BY <2>2, <2>3, <2>4, <2>5
<1> QED
  BY <1>1, <1>2, <1>3, InitIInv, NextIInv, InitDestroyedInv, NextDestroyedInv, PTL DEF Spec

=============================================================================
