-------------------------- MODULE UserMutexProofs --------------------------
(***************************************************************************)
(* Proofs about the userland mutexes and the pthread mutexes and condition *)
(* variables on top of them (module UserMutex), for every number of        *)
(* threads, mutexes and condition variables, whichever of them signals and *)
(* timeouts disturb.                                                       *)
(***************************************************************************)
EXTENDS UserMutex, LockLemmas

-----------------------------------------------------------------------------
(***************************************************************************)
(* The invariant.                                                          *)
(***************************************************************************)

\* t is in cond_wait() with the condition variable c.
InCondWait(t) == call[t] # NoCall

\* What a thread works on follows from where it is.
PlaceOf(t) ==
    /\ pc[t] \in {"lock", "unlock"} => obj[t] \in Mutexes
    /\ pc[t] \in {"signal", "broadcast", "switch", "switch_lock"} => obj[t] \in Conditions
    /\ pc[t] \in Waiting => obj[t] \in Words
    /\ pc[t] \in {"running", "unlock", "signal", "broadcast"} => ~InCondWait(t)
    /\ pc[t] \in {"switch", "switch_lock", "relock", "done"} => InCondWait(t)
    /\ pc[t] \in Waiting \cup {"switch", "switch_lock"} /\ obj[t] \in Conditions
          => InCondWait(t) /\ call[t].cond = obj[t]
    /\ InCondWait(t) => call[t].mutex \in Undisturbed
    /\ InCondWait(t) /\ pc[t] \in Waiting \cup {"lock"} /\ obj[t] \in Mutexes
          => obj[t] = call[t].mutex

PlaceInv == \A t \in Threads : PlaceOf(t)

\* The table has one entry of each waiting thread, the one a mutex has been
\* handed over to is its first one, and the waiting flag tells that there are any.
TableInv ==
    /\ \A w \in Words : Distinct(table[w])
    /\ \A t \in Threads, w \in Words :
          InQueue(table[w], t) <=> pc[t] \in Waiting /\ obj[t] = w
    /\ \A t \in locked : pc[t] \in Waiting
    /\ \A m \in Mutexes : \A i \in DOMAIN table[m] : table[m][i] \in locked => i = 1

\* An entry's condition variable has the thread's own entry or nothing.  A wait
\* ends only because the entry has been unblocked, or with a result that the word
\* allows.
EntryOf(t) ==
    /\ \/ fVariable[t] = t /\ fEntries[t] = <<t>> /\ pc[t] \in {"added", "blocked"}
       \/ fVariable[t] = NoVariable /\ fEntries[t] = <<>>
    /\ pc[t] = "added" =>
          \/ fVariable[t] = t
          \/ fVariable[t] = NoVariable /\ t \in locked /\ fWaitStatus[t] = "B_OK"
    /\ pc[t] = "blocked" /\ t \notin locked /\ wait_status[t] # "waiting"
          => wait_status[t] \in EarlyResults(obj[t])
    /\ pc[t] = "dequeue" /\ t \notin locked => error[t] \in EarlyResults(obj[t])

EntryInv == \A t \in Threads : EntryOf(t)

\* There is one right to own a mutex.  While it exists, the word is not free.
OwnInvOf(m) ==
    /\ holders[m] = IF owner[m] = NoThread THEN {} ELSE {owner[m]}
    /\ owner[m] # NoThread => \A t \in Threads : ~Busy(t, m)
    /\ \A t, u \in Threads : Busy(t, m) /\ Busy(u, m) => t = u
    /\ owner[m] # NoThread => "LOCKED" \in word[m]
    /\ \A t \in Threads : Given(t, m) \/ Switching(t, m) => "LOCKED" \in word[m]
    /\ \A t \in Threads : Giving(t, m) => "WAITING" \in word[m]

OwnInv == \A m \in Mutexes \ orphaned : OwnInvOf(m)

\* A word that is not free has been left so by somebody who has that right.
RightOf(m) ==
    word[m] # {} => owner[m] # NoThread \/ \E t \in Threads : Busy(t, m)

RightInv == \A m \in Mutexes \ orphaned : RightOf(m)

IInv ==
    /\ TypeOK
    /\ PlaceInv
    /\ TableInv
    /\ WaitingFlagInv
    /\ EntryInv
    /\ WaitersCounted
    /\ OwnInv
    /\ RightInv

-----------------------------------------------------------------------------
(***************************************************************************)
(* Types.                                                                  *)
(***************************************************************************)

LEMMA ThreadsFinite == IsFiniteSet(Threads) /\ NoThread \notin Threads /\ Variables = Threads
  BY UserMutexAssumption

LEMMA NoVariableOutside == NoVariable \notin Threads
  BY ThreadsFinite, ConditionVariableAssumption

LEMMA GoToType ==
    ASSUME TypeOK, NEW t \in Threads, NEW p \in PC, NEW w \in Words \cup {NoWord},
           GoTo(t, p, w)
    PROVE  pc' \in [Threads -> PC] /\ obj' \in [Threads -> Words \cup {NoWord}]
  BY DEF GoTo, TypeOK

LEMMA AcquiredType ==
    ASSUME TypeOK, NEW t \in Threads, NEW m \in Mutexes, Acquired(t, m)
    PROVE  /\ owner' \in [Mutexes -> Threads \cup {NoThread}]
           /\ owner_count' \in [Mutexes -> 0 .. MaxRecursion]
           /\ holders' \in [Mutexes -> SUBSET Threads]
           /\ pc' \in [Threads -> PC] /\ obj' \in [Threads -> Words \cup {NoWord}]
<1>1. /\ owner \in [Mutexes -> Threads \cup {NoThread}]
      /\ owner_count \in [Mutexes -> 0 .. MaxRecursion]
      /\ holders \in [Mutexes -> SUBSET Threads]
  BY DEF TypeOK
<1>2. 1 \in 0 .. MaxRecursion
  BY UserMutexAssumption
<1>3. pc' \in [Threads -> PC] /\ obj' \in [Threads -> Words \cup {NoWord}]
  <2>1. GoTo(t, IF call[t] = NoCall THEN "running" ELSE "done", NoWord)
    BY DEF Acquired
  <2>2. (IF call[t] = NoCall THEN "running" ELSE "done") \in PC
    BY DEF PC
  <2> QED
    BY <2>1, <2>2, GoToType
<1>4. owner_count' \in [Mutexes -> 0 .. MaxRecursion]
  BY <1>1, <1>2 DEF Acquired
<1> QED
  BY <1>1, <1>3, <1>4 DEF Acquired

LEMMA ReturnsType ==
    ASSUME TypeOK, NEW t \in Threads, NEW w \in Words, NEW r, KernelLockReturns(t, w, r)
    PROVE  /\ owner' \in [Mutexes -> Threads \cup {NoThread}]
           /\ owner_count' \in [Mutexes -> 0 .. MaxRecursion]
           /\ holders' \in [Mutexes -> SUBSET Threads]
           /\ pc' \in [Threads -> PC] /\ obj' \in [Threads -> Words \cup {NoWord}]
<1>1. CASE w \in Mutexes /\ Acquired(t, w)
  BY <1>1, AcquiredType
<1>2. CASE \E p \in {"relock", "lock", "running"}, x \in {w, NoWord} :
              GoTo(t, p, x) /\ UNCHANGED <<owner, owner_count, holders>>
  <2>1. {"relock", "lock", "running"} \subseteq PC
    BY DEF PC
  <2>2. pc' \in [Threads -> PC] /\ obj' \in [Threads -> Words \cup {NoWord}]
    BY <1>2, <2>1, GoToType
  <2> QED
    BY <1>2, <2>2 DEF TypeOK
<1> QED
  BY <1>1, <1>2 DEF KernelLockReturns

LEMMA LockLockedType ==
    ASSUME TypeOK, NEW t \in Threads, NEW w \in Words, LockLocked(t, w)
    PROVE  /\ word' \in [Words -> SUBSET Flags]
           /\ table' \in [Words -> Seq(Threads)]
           /\ owner' \in [Mutexes -> Threads \cup {NoThread}]
           /\ owner_count' \in [Mutexes -> 0 .. MaxRecursion]
           /\ holders' \in [Mutexes -> SUBSET Threads]
           /\ pc' \in [Threads -> PC] /\ obj' \in [Threads -> Words \cup {NoWord}]
           /\ ConditionTypeOK'
<1>1. CASE FreeInKernel(word[w])
  <2>1. KernelLockReturns(t, w, "B_OK") /\ word' = [word EXCEPT ![w] = {"LOCKED"}]
        /\ UNCHANGED <<table, conditionVars>>
    BY <1>1 DEF LockLocked
  <2>2. ConditionTypeOK'
    BY <2>1 DEF TypeOK, ConditionTypeOK, conditionVars
  <2>3. word' \in [Words -> SUBSET Flags] /\ table' \in [Words -> Seq(Threads)]
    BY <2>1 DEF TypeOK, Flags
  <2> QED
    BY <2>1, <2>2, <2>3, ReturnsType
<1>2. CASE ~FreeInKernel(word[w])
  <2>1. /\ word' = [word EXCEPT ![w] = Flags]
        /\ table' = [table EXCEPT ![w] = Append(@, t)]
        /\ Add(t, t)
        /\ GoTo(t, "added", w)
        /\ UNCHANGED <<owner, owner_count, holders>>
    BY <1>2 DEF LockLocked
  <2>2. ConditionTypeOK'
    BY <2>1, ThreadsFinite DEF TypeOK, ConditionTypeOK, Add, EntryStatus
  <2>3. word' \in [Words -> SUBSET Flags] /\ table' \in [Words -> Seq(Threads)]
    BY <2>1 DEF TypeOK
  <2>4. pc' \in [Threads -> PC] /\ obj' \in [Threads -> Words \cup {NoWord}]
    <3>1. "added" \in PC
      BY DEF PC
    <3> QED
      BY <2>1, <3>1, GoToType
  <2> QED
    BY <2>1, <2>2, <2>3, <2>4 DEF TypeOK
<1> QED
  BY <1>1, <1>2

\* The threads whose entries an unlock takes out of their condition variables are
\* the ones it marks as locked.
LEMMA NotifiedAreUnblocked ==
    ASSUME TypeOK, EntryInv, NEW w \in Words, NEW all, table[w] # <<>>
    PROVE  /\ Unblocked(w, all) \subseteq Threads
           /\ \A v \in Threads : First(v) = IF fVariable[v] = v THEN {v} ELSE {}
           /\ UNION {First(v) : v \in Unblocked(w, all)}
                  = {v \in Unblocked(w, all) : fVariable[v] = v}
<1>1. table[w] \in Seq(Threads)
  BY DEF TypeOK
<1>2. Unblocked(w, all) \subseteq Threads
  <2>1. Head(table[w]) \in Threads
    BY <1>1
  <2>2. \A i \in DOMAIN table[w] : table[w][i] \in Threads
    BY <1>1
  <2> QED
    BY <2>1, <2>2 DEF Unblocked
<1>3. ASSUME NEW v \in Threads
      PROVE  First(v) = IF fVariable[v] = v THEN {v} ELSE {}
  <2>1. CASE fVariable[v] = v
    <3>1. fEntries[v] = <<v>>
      BY <2>1, NoVariableOutside DEF EntryInv, EntryOf
    <3> QED
      BY <2>1, <3>1 DEF First
  <2>2. CASE fVariable[v] # v
    <3>1. fEntries[v] = <<>>
      BY <2>2 DEF EntryInv, EntryOf
    <3> QED
      BY <2>2, <3>1 DEF First
  <2> QED
    BY <2>1, <2>2
<1> QED
  BY <1>2, <1>3

LEMMA UnlockLockedType ==
    ASSUME TypeOK, EntryInv, NEW w \in Words, NEW all, UnlockLocked(w, all)
    PROVE  /\ word' \in [Words -> SUBSET Flags]
           /\ locked' \subseteq Threads
           /\ ConditionTypeOK'
<1>1. CASE table[w] # <<>>
  <2> DEFINE T == UNION {First(v) : v \in Unblocked(w, all)}
  <2>1. /\ word' = [word EXCEPT ![w] = @ \cup {"LOCKED"}]
        /\ locked' = locked \cup Unblocked(w, all)
        /\ Notify(T, "B_OK")
    BY <1>1 DEF UnlockLocked, HandedOver
  <2>2. Unblocked(w, all) \subseteq Threads
    BY <1>1, NotifiedAreUnblocked
  <2> HIDE DEF T
  <2>3. \A s \in Seq(Threads) : Unnotified(s, T) \in Seq(Threads)
    BY DEF Unnotified
  <2>4. wait_status' \in [Threads -> WaitStatus]
    <3>1. wait_status \in [Threads -> WaitStatus] /\ "B_OK" \in WaitStatus
      BY DEF TypeOK, ConditionTypeOK, WaitStatus
    <3> QED
      BY <2>1, <3>1, UnblockEachType DEF Notify
  <2>5. ConditionTypeOK'
    BY <2>1, <2>3, <2>4 DEF TypeOK, ConditionTypeOK, Notify, EntryStatus, WaitStatus
  <2> QED
    BY <2>1, <2>2, <2>5 DEF TypeOK, Flags
<1>2. CASE table[w] = <<>>
  BY <1>2 DEF UnlockLocked, TypeOK, ConditionTypeOK, conditionVars, Flags
<1> QED
  BY <1>1, <1>2

LEMMA TypeStep ==
    ASSUME TypeOK, PlaceInv, TableInv, EntryInv, WaitersCounted, [Next]_vars
    PROVE  TypeOK'
<1>1. /\ "running" \in PC /\ "lock" \in PC /\ "unlock" \in PC /\ "switch" \in PC
      /\ "switch_lock" \in PC /\ "blocked" \in PC /\ "dequeue" \in PC
      /\ "signal" \in PC /\ "broadcast" \in PC
  BY DEF PC
<1>2. Mutexes \subseteq Words /\ Conditions \subseteq Words
  BY DEF Words
<1>3. ASSUME NEW t \in Threads, user_mutex_lock(t) PROVE TypeOK'
  <2>1. obj[t] \in Words
    BY <1>2, <1>3 DEF user_mutex_lock, PlaceInv, PlaceOf
  <2> QED
    BY <1>3, <2>1, LockLockedType DEF user_mutex_lock, TypeOK
<1>4. ASSUME NEW t \in Threads, user_mutex_switch_lock(t) PROVE TypeOK'
  <2>1. obj[t] \in Words
    BY <1>2, <1>4 DEF user_mutex_switch_lock, PlaceInv, PlaceOf
  <2> QED
    BY <1>4, <2>1, LockLockedType DEF user_mutex_switch_lock, TypeOK
<1>5. ASSUME NEW t \in Threads, user_mutex_switch_unlock(t) PROVE TypeOK'
  <2>1. obj[t] \in Words /\ call[t].mutex \in Words
    BY <1>2, <1>5 DEF user_mutex_switch_unlock, PlaceInv, PlaceOf, InCondWait, Undisturbed
  <2>2. pc' \in [Threads -> PC] /\ obj' \in [Threads -> Words \cup {NoWord}]
    BY <1>1, <1>5, <2>1, GoToType DEF user_mutex_switch_unlock
  <2> QED
    BY <1>5, <2>1, <2>2, UnlockLockedType DEF user_mutex_switch_unlock, TypeOK, pthreadVars
<1>6. ASSUME NEW t \in Threads, user_mutex_unlock(t) PROVE TypeOK'
  <2>1. obj[t] \in Words
    BY <1>2, <1>6 DEF user_mutex_unlock, PlaceInv, PlaceOf
  <2>2. pc' \in [Threads -> PC] /\ obj' \in [Threads -> Words \cup {NoWord}]
    BY <1>1, <1>6, GoToType DEF user_mutex_unlock
  <2> QED
    BY <1>6, <2>1, <2>2, UnlockLockedType DEF user_mutex_unlock, TypeOK, pthreadVars
<1>7. ASSUME NEW t \in Threads, user_mutex_lock_end(t) PROVE TypeOK'
  <2>1. obj[t] \in Words
    BY <1>7 DEF user_mutex_lock_end, PlaceInv, PlaceOf, Waiting
  <2>2. Dequeue(table[obj[t]], t) \in Seq(Threads)
    <3>1. InQueue(table[obj[t]], t)
      BY <1>7, <2>1 DEF user_mutex_lock_end, TableInv, Waiting
    <3>2. table[obj[t]] \in Seq(Threads)
      BY <2>1 DEF TypeOK
    <3> QED
      BY <3>1, <3>2, DequeueType
  <2>3. table' \in [Words -> Seq(Threads)]
    BY <1>7, <2>1, <2>2 DEF user_mutex_lock_end, TypeOK
  <2>4. word' \in [Words -> SUBSET Flags]
    BY <1>7, <2>1 DEF user_mutex_lock_end, TypeOK, FlagsLeft
  <2>5. error' \in [Threads -> WaitStatus] /\ ConditionTypeOK' /\ locked' \subseteq Threads
    BY <1>7 DEF user_mutex_lock_end, TypeOK, WaitStatus, ConditionTypeOK, conditionVars
  <2>6. KernelLockReturns(t, obj[t], LockResult(t))
    BY <1>7 DEF user_mutex_lock_end
  <2>7. /\ owner' \in [Mutexes -> Threads \cup {NoThread}]
        /\ owner_count' \in [Mutexes -> 0 .. MaxRecursion]
        /\ holders' \in [Mutexes -> SUBSET Threads]
        /\ pc' \in [Threads -> PC] /\ obj' \in [Threads -> Words \cup {NoWord}]
    BY <2>1, <2>6, ReturnsType
  <2>8. orphaned' \subseteq Mutexes
    BY <1>7 DEF user_mutex_lock_end, TypeOK
  <2> QED
    BY <1>7, <2>3, <2>4, <2>5, <2>7, <2>8 DEF user_mutex_lock_end, TypeOK
<1>8. ASSUME NEW t \in Threads, wait_notified(t) \/ wait_blocks(t) \/ wait_ends(t)
      PROVE  TypeOK'
  <2>1. obj[t] \in Words
    BY <1>8 DEF wait_notified, wait_blocks, wait_ends, PlaceInv, PlaceOf, Waiting
  <2>2. pc' \in [Threads -> PC] /\ obj' \in [Threads -> Words \cup {NoWord}]
    BY <1>1, <1>8, <2>1, GoToType DEF wait_notified, wait_blocks, wait_ends
  <2>3. error' \in [Threads -> WaitStatus]
    <3>1. CASE wait_notified(t)
      <4>1. fWaitStatus[t] = "B_OK"
        BY <3>1, NoVariableOutside
           DEF wait_notified, WaitReturns, Detached, EntryInv, EntryOf
      <4> QED
        BY <3>1, <4>1 DEF wait_notified, TypeOK, WaitStatus
    <3>2. CASE wait_blocks(t) \/ wait_ends(t)
      BY <3>2 DEF wait_blocks, wait_ends, TypeOK, ConditionTypeOK
    <3> QED
      BY <1>8, <3>1, <3>2
  <2>4. ConditionTypeOK'
    <3>1. CASE wait_notified(t)
      BY <3>1 DEF wait_notified, TypeOK, ConditionTypeOK, conditionVars
    <3>2. CASE wait_blocks(t)
      BY <3>2 DEF wait_blocks, WaitBlocks, TypeOK, ConditionTypeOK, EntryStatus,
                  thread_prepare_to_block, WaitStatus
    <3>3. CASE wait_ends(t)
      <4>1. fEntries' \in [Variables -> Seq(Threads)]
        <5>1. CASE Detached(t)
          BY <3>3, <5>1 DEF wait_ends, WaitEnds, TypeOK, ConditionTypeOK
        <5>2. CASE ~Detached(t)
          <6>1. fVariable[t] = t /\ fEntries[t] = <<t>>
            BY <5>2 DEF EntryInv, EntryOf, Detached
          <6>2. InQueue(fEntries[t], t) /\ fEntries[t] \in Seq(Threads)
            BY <6>1 DEF InQueue
          <6>3. Dequeue(fEntries[t], t) \in Seq(Threads)
            BY <6>2, DequeueType
          <6> QED
            BY <3>3, <5>2, <6>1, <6>3, ThreadsFinite
               DEF wait_ends, WaitEnds, TypeOK, ConditionTypeOK
        <5> QED
          BY <5>1, <5>2
      <4> QED
        BY <3>3, <4>1 DEF wait_ends, WaitEnds, TypeOK, ConditionTypeOK, EntryStatus, WaitStatus
    <3> QED
      BY <1>8, <3>1, <3>2, <3>3
  <2> QED
    BY <1>8, <2>2, <2>3, <2>4
       DEF wait_notified, wait_blocks, wait_ends, TypeOK, wordVars, pthreadVars
<1>9. ASSUME NEW t \in Threads, wait_given_up(t) PROVE TypeOK'
  <2>1. wait_status' \in [Threads -> WaitStatus]
    BY <1>9 DEF wait_given_up, thread_unblock_locked, TypeOK, ConditionTypeOK, EarlyResults,
                WaitStatus
  <2> QED
    BY <1>9, <2>1 DEF wait_given_up, TypeOK, ConditionTypeOK, wordVars, pthreadVars
<1>10. ASSUME NEW t \in Threads, NEW m \in Mutexes, LockWord(t, m) PROVE TypeOK'
  <2>1. word' \in [Words -> SUBSET Flags]
    BY <1>2, <1>10 DEF LockWord, TypeOK, Flags
  <2>2. CASE Acquired(t, m)
    BY <1>10, <2>1, <2>2, AcquiredType DEF LockWord, TypeOK, ConditionTypeOK, conditionVars
  <2>3. CASE GoTo(t, "lock", m) /\ UNCHANGED <<owner, owner_count, holders>>
    <3>1. pc' \in [Threads -> PC] /\ obj' \in [Threads -> Words \cup {NoWord}]
      BY <1>1, <1>2, <2>3, GoToType
    <3> QED
      BY <1>10, <2>1, <2>3, <3>1 DEF LockWord, TypeOK, ConditionTypeOK, conditionVars
  <2> QED
    BY <1>10, <2>2, <2>3 DEF LockWord
<1>11. ASSUME NEW t \in Threads, cond_wait_relock(t) PROVE TypeOK'
  <2>1. call[t].mutex \in Mutexes
    BY <1>11 DEF cond_wait_relock, PlaceInv, PlaceOf, Undisturbed
  <2> QED
    BY <1>10, <1>11, <2>1 DEF cond_wait_relock
<1>12. ASSUME NEW t \in Threads, cond_wait_end(t) PROVE TypeOK'
  <2>1. call[t] \in [mutex : Mutexes, cond : Conditions] /\ call[t] # NoCall
    BY <1>12 DEF cond_wait_end, PlaceInv, PlaceOf, InCondWait, TypeOK
  <2> DEFINE c == call[t].cond
             W == {u \in Threads : call[u] # NoCall /\ call[u].cond = c}
  <2>2. c \in Conditions /\ waiter_count[c] = Cardinality(W) /\ t \in W
    BY <2>1 DEF WaitersCounted
  <2>3. IsFiniteSet(W)
    BY ThreadsFinite, FS_Subset
  <2>4. Cardinality(W) # 0 /\ Cardinality(W) \in Nat
    BY <2>2, <2>3, FS_EmptySet, FS_CardinalityType
  <2> HIDE DEF W
  <2>5. waiter_count[c] - 1 \in Nat
    BY <2>2, <2>4
  <2>6. waiter_count' = [waiter_count EXCEPT ![c] = @ - 1]
        /\ cond_mutex' = [cond_mutex EXCEPT ![c] = MutexLeft(@, waiter_count'[c])]
    BY <1>12 DEF cond_wait_end
  <2> HIDE DEF c
  <2>7. waiter_count' \in [Conditions -> Nat]
    BY <2>2, <2>5, <2>6 DEF TypeOK
  <2>8. cond_mutex' \in [Conditions -> Mutexes \cup {NoWord}]
    BY <2>2, <2>6 DEF TypeOK, MutexLeft
  <2>9. pc' \in [Threads -> PC] /\ obj' \in [Threads -> Words \cup {NoWord}]
    BY <1>1, <1>12, GoToType DEF cond_wait_end
  <2>10. call' \in [Threads -> [mutex : Mutexes, cond : Conditions] \cup {NoCall}]
    BY <1>12 DEF cond_wait_end, TypeOK
  <2> QED
    BY <1>12, <2>7, <2>8, <2>9, <2>10
       DEF cond_wait_end, TypeOK, ConditionTypeOK, conditionVars, wordVars
<1>13. ASSUME NEW t \in Threads, NEW m \in Mutexes,
              pthread_mutex_lock_again(t, m) \/ pthread_mutex_unlock_inner(t, m)
       PROVE  TypeOK'
  <2>1. owner_count' \in [Mutexes -> 0 .. MaxRecursion]
    <3>1. owner_count \in [Mutexes -> 0 .. MaxRecursion] /\ MaxRecursion \in Nat
      BY UserMutexAssumption DEF TypeOK
    <3>2. \E k \in 0 .. MaxRecursion : owner_count' = [owner_count EXCEPT ![m] = k]
      BY <1>13, <3>1 DEF pthread_mutex_lock_again, pthread_mutex_unlock_inner
    <3> QED
      BY <3>1, <3>2
  <2> QED
    BY <1>13, <2>1
       DEF pthread_mutex_lock_again, pthread_mutex_unlock_inner, TypeOK, ConditionTypeOK,
           conditionVars, wordVars
<1>14. ASSUME NEW t \in Threads, NEW m \in Mutexes, pthread_mutex_trylock(t, m)
       PROVE  TypeOK'
  <2>1. word' \in [Words -> SUBSET Flags]
    BY <1>2, <1>14 DEF pthread_mutex_trylock, TypeOK, Flags
  <2>2. CASE Acquired(t, m)
    BY <1>14, <2>1, <2>2, AcquiredType
       DEF pthread_mutex_trylock, TypeOK, ConditionTypeOK, conditionVars
  <2>3. CASE UNCHANGED <<owner, owner_count, holders, pc, obj>>
    BY <1>14, <2>1, <2>3 DEF pthread_mutex_trylock, TypeOK, ConditionTypeOK, conditionVars
  <2> QED
    BY <1>14, <2>2, <2>3 DEF pthread_mutex_trylock
<1>15. ASSUME NEW t \in Threads, NEW m \in Mutexes, pthread_mutex_unlock(t, m)
       PROVE  TypeOK'
  <2>1. word' \in [Words -> SUBSET Flags]
    BY <1>2, <1>15 DEF pthread_mutex_unlock, TypeOK
  <2>2. owner_count' \in [Mutexes -> 0 .. MaxRecursion]
    BY <1>15, UserMutexAssumption DEF pthread_mutex_unlock, TypeOK
  <2>3. pc' \in [Threads -> PC] /\ obj' \in [Threads -> Words \cup {NoWord}]
    BY <1>1, <1>2, <1>15, GoToType DEF pthread_mutex_unlock, TypeOK
  <2>4. owner' \in [Mutexes -> Threads \cup {NoThread}] /\ holders' \in [Mutexes -> SUBSET Threads]
    BY <1>15 DEF pthread_mutex_unlock, TypeOK
  <2> QED
    BY <1>15, <2>1, <2>2, <2>3, <2>4
       DEF pthread_mutex_unlock, TypeOK, ConditionTypeOK, conditionVars
<1>16. ASSUME NEW t \in Threads, NEW m \in Mutexes, NEW c \in Conditions, cond_wait(t, c, m)
       PROVE  TypeOK'
  <2>1. word' \in [Words -> SUBSET Flags]
    BY <1>2, <1>16 DEF cond_wait, TypeOK, Flags
  <2>2. owner_count' \in [Mutexes -> 0 .. MaxRecursion] /\ waiter_count' \in [Conditions -> Nat]
    BY <1>16, UserMutexAssumption DEF cond_wait, TypeOK
  <2>3. pc' \in [Threads -> PC] /\ obj' \in [Threads -> Words \cup {NoWord}]
    BY <1>1, <1>2, <1>16, GoToType DEF cond_wait
  <2>4. owner' \in [Mutexes -> Threads \cup {NoThread}] /\ holders' \in [Mutexes -> SUBSET Threads]
    BY <1>16 DEF cond_wait, TypeOK
  <2>5. /\ call' \in [Threads -> [mutex : Mutexes, cond : Conditions] \cup {NoCall}]
        /\ cond_mutex' \in [Conditions -> Mutexes \cup {NoWord}]
    BY <1>16 DEF cond_wait, TypeOK
  <2> QED
    BY <1>16, <2>1, <2>2, <2>3, <2>4, <2>5
       DEF cond_wait, TypeOK, ConditionTypeOK, conditionVars
<1>17. ASSUME NEW t \in Threads, NEW c \in Conditions, NEW kind \in {"signal", "broadcast"},
              cond_signal(t, c, kind)
       PROVE  TypeOK'
  <2>1. pc' \in [Threads -> PC] /\ obj' \in [Threads -> Words \cup {NoWord}]
    BY <1>1, <1>2, <1>17, GoToType DEF cond_signal
  <2> QED
    BY <1>17, <2>1
       DEF cond_signal, TypeOK, ConditionTypeOK, conditionVars, wordVars, pthreadVars
<1>18. ASSUME UNCHANGED vars PROVE TypeOK'
  BY <1>18 DEF vars, TypeOK, ConditionTypeOK, conditionVars, wordVars, pthreadVars
<1> QED
  BY <1>3, <1>4, <1>5, <1>6, <1>7, <1>8, <1>9, <1>10, <1>11, <1>12, <1>13, <1>14, <1>15,
     <1>16, <1>17, <1>18 DEF Next, TableStep, CallStep, pthread_mutex_lock

-----------------------------------------------------------------------------
(***************************************************************************)
(* What a thread works on.                                                 *)
(***************************************************************************)

LEMMA GoToEffect ==
    ASSUME TypeOK, NEW t \in Threads, NEW p, NEW w, GoTo(t, p, w)
    PROVE  /\ pc'[t] = p /\ obj'[t] = w
           /\ \A u \in Threads : u # t => pc'[u] = pc[u] /\ obj'[u] = obj[u]
  BY DEF GoTo, TypeOK

\* The thread t moves and leaves its arguments alone, the others stay.
Moves(t, p, w) ==
    /\ pc'[t] = p /\ obj'[t] = w /\ call'[t] = call[t]
    /\ \A u \in Threads : u # t =>
          pc'[u] = pc[u] /\ obj'[u] = obj[u] /\ call'[u] = call[u]

\* A thread that gets a mutex leaves the lock call, or goes on in cond_wait().
LEMMA AcquiredMoves ==
    ASSUME TypeOK, NEW t \in Threads, NEW m, Acquired(t, m), UNCHANGED call
    PROVE  Moves(t, IF InCondWait(t) THEN "done" ELSE "running", NoWord)
  BY GoToEffect DEF Acquired, Moves, InCondWait

LEMMA PlaceMoves ==
    ASSUME PlaceInv, NEW t \in Threads, NEW p, NEW w, Moves(t, p, w),
           PlaceOf(t) => PlaceOf(t)'
    PROVE  PlaceInv'
<1>1. ASSUME NEW u \in Threads, u # t PROVE PlaceOf(u)'
  BY <1>1 DEF PlaceInv, PlaceOf, Moves, InCondWait
<1> QED
  BY <1>1 DEF PlaceInv

\* Where a wait without a result other than B_OK leads.
LEMMA ReturnsPlace ==
    ASSUME TypeOK, PlaceInv, NEW t \in Threads, NEW w \in Words, NEW r,
           KernelLockReturns(t, w, r), UNCHANGED call,
           w \in Conditions => InCondWait(t),
           InCondWait(t) /\ w \in Mutexes => w = call[t].mutex /\ r = "B_OK"
    PROVE  PlaceInv'
<1>1. PlaceOf(t)
  BY DEF PlaceInv
<1>2. CASE GoTo(t, "relock", NoWord) /\ w \in Conditions
  <2>1. Moves(t, "relock", NoWord)
    BY <1>2, GoToEffect DEF Moves
  <2>2. PlaceOf(t)'
    BY <1>1, <1>2, <2>1 DEF PlaceOf, Moves, InCondWait, Waiting
  <2> QED
    BY <2>1, <2>2, PlaceMoves
<1>3. CASE Acquired(t, w)
  <2>1. Moves(t, IF InCondWait(t) THEN "done" ELSE "running", NoWord)
    BY <1>3, AcquiredMoves
  <2>2. PlaceOf(t)'
    BY <1>1, <2>1 DEF PlaceOf, Moves, InCondWait, Waiting
  <2> QED
    BY <2>1, <2>2, PlaceMoves
<1>4. CASE w \in Mutexes /\ r # "B_OK" /\ GoTo(t, "lock", w)
  <2>1. Moves(t, "lock", w)
    BY <1>4, GoToEffect DEF Moves
  <2>2. PlaceOf(t)'
    BY <1>1, <1>4, <2>1 DEF PlaceOf, Moves, InCondWait, Waiting
  <2> QED
    BY <2>1, <2>2, PlaceMoves
<1>5. CASE w \in Mutexes /\ r # "B_OK" /\ GoTo(t, "running", NoWord)
  <2>1. Moves(t, "running", NoWord)
    BY <1>5, GoToEffect DEF Moves
  <2>2. PlaceOf(t)'
    BY <1>1, <1>5, <2>1 DEF PlaceOf, Moves, InCondWait, Waiting
  <2> QED
    BY <2>1, <2>2, PlaceMoves
<1> QED
  BY <1>2, <1>3, <1>4, <1>5 DEF KernelLockReturns

LEMMA LockLockedPlace ==
    ASSUME TypeOK, PlaceInv, NEW t \in Threads, pc[t] \in {"lock", "switch_lock"},
           LockLocked(t, obj[t]), UNCHANGED call
    PROVE  PlaceInv'
<1>1. PlaceOf(t) /\ obj[t] \in Words
  BY DEF PlaceInv, PlaceOf, Words
<1>2. CASE KernelLockReturns(t, obj[t], "B_OK")
  BY <1>1, <1>2, ReturnsPlace, UserMutexAssumption DEF PlaceOf
<1>3. CASE GoTo(t, "added", obj[t])
  <2>1. Moves(t, "added", obj[t])
    BY <1>3, GoToEffect DEF Moves
  <2>2. PlaceOf(t)'
    BY <1>1, <2>1, UserMutexAssumption DEF PlaceOf, Moves, InCondWait, Waiting
  <2> QED
    BY <2>1, <2>2, PlaceMoves
<1> QED
  BY <1>2, <1>3 DEF LockLocked

LEMMA PlaceStep ==
    ASSUME TypeOK, PlaceInv, EntryInv, [Next]_vars
    PROVE  PlaceInv'
<1>1. ASSUME NEW t \in Threads, user_mutex_lock(t) \/ user_mutex_switch_lock(t)
      PROVE  PlaceInv'
  BY <1>1, LockLockedPlace DEF user_mutex_lock, user_mutex_switch_lock
<1>2. ASSUME NEW t \in Threads, user_mutex_switch_unlock(t) PROVE PlaceInv'
  <2>1. pc[t] = "switch" /\ Moves(t, "switch_lock", obj[t])
    BY <1>2, GoToEffect DEF user_mutex_switch_unlock, Moves
  <2>2. PlaceOf(t) => PlaceOf(t)'
    BY <2>1, UserMutexAssumption DEF PlaceOf, Moves, InCondWait, Waiting
  <2> QED
    BY <2>1, <2>2, PlaceMoves
<1>3. ASSUME NEW t \in Threads, user_mutex_unlock(t) PROVE PlaceInv'
  <2>1. pc[t] \in {"unlock", "signal", "broadcast"} /\ Moves(t, "running", NoWord)
    BY <1>3, GoToEffect DEF user_mutex_unlock, Moves
  <2>2. PlaceOf(t) => PlaceOf(t)'
    BY <2>1 DEF PlaceOf, Moves, InCondWait, Waiting
  <2> QED
    BY <2>1, <2>2, PlaceMoves
<1>4. ASSUME NEW t \in Threads, user_mutex_lock_end(t) PROVE PlaceInv'
  <2>1. /\ pc[t] = "dequeue" /\ UNCHANGED call
        /\ KernelLockReturns(t, obj[t], LockResult(t))
    BY <1>4 DEF user_mutex_lock_end
  <2>2. PlaceOf(t) /\ EntryOf(t)
    BY DEF PlaceInv, EntryInv
  <2>3. obj[t] \in Words /\ (obj[t] \in Conditions => InCondWait(t))
    BY <2>1, <2>2 DEF PlaceOf, Waiting
  <2>4. InCondWait(t) /\ obj[t] \in Mutexes => obj[t] = call[t].mutex /\ t \in locked
    BY <2>1, <2>2 DEF PlaceOf, EntryOf, Waiting, EarlyResults, Undisturbed
  <2> QED
    BY <2>1, <2>3, <2>4, ReturnsPlace DEF LockResult
<1>5. ASSUME NEW t \in Threads, wait_notified(t) \/ wait_blocks(t) \/ wait_ends(t)
      PROVE  PlaceInv'
  <2>1. PICK p \in {"blocked", "dequeue"} : pc[t] \in Waiting /\ Moves(t, p, obj[t])
    BY <1>5, GoToEffect DEF wait_notified, wait_blocks, wait_ends, Moves, Waiting
  <2>2. PlaceOf(t) => PlaceOf(t)'
    BY <2>1 DEF PlaceOf, Moves, InCondWait, Waiting
  <2> QED
    BY <2>1, <2>2, PlaceMoves
<1>6. ASSUME NEW t \in Threads, wait_given_up(t) PROVE PlaceInv'
  BY <1>6 DEF wait_given_up, PlaceInv, PlaceOf, InCondWait
<1>7. ASSUME NEW t \in Threads, NEW m \in Mutexes, LockWord(t, m),
             InCondWait(t) => m = call[t].mutex
      PROVE  PlaceInv'
  <2>1. \/ Moves(t, IF InCondWait(t) THEN "done" ELSE "running", NoWord)
        \/ Moves(t, "lock", m)
    BY <1>7, GoToEffect, AcquiredMoves DEF LockWord, Moves
  <2>2. PlaceOf(t) => PlaceOf(t)'
    BY <1>7, <2>1 DEF PlaceOf, Moves, InCondWait, Waiting
  <2> QED
    BY <2>1, <2>2, PlaceMoves
<1>8. ASSUME NEW t \in Threads, NEW m \in Mutexes, pthread_mutex_lock(t, m) PROVE PlaceInv'
  <2>1. ~InCondWait(t)
    BY <1>8 DEF pthread_mutex_lock, PlaceInv, PlaceOf
  <2> QED
    BY <1>7, <1>8, <2>1 DEF pthread_mutex_lock
<1>9. ASSUME NEW t \in Threads, cond_wait_relock(t) PROVE PlaceInv'
  <2>1. call[t].mutex \in Mutexes
    BY <1>9 DEF cond_wait_relock, PlaceInv, PlaceOf, Undisturbed
  <2> QED
    BY <1>7, <1>9, <2>1 DEF cond_wait_relock
<1>10. ASSUME NEW t \in Threads, cond_wait_end(t) PROVE PlaceInv'
  <2>1. /\ pc'[t] = "running" /\ call'[t] = NoCall
        /\ \A u \in Threads : u # t =>
              pc'[u] = pc[u] /\ obj'[u] = obj[u] /\ call'[u] = call[u]
    BY <1>10, GoToEffect DEF cond_wait_end, TypeOK
  <2> QED
    BY <2>1 DEF PlaceInv, PlaceOf, InCondWait, Waiting
<1>11. ASSUME NEW t \in Threads, NEW m \in Mutexes,
              pthread_mutex_lock_again(t, m) \/ pthread_mutex_unlock_inner(t, m)
       PROVE  PlaceInv'
  BY <1>11 DEF pthread_mutex_lock_again, pthread_mutex_unlock_inner, PlaceInv, PlaceOf,
               InCondWait
<1>12. ASSUME NEW t \in Threads, NEW m \in Mutexes, pthread_mutex_trylock(t, m)
       PROVE  PlaceInv'
  <2>1. pc[t] = "running" /\ UNCHANGED call /\ (Acquired(t, m) \/ UNCHANGED <<pc, obj>>)
    BY <1>12 DEF pthread_mutex_trylock
  <2>2. Acquired(t, m) => Moves(t, IF InCondWait(t) THEN "done" ELSE "running", NoWord)
    BY <2>1, AcquiredMoves
  <2>3. UNCHANGED <<pc, obj>> => PlaceInv'
    BY <2>1 DEF PlaceInv, PlaceOf, InCondWait
  <2>4. Acquired(t, m) => (PlaceOf(t) => PlaceOf(t)')
    BY <2>1, <2>2 DEF PlaceOf, Moves, InCondWait, Waiting
  <2> QED
    BY <2>1, <2>2, <2>3, <2>4, PlaceMoves
<1>13. ASSUME NEW t \in Threads, NEW m \in Mutexes, pthread_mutex_unlock(t, m)
       PROVE  PlaceInv'
  <2>1. pc[t] = "running" /\ UNCHANGED call /\ (GoTo(t, "unlock", m) \/ UNCHANGED <<pc, obj>>)
    BY <1>13 DEF pthread_mutex_unlock
  <2>2. GoTo(t, "unlock", m) => Moves(t, "unlock", m)
    BY <2>1, GoToEffect DEF Moves
  <2>3. UNCHANGED <<pc, obj>> => PlaceInv'
    BY <2>1 DEF PlaceInv, PlaceOf, InCondWait
  <2>4. GoTo(t, "unlock", m) => (PlaceOf(t) => PlaceOf(t)')
    BY <2>1, <2>2 DEF PlaceOf, Moves, InCondWait, Waiting
  <2> QED
    BY <2>1, <2>2, <2>3, <2>4, PlaceMoves
<1>14. ASSUME NEW t \in Threads, NEW m \in Mutexes, NEW c \in Conditions, cond_wait(t, c, m)
       PROVE  PlaceInv'
  <2>1. /\ pc'[t] = "switch" /\ obj'[t] = c /\ call'[t] = [mutex |-> m, cond |-> c]
        /\ m \in Undisturbed
        /\ \A u \in Threads : u # t =>
              pc'[u] = pc[u] /\ obj'[u] = obj[u] /\ call'[u] = call[u]
    BY <1>14, GoToEffect DEF cond_wait, TypeOK
  <2>2. call'[t] # NoCall /\ call'[t].mutex = m /\ call'[t].cond = c
    <3>1. call'[t] \in [mutex : Mutexes, cond : Conditions]
      BY <2>1
    <3> QED
      BY <2>1, <3>1, UserMutexAssumption
  <2>3. PlaceOf(t)'
    BY <2>1, <2>2 DEF PlaceOf, InCondWait, Waiting
  <2>4. ASSUME NEW u \in Threads, u # t PROVE PlaceOf(u)'
    BY <2>1, <2>4 DEF PlaceInv, PlaceOf, InCondWait, Waiting
  <2> QED
    BY <2>3, <2>4 DEF PlaceInv
<1>15. ASSUME NEW t \in Threads, NEW c \in Conditions, NEW kind \in {"signal", "broadcast"},
              cond_signal(t, c, kind)
       PROVE  PlaceInv'
  <2>1. pc[t] = "running" /\ Moves(t, kind, c)
    BY <1>15, GoToEffect DEF cond_signal, Moves
  <2>2. PlaceOf(t) => PlaceOf(t)'
    BY <2>1 DEF PlaceOf, Moves, InCondWait, Waiting
  <2> QED
    BY <2>1, <2>2, PlaceMoves
<1>16. ASSUME UNCHANGED vars PROVE PlaceInv'
  BY <1>16 DEF vars, PlaceInv, PlaceOf, InCondWait
<1> QED
  BY <1>1, <1>2, <1>3, <1>4, <1>5, <1>6, <1>8, <1>9, <1>10, <1>11, <1>12, <1>13, <1>14, <1>15,
     <1>16 DEF Next, TableStep, CallStep

-----------------------------------------------------------------------------
(***************************************************************************)
(* The table and the waiting flag.                                         *)
(***************************************************************************)

\* The threads keep their entries.
SameEntries(t) ==
    \A u \in Threads : u # t =>
        pc'[u] = pc[u] /\ obj'[u] = obj[u]

\* Steps that leave the table and the marks of its entries alone.
LEMMA TableFrame ==
    ASSUME TypeOK, TableInv, WaitingFlagInv, UNCHANGED <<table, locked>>,
           NEW t \in Threads, SameEntries(t),
           \/ pc[t] \notin Waiting /\ pc'[t] \notin Waiting
           \/ pc[t] \in Waiting /\ pc'[t] \in Waiting /\ obj'[t] = obj[t],
           \A w \in Words : "WAITING" \in word'[w] <=> "WAITING" \in word[w]
    PROVE  TableInv' /\ WaitingFlagInv'
<1>1. \A w \in Words : Distinct(table'[w])
  BY DEF TableInv
<1>2. \A u \in Threads, w \in Words :
         InQueue(table'[w], u) <=> pc'[u] \in Waiting /\ obj'[u] = w
  BY DEF TableInv, SameEntries
<1>3. \A m \in Mutexes : \A i \in DOMAIN table'[m] : table'[m][i] \in locked' => i = 1
  BY DEF TableInv
<1>4. \A u \in locked' : pc'[u] \in Waiting
  BY DEF TableInv, TypeOK, SameEntries
<1>5. WaitingFlagInv'
  BY DEF WaitingFlagInv
<1> QED
  BY <1>1, <1>2, <1>3, <1>4, <1>5 DEF TableInv

\* Adding an entry, and setting the waiting flag.
LEMMA TableEnter ==
    ASSUME TypeOK, TableInv, WaitingFlagInv, NEW t \in Threads, NEW w \in Words,
           pc[t] \notin Waiting, SameEntries(t), pc'[t] \in Waiting, obj'[t] = w,
           table' = [table EXCEPT ![w] = Append(@, t)],
           word' = [word EXCEPT ![w] = Flags],
           locked' = locked
    PROVE  TableInv' /\ WaitingFlagInv'
<1>1. /\ table \in [Words -> Seq(Threads)] /\ word \in [Words -> SUBSET Flags]
      /\ locked \subseteq Threads
  BY DEF TypeOK
<1>2. ~InQueue(table[w], t) /\ t \notin locked
  BY DEF TableInv
<1>3. /\ \A u : InQueue(Append(table[w], t), u) <=> u = t \/ InQueue(table[w], u)
      /\ Distinct(Append(table[w], t))
  BY <1>1, <1>2, AppendFacts DEF TableInv
<1>4. table'[w] = Append(table[w], t) /\ \A x \in Words : x # w => table'[x] = table[x]
  BY <1>1
<1>5. \A x \in Words : Distinct(table'[x])
  BY <1>3, <1>4 DEF TableInv
<1>6. ASSUME NEW u \in Threads, NEW x \in Words
      PROVE  InQueue(table'[x], u) <=> pc'[u] \in Waiting /\ obj'[u] = x
  <2>1. CASE x = w
    BY <1>3, <1>4, <2>1 DEF TableInv, SameEntries
  <2>2. CASE x # w
    BY <1>4, <2>2 DEF TableInv, SameEntries
  <2> QED
    BY <2>1, <2>2
<1>7. \A u \in locked' : pc'[u] \in Waiting
  BY <1>1 DEF TableInv, SameEntries
<1>8. ASSUME NEW m \in Mutexes, NEW i \in DOMAIN table'[m], table'[m][i] \in locked'
      PROVE  i = 1
  <2>1. CASE m = w
    <3>1. /\ DOMAIN table'[m] = 1 .. (Len(table[m]) + 1) /\ Len(table[m]) \in Nat
          /\ DOMAIN table[m] = 1 .. Len(table[m])
          /\ table'[m][Len(table[m]) + 1] = t
          /\ \A j \in 1 .. Len(table[m]) : table'[m][j] = table[m][j]
      BY <1>1, <1>4, <2>1
    <3>2. i # Len(table[m]) + 1
      BY <1>2, <1>8, <3>1
    <3>3. i \in DOMAIN table[m] /\ table[m][i] \in locked
      BY <1>8, <3>1, <3>2
    <3> QED
      BY <3>3 DEF TableInv
  <2>2. CASE m # w
    BY <1>4, <1>8, <2>2 DEF TableInv, Words
  <2> QED
    BY <2>1, <2>2
<1>9. WaitingFlagInv'
  <2>1. Append(table[w], t) # <<>> /\ "WAITING" \in Flags
    BY <1>1 DEF Flags
  <2> QED
    BY <1>1, <1>4, <2>1 DEF WaitingFlagInv
<1> QED
  BY <1>5, <1>6, <1>7, <1>8, <1>9 DEF TableInv

\* The unblocked entries: the first one, or all of a condition variable.
LEMMA UnblockedFacts ==
    ASSUME TypeOK, TableInv, NEW w \in Words, NEW all, table[w] # <<>>
    PROVE  /\ \A u \in Unblocked(w, all) : u \in Threads /\ pc[u] \in Waiting /\ obj[u] = w
           /\ all = FALSE => Unblocked(w, all) = {table[w][1]}
<1>1. table[w] \in Seq(Threads)
  BY DEF TypeOK
<1>2. Head(table[w]) = table[w][1] /\ 1 \in DOMAIN table[w]
  BY <1>1
<1>3. \A u \in Unblocked(w, all) : InQueue(table[w], u) /\ u \in Threads
  BY <1>1, <1>2 DEF Unblocked, InQueue
<1> QED
  BY <1>2, <1>3 DEF TableInv, Unblocked

LEMMA TableUnblock ==
    ASSUME TypeOK, TableInv, WaitingFlagInv, NEW t \in Threads, NEW w \in Words,
           NEW all, all = FALSE \/ w \in Conditions,
           UnlockLocked(w, all), table' = table, SameEntries(t),
           pc[t] \notin Waiting, pc'[t] \notin Waiting
    PROVE  TableInv' /\ WaitingFlagInv'
<1>1. /\ table \in [Words -> Seq(Threads)] /\ word \in [Words -> SUBSET Flags]
      /\ locked \subseteq Threads
  BY DEF TypeOK
<1>2. \A x \in Words : "WAITING" \in word'[x] <=> "WAITING" \in word[x]
  <2>1. PICK f : word' = [word EXCEPT ![w] = f] /\ ("WAITING" \in f <=> "WAITING" \in word[w])
    BY DEF UnlockLocked, HandedOver
  <2> QED
    BY <1>1, <2>1
<1>3. CASE table[w] = <<>>
  <2>1. locked' = locked
    BY <1>3 DEF UnlockLocked
  <2> QED
    BY <1>2, <2>1, TableFrame
<1>4. CASE table[w] # <<>>
  <2>1. locked' = locked \cup Unblocked(w, all)
    BY <1>4 DEF UnlockLocked
  <2>2. \A u \in Unblocked(w, all) : u \in Threads /\ pc[u] \in Waiting /\ obj[u] = w
    BY <1>4, UnblockedFacts
  <2>3. \A x \in Words : Distinct(table'[x])
    BY DEF TableInv
  <2>4. \A u \in Threads, x \in Words :
           InQueue(table'[x], u) <=> pc'[u] \in Waiting /\ obj'[u] = x
    BY DEF TableInv, SameEntries
  <2>5. \A u \in locked' : pc'[u] \in Waiting
    BY <1>1, <2>1, <2>2 DEF TableInv, SameEntries
  <2>6. ASSUME NEW m \in Mutexes, NEW i \in DOMAIN table'[m], table'[m][i] \in locked'
        PROVE  i = 1
    <3>1. CASE table[m][i] \in locked
      BY <2>6, <3>1 DEF TableInv
    <3>2. CASE table[m][i] \in Unblocked(w, all)
      <4>1. m \in Words /\ InQueue(table[m], table[m][i])
        BY <2>6 DEF InQueue, Words
      <4>2. m = w
        BY <2>2, <3>2, <4>1 DEF TableInv
      <4>3. table[m][i] = table[m][1] /\ 1 \in DOMAIN table[m]
        <5>1. w \notin Conditions
          BY <4>2, UserMutexAssumption
        <5>2. Unblocked(w, all) = {table[w][1]}
          BY <1>4, <5>1, UnblockedFacts
        <5>3. 1 \in DOMAIN table[w]
          BY <1>1, <1>4
        <5> QED
          BY <3>2, <4>2, <5>2, <5>3
      <4> QED
        BY <2>6, <4>1, <4>3 DEF TableInv, Distinct
    <3> QED
      BY <2>1, <2>6, <3>1, <3>2
  <2>7. WaitingFlagInv'
    BY <1>2 DEF WaitingFlagInv
  <2> QED
    BY <2>3, <2>4, <2>5, <2>6, <2>7 DEF TableInv
<1> QED
  BY <1>3, <1>4

\* Taking the thread's own entry out.
LEMMA TableLeave ==
    ASSUME TypeOK, TableInv, WaitingFlagInv, NEW t \in Threads, NEW w \in Words,
           pc[t] \in Waiting, obj[t] = w, SameEntries(t), pc'[t] \notin Waiting,
           table' = [table EXCEPT ![w] = Dequeue(@, t)],
           word' = [word EXCEPT ![w] = FlagsLeft(@, Dequeue(table[w], t))],
           locked' = locked \ {t}
    PROVE  TableInv' /\ WaitingFlagInv'
<1>1. /\ table \in [Words -> Seq(Threads)] /\ word \in [Words -> SUBSET Flags]
      /\ locked \subseteq Threads
  BY DEF TypeOK
<1>2. InQueue(table[w], t) /\ Distinct(table[w]) /\ table[w] \in Seq(Threads)
  BY <1>1 DEF TableInv
<1>3. /\ \A u : InQueue(Dequeue(table[w], t), u) <=> u # t /\ InQueue(table[w], u)
      /\ Distinct(Dequeue(table[w], t))
  BY <1>2, DequeueFacts
<1>4. table'[w] = Dequeue(table[w], t) /\ \A x \in Words : x # w => table'[x] = table[x]
  BY <1>1
<1>5. \A x \in Words : Distinct(table'[x])
  BY <1>3, <1>4 DEF TableInv
<1>6. ASSUME NEW u \in Threads, NEW x \in Words
      PROVE  InQueue(table'[x], u) <=> pc'[u] \in Waiting /\ obj'[u] = x
  <2>1. CASE x = w
    BY <1>3, <1>4, <2>1 DEF TableInv, SameEntries
  <2>2. CASE x # w
    BY <1>4, <2>2 DEF TableInv, SameEntries
  <2> QED
    BY <2>1, <2>2
<1>7. \A u \in locked' : pc'[u] \in Waiting
  BY <1>1 DEF TableInv, SameEntries
<1>8. ASSUME NEW m \in Mutexes, NEW i \in DOMAIN table'[m], table'[m][i] \in locked'
      PROVE  i = 1
  <2>1. CASE m = w
    <3> DEFINE k == Position(table[m], t)
               n == Len(table[m])
    <3>1. /\ k \in 1 .. n /\ n \in Nat /\ n - 1 \in Nat /\ DOMAIN table[m] = 1 .. n
          /\ DOMAIN table'[m] = 1 .. (n - 1)
          /\ \A j \in 1 .. (n - 1) :
                table'[m][j] = IF j < k THEN table[m][j] ELSE table[m][j + 1]
      BY <1>2, <1>4, <2>1, DequeueType
    <3> HIDE DEF k, n
    <3>2. \A j \in 1 .. n : table[m][j] \in locked => j = 1
      BY <3>1 DEF TableInv
    <3>3. CASE i < k
      BY <1>8, <3>1, <3>2, <3>3
    <3>4. CASE ~(i < k)
      BY <1>8, <3>1, <3>2, <3>4
    <3> QED
      BY <3>3, <3>4
  <2>2. CASE m # w
    BY <1>4, <1>8, <2>2 DEF TableInv, Words
  <2> QED
    BY <2>1, <2>2
<1>9. WaitingFlagInv'
  <2>1. table[w] # <<>>
    BY <1>2 DEF InQueue
  <2>2. "WAITING" \in word[w]
    BY <2>1 DEF WaitingFlagInv
  <2>3. "WAITING" \in word'[w] <=> table'[w] # <<>>
    BY <1>1, <1>4, <2>2 DEF FlagsLeft
  <2>4. \A x \in Words : x # w => word'[x] = word[x]
    BY <1>1
  <2> QED
    BY <1>4, <2>3, <2>4 DEF WaitingFlagInv
<1> QED
  BY <1>5, <1>6, <1>7, <1>8, <1>9 DEF TableInv

LEMMA AcquiredLeaves ==
    ASSUME TypeOK, NEW t \in Threads, NEW m, Acquired(t, m)
    PROVE  SameEntries(t) /\ pc'[t] \in {"running", "done"}
  BY GoToEffect DEF Acquired, SameEntries

LEMMA ReturnsLeave ==
    ASSUME TypeOK, NEW t \in Threads, NEW w, NEW r, KernelLockReturns(t, w, r)
    PROVE  SameEntries(t) /\ pc'[t] \in {"running", "done", "relock", "lock"}
  BY GoToEffect, AcquiredLeaves DEF KernelLockReturns, SameEntries

LEMMA LockWordLeaves ==
    ASSUME TypeOK, NEW t \in Threads, NEW m, LockWord(t, m)
    PROVE  SameEntries(t) /\ pc'[t] \in {"running", "done", "lock"}
  BY GoToEffect, AcquiredLeaves DEF LockWord, SameEntries

LEMMA TableLock ==
    ASSUME TypeOK, TableInv, WaitingFlagInv, NEW t \in Threads, NEW w \in Words,
           pc[t] \notin Waiting, LockLocked(t, w), locked' = locked
    PROVE  TableInv' /\ WaitingFlagInv'
<1>1. CASE FreeInKernel(word[w])
  <2>1. /\ word[w] = {} /\ word' = [word EXCEPT ![w] = {"LOCKED"}] /\ table' = table
        /\ SameEntries(t) /\ pc'[t] \in {"running", "done", "relock", "lock"}
    BY <1>1, ReturnsLeave DEF LockLocked, FreeInKernel
  <2>2. \A x \in Words : "WAITING" \in word'[x] <=> "WAITING" \in word[x]
    BY <2>1 DEF TypeOK
  <2>3. pc'[t] \notin Waiting
    BY <2>1 DEF Waiting
  <2> QED
    BY <2>1, <2>2, <2>3, TableFrame
<1>2. CASE ~FreeInKernel(word[w])
  <2>1. /\ word' = [word EXCEPT ![w] = Flags] /\ table' = [table EXCEPT ![w] = Append(@, t)]
        /\ SameEntries(t) /\ pc'[t] = "added" /\ obj'[t] = w
    BY <1>2, GoToEffect DEF LockLocked, SameEntries
  <2> QED
    BY <2>1, TableEnter DEF Waiting
<1> QED
  BY <1>1, <1>2

LEMMA TableInvStep ==
    ASSUME TypeOK, PlaceInv, TableInv, WaitingFlagInv, [Next]_vars
    PROVE  TableInv' /\ WaitingFlagInv'
<1>1. word \in [Words -> SUBSET Flags] /\ Mutexes \subseteq Words /\ Conditions \subseteq Words
  BY DEF TypeOK, Words
<1>2. ASSUME NEW t \in Threads, user_mutex_lock(t) \/ user_mutex_switch_lock(t)
      PROVE  TableInv' /\ WaitingFlagInv'
  <2>1. obj[t] \in Words /\ pc[t] \notin Waiting
    BY <1>1, <1>2 DEF user_mutex_lock, user_mutex_switch_lock, PlaceInv, PlaceOf, Waiting
  <2> QED
    BY <1>2, <2>1, TableLock DEF user_mutex_lock, user_mutex_switch_lock
<1>3. ASSUME NEW t \in Threads, user_mutex_switch_unlock(t)
      PROVE  TableInv' /\ WaitingFlagInv'
  <2>1. /\ pc[t] = "switch" /\ UnlockLocked(call[t].mutex, FALSE) /\ table' = table
        /\ call[t].mutex \in Words /\ SameEntries(t) /\ pc'[t] = "switch_lock"
    BY <1>1, <1>3, GoToEffect
       DEF user_mutex_switch_unlock, PlaceInv, PlaceOf, Undisturbed, SameEntries
  <2> QED
    BY <2>1, TableUnblock DEF Waiting
<1>4. ASSUME NEW t \in Threads, user_mutex_unlock(t)
      PROVE  TableInv' /\ WaitingFlagInv'
  <2>1. /\ pc[t] \in {"unlock", "signal", "broadcast"}
        /\ UnlockLocked(obj[t], pc[t] = "broadcast") /\ table' = table
        /\ obj[t] \in Words /\ SameEntries(t) /\ pc'[t] = "running"
    BY <1>1, <1>4, GoToEffect DEF user_mutex_unlock, PlaceInv, PlaceOf, SameEntries
  <2>2. (pc[t] = "broadcast") = FALSE \/ obj[t] \in Conditions
    BY <2>1 DEF PlaceInv, PlaceOf
  <2>3. pc[t] \notin Waiting /\ pc'[t] \notin Waiting
    BY <2>1 DEF Waiting
  <2> QED
    BY <2>1, <2>2, <2>3, TableUnblock
<1>5. ASSUME NEW t \in Threads, user_mutex_lock_end(t)
      PROVE  TableInv' /\ WaitingFlagInv'
  <2> PICK w \in Words : obj[t] = w
    BY <1>5 DEF user_mutex_lock_end, PlaceInv, PlaceOf, Waiting
  <2>1. /\ pc[t] = "dequeue" /\ locked' = locked \ {t}
        /\ table' = [table EXCEPT ![w] = Dequeue(@, t)]
        /\ word' = [word EXCEPT ![w] = FlagsLeft(@, Dequeue(table[w], t))]
        /\ SameEntries(t) /\ pc'[t] \in {"running", "done", "relock", "lock"}
    <3>1. /\ pc[t] = "dequeue" /\ locked' = locked \ {t}
          /\ table' = [table EXCEPT ![w] = Dequeue(table[w], t)]
          /\ word' = [word EXCEPT ![w] = FlagsLeft(@, Dequeue(table[w], t))]
          /\ \E r : KernelLockReturns(t, w, r)
      BY <1>5 DEF user_mutex_lock_end
    <3> QED
      BY <3>1, ReturnsLeave
  <2>2. pc'[t] \notin Waiting /\ pc[t] \in Waiting
    BY <2>1 DEF Waiting
  <2> QED
    BY <2>1, <2>2, TableLeave
<1>6. ASSUME NEW t \in Threads, wait_notified(t) \/ wait_blocks(t) \/ wait_ends(t)
      PROVE  TableInv' /\ WaitingFlagInv'
  <2>1. /\ SameEntries(t) /\ pc[t] \in Waiting /\ pc'[t] \in Waiting /\ obj'[t] = obj[t]
        /\ UNCHANGED <<word, table, locked>>
    BY <1>6, GoToEffect
       DEF wait_notified, wait_blocks, wait_ends, SameEntries, Waiting, wordVars
  <2> QED
    BY <2>1, TableFrame
<1>7. ASSUME NEW t \in Threads,
             \/ wait_given_up(t)
             \/ \E m \in Mutexes : pthread_mutex_lock_again(t, m) \/ pthread_mutex_unlock_inner(t, m)
      PROVE  TableInv' /\ WaitingFlagInv'
  <2>1. UNCHANGED <<word, table, locked, pc, obj>>
    BY <1>7 DEF wait_given_up, pthread_mutex_lock_again, pthread_mutex_unlock_inner, wordVars
  <2> QED
    BY <2>1, TableFrame DEF SameEntries
<1>8. ASSUME NEW t \in Threads, NEW x \in Words, NEW f,
             word' = [word EXCEPT ![x] = f], "WAITING" \in f <=> "WAITING" \in word[x],
             UNCHANGED <<table, locked>>, SameEntries(t),
             pc[t] \in {"running", "relock", "done"},
             \/ pc'[t] \in {"running", "done", "lock", "unlock", "switch"}
      PROVE  TableInv' /\ WaitingFlagInv'
  <2>1. \A w \in Words : "WAITING" \in word'[w] <=> "WAITING" \in word[w]
    BY <1>1, <1>8
  <2>2. pc[t] \notin Waiting /\ pc'[t] \notin Waiting
    BY <1>8 DEF Waiting
  <2> QED
    BY <1>8, <2>1, <2>2, TableFrame
<1>9. ASSUME NEW t \in Threads, NEW m \in Mutexes, LockWord(t, m), pc[t] \in {"running", "relock"}
      PROVE  TableInv' /\ WaitingFlagInv'
  <2>1. /\ word' = [word EXCEPT ![m] = word[m] \cup {"LOCKED"}] /\ UNCHANGED <<table, locked>>
        /\ SameEntries(t) /\ pc'[t] \in {"running", "done", "lock"}
    BY <1>9, LockWordLeaves DEF LockWord
  <2> QED
    BY <1>1, <1>8, <1>9, <2>1
<1>10. ASSUME NEW t \in Threads, cond_wait_relock(t)
       PROVE  TableInv' /\ WaitingFlagInv'
  <2>1. call[t].mutex \in Mutexes
    BY <1>10 DEF cond_wait_relock, PlaceInv, PlaceOf, Undisturbed
  <2> QED
    BY <1>9, <1>10, <2>1 DEF cond_wait_relock
<1>11. ASSUME NEW t \in Threads, NEW m \in Mutexes, pthread_mutex_trylock(t, m)
       PROVE  TableInv' /\ WaitingFlagInv'
  <2>1. /\ word' = [word EXCEPT ![m] = word[m] \cup {"LOCKED"}] /\ UNCHANGED <<table, locked>>
        /\ pc[t] = "running" /\ SameEntries(t) /\ pc'[t] \in {"running", "done"}
    BY <1>11, AcquiredLeaves DEF pthread_mutex_trylock, SameEntries
  <2> QED
    BY <1>1, <1>8, <2>1
<1>12. ASSUME NEW t \in Threads, NEW m \in Mutexes, pthread_mutex_unlock(t, m)
       PROVE  TableInv' /\ WaitingFlagInv'
  <2>1. /\ word' = [word EXCEPT ![m] = word[m] \ {"LOCKED"}] /\ UNCHANGED <<table, locked>>
        /\ pc[t] = "running" /\ SameEntries(t) /\ pc'[t] \in {"running", "unlock"}
    BY <1>12, GoToEffect DEF pthread_mutex_unlock, SameEntries
  <2> QED
    BY <1>1, <1>8, <2>1
<1>13. ASSUME NEW t \in Threads, NEW m \in Mutexes, NEW c \in Conditions, cond_wait(t, c, m)
       PROVE  TableInv' /\ WaitingFlagInv'
  <2>1. /\ word' = [word EXCEPT ![c] = word[c] \cup {"LOCKED"}] /\ UNCHANGED <<table, locked>>
        /\ pc[t] = "running" /\ SameEntries(t) /\ pc'[t] = "switch"
    BY <1>13, GoToEffect DEF cond_wait, SameEntries
  <2> QED
    BY <1>1, <1>8, <2>1
<1>14. ASSUME NEW t \in Threads,
              \/ cond_wait_end(t)
              \/ \E c \in Conditions, kind \in {"signal", "broadcast"} : cond_signal(t, c, kind)
       PROVE  TableInv' /\ WaitingFlagInv'
  <2>1. /\ UNCHANGED <<word, table, locked>> /\ SameEntries(t)
        /\ pc[t] \in {"running", "done"} /\ pc'[t] \in {"running", "signal", "broadcast"}
    BY <1>14, GoToEffect DEF cond_wait_end, cond_signal, SameEntries, wordVars
  <2>2. pc[t] \notin Waiting /\ pc'[t] \notin Waiting
    BY <2>1 DEF Waiting
  <2> QED
    BY <2>1, <2>2, TableFrame
<1>15. ASSUME UNCHANGED vars
       PROVE  TableInv' /\ WaitingFlagInv'
  BY <1>15 DEF vars, wordVars, TableInv, WaitingFlagInv
<1> QED
  BY <1>2, <1>3, <1>4, <1>5, <1>6, <1>7, <1>9, <1>10, <1>11, <1>12, <1>13, <1>14, <1>15
     DEF Next, TableStep, CallStep, pthread_mutex_lock

-----------------------------------------------------------------------------
(***************************************************************************)
(* The entries' condition variables, and the results of waits.             *)
(***************************************************************************)

\* Steps of a thread that has no entry in the table, or takes it out.
LEMMA EntryFrame ==
    ASSUME TypeOK, EntryInv, NEW t \in Threads, SameEntries(t),
           pc[t] \notin {"added", "blocked"}, pc'[t] \notin Waiting,
           UNCHANGED conditionVars,
           \A u \in Threads : u # t =>
               (u \in locked' <=> u \in locked) /\ error'[u] = error[u]
    PROVE  EntryInv'
<1>1. EntryOf(t)'
  BY DEF EntryInv, EntryOf, conditionVars, Waiting
<1>2. ASSUME NEW u \in Threads, u # t PROVE EntryOf(u)'
  <2>1. EntryOf(u) /\ pc'[u] = pc[u] /\ obj'[u] = obj[u]
    BY <1>2 DEF EntryInv, SameEntries
  <2>2. UNCHANGED <<fEntries, fVariable, fWaitStatus, wait_status>>
    BY DEF conditionVars
  <2>3. EarlyResults(obj[u])' = EarlyResults(obj[u])
    BY <2>1 DEF EarlyResults
  <2> QED
    BY <1>2, <2>1, <2>2, <2>3 DEF EntryOf
<1> QED
  BY <1>1, <1>2 DEF EntryInv

\* A thread that stays in its wait, while the others are left alone.
LEMMA EntryWait ==
    ASSUME TypeOK, EntryInv, NEW t \in Threads, SameEntries(t), EntryOf(t)', locked' = locked,
           \A u \in Threads : u # t =>
               /\ fEntries'[u] = fEntries[u] /\ fVariable'[u] = fVariable[u]
               /\ fWaitStatus'[u] = fWaitStatus[u] /\ wait_status'[u] = wait_status[u]
               /\ error'[u] = error[u]
    PROVE  EntryInv'
<1>2. ASSUME NEW u \in Threads, u # t PROVE EntryOf(u)'
  <2>1. EntryOf(u) /\ pc'[u] = pc[u] /\ obj'[u] = obj[u]
    BY <1>2 DEF EntryInv, SameEntries
  <2>3. EarlyResults(obj[u])' = EarlyResults(obj[u])
    BY <2>1 DEF EarlyResults
  <2> QED
    BY <1>2, <2>1, <2>3 DEF EntryOf
<1> QED
  BY <1>2 DEF EntryInv

LEMMA EntryAdd ==
    ASSUME TypeOK, EntryInv, NEW t \in Threads, NEW w, pc[t] \notin {"added", "blocked"},
           Add(t, t), GoTo(t, "added", w), UNCHANGED <<locked, error>>
    PROVE  EntryInv'
<1>1. SameEntries(t) /\ pc'[t] = "added"
  BY GoToEffect DEF SameEntries
<1>2. /\ fEntries \in [Threads -> Seq(Threads)] /\ fVariable \in [Threads -> Threads \cup {NoVariable}]
      /\ fWaitStatus \in [Threads -> EntryStatus]
  BY ThreadsFinite DEF TypeOK, ConditionTypeOK
<1>3. fEntries[t] = <<>>
  BY DEF EntryInv, EntryOf
<1>4. fEntries'[t] = <<t>> /\ fVariable'[t] = t
  BY <1>2, <1>3 DEF Add
<1>5. EntryOf(t)'
  BY <1>1, <1>4 DEF EntryOf
<1> QED
  BY <1>1, <1>2, <1>5, EntryWait DEF Add

LEMMA EntryUnlock ==
    ASSUME TypeOK, TableInv, EntryInv, NEW t \in Threads, NEW w \in Words, NEW all,
           UnlockLocked(w, all), SameEntries(t), pc[t] \notin Waiting, pc'[t] \notin Waiting,
           error' = error
    PROVE  EntryInv'
<1>1. CASE table[w] = <<>>
  <2>1. UNCHANGED <<locked, conditionVars>> /\ pc[t] \notin {"added", "blocked"}
    BY <1>1 DEF UnlockLocked, Waiting
  <2> QED
    BY <2>1, EntryFrame
<1>2. CASE table[w] # <<>>
  <2> DEFINE T == {v \in Unblocked(w, all) : fVariable[v] = v}
  <2>1. /\ locked' = locked \cup Unblocked(w, all)
        /\ Notify(T, "B_OK")
    BY <1>2, NotifiedAreUnblocked DEF UnlockLocked
  <2>2. \A u \in Unblocked(w, all) : u \in Threads /\ pc[u] \in Waiting
    BY <1>2, UnblockedFacts
  <2>3. t \notin T /\ T \subseteq Threads /\ T \subseteq locked' /\ \A v \in T : fVariable[v] = v
    BY <2>1, <2>2
  <2> HIDE DEF T
  <2>4. ASSUME NEW u \in Threads
        PROVE  fEntries'[u] = IF u \in T THEN <<>> ELSE fEntries[u]
    <3>1. fEntries'[u] = Unnotified(fEntries[u], T)
      BY <2>1, ThreadsFinite DEF Notify
    <3>2. CASE fEntries[u] = <<>>
      BY <3>1, <3>2 DEF Unnotified
    <3>3. CASE fEntries[u] # <<>>
      <4>1. fEntries[u] = <<u>>
        BY <3>3 DEF EntryInv, EntryOf
      <4>2. DOMAIN fEntries[u] = {1} /\ fEntries[u][1] = u /\ Head(fEntries[u]) = u
        BY <4>1
      <4> QED
        BY <3>1, <4>2 DEF Unnotified
    <3> QED
      BY <3>2, <3>3
  <2>5. ASSUME NEW u \in Threads
        PROVE  /\ fVariable'[u] = IF u \in T THEN NoVariable ELSE fVariable[u]
               /\ fWaitStatus'[u] = IF u \in T THEN "B_OK" ELSE fWaitStatus[u]
               /\ u \notin T => wait_status'[u] = wait_status[u]
    <3>1. u \in DOMAIN wait_status
      BY DEF TypeOK, ConditionTypeOK
    <3> QED
      BY <2>1, <3>1 DEF Notify, thread_unblock_each
  <2>6. ASSUME NEW u \in Threads, u # t PROVE EntryOf(u)'
    <3>1. EntryOf(u) /\ pc'[u] = pc[u] /\ obj'[u] = obj[u]
      BY <2>6 DEF EntryInv, SameEntries
    <3>2. EarlyResults(obj[u])' = EarlyResults(obj[u])
      BY <3>1 DEF EarlyResults
    <3>3. CASE u \in T
      <4>1. fVariable'[u] = NoVariable /\ fEntries'[u] = <<>> /\ fWaitStatus'[u] = "B_OK"
            /\ u \in locked'
        BY <2>3, <2>4, <2>5, <3>3
      <4> QED
        BY <4>1 DEF EntryOf
    <3>4. CASE u \notin T
      <4>1. /\ fVariable'[u] = fVariable[u] /\ fEntries'[u] = fEntries[u]
            /\ fWaitStatus'[u] = fWaitStatus[u] /\ wait_status'[u] = wait_status[u]
            /\ (u \in locked => u \in locked') /\ error'[u] = error[u]
        BY <2>1, <2>4, <2>5, <3>4
      <4> QED
        BY <3>1, <3>2, <4>1 DEF EntryOf
    <3> QED
      BY <3>3, <3>4
  <2>7. EntryOf(t)'
    <3>1. fVariable[t] = NoVariable /\ fEntries[t] = <<>>
      BY DEF EntryInv, EntryOf, Waiting
    <3>2. fVariable'[t] = NoVariable /\ fEntries'[t] = <<>>
      BY <2>3, <2>4, <2>5, <3>1
    <3> QED
      BY <3>2 DEF EntryOf, Waiting
  <2> QED
    BY <2>6, <2>7 DEF EntryInv
<1> QED
  BY <1>1, <1>2

\* Looking at the entry, and sleeping.
LEMMA EntryWaits ==
    ASSUME TypeOK, EntryInv, NEW t \in Threads,
           wait_notified(t) \/ wait_blocks(t) \/ wait_ends(t) \/ wait_given_up(t)
    PROVE  EntryInv'
<1>1. /\ fEntries \in [Threads -> Seq(Threads)]
      /\ fVariable \in [Threads -> Threads \cup {NoVariable}]
      /\ fWaitStatus \in [Threads -> EntryStatus] /\ wait_status \in [Threads -> WaitStatus]
      /\ error \in [Threads -> WaitStatus]
  BY ThreadsFinite DEF TypeOK, ConditionTypeOK
<1>2. EntryOf(t) /\ NoVariable # t
  BY NoVariableOutside DEF EntryInv
<1>3. CASE wait_notified(t)
  <2>1. /\ pc[t] = "added" /\ fVariable[t] = NoVariable
        /\ error' = [error EXCEPT ![t] = fWaitStatus[t]]
        /\ UNCHANGED <<fEntries, fVariable, fWaitStatus, wait_status, locked>>
    BY <1>3 DEF wait_notified, WaitReturns, Detached, wordVars, conditionVars
  <2>2. pc'[t] = "dequeue" /\ SameEntries(t)
    BY <1>3, GoToEffect DEF wait_notified, SameEntries
  <2>3. EntryOf(t)'
    <3>1. fEntries[t] = <<>> /\ t \in locked
      BY <1>2, <2>1 DEF EntryOf
    <3> QED
      BY <2>1, <2>2, <3>1 DEF EntryOf
  <2> QED
    BY <1>1, <2>1, <2>2, <2>3, EntryWait
<1>4. CASE wait_blocks(t)
  <2>1. /\ pc[t] = "added" /\ fVariable[t] # NoVariable
        /\ wait_status' = [wait_status EXCEPT ![t] = "waiting"]
        /\ fWaitStatus' = [fWaitStatus EXCEPT ![t] = "STATUS_WAITING"]
        /\ UNCHANGED <<fEntries, fVariable, error, locked>>
    BY <1>4 DEF wait_blocks, WaitBlocks, WaitReturns, Detached, thread_prepare_to_block, wordVars
  <2>2. pc'[t] = "blocked" /\ SameEntries(t)
    BY <1>4, GoToEffect DEF wait_blocks, SameEntries
  <2>3. EntryOf(t)'
    <3>1. fVariable[t] = t /\ fEntries[t] = <<t>>
      BY <1>2, <2>1 DEF EntryOf
    <3>2. wait_status'[t] = "waiting"
      BY <1>1, <2>1
    <3> QED
      BY <2>1, <2>2, <3>1, <3>2 DEF EntryOf
  <2> QED
    BY <1>1, <2>1, <2>2, <2>3, EntryWait
<1>5. CASE wait_ends(t)
  <2>1. /\ pc[t] = "blocked" /\ wait_status[t] # "waiting"
        /\ error' = [error EXCEPT ![t] = wait_status[t]]
        /\ fVariable' = [fVariable EXCEPT ![t] = NoVariable]
        /\ fWaitStatus' = [fWaitStatus EXCEPT ![t] = "B_OK"]
        /\ wait_status' = [wait_status EXCEPT ![t] = "B_OK"]
        /\ fEntries' = IF fVariable[t] = NoVariable THEN fEntries
                       ELSE [fEntries EXCEPT ![fVariable[t]] = Dequeue(@, t)]
        /\ UNCHANGED locked
    BY <1>5 DEF wait_ends, WaitEnds, thread_is_blocked, Detached, wordVars
  <2>2. pc'[t] = "dequeue" /\ obj'[t] = obj[t] /\ SameEntries(t)
    BY <1>5, GoToEffect DEF wait_ends, SameEntries
  <2>3. fEntries'[t] = <<>> /\ \A u \in Threads : u # t => fEntries'[u] = fEntries[u]
    <3>1. CASE fVariable[t] = NoVariable
      BY <1>2, <2>1, <3>1 DEF EntryOf
    <3>2. CASE fVariable[t] # NoVariable
      <4>1. fVariable[t] = t /\ fEntries[t] = <<t>>
        BY <1>2, <3>2 DEF EntryOf
      <4>2. Dequeue(<<t>>, t) = <<>>
        BY DEF Dequeue
      <4> QED
        BY <1>1, <2>1, <3>2, <4>1, <4>2
    <3> QED
      BY <3>1, <3>2
  <2>4. EntryOf(t)'
    <3>1. error'[t] = wait_status[t] /\ fVariable'[t] = NoVariable
      BY <1>1, <2>1
    <3>2. t \notin locked => wait_status[t] \in EarlyResults(obj[t])
      BY <1>2, <2>1 DEF EntryOf
    <3>3. EarlyResults(obj[t])' = EarlyResults(obj[t])
      BY <2>2 DEF EarlyResults
    <3> QED
      BY <2>1, <2>2, <2>3, <3>1, <3>2, <3>3 DEF EntryOf
  <2> QED
    BY <1>1, <2>1, <2>2, <2>3, <2>4, EntryWait
<1>6. CASE wait_given_up(t)
  <2>1. /\ pc[t] = "blocked"
        /\ \E s \in EarlyResults(obj[t]) : wait_status' = [wait_status EXCEPT ![t] = s]
        /\ UNCHANGED <<pc, obj, error, fEntries, fVariable, fWaitStatus, locked>>
    BY <1>6 DEF wait_given_up, thread_unblock_locked, thread_is_blocked, wordVars
  <2>2. SameEntries(t)
    BY <2>1 DEF SameEntries
  <2>3. EntryOf(t)'
    <3>1. wait_status'[t] \in EarlyResults(obj[t])
      BY <1>1, <2>1
    <3>2. EarlyResults(obj[t])' = EarlyResults(obj[t])
      BY <2>1 DEF EarlyResults
    <3> QED
      BY <1>2, <2>1, <3>1, <3>2 DEF EntryOf
  <2> QED
    BY <1>1, <2>1, <2>2, <2>3, EntryWait
<1> QED
  BY <1>3, <1>4, <1>5, <1>6

LEMMA EntryStep ==
    ASSUME TypeOK, PlaceInv, TableInv, EntryInv, [Next]_vars
    PROVE  EntryInv'
<1>1. ASSUME NEW t \in Threads, user_mutex_lock(t) \/ user_mutex_switch_lock(t)
      PROVE  EntryInv'
  <2>1. /\ pc[t] \in {"lock", "switch_lock"} /\ LockLocked(t, obj[t])
        /\ UNCHANGED <<locked, error>>
    BY <1>1 DEF user_mutex_lock, user_mutex_switch_lock
  <2>2. CASE KernelLockReturns(t, obj[t], "B_OK") /\ UNCHANGED conditionVars
    <3>1. SameEntries(t) /\ pc'[t] \in {"running", "done", "relock", "lock"}
      BY <2>2, ReturnsLeave
    <3>2. pc'[t] \notin Waiting
      BY <3>1 DEF Waiting
    <3> QED
      BY <2>1, <2>2, <3>1, <3>2, EntryFrame
  <2>3. CASE Add(t, t) /\ GoTo(t, "added", obj[t])
    BY <2>1, <2>3, EntryAdd
  <2> QED
    BY <2>1, <2>2, <2>3 DEF LockLocked
<1>2. ASSUME NEW t \in Threads, user_mutex_switch_unlock(t) PROVE EntryInv'
  <2>1. /\ pc[t] = "switch" /\ UnlockLocked(call[t].mutex, FALSE) /\ error' = error
        /\ call[t].mutex \in Words /\ SameEntries(t) /\ pc'[t] = "switch_lock"
    BY <1>2, GoToEffect
       DEF user_mutex_switch_unlock, PlaceInv, PlaceOf, Undisturbed, SameEntries, Words
  <2> QED
    BY <2>1, EntryUnlock DEF Waiting
<1>3. ASSUME NEW t \in Threads, user_mutex_unlock(t) PROVE EntryInv'
  <2>1. /\ pc[t] \in {"unlock", "signal", "broadcast"}
        /\ UnlockLocked(obj[t], pc[t] = "broadcast") /\ error' = error
        /\ obj[t] \in Words /\ SameEntries(t) /\ pc'[t] = "running"
    BY <1>3, GoToEffect DEF user_mutex_unlock, PlaceInv, PlaceOf, SameEntries, Words
  <2>2. pc[t] \notin Waiting /\ pc'[t] \notin Waiting
    BY <2>1 DEF Waiting
  <2> QED
    BY <2>1, <2>2, EntryUnlock
<1>4. ASSUME NEW t \in Threads, user_mutex_lock_end(t) PROVE EntryInv'
  <2>1. /\ pc[t] = "dequeue" /\ locked' = locked \ {t}
        /\ error' = [error EXCEPT ![t] = "B_OK"] /\ UNCHANGED conditionVars
        /\ \E r : KernelLockReturns(t, obj[t], r)
    BY <1>4 DEF user_mutex_lock_end
  <2>2. SameEntries(t) /\ pc'[t] \in {"running", "done", "relock", "lock"}
    BY <2>1, ReturnsLeave
  <2>3. pc'[t] \notin Waiting
    BY <2>2 DEF Waiting
  <2>4. \A u \in Threads : u # t => (u \in locked' <=> u \in locked) /\ error'[u] = error[u]
    BY <2>1 DEF TypeOK
  <2> QED
    BY <2>1, <2>2, <2>3, <2>4, EntryFrame
<1>5. ASSUME NEW t \in Threads,
             wait_notified(t) \/ wait_blocks(t) \/ wait_ends(t) \/ wait_given_up(t)
      PROVE  EntryInv'
  BY <1>5, EntryWaits
<1>6. ASSUME NEW t \in Threads, NEW m \in Mutexes, LockWord(t, m),
             pc[t] \in {"running", "relock"}
      PROVE  EntryInv'
  <2>1. SameEntries(t) /\ pc'[t] \in {"running", "done", "lock"}
    BY <1>6, LockWordLeaves
  <2>2. pc'[t] \notin Waiting
    BY <2>1 DEF Waiting
  <2> QED
    BY <1>6, <2>1, <2>2, EntryFrame DEF LockWord
<1>7. ASSUME NEW t \in Threads, cond_wait_relock(t) PROVE EntryInv'
  <2>1. call[t].mutex \in Mutexes
    BY <1>7 DEF cond_wait_relock, PlaceInv, PlaceOf, Undisturbed
  <2> QED
    BY <1>6, <1>7, <2>1 DEF cond_wait_relock
<1>8. ASSUME NEW t \in Threads,
             \/ \E m \in Mutexes :
                   \/ pthread_mutex_trylock(t, m)
                   \/ pthread_mutex_unlock(t, m)
                   \/ pthread_mutex_lock_again(t, m) \/ pthread_mutex_unlock_inner(t, m)
                   \/ \E c \in Conditions : cond_wait(t, c, m)
             \/ cond_wait_end(t)
             \/ \E c \in Conditions, kind \in {"signal", "broadcast"} : cond_signal(t, c, kind)
      PROVE  EntryInv'
  <2>1. /\ UNCHANGED <<locked, error, conditionVars>>
        /\ pc[t] \in {"running", "done"}
    BY <1>8 DEF pthread_mutex_trylock, pthread_mutex_unlock, pthread_mutex_lock_again,
                pthread_mutex_unlock_inner, cond_wait, cond_wait_end, cond_signal, wordVars
  <2>2. SameEntries(t) /\ pc'[t] \in {"running", "done", "unlock", "switch", "signal", "broadcast"}
    <3>1. \/ \E m \in Mutexes : Acquired(t, m)
          \/ \E p \in {"unlock", "switch", "running", "signal", "broadcast"} : \E w : GoTo(t, p, w)
          \/ UNCHANGED <<pc, obj>>
      BY <1>8 DEF pthread_mutex_trylock, pthread_mutex_unlock, pthread_mutex_lock_again,
                  pthread_mutex_unlock_inner, cond_wait, cond_wait_end, cond_signal
    <3> QED
      BY <2>1, <3>1, GoToEffect, AcquiredLeaves DEF SameEntries
  <2>3. pc'[t] \notin Waiting
    BY <2>2 DEF Waiting
  <2> QED
    BY <2>1, <2>2, <2>3, EntryFrame
<1>9. ASSUME UNCHANGED vars PROVE EntryInv'
  BY <1>9 DEF vars, conditionVars, wordVars, EntryInv, EntryOf, EarlyResults
<1> QED
  BY <1>1, <1>2, <1>3, <1>4, <1>5, <1>6, <1>7, <1>8, <1>9
     DEF Next, TableStep, CallStep, pthread_mutex_lock

-----------------------------------------------------------------------------
(***************************************************************************)
(* The waiters of a condition variable.                                    *)
(***************************************************************************)

Waiters(c) == {t \in Threads : call[t] # NoCall /\ call[t].cond = c}

CountOf(c) ==
    /\ waiter_count[c] = Cardinality(Waiters(c))
    /\ \A t \in Waiters(c) : call[t].mutex = cond_mutex[c]

\* Who sleeps in a condition variable is in cond_wait() with it.
LEMMA CountedParts ==
    PlaceInv => (WaitersCounted <=> \A c \in Conditions : CountOf(c))
<1> SUFFICES ASSUME PlaceInv
             PROVE  WaitersCounted <=> \A c \in Conditions : CountOf(c)
  OBVIOUS
<1>1. ASSUME NEW c \in Conditions, NEW t \in Threads, Asleep(t, c) PROVE t \in Waiters(c)
  <2>1. obj[t] = c /\ pc[t] \in {"added", "blocked"}
    BY <1>1 DEF Asleep
  <2> QED
    BY <2>1 DEF PlaceInv, PlaceOf, InCondWait, Waiting, Waiters
<1> QED
  BY <1>1 DEF WaitersCounted, CountOf, Waiters

LEMMA CountedStep ==
    ASSUME TypeOK, PlaceInv, WaitersCounted, PlaceInv', [Next]_vars
    PROVE  WaitersCounted'
<1>1. \A c \in Conditions : CountOf(c)
  BY CountedParts
<1>2. SUFFICES ASSUME NEW c \in Conditions PROVE CountOf(c)'
  <2>1. (PlaceInv => (WaitersCounted <=> \A c \in Conditions : CountOf(c)))'
    BY CountedParts, PTL
  <2> QED
    BY <2>1
<1>3. /\ call \in [Threads -> [mutex : Mutexes, cond : Conditions] \cup {NoCall}]
      /\ waiter_count \in [Conditions -> Nat]
      /\ cond_mutex \in [Conditions -> Mutexes \cup {NoWord}]
  BY DEF TypeOK
<1>4. CASE UNCHANGED <<call, waiter_count, cond_mutex>>
  <2>1. Waiters(c)' = Waiters(c)
    BY <1>4 DEF Waiters
  <2> QED
    BY <1>1, <1>4, <2>1 DEF CountOf
<1>5. ASSUME NEW t \in Threads, NEW m \in Mutexes, NEW d \in Conditions, cond_wait(t, d, m)
      PROVE  CountOf(c)'
  <2>1. /\ ~InCondWait(t) /\ cond_mutex[d] \in {NoWord, m}
        /\ cond_mutex' = [cond_mutex EXCEPT ![d] = m]
        /\ waiter_count' = [waiter_count EXCEPT ![d] = @ + 1]
        /\ call' = [call EXCEPT ![t] = [mutex |-> m, cond |-> d]]
    BY <1>5 DEF cond_wait, PlaceInv, PlaceOf
  <2>2. [mutex |-> m, cond |-> d] # NoCall
    BY UserMutexAssumption
  <2>3. \A u \in Threads : u # t => call'[u] = call[u]
    BY <1>3, <2>1
  <2>4. call'[t] # NoCall /\ call'[t].mutex = m /\ call'[t].cond = d
    BY <1>3, <2>1, <2>2
  <2>5. CASE c # d
    <3>1. Waiters(c)' = Waiters(c)
      BY <2>1, <2>3, <2>4, <2>5 DEF Waiters, InCondWait
    <3>2. t \notin Waiters(c)
      BY <2>1 DEF Waiters, InCondWait
    <3> QED
      BY <1>1, <1>3, <2>1, <2>3, <2>5, <3>1, <3>2 DEF CountOf, Waiters
  <2>6. CASE c = d
    <3>1. /\ Waiters(c) \in SUBSET Threads /\ Waiters(c)' \in SUBSET Threads
          /\ \A u \in Threads : u # t => (u \in Waiters(c)' <=> u \in Waiters(c))
          /\ t \in Waiters(c)' /\ t \notin Waiters(c)
      BY <2>1, <2>3, <2>4, <2>6 DEF Waiters, InCondWait
    <3>2. Cardinality(Waiters(c)') = Cardinality(Waiters(c)) + 1
      <4>1. Cardinality(Waiters(c)) \in Nat
        BY <3>1, ThreadsFinite, FS_Subset, FS_CardinalityType
      <4>2. Cardinality(Waiters(c)') = Cardinality(Waiters(c)) + 1 - 0
        BY <3>1, ThreadsFinite, CardOne
      <4> QED
        BY <4>1, <4>2
    <3>3. waiter_count'[c] = Cardinality(Waiters(c)')
      BY <1>1, <1>3, <2>1, <2>6, <3>2 DEF CountOf
    <3>4. ASSUME NEW u \in Waiters(c)' PROVE call'[u].mutex = cond_mutex'[c]
      <4>1. cond_mutex'[c] = m
        BY <1>3, <2>1, <2>6
      <4>2. CASE u = t
        BY <2>4, <4>1, <4>2
      <4>3. CASE u # t
        <5>1. u \in Threads /\ u \in Waiters(c)
          BY <3>1, <4>3
        <5>2. call[u] \in [mutex : Mutexes, cond : Conditions]
          BY <1>3, <5>1 DEF Waiters
        <5>3. cond_mutex[c] \in Mutexes
          BY <1>1, <5>1, <5>2 DEF CountOf
        <5>4. cond_mutex[c] = m
          BY <2>1, <2>6, <5>3, UserMutexAssumption DEF Words
        <5> QED
          BY <1>1, <2>3, <4>1, <4>3, <5>1, <5>4 DEF CountOf
      <4> QED
        BY <4>2, <4>3
    <3> QED
      BY <3>3, <3>4 DEF CountOf
  <2> QED
    BY <2>5, <2>6
<1>6. ASSUME NEW t \in Threads, cond_wait_end(t) PROVE CountOf(c)'
  <2> DEFINE d == call[t].cond
  <2>1. /\ pc[t] = "done"
        /\ waiter_count' = [waiter_count EXCEPT ![d] = @ - 1]
        /\ cond_mutex' = [cond_mutex EXCEPT ![d] = MutexLeft(@, waiter_count'[d])]
        /\ call' = [call EXCEPT ![t] = NoCall]
    BY <1>6 DEF cond_wait_end
  <2>2. call[t] # NoCall /\ d \in Conditions
    BY <1>3, <2>1 DEF PlaceInv, PlaceOf, InCondWait
  <2>3. call'[t] = NoCall /\ \A u \in Threads : u # t => call'[u] = call[u]
    BY <1>3, <2>1
  <2>4. CASE c # d
    <3>1. Waiters(c)' = Waiters(c) /\ t \notin Waiters(c)
      BY <2>2, <2>3, <2>4 DEF Waiters
    <3>2. waiter_count'[c] = waiter_count[c] /\ cond_mutex'[c] = cond_mutex[c]
      BY <1>3, <2>1, <2>4
    <3> QED
      BY <1>1, <2>3, <3>1, <3>2 DEF CountOf, Waiters
  <2>5. CASE c = d
    <3>1. /\ Waiters(c) \in SUBSET Threads /\ Waiters(c)' \in SUBSET Threads
          /\ \A u \in Threads : u # t => (u \in Waiters(c)' <=> u \in Waiters(c))
          /\ t \notin Waiters(c)' /\ t \in Waiters(c)
      BY <2>2, <2>3, <2>5 DEF Waiters
    <3>2. Cardinality(Waiters(c)') = Cardinality(Waiters(c)) - 1
      <4>1. Cardinality(Waiters(c)) \in Nat
        BY <3>1, ThreadsFinite, FS_Subset, FS_CardinalityType
      <4>2. Cardinality(Waiters(c)') = Cardinality(Waiters(c)) + 0 - 1
        BY <3>1, ThreadsFinite, CardOne
      <4> QED
        BY <4>1, <4>2
    <3>3. waiter_count'[c] = Cardinality(Waiters(c)')
      BY <1>1, <1>3, <2>1, <2>5, <3>2 DEF CountOf
    <3>4. ASSUME NEW u \in Waiters(c)' PROVE call'[u].mutex = cond_mutex'[c]
      <4>1. u # t /\ u \in Waiters(c) /\ u \in Threads
        BY <3>1
      <4>2. waiter_count'[c] # 0
        <5>1. IsFiniteSet(Waiters(c)')
          BY <3>1, ThreadsFinite, FS_Subset
        <5> QED
          BY <3>3, <3>4, <5>1, FS_EmptySet
      <4>3. cond_mutex'[c] = cond_mutex[c]
        BY <1>3, <2>1, <2>5, <4>2 DEF MutexLeft
      <4> QED
        BY <1>1, <2>3, <4>1, <4>3 DEF CountOf
    <3> QED
      BY <3>3, <3>4 DEF CountOf
  <2> QED
    BY <2>4, <2>5
<1>7. ASSUME NEW t \in Threads,
             \/ TableStep(t) \/ user_mutex_switch_lock(t) \/ cond_wait_relock(t)
             \/ wait_notified(t) \/ wait_blocks(t) \/ wait_ends(t) \/ wait_given_up(t)
      PROVE  UNCHANGED <<call, waiter_count, cond_mutex>>
  BY <1>7 DEF TableStep, user_mutex_lock, user_mutex_switch_unlock, user_mutex_switch_lock,
              user_mutex_lock_end, user_mutex_unlock, wait_notified, wait_blocks, wait_ends,
              wait_given_up, cond_wait_relock, LockWord, pthreadVars
<1>8. ASSUME NEW t \in Threads, NEW m \in Mutexes,
             \/ pthread_mutex_lock(t, m) \/ pthread_mutex_lock_again(t, m)
             \/ pthread_mutex_trylock(t, m) \/ pthread_mutex_unlock_inner(t, m)
             \/ pthread_mutex_unlock(t, m)
      PROVE  UNCHANGED <<call, waiter_count, cond_mutex>>
  BY <1>8 DEF LockWord, pthread_mutex_lock, pthread_mutex_lock_again, pthread_mutex_trylock,
              pthread_mutex_unlock_inner, pthread_mutex_unlock
<1>9. ASSUME NEW t \in Threads, NEW d \in Conditions, NEW kind, cond_signal(t, d, kind)
      PROVE  UNCHANGED <<call, waiter_count, cond_mutex>>
  BY <1>9 DEF cond_signal, pthreadVars
<1>10. ASSUME UNCHANGED vars PROVE UNCHANGED <<call, waiter_count, cond_mutex>>
  BY <1>10 DEF vars, pthreadVars
<1> QED
  BY <1>4, <1>5, <1>6, <1>7, <1>8, <1>9, <1>10 DEF Next, CallStep

-----------------------------------------------------------------------------
(***************************************************************************)
(* The right to own a mutex, until it is orphaned.                         *)
(***************************************************************************)

\* The threads other than t get no right to m.
OthersStay(t, m) ==
    \A u \in Threads : u # t =>
        /\ pc'[u] = pc[u] /\ obj'[u] = obj[u] /\ call'[u] = call[u]
        /\ u \in locked' => u \in locked \/ obj[u] # m

LEMMA OthersNotBusy ==
    ASSUME NEW t \in Threads, NEW m, OthersStay(t, m), NEW u \in Threads, u # t
    PROVE  /\ Given(u, m)' => Given(u, m)
           /\ Giving(u, m)' <=> Giving(u, m)
           /\ Switching(u, m)' <=> Switching(u, m)
  BY DEF OthersStay, Given, Giving, Switching

\* Steps that leave m alone, except that its flags may be set.
LEMMA OwnFrame ==
    ASSUME NEW m \in Mutexes, OwnInvOf(m), NEW t \in Threads, OthersStay(t, m),
           owner'[m] = owner[m], holders'[m] = holders[m], word[m] \subseteq word'[m],
           Given(t, m)' => Given(t, m), ~Giving(t, m)', ~Switching(t, m)'
    PROVE  OwnInvOf(m)'
<1>1. \A u \in Threads : /\ Given(u, m)' => Given(u, m)
                         /\ Giving(u, m)' => Giving(u, m)
                         /\ Switching(u, m)' => Switching(u, m)
  BY OthersNotBusy
<1>2. \A u \in Threads : Busy(u, m)' => Busy(u, m)
  BY <1>1 DEF Busy
<1> QED
  BY <1>1, <1>2 DEF OwnInvOf

\* Getting m when nobody else has a right to it.
LEMMA OwnAcquire ==
    ASSUME TypeOK, NEW m \in Mutexes, OwnInvOf(m), NEW t \in Threads, Acquired(t, m),
           OthersStay(t, m), owner[m] = NoThread, \A u \in Threads : Busy(u, m) => u = t,
           "LOCKED" \in word'[m]
    PROVE  OwnInvOf(m)'
<1>2. owner'[m] = t /\ holders'[m] = {t} /\ t # NoThread
  BY ThreadsFinite DEF Acquired, TypeOK, OwnInvOf
<1>3. pc'[t] \in {"running", "done"}
  BY AcquiredLeaves
<1>4. ~Busy(t, m)'
  BY <1>3 DEF Busy, Given, Giving, Switching, Waiting
<1>5. \A u \in Threads : ~Busy(u, m)'
  BY <1>4, OthersNotBusy DEF Busy
<1> QED
  BY <1>2, <1>5 DEF OwnInvOf, Busy

\* A free word: nobody has a right to the mutex.
LEMMA FreeMeansNobody ==
    ASSUME NEW m \in Mutexes, OwnInvOf(m), word[m] = {}
    PROVE  owner[m] = NoThread /\ \A u \in Threads : ~Busy(u, m)
  BY DEF OwnInvOf, Busy

\* Passing m on to the first waiter, or giving it up.
LEMMA OwnPass ==
    ASSUME TypeOK, TableInv, NEW m \in Mutexes, OwnInvOf(m), NEW t \in Threads,
           NEW w \in Words, NEW all, all = FALSE \/ w \in Conditions,
           UnlockLocked(w, all), SameEntries(t), UNCHANGED <<owner, holders, call>>,
           w = m => Giving(t, m) \/ Switching(t, m),
           pc[t] \notin Waiting, pc'[t] \in {"running", "switch_lock"}
    PROVE  OwnInvOf(m)'
<1>1. m \in Mutexes /\ m \in Words /\ m \notin Conditions
  BY UserMutexAssumption DEF Words
<1>2. word \in [Words -> SUBSET Flags] /\ table[w] \in Seq(Threads)
  BY DEF TypeOK
<1>3. ~Busy(t, m)'
  BY DEF Busy, Given, Giving, Switching, Waiting
<1>4. ASSUME NEW u \in Threads
      PROVE  u \in locked' => u \in locked \/ (table[w] # <<>> /\ u \in Unblocked(w, all))
  BY DEF UnlockLocked
<1>5. CASE w # m
  <2>1. word'[m] = word[m]
    BY <1>1, <1>2, <1>5 DEF UnlockLocked
  <2>2. OthersStay(t, m)
    <3>1. ASSUME NEW u \in Threads, u \in locked', u \notin locked PROVE obj[u] # m
      BY <1>4, <1>5, <3>1, UnblockedFacts
    <3> QED
      BY <3>1 DEF OthersStay, SameEntries
  <2> QED
    BY <1>3, <2>1, <2>2, OwnFrame DEF Busy
<1>6. CASE w = m
  <2>1. /\ owner[m] = NoThread
        /\ \A u \in Threads : Busy(u, m) => u = t
    BY <1>6 DEF OwnInvOf, Busy
  <2>2. owner'[m] = NoThread /\ holders'[m] = {}
    BY <2>1 DEF OwnInvOf
  <2>3. CASE table[m] = <<>>
    <3>1. OthersStay(t, m)
      BY <1>4, <1>6, <2>3 DEF OthersStay, SameEntries
    <3>2. \A u \in Threads : ~Busy(u, m)'
      BY <1>3, <2>1, <3>1, OthersNotBusy DEF Busy
    <3> QED
      BY <2>2, <3>2 DEF OwnInvOf, Busy
  <2>4. CASE table[m] # <<>>
    <3> PICK h \in Threads : h = table[m][1]
      <4>1. 1 \in DOMAIN table[m]
        BY <1>2, <1>6, <2>4
      <4> QED
        BY <1>2, <1>6, <4>1
    <3>1. locked' = locked \cup {h} /\ "LOCKED" \in word'[m]
      <4>1. Unblocked(w, all) = {table[m][1]}
        BY <1>1, <1>6, <2>4, UnblockedFacts
      <4> QED
        BY <1>2, <1>6, <2>4, <4>1 DEF UnlockLocked, HandedOver
    <3>2. ASSUME NEW u \in Threads, u # h
          PROVE  ~Busy(u, m)'
      <4>1. CASE u = t
        BY <1>3, <4>1
      <4>2. CASE u # t
        BY <2>1, <3>1, <3>2, <4>2 DEF Busy, Given, Giving, Switching, SameEntries
      <4> QED
        BY <4>1, <4>2
    <3>3. ~Giving(h, m)'
      <4>1. 1 \in DOMAIN table[m]
        BY <1>2, <1>6, <2>4
      <4>2. InQueue(table[m], h) /\ h \in Threads
        BY <1>2, <1>6, <4>1 DEF InQueue
      <4>3. pc[h] \in Waiting
        BY <1>1, <4>2 DEF TableInv
      <4>4. pc'[h] \in Waiting
        BY <4>2, <4>3 DEF SameEntries
      <4> QED
        BY <4>2, <4>4 DEF Giving, Waiting
    <3> QED
      BY <2>2, <3>1, <3>2, <3>3 DEF OwnInvOf, Busy
  <2> QED
    BY <2>3, <2>4
<1> QED
  BY <1>5, <1>6

\* The places in which a thread has no right to any mutex in the kernel.
Outside == {"running", "lock", "signal", "broadcast", "switch_lock", "relock", "done"}

LEMMA OutsideNotBusy ==
    ASSUME NEW t \in Threads, NEW m, pc'[t] \in Outside
    PROVE  ~Given(t, m)' /\ ~Giving(t, m)' /\ ~Switching(t, m)'
  BY DEF Outside, Given, Giving, Switching, Waiting

LEMMA StayWithoutMarks ==
    ASSUME NEW t \in Threads, NEW m, SameEntries(t), locked' \subseteq locked,
           \A u \in Threads : u # t => call'[u] = call[u]
    PROVE  OthersStay(t, m)
  BY DEF OthersStay, SameEntries

LEMMA ReturnsOther ==
    ASSUME TypeOK, NEW t \in Threads, NEW w, NEW m \in Mutexes, w # m, NEW r,
           KernelLockReturns(t, w, r)
    PROVE  owner'[m] = owner[m] /\ holders'[m] = holders[m]
  BY DEF KernelLockReturns, Acquired, TypeOK

\* The atomic_or() on the word x.
LEMMA OwnSetLocked ==
    ASSUME TypeOK, NEW m \in Mutexes, OwnInvOf(m), NEW t \in Threads, NEW x \in Mutexes,
           pc[t] \in {"running", "relock"}, UNCHANGED <<locked, call>>,
           word' = [word EXCEPT ![x] = @ \cup {"LOCKED"}],
           \/ Free(word[x]) /\ Acquired(t, x)
           \/ GoTo(t, "lock", x) /\ UNCHANGED <<owner, holders>>
           \/ UNCHANGED <<pc, obj, owner, holders>>
    PROVE  OwnInvOf(m)'
<1>1. m \in Mutexes /\ m \in Words /\ word \in [Words -> SUBSET Flags]
  BY DEF Words, TypeOK
<1>2. SameEntries(t) /\ pc'[t] \in Outside
  BY GoToEffect, AcquiredLeaves DEF SameEntries, Outside
<1>3. OthersStay(t, m)
  BY <1>2, StayWithoutMarks
<1>4. word[m] \subseteq word'[m]
  BY <1>1
<1>5. CASE owner'[m] = owner[m] /\ holders'[m] = holders[m]
  BY <1>2, <1>3, <1>4, <1>5, OutsideNotBusy, OwnFrame
<1>6. CASE x = m /\ Free(word[m]) /\ Acquired(t, m)
  <2>1. owner[m] = NoThread /\ \A u \in Threads : ~Busy(u, m)
    BY <1>6, FreeMeansNobody DEF Free
  <2>2. "LOCKED" \in word'[m]
    BY <1>1, <1>6
  <2> QED
    BY <1>3, <1>6, <2>1, <2>2, OwnAcquire
<1>7. CASE x # m /\ Acquired(t, x)
  <2>1. owner'[m] = owner[m] /\ holders'[m] = holders[m]
    BY <1>1, <1>7 DEF Acquired, TypeOK
  <2> QED
    BY <1>5, <2>1
<1> QED
  BY <1>5, <1>6, <1>7

\* The first section of user_mutex_lock_locked().
LEMMA OwnLock ==
    ASSUME TypeOK, TableInv, NEW m \in Mutexes, OwnInvOf(m), NEW t \in Threads,
           NEW w \in Words, pc[t] \notin Waiting, LockLocked(t, w), UNCHANGED <<locked, call>>
    PROVE  OwnInvOf(m)'
<1>1. m \in Mutexes /\ m \in Words /\ word \in [Words -> SUBSET Flags] /\ m \notin Conditions
  BY UserMutexAssumption DEF Words, TypeOK
<1>2. CASE FreeInKernel(word[w])
  <2>1. /\ word[w] = {} /\ word' = [word EXCEPT ![w] = {"LOCKED"}]
        /\ KernelLockReturns(t, w, "B_OK")
    BY <1>2 DEF LockLocked, FreeInKernel
  <2>2. SameEntries(t) /\ pc'[t] \in Outside
    BY <2>1, ReturnsLeave DEF Outside
  <2>3. OthersStay(t, m)
    BY <2>2, StayWithoutMarks
  <2>4. CASE w = m
    <3>1. owner[m] = NoThread /\ \A u \in Threads : ~Busy(u, m)
      BY <2>1, <2>4, FreeMeansNobody
    <3>2. "LOCKED" \in word'[m] /\ Acquired(t, m)
      BY <1>1, <2>1, <2>4 DEF KernelLockReturns
    <3> QED
      BY <2>3, <3>1, <3>2, OwnAcquire
  <2>5. CASE w # m
    <3>1. owner'[m] = owner[m] /\ holders'[m] = holders[m] /\ word'[m] = word[m]
      BY <1>1, <2>1, <2>5, ReturnsOther
    <3> QED
      BY <2>2, <2>3, <3>1, OutsideNotBusy, OwnFrame
  <2> QED
    BY <2>4, <2>5
<1>3. CASE ~FreeInKernel(word[w])
  <2>1. /\ word' = [word EXCEPT ![w] = Flags] /\ UNCHANGED <<owner, holders>>
        /\ SameEntries(t) /\ pc'[t] = "added"
    BY <1>3, GoToEffect DEF LockLocked, SameEntries
  <2>2. t \notin locked'
    BY DEF TableInv
  <2>3. OthersStay(t, m) /\ word[m] \subseteq word'[m]
    BY <1>1, <2>1, StayWithoutMarks
  <2>4. ~Given(t, m)' /\ ~Giving(t, m)' /\ ~Switching(t, m)'
    BY <2>1, <2>2 DEF Given, Giving, Switching
  <2> QED
    BY <2>1, <2>3, <2>4, OwnFrame
<1> QED
  BY <1>2, <1>3

\* The last section of user_mutex_lock_locked(): who waited for m has been given it,
\* or gives up.  Then the waiting flag is cleared only if nobody is about to pass m on.
LEMMA OwnLockEnd ==
    ASSUME TypeOK, PlaceInv, EntryInv, NEW m \in Mutexes, OwnInvOf(m),
           NEW t \in Threads, user_mutex_lock_end(t), m \notin orphaned'
    PROVE  OwnInvOf(m)'
<1>1. m \in Mutexes /\ m \in Words /\ word \in [Words -> SUBSET Flags] /\ m \notin Conditions
  BY UserMutexAssumption DEF Words, TypeOK
<1> PICK w \in Words : obj[t] = w
  BY DEF user_mutex_lock_end, PlaceInv, PlaceOf, Waiting
<1>2. /\ pc[t] = "dequeue" /\ locked' = locked \ {t} /\ UNCHANGED call
      /\ word' = [word EXCEPT ![w] = FlagsLeft(@, Dequeue(table[w], t))]
      /\ KernelLockReturns(t, w, LockResult(t))
  BY DEF user_mutex_lock_end
<1>3. SameEntries(t) /\ pc'[t] \in Outside
  BY <1>2, ReturnsLeave DEF Outside
<1>4. OthersStay(t, m)
  BY <1>2, <1>3, StayWithoutMarks
<1>5. CASE w = m /\ t \in locked
  <2>1. t \in locked
    BY <1>5
  <2>2. Acquired(t, m)
    BY <1>1, <1>2, <1>5, <2>1 DEF KernelLockReturns, LockResult
  <2>3. Given(t, m)
    BY <1>2, <1>5, <2>1 DEF Given, Waiting
  <2>4. owner[m] = NoThread /\ "LOCKED" \in word[m] /\ \A u \in Threads : Busy(u, m) => u = t
    BY <2>3 DEF OwnInvOf, Busy
  <2>5. "LOCKED" \in word'[m]
    BY <1>1, <1>2, <1>5, <2>4 DEF FlagsLeft
  <2> QED
    BY <1>4, <2>2, <2>4, <2>5, OwnAcquire
<1>6. CASE w # m
  <2>1. owner'[m] = owner[m] /\ holders'[m] = holders[m] /\ word'[m] = word[m]
    BY <1>1, <1>2, <1>6, ReturnsOther
  <2> QED
    BY <1>3, <1>4, <2>1, OutsideNotBusy, OwnFrame
<1>7. CASE w = m /\ t \notin locked
  <2>1. error[t] \in {"B_INTERRUPTED", "B_TIMED_OUT"}
    BY <1>2, <1>7 DEF EntryInv, EntryOf, EarlyResults
  <2>2. owner'[m] = owner[m] /\ holders'[m] = holders[m]
    BY <1>1, <1>2, <1>7, <2>1 DEF KernelLockReturns, LockResult
  <2>3. ~Given(t, m)' /\ ~Giving(t, m)' /\ ~Switching(t, m)'
    BY <1>3, OutsideNotBusy
  <2>4. CASE Dequeue(table[w], t) # <<>>
    <3>1. word'[m] = word[m]
      BY <1>1, <1>2, <1>7, <2>4 DEF FlagsLeft
    <3> QED
      BY <1>4, <2>2, <2>3, <3>1, OwnFrame
  <2>5. CASE Dequeue(table[w], t) = <<>>
    <3>1. \A u \in Threads : ~Giving(u, m)
      BY <1>7, <2>5 DEF user_mutex_lock_end, Giving
    <3>2. "LOCKED" \in word[m] => "LOCKED" \in word'[m]
      BY <1>1, <1>2, <1>7 DEF FlagsLeft
    <3>3. \A u \in Threads : /\ Given(u, m)' => Given(u, m)
                             /\ ~Giving(u, m)'
                             /\ Switching(u, m)' => Switching(u, m)
      BY <1>4, <2>3, <3>1, OthersNotBusy
    <3>4. \A u \in Threads : Busy(u, m)' => Busy(u, m)
      BY <3>3 DEF Busy
    <3> QED
      BY <2>2, <3>2, <3>3, <3>4 DEF OwnInvOf
  <2> QED
    BY <2>4, <2>5
<1> QED
  BY <1>5, <1>6, <1>7

\* Unlocking the mutex in userland: the owner becomes the one that passes it on.
LEMMA OwnUnlock ==
    ASSUME TypeOK, NEW m \in Mutexes, OwnInvOf(m), NEW t \in Threads, NEW x \in Mutexes,
           pthread_mutex_unlock(t, x)
    PROVE  OwnInvOf(m)'
<1>1. m \in Mutexes /\ m \in Words /\ word \in [Words -> SUBSET Flags]
  BY DEF Words, TypeOK
<1>2. /\ pc[t] = "running" /\ owner[x] = t /\ UNCHANGED <<locked, call>>
      /\ owner' = [owner EXCEPT ![x] = NoThread]
      /\ holders' = [holders EXCEPT ![x] = @ \ {t}]
      /\ word' = [word EXCEPT ![x] = @ \ {"LOCKED"}]
      /\ IF "WAITING" \in word[x] THEN GoTo(t, "unlock", x) ELSE UNCHANGED <<pc, obj>>
  BY DEF pthread_mutex_unlock
<1>3. SameEntries(t) /\ (pc'[t] = "running" \/ (pc'[t] = "unlock" /\ obj'[t] = x /\ "WAITING" \in word[x]))
  BY <1>2, GoToEffect DEF SameEntries
<1>4. OthersStay(t, m)
  BY <1>2, <1>3, StayWithoutMarks
<1>5. ~Given(t, m)' /\ ~Switching(t, m)'
  BY <1>3 DEF Given, Switching, Waiting
<1>6. CASE x # m
  <2>1. owner'[m] = owner[m] /\ holders'[m] = holders[m] /\ word'[m] = word[m]
    BY <1>1, <1>2, <1>6 DEF TypeOK
  <2>2. ~Giving(t, m)'
    BY <1>3, <1>6 DEF Giving
  <2> QED
    BY <1>4, <1>5, <2>1, <2>2, OwnFrame
<1>7. CASE x = m
  <2>1. holders[m] = {t} /\ \A u \in Threads : ~Busy(u, m)
    BY <1>2, <1>7, ThreadsFinite DEF OwnInvOf
  <2>2. owner'[m] = NoThread /\ holders'[m] = {}
    BY <1>1, <1>2, <1>7, <2>1 DEF TypeOK
  <2>3. \A u \in Threads : u # t => ~Busy(u, m)'
    BY <1>4, <2>1, OthersNotBusy DEF Busy
  <2>4. Giving(t, m)' => "WAITING" \in word'[m]
    BY <1>1, <1>2, <1>3, <1>7 DEF Giving
  <2> QED
    BY <1>5, <2>2, <2>3, <2>4 DEF OwnInvOf, Busy
<1> QED
  BY <1>6, <1>7

\* cond_wait(): the owner becomes the one that switches.
LEMMA OwnCondWait ==
    ASSUME TypeOK, NEW m \in Mutexes, OwnInvOf(m), NEW t \in Threads, NEW x \in Mutexes,
           NEW c \in Conditions, cond_wait(t, c, x)
    PROVE  OwnInvOf(m)'
<1>1. /\ m \in Mutexes /\ m \in Words /\ m # c /\ word \in [Words -> SUBSET Flags]
      /\ call \in [Threads -> [mutex : Mutexes, cond : Conditions] \cup {NoCall}]
  BY UserMutexAssumption DEF Words, TypeOK
<1>2. /\ owner[x] = t /\ UNCHANGED locked
      /\ owner' = [owner EXCEPT ![x] = NoThread]
      /\ holders' = [holders EXCEPT ![x] = @ \ {t}]
      /\ word' = [word EXCEPT ![c] = @ \cup {"LOCKED"}]
      /\ call' = [call EXCEPT ![t] = [mutex |-> x, cond |-> c]]
  BY DEF cond_wait
<1>3. SameEntries(t) /\ pc'[t] = "switch"
  BY GoToEffect DEF cond_wait, SameEntries
<1>4. OthersStay(t, m) /\ word'[m] = word[m] /\ call'[t].mutex = x
  BY <1>1, <1>2, <1>3, StayWithoutMarks
<1>5. ~Given(t, m)' /\ ~Giving(t, m)'
  BY <1>3 DEF Given, Giving, Waiting
<1>6. CASE x # m
  <2>1. owner'[m] = owner[m] /\ holders'[m] = holders[m]
    BY <1>1, <1>2, <1>6 DEF TypeOK
  <2>2. ~Switching(t, m)'
    BY <1>4, <1>6 DEF Switching
  <2> QED
    BY <1>4, <1>5, <2>1, <2>2, OwnFrame
<1>7. CASE x = m
  <2>1. /\ holders[m] = {t} /\ \A u \in Threads : ~Busy(u, m)
        /\ "LOCKED" \in word'[m]
    BY <1>2, <1>4, <1>7, ThreadsFinite DEF OwnInvOf
  <2>2. owner'[m] = NoThread /\ holders'[m] = {}
    BY <1>1, <1>2, <1>7, <2>1 DEF TypeOK
  <2>3. \A u \in Threads : u # t => ~Busy(u, m)'
    BY <1>4, <2>1, OthersNotBusy DEF Busy
  <2> QED
    BY <1>5, <2>1, <2>2, <2>3 DEF OwnInvOf, Busy
<1> QED
  BY <1>6, <1>7

\* A mutex stays orphaned.
LEMMA OrphansStay ==
    ASSUME [Next]_vars
    PROVE  orphaned \subseteq orphaned'
<1>1. ASSUME NEW t \in Threads, TableStep(t) PROVE orphaned \subseteq orphaned'
  BY <1>1 DEF TableStep, user_mutex_lock, user_mutex_switch_unlock, user_mutex_lock_end,
              user_mutex_unlock
<1>2. ASSUME NEW t \in Threads, CallStep(t) \/ wait_given_up(t) PROVE orphaned' = orphaned
  BY <1>2 DEF CallStep, user_mutex_switch_lock, wait_notified, wait_blocks, wait_ends,
              wait_given_up, cond_wait_relock, cond_wait_end, LockWord
<1>3. ASSUME NEW t \in Threads, NEW m \in Mutexes,
             \/ pthread_mutex_lock(t, m) \/ pthread_mutex_lock_again(t, m)
             \/ pthread_mutex_trylock(t, m) \/ pthread_mutex_unlock_inner(t, m)
             \/ pthread_mutex_unlock(t, m) \/ \E c \in Conditions : cond_wait(t, c, m)
      PROVE  orphaned' = orphaned
  BY <1>3 DEF LockWord, pthread_mutex_lock, pthread_mutex_lock_again, pthread_mutex_trylock,
              pthread_mutex_unlock_inner, pthread_mutex_unlock, cond_wait
<1>4. ASSUME NEW t \in Threads, NEW c \in Conditions, NEW kind, cond_signal(t, c, kind)
      PROVE  orphaned' = orphaned
  BY <1>4 DEF cond_signal
<1>5. ASSUME UNCHANGED vars PROVE orphaned' = orphaned
  BY <1>5 DEF vars
<1> QED
  BY <1>1, <1>2, <1>3, <1>4, <1>5 DEF Next

LEMMA OwnStep ==
    ASSUME TypeOK, PlaceInv, TableInv, EntryInv, OwnInv, [Next]_vars
    PROVE  OwnInv'
<1> SUFFICES ASSUME NEW m \in Mutexes, m \notin orphaned' PROVE OwnInvOf(m)'
  BY DEF OwnInv
<1>1. OwnInvOf(m) /\ m \in Mutexes /\ m \notin Conditions
  BY UserMutexAssumption, OrphansStay DEF OwnInv
<1>2. ASSUME NEW t \in Threads, user_mutex_lock(t) \/ user_mutex_switch_lock(t)
      PROVE  OwnInvOf(m)'
  <2>1. /\ obj[t] \in Words /\ pc[t] \notin Waiting /\ LockLocked(t, obj[t])
        /\ UNCHANGED <<locked, call>>
    BY <1>2 DEF user_mutex_lock, user_mutex_switch_lock, PlaceInv, PlaceOf, Waiting, Words
  <2> QED
    BY <1>1, <2>1, OwnLock
<1>3. ASSUME NEW t \in Threads, user_mutex_switch_unlock(t) PROVE OwnInvOf(m)'
  <2>1. /\ pc[t] = "switch" /\ UnlockLocked(call[t].mutex, FALSE)
        /\ UNCHANGED <<owner, holders, call>>
        /\ call[t].mutex \in Words /\ SameEntries(t) /\ pc'[t] = "switch_lock"
    BY <1>3, GoToEffect
       DEF user_mutex_switch_unlock, PlaceInv, PlaceOf, Undisturbed, SameEntries, Words,
           pthreadVars
  <2>2. call[t].mutex = m => Switching(t, m)
    BY <2>1 DEF Switching
  <2>3. pc[t] \notin Waiting
    BY <2>1 DEF Waiting
  <2> QED
    BY <1>1, <2>1, <2>2, <2>3, OwnPass
<1>4. ASSUME NEW t \in Threads, user_mutex_unlock(t) PROVE OwnInvOf(m)'
  <2>1. /\ pc[t] \in {"unlock", "signal", "broadcast"}
        /\ UnlockLocked(obj[t], pc[t] = "broadcast") /\ UNCHANGED <<owner, holders, call>>
        /\ SameEntries(t) /\ pc'[t] = "running"
    BY <1>4, GoToEffect DEF user_mutex_unlock, SameEntries, pthreadVars
  <2>2. obj[t] \in Words /\ (pc[t] = "unlock" \/ obj[t] \in Conditions)
    BY <2>1 DEF PlaceInv, PlaceOf, Words
  <2>3. obj[t] = m => Giving(t, m)
    BY <1>1, <2>2 DEF Giving
  <2>4. pc[t] \notin Waiting /\ ((pc[t] = "broadcast") = FALSE \/ obj[t] \in Conditions)
    BY <2>1, <2>2 DEF Waiting
  <2> QED
    BY <1>1, <2>1, <2>2, <2>3, <2>4, OwnPass
<1>5. ASSUME NEW t \in Threads, user_mutex_lock_end(t) PROVE OwnInvOf(m)'
  BY <1>1, <1>5, OwnLockEnd
<1>6. ASSUME NEW t \in Threads, UNCHANGED <<word, locked, owner, holders, call>>, SameEntries(t),
             \/ pc'[t] \in Outside
             \/ UNCHANGED <<pc, obj>>
             \/ pc[t] \in Waiting /\ pc'[t] \in Waiting /\ obj'[t] = obj[t]
      PROVE  OwnInvOf(m)'
  <2>1. OthersStay(t, m)
    BY <1>6, StayWithoutMarks
  <2>2. CASE pc'[t] \in Outside
    BY <1>1, <1>6, <2>1, <2>2, OutsideNotBusy, OwnFrame
  <2>3. CASE UNCHANGED <<pc, obj>>
    BY <1>1, <1>6, <2>3 DEF OwnInvOf, Busy, Given, Giving, Switching
  <2>4. CASE pc[t] \in Waiting /\ pc'[t] \in Waiting /\ obj'[t] = obj[t]
    <3>1. (Given(t, m)' => Given(t, m)) /\ ~Giving(t, m)' /\ ~Switching(t, m)'
      BY <1>6, <2>4 DEF Given, Giving, Switching, Waiting
    <3> QED
      BY <1>1, <1>6, <2>1, <3>1, OwnFrame
  <2> QED
    BY <1>6, <2>2, <2>3, <2>4
<1>7. ASSUME NEW t \in Threads,
             wait_notified(t) \/ wait_blocks(t) \/ wait_ends(t) \/ wait_given_up(t)
      PROVE  OwnInvOf(m)'
  <2>1. UNCHANGED <<word, locked, owner, holders, call>>
    BY <1>7 DEF wait_notified, wait_blocks, wait_ends, wait_given_up, wordVars, pthreadVars
  <2>2. CASE wait_given_up(t)
    BY <1>6, <2>1, <2>2 DEF wait_given_up, SameEntries
  <2>3. CASE ~wait_given_up(t)
    <3>1. /\ SameEntries(t) /\ pc[t] \in Waiting /\ pc'[t] \in Waiting /\ obj'[t] = obj[t]
      BY <1>7, <2>3, GoToEffect DEF wait_notified, wait_blocks, wait_ends, SameEntries, Waiting
    <3> QED
      BY <1>6, <2>1, <3>1
  <2> QED
    BY <2>2, <2>3
<1>8. ASSUME NEW t \in Threads, NEW x \in Mutexes, LockWord(t, x),
             pc[t] \in {"running", "relock"}
      PROVE  OwnInvOf(m)'
  BY <1>1, <1>8, OwnSetLocked DEF LockWord
<1>9. ASSUME NEW t \in Threads, cond_wait_relock(t) PROVE OwnInvOf(m)'
  <2>1. call[t].mutex \in Mutexes
    BY <1>9 DEF cond_wait_relock, PlaceInv, PlaceOf, Undisturbed
  <2> QED
    BY <1>8, <1>9, <2>1 DEF cond_wait_relock
<1>10. ASSUME NEW t \in Threads, NEW x \in Mutexes, pthread_mutex_trylock(t, x)
       PROVE  OwnInvOf(m)'
  BY <1>1, <1>10, OwnSetLocked DEF pthread_mutex_trylock
<1>11. ASSUME NEW t \in Threads, NEW x \in Mutexes,
              pthread_mutex_lock_again(t, x) \/ pthread_mutex_unlock_inner(t, x)
       PROVE  OwnInvOf(m)'
  <2>1. UNCHANGED <<word, locked, owner, holders, call, pc, obj>>
    BY <1>11 DEF pthread_mutex_lock_again, pthread_mutex_unlock_inner, wordVars
  <2> QED
    BY <1>6, <2>1 DEF SameEntries
<1>12. ASSUME NEW t \in Threads, cond_wait_end(t) PROVE OwnInvOf(m)'
  <2>1. /\ UNCHANGED <<word, locked, owner, holders>> /\ SameEntries(t) /\ pc'[t] = "running"
        /\ \A u \in Threads : u # t => call'[u] = call[u]
    BY <1>12, GoToEffect DEF cond_wait_end, wordVars, SameEntries, TypeOK
  <2>2. OthersStay(t, m) /\ pc'[t] \in Outside
    BY <2>1, StayWithoutMarks DEF Outside
  <2> QED
    BY <1>1, <2>1, <2>2, OutsideNotBusy, OwnFrame
<1>13. ASSUME NEW t \in Threads, NEW c \in Conditions, NEW kind \in {"signal", "broadcast"},
              cond_signal(t, c, kind)
       PROVE  OwnInvOf(m)'
  <2>1. /\ UNCHANGED <<word, locked, owner, holders, call>> /\ SameEntries(t) /\ pc'[t] = kind
    BY <1>13, GoToEffect DEF cond_signal, wordVars, pthreadVars, SameEntries
  <2>2. pc'[t] \in Outside
    BY <2>1 DEF Outside
  <2> QED
    BY <1>6, <2>1, <2>2
<1>14. ASSUME UNCHANGED vars PROVE OwnInvOf(m)'
  BY <1>1, <1>14 DEF vars, wordVars, pthreadVars, OwnInvOf, Busy, Given, Giving, Switching
<1> QED
  BY <1>1, <1>2, <1>3, <1>4, <1>5, <1>7, <1>8, <1>9, <1>10, <1>11, <1>12, <1>13, <1>14,
     OwnUnlock, OwnCondWait
     DEF Next, TableStep, CallStep, pthread_mutex_lock

-----------------------------------------------------------------------------
(***************************************************************************)
(* No mutex is lost.                                                       *)
(***************************************************************************)

\* Steps of a thread without a right to m that leave m's owner alone.
LEMMA RightFrame ==
    ASSUME NEW m \in Mutexes, RightOf(m), NEW t \in Threads, SameEntries(t), ~Busy(t, m),
           \A u \in Threads : u # t => call'[u] = call[u] /\ (u \in locked => u \in locked'),
           owner'[m] = owner[m], word'[m] # {} => word[m] # {}
    PROVE  RightOf(m)'
<1>1. \A u \in Threads : Busy(u, m) => Busy(u, m)'
  BY DEF SameEntries, Busy, Given, Giving, Switching
<1> QED
  BY <1>1 DEF RightOf

LEMMA OutsideHasNoRight ==
    ASSUME NEW t \in Threads, NEW m, pc[t] \in Outside
    PROVE  ~Busy(t, m)
  BY DEF Outside, Busy, Given, Giving, Switching, Waiting

LEMMA AcquiredRight ==
    ASSUME TypeOK, NEW t \in Threads, NEW m \in Mutexes, Acquired(t, m)
    PROVE  RightOf(m)'
  BY ThreadsFinite DEF Acquired, TypeOK, RightOf

\* The atomic_or() on the word x.
LEMMA RightSetLocked ==
    ASSUME TypeOK, NEW m \in Mutexes, RightOf(m), NEW t \in Threads, NEW x \in Mutexes,
           pc[t] \in {"running", "relock"}, UNCHANGED <<locked, call>>,
           word' = [word EXCEPT ![x] = @ \cup {"LOCKED"}],
           \/ Free(word[x]) /\ Acquired(t, x)
           \/ ~Free(word[x]) /\ GoTo(t, "lock", x) /\ UNCHANGED owner
           \/ ~Free(word[x]) /\ UNCHANGED <<pc, obj, owner>>
    PROVE  RightOf(m)'
<1>1. m \in Words /\ word \in [Words -> SUBSET Flags]
  BY DEF Words, TypeOK
<1>2. SameEntries(t) /\ ~Busy(t, m)
  BY GoToEffect, AcquiredLeaves, OutsideHasNoRight DEF SameEntries, Outside
<1>3. CASE x = m /\ Acquired(t, m)
  BY <1>3, AcquiredRight
<1>4. CASE x # m \/ ~Free(word[x])
  <2>1. owner'[m] = owner[m]
    BY <1>4 DEF Acquired, TypeOK
  <2>2. word'[m] # {} => word[m] # {}
    BY <1>1, <1>4 DEF Free
  <2> QED
    BY <1>2, <2>1, <2>2, RightFrame
<1> QED
  BY <1>3, <1>4

\* The first section of user_mutex_lock_locked().
LEMMA RightLock ==
    ASSUME TypeOK, NEW m \in Mutexes, RightOf(m), NEW t \in Threads, NEW w \in Words,
           pc[t] \in Outside, LockLocked(t, w), UNCHANGED <<locked, call>>
    PROVE  RightOf(m)'
<1>1. /\ m \in Words /\ m \notin Conditions /\ word \in [Words -> SUBSET Flags]
      /\ ~Busy(t, m)
  BY UserMutexAssumption, OutsideHasNoRight DEF Words, TypeOK
<1>2. CASE FreeInKernel(word[w])
  <2>1. word' = [word EXCEPT ![w] = {"LOCKED"}] /\ KernelLockReturns(t, w, "B_OK")
    BY <1>2 DEF LockLocked
  <2>2. CASE w = m
    BY <1>1, <2>1, <2>2, AcquiredRight DEF KernelLockReturns
  <2>3. CASE w # m
    BY <1>1, <2>1, <2>3, ReturnsLeave, ReturnsOther, RightFrame
  <2> QED
    BY <2>2, <2>3
<1>3. CASE ~FreeInKernel(word[w])
  <2>1. word' = [word EXCEPT ![w] = Flags] /\ UNCHANGED owner /\ SameEntries(t)
    BY <1>3, GoToEffect DEF LockLocked, SameEntries
  <2>2. word'[m] # {} => word[m] # {}
    BY <1>1, <1>3, <2>1 DEF FreeInKernel
  <2> QED
    BY <1>1, <2>1, <2>2, RightFrame
<1> QED
  BY <1>2, <1>3

\* Passing w on: the first waiter gets the right, or the word becomes free.
LEMMA RightPass ==
    ASSUME TypeOK, TableInv, WaitingFlagInv, NEW m \in Mutexes, RightOf(m),
           NEW t \in Threads, NEW w \in Words, NEW all, all = FALSE \/ w \in Conditions,
           UnlockLocked(w, all), SameEntries(t), UNCHANGED <<owner, call>>,
           pc[t] \notin Waiting, w # m => ~Busy(t, m)
    PROVE  RightOf(m)'
<1>1. m \in Words /\ m \notin Conditions /\ word \in [Words -> SUBSET Flags]
  BY UserMutexAssumption DEF Words, TypeOK
<1>2. locked \subseteq locked'
  BY DEF UnlockLocked
<1>3. CASE w # m
  <2>1. word'[m] = word[m]
    BY <1>1, <1>3 DEF UnlockLocked
  <2> QED
    BY <1>2, <1>3, <2>1, RightFrame
<1>4. CASE w = m /\ table[m] = <<>>
  <2>1. word[m] \subseteq {"LOCKED"}
    BY <1>1, <1>4 DEF WaitingFlagInv, Flags
  <2>2. word'[m] = {}
    BY <1>1, <1>4, <2>1 DEF UnlockLocked
  <2> QED
    BY <2>2 DEF RightOf
<1>5. CASE w = m /\ table[m] # <<>>
  <2>1. Unblocked(m, all) = {table[m][1]} /\ locked' = locked \cup Unblocked(m, all)
    BY <1>1, <1>5, UnblockedFacts DEF UnlockLocked
  <2>2. table[m][1] \in Threads /\ pc[table[m][1]] \in Waiting /\ obj[table[m][1]] = m
    BY <1>1, <1>5, <2>1, UnblockedFacts
  <2> PICK h \in Threads : h = table[m][1]
    BY <2>2
  <2>3. h \in locked' /\ h # t /\ pc[h] \in Waiting /\ obj[h] = m
    BY <2>1, <2>2
  <2>4. pc'[h] = pc[h] /\ obj'[h] = obj[h]
    BY <2>3 DEF SameEntries
  <2>5. Given(h, m)'
    BY <2>3, <2>4 DEF Given
  <2> QED
    BY <2>5 DEF RightOf, Busy
<1> QED
  BY <1>3, <1>4, <1>5

LEMMA RightStep ==
    ASSUME TypeOK, PlaceInv, TableInv, WaitingFlagInv, EntryInv, RightInv, [Next]_vars
    PROVE  RightInv'
<1> SUFFICES ASSUME NEW m \in Mutexes, m \notin orphaned' PROVE RightOf(m)'
  BY DEF RightInv
<1>1. RightOf(m) /\ m \in Words /\ m \notin Conditions /\ word \in [Words -> SUBSET Flags]
  BY UserMutexAssumption, OrphansStay DEF RightInv, Words, TypeOK
<1>2. ASSUME NEW t \in Threads, user_mutex_lock(t) \/ user_mutex_switch_lock(t)
      PROVE  RightOf(m)'
  <2>1. /\ obj[t] \in Words /\ pc[t] \in Outside /\ LockLocked(t, obj[t])
        /\ UNCHANGED <<locked, call>>
    BY <1>2 DEF user_mutex_lock, user_mutex_switch_lock, PlaceInv, PlaceOf, Outside, Words
  <2> QED
    BY <1>1, <2>1, RightLock
<1>3. ASSUME NEW t \in Threads, user_mutex_switch_unlock(t) PROVE RightOf(m)'
  <2>1. /\ pc[t] = "switch" /\ UnlockLocked(call[t].mutex, FALSE)
        /\ UNCHANGED <<owner, call>> /\ call[t].mutex \in Words /\ SameEntries(t)
    BY <1>3, GoToEffect
       DEF user_mutex_switch_unlock, PlaceInv, PlaceOf, Undisturbed, SameEntries, Words,
           pthreadVars
  <2>2. (call[t].mutex # m => ~Busy(t, m)) /\ pc[t] \notin Waiting
    BY <2>1 DEF Busy, Given, Giving, Switching, Waiting
  <2> QED
    BY <1>1, <2>1, <2>2, RightPass
<1>4. ASSUME NEW t \in Threads, user_mutex_unlock(t) PROVE RightOf(m)'
  <2>1. /\ pc[t] \in {"unlock", "signal", "broadcast"}
        /\ UnlockLocked(obj[t], pc[t] = "broadcast") /\ UNCHANGED <<owner, call>>
        /\ SameEntries(t)
    BY <1>4, GoToEffect DEF user_mutex_unlock, SameEntries, pthreadVars
  <2>2. /\ obj[t] \in Words
        /\ (pc[t] = "broadcast") = FALSE \/ obj[t] \in Conditions
    BY <2>1 DEF PlaceInv, PlaceOf, Words
  <2>3. (obj[t] # m => ~Busy(t, m)) /\ pc[t] \notin Waiting
    BY <2>1 DEF Busy, Given, Giving, Switching, Waiting
  <2> QED
    BY <1>1, <2>1, <2>2, <2>3, RightPass
<1>5. ASSUME NEW t \in Threads, user_mutex_lock_end(t) PROVE RightOf(m)'
  <2> PICK w \in Words : obj[t] = w
    BY <1>5 DEF user_mutex_lock_end, PlaceInv, PlaceOf, Waiting
  <2>1. /\ pc[t] = "dequeue" /\ locked' = locked \ {t} /\ UNCHANGED call
        /\ word' = [word EXCEPT ![w] = FlagsLeft(@, Dequeue(table[w], t))]
        /\ KernelLockReturns(t, w, LockResult(t))
    BY <1>5 DEF user_mutex_lock_end
  <2>2. SameEntries(t) /\ (word'[m] # {} => word[m] # {})
    BY <1>1, <2>1, ReturnsLeave DEF FlagsLeft
  <2>3. CASE w = m /\ t \in locked
    <3>1. Acquired(t, m)
      BY <1>1, <2>1, <2>3 DEF KernelLockReturns, LockResult
    <3> QED
      BY <3>1, AcquiredRight
  <2>4. CASE w = m /\ t \notin locked
    <3>1. error[t] \in {"B_INTERRUPTED", "B_TIMED_OUT"}
      BY <2>1, <2>4 DEF EntryInv, EntryOf, EarlyResults
    <3>2. owner'[m] = owner[m] /\ ~Busy(t, m)
      BY <1>1, <2>1, <2>4, <3>1
         DEF KernelLockReturns, LockResult, Busy, Given, Giving, Switching
    <3> QED
      BY <1>1, <2>1, <2>2, <3>2, RightFrame
  <2>5. CASE w # m
    <3>1. owner'[m] = owner[m] /\ ~Busy(t, m)
      BY <2>1, <2>5, ReturnsOther DEF Busy, Given, Giving, Switching
    <3> QED
      BY <1>1, <2>1, <2>2, <3>1, RightFrame
  <2> QED
    BY <2>3, <2>4, <2>5
<1>6. ASSUME NEW t \in Threads, UNCHANGED <<word, locked, owner>>, SameEntries(t),
             \A u \in Threads : u # t => call'[u] = call[u],
             \/ pc[t] \in Outside
             \/ UNCHANGED <<pc, obj, call>>
             \/ pc[t] \in Waiting /\ pc'[t] \in Waiting /\ obj'[t] = obj[t]
      PROVE  RightOf(m)'
  <2>1. CASE pc[t] \in Outside
    BY <1>1, <1>6, <2>1, OutsideHasNoRight, RightFrame
  <2>2. CASE UNCHANGED <<pc, obj, call>>
    BY <1>1, <1>6, <2>2 DEF RightOf, Busy, Given, Giving, Switching
  <2>3. CASE pc[t] \in Waiting /\ pc'[t] \in Waiting /\ obj'[t] = obj[t]
    <3>1. \A u \in Threads : Busy(u, m) => Busy(u, m)'
      BY <1>6, <2>3 DEF SameEntries, Busy, Given, Giving, Switching, Waiting
    <3> QED
      BY <1>1, <1>6, <3>1 DEF RightOf
  <2> QED
    BY <1>6, <2>1, <2>2, <2>3
<1>7. ASSUME NEW t \in Threads,
             wait_notified(t) \/ wait_blocks(t) \/ wait_ends(t) \/ wait_given_up(t)
      PROVE  RightOf(m)'
  <2>1. UNCHANGED <<word, locked, owner, call>>
    BY <1>7 DEF wait_notified, wait_blocks, wait_ends, wait_given_up, wordVars, pthreadVars
  <2>2. CASE wait_given_up(t)
    BY <1>6, <2>1, <2>2 DEF wait_given_up, SameEntries
  <2>3. CASE ~wait_given_up(t)
    <3>1. SameEntries(t) /\ pc[t] \in Waiting /\ pc'[t] \in Waiting /\ obj'[t] = obj[t]
      BY <1>7, <2>3, GoToEffect DEF wait_notified, wait_blocks, wait_ends, SameEntries, Waiting
    <3> QED
      BY <1>6, <2>1, <3>1
  <2> QED
    BY <2>2, <2>3
<1>8. ASSUME NEW t \in Threads, NEW x \in Mutexes, LockWord(t, x),
             pc[t] \in {"running", "relock"}
      PROVE  RightOf(m)'
  BY <1>1, <1>8, RightSetLocked DEF LockWord
<1>9. ASSUME NEW t \in Threads, cond_wait_relock(t) PROVE RightOf(m)'
  <2>1. call[t].mutex \in Mutexes
    BY <1>9 DEF cond_wait_relock, PlaceInv, PlaceOf, Undisturbed
  <2> QED
    BY <1>8, <1>9, <2>1 DEF cond_wait_relock
<1>10. ASSUME NEW t \in Threads, NEW x \in Mutexes, pthread_mutex_trylock(t, x)
       PROVE  RightOf(m)'
  BY <1>1, <1>10, RightSetLocked DEF pthread_mutex_trylock
<1>11. ASSUME NEW t \in Threads, NEW x \in Mutexes,
              pthread_mutex_lock_again(t, x) \/ pthread_mutex_unlock_inner(t, x)
       PROVE  RightOf(m)'
  <2>1. UNCHANGED <<word, locked, owner, call, pc, obj>>
    BY <1>11 DEF pthread_mutex_lock_again, pthread_mutex_unlock_inner, wordVars
  <2> QED
    BY <1>6, <2>1 DEF SameEntries
<1>12. ASSUME NEW t \in Threads, NEW x \in Mutexes, pthread_mutex_unlock(t, x)
       PROVE  RightOf(m)'
  <2>1. /\ pc[t] = "running" /\ UNCHANGED <<locked, call>>
        /\ owner' = [owner EXCEPT ![x] = NoThread]
        /\ word' = [word EXCEPT ![x] = @ \ {"LOCKED"}]
        /\ IF "WAITING" \in word[x] THEN GoTo(t, "unlock", x) ELSE UNCHANGED <<pc, obj>>
    BY <1>12 DEF pthread_mutex_unlock
  <2>2. CASE x = m /\ "WAITING" \in word[m]
    <3>1. Giving(t, m)'
      BY <2>1, <2>2, GoToEffect DEF Giving
    <3> QED
      BY <3>1 DEF RightOf, Busy
  <2>3. CASE x = m /\ "WAITING" \notin word[m]
    <3>1. word'[m] = {}
      BY <1>1, <2>1, <2>3 DEF Flags
    <3> QED
      BY <3>1 DEF RightOf
  <2>4. CASE x # m
    <3>1. SameEntries(t) /\ ~Busy(t, m)
      BY <2>1, GoToEffect, OutsideHasNoRight DEF SameEntries, Outside
    <3>2. owner'[m] = owner[m] /\ word'[m] = word[m]
      BY <1>1, <2>1, <2>4 DEF TypeOK
    <3> QED
      BY <1>1, <2>1, <3>1, <3>2, RightFrame
  <2> QED
    BY <2>2, <2>3, <2>4
<1>13. ASSUME NEW t \in Threads, NEW x \in Mutexes, NEW c \in Conditions, cond_wait(t, c, x)
       PROVE  RightOf(m)'
  <2>1. /\ pc[t] = "running" /\ UNCHANGED locked
        /\ owner' = [owner EXCEPT ![x] = NoThread]
        /\ word' = [word EXCEPT ![c] = @ \cup {"LOCKED"}]
        /\ call' = [call EXCEPT ![t] = [mutex |-> x, cond |-> c]]
        /\ call \in [Threads -> [mutex : Mutexes, cond : Conditions] \cup {NoCall}]
    BY <1>13 DEF cond_wait, TypeOK
  <2>2. SameEntries(t) /\ pc'[t] = "switch" /\ ~Busy(t, m)
    BY <1>13, <2>1, GoToEffect, OutsideHasNoRight DEF cond_wait, SameEntries, Outside
  <2>3. CASE x = m
    <3>1. Switching(t, m)'
      BY <2>1, <2>2, <2>3 DEF Switching
    <3> QED
      BY <3>1 DEF RightOf, Busy
  <2>4. CASE x # m
    <3>1. owner'[m] = owner[m] /\ word'[m] = word[m]
      BY <1>1, <2>1, <2>4 DEF TypeOK
    <3>2. \A u \in Threads : u # t => call'[u] = call[u]
      BY <2>1
    <3> QED
      BY <1>1, <2>1, <2>2, <3>1, <3>2, RightFrame
  <2> QED
    BY <2>3, <2>4
<1>14. ASSUME NEW t \in Threads, cond_wait_end(t) PROVE RightOf(m)'
  <2>1. /\ UNCHANGED <<word, locked, owner>> /\ SameEntries(t) /\ pc[t] = "done"
        /\ \A u \in Threads : u # t => call'[u] = call[u]
    BY <1>14, GoToEffect DEF cond_wait_end, wordVars, SameEntries, TypeOK
  <2> QED
    BY <1>6, <2>1 DEF Outside
<1>15. ASSUME NEW t \in Threads, NEW c \in Conditions, NEW kind \in {"signal", "broadcast"},
              cond_signal(t, c, kind)
       PROVE  RightOf(m)'
  <2>1. /\ UNCHANGED <<word, locked, owner, call>> /\ SameEntries(t) /\ pc[t] = "running"
    BY <1>15, GoToEffect DEF cond_signal, wordVars, pthreadVars, SameEntries
  <2> QED
    BY <1>6, <2>1 DEF Outside
<1>16. ASSUME UNCHANGED vars PROVE RightOf(m)'
  BY <1>1, <1>16 DEF vars, wordVars, pthreadVars, RightOf, Busy, Given, Giving, Switching
<1> QED
  BY <1>2, <1>3, <1>4, <1>5, <1>7, <1>8, <1>9, <1>10, <1>11, <1>12, <1>13, <1>14, <1>15,
     <1>16 DEF Next, TableStep, CallStep, pthread_mutex_lock

-----------------------------------------------------------------------------
(***************************************************************************)
(* The theorems.                                                           *)
(***************************************************************************)

LEMMA InitIInv == Init => IInv
<1> SUFFICES ASSUME Init PROVE IInv
  OBVIOUS
<1>1. TypeOK
  BY UserMutexAssumption DEF Init, TypeOK, ConditionInit, ConditionTypeOK, EntryStatus,
                             WaitStatus, PC
<1>2. PlaceInv
  BY DEF Init, PlaceInv, PlaceOf, InCondWait, Waiting
<1>3. TableInv /\ WaitingFlagInv
  BY DEF Init, TableInv, WaitingFlagInv, Distinct, InQueue, Waiting, Words
<1>4. EntryInv
  BY ThreadsFinite DEF Init, ConditionInit, EntryInv, EntryOf
<1>5. WaitersCounted
  <2>1. \A c \in Conditions : Waiters(c) = {} /\ waiter_count[c] = 0
    BY DEF Init, Waiters
  <2>2. \A c \in Conditions : CountOf(c)
    BY <2>1, FS_EmptySet DEF CountOf
  <2> QED
    BY <1>2, <2>2, CountedParts
<1>6. OwnInv
  BY DEF Init, OwnInv, OwnInvOf, Busy, Given, Giving, Switching, Waiting
<1>7. RightInv
  BY DEF Init, RightInv, RightOf, Words
<1> QED
  BY <1>1, <1>2, <1>3, <1>4, <1>5, <1>6, <1>7 DEF IInv

LEMMA NextIInv == IInv /\ [Next]_vars => IInv'
<1> SUFFICES ASSUME IInv, [Next]_vars PROVE IInv'
  OBVIOUS
<1> USE DEF IInv
<1>1. TypeOK'
  BY TypeStep
<1>2. PlaceInv'
  BY PlaceStep
<1>3. TableInv' /\ WaitingFlagInv'
  BY TableInvStep
<1>4. EntryInv'
  BY EntryStep
<1>5. WaitersCounted'
  BY <1>2, CountedStep
<1>6. OwnInv'
  BY OwnStep
<1>7. RightInv'
  BY RightStep
<1> QED
  BY <1>1, <1>2, <1>3, <1>4, <1>5, <1>6, <1>7

LEMMA SpecIInv == Spec => []IInv
  BY InitIInv, NextIInv, PTL DEF Spec

\* The variables keep their types: what a thread finds in the words, the table and
\* the objects it works on is what user_mutex.cpp and pthread_cond.cpp assume.
THEOREM UserMutexTypes == Spec => []TypeOK
<1>1. IInv => TypeOK
  BY DEF IInv
<1> QED
  BY <1>1, SpecIInv, PTL

\* The waiting flag of a word is set just as long as the kernel's table has an
\* entry for it, so that no unlock misses a waiter (user_mutex.cpp).
THEOREM WaitingFlagIsRight == Spec => []WaitingFlagInv
<1>1. IInv => WaitingFlagInv
  BY DEF IInv
<1> QED
  BY <1>1, SpecIInv, PTL

\* A condition variable counts its waiters, and knows their mutex (cond_wait() of
\* pthread_cond.cpp).
THEOREM CondWaitersAreCounted == Spec => []WaitersCounted
<1>1. IInv => WaitersCounted
  BY DEF IInv
<1> QED
  BY <1>1, SpecIInv, PTL

\* At most one thread has a pthread mutex, whatever signals and timeouts do to its
\* waiters, until the last of them gives up while an unlock that saw the waiting flag
\* is on its way to _user_mutex_unlock() (user_mutex.cpp, libroot's mutex.cpp).
THEOREM PthreadMutexExcludes == Spec => []MutualExclusion
<1>1. IInv => MutualExclusion
  <2> SUFFICES ASSUME IInv, NEW m \in Mutexes \ orphaned PROVE Cardinality(holders[m]) <= 1
    BY DEF MutualExclusion
  <2>1. holders[m] = {} \/ \E t : holders[m] = {t}
    BY DEF IInv, OwnInv, OwnInvOf
  <2>2. CASE holders[m] = {}
    BY <2>2, FS_EmptySet
  <2>3. CASE \E t : holders[m] = {t}
    <3> PICK t : holders[m] = {t}
      BY <2>3
    <3>1. Cardinality({t}) = 1
      BY FS_Singleton
    <3> QED
      BY <3>1
  <2> QED
    BY <2>1, <2>2, <2>3
<1> QED
  BY <1>1, SpecIInv, PTL

\* No pthread mutex is lost: while its word is not free, somebody owns it, has been
\* given it or is about to pass it on (the end of user_mutex_lock_locked(), where the
\* wait of the thread it was handed to may have been interrupted).
THEOREM NoPthreadMutexIsLost == Spec => []LockedIsOwned
<1>1. IInv => LockedIsOwned
  <2> SUFFICES ASSUME IInv, NEW m \in Mutexes \ orphaned, word[m] # {},
                      owner[m] # NoThread
               PROVE  holders[m] # {}
    BY DEF LockedIsOwned, IInv, RightInv, RightOf
  <2> QED
    BY DEF IInv, OwnInv, OwnInvOf
<1> QED
  BY <1>1, SpecIInv, PTL

\* Who gets a mutex leaves userland with a free word, or has been unblocked.
LEMMA HowToGetMutex ==
    ASSUME TypeOK, PlaceInv, EntryInv, [Next]_vars, NEW t \in Threads, NEW m \in Mutexes,
           t \in holders'[m] \ holders[m]
    PROVE  word[m] = {} \/ (t \in locked /\ pc[t] = "dequeue" /\ obj[t] = m)
<1>1. holders \in [Mutexes -> SUBSET Threads]
  BY DEF TypeOK
<1>2. ASSUME NEW u \in Threads, NEW w, Acquired(u, w) PROVE t = u /\ m = w
  BY <1>1, <1>2 DEF Acquired
<1>3. ASSUME NEW u \in Threads, NEW w, NEW r, KernelLockReturns(u, w, r)
      PROVE  t = u /\ m = w /\ r = "B_OK"
  BY <1>1, <1>2, <1>3, UserMutexAssumption DEF KernelLockReturns
<1>4. ASSUME NEW u \in Threads, user_mutex_lock(u) \/ user_mutex_switch_lock(u)
      PROVE  word[m] = {}
  <2>1. LockLocked(u, obj[u])
    BY <1>4 DEF user_mutex_lock, user_mutex_switch_lock
  <2> QED
    BY <1>3, <2>1 DEF LockLocked, FreeInKernel
<1>5. ASSUME NEW u \in Threads, user_mutex_lock_end(u)
      PROVE  t \in locked /\ pc[t] = "dequeue" /\ obj[t] = m
  <2>1. pc[u] = "dequeue"
        /\ KernelLockReturns(u, obj[u], LockResult(u))
    BY <1>5 DEF user_mutex_lock_end
  <2>2. t = u /\ m = obj[u] /\ (u \in locked \/ error[u] = "B_OK")
    BY <1>3, <2>1 DEF LockResult
  <2>3. u \in locked
    BY <2>1, <2>2 DEF EntryInv, EntryOf, EarlyResults
  <2> QED
    BY <2>1, <2>2, <2>3
<1>6. ASSUME NEW u \in Threads, NEW x \in Mutexes,
             pthread_mutex_lock(u, x) \/ pthread_mutex_trylock(u, x)
      PROVE  word[m] = {}
  BY <1>1, <1>2, <1>6 DEF pthread_mutex_lock, pthread_mutex_trylock, LockWord, Free
<1>7. ASSUME NEW u \in Threads, cond_wait_relock(u) PROVE word[m] = {}
  BY <1>1, <1>2, <1>7 DEF cond_wait_relock, LockWord, Free
<1>8. ASSUME NEW u \in Threads, NEW x \in Mutexes,
             \/ pthread_mutex_unlock(u, x)
             \/ \E c \in Conditions : cond_wait(u, c, x)
      PROVE  FALSE
  BY <1>1, <1>8 DEF pthread_mutex_unlock, cond_wait
<1>9. ASSUME holders' = holders PROVE FALSE
  BY <1>9
<1>10. ASSUME NEW u \in Threads,
              \/ user_mutex_switch_unlock(u) \/ user_mutex_unlock(u)
              \/ wait_notified(u) \/ wait_blocks(u) \/ wait_ends(u) \/ wait_given_up(u)
              \/ cond_wait_end(u)
              \/ \E x \in Mutexes : pthread_mutex_lock_again(u, x) \/ pthread_mutex_unlock_inner(u, x)
              \/ \E c \in Conditions, kind \in {"signal", "broadcast"} : cond_signal(u, c, kind)
       PROVE  holders' = holders
  BY <1>10 DEF user_mutex_switch_unlock, user_mutex_unlock, wait_notified, wait_blocks,
               wait_ends, wait_given_up, cond_wait_end, pthread_mutex_lock_again,
               pthread_mutex_unlock_inner, cond_signal, pthreadVars
<1>11. ASSUME UNCHANGED vars PROVE holders' = holders
  BY <1>11 DEF vars, pthreadVars
<1> QED
  BY <1>4, <1>5, <1>6, <1>7, <1>8, <1>9, <1>10, <1>11 DEF Next, TableStep, CallStep

\* Nobody overtakes a thread that has an entry in the kernel's table: the fast path
\* of mutex_lock() and the kernel's own check find the waiting flag, and the entry
\* a mutex is handed over to is the first one.
THEOREM PthreadMutexIsFair == Spec => NoOvertaking
<1>1. IInv /\ [Next]_vars =>
         [\A t \in Threads, m \in Mutexes :
             t \in holders'[m] \ holders[m] /\ table[m] # <<>>
                 => Head(table[m]) = t /\ t \in locked]_vars
  <2> SUFFICES ASSUME IInv, [Next]_vars, NEW t \in Threads, NEW m \in Mutexes,
                      t \in holders'[m] \ holders[m], table[m] # <<>>
               PROVE  Head(table[m]) = t /\ t \in locked
    OBVIOUS
  <2>1. m \in Words /\ table[m] \in Seq(Threads)
    BY DEF IInv, TypeOK, Words
  <2>2. word[m] # {}
    BY <2>1 DEF IInv, WaitingFlagInv
  <2>3. t \in locked /\ pc[t] = "dequeue" /\ obj[t] = m
    BY <2>2, HowToGetMutex DEF IInv
  <2>4. InQueue(table[m], t)
    BY <2>1, <2>3 DEF IInv, TableInv, Waiting
  <2>5. t = table[m][1]
    BY <2>3, <2>4 DEF IInv, TableInv, InQueue
  <2> QED
    BY <2>1, <2>3, <2>5
<1> QED
  BY <1>1, SpecIInv, PTL DEF Spec, NoOvertaking

=============================================================================
