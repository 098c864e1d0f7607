-------------------------- MODULE MutexDebugProofs --------------------------
(***************************************************************************)
(* Proofs about the debug build's mutex (module MutexDebug), for any       *)
(* number of threads and mutexes, with timeouts, switches, transfers and   *)
(* destruction.                                                            *)
(***************************************************************************)
EXTENDS MutexDebug, LockLemmas

(***************************************************************************)
(* The inductive invariant.  Its parts have holder, waiters, wait.status   *)
(* and the owners as parameters, so that they can be stated of the state   *)
(* between the two halves of mutex_switch_lock().                          *)
(***************************************************************************)

\* Whether t owns m, when wait.status and owned are ws and own.
HasMutex(t, m, ws, own) ==
    m \in own[t] \/ (pc[t] = "blocked" /\ obj[t] = m /\ ws[t] = "B_OK")

\* Nobody owns, or is given, what is destroyed; who sleeps is queued; and only the
\* waits for the mutexes made for it time out.
WaitsOf(t, w, ws, own) ==
    /\ \A m \in own[t] : m \notin destroyed
    /\ pc[t] = "blocked" =>
          /\ obj[t] \in Mutexes
          /\ ws[t] = "waiting" => InQueue(w[obj[t]], t)
          /\ t \in timed => obj[t] \in TimedMutexes
          /\ obj[t] \in destroyed => ws[t] # "B_OK"

\* The queue of m has those who sleep, or have just timed out; and m has a holder.
QueueOf(m, h, w, ws) ==
    /\ Distinct(w[m])
    /\ \A t \in Threads : InQueue(w[m], t) =>
          /\ pc[t] = "blocked" /\ obj[t] = m /\ ws[t] # "B_OK"
          /\ ws[t] # "waiting" => t \in timed /\ m \in TimedMutexes
    /\ m \in destroyed => w[m] = <<>> /\ Guard[m] # NoMutex
    /\ m \notin destroyed /\ w[m] # <<>> => h[m] # NoThread

\* The owner is the holder and, without timeouts, the holder is the owner.
HoldsOf(m, h, ws, own) ==
    m \notin destroyed =>
        /\ \A t \in Threads : HasMutex(t, m, ws, own) => h[m] = t
        /\ m \notin TimedMutexes => h[m] = NoThread \/ HasMutex(h[m], m, ws, own)

\* The invariant, for a state whose holder, waiters, ... are h, w, ...
DebugState(h, w, ws, own) ==
    /\ \A t \in Threads : WaitsOf(t, w, ws, own)
    /\ \A m \in Mutexes : QueueOf(m, h, w, ws) /\ HoldsOf(m, h, ws, own)

DebugInv == TypeOK /\ DebugState(holder, waiters, wait_status, owned)

\* The types of what the two sections under the spinlock compute.
DebugTypes(h, w, ws, own) ==
    /\ h \in [Mutexes -> Threads \cup {NoThread}] /\ w \in [Mutexes -> Seq(Threads)]
    /\ ws \in [Threads -> WaitStatus] /\ own \in [Threads -> SUBSET Mutexes]

ThreadPart ==
    /\ pc \in [Threads -> {"running", "blocked"}] /\ obj \in [Threads -> Mutexes \cup {NoMutex}]
    /\ timed \subseteq Threads /\ destroyed \subseteq Mutexes

LEMMA DebugParts ==
    ASSUME DebugInv
    PROVE  /\ ThreadPart /\ DebugTypes(holder, waiters, wait_status, owned)
           /\ DebugState(holder, waiters, wait_status, owned)
  BY DEF DebugInv, TypeOK, WaitStatus, ThreadPart, DebugTypes

\* _mutex_unlock(), for the owner t of m.
LEMMA DebugUnlock ==
    ASSUME DebugInv, NEW t \in Threads, NEW m \in Mutexes, pc[t] = "running", m \in owned[t]
    PROVE  /\ DebugTypes(UnlockedHolder(m), UnlockedWaiters(m), UnlockedStatus(m),
                         [owned EXCEPT ![t] = @ \ {m}])
           /\ DebugState(UnlockedHolder(m), UnlockedWaiters(m), UnlockedStatus(m),
                         [owned EXCEPT ![t] = @ \ {m}])
<1> DEFINE h == UnlockedHolder(m)
           w == UnlockedWaiters(m)
           ws == UnlockedStatus(m)
           own == [owned EXCEPT ![t] = @ \ {m}]
<1>1. /\ ThreadPart /\ DebugTypes(holder, waiters, wait_status, owned)
      /\ \A u \in Threads : WaitsOf(u, waiters, wait_status, owned)
      /\ \A n \in Mutexes : QueueOf(n, holder, waiters, wait_status) /\ HoldsOf(n, holder, wait_status, owned)
  BY DebugParts DEF DebugState
<1>2. m \notin destroyed /\ NoThread \notin Threads
  BY <1>1, ThreadsAssumption DEF WaitsOf
<1>3. \A u \in Threads : HasMutex(u, m, wait_status, owned) => u = t
  <2>1. holder[m] = t
    BY <1>1, <1>2 DEF HoldsOf, HasMutex
  <2> QED
    BY <1>1, <1>2, <2>1 DEF HoldsOf
<1>4. /\ own \in [Threads -> SUBSET Mutexes] /\ own[t] = owned[t] \ {m}
      /\ \A u \in Threads : u # t => own[u] = owned[u]
  BY <1>1 DEF DebugTypes
<1>5. CASE waiters[m] = <<>>
  <2>1. h = [holder EXCEPT ![m] = NoThread] /\ w = waiters /\ ws = wait_status
    BY <1>5 DEF UnlockedHolder, UnlockedWaiters, UnlockedStatus
  <2>2. /\ h \in [Mutexes -> Threads \cup {NoThread}] /\ h[m] = NoThread
        /\ \A n \in Mutexes : n # m => h[n] = holder[n]
    BY <1>1, <2>1 DEF DebugTypes
  <2> HIDE DEF h, w, ws, own
  <2>3. DebugTypes(h, w, ws, own)
    BY <1>1, <1>4, <2>1, <2>2 DEF DebugTypes
  <2>4. \A u \in Threads, n \in Mutexes :
           HasMutex(u, n, ws, own) <=> HasMutex(u, n, wait_status, owned) /\ n # m
    BY <1>3, <1>4, <2>1 DEF HasMutex
  <2>5. ASSUME NEW u \in Threads PROVE WaitsOf(u, w, ws, own)
    BY <1>1, <1>4, <2>1 DEF WaitsOf
  <2>6. ASSUME NEW n \in Mutexes PROVE QueueOf(n, h, w, ws) /\ HoldsOf(n, h, ws, own)
    <3>1. QueueOf(n, h, w, ws)
      BY <1>1, <1>5, <2>1, <2>2 DEF QueueOf
    <3>2. HoldsOf(n, h, ws, own)
      <4>1. CASE n = m
        BY <2>2, <2>4, <4>1 DEF HoldsOf
      <4>2. CASE n # m
        <5>1. HoldsOf(n, holder, wait_status, owned) /\ h[n] = holder[n] /\ holder[n] \in Threads \cup {NoThread}
          BY <1>1, <2>2, <4>2 DEF DebugTypes
        <5> QED
          BY <2>4, <4>2, <5>1 DEF HoldsOf
      <4> QED
        BY <4>1, <4>2
    <3> QED
      BY <3>1, <3>2
  <2>7. DebugState(h, w, ws, own)
    BY <2>5, <2>6 DEF DebugState
  <2> QED
    BY <2>3, <2>7 DEF h, w, ws, own
<1>6. CASE waiters[m] # <<>>
  <2>0. /\ waiters[m] \in Seq(Threads) /\ Distinct(waiters[m])
        /\ \A u \in Threads : InQueue(waiters[m], u) =>
              /\ pc[u] = "blocked" /\ obj[u] = m /\ wait_status[u] # "B_OK"
              /\ wait_status[u] # "waiting" => u \in timed /\ m \in TimedMutexes
    BY <1>1 DEF QueueOf, DebugTypes
  <2>1. PICK x \in Threads : x = Head(waiters[m]) /\ InQueue(waiters[m], x)
    BY <1>6, <2>0, TailFacts
  <2>2. /\ h = [holder EXCEPT ![m] = x] /\ w = [waiters EXCEPT ![m] = Tail(waiters[m])]
        /\ ws = IF wait_status[x] = "waiting" THEN [wait_status EXCEPT ![x] = "B_OK"] ELSE wait_status
    BY <1>6, <2>1 DEF UnlockedHolder, UnlockedWaiters, UnlockedStatus, HandOver,
                      thread_unblock_locked, thread_is_blocked
  <2>3. /\ h \in [Mutexes -> Threads \cup {NoThread}] /\ h[m] = x
        /\ \A n \in Mutexes : n # m => h[n] = holder[n]
    BY <1>1, <2>2 DEF DebugTypes
  <2>4. /\ Tail(waiters[m]) \in Seq(Threads) /\ Distinct(Tail(waiters[m]))
        /\ \A u : InQueue(Tail(waiters[m]), u) <=> u # x /\ InQueue(waiters[m], u)
    BY <1>6, <2>0, <2>1, TailFacts
  <2>5. /\ w \in [Mutexes -> Seq(Threads)] /\ w[m] = Tail(waiters[m])
        /\ \A n \in Mutexes : n # m => w[n] = waiters[n]
    BY <1>1, <2>2, <2>4 DEF DebugTypes
  <2>6. /\ ws \in [Threads -> WaitStatus]
        /\ \A u \in Threads : u # x => ws[u] = wait_status[u]
        /\ ws[x] = IF wait_status[x] = "waiting" THEN "B_OK" ELSE wait_status[x]
    BY <1>1, <2>2 DEF DebugTypes, WaitStatus
  <2>7. pc[x] = "blocked" /\ obj[x] = m /\ x # t /\ (m \notin TimedMutexes => ws[x] = "B_OK")
    BY <2>0, <2>1, <2>6
  <2> HIDE DEF h, w, ws, own
  <2>8. DebugTypes(h, w, ws, own)
    BY <1>4, <2>3, <2>5, <2>6 DEF DebugTypes
  <2>9. \A u \in Threads, n \in Mutexes : n # m =>
           (HasMutex(u, n, ws, own) <=> HasMutex(u, n, wait_status, owned))
    BY <1>4, <2>6, <2>7 DEF HasMutex
  <2>10. \A u \in Threads : HasMutex(u, m, ws, own) => u = x
    BY <1>3, <1>4, <2>6, <2>7 DEF HasMutex
  <2>11. ASSUME NEW u \in Threads PROVE WaitsOf(u, w, ws, own)
    <3>1. WaitsOf(u, waiters, wait_status, owned)
      BY <1>1
    <3>2. CASE u = x
      BY <1>2, <1>4, <2>6, <2>7, <3>1, <3>2 DEF WaitsOf
    <3>3. CASE u # x
      <4>1. \A n \in Mutexes : InQueue(waiters[n], u) => InQueue(w[n], u)
        BY <2>4, <2>5, <3>3
      <4> QED
        BY <1>4, <2>6, <3>1, <3>3, <4>1 DEF WaitsOf
    <3> QED
      BY <3>2, <3>3
  <2>12. ASSUME NEW n \in Mutexes PROVE QueueOf(n, h, w, ws) /\ HoldsOf(n, h, ws, own)
    <3>0. QueueOf(n, holder, waiters, wait_status) /\ HoldsOf(n, holder, wait_status, owned)
      BY <1>1
    <3>1. CASE n = m
      <4>1. QueueOf(n, h, w, ws)
        BY <1>2, <2>0, <2>3, <2>4, <2>5, <2>6, <3>1 DEF QueueOf
      <4>2. HoldsOf(n, h, ws, own)
        BY <2>3, <2>7, <2>10, <3>1 DEF HoldsOf, HasMutex
      <4> QED
        BY <4>1, <4>2
    <3>2. CASE n # m
      <4>1. ~InQueue(waiters[n], x)
        BY <2>7, <3>0, <3>2 DEF QueueOf
      <4>2. QueueOf(n, h, w, ws)
        <5>1. \A u \in Threads : InQueue(w[n], u) => InQueue(waiters[n], u) /\ ws[u] = wait_status[u]
          BY <2>5, <2>6, <3>2, <4>1
        <5>2. w[n] = waiters[n] /\ h[n] = holder[n]
          BY <2>3, <2>5, <3>2
        <5> QED
          BY <3>0, <5>1, <5>2 DEF QueueOf
      <4>3. HoldsOf(n, h, ws, own)
        <5>1. h[n] = holder[n] /\ holder[n] \in Threads \cup {NoThread}
          BY <1>1, <2>3, <3>2 DEF DebugTypes
        <5> QED
          BY <2>9, <3>0, <3>2, <5>1 DEF HoldsOf
      <4> QED
        BY <4>2, <4>3
    <3> QED
      BY <3>1, <3>2
  <2>13. DebugState(h, w, ws, own)
    BY <2>11, <2>12 DEF DebugState
  <2> QED
    BY <2>8, <2>13 DEF h, w, ws, own
<1> QED
  BY <1>5, <1>6

\* _mutex_lock() up to the wait, from any state that satisfies the invariant.
LEMMA DebugLock ==
    ASSUME NEW h, NEW w, NEW ws, NEW own, DebugTypes(h, w, ws, own), DebugState(h, w, ws, own), ThreadPart,
           NEW t \in Threads, NEW m \in Mutexes, pc[t] = "running", m \notin own[t], m \notin destroyed,
           LockSection(t, m, h, w, ws, own), destroyed' = destroyed,
           timed' \subseteq Threads, \A u \in Threads : u # t => (u \in timed' <=> u \in timed),
           t \in timed' => m \in TimedMutexes
    PROVE  DebugInv'
<1>1. /\ h \in [Mutexes -> Threads \cup {NoThread}] /\ w \in [Mutexes -> Seq(Threads)]
      /\ ws \in [Threads -> WaitStatus] /\ own \in [Threads -> SUBSET Mutexes]
      /\ pc \in [Threads -> {"running", "blocked"}] /\ obj \in [Threads -> Mutexes \cup {NoMutex}]
      /\ destroyed \subseteq Mutexes
      /\ \A u \in Threads : WaitsOf(u, w, ws, own)
      /\ \A n \in Mutexes : QueueOf(n, h, w, ws) /\ HoldsOf(n, h, ws, own)
      /\ NoThread \notin Threads
  BY ThreadsAssumption DEF DebugTypes, DebugState, ThreadPart
<1>2. CASE /\ h[m] = NoThread /\ holder' = [h EXCEPT ![m] = t]
           /\ owned' = [own EXCEPT ![t] = @ \cup {m}] /\ waiters' = w /\ wait_status' = ws
           /\ pc' = pc /\ obj' = obj
  <2>1. /\ holder' \in [Mutexes -> Threads \cup {NoThread}] /\ holder'[m] = t
        /\ \A n \in Mutexes : n # m => holder'[n] = h[n]
    BY <1>1, <1>2
  <2>2. /\ owned' \in [Threads -> SUBSET Mutexes] /\ owned'[t] = own[t] \cup {m}
        /\ \A u \in Threads : u # t => owned'[u] = own[u]
    BY <1>1, <1>2
  <2>3. TypeOK'
    BY <1>1, <1>2, <2>1, <2>2 DEF TypeOK, WaitStatus
  <2>4. ASSUME NEW u \in Threads PROVE WaitsOf(u, waiters, wait_status, owned)'
    <3>1. WaitsOf(u, w, ws, own)
      BY <1>1
    <3>2. CASE u = t
      BY <1>2, <2>2, <3>1, <3>2 DEF WaitsOf
    <3>3. CASE u # t
      BY <1>2, <2>2, <3>1, <3>3 DEF WaitsOf
    <3> QED
      BY <3>2, <3>3
  <2>5. ASSUME NEW n \in Mutexes PROVE QueueOf(n, holder, waiters, wait_status)'
    <3>1. QueueOf(n, h, w, ws)
      BY <1>1
    <3>2. h[n] # NoThread => holder'[n] # NoThread
      BY <1>1, <2>1
    <3> QED
      BY <1>2, <3>1, <3>2 DEF QueueOf
  <2>6. ASSUME NEW n \in Mutexes PROVE HoldsOf(n, holder, wait_status, owned)'
    <3>0. HoldsOf(n, h, ws, own) /\ h[n] \in Threads \cup {NoThread}
      BY <1>1
    <3>1. CASE n = m
      <4>1. \A u \in Threads : ~HasMutex(u, m, ws, own)
        BY <1>1, <1>2, <3>0, <3>1 DEF HoldsOf
      <4>2. \A u \in Threads : HasMutex(u, m, wait_status, owned)' => u = t
        BY <1>2, <2>2, <4>1 DEF HasMutex
      <4>3. HasMutex(t, m, wait_status, owned)'
        BY <2>2 DEF HasMutex
      <4> QED
        BY <2>1, <3>1, <4>2, <4>3 DEF HoldsOf, HasMutex
    <3>2. CASE n # m
      <4>1. \A u \in Threads : n \in owned'[u] <=> n \in own[u]
        BY <2>2, <3>2
      <4>2. holder'[n] = h[n]
        BY <2>1, <3>2
      <4> QED
        BY <1>2, <3>0, <4>1, <4>2 DEF HoldsOf, HasMutex
    <3> QED
      BY <3>1, <3>2
  <2> QED
    BY <2>3, <2>4, <2>5, <2>6 DEF DebugInv, DebugState
<1>3. CASE /\ h[m] # NoThread /\ waiters' = [w EXCEPT ![m] = Append(@, t)]
           /\ wait_status' = [ws EXCEPT ![t] = "waiting"] /\ pc' = [pc EXCEPT ![t] = "blocked"]
           /\ obj' = [obj EXCEPT ![t] = m] /\ holder' = h /\ owned' = own
  <2>1. /\ wait_status' \in [Threads -> WaitStatus] /\ wait_status'[t] = "waiting"
        /\ \A u \in Threads : u # t => wait_status'[u] = ws[u]
    BY <1>1, <1>3 DEF WaitStatus
  <2>2. /\ pc' \in [Threads -> {"running", "blocked"}] /\ pc'[t] = "blocked"
        /\ obj' \in [Threads -> Mutexes \cup {NoMutex}] /\ obj'[t] = m
        /\ \A u \in Threads : u # t => pc'[u] = pc[u] /\ obj'[u] = obj[u]
    BY <1>1, <1>3
  <2>3. \A n \in Mutexes : ~InQueue(w[n], t)
    BY <1>1 DEF QueueOf
  <2>4. /\ w[m] \in Seq(Threads) /\ Distinct(w[m]) /\ Append(w[m], t) \in Seq(Threads)
        /\ \A u : InQueue(Append(w[m], t), u) <=> u = t \/ InQueue(w[m], u)
        /\ Distinct(Append(w[m], t))
    <3>1. w[m] \in Seq(Threads) /\ Distinct(w[m])
      BY <1>1 DEF QueueOf
    <3> QED
      BY <2>3, <3>1, AppendFacts
  <2>5. /\ waiters' \in [Mutexes -> Seq(Threads)] /\ waiters'[m] = Append(w[m], t)
        /\ \A n \in Mutexes : n # m => waiters'[n] = w[n]
    BY <1>1, <1>3, <2>4
  <2>6. TypeOK'
    BY <1>1, <1>3, <2>1, <2>2, <2>5 DEF TypeOK, WaitStatus
  <2>7. ASSUME NEW u \in Threads PROVE WaitsOf(u, waiters, wait_status, owned)'
    <3>1. WaitsOf(u, w, ws, own)
      BY <1>1
    <3>2. CASE u = t
      <4>1. InQueue(waiters'[m], t)
        BY <2>4, <2>5
      <4>2. \A n \in owned'[t] : n \notin destroyed'
        BY <1>3, <3>1, <3>2 DEF WaitsOf
      <4> QED
        BY <2>1, <2>2, <3>2, <4>1, <4>2 DEF WaitsOf
    <3>3. CASE u # t
      <4>1. \A n \in Mutexes : InQueue(w[n], u) => InQueue(waiters'[n], u)
        BY <2>4, <2>5, <3>3
      <4>2. pc'[u] = pc[u] /\ obj'[u] = obj[u] /\ wait_status'[u] = ws[u] /\ owned'[u] = own[u]
            /\ (u \in timed' <=> u \in timed)
        BY <1>3, <2>1, <2>2, <3>3
      <4> QED
        BY <3>1, <3>3, <4>1, <4>2 DEF WaitsOf
    <3> QED
      BY <3>2, <3>3
  <2>8. ASSUME NEW n \in Mutexes PROVE QueueOf(n, holder, waiters, wait_status)'
    <3>1. QueueOf(n, h, w, ws)
      BY <1>1
    <3>2. CASE n = m
      <4>1. ASSUME NEW u \in Threads, InQueue(waiters'[n], u)
            PROVE  /\ pc'[u] = "blocked" /\ obj'[u] = n /\ wait_status'[u] # "B_OK"
                   /\ wait_status'[u] # "waiting" => u \in timed' /\ n \in TimedMutexes
        <5>1. CASE u = t
          BY <2>1, <2>2, <3>2, <5>1
        <5>2. CASE u # t
          <6>1. InQueue(w[n], u)
            BY <2>4, <2>5, <3>2, <4>1, <5>2
          <6> QED
            BY <2>1, <2>2, <3>1, <5>2, <6>1 DEF QueueOf
        <5> QED
          BY <5>1, <5>2
      <4>2. Distinct(waiters'[n]) /\ n \notin destroyed' /\ holder'[n] # NoThread
        BY <1>3, <2>4, <2>5, <3>2
      <4> QED
        BY <4>1, <4>2 DEF QueueOf
    <3>3. CASE n # m
      <4>1. waiters'[n] = w[n] /\ holder'[n] = h[n]
        BY <1>3, <2>5, <3>3
      <4>2. \A u \in Threads : InQueue(w[n], u) =>
               pc'[u] = pc[u] /\ obj'[u] = obj[u] /\ wait_status'[u] = ws[u]
        BY <2>1, <2>2, <2>3
      <4> QED
        BY <3>1, <4>1, <4>2 DEF QueueOf
    <3> QED
      BY <3>2, <3>3
  <2>9. ASSUME NEW n \in Mutexes PROVE HoldsOf(n, holder, wait_status, owned)'
    <3>1. HoldsOf(n, h, ws, own) /\ h[n] \in Threads \cup {NoThread}
      BY <1>1
    <3>2. \A u \in Threads : HasMutex(u, n, wait_status, owned)' <=> HasMutex(u, n, ws, own)
      BY <1>3, <2>1, <2>2 DEF HasMutex
    <3>3. holder'[n] = h[n]
      BY <1>3
    <3> QED
      BY <1>3, <2>1, <2>2, <3>1, <3>2, <3>3 DEF HoldsOf, HasMutex
  <2> QED
    BY <2>6, <2>7, <2>8, <2>9 DEF DebugInv, DebugState
<1> QED
  BY <1>2, <1>3 DEF LockSection, LockFree, thread_prepare_to_block

\* A thread returns from its wait, with the mutex or without it.
LEMMA DebugReturn ==
    ASSUME DebugInv, NEW t \in Threads, mutex_lock_return(t)
    PROVE  DebugInv'
<1> DEFINE m == obj[t]
<1>1. /\ holder \in [Mutexes -> Threads \cup {NoThread}] /\ waiters \in [Mutexes -> Seq(Threads)]
      /\ wait_status \in [Threads -> WaitStatus] /\ owned \in [Threads -> SUBSET Mutexes]
      /\ pc \in [Threads -> {"running", "blocked"}] /\ obj \in [Threads -> Mutexes \cup {NoMutex}]
      /\ timed \subseteq Threads /\ destroyed \subseteq Mutexes
      /\ \A u \in Threads : WaitsOf(u, waiters, wait_status, owned)
      /\ \A n \in Mutexes : QueueOf(n, holder, waiters, wait_status) /\ HoldsOf(n, holder, wait_status, owned)
      /\ NoThread \notin Threads
  BY DebugParts, ThreadsAssumption DEF DebugTypes, DebugState, ThreadPart
<1>2. /\ pc[t] = "blocked" /\ wait_status[t] # "waiting" /\ pc' = [pc EXCEPT ![t] = "running"]
      /\ destroyed' = destroyed /\ wait_status' = wait_status /\ obj' = obj /\ timed' = timed
  BY DEF mutex_lock_return, thread_is_blocked
<1>3. /\ pc' \in [Threads -> {"running", "blocked"}] /\ pc'[t] = "running" /\ m \in Mutexes
      /\ \A u \in Threads : u # t => pc'[u] = pc[u]
  BY <1>1, <1>2 DEF WaitsOf
<1> HIDE DEF m
<1>4. CASE wait_status[t] = "B_OK"
  <2>1. /\ holder' = [holder EXCEPT ![m] = t] /\ owned' = [owned EXCEPT ![t] = @ \cup {m}]
        /\ waiters' = waiters
    BY <1>4 DEF mutex_lock_return, m
  <2>2. m \notin destroyed
    BY <1>1, <1>2, <1>4 DEF WaitsOf, m
  <2>3. holder[m] = t
    BY <1>1, <1>2, <1>3, <1>4, <2>2 DEF HoldsOf, HasMutex, m
  <2>4. holder' = holder
    BY <1>1, <1>3, <2>1, <2>3
  <2>5. /\ owned' \in [Threads -> SUBSET Mutexes] /\ owned'[t] = owned[t] \cup {m}
        /\ \A u \in Threads : u # t => owned'[u] = owned[u]
    BY <1>1, <1>3, <2>1
  <2>6. TypeOK'
    BY <1>1, <1>2, <1>3, <2>1, <2>4, <2>5 DEF TypeOK, WaitStatus
  <2>7. \A u \in Threads, n \in Mutexes :
           HasMutex(u, n, wait_status, owned)' <=> HasMutex(u, n, wait_status, owned)
    BY <1>2, <1>3, <1>4, <2>5 DEF HasMutex, m
  <2>8. ASSUME NEW u \in Threads PROVE WaitsOf(u, waiters, wait_status, owned)'
    <3>1. WaitsOf(u, waiters, wait_status, owned)
      BY <1>1
    <3>2. CASE u = t
      BY <1>2, <1>3, <2>2, <2>5, <3>1, <3>2 DEF WaitsOf
    <3>3. CASE u # t
      BY <1>2, <1>3, <2>1, <2>5, <3>1, <3>3 DEF WaitsOf
    <3> QED
      BY <3>2, <3>3
  <2>9. ASSUME NEW n \in Mutexes
        PROVE  QueueOf(n, holder, waiters, wait_status)' /\ HoldsOf(n, holder, wait_status, owned)'
    <3>1. QueueOf(n, holder, waiters, wait_status) /\ HoldsOf(n, holder, wait_status, owned)
          /\ holder[n] \in Threads \cup {NoThread}
      BY <1>1
    <3>2. QueueOf(n, holder, waiters, wait_status)'
      <4>1. ~InQueue(waiters[n], t)
        BY <1>4, <3>1 DEF QueueOf
      <4> QED
        BY <1>2, <1>3, <2>1, <2>4, <3>1, <4>1 DEF QueueOf
    <3>3. HoldsOf(n, holder, wait_status, owned)'
      <4>1. HoldsOf(n, holder, wait_status, owned)' <=>
              (n \notin destroyed' =>
                  /\ \A u \in Threads : HasMutex(u, n, wait_status, owned)' => holder'[n] = u
                  /\ n \notin TimedMutexes =>
                        holder'[n] = NoThread
                        \/ (n \in owned'[holder'[n]] \/ (pc'[holder'[n]] = "blocked" /\ obj'[holder'[n]] = n
                                                        /\ wait_status'[holder'[n]] = "B_OK")))
        BY DEF HoldsOf, HasMutex
      <4> QED
        BY <1>2, <1>3, <1>4, <2>4, <2>5, <2>7, <3>1, <4>1 DEF HoldsOf, HasMutex, m
    <3> QED
      BY <3>2, <3>3
  <2> QED
    BY <2>6, <2>8, <2>9 DEF DebugInv, DebugState
<1>5. CASE wait_status[t] # "B_OK"
  <2>1. /\ holder' = holder /\ owned' = owned
        /\ waiters' = IF t \in timed /\ InQueue(waiters[m], t) THEN [waiters EXCEPT ![m] = Dequeue(waiters[m], t)]
                      ELSE waiters
    BY <1>5 DEF mutex_lock_return, InQueue, Dequeue,
                Position, Position, m
  <2>2. ASSUME NEW n \in Mutexes
        PROVE  /\ waiters'[n] \in Seq(Threads) /\ Distinct(waiters'[n])
               /\ \A u \in Threads : u # t => (InQueue(waiters'[n], u) <=> InQueue(waiters[n], u))
               /\ ~InQueue(waiters'[n], t)
               /\ waiters[n] = <<>> => waiters'[n] = <<>>
    <3>0. QueueOf(n, holder, waiters, wait_status) /\ waiters[n] \in Seq(Threads)
      BY <1>1
    <3>1. CASE n = m /\ InQueue(waiters[m], t)
      <4>1. t \in timed
        BY <1>2, <3>0, <3>1 DEF QueueOf
      <4>2. waiters'[n] = Dequeue(waiters[n], t)
        BY <1>1, <1>3, <2>1, <3>1, <4>1
      <4>3. /\ Dequeue(waiters[n], t) \in Seq(Threads) /\ Distinct(Dequeue(waiters[n], t))
            /\ \A u : InQueue(Dequeue(waiters[n], t), u) <=> u # t /\ InQueue(waiters[n], u)
        BY <3>0, <3>1, DequeueType, DequeueFacts DEF QueueOf
      <4>4. waiters[n] # <<>>
        BY <3>1 DEF InQueue
      <4> QED
        BY <4>2, <4>3, <4>4
    <3>2. CASE ~(n = m /\ InQueue(waiters[m], t))
      <4>1. waiters'[n] = waiters[n]
        BY <1>1, <1>3, <2>1, <3>2
      <4>2. ~InQueue(waiters[n], t)
        BY <3>0, <3>2 DEF QueueOf, m
      <4> QED
        BY <3>0, <4>1, <4>2 DEF QueueOf
    <3> QED
      BY <3>1, <3>2
  <2>3. TypeOK'
    <3>1. waiters' \in [Mutexes -> Seq(Threads)]
      BY <1>1, <2>1, <2>2
    <3> QED
      BY <1>1, <1>2, <1>3, <2>1, <3>1 DEF TypeOK, WaitStatus
  <2>4. ASSUME NEW u \in Threads PROVE WaitsOf(u, waiters, wait_status, owned)'
    <3>1. WaitsOf(u, waiters, wait_status, owned)
      BY <1>1
    <3>2. CASE u = t
      BY <1>2, <1>3, <2>1, <3>1, <3>2 DEF WaitsOf
    <3>3. CASE u # t
      BY <1>2, <1>3, <2>1, <2>2, <3>1, <3>3 DEF WaitsOf
    <3> QED
      BY <3>2, <3>3
  <2>5. \A u \in Threads, n \in Mutexes :
           HasMutex(u, n, wait_status, owned)' <=> HasMutex(u, n, wait_status, owned)
    BY <1>2, <1>3, <1>5, <2>1 DEF HasMutex
  <2>6. ASSUME NEW n \in Mutexes
        PROVE  QueueOf(n, holder, waiters, wait_status)' /\ HoldsOf(n, holder, wait_status, owned)'
    <3>1. QueueOf(n, holder, waiters, wait_status) /\ HoldsOf(n, holder, wait_status, owned)
          /\ holder[n] \in Threads \cup {NoThread}
      BY <1>1
    <3>2. QueueOf(n, holder, waiters, wait_status)'
      BY <1>2, <1>3, <2>1, <2>2, <3>1 DEF QueueOf
    <3>3. HoldsOf(n, holder, wait_status, owned)'
      BY <1>2, <1>3, <1>5, <2>1, <2>5, <3>1 DEF HoldsOf, HasMutex
    <3> QED
      BY <3>2, <3>3
  <2> QED
    BY <2>3, <2>4, <2>6 DEF DebugInv, DebugState
<1> QED
  BY <1>4, <1>5

\* A step that leaves the threads where they are.
LEMMA DebugFrame ==
    ASSUME NEW h, NEW w, NEW ws, NEW own, DebugTypes(h, w, ws, own), DebugState(h, w, ws, own), ThreadPart,
           holder' = h, waiters' = w, wait_status' = ws, owned' = own,
           pc' = pc, obj' = obj, timed' = timed, destroyed' = destroyed
    PROVE  DebugInv'
<1>1. TypeOK'
  BY DEF DebugTypes, ThreadPart, TypeOK, WaitStatus
<1>2. ASSUME NEW t \in Threads PROVE WaitsOf(t, waiters, wait_status, owned)'
  BY DEF DebugState, WaitsOf
<1>3. ASSUME NEW m \in Mutexes
      PROVE  QueueOf(m, holder, waiters, wait_status)' /\ HoldsOf(m, holder, wait_status, owned)'
  <2>1. QueueOf(m, h, w, ws) /\ HoldsOf(m, h, ws, own)
    BY DEF DebugState
  <2>2. QueueOf(m, holder, waiters, wait_status)'
    BY <2>1 DEF QueueOf
  <2>3. HoldsOf(m, holder, wait_status, owned)'
    BY <2>1 DEF HoldsOf, HasMutex
  <2> QED
    BY <2>2, <2>3
<1> QED
  BY <1>1, <1>2, <1>3 DEF DebugInv, DebugState

\* A free mutex is taken; the caller's waits are over.
LEMMA DebugTry ==
    ASSUME DebugTypes(holder, waiters, wait_status, owned), DebugState(holder, waiters, wait_status, owned),
           ThreadPart, NEW t \in Threads, NEW m \in Mutexes,
           pc[t] = "running", m \notin destroyed, holder[m] = NoThread,
           holder' = [holder EXCEPT ![m] = t], owned' = [owned EXCEPT ![t] = @ \cup {m}],
           waiters' = waiters, destroyed' = destroyed, wait_status' = wait_status,
           pc' = pc, obj' = obj, timed' = timed
    PROVE  DebugInv'
<1> DEFINE h == [holder EXCEPT ![m] = t]
           own == [owned EXCEPT ![t] = @ \cup {m}]
<1>1. /\ h \in [Mutexes -> Threads \cup {NoThread}] /\ h[m] = t
      /\ \A n \in Mutexes : n # m => h[n] = holder[n]
  BY DEF DebugTypes
<1>2. /\ own \in [Threads -> SUBSET Mutexes] /\ own[t] = owned[t] \cup {m}
      /\ \A u \in Threads : u # t => own[u] = owned[u]
  BY DEF DebugTypes
<1>3. holder' = h /\ owned' = own /\ NoThread \notin Threads
  BY ThreadsAssumption
<1> HIDE DEF h, own
<1>4. DebugTypes(h, waiters, wait_status, own)
  BY <1>1, <1>2 DEF DebugTypes
<1>5. ASSUME NEW u \in Threads PROVE WaitsOf(u, waiters, wait_status, own)
  <2>1. WaitsOf(u, waiters, wait_status, owned)
    BY DEF DebugState
  <2> QED
    BY <1>2, <2>1 DEF WaitsOf
<1>6. ASSUME NEW n \in Mutexes PROVE QueueOf(n, h, waiters, wait_status) /\ HoldsOf(n, h, wait_status, own)
  <2>1. QueueOf(n, holder, waiters, wait_status) /\ HoldsOf(n, holder, wait_status, owned)
        /\ holder[n] \in Threads \cup {NoThread}
    BY DEF DebugState, DebugTypes
  <2>2. QueueOf(n, h, waiters, wait_status)
    <3>1. holder[n] # NoThread => h[n] # NoThread
      BY <1>1
    <3> QED
      BY <2>1, <3>1 DEF QueueOf
  <2>3. HoldsOf(n, h, wait_status, own)
    <3>1. CASE n = m
      <4>1. \A u \in Threads : ~HasMutex(u, m, wait_status, owned)
        BY <1>3, <2>1, <3>1 DEF HoldsOf
      <4>2. \A u \in Threads : HasMutex(u, m, wait_status, own) => u = t
        BY <1>2, <4>1 DEF HasMutex
      <4>3. HasMutex(t, m, wait_status, own)
        BY <1>2 DEF HasMutex
      <4> QED
        BY <1>1, <3>1, <4>2, <4>3 DEF HoldsOf
    <3>2. CASE n # m
      <4>1. \A u \in Threads : HasMutex(u, n, wait_status, own) <=> HasMutex(u, n, wait_status, owned)
        BY <1>2, <3>2 DEF HasMutex
      <4> QED
        BY <1>1, <2>1, <3>2, <4>1 DEF HoldsOf
    <3> QED
      BY <3>1, <3>2
  <2> QED
    BY <2>2, <2>3
<1>7. DebugState(h, waiters, wait_status, own)
  BY <1>5, <1>6 DEF DebugState
<1> QED
  BY <1>3, <1>4, <1>7, DebugFrame

\* mutex_lock(), mutex_lock_with_timeout() and mutex_trylock().
LEMMA DebugLockStep ==
    ASSUME DebugInv, NEW t \in Threads, NEW m \in Mutexes,
           \/ mutex_lock(t, m) \/ mutex_lock_with_timeout(t, m) \/ mutex_trylock(t, m)
    PROVE  DebugInv'
<1>1. /\ ThreadPart /\ DebugTypes(holder, waiters, wait_status, owned)
      /\ DebugState(holder, waiters, wait_status, owned)
  BY DebugParts
<1>2. CASE mutex_lock(t, m) \/ mutex_lock_with_timeout(t, m)
  <2>1. /\ pc[t] = "running" /\ MayLock(t, m) /\ destroyed' = destroyed
        /\ LockSection(t, m, holder, waiters, wait_status, owned)
        /\ timed' = timed \ {t} \/ (timed' = timed \cup {t} /\ m \in TimedMutexes)
    BY <1>2 DEF mutex_lock, mutex_lock_with_timeout
  <2>2. m \notin owned[t] /\ m \notin destroyed
    <3>1. Guard[m] = NoMutex /\ \A h \in owned[t] : Guard[h] = m
      BY <2>1 DEF MayLock
    <3>2. QueueOf(m, holder, waiters, wait_status)
      BY <1>1 DEF DebugState
    <3> QED
      BY <3>1, <3>2, GuardAssumption DEF QueueOf
  <2>3. /\ timed' \subseteq Threads /\ \A u \in Threads : u # t => (u \in timed' <=> u \in timed)
        /\ t \in timed' => m \in TimedMutexes
    BY <1>1, <2>1 DEF ThreadPart
  <2> QED
    BY <1>1, <2>1, <2>2, <2>3, DebugLock
<1>3. CASE mutex_trylock(t, m)
  <2>1. /\ pc[t] = "running" /\ m \notin destroyed /\ m \notin owned[t] /\ holder[m] = NoThread
        /\ holder' = [holder EXCEPT ![m] = t] /\ owned' = [owned EXCEPT ![t] = @ \cup {m}]
        /\ waiters' = waiters /\ destroyed' = destroyed /\ wait_status' = wait_status
        /\ pc' = pc /\ obj' = obj /\ timed' = timed
    BY <1>3 DEF mutex_trylock, MayTryLock, LockFree
  <2> QED
    BY <1>1, <2>1, DebugTry
<1> QED
  BY <1>2, <1>3

LEMMA DebugUnlockStep ==
    ASSUME DebugInv, NEW t \in Threads, NEW m \in Mutexes, mutex_unlock(t, m)
    PROVE  DebugInv'
<1> DEFINE h == UnlockedHolder(m)
           w == UnlockedWaiters(m)
           ws == UnlockedStatus(m)
           own == [owned EXCEPT ![t] = @ \ {m}]
<1>1. /\ pc[t] = "running" /\ m \in owned[t]
      /\ holder' = h /\ waiters' = w /\ wait_status' = ws /\ owned' = own
      /\ pc' = pc /\ obj' = obj /\ timed' = timed /\ destroyed' = destroyed
  BY DEF mutex_unlock
<1>2. DebugTypes(h, w, ws, own) /\ DebugState(h, w, ws, own) /\ ThreadPart
  BY <1>1, DebugUnlock, DebugParts
<1> HIDE DEF h, w, ws, own
<1> QED
  BY <1>1, <1>2, DebugFrame

\* mutex_switch_lock(): an unlock and a lock in one section under the spinlock.
LEMMA DebugSwitchStep ==
    ASSUME DebugInv, NEW t \in Threads, NEW from \in Mutexes, NEW to \in Mutexes,
           mutex_switch_lock(t, from, to)
    PROVE  DebugInv'
<1> DEFINE h == UnlockedHolder(from)
           w == UnlockedWaiters(from)
           ws == UnlockedStatus(from)
           own == [owned EXCEPT ![t] = @ \ {from}]
<1>1. /\ pc[t] = "running" /\ owned[t] = {from} /\ to \notin destroyed /\ destroyed' = destroyed
      /\ timed' = timed \ {t} /\ LockSection(t, to, h, w, ws, own)
  BY DEF mutex_switch_lock, MaySwitch
<1>2. DebugTypes(h, w, ws, own) /\ DebugState(h, w, ws, own) /\ ThreadPart
  BY <1>1, DebugUnlock, DebugParts
<1>3. to \notin own[t]
  <2>1. owned \in [Threads -> SUBSET Mutexes]
    BY DebugParts DEF DebugTypes
  <2> QED
    BY <1>1, <2>1
<1> HIDE DEF h, w, ws, own
<1>4. /\ timed' \subseteq Threads /\ \A u \in Threads : u # t => (u \in timed' <=> u \in timed)
      /\ t \in timed' => to \in TimedMutexes
  BY <1>1, <1>2 DEF ThreadPart
<1> QED
  BY <1>1, <1>2, <1>3, <1>4, DebugLock

LEMMA DebugTimeoutStep ==
    ASSUME DebugInv, NEW t \in Threads, thread_block_timeout(t)
    PROVE  DebugInv'
<1>1. /\ holder \in [Mutexes -> Threads \cup {NoThread}] /\ waiters \in [Mutexes -> Seq(Threads)]
      /\ wait_status \in [Threads -> WaitStatus] /\ owned \in [Threads -> SUBSET Mutexes] /\ ThreadPart
      /\ \A u \in Threads : WaitsOf(u, waiters, wait_status, owned)
      /\ \A n \in Mutexes : QueueOf(n, holder, waiters, wait_status) /\ HoldsOf(n, holder, wait_status, owned)
      /\ NoThread \notin Threads
  BY DebugParts, ThreadsAssumption DEF DebugTypes, DebugState
<1> DEFINE ws == [wait_status EXCEPT ![t] = "B_TIMED_OUT"]
<1>2. /\ pc[t] = "blocked" /\ t \in timed /\ wait_status[t] = "waiting" /\ wait_status' = ws
      /\ holder' = holder /\ waiters' = waiters /\ destroyed' = destroyed
      /\ pc' = pc /\ obj' = obj /\ timed' = timed /\ owned' = owned
  BY DEF thread_block_timeout, thread_is_blocked, thread_unblock_locked
<1>3. /\ ws \in [Threads -> WaitStatus] /\ ws[t] = "B_TIMED_OUT"
      /\ \A u \in Threads : u # t => ws[u] = wait_status[u]
  BY <1>1 DEF WaitStatus
<1> HIDE DEF ws
<1>4. ASSUME NEW u \in Threads PROVE WaitsOf(u, waiters, ws, owned)
  <2>1. WaitsOf(u, waiters, wait_status, owned)
    BY <1>1
  <2> QED
    BY <1>3, <2>1 DEF WaitsOf
<1>5. ASSUME NEW n \in Mutexes PROVE QueueOf(n, holder, waiters, ws) /\ HoldsOf(n, holder, ws, owned)
  <2>1. QueueOf(n, holder, waiters, wait_status) /\ HoldsOf(n, holder, wait_status, owned)
        /\ holder[n] \in Threads \cup {NoThread} /\ WaitsOf(t, waiters, wait_status, owned)
    BY <1>1
  <2>2. QueueOf(n, holder, waiters, ws)
    BY <1>2, <1>3, <2>1 DEF QueueOf, WaitsOf
  <2>3. HoldsOf(n, holder, ws, owned)
    BY <1>2, <1>3, <2>1 DEF HoldsOf, HasMutex
  <2> QED
    BY <2>2, <2>3
<1>6. DebugTypes(holder, waiters, ws, owned) /\ DebugState(holder, waiters, ws, owned)
  BY <1>1, <1>3, <1>4, <1>5 DEF DebugTypes, DebugState
<1> QED
  BY <1>1, <1>2, <1>6, DebugFrame

\* mutex_transfer_lock(): the owner makes another thread the owner and the holder.
LEMMA DebugTransferStep ==
    ASSUME DebugInv, NEW t \in Threads, NEW m \in Mutexes, NEW u \in Threads,
           mutex_transfer_lock(t, m, u)
    PROVE  DebugInv'
<1>1. /\ holder \in [Mutexes -> Threads \cup {NoThread}] /\ waiters \in [Mutexes -> Seq(Threads)]
      /\ wait_status \in [Threads -> WaitStatus] /\ owned \in [Threads -> SUBSET Mutexes] /\ ThreadPart
      /\ \A v \in Threads : WaitsOf(v, waiters, wait_status, owned)
      /\ \A n \in Mutexes : QueueOf(n, holder, waiters, wait_status) /\ HoldsOf(n, holder, wait_status, owned)
      /\ NoThread \notin Threads
  BY DebugParts, ThreadsAssumption DEF DebugTypes, DebugState
<1> DEFINE h == [holder EXCEPT ![m] = u]
           own == [owned EXCEPT ![t] = {}, ![u] = {m}]
<1>2. /\ pc[t] = "running" /\ owned[t] = {m} /\ u # t /\ pc[u] = "running" /\ owned[u] = {}
      /\ holder' = h /\ owned' = own /\ waiters' = waiters /\ destroyed' = destroyed
      /\ wait_status' = wait_status /\ pc' = pc /\ obj' = obj /\ timed' = timed
  BY DEF mutex_transfer_lock
<1>3. /\ h \in [Mutexes -> Threads \cup {NoThread}] /\ h[m] = u
      /\ \A n \in Mutexes : n # m => h[n] = holder[n]
  BY <1>1
<1>4. /\ own \in [Threads -> SUBSET Mutexes] /\ own[t] = {} /\ own[u] = {m}
      /\ \A v \in Threads : v # t /\ v # u => own[v] = owned[v]
  BY <1>1, <1>2
<1> HIDE DEF h, own
<1>5. m \notin destroyed
  BY <1>1, <1>2 DEF WaitsOf
<1>6. \A v \in Threads : HasMutex(v, m, wait_status, owned) => v = t
  <2>1. holder[m] = t
    BY <1>1, <1>2, <1>5 DEF HoldsOf, HasMutex
  <2> QED
    BY <1>1, <1>5, <2>1 DEF HoldsOf
<1>7. ASSUME NEW v \in Threads PROVE WaitsOf(v, waiters, wait_status, own)
  <2>1. WaitsOf(v, waiters, wait_status, owned)
    BY <1>1
  <2>2. \A n \in own[v] : n \notin destroyed
    <3>1. CASE v = t
      BY <1>4, <3>1
    <3>2. CASE v = u
      BY <1>4, <1>5, <3>2
    <3>3. CASE v # t /\ v # u
      BY <1>4, <2>1, <3>3 DEF WaitsOf
    <3> QED
      BY <3>1, <3>2, <3>3
  <2> QED
    BY <2>1, <2>2 DEF WaitsOf
<1>8. ASSUME NEW n \in Mutexes PROVE QueueOf(n, h, waiters, wait_status) /\ HoldsOf(n, h, wait_status, own)
  <2>1. QueueOf(n, holder, waiters, wait_status) /\ HoldsOf(n, holder, wait_status, owned)
        /\ holder[n] \in Threads \cup {NoThread}
    BY <1>1
  <2>2. QueueOf(n, h, waiters, wait_status)
    <3>1. holder[n] # NoThread => h[n] # NoThread
      BY <1>1, <1>3
    <3> QED
      BY <2>1, <3>1 DEF QueueOf
  <2>3. HoldsOf(n, h, wait_status, own)
    <3>1. CASE n = m
      <4>1. \A v \in Threads : HasMutex(v, m, wait_status, own) => v = u
        BY <1>2, <1>4, <1>6 DEF HasMutex
      <4>2. HasMutex(u, m, wait_status, own)
        BY <1>4 DEF HasMutex
      <4> QED
        BY <1>3, <3>1, <4>1, <4>2 DEF HoldsOf
    <3>2. CASE n # m
      <4>1. \A v \in Threads : n \in own[v] <=> n \in owned[v]
        BY <1>2, <1>4, <3>2
      <4>2. \A v \in Threads : HasMutex(v, n, wait_status, own) <=> HasMutex(v, n, wait_status, owned)
        BY <4>1 DEF HasMutex
      <4> QED
        BY <1>3, <2>1, <3>2, <4>2 DEF HoldsOf
    <3> QED
      BY <3>1, <3>2
  <2> QED
    BY <2>2, <2>3
<1>9. DebugTypes(h, waiters, wait_status, own) /\ DebugState(h, waiters, wait_status, own)
  BY <1>1, <1>3, <1>4, <1>7, <1>8 DEF DebugTypes, DebugState
<1> QED
  BY <1>1, <1>2, <1>9, DebugFrame

\* mutex_destroy(): whoever sleeps is sent away with B_ERROR; nobody owns the mutex
\* but the caller, so nobody is on its way to return with it.
LEMMA DebugDestroyStep ==
    ASSUME DebugInv, NEW t \in Threads, NEW m \in Mutexes, mutex_destroy(t, m)
    PROVE  DebugInv'
<1>1. /\ holder \in [Mutexes -> Threads \cup {NoThread}] /\ waiters \in [Mutexes -> Seq(Threads)]
      /\ wait_status \in [Threads -> WaitStatus] /\ owned \in [Threads -> SUBSET Mutexes] /\ ThreadPart
      /\ \A u \in Threads : WaitsOf(u, waiters, wait_status, owned)
      /\ \A n \in Mutexes : QueueOf(n, holder, waiters, wait_status) /\ HoldsOf(n, holder, wait_status, owned)
      /\ NoThread \notin Threads
  BY DebugParts, ThreadsAssumption DEF DebugTypes, DebugState
<1>2. /\ pc[t] = "running" /\ Guard[m] # NoMutex /\ m \in owned[t]
      /\ holder' = holder /\ pc' = pc /\ obj' = obj /\ timed' = timed
      /\ destroyed' = destroyed \cup {m} /\ waiters' = [waiters EXCEPT ![m] = <<>>]
      /\ owned' = [owned EXCEPT ![t] = @ \ {m}]
  BY DEF mutex_destroy, MayDestroy
<1>3. wait_status' = [u \in DOMAIN wait_status |->
                        IF u \in {v \in Threads : InQueue(waiters[m], v)}
                        THEN (IF wait_status[u] = "waiting" THEN [wait_status EXCEPT ![u] = "B_ERROR"]
                              ELSE wait_status)[u]
                        ELSE wait_status[u]]
  BY DEF mutex_destroy, thread_unblock_each, thread_unblock_locked,
         thread_is_blocked, InQueue, InQueue
<1>4. /\ wait_status' \in [Threads -> WaitStatus]
      /\ \A u \in Threads :
            IF InQueue(waiters[m], u) /\ wait_status[u] = "waiting" THEN wait_status'[u] = "B_ERROR"
            ELSE wait_status'[u] = wait_status[u]
  BY <1>1, <1>3 DEF WaitStatus
<1>5. /\ waiters' \in [Mutexes -> Seq(Threads)] /\ waiters'[m] = <<>>
      /\ \A n \in Mutexes : n # m => waiters'[n] = waiters[n]
  BY <1>1, <1>2
<1>6. /\ owned' \in [Threads -> SUBSET Mutexes] /\ owned'[t] = owned[t] \ {m}
      /\ \A u \in Threads : u # t => owned'[u] = owned[u]
  BY <1>1, <1>2
<1>7. /\ m \notin destroyed
      /\ \A u \in Threads : HasMutex(u, m, wait_status, owned) => u = t
  <2>1. m \notin destroyed
    BY <1>1, <1>2 DEF WaitsOf
  <2>2. holder[m] = t
    BY <1>1, <1>2, <2>1 DEF HoldsOf, HasMutex
  <2> QED
    BY <1>1, <2>1, <2>2 DEF HoldsOf
<1>8. \A u \in Threads : m \notin owned'[u]
  BY <1>6, <1>7 DEF HasMutex
<1>9. TypeOK'
  BY <1>1, <1>2, <1>4, <1>5, <1>6 DEF TypeOK, WaitStatus, ThreadPart
<1>10. ASSUME NEW u \in Threads PROVE WaitsOf(u, waiters, wait_status, owned)'
  <2>1. WaitsOf(u, waiters, wait_status, owned)
    BY <1>1
  <2>2. \A n \in owned'[u] : n \notin destroyed'
    <3>1. \A n \in owned'[u] : n \in owned[u] /\ n # m
      BY <1>6, <1>8
    <3> QED
      BY <1>2, <2>1, <3>1 DEF WaitsOf
  <2>3. ASSUME pc'[u] = "blocked"
        PROVE  /\ obj'[u] \in Mutexes
               /\ wait_status'[u] = "waiting" => InQueue(waiters'[obj'[u]], u)
               /\ u \in timed' => obj'[u] \in TimedMutexes
               /\ obj'[u] \in destroyed' => wait_status'[u] # "B_OK"
    <3>1. /\ pc[u] = "blocked" /\ obj'[u] = obj[u] /\ obj[u] \in Mutexes
          /\ wait_status[u] = "waiting" => InQueue(waiters[obj[u]], u)
          /\ u \in timed' => obj[u] \in TimedMutexes
          /\ obj[u] \in destroyed => wait_status[u] # "B_OK"
      BY <1>2, <2>1, <2>3 DEF WaitsOf
    <3>2. wait_status'[u] = "waiting" => InQueue(waiters'[obj[u]], u)
      BY <1>4, <1>5, <3>1
    <3>3. obj[u] \in destroyed' => wait_status'[u] # "B_OK"
      <4>1. obj[u] = m => wait_status[u] # "B_OK"
        BY <1>2, <1>7, <3>1 DEF HasMutex
      <4> QED
        BY <1>2, <1>4, <3>1, <4>1
    <3> QED
      BY <3>1, <3>2, <3>3
  <2> QED
    BY <2>2, <2>3 DEF WaitsOf
<1>11. ASSUME NEW n \in Mutexes
       PROVE  QueueOf(n, holder, waiters, wait_status)' /\ HoldsOf(n, holder, wait_status, owned)'
  <2>1. QueueOf(n, holder, waiters, wait_status) /\ HoldsOf(n, holder, wait_status, owned)
        /\ holder[n] \in Threads \cup {NoThread}
    BY <1>1
  <2>2. CASE n = m
    <3>1. QueueOf(n, holder, waiters, wait_status)'
      <4>1. Distinct(waiters'[n]) /\ \A u : ~InQueue(waiters'[n], u)
        BY <1>5, <2>2 DEF Distinct, InQueue
      <4> QED
        BY <1>2, <1>5, <2>2, <4>1 DEF QueueOf
    <3>2. HoldsOf(n, holder, wait_status, owned)'
      BY <1>2, <2>2 DEF HoldsOf
    <3> QED
      BY <3>1, <3>2
  <2>3. CASE n # m
    <3>1. \A u \in Threads : InQueue(waiters[n], u) => ~InQueue(waiters[m], u)
      BY <1>1, <2>1, <2>3 DEF QueueOf
    <3>2. QueueOf(n, holder, waiters, wait_status)'
      <4>1. waiters'[n] = waiters[n] /\ (n \in destroyed' <=> n \in destroyed)
        BY <1>2, <1>5, <2>3
      <4>2. \A u \in Threads : InQueue(waiters[n], u) => wait_status'[u] = wait_status[u]
        BY <1>4, <3>1
      <4> QED
        BY <1>2, <2>1, <4>1, <4>2 DEF QueueOf
    <3>3. HoldsOf(n, holder, wait_status, owned)'
      <4>1. \A u \in Threads : n \in owned'[u] <=> n \in owned[u]
        BY <1>6, <2>3
      <4>2. \A u \in Threads : wait_status'[u] = "B_OK" <=> wait_status[u] = "B_OK"
        BY <1>4
      <4>3. n \in destroyed' <=> n \in destroyed
        BY <1>2, <2>3
      <4> QED
        BY <1>2, <2>1, <4>1, <4>2, <4>3 DEF HoldsOf, HasMutex
    <3> QED
      BY <3>2, <3>3
  <2> QED
    BY <2>2, <2>3
<1> QED
  BY <1>9, <1>10, <1>11 DEF DebugInv, DebugState

LEMMA InitDebugInv ==
    ASSUME Init
    PROVE  DebugInv
<1>1. /\ holder = [m \in Mutexes |-> NoThread] /\ waiters = [m \in Mutexes |-> <<>>] /\ destroyed = {}
      /\ wait_status = [t \in Threads |-> "B_OK"] /\ pc = [t \in Threads |-> "running"]
      /\ obj = [t \in Threads |-> NoMutex] /\ timed = {} /\ owned = [t \in Threads |-> {}]
  BY DEF Init
<1>2. TypeOK
  <2>1. <<>> \in Seq(Threads)
    OBVIOUS
  <2> QED
    BY <1>1, <2>1 DEF TypeOK, WaitStatus
<1>3. ASSUME NEW t \in Threads PROVE WaitsOf(t, waiters, wait_status, owned)
  BY <1>1 DEF WaitsOf
<1>4. ASSUME NEW m \in Mutexes
      PROVE  QueueOf(m, holder, waiters, wait_status) /\ HoldsOf(m, holder, wait_status, owned)
  <2>1. waiters[m] = <<>> /\ Distinct(waiters[m]) /\ \A t : ~InQueue(waiters[m], t)
    BY <1>1 DEF Distinct, InQueue
  <2> QED
    BY <1>1, <2>1 DEF QueueOf, HoldsOf, HasMutex
<1> QED
  BY <1>2, <1>3, <1>4 DEF DebugInv, DebugState

LEMMA NextDebugInv ==
    ASSUME DebugInv, [Next]_vars
    PROVE  DebugInv'
<1>1. CASE Next
  <2>1. PICK t \in Threads :
           \/ mutex_lock_return(t) \/ thread_block_timeout(t)
           \/ \E m \in Mutexes :
                 \/ mutex_lock(t, m) \/ mutex_lock_with_timeout(t, m) \/ mutex_trylock(t, m)
                 \/ mutex_unlock(t, m) \/ mutex_destroy(t, m)
                 \/ \E from \in Mutexes : mutex_switch_lock(t, from, m)
                 \/ \E u \in Threads : mutex_transfer_lock(t, m, u)
    BY <1>1 DEF Next
  <2>2. CASE mutex_lock_return(t) \/ thread_block_timeout(t)
    BY <2>2, DebugReturn, DebugTimeoutStep
  <2>3. ASSUME NEW m \in Mutexes,
               \/ mutex_lock(t, m) \/ mutex_lock_with_timeout(t, m) \/ mutex_trylock(t, m)
               \/ mutex_unlock(t, m) \/ mutex_destroy(t, m)
               \/ \E from \in Mutexes : mutex_switch_lock(t, from, m)
               \/ \E u \in Threads : mutex_transfer_lock(t, m, u)
        PROVE  DebugInv'
    BY <2>3, DebugLockStep, DebugUnlockStep, DebugDestroyStep, DebugSwitchStep, DebugTransferStep
  <2> QED
    BY <2>1, <2>2, <2>3
<1>2. CASE UNCHANGED vars
  <2>1. /\ holder' = holder /\ waiters' = waiters /\ wait_status' = wait_status /\ owned' = owned
        /\ pc' = pc /\ obj' = obj /\ timed' = timed /\ destroyed' = destroyed
    BY <1>2 DEF vars
  <2> QED
    BY <2>1, DebugParts, DebugFrame
<1> QED
  BY <1>1, <1>2

\* What the invariant says of the holder.
LEMMA DebugHolder ==
    ASSUME DebugInv
    PROVE  HolderInv
<1>1. \A m \in Mutexes : HoldsOf(m, holder, wait_status, owned) /\ holder[m] \in Threads \cup {NoThread}
  BY DebugParts DEF DebugTypes, DebugState
<1>2. ASSUME NEW m \in Mutexes \ destroyed PROVE Owners(m) \subseteq {holder[m]}
  BY <1>1, <1>2 DEF Owners, HoldsOf, HasMutex
<1>3. ASSUME NEW m \in Mutexes \ (destroyed \cup TimedMutexes) PROVE HolderOwns(m)
  BY <1>1, <1>3 DEF HolderOwns, HoldsOf, HasMutex
<1> QED
  BY <1>2, <1>3 DEF HolderInv

\* A correct caller is the holder of what it owns, and of nothing else.
LEMMA DebugCallers ==
    ASSUME DebugInv
    PROVE  NoPanic
<1>1. /\ \A t \in Threads : WaitsOf(t, waiters, wait_status, owned)
      /\ \A m \in Mutexes : QueueOf(m, holder, waiters, wait_status) /\ HoldsOf(m, holder, wait_status, owned)
      /\ NoThread \notin Threads
  BY DebugParts, ThreadsAssumption DEF DebugState
<1>2. ASSUME NEW t \in Threads, NEW m \in Mutexes \ TimedMutexes, pc[t] = "running"
      PROVE  /\ m \in owned[t] => ~UnlockPanics(t, m)
             /\ MayLock(t, m) => ~LockPanics(t, m)
             /\ MayDestroy(t, m) => ~DestroyPanics(t, m)
  <2>1. m \in owned[t] => holder[m] = t
    BY <1>1 DEF WaitsOf, HoldsOf, HasMutex
  <2>2. ASSUME MayLock(t, m) PROVE holder[m] # t
    <3>1. Guard[m] = NoMutex /\ m \notin owned[t]
      BY <2>2, GuardAssumption DEF MayLock
    <3>2. m \notin destroyed
      BY <1>1, <3>1 DEF QueueOf
    <3> QED
      BY <1>1, <1>2, <3>1, <3>2 DEF HoldsOf, HasMutex
  <2>3. MayDestroy(t, m) => holder[m] = t
    BY <2>1 DEF MayDestroy
  <2> QED
    BY <2>1, <2>2, <2>3 DEF UnlockPanics, LockPanics, DestroyPanics
<1> QED
  BY <1>2 DEF NoPanic

\* The holder of the debug build's mutex is right in every state: whoever owns a
\* mutex that is not destroyed, or has been woken to own it, is the thread
\* lock->holder names, so two threads never own it; and a mutex without timeouts
\* never names a thread that has gone.  For any number of threads and mutexes.
THEOREM DebugHolderCorrect == Spec => []HolderInv
<1>1. Init => DebugInv
  BY InitDebugInv
<1>2. DebugInv /\ [Next]_vars => DebugInv'
  BY NextDebugInv
<1>3. DebugInv => HolderInv
  BY DebugHolder
<1> QED
  BY <1>1, <1>2, <1>3, PTL DEF Spec

\* A caller that keeps to the rules of MutexClients never meets a panic() of
\* lock.cpp on a mutex without timeouts: not "double lock" in _mutex_lock(), not
\* "trying to release mutex" in _mutex_unlock(), not "blocking threads" in
\* mutex_destroy().
THEOREM DebugNeverPanics == Spec => []NoPanic
<1>1. Init => DebugInv
  BY InitDebugInv
<1>2. DebugInv /\ [Next]_vars => DebugInv'
  BY NextDebugInv
<1>3. DebugInv => NoPanic
  BY DebugCallers
<1> QED
  BY <1>1, <1>2, <1>3, PTL DEF Spec

=============================================================================
