----------------------------- MODULE CPUProofs -----------------------------
(***************************************************************************)
(* Proofs about what the CPUs do to each other, for any number of CPUs,    *)
(* events and messages.  Timers (module Timer): a cancelled event stays    *)
(* out, the lists are ordered, and the hardware timer is set for their     *)
(* first event, late by no more than the caller who set it was held up.    *)
(* Inter-CPU messages (module SMP): a message is freed once, when nobody   *)
(* uses it, and a SYNC message is answered by all it was sent to.          *)
(***************************************************************************)
EXTENDS Timer, SMP, LockLemmas

-----------------------------------------------------------------------------
(***************************************************************************)
(* Timers: the inductive invariant.                                        *)
(***************************************************************************)

\* What a CPU's timer_interrupt() does, and what its data say of it.
InterruptInv ==
    \A c \in CPUs :
        /\ intr[c] = "idle" <=> event[c] = NoEvent
        /\ current_event[c] \in {event[c], NoEvent}
        /\ c \in in_progress <=> intr[c] \in {"call", "hook"}
        /\ threadLock = c <=> intr[c] = "hook" /\ event[c] \in ThreadLocked
        /\ threadLock = c => current_event[c] = event[c]
        /\ event[c] \in Rearming => current_event[c] = event[c]

\* The current event of a CPU whose hook is still to return, or that may be put
\* back, belongs to the CPU and is in no list.
Active(c, e) ==
    /\ current_event[c] = e
    /\ \/ intr[c] \in {"call", "hook"}
       \/ e \in Periodic
       \/ e \notin ThreadLocked \cup Rearming

\* cancel_timer() has taken the current event away, and waits for its hook.
Abandoned(c, e) ==
    /\ event[c] = e /\ current_event[c] = NoEvent
    /\ intr[c] \in {"call", "hook"} /\ e \notin ThreadLocked

\* The hook of a timeout has returned; timer_interrupt() is not done with it.
Passed(c, e) ==
    /\ current_event[c] = e /\ intr[c] = "done"
    /\ e \in ThreadLocked \ (Periodic \cup Rearming)

CurrentInv ==
    \A c \in CPUs, e \in Events :
        /\ Active(c, e) => cpu[e] = c /\ use[e] = "added" /\ ~Queued(events[c], e)
        /\ Abandoned(c, e) => cpu[e] = c /\ use[e] = "cancelling"
        /\ Passed(c, e) /\ cpu[e] = c => use[e] \in {"free", "refused"}

\* What the client of an event may rely on.
UseInv ==
    \A e \in Events, c \in CPUs :
        /\ use[e] # "added" => ~Queued(events[c], e)
        /\ use[e] = "cancelling" => e \notin ThreadLocked /\ current_event[c] # e

\* One CPU at a time waits for the hook of an event.
WaitsInv ==
    /\ \A c \in CPUs : waitsFor[c] # NoEvent => use[waitsFor[c]] = "cancelling"
    /\ \A c, d \in CPUs : waitsFor[c] # NoEvent /\ waitsFor[c] = waitsFor[d] => c = d

\* A caller of add_timer() who was held up computed a timeout that was right then.
AddingInv ==
    \A e \in Events : use[e] = "adding" => period[e] \in 0 .. Max({left[e], 1}) + held[e]

IInv ==
    /\ TypeOK /\ ListsInv /\ HardwareTimerSet
    /\ InterruptInv /\ CurrentInv /\ UseInv /\ WaitsInv
    /\ AddingInv

-----------------------------------------------------------------------------
(***************************************************************************)
(* Least and greatest numbers.                                             *)
(***************************************************************************)

LEMMA MinFacts ==
    ASSUME NEW T \in SUBSET Nat, T # {}
    PROVE  Min(T) \in T /\ \A k \in T : Min(T) <= k
<1>1. \E n \in T : \A k \in T : n <= k
  BY LeastElement
<1> QED
  BY <1>1 DEF Min

LEMMA MaxPair ==
    ASSUME NEW a \in Int, NEW b \in Int
    PROVE  Max({a, b}) = IF a >= b THEN a ELSE b
<1> DEFINE m == IF a >= b THEN a ELSE b
<1>1. m \in {a, b} /\ \A y \in {a, b} : m >= y
  OBVIOUS
<1>2. \A x \in {a, b} : (\A y \in {a, b} : x >= y) => x = m
  OBVIOUS
<1>3. Max({a, b}) = CHOOSE x \in {a, b} : \A y \in {a, b} : x >= y
  BY DEF Max
<1> QED
  BY <1>1, <1>2, <1>3

\* A finite set of numbers has an upper bound: otherwise take a smallest set that
\* has none, and one element out of it.
LEMMA FiniteBound ==
    ASSUME NEW S \in SUBSET Nat, IsFiniteSet(S)
    PROVE  \E b \in Nat : \A x \in S : x <= b
<1> DEFINE Bounded(R) == \E b \in Nat : \A x \in R : x <= b
           Bad == {n \in Nat : \E R \in SUBSET Nat :
                                  IsFiniteSet(R) /\ Cardinality(R) = n /\ ~Bounded(R)}
<1> SUFFICES ASSUME ~Bounded(S) PROVE FALSE
  OBVIOUS
<1>1. Cardinality(S) \in Bad
  BY FS_CardinalityType
<1>2. PICK n \in Bad : \A k \in Bad : n <= k
  <2>1. Bad \in SUBSET Nat /\ Bad # {}
    BY <1>1
  <2> HIDE DEF Bad
  <2> QED
    BY <2>1, LeastElement
<1>3. PICK R \in SUBSET Nat : IsFiniteSet(R) /\ Cardinality(R) = n /\ ~Bounded(R)
  BY <1>2
<1>4. PICK x \in R : x \in Nat
  <2>1. R = {} => Bounded(R)
    OBVIOUS
  <2> QED
    BY <1>3, <2>1
<1>5. IsFiniteSet(R \ {x}) /\ Cardinality(R \ {x}) = Cardinality(R) - 1
  BY <1>3, <1>4, FS_RemoveElement
<1>6. Cardinality(R \ {x}) \in Nat /\ Cardinality(R \ {x}) < n
  <2>1. Cardinality(R \ {x}) \in Nat /\ Cardinality(R) \in Nat
    BY <1>3, <1>5, FS_CardinalityType
  <2> QED
    BY <1>3, <1>5, <2>1
<1>7. Bounded(R \ {x})
  <2>1. SUFFICES ASSUME ~Bounded(R \ {x}) PROVE FALSE
    OBVIOUS
  <2>2. R \ {x} \in SUBSET Nat
    OBVIOUS
  <2>3. Cardinality(R \ {x}) \in Bad
    BY <1>5, <1>6, <2>1, <2>2
  <2>4. n <= Cardinality(R \ {x})
    BY <1>2, <2>3
  <2>5. n \in Nat
    BY <1>2
  <2> QED
    BY <1>6, <2>4, <2>5
<1>8. PICK b \in Nat : \A y \in R \ {x} : y <= b
  BY <1>7
<1>9. \A y \in R : y <= b + x
  BY <1>4, <1>8
<1>10. b + x \in Nat
  BY <1>4
<1>11. Bounded(R)
  BY <1>9, <1>10
<1> QED
  BY <1>3, <1>11

LEMMA MaxFacts ==
    ASSUME NEW S \in SUBSET Nat, IsFiniteSet(S), S # {}
    PROVE  Max(S) \in S /\ \A x \in S : x <= Max(S)
<1> DEFINE B == {b \in Nat : \A x \in S : x <= b}
<1>1. PICK m \in B : \A k \in B : m <= k
  <2>1. B \in SUBSET Nat /\ B # {}
    BY FiniteBound
  <2> HIDE DEF B
  <2> QED
    BY <2>1, LeastElement
<1>2. m \in S
  <2>1. SUFFICES ASSUME m \notin S PROVE FALSE
    OBVIOUS
  <2>2. \A x \in S : x \in Nat /\ x < m
    BY <1>1, <2>1
  <2>3. m - 1 \in Nat /\ \A x \in S : x <= m - 1
    <3>1. m \in Nat
      BY <1>1
    <3>2. PICK x \in S : x \in Nat /\ x < m
      BY <2>2
    <3> QED
      BY <2>2, <3>1, <3>2
  <2>4. m - 1 \in B
    BY <2>3
  <2>5. m <= m - 1
    BY <1>1, <2>4
  <2> QED
    BY <1>1, <2>5
<1>3. \A x \in S : x \in Nat /\ x <= m
  BY <1>1
<1>4. \E x \in S : \A y \in S : x >= y
  BY <1>2, <1>3
<1>5. Max(S) \in S /\ \A y \in S : Max(S) >= y
  BY <1>4 DEF Max
<1> QED
  BY <1>3, <1>5

\* The longest time a client asks for.
LEMMA MaxPeriodFacts ==
    MaxPeriod \in Nat /\ \A l \in Periods : l \in Nat /\ l <= MaxPeriod
  BY MaxFacts, TimerAssumption DEF MaxPeriod

-----------------------------------------------------------------------------
(***************************************************************************)
(* Ordered lists of events.                                                *)
(***************************************************************************)
Sorted(q, time) == \A i, j \in DOMAIN q : i < j => time[q[i]] <= time[q[j]]

\* An event is put at the place k of a list.
LEMMA AddElements ==
    ASSUME NEW q \in Seq(Events), NEW e \in Events, NEW k \in 1 .. (Len(q) + 1)
    PROVE  InsertAt(q, k, e) = [i \in 1 .. (Len(q) + 1) |-> IF i < k THEN q[i]
                                                           ELSE IF i = k THEN e ELSE q[i - 1]]
<1> DEFINE n == Len(q)
<1>1. n \in Nat /\ DOMAIN q = 1 .. n /\ (\A i \in 1 .. n : q[i] \in Events) /\ k \in 1 .. (n + 1)
  OBVIOUS
<1> DEFINE a == SubSeq(q, 1, k - 1)
           b == SubSeq(q, k, n)
<1>5. a \in Seq(Events) /\ Len(a) = k - 1 /\ \A i \in 1 .. (k - 1) : a[i] = q[i]
  BY <1>1
<1>6. b \in Seq(Events) /\ Len(b) = n + 1 - k /\ \A i \in 1 .. (n + 1 - k) : b[i] = q[k + i - 1]
  <2>1. k - 1 \in Nat /\ k - 1 <= n /\ (k - 1) + 1 = k /\ n - (k - 1) = n + 1 - k
    BY <1>1
  <2>2. /\ SubSeq(q, (k - 1) + 1, n) \in Seq(Events)
        /\ Len(SubSeq(q, (k - 1) + 1, n)) = n - (k - 1)
        /\ \A i \in 1 .. (n - (k - 1)) : SubSeq(q, (k - 1) + 1, n)[i] = q[(k - 1) + i]
    BY <2>1, SuffixFacts
  <2>3. \A i \in 1 .. (n + 1 - k) : (k - 1) + i = k + i - 1
    BY <2>1
  <2> QED
    BY <2>1, <2>2, <2>3
<1>7. InsertAt(q, k, e) = a \o <<e>> \o b
  BY DEF InsertAt
<1> HIDE DEF a, b
<1> DEFINE ae == Append(a, e)
<1>8. ae = a \o <<e>>
  BY <1>5, AppendIsConcat
<1>9. ae \in Seq(Events) /\ Len(ae) = k /\ ae[k] = e /\ \A i \in 1 .. (k - 1) : ae[i] = q[i]
  BY <1>1, <1>5
<1> HIDE DEF ae
<1> DEFINE r == ae \o b
<1>10. /\ r \in Seq(Events) /\ Len(r) = Len(ae) + Len(b)
       /\ \A i \in 1 .. Len(ae) + Len(b) : r[i] = IF i <= Len(ae) THEN ae[i] ELSE b[i - Len(ae)]
  BY <1>6, <1>9, ConcatProperties, Zenon
<1> HIDE DEF r
<1>11. r \in Seq(Events) /\ Len(r) = n + 1 /\ DOMAIN r = 1 .. (n + 1)
  BY <1>1, <1>6, <1>9, <1>10
<1>12. ASSUME NEW i \in 1 .. (n + 1)
       PROVE  r[i] = IF i < k THEN q[i] ELSE IF i = k THEN e ELSE q[i - 1]
  <2>1. r[i] = IF i <= k THEN ae[i] ELSE b[i - k]
    BY <1>1, <1>6, <1>9, <1>10
  <2>2. CASE i <= k
    <3>1. r[i] = ae[i]
      BY <2>1, <2>2
    <3>2. CASE i < k
      <4>1. i \in 1 .. (k - 1)
        BY <3>2
      <4> QED
        BY <1>9, <3>1, <3>2, <4>1
    <3>3. CASE i = k
      BY <1>9, <3>1, <3>3
    <3> QED
      BY <2>2, <3>2, <3>3
  <2>3. CASE i > k
    <3>1. i - k \in 1 .. (n + 1 - k) /\ k + (i - k) - 1 = i - 1
      BY <1>1, <2>3
    <3>2. b[i - k] = q[i - 1]
      BY <1>6, <3>1
    <3> QED
      BY <1>1, <2>1, <2>3, <3>2
  <2> QED
    BY <1>1, <2>2, <2>3
<1>13. r = [i \in 1 .. (n + 1) |-> IF i < k THEN q[i] ELSE IF i = k THEN e ELSE q[i - 1]]
  BY <1>11, <1>12
<1>14. InsertAt(q, k, e) = r
  BY <1>7, <1>8 DEF r
<1> QED
  BY <1>13, <1>14

\* The places add_event_to_list() may choose: what comes before is not due later, what
\* comes after is not due earlier.
LEMMA PlacesFacts ==
    ASSUME NEW q \in Seq(Events), NEW l \in Int, l >= -1, left \in [Events -> Int],
           \A u \in Events : left[u] >= -1, Sorted(q, left), NEW k \in Places(q, l)
    PROVE  /\ k \in 1 .. (Len(q) + 1)
           /\ \A i \in 1 .. Len(q) : i < k => left[q[i]] <= l
           /\ \A i \in 1 .. Len(q) : i >= k => left[q[i]] >= l
<1> DEFINE n == Len(q)
           T == {i \in DOMAIN q : left[q[i]] >= l} \cup {n + 1}
<1>1. /\ n \in Nat /\ DOMAIN q = 1 .. n
      /\ \A i \in 1 .. n : q[i] \in Events /\ left[q[i]] \in Int /\ left[q[i]] >= -1
  OBVIOUS
<1>2. CASE l < 0
  <2>1. l = -1
    BY <1>2
  <2>2. k \in 1 .. (n + 1) /\ \A j \in 1 .. (k - 1) : left[q[j]] < 0
    BY <1>2 DEF Places
  <2>3. \A i \in 1 .. n : i < k => i \in 1 .. (k - 1)
    BY <1>1, <2>2
  <2> QED
    BY <1>1, <2>1, <2>2, <2>3
<1>3. CASE ~(l < 0)
  <2>1. k = Min(T)
    BY <1>3 DEF Places
  <2>2. k \in 1 .. (n + 1) /\ k \in T /\ \A i \in T : k <= i
    <3>1. T \in SUBSET (1 .. (n + 1)) /\ T \in SUBSET Nat /\ T # {}
      BY <1>1
    <3> HIDE DEF T
    <3> QED
      BY <2>1, <3>1, MinFacts
  <2>3. ASSUME NEW i \in 1 .. n, i < k PROVE left[q[i]] <= l
    <3>1. i \notin T
      BY <1>1, <2>2, <2>3
    <3> QED
      BY <1>1, <3>1
  <2>4. ASSUME NEW i \in 1 .. n, i >= k PROVE left[q[i]] >= l
    <3>1. k \in 1 .. n /\ left[q[k]] >= l
      BY <1>1, <2>2, <2>4
    <3>2. i = k \/ k < i
      BY <1>1, <2>2, <2>4
    <3>3. k < i => left[q[k]] <= left[q[i]]
      BY <1>1, <3>1 DEF Sorted
    <3>4. left[q[k]] \in Int /\ left[q[i]] \in Int
      BY <1>1, <3>1
    <3>5. \A x, y \in Int : x >= l /\ x <= y => y >= l
      OBVIOUS
    <3> QED
      BY <3>1, <3>2, <3>3, <3>4, <3>5
  <2> QED
    BY <2>2, <2>3, <2>4
<1> QED
  BY <1>2, <1>3

LEMMA AddFacts ==
    ASSUME NEW q \in Seq(Events), NEW e \in Events, NEW l \in Int, l >= -1,
           left \in [Events -> Int], \A u \in Events : left[u] >= -1,
           Distinct(q), Sorted(q, left), ~InQueue(q, e), NEW k \in Places(q, l)
    PROVE  LET r == InsertAt(q, k, e) IN
           /\ r \in Seq(Events) /\ r # <<>> /\ Distinct(r)
           /\ Sorted(r, [left EXCEPT ![e] = l])
           /\ \A u : InQueue(r, u) <=> u = e \/ InQueue(q, u)
           /\ Head(r) = e \/ (q # <<>> /\ Head(r) = Head(q))
<1> DEFINE n == Len(q)
           r == InsertAt(q, k, e)
           time == [left EXCEPT ![e] = l]
<1>1. n \in Nat /\ DOMAIN q = 1 .. n /\ \A i \in 1 .. n : q[i] \in Events /\ q[i] # e
  BY DEF InQueue
<1>6. /\ k \in 1 .. (n + 1)
      /\ \A i \in 1 .. n : i < k => left[q[i]] <= l
      /\ \A i \in 1 .. n : i >= k => left[q[i]] >= l
  BY PlacesFacts
<1>2. /\ k \in 1 .. (n + 1)
      /\ r = [i \in 1 .. (n + 1) |-> IF i < k THEN q[i] ELSE IF i = k THEN e ELSE q[i - 1]]
  BY <1>6, AddElements
<1> HIDE DEF r
<1>0. k \in Nat /\ k >= 1 /\ k <= n + 1
  BY <1>1, <1>2
<1>3. /\ DOMAIN r = 1 .. (n + 1) /\ r[k] = e
      /\ \A i \in 1 .. (n + 1) : i < k => i \in 1 .. n /\ r[i] = q[i]
      /\ \A i \in 1 .. (n + 1) : i > k => i - 1 \in 1 .. n /\ r[i] = q[i - 1]
  <2>1. DOMAIN r = 1 .. (n + 1) /\ r[k] = e
    BY <1>0, <1>1, <1>2
  <2>2. ASSUME NEW i \in 1 .. (n + 1), i < k PROVE i \in 1 .. n /\ r[i] = q[i]
    BY <1>0, <1>1, <1>2, <2>2
  <2>3. ASSUME NEW i \in 1 .. (n + 1), i > k PROVE i - 1 \in 1 .. n /\ r[i] = q[i - 1]
    BY <1>0, <1>1, <1>2, <2>3
  <2> QED
    BY <2>1, <2>2, <2>3
<1>4. \A i \in 1 .. n : left[q[i]] \in Int /\ time[q[i]] = left[q[i]]
  BY <1>1
<1>5. time[e] = l
  OBVIOUS
<1> HIDE DEF time
<1>7. r \in Seq(Events) /\ r # <<>>
  <2>1. r \in Seq(Events) /\ Len(r) = n + 1
    BY <1>1, <1>2
  <2> QED
    BY <1>1, <2>1
<1>8. Distinct(r)
  <2>1. ASSUME NEW i \in 1 .. (n + 1), NEW j \in 1 .. (n + 1), i < j PROVE r[i] # r[j]
    <3>1. CASE j < k
      <4>1. i \in 1 .. n /\ j \in 1 .. n /\ i # j /\ r[i] = q[i] /\ r[j] = q[j]
        BY <1>0, <1>1, <1>3, <2>1, <3>1
      <4> QED
        BY <1>1, <4>1 DEF Distinct
    <3>2. CASE j = k
      BY <1>0, <1>1, <1>3, <2>1, <3>2
    <3>3. CASE j > k /\ i = k
      BY <1>0, <1>1, <1>3, <3>3
    <3>4. CASE j > k /\ i < k
      <4>1. i \in 1 .. n /\ r[i] = q[i]
        BY <1>3, <3>4
      <4>2. j - 1 \in 1 .. n /\ r[j] = q[j - 1]
        BY <1>3, <3>4
      <4>3. i # j - 1
        BY <1>0, <1>1, <3>4
      <4> QED
        BY <1>1, <4>1, <4>2, <4>3 DEF Distinct
    <3>5. CASE j > k /\ i > k
      <4>1. i - 1 \in 1 .. n /\ r[i] = q[i - 1]
        BY <1>3, <3>5
      <4>2. j - 1 \in 1 .. n /\ r[j] = q[j - 1]
        BY <1>3, <3>5
      <4>3. i - 1 # j - 1
        BY <1>1, <2>1
      <4> QED
        BY <1>1, <4>1, <4>2, <4>3 DEF Distinct
    <3> QED
      BY <1>0, <1>1, <3>1, <3>2, <3>3, <3>4, <3>5
  <2>2. \A i, j \in 1 .. (n + 1) : i = j \/ i < j \/ j < i
    BY <1>1
  <2> QED
    BY <1>3, <2>1, <2>2 DEF Distinct
<1>9. Sorted(r, time)
  <2>1. ASSUME NEW i \in 1 .. (n + 1), NEW j \in 1 .. (n + 1), i < j
        PROVE  time[r[i]] <= time[r[j]]
    <3>1. CASE j < k
      <4>1. i \in 1 .. n /\ j \in 1 .. n /\ r[i] = q[i] /\ r[j] = q[j]
        BY <1>0, <1>1, <1>3, <2>1, <3>1
      <4>2. left[q[i]] <= left[q[j]]
        BY <1>1, <2>1, <4>1 DEF Sorted
      <4> QED
        BY <1>4, <4>1, <4>2
    <3>2. CASE j = k
      <4>1. i < k /\ i \in 1 .. n /\ r[i] = q[i] /\ r[j] = e
        BY <1>0, <1>1, <1>3, <2>1, <3>2
      <4>2. left[q[i]] <= l /\ left[q[i]] \in Int /\ time[q[i]] = left[q[i]]
        BY <1>4, <1>6, <4>1
      <4> QED
        BY <1>5, <4>1, <4>2
    <3>3. CASE j > k /\ i = k
      <4>1. j - 1 >= k /\ j - 1 \in 1 .. n /\ r[j] = q[j - 1] /\ r[i] = e
        BY <1>0, <1>1, <1>3, <3>3
      <4>2. left[q[j - 1]] >= l /\ left[q[j - 1]] \in Int /\ time[q[j - 1]] = left[q[j - 1]]
        BY <1>4, <1>6, <4>1
      <4> QED
        BY <1>5, <4>1, <4>2
    <3>4. CASE j > k /\ i < k
      <4>1. /\ i \in 1 .. n /\ i < k /\ r[i] = q[i]
            /\ j - 1 >= k /\ j - 1 \in 1 .. n /\ r[j] = q[j - 1]
        BY <1>0, <1>1, <1>3, <2>1, <3>4
      <4>2. /\ left[q[i]] <= l /\ left[q[i]] \in Int /\ time[q[i]] = left[q[i]]
            /\ left[q[j - 1]] >= l /\ left[q[j - 1]] \in Int /\ time[q[j - 1]] = left[q[j - 1]]
        BY <1>4, <1>6, <4>1
      <4>3. left[q[i]] <= left[q[j - 1]]
        <5>1. \A x, y \in Int : x <= l /\ y >= l => x <= y
          OBVIOUS
        <5> QED
          BY <4>2, <5>1
      <4> QED
        BY <4>1, <4>2, <4>3
    <3>5. CASE j > k /\ i > k
      <4>1. PICK a \in 1 .. n : a = i - 1 /\ r[i] = q[a]
        BY <1>3, <3>5
      <4>2. PICK b \in 1 .. n : b = j - 1 /\ r[j] = q[b]
        BY <1>3, <3>5
      <4>3. a < b
        BY <1>1, <2>1, <4>1, <4>2
      <4>4. left[q[a]] <= left[q[b]]
        BY <1>1, <4>3 DEF Sorted
      <4>5. time[r[i]] = left[q[a]]
        BY <1>4, <4>1
      <4>6. time[r[j]] = left[q[b]]
        BY <1>4, <4>2
      <4> QED
        BY <4>4, <4>5, <4>6
    <3>6. j < k \/ j = k \/ (j > k /\ i = k) \/ (j > k /\ i < k) \/ (j > k /\ i > k)
      BY <1>0, <1>1
    <3> QED
      BY <3>1, <3>2, <3>3, <3>4, <3>5, <3>6
  <2> QED
    BY <1>3, <2>1 DEF Sorted
<1>10. ASSUME NEW u PROVE InQueue(r, u) <=> u = e \/ InQueue(q, u)
  <2>1. ASSUME InQueue(r, u) PROVE u = e \/ InQueue(q, u)
    <3>1. PICK i \in 1 .. (n + 1) : r[i] = u
      BY <1>3, <2>1 DEF InQueue
    <3>2. i = k \/ (\E j \in 1 .. n : r[i] = q[j])
      <4>1. i = k \/ i < k \/ i > k
        BY <1>0, <1>1
      <4> QED
        BY <1>3, <4>1
    <3> QED
      BY <1>0, <1>1, <1>3, <3>1, <3>2 DEF InQueue
  <2>2. InQueue(r, e)
    BY <1>0, <1>1, <1>3 DEF InQueue
  <2>3. ASSUME InQueue(q, u) PROVE InQueue(r, u)
    <3>1. PICK i \in 1 .. n : q[i] = u
      BY <1>1, <2>3 DEF InQueue
    <3>2. CASE i < k
      <4>1. i \in 1 .. (n + 1) /\ r[i] = u
        BY <1>0, <1>1, <1>3, <3>1, <3>2
      <4> QED
        BY <1>3, <4>1 DEF InQueue
    <3>3. CASE i >= k
      <4>1. i + 1 \in 1 .. (n + 1) /\ i + 1 > k /\ (i + 1) - 1 = i
        BY <1>0, <1>1, <3>3
      <4>2. r[i + 1] = u
        BY <1>3, <3>1, <4>1
      <4> QED
        BY <1>3, <4>1, <4>2 DEF InQueue
    <3> QED
      BY <1>0, <1>1, <3>2, <3>3
  <2> QED
    BY <2>1, <2>2, <2>3
<1>11. Head(r) = e \/ (q # <<>> /\ Head(r) = Head(q))
  <2>1. Head(r) = r[1]
    BY <1>7
  <2>2. CASE k = 1
    BY <1>3, <2>1, <2>2
  <2>3. CASE k > 1
    <3>1. 1 \in 1 .. n /\ r[1] = q[1]
      BY <1>0, <1>1, <1>3, <2>3
    <3>2. q # <<>> /\ Head(q) = q[1]
      BY <1>1, <3>1
    <3> QED
      BY <2>1, <3>1, <3>2
  <2> QED
    BY <1>0, <1>1, <2>2, <2>3
<1> QED
  BY <1>7, <1>8, <1>9, <1>10, <1>11 DEF r, time

\* Taking an event out leaves the order of the others.
LEMMA WithoutFacts ==
    ASSUME NEW q \in Seq(Events), NEW e, left \in [Events -> Int],
           Distinct(q), Sorted(q, left), InQueue(q, e)
    PROVE  /\ Without(q, e) \in Seq(Events) /\ Distinct(Without(q, e))
           /\ Sorted(Without(q, e), left)
           /\ \A u : InQueue(Without(q, e), u) <=> u # e /\ InQueue(q, u)
           /\ q # <<>> /\ Head(q) \in Events
           /\ Without(q, e) # <<>> => /\ InQueue(Without(q, e), Head(Without(q, e)))
                                      /\ left[Head(q)] <= left[Head(Without(q, e))]
<1> DEFINE n == Len(q)
           d == Dequeue(q, e)
           k == Position(q, e)
<1>1. /\ n \in Nat /\ DOMAIN q = 1 .. n /\ (\A i \in 1 .. n : q[i] \in Events) /\ k \in 1 .. n
      /\ d \in Seq(Events) /\ n - 1 \in Nat
      /\ d = [i \in 1 .. (n - 1) |-> IF i < k THEN q[i] ELSE q[i + 1]]
  BY DequeueType
<1>2. Distinct(d) /\ \A u : InQueue(d, u) <=> u # e /\ InQueue(q, u)
  BY DequeueFacts
<1> HIDE DEF d, k
<1>3. /\ DOMAIN d = 1 .. (n - 1)
      /\ \A i \in 1 .. (n - 1) :
            \E a \in 1 .. n : ((i < k /\ a = i) \/ (i >= k /\ a = i + 1)) /\ d[i] = q[a]
  <2>1. DOMAIN d = 1 .. (n - 1)
    BY <1>1
  <2>2. ASSUME NEW i \in 1 .. (n - 1)
        PROVE  \E a \in 1 .. n : ((i < k /\ a = i) \/ (i >= k /\ a = i + 1)) /\ d[i] = q[a]
    <3>1. i \in 1 .. n /\ i + 1 \in 1 .. n /\ d[i] = IF i < k THEN q[i] ELSE q[i + 1]
      <4>1. d[i] = IF i < k THEN q[i] ELSE q[i + 1]
        BY <1>1
      <4>2. n \in Nat
        BY <1>1
      <4> QED
        BY <4>1, <4>2
    <3>2. CASE i < k
      <4>1. d[i] = q[i] /\ i \in 1 .. n
        BY <3>1, <3>2
      <4> QED
        BY <3>2, <4>1
    <3>3. CASE ~(i < k)
      <4>1. i >= k
        BY <1>1, <3>3
      <4>2. d[i] = q[i + 1] /\ i + 1 \in 1 .. n
        BY <3>1, <3>3
      <4> QED
        BY <4>1, <4>2, Zenon
    <3> QED
      BY <3>2, <3>3
  <2> QED
    BY <2>1, <2>2
<1>4. Sorted(d, left)
  <2>1. ASSUME NEW i \in 1 .. (n - 1), NEW j \in 1 .. (n - 1), i < j
        PROVE  left[d[i]] <= left[d[j]]
    <3>0. k \in 1 .. n /\ n \in Nat
      BY <1>1
    <3>1. PICK a \in 1 .. n, b \in 1 .. n : a < b /\ d[i] = q[a] /\ d[j] = q[b]
      <4>1. PICK a \in 1 .. n : ((i < k /\ a = i) \/ (i >= k /\ a = i + 1)) /\ d[i] = q[a]
        BY <1>3, Zenon
      <4>2. PICK b \in 1 .. n : ((j < k /\ b = j) \/ (j >= k /\ b = j + 1)) /\ d[j] = q[b]
        BY <1>3, Zenon
      <4>3. a < b
        BY <2>1, <3>0, <4>1, <4>2
      <4> QED
        BY <4>1, <4>2, <4>3
    <3> QED
      BY <1>1, <3>1 DEF Sorted
  <2> QED
    BY <1>3, <2>1 DEF Sorted
<1>5. q # <<>> /\ Head(q) = q[1] /\ Head(q) \in Events
  BY <1>1
<1>6. ASSUME d # <<>>
      PROVE  InQueue(d, Head(d)) /\ left[Head(q)] <= left[Head(d)]
  <2>1. Head(d) = d[1] /\ 1 \in DOMAIN d
    BY <1>1, <1>6
  <2>2. 1 \in 1 .. (n - 1)
    BY <1>3, <2>1
  <2>3. PICK a \in 1 .. n : d[1] = q[a]
    BY <1>3, <2>2
  <2>4. a = 1 \/ left[q[1]] <= left[q[a]]
    <3>1. 1 \in 1 .. n /\ (a = 1 \/ 1 < a)
      BY <1>1
    <3> QED
      BY <1>1, <3>1 DEF Sorted
  <2>5. left[q[1]] \in Int
    BY <1>1, <1>5
  <2>6. left[q[1]] <= left[q[a]]
    BY <2>4, <2>5
  <2> QED
    BY <1>5, <2>1, <2>3, <2>6 DEF InQueue
<1> QED
  BY <1>1, <1>2, <1>4, <1>5, <1>6 DEF Without, d

LEMMA TailSorted ==
    ASSUME NEW q \in Seq(Events), NEW time, q # <<>>, Sorted(q, time)
    PROVE  Sorted(Tail(q), time)
<1> DEFINE n == Len(q)
           r == Tail(q)
<1>1. /\ n \in Nat /\ n > 0 /\ DOMAIN q = 1 .. n /\ DOMAIN r = 1 .. (n - 1)
      /\ \A i \in 1 .. (n - 1) : i + 1 \in 1 .. n /\ r[i] = q[i + 1]
  OBVIOUS
<1> HIDE DEF r
<1>2. ASSUME NEW i \in 1 .. (n - 1), NEW j \in 1 .. (n - 1), i < j
      PROVE  time[r[i]] <= time[r[j]]
  <2>1. i + 1 \in 1 .. n /\ j + 1 \in 1 .. n /\ i + 1 < j + 1
    BY <1>1, <1>2
  <2> QED
    BY <1>1, <2>1 DEF Sorted
<1> QED
  BY <1>1, <1>2 DEF Sorted, r

\* ListsInv, in the terms of these lemmas.
Lists(c) ==
    /\ Distinct(events[c]) /\ Sorted(events[c], left)
    /\ \A e : InQueue(events[c], e) => e \in Events /\ cpu[e] = c

LEMMA ListsForm == TypeOK => (ListsInv <=> \A c \in CPUs : Lists(c))
<1> SUFFICES ASSUME TypeOK, NEW c \in CPUs
             PROVE  (\A i, j \in DOMAIN events[c] :
                        /\ cpu[events[c][i]] = c
                        /\ i < j => /\ events[c][i] # events[c][j]
                                    /\ left[events[c][i]] <= left[events[c][j]])
                    <=> Lists(c)
  BY DEF ListsInv
<1>1. /\ \A i, j \in DOMAIN events[c] : i < j <=> ~(j < i) /\ i # j
      /\ \A i \in DOMAIN events[c] : events[c][i] \in Events
  <2>1. /\ DOMAIN events[c] = 1 .. Len(events[c]) /\ Len(events[c]) \in Nat
        /\ \A i \in 1 .. Len(events[c]) : events[c][i] \in Events
    BY DEF TypeOK
  <2> QED
    BY <2>1
<1>2. (\A i \in DOMAIN events[c] : cpu[events[c][i]] = c)
         <=> (\A e : InQueue(events[c], e) => e \in Events /\ cpu[e] = c)
  BY <1>1 DEF InQueue
<1>3. (\A i, j \in DOMAIN events[c] : i < j => events[c][i] # events[c][j])
         <=> Distinct(events[c])
  BY <1>1 DEF Distinct
<1> QED
  BY <1>2, <1>3 DEF Lists, Sorted

\* The time until an event is due is a number.
LEMMA LeftType ==
    TypeOK => /\ left \in [Events -> Int]
              /\ \A e \in Events : left[e] \in Int /\ left[e] >= -1 /\ left[e] <= MaxPeriod
  BY MaxPeriodFacts DEF TypeOK

\* The bound on the hardware timer: the first event's time, or 1, and the delay.
LEMMA HardwareRange ==
    ASSUME NEW h \in Int, NEW l \in Int, NEW g \in Nat
    PROVE  h \in 0 .. Max({l, 1}) + g <=> h >= 0 /\ (h <= l + g \/ h <= 1 + g)
<1>1. Max({l, 1}) = IF l >= 1 THEN l ELSE 1
  BY MaxPair
<1> QED
  BY <1>1

LEMMA DelayType ==
    TypeOK => /\ MaxDelay \in Nat
              /\ \A c \in CPUs : lag[c] \in Nat /\ lag[c] <= MaxDelay
              /\ \A e \in Events : held[e] \in Nat /\ held[e] <= MaxDelay
  BY TimerAssumption DEF TypeOK

-----------------------------------------------------------------------------
(***************************************************************************)
(* add_timer(): e, which is in no list, is put into the list of c.         *)
(***************************************************************************)
LEMMA AddTimerFacts ==
    ASSUME TypeOK, ListsInv, HardwareTimerSet, NEW c \in CPUs, NEW e \in Events,
           NEW l \in -1 .. MaxPeriod, NEW h \in 0 .. MaxPeriod, NEW g \in 0 .. MaxDelay,
           h \in 0 .. Max({l, 1}) + g, AddTimer(c, e, l, h, g),
           \A d \in CPUs : ~Queued(events[d], e),
           \A d \in CPUs : intr'[d] = "idle" => intr[d] = "idle"
    PROVE  /\ events' \in [CPUs -> Seq(Events)] /\ cpu' \in [Events -> CPUs \cup {NoCPU}]
           /\ left' \in [Events -> -1 .. MaxPeriod] /\ hardware' \in [CPUs -> Off .. MaxPeriod + 1]
           /\ lag' \in [CPUs -> 0 .. MaxDelay] /\ \A f \in Events : f # e => left'[f] = left[f]
           /\ \A d \in CPUs : d # c => events'[d] = events[d]
           /\ \A u : InQueue(events'[c], u) <=> u = e \/ InQueue(events[c], u)
           /\ cpu'[e] = c /\ \A f \in Events : f # e => cpu'[f] = cpu[f]
           /\ \A d \in CPUs : Lists(d)'
           /\ HardwareTimerSet'
<1>1. l \in Int /\ l >= -1 /\ l <= MaxPeriod /\ MaxPeriod \in Nat
  BY MaxPeriodFacts
<1>0. PICK k \in Places(events[c], l) : events' = [events EXCEPT ![c] = InsertAt(@, k, e)]
  BY DEF AddTimer
<1> DEFINE r == InsertAt(events[c], k, e)
<1>2. /\ events' = [events EXCEPT ![c] = r]
      /\ left' = [left EXCEPT ![e] = l]
      /\ cpu' = [cpu EXCEPT ![e] = c]
      /\ \/ /\ Head(events'[c]) = e
            /\ hardware' = [hardware EXCEPT ![c] = h]
            /\ lag' = [lag EXCEPT ![c] = g]
         \/ Head(events'[c]) # e /\ UNCHANGED <<hardware, lag>>
  BY <1>0 DEF AddTimer, SetsHardware
<1>3. left \in [Events -> Int] /\ (\A u \in Events : left[u] >= -1) /\ \A d \in CPUs : events[d] \in Seq(Events) /\ Lists(d)
  BY LeftType, ListsForm DEF TypeOK
<1>4. /\ r \in Seq(Events) /\ r # <<>> /\ Distinct(r) /\ Sorted(r, left')
      /\ \A u : InQueue(r, u) <=> u = e \/ InQueue(events[c], u)
      /\ Head(r) = e \/ (events[c] # <<>> /\ Head(r) = Head(events[c]))
  <2>1. events[c] \in Seq(Events) /\ Distinct(events[c]) /\ Sorted(events[c], left) /\ ~InQueue(events[c], e)
    BY <1>3 DEF Lists, Queued
  <2> QED
    BY <1>1, <1>2, <1>3, <2>1, AddFacts
<1> HIDE DEF r
<1>5. events'[c] = r /\ \A d \in CPUs : d # c => events'[d] = events[d]
  BY <1>2 DEF TypeOK
<1>6. /\ left'[e] = l /\ \A f \in Events : f # e => left'[f] = left[f]
      /\ cpu'[e] = c /\ \A f \in Events : f # e => cpu'[f] = cpu[f]
  BY <1>2 DEF TypeOK
<1>7. /\ events' \in [CPUs -> Seq(Events)] /\ cpu' \in [Events -> CPUs \cup {NoCPU}]
  BY <1>2, <1>4 DEF TypeOK
<1>8. left' \in [Events -> -1 .. MaxPeriod]
  BY <1>1, <1>2 DEF TypeOK
<1>9. hardware' \in [CPUs -> Off .. MaxPeriod + 1]
  <2>1. h \in Off .. MaxPeriod + 1
    BY <1>1 DEF Off
  <2> QED
    BY <1>2, <2>1 DEF TypeOK
<1>12. lag' \in [CPUs -> 0 .. MaxDelay]
  BY <1>2 DEF TypeOK
<1>10. ASSUME NEW d \in CPUs PROVE Lists(d)'
  <2>1. CASE d = c
    BY <1>3, <1>4, <1>5, <1>6, <2>1 DEF Lists
  <2>2. CASE d # c
    <3>1. events'[d] = events[d] /\ Lists(d) /\ ~InQueue(events[d], e)
      BY <1>3, <1>5, <2>2 DEF Queued
    <3>2. \A i \in DOMAIN events[d] : events[d][i] \in Events /\ events[d][i] # e
      BY <3>1 DEF InQueue, Lists
    <3>3. Sorted(events[d], left')
      BY <1>6, <3>1, <3>2 DEF Lists, Sorted
    <3>4. \A f : InQueue(events[d], f) => f \in Events /\ cpu'[f] = d
      BY <1>6, <3>1 DEF Lists
    <3> QED
      BY <3>1, <3>3, <3>4 DEF Lists
  <2> QED
    BY <2>1, <2>2
<1>11. HardwareTimerSet'
  <2>1. SUFFICES ASSUME NEW d \in CPUs, events'[d] # <<>>, intr'[d] = "idle"
                 PROVE  hardware'[d] \in 0 .. Max({left'[Head(events'[d])], 1}) + lag'[d]
    BY DEF HardwareTimerSet
  <2>2. intr[d] = "idle" /\ hardware[d] \in Int
    BY <2>1 DEF TypeOK, Off
  <2>3. CASE d = c /\ Head(r) = e
    <3>1. hardware'[d] = h /\ left'[Head(events'[d])] = l /\ lag'[d] = g
      BY <1>2, <1>5, <1>6, <2>3 DEF TypeOK
    <3> QED
      BY <3>1
  <2>4. CASE ~(d = c /\ Head(r) = e)
    <3>1. events[d] # <<>> /\ Head(events'[d]) = Head(events[d])
      BY <1>4, <1>5, <2>1, <2>4
    <3>2. hardware'[d] = hardware[d] /\ lag'[d] = lag[d]
      BY <1>2, <1>5, <2>4 DEF TypeOK
    <3>3. InQueue(events[d], Head(events[d]))
      BY <1>3, <3>1, TailFacts DEF Lists
    <3>4. Head(events[d]) \in Events /\ Head(events[d]) # e
      BY <1>3, <3>3 DEF Lists, Queued
    <3>5. hardware[d] \in 0 .. Max({left[Head(events[d])], 1}) + lag[d]
      BY <2>2, <3>1 DEF HardwareTimerSet
    <3> QED
      BY <1>6, <3>1, <3>2, <3>4, <3>5
  <2> QED
    BY <2>3, <2>4
<1> QED
  BY <1>4, <1>5, <1>6, <1>7, <1>8, <1>9, <1>10, <1>11, <1>12

-----------------------------------------------------------------------------
(***************************************************************************)
(* The loop of timer_interrupt(): the list q of c loses its first event,   *)
(* or the loop ends.                                                       *)
(***************************************************************************)

\* timer_interrupt() of c goes on with f.
Takes(c, f) ==
    /\ current_event' = [current_event EXCEPT ![c] = f]
    /\ in_progress' = in_progress \cup {c}
    /\ event' = [event EXCEPT ![c] = f]
    /\ intr' = [intr EXCEPT ![c] = "call"]

\* timer_interrupt() of c returns.
Returns(c) ==
    /\ current_event' = [current_event EXCEPT ![c] = NoEvent]
    /\ event' = [event EXCEPT ![c] = NoEvent]
    /\ intr' = [intr EXCEPT ![c] = "idle"]
    /\ UNCHANGED in_progress

LEMMA NextEventFacts ==
    ASSUME TypeOK, ListsInv, HardwareTimerSet, NEW c \in CPUs,
           NEW q \in Seq(Events), NEW time \in [Events -> -1 .. MaxPeriod],
           Distinct(q), Sorted(q, time), \A e : InQueue(q, e) => e \in Events /\ cpu[e] = c,
           \A d \in CPUs : d # c => \A e : InQueue(events[d], e) => time[e] = left[e],
           NEW h \in Off .. MaxPeriod + 1, NextEvent(c, q, time, h), UNCHANGED cpu
    PROVE  /\ events' \in [CPUs -> Seq(Events)] /\ left' \in [Events -> -1 .. MaxPeriod]
           /\ hardware' \in [CPUs -> Off .. MaxPeriod + 1] /\ lag' \in [CPUs -> 0 .. MaxDelay]
           /\ \A d \in CPUs : Lists(d)'
           /\ HardwareTimerSet'
           /\ \A d \in CPUs : d # c => events'[d] = events[d]
           /\ \A u : InQueue(events'[c], u) => InQueue(q, u)
           /\ \/ \E f \in Events : Takes(c, f) /\ InQueue(q, f) /\ ~InQueue(events'[c], f)
              \/ Returns(c)
<1>1. /\ \A d \in CPUs : events[d] \in Seq(Events) /\ Lists(d)
      /\ \A e \in Events : time[e] \in Int /\ time[e] >= -1 /\ time[e] <= MaxPeriod
      /\ MaxPeriod \in Nat
  BY ListsForm, MaxPeriodFacts DEF TypeOK
<1>2. /\ left' = time /\ lag' \in [CPUs -> 0 .. MaxDelay]
      /\ lag'[c] = 0 /\ \A d \in CPUs : d # c => lag'[d] = lag[d]
  BY TimerAssumption DEF NextEvent, TypeOK
<1>3. ASSUME NEW d \in CPUs, d # c, events'[d] = events[d]
      PROVE  Lists(d)'
  <2>1. Lists(d)
    BY <1>1
  <2>2. \A i \in DOMAIN events[d] : time[events[d][i]] = left[events[d][i]]
    BY <1>3 DEF InQueue
  <2>3. Sorted(events[d], time)
    BY <2>1, <2>2 DEF Lists, Sorted
  <2> QED
    BY <1>2, <1>3, <2>1, <2>3 DEF Lists
<1>4. ASSUME NEW d \in CPUs, d # c, events'[d] = events[d], events'[d] # <<>>,
             intr'[d] = "idle", intr'[d] = intr[d], hardware'[d] = hardware[d]
      PROVE  hardware'[d] \in 0 .. Max({left'[Head(events'[d])], 1}) + lag'[d]
  <2>1. InQueue(events[d], Head(events[d]))
    BY <1>1, <1>4, TailFacts DEF Lists
  <2>2. time[Head(events[d])] = left[Head(events[d])]
    BY <1>4, <2>1
  <2>3. hardware[d] \in 0 .. Max({left[Head(events[d])], 1}) + lag[d]
    BY <1>4 DEF HardwareTimerSet
  <2> QED
    BY <1>2, <1>4, <2>2, <2>3
<1>5. CASE Due(q, time)
  <2>1. q # <<>>
    BY <1>5 DEF Due
  <2>2. PICK f \in Events : f = Head(q)
    BY <2>1
  <2>3. /\ Tail(q) \in Seq(Events) /\ Distinct(Tail(q)) /\ InQueue(q, f)
        /\ \A u : InQueue(Tail(q), u) <=> u # f /\ InQueue(q, u)
    BY <2>1, <2>2, TailFacts
  <2>4. Sorted(Tail(q), time)
    BY <2>1, TailSorted
  <2>5. /\ events' = [events EXCEPT ![c] = Tail(q)]
        /\ hardware' = [hardware EXCEPT ![c] = h]
        /\ Takes(c, f)
    BY <1>5, <2>2 DEF NextEvent, Takes
  <2>6. events'[c] = Tail(q) /\ \A d \in CPUs : d # c => events'[d] = events[d]
    BY <2>5 DEF TypeOK
  <2>7. events' \in [CPUs -> Seq(Events)] /\ hardware' \in [CPUs -> Off .. MaxPeriod + 1]
    BY <2>3, <2>5 DEF TypeOK
  <2>8. Lists(c)'
    BY <1>2, <2>3, <2>4, <2>6 DEF Lists
  <2>9. HardwareTimerSet'
    <3>1. \A d \in CPUs : /\ intr'[d] = "idle" => d # c
                          /\ d # c => intr'[d] = intr[d] /\ hardware'[d] = hardware[d]
      BY <2>5 DEF Takes, TypeOK
    <3> QED
      BY <1>4, <2>6, <3>1 DEF HardwareTimerSet
  <2>10. \A d \in CPUs : Lists(d)'
    BY <1>3, <2>6, <2>8
  <2>11. \E g \in Events : Takes(c, g) /\ InQueue(q, g) /\ ~InQueue(events'[c], g)
    BY <2>3, <2>5, <2>6
  <2>12. \A u : InQueue(events'[c], u) => InQueue(q, u)
    BY <2>3, <2>6
  <2> QED
    BY <1>2, <2>6, <2>7, <2>9, <2>10, <2>11, <2>12
<1>6. CASE ~Due(q, time)
  <2> DEFINE w == IF q = <<>> THEN h ELSE Rearm(time[Head(q)])
  <2>1. /\ events' = [events EXCEPT ![c] = q]
        /\ hardware' = [hardware EXCEPT ![c] = w]
        /\ Returns(c)
    BY <1>6 DEF NextEvent, Returns
  <2>2. q # <<>> => Head(q) \in Events
    OBVIOUS
  <2>3. /\ w \in Off .. MaxPeriod + 1
        /\ q # <<>> => w \in 0 .. Max({time[Head(q)], 1}) + 0
    <3>1. CASE q = <<>>
      BY <3>1
    <3>2. CASE q # <<>>
      <4>1. PICK l \in Int : l = time[Head(q)] /\ l <= MaxPeriod
        BY <1>1, <2>2, <3>2
      <4>2. w = IF l <= 0 THEN 1 ELSE l
        BY <3>2, <4>1 DEF Rearm
      <4>3. w \in Int /\ w >= 0 /\ (w <= l \/ w <= 1) /\ w <= MaxPeriod + 1
        BY <1>1, <4>1, <4>2
      <4>4. w \in 0 .. Max({l, 1}) + 0
        <5>1. w <= l + 0 \/ w <= 1 + 0
          BY <4>3
        <5> QED
          BY <4>3, <5>1, HardwareRange
      <4>5. w \in Off .. MaxPeriod + 1
        BY <1>1, <4>3 DEF Off
      <4> QED
        BY <3>2, <4>1, <4>4, <4>5
    <3> QED
      BY <3>1, <3>2
  <2> HIDE DEF w
  <2>4. events'[c] = q /\ \A d \in CPUs : d # c => events'[d] = events[d]
    BY <2>1 DEF TypeOK
  <2>5. events' \in [CPUs -> Seq(Events)] /\ hardware' \in [CPUs -> Off .. MaxPeriod + 1]
    BY <2>1, <2>3 DEF TypeOK
  <2>6. Lists(c)'
    BY <1>2, <2>4 DEF Lists
  <2>7. HardwareTimerSet'
    <3>1. \A d \in CPUs : d # c => intr'[d] = intr[d] /\ hardware'[d] = hardware[d]
      BY <2>1 DEF Returns, TypeOK
    <3>2. hardware'[c] = w
      BY <2>1 DEF TypeOK
    <3> QED
      BY <1>2, <1>4, <2>3, <2>4, <3>1, <3>2 DEF HardwareTimerSet
  <2>8. \A d \in CPUs : Lists(d)'
    BY <1>3, <2>4, <2>6
  <2> QED
    BY <1>2, <2>1, <2>4, <2>5, <2>7, <2>8
<1> QED
  BY <1>5, <1>6

-----------------------------------------------------------------------------
(***************************************************************************)
(* Steps that change the lists, or the times.                              *)
(***************************************************************************)
ListVars == <<events, cpu, left, hardware, lag>>

\* A step that leaves the lists alone, and starts no timer_interrupt() from idle
\* that was not idle.
LEMMA ListsKept ==
    ASSUME TypeOK, ListsInv, HardwareTimerSet, UNCHANGED ListVars,
           \A d \in CPUs : intr'[d] = "idle" => intr[d] = "idle"
    PROVE  ListsInv' /\ HardwareTimerSet'
<1>1. ListsInv'
  BY DEF ListsInv, ListVars
<1>2. HardwareTimerSet'
  BY DEF HardwareTimerSet, ListVars
<1> QED
  BY <1>1, <1>2

\* Time passes.
LEMMA TickLists ==
    ASSUME TypeOK, ListsInv, HardwareTimerSet, Tick
    PROVE  /\ left' \in [Events -> -1 .. MaxPeriod] /\ hardware' \in [CPUs -> Off .. MaxPeriod + 1]
           /\ ListsInv' /\ HardwareTimerSet'
<1>1. /\ left' = [e \in Events |-> Max({left[e] - 1, -1})]
      /\ hardware' = [c \in CPUs |-> IF hardware[c] > 0 THEN hardware[c] - 1 ELSE hardware[c]]
      /\ UNCHANGED <<events, cpu, lag, intr>>
  BY DEF Tick, listVars
<1>2. ASSUME NEW e \in Events
      PROVE  /\ left'[e] = IF left[e] - 1 >= -1 THEN left[e] - 1 ELSE -1
             /\ left[e] \in Int /\ left[e] >= -1 /\ left[e] <= MaxPeriod
             /\ left'[e] \in Int /\ left'[e] >= -1 /\ left'[e] <= MaxPeriod
             /\ MaxPeriod \in Nat
  <2>1. left[e] \in Int /\ left[e] >= -1 /\ left[e] <= MaxPeriod /\ MaxPeriod \in Nat
    BY LeftType, MaxPeriodFacts
  <2>2. left[e] - 1 \in Int
    BY <2>1
  <2>3. left'[e] = Max({left[e] - 1, -1})
    BY <1>1
  <2>4. left'[e] = IF left[e] - 1 >= -1 THEN left[e] - 1 ELSE -1
    BY <2>2, <2>3, MaxPair
  <2> QED
    BY <2>1, <2>4
<1>3. left' \in [Events -> -1 .. MaxPeriod]
  BY <1>1, <1>2
<1>4. hardware' \in [CPUs -> Off .. MaxPeriod + 1]
  <2>1. ASSUME NEW c \in CPUs
        PROVE  (IF hardware[c] > 0 THEN hardware[c] - 1 ELSE hardware[c]) \in Off .. MaxPeriod + 1
    BY MaxPeriodFacts DEF TypeOK, Off
  <2> QED
    BY <1>1, <2>1
<1>5. ListsInv'
  <2>1. ASSUME NEW c \in CPUs, NEW i \in DOMAIN events[c], NEW j \in DOMAIN events[c]
        PROVE  /\ cpu[events[c][i]] = c
               /\ i < j => /\ events[c][i] # events[c][j]
                           /\ left'[events[c][i]] <= left'[events[c][j]]
    <3>1. events[c][i] \in Events /\ events[c][j] \in Events
      BY DEF TypeOK
    <3>2. /\ cpu[events[c][i]] = c
          /\ i < j => /\ events[c][i] # events[c][j]
                      /\ left[events[c][i]] <= left[events[c][j]]
      BY DEF ListsInv
    <3> QED
      BY <1>2, <3>1, <3>2
  <2>2. events' = events /\ cpu' = cpu
    BY <1>1
  <2> QED
    BY <2>1, <2>2 DEF ListsInv
<1>6. HardwareTimerSet'
  <2>1. SUFFICES ASSUME NEW c \in CPUs, events[c] # <<>>, intr[c] = "idle"
                 PROVE  hardware'[c] \in 0 .. Max({left'[Head(events[c])], 1}) + lag[c]
    BY <1>1 DEF HardwareTimerSet
  <2>2. PICK e \in Events : e = Head(events[c])
    BY <2>1 DEF TypeOK
  <2>0. lag[c] \in Nat
    BY DelayType
  <2>3. hardware[c] \in 0 .. Max({left[e], 1}) + lag[c] /\ hardware[c] \in Int
    <3>1. hardware[c] \in 0 .. Max({left[e], 1}) + lag[c]
      BY <2>1, <2>2 DEF HardwareTimerSet
    <3>2. hardware[c] \in Int
      BY DEF TypeOK, Off
    <3> QED
      BY <3>1, <3>2
  <2>4. hardware[c] >= 0 /\ (hardware[c] <= left[e] + lag[c] \/ hardware[c] <= 1 + lag[c])
    BY <1>2, <2>0, <2>3, HardwareRange
  <2>5. hardware'[c] = IF hardware[c] > 0 THEN hardware[c] - 1 ELSE hardware[c]
    BY <1>1
  <2>6. /\ hardware'[c] \in Int /\ hardware'[c] >= 0
        /\ hardware'[c] <= left'[e] + lag[c] \/ hardware'[c] <= 1 + lag[c]
    BY <1>2, <2>0, <2>3, <2>4, <2>5
  <2>7. hardware'[c] \in 0 .. Max({left'[e], 1}) + lag[c]
    BY <1>2, <2>0, <2>6, HardwareRange
  <2> QED
    BY <2>2, <2>7
<1> QED
  BY <1>3, <1>4, <1>5, <1>6

\* cancel_timer() takes the event out of the list of its CPU.
LEMMA CancelQueuedFacts ==
    ASSUME TypeOK, ListsInv, HardwareTimerSet, NEW c \in CPUs, NEW e \in Events,
           cancel_timer_queued(c, e)
    PROVE  /\ events' \in [CPUs -> Seq(Events)] /\ cpu' \in [Events -> CPUs \cup {NoCPU}]
           /\ left' \in [Events -> -1 .. MaxPeriod] /\ hardware' \in [CPUs -> Off .. MaxPeriod + 1]
           /\ lag' \in [CPUs -> 0 .. MaxDelay] /\ \A f \in Events : f # e => left'[f] = left[f]
           /\ \A d \in CPUs : Lists(d)'
           /\ HardwareTimerSet'
           /\ \A d \in CPUs, u \in Events : InQueue(events'[d], u) <=> u # e /\ InQueue(events[d], u)
           /\ \A f \in Events : f # e => cpu'[f] = cpu[f]
<1>1. PICK p \in CPUs : p = cpu[e]
  BY DEF cancel_timer_queued, TypeOK
<1> DEFINE q == Without(events[p], e)
<1>2. /\ Queued(events[p], e)
      /\ events' = [events EXCEPT ![p] = q]
      /\ cpu' = [cpu EXCEPT ![e] = NoCPU]
      /\ left' = [left EXCEPT ![e] = -1]
      /\ hardware' = [hardware EXCEPT ![p] = CASE p # c -> @
                                               [] p = c /\ q = <<>> -> Off
                                               [] OTHER -> Max({left[Head(q)], 0})]
      /\ lag' = [lag EXCEPT ![p] = IF p = c \/ q = <<>> THEN 0 ELSE @]
      /\ UNCHANGED intr
  BY <1>1 DEF cancel_timer_queued
<1>3. /\ left \in [Events -> Int] /\ MaxPeriod \in Nat
      /\ \A f \in Events : left[f] \in Int /\ left[f] >= -1 /\ left[f] <= MaxPeriod
      /\ \A d \in CPUs : events[d] \in Seq(Events) /\ Lists(d)
  BY LeftType, ListsForm, MaxPeriodFacts DEF TypeOK
<1>4. /\ q \in Seq(Events) /\ Distinct(q) /\ Sorted(q, left)
      /\ \A u : InQueue(q, u) <=> u # e /\ InQueue(events[p], u)
      /\ events[p] # <<>> /\ Head(events[p]) \in Events
      /\ q # <<>> => /\ InQueue(q, Head(q))
                     /\ left[Head(events[p])] <= left[Head(q)]
  <2>1. /\ events[p] \in Seq(Events) /\ Distinct(events[p]) /\ Sorted(events[p], left)
        /\ InQueue(events[p], e)
    BY <1>2, <1>3 DEF Lists, Queued
  <2> QED
    BY <1>3, <2>1, WithoutFacts
<1> HIDE DEF q
<1>5. /\ events'[p] = q /\ \A d \in CPUs : d # p => events'[d] = events[d]
      /\ left'[e] = -1 /\ \A f \in Events : f # e => left'[f] = left[f] /\ cpu'[f] = cpu[f]
  BY <1>2 DEF TypeOK
<1>6. ASSUME NEW d \in CPUs, NEW u
      PROVE  InQueue(events'[d], u) <=> u # e /\ InQueue(events[d], u)
  <2>1. CASE d = p
    BY <1>4, <1>5, <2>1
  <2>2. CASE d # p
    <3>1. ~InQueue(events[d], e)
      BY <1>1, <1>3, <2>2 DEF Lists
    <3> QED
      BY <1>5, <2>2, <3>1
  <2> QED
    BY <2>1, <2>2
<1>7. events' \in [CPUs -> Seq(Events)] /\ cpu' \in [Events -> CPUs \cup {NoCPU}]
  BY <1>2, <1>4 DEF TypeOK
<1>8. left' \in [Events -> -1 .. MaxPeriod]
  BY <1>2, <1>3 DEF TypeOK
<1>9. ASSUME NEW d \in CPUs PROVE Lists(d)'
  <2>1. Distinct(events'[d]) /\ Sorted(events'[d], left)
    BY <1>3, <1>4, <1>5 DEF Lists
  <2>2. \A f : InQueue(events'[d], f) => f # e /\ f \in Events /\ cpu'[f] = d
    BY <1>3, <1>5, <1>6 DEF Lists
  <2>3. \A i \in DOMAIN events'[d] : left'[events'[d][i]] = left[events'[d][i]]
    BY <1>5, <2>2 DEF InQueue
  <2>4. Sorted(events'[d], left')
    BY <2>1, <2>3 DEF Sorted
  <2> QED
    BY <2>1, <2>2, <2>4 DEF Lists
<1>15. /\ lag' \in [CPUs -> 0 .. MaxDelay]
       /\ p = c => lag'[p] = 0
       /\ p # c /\ q # <<>> => lag'[p] = lag[p]
       /\ \A d \in CPUs : d # p => lag'[d] = lag[d]
  BY <1>2, TimerAssumption DEF TypeOK
<1>10. /\ \A d \in CPUs : d # p \/ p # c => hardware'[d] = hardware[d]
       /\ p = c /\ q = <<>> => hardware'[c] = -1
       /\ p = c /\ q # <<>> => hardware'[c] = Max({left[Head(q)], 0})
  BY <1>2 DEF TypeOK, Off
<1>11. q # <<>> => Head(q) \in Events /\ Head(q) # e
  BY <1>3, <1>4
<1>12. ASSUME p = c, q # <<>>
       PROVE  /\ hardware'[c] \in Int /\ hardware'[c] >= 0 /\ hardware'[c] <= MaxPeriod
              /\ hardware'[c] <= left[Head(q)] \/ hardware'[c] <= 1
  <2>1. PICK l \in Int : l = left[Head(q)] /\ l <= MaxPeriod
    BY <1>3, <1>11, <1>12
  <2>2. hardware'[c] = IF l >= 0 THEN l ELSE 0
    BY <1>10, <1>12, <2>1, MaxPair
  <2> QED
    BY <1>3, <2>1, <2>2
<1>13. hardware' \in [CPUs -> Off .. MaxPeriod + 1]
  <2>1. DOMAIN hardware' = CPUs /\ hardware' = [d \in CPUs |-> hardware'[d]]
    BY <1>2 DEF TypeOK
  <2>2. ASSUME NEW d \in CPUs PROVE hardware'[d] \in Off .. MaxPeriod + 1
    <3>1. CASE d # p \/ p # c
      BY <1>10, <3>1 DEF TypeOK
    <3>2. CASE d = p /\ p = c /\ q = <<>>
      BY <1>3, <1>10, <3>2 DEF Off
    <3>3. CASE d = p /\ p = c /\ q # <<>>
      BY <1>3, <1>12, <3>3 DEF Off
    <3> QED
      BY <3>1, <3>2, <3>3
  <2> QED
    BY <2>1, <2>2
<1>14. HardwareTimerSet'
  <2>1. SUFFICES ASSUME NEW d \in CPUs, events'[d] # <<>>, intr[d] = "idle"
                 PROVE  hardware'[d] \in 0 .. Max({left'[Head(events'[d])], 1}) + lag'[d]
    BY <1>2 DEF HardwareTimerSet
  <2>2. CASE d # p
    <3>1. events'[d] = events[d] /\ hardware'[d] = hardware[d] /\ lag'[d] = lag[d]
      BY <1>5, <1>10, <1>15, <2>2
    <3>2. InQueue(events[d], Head(events[d]))
      BY <1>3, <2>1, <3>1, TailFacts DEF Lists
    <3>3. Head(events[d]) \in Events /\ Head(events[d]) # e
      BY <1>1, <1>3, <2>2, <3>2 DEF Lists
    <3>4. hardware[d] \in 0 .. Max({left[Head(events[d])], 1}) + lag[d]
      BY <2>1, <3>1 DEF HardwareTimerSet
    <3> QED
      BY <1>5, <3>1, <3>3, <3>4
  <2>3. CASE d = p
    <3>1. q # <<>> /\ events'[d] = q
      BY <1>5, <2>1, <2>3
    <3>2. PICK l \in Int : l = left[Head(q)] /\ l = left'[Head(q)]
      BY <1>3, <1>5, <1>11, <3>1
    <3>5. PICK g \in Nat : g = lag'[d] /\ (p # c => g = lag[d])
      <4>1. (TypeOK => lag[d] \in Nat)
        BY DelayType
      <4> QED
        BY <1>15, <2>3, <3>1, <4>1
    <3>3. /\ hardware'[d] \in Int /\ hardware'[d] >= 0
          /\ hardware'[d] <= l + g \/ hardware'[d] <= 1 + g
      <4>1. CASE p = c
        BY <1>12, <2>3, <3>1, <3>2, <4>1
      <4>2. CASE p # c
        <5>1. hardware'[d] = hardware[d] /\ hardware[d] \in Int
          BY <1>10, <4>2 DEF TypeOK, Off
        <5>2. PICK k \in Int : k = left[Head(events[p])] /\ k <= l
          BY <1>3, <1>4, <3>1, <3>2
        <5>3. hardware[d] \in 0 .. Max({k, 1}) + g
          BY <1>4, <2>1, <2>3, <3>5, <4>2, <5>2 DEF HardwareTimerSet
        <5>4. hardware[d] >= 0 /\ (hardware[d] <= k + g \/ hardware[d] <= 1 + g)
          BY <5>1, <5>3, HardwareRange
        <5> QED
          BY <5>1, <5>2, <5>4
      <4> QED
        BY <4>1, <4>2
    <3>4. hardware'[d] \in 0 .. Max({l, 1}) + g
      BY <3>3, HardwareRange
    <3> QED
      BY <3>1, <3>2, <3>4, <3>5
  <2> QED
    BY <2>2, <2>3
<1> QED
  BY <1>5, <1>6, <1>7, <1>8, <1>9, <1>13, <1>14, <1>15

-----------------------------------------------------------------------------
(***************************************************************************)
(* The steps.                                                              *)
(***************************************************************************)
ControlInv == InterruptInv /\ CurrentInv /\ UseInv /\ WaitsInv

LEMMA ListsNext ==
    ASSUME TypeOK', \A c \in CPUs : Lists(c)'
    PROVE  ListsInv'
<1>1. (TypeOK => (ListsInv <=> \A c \in CPUs : Lists(c)))'
  BY ListsForm, PTL
<1> QED
  BY <1>1

\* An event that is in a list is in use, and in the list of its CPU.
LEMMA QueuedFacts ==
    ASSUME IInv, NEW c \in CPUs, NEW e, InQueue(events[c], e)
    PROVE  e \in Events /\ cpu[e] = c /\ use[e] = "added"
<1>1. Lists(c)
  BY ListsForm DEF IInv
<1>2. e \in Events /\ cpu[e] = c
  BY <1>1 DEF Lists
<1> QED
  BY <1>2 DEF IInv, UseInv, Queued

LEMMA InitIInv == Init => IInv
<1> SUFFICES ASSUME Init PROVE IInv
  OBVIOUS
<1>1. TypeOK
  <2>1. MaxPeriod \in Nat
    BY MaxPeriodFacts
  <2>2. -1 \in -1 .. MaxPeriod /\ Off \in Off .. MaxPeriod + 1
    BY <2>1 DEF Off
  <2> QED
    BY <2>2, TimerAssumption DEF Init, TypeOK, InterruptPC, Uses
<1>2. ListsInv /\ HardwareTimerSet
  BY DEF Init, ListsInv, HardwareTimerSet
<1>3. InterruptInv
  BY TimerAssumption DEF Init, InterruptInv
<1>4. CurrentInv
  BY TimerAssumption DEF Init, CurrentInv, Active, Abandoned, Passed
<1>5. UseInv /\ WaitsInv /\ AddingInv
  BY DEF Init, UseInv, WaitsInv, AddingInv, Queued, InQueue
<1> QED
  BY <1>1, <1>2, <1>3, <1>4, <1>5 DEF IInv

\* A step that changes nothing but the times.
LEMMA ControlKept ==
    ASSUME ControlInv,
           UNCHANGED <<events, current_event, in_progress, cpu, intr, event, waitsFor, threadLock, use>>
    PROVE  ControlInv'
  BY DEF ControlInv, InterruptInv, CurrentInv, UseInv, WaitsInv, Active, Abandoned, Passed

LEMMA TickStep ==
    ASSUME IInv, Tick
    PROVE  IInv'
<1>1. UNCHANGED <<events, current_event, in_progress, cpu, period, intr, event, waitsFor, threadLock, use>>
  BY DEF Tick, listVars
<1>2. /\ left' \in [Events -> -1 .. MaxPeriod] /\ hardware' \in [CPUs -> Off .. MaxPeriod + 1]
      /\ ListsInv' /\ HardwareTimerSet'
  BY TickLists DEF IInv
<1>3. TypeOK'
  <2>1. UNCHANGED lag /\ held' \in [Events -> 0 .. MaxDelay]
    BY DelayType DEF Tick, IInv, TypeOK
  <2> QED
    BY <1>1, <1>2, <2>1 DEF IInv, TypeOK
<1>4. ControlInv'
  BY <1>1, ControlKept DEF IInv, ControlInv
<1>5. AddingInv'
  <2>1. SUFFICES ASSUME NEW e \in Events, use[e] = "adding"
                 PROVE  period[e] \in 0 .. Max({left'[e], 1}) + held'[e]
    BY <1>1 DEF AddingInv
  <2>2. PICK l \in Int, g \in Nat, h \in Int : l = left[e] /\ g = held[e] /\ h = period[e] /\ l >= -1
    <3>1. period[e] \in Int
      BY MaxPeriodFacts DEF IInv, TypeOK
    <3> QED
      BY <3>1, LeftType, DelayType DEF IInv
  <2>3. left'[e] = (IF l - 1 >= -1 THEN l - 1 ELSE -1) /\ held'[e] = g + 1
    <3>1. left'[e] = Max({l - 1, -1}) /\ held'[e] = g + 1
      BY <2>1, <2>2 DEF Tick
    <3> QED
      BY <3>1, MaxPair
  <2>4. h >= 0 /\ (h <= l + g \/ h <= 1 + g)
    BY <2>1, <2>2, HardwareRange DEF IInv, AddingInv
  <2>5. h >= 0 /\ (h <= left'[e] + (g + 1) \/ h <= 1 + (g + 1)) /\ left'[e] \in Int /\ g + 1 \in Nat
    BY <2>3, <2>4
  <2> QED
    BY <2>2, <2>3, <2>5, HardwareRange
<1> QED
  BY <1>2, <1>3, <1>4, <1>5 DEF IInv, ControlInv

\* timer_interrupt() takes the next event, or returns.
LEMMA LoopControl ==
    ASSUME IInv, NEW c \in CPUs, intr[c] \in {"idle", "done"},
           \A d \in CPUs : d # c => events'[d] = events[d],
           \A u \in Events : InQueue(events'[c], u) => use[u] = "added",
           \/ \E f \in Events : /\ Takes(c, f) /\ ~InQueue(events'[c], f)
                                /\ cpu[f] = c /\ use[f] = "added"
           \/ Returns(c),
           UNCHANGED <<cpu, use, waitsFor, threadLock>>
    PROVE  ControlInv' /\ current_event' \in [CPUs -> Events \cup {NoEvent}]
                       /\ event' \in [CPUs -> Events \cup {NoEvent}]
                       /\ intr' \in [CPUs -> InterruptPC] /\ in_progress' \subseteq CPUs
<1> USE DEF IInv
<1>1. threadLock # c
  BY DEF InterruptInv
<1>2. CASE \E f \in Events : /\ Takes(c, f) /\ ~InQueue(events'[c], f)
                             /\ cpu[f] = c /\ use[f] = "added"
  <2>1. PICK f \in Events : /\ Takes(c, f) /\ ~InQueue(events'[c], f)
                            /\ cpu[f] = c /\ use[f] = "added"
    BY <1>2
  <2>2. /\ current_event'[c] = f /\ event'[c] = f /\ intr'[c] = "call" /\ f # NoEvent
        /\ \A d \in CPUs : d # c => /\ current_event'[d] = current_event[d]
                                    /\ event'[d] = event[d] /\ intr'[d] = intr[d]
        /\ \A d \in CPUs : d # c => (d \in in_progress' <=> d \in in_progress)
        /\ c \in in_progress'
    BY <2>1, TimerAssumption DEF Takes, TypeOK
  <2>3. InterruptInv'
    BY <1>1, <2>2, TimerAssumption DEF InterruptInv
  <2>4. CurrentInv'
    <3>1. ASSUME NEW d \in CPUs, NEW e \in Events
          PROVE  /\ Active(d, e)' => cpu[e] = d /\ use[e] = "added" /\ ~Queued(events'[d], e)
                 /\ Abandoned(d, e)' => cpu[e] = d /\ use[e] = "cancelling"
                 /\ Passed(d, e)' /\ cpu[e] = d => use[e] \in {"free", "refused"}
      <4>1. CASE d = c
        BY <2>1, <2>2, <4>1 DEF Active, Abandoned, Passed, Queued
      <4>2. CASE d # c
        BY <2>2, <4>2 DEF CurrentInv, Active, Abandoned, Passed
      <4> QED
        BY <4>1, <4>2
    <3> QED
      BY <3>1 DEF CurrentInv
  <2>5. UseInv'
    BY <2>1, <2>2 DEF UseInv, Queued
  <2>6. WaitsInv'
    BY DEF WaitsInv
  <2>7. /\ current_event' \in [CPUs -> Events \cup {NoEvent}]
        /\ event' \in [CPUs -> Events \cup {NoEvent}]
        /\ intr' \in [CPUs -> InterruptPC] /\ in_progress' \subseteq CPUs
    BY <2>1 DEF Takes, TypeOK, InterruptPC
  <2> QED
    BY <2>3, <2>4, <2>5, <2>6, <2>7 DEF ControlInv
<1>3. CASE Returns(c)
  <2>2. /\ current_event'[c] = NoEvent /\ event'[c] = NoEvent /\ intr'[c] = "idle"
        /\ \A d \in CPUs : d # c => /\ current_event'[d] = current_event[d]
                                    /\ event'[d] = event[d] /\ intr'[d] = intr[d]
        /\ in_progress' = in_progress
    BY <1>3 DEF Returns, TypeOK
  <2>3. InterruptInv'
    BY <1>1, <2>2, TimerAssumption DEF InterruptInv
  <2>4. CurrentInv'
    <3>1. ASSUME NEW d \in CPUs, NEW e \in Events
          PROVE  /\ Active(d, e)' => cpu[e] = d /\ use[e] = "added" /\ ~Queued(events'[d], e)
                 /\ Abandoned(d, e)' => cpu[e] = d /\ use[e] = "cancelling"
                 /\ Passed(d, e)' /\ cpu[e] = d => use[e] \in {"free", "refused"}
      <4>1. CASE d = c
        BY <2>2, <4>1, TimerAssumption DEF Active, Abandoned, Passed
      <4>2. CASE d # c
        BY <2>2, <4>2 DEF CurrentInv, Active, Abandoned, Passed
      <4> QED
        BY <4>1, <4>2
    <3> QED
      BY <3>1 DEF CurrentInv
  <2>5. UseInv'
    BY <2>2, TimerAssumption DEF UseInv, Queued
  <2>6. WaitsInv'
    BY DEF WaitsInv
  <2>7. /\ current_event' \in [CPUs -> Events \cup {NoEvent}]
        /\ event' \in [CPUs -> Events \cup {NoEvent}]
        /\ intr' \in [CPUs -> InterruptPC] /\ in_progress' \subseteq CPUs
    BY <1>3 DEF Returns, TypeOK, InterruptPC
  <2> QED
    BY <2>3, <2>4, <2>5, <2>6, <2>7 DEF ControlInv
<1> QED
  BY <1>2, <1>3

LEMMA InterruptStart ==
    ASSUME IInv, NEW c \in CPUs, timer_interrupt(c)
    PROVE  IInv'
<1>1. /\ intr[c] = "idle" /\ NextEvent(c, events[c], left, Off)
      /\ UNCHANGED <<cpu, period, use, held, waitsFor, threadLock>>
  BY DEF timer_interrupt
<1>2. /\ events[c] \in Seq(Events) /\ Lists(c) /\ left \in [Events -> -1 .. MaxPeriod]
      /\ Off \in Off .. MaxPeriod + 1
  BY ListsForm, MaxPeriodFacts DEF IInv, TypeOK, Off
<1>3. /\ events' \in [CPUs -> Seq(Events)] /\ left' \in [Events -> -1 .. MaxPeriod]
      /\ hardware' \in [CPUs -> Off .. MaxPeriod + 1] /\ lag' \in [CPUs -> 0 .. MaxDelay]
      /\ \A d \in CPUs : Lists(d)'
      /\ HardwareTimerSet'
      /\ \A d \in CPUs : d # c => events'[d] = events[d]
      /\ \A u : InQueue(events'[c], u) => InQueue(events[c], u)
      /\ \/ \E f \in Events : Takes(c, f) /\ InQueue(events[c], f) /\ ~InQueue(events'[c], f)
         \/ Returns(c)
  BY <1>1, <1>2, NextEventFacts DEF IInv, Lists
<1>4. /\ ControlInv' /\ current_event' \in [CPUs -> Events \cup {NoEvent}]
      /\ event' \in [CPUs -> Events \cup {NoEvent}]
      /\ intr' \in [CPUs -> InterruptPC] /\ in_progress' \subseteq CPUs
  <2>1. \A u \in Events : InQueue(events[c], u) => cpu[u] = c /\ use[u] = "added"
    BY QueuedFacts
  <2> QED
    BY <1>1, <1>3, <2>1, LoopControl
<1>5. TypeOK'
  BY <1>1, <1>3, <1>4 DEF IInv, TypeOK
<1>6. AddingInv'
  BY <1>1 DEF NextEvent, IInv, AddingInv
<1> QED
  BY <1>3, <1>4, <1>5, <1>6, ListsNext DEF IInv, ControlInv

LEMMA InterruptNext ==
    ASSUME IInv, NEW c \in CPUs, timer_interrupt_next(c)
    PROVE  IInv'
<1>1. /\ intr[c] = "done" /\ UNCHANGED <<cpu, period, use, held, waitsFor, threadLock>>
      /\ event[c] \in Events /\ event[c] # NoEvent
  BY TimerAssumption DEF timer_interrupt_next, IInv, InterruptInv, TypeOK
<1>2. /\ events[c] \in Seq(Events) /\ Lists(c) /\ left \in [Events -> -1 .. MaxPeriod]
      /\ hardware[c] \in Off .. MaxPeriod + 1
      /\ \A u \in Events : InQueue(events[c], u) => cpu[u] = c /\ use[u] = "added"
  BY ListsForm, QueuedFacts DEF IInv, TypeOK
<1>3. ASSUME /\ events' \in [CPUs -> Seq(Events)] /\ left' \in [Events -> -1 .. MaxPeriod]
             /\ hardware' \in [CPUs -> Off .. MaxPeriod + 1] /\ lag' \in [CPUs -> 0 .. MaxDelay]
             /\ \A d \in CPUs : Lists(d)'
             /\ HardwareTimerSet'
             /\ \A d \in CPUs : d # c => events'[d] = events[d]
             /\ \A u \in Events : InQueue(events'[c], u) => use[u] = "added"
             /\ \/ \E f \in Events : /\ Takes(c, f) /\ ~InQueue(events'[c], f)
                                     /\ cpu[f] = c /\ use[f] = "added"
                \/ Returns(c)
             /\ \A u \in Events : use[u] = "adding" => left'[u] = left[u]
      PROVE  IInv'
  <2>1. /\ ControlInv' /\ current_event' \in [CPUs -> Events \cup {NoEvent}]
        /\ event' \in [CPUs -> Events \cup {NoEvent}]
        /\ intr' \in [CPUs -> InterruptPC] /\ in_progress' \subseteq CPUs
    BY <1>1, <1>3, LoopControl
  <2>2. TypeOK'
    BY <1>1, <1>3, <2>1 DEF IInv, TypeOK
  <2>3. AddingInv'
    BY <1>1, <1>3 DEF IInv, AddingInv
  <2> QED
    BY <1>3, <2>1, <2>2, <2>3, ListsNext DEF IInv, ControlInv
<1>4. CASE ~Requeues(c)
  <2>1. NextEvent(c, events[c], left, hardware[c])
    BY <1>4 DEF timer_interrupt_next
  <2>2. /\ events' \in [CPUs -> Seq(Events)] /\ left' \in [Events -> -1 .. MaxPeriod]
        /\ hardware' \in [CPUs -> Off .. MaxPeriod + 1] /\ lag' \in [CPUs -> 0 .. MaxDelay]
        /\ \A d \in CPUs : Lists(d)'
        /\ HardwareTimerSet'
        /\ \A d \in CPUs : d # c => events'[d] = events[d]
        /\ \A u : InQueue(events'[c], u) => InQueue(events[c], u)
        /\ \/ \E f \in Events : Takes(c, f) /\ InQueue(events[c], f) /\ ~InQueue(events'[c], f)
           \/ Returns(c)
    BY <1>1, <1>2, <2>1, NextEventFacts DEF IInv, Lists
  <2>3. left' = left
    BY <2>1 DEF NextEvent
  <2> QED
    BY <1>2, <1>3, <2>2, <2>3
<1>5. CASE Requeues(c)
  <2>1. PICK e \in Events : e = event[c]
    BY <1>1
  <2>2. e \in Periodic /\ current_event[c] = e
    BY <1>5, <2>1 DEF Requeues, IInv, InterruptInv
  <2>3. cpu[e] = c /\ use[e] = "added" /\ ~InQueue(events[c], e)
    BY <2>2 DEF IInv, CurrentInv, Active, Queued
  <2>4. PICK l \in Nat : l = period[e] /\ l <= MaxPeriod
    <3>1. period[e] \in Periods \/ period[e] = 0
      BY DEF IInv, TypeOK
    <3>2. period[e] \in Nat /\ period[e] <= MaxPeriod
      BY <3>1, MaxPeriodFacts
    <3> QED
      BY <3>2
  <2> DEFINE time == [left EXCEPT ![e] = l]
  <2>0. PICK k \in Places(events[c], l) : NextEvent(c, InsertAt(events[c], k, e), time, hardware[c])
    BY <1>5, <2>1, <2>4 DEF timer_interrupt_next
  <2> DEFINE r == InsertAt(events[c], k, e)
  <2>5. NextEvent(c, r, time, hardware[c])
    BY <2>0
  <2>6. /\ r \in Seq(Events) /\ Distinct(r) /\ Sorted(r, time)
        /\ \A u : InQueue(r, u) <=> u = e \/ InQueue(events[c], u)
    <3>1. l \in Int /\ l >= -1 /\ left \in [Events -> Int] /\ \A u \in Events : left[u] >= -1
      BY LeftType DEF IInv
    <3>2. Distinct(events[c]) /\ Sorted(events[c], left)
      BY <1>2 DEF Lists
    <3> QED
      BY <1>2, <2>3, <3>1, <3>2, AddFacts
  <2>7. time \in [Events -> -1 .. MaxPeriod]
    <3>1. l \in -1 .. MaxPeriod
      BY <2>4, MaxPeriodFacts
    <3> QED
      BY <1>2, <3>1
  <2>8. \A d \in CPUs : d # c => \A u : InQueue(events[d], u) => time[u] = left[u]
    <3>1. ASSUME NEW d \in CPUs, d # c, NEW u, InQueue(events[d], u) PROVE time[u] = left[u]
      <4>1. u \in Events /\ cpu[u] = d
        BY <3>1, QueuedFacts
      <4>2. u # e
        BY <2>3, <3>1, <4>1
      <4> QED
        BY <1>2, <4>1, <4>2
    <3> QED
      BY <3>1
  <2>9. \A u : InQueue(r, u) => u \in Events /\ cpu[u] = c /\ use[u] = "added"
    <3>1. \A u : InQueue(events[c], u) => u \in Events
      BY <1>2 DEF Lists
    <3> QED
      BY <1>2, <2>3, <2>6, <3>1
  <2>11. \A u \in Events : use[u] = "adding" => left'[u] = left[u]
    <3>1. left' = time
      BY <2>5 DEF NextEvent
    <3> QED
      BY <1>2, <2>3, <3>1
  <2> HIDE DEF r, time
  <2>10. /\ events' \in [CPUs -> Seq(Events)] /\ left' \in [Events -> -1 .. MaxPeriod]
         /\ hardware' \in [CPUs -> Off .. MaxPeriod + 1] /\ lag' \in [CPUs -> 0 .. MaxDelay]
         /\ \A d \in CPUs : Lists(d)'
         /\ HardwareTimerSet'
         /\ \A d \in CPUs : d # c => events'[d] = events[d]
         /\ \A u : InQueue(events'[c], u) => InQueue(r, u)
         /\ \/ \E f \in Events : Takes(c, f) /\ InQueue(r, f) /\ ~InQueue(events'[c], f)
            \/ Returns(c)
    <3>1. TypeOK /\ ListsInv /\ HardwareTimerSet
      BY DEF IInv
    <3>2. PICK q \in Seq(Events), tm \in [Events -> -1 .. MaxPeriod], h \in Off .. MaxPeriod + 1 :
             q = r /\ tm = time /\ h = hardware[c]
      BY <1>2, <2>6, <2>7
    <3>3. /\ Distinct(q) /\ Sorted(q, tm) /\ NextEvent(c, q, tm, h)
          /\ \A u : InQueue(q, u) => u \in Events /\ cpu[u] = c
          /\ \A d \in CPUs : d # c => \A u : InQueue(events[d], u) => tm[u] = left[u]
      BY <2>5, <2>6, <2>8, <2>9, <3>2
    <3>4. UNCHANGED cpu
      BY <1>1
    <3>5. /\ events' \in [CPUs -> Seq(Events)] /\ left' \in [Events -> -1 .. MaxPeriod]
          /\ hardware' \in [CPUs -> Off .. MaxPeriod + 1] /\ lag' \in [CPUs -> 0 .. MaxDelay]
          /\ \A d \in CPUs : Lists(d)'
          /\ HardwareTimerSet'
          /\ \A d \in CPUs : d # c => events'[d] = events[d]
          /\ \A u : InQueue(events'[c], u) => InQueue(q, u)
          /\ \/ \E f \in Events : Takes(c, f) /\ InQueue(q, f) /\ ~InQueue(events'[c], f)
             \/ Returns(c)
      BY <3>1, <3>3, <3>4, NextEventFacts
    <3> QED
      BY <3>2, <3>5
  <2> QED
    BY <1>3, <2>9, <2>10, <2>11
<1> QED
  BY <1>4, <1>5

LEMMA CallHookStep ==
    ASSUME IInv, NEW c \in CPUs, call_hook(c)
    PROVE  IInv'
<1>1. /\ intr[c] = "call" /\ ~Cancelled(c)
      /\ event[c] \in ThreadLocked => threadLock = NoCPU
      /\ threadLock' = IF event[c] \in ThreadLocked THEN c ELSE threadLock
      /\ intr' = [intr EXCEPT ![c] = "hook"]
      /\ UNCHANGED <<events, current_event, in_progress, cpu, left, period, use, held,
                     hardware, lag, event, waitsFor>>
  BY DEF call_hook, listVars, eventVars
<1>2. intr'[c] = "hook" /\ \A d \in CPUs : d # c => intr'[d] = intr[d]
  BY <1>1 DEF IInv, TypeOK
<1>3. ListsInv' /\ HardwareTimerSet'
  <2>1. UNCHANGED ListVars /\ \A d \in CPUs : intr'[d] = "idle" => intr[d] = "idle"
    BY <1>1, <1>2 DEF ListVars
  <2> QED
    BY <2>1, ListsKept DEF IInv
<1>4. TypeOK'
  BY <1>1 DEF IInv, TypeOK, InterruptPC
<1>5. threadLock # c
  BY <1>1 DEF IInv, InterruptInv
<1>6. event[c] \in ThreadLocked => current_event[c] = event[c]
  BY <1>1 DEF IInv, InterruptInv, Cancelled
<1>7. InterruptInv'
  BY <1>1, <1>2, <1>5, <1>6, TimerAssumption DEF IInv, InterruptInv
<1>8. CurrentInv'
  BY <1>1, <1>2 DEF IInv, CurrentInv, Active, Abandoned, Passed
<1>9. UseInv' /\ WaitsInv' /\ AddingInv'
  BY <1>1 DEF IInv, UseInv, WaitsInv, AddingInv
<1> QED
  BY <1>3, <1>4, <1>7, <1>8, <1>9 DEF IInv

LEMMA SkipHookStep ==
    ASSUME IInv, NEW c \in CPUs, skip_hook(c)
    PROVE  IInv'
<1>1. /\ intr[c] = "call" /\ event[c] \in ThreadLocked /\ threadLock = NoCPU
      /\ current_event[c] = NoEvent
      /\ in_progress' = in_progress \ {c}
      /\ intr' = [intr EXCEPT ![c] = "done"]
      /\ UNCHANGED <<events, current_event, cpu, left, period, use, held, hardware, lag,
                     event, waitsFor, threadLock>>
  BY DEF skip_hook, eventVars, Cancelled
<1>2. intr'[c] = "done" /\ \A d \in CPUs : d # c => intr'[d] = intr[d]
  BY <1>1 DEF IInv, TypeOK
<1>3. ListsInv' /\ HardwareTimerSet'
  <2>1. UNCHANGED ListVars /\ \A d \in CPUs : intr'[d] = "idle" => intr[d] = "idle"
    BY <1>1, <1>2 DEF ListVars
  <2> QED
    BY <2>1, ListsKept DEF IInv
<1>4. TypeOK'
  BY <1>1 DEF IInv, TypeOK, InterruptPC
<1>5. InterruptInv'
  BY <1>1, <1>2, TimerAssumption DEF IInv, InterruptInv
<1>6. CurrentInv'
  BY <1>1, <1>2, TimerAssumption DEF IInv, CurrentInv, Active, Abandoned, Passed
<1>7. UseInv' /\ WaitsInv' /\ AddingInv'
  BY <1>1 DEF IInv, UseInv, WaitsInv, AddingInv
<1> QED
  BY <1>3, <1>4, <1>5, <1>6, <1>7 DEF IInv

\* The hook of e returns on c.
HookReturned(c, e) ==
    /\ in_progress' = in_progress \ {c}
    /\ threadLock' = IF e \in ThreadLocked THEN NoCPU ELSE threadLock
    /\ intr' = [intr EXCEPT ![c] = "done"]
    /\ UNCHANGED <<current_event, period, held, event, waitsFor>>

LEMMA HookReturnedFacts ==
    ASSUME IInv, NEW c \in CPUs, NEW e \in Events, e = event[c], intr[c] = "hook",
           HookReturned(c, e)
    PROVE  /\ InterruptInv'
           /\ intr'[c] = "done" /\ \A d \in CPUs : d # c => intr'[d] = intr[d]
           /\ intr' \in [CPUs -> InterruptPC] /\ in_progress' \subseteq CPUs
           /\ threadLock' \in CPUs \cup {NoCPU}
<1>1. intr'[c] = "done" /\ \A d \in CPUs : d # c => intr'[d] = intr[d]
  BY DEF IInv, TypeOK, HookReturned
<1>2. /\ intr' \in [CPUs -> InterruptPC] /\ in_progress' \subseteq CPUs
      /\ threadLock' \in CPUs \cup {NoCPU}
  BY DEF IInv, TypeOK, HookReturned, InterruptPC
<1>3. InterruptInv'
  <2>1. \A d \in CPUs : threadLock' = d <=> intr'[d] = "hook" /\ event[d] \in ThreadLocked
    BY <1>1, TimerAssumption DEF IInv, InterruptInv, HookReturned
  <2> QED
    BY <1>1, <2>1 DEF IInv, InterruptInv, HookReturned
<1> QED
  BY <1>1, <1>2, <1>3

\* The event whose hook runs, with its timer still current, is in no list.
LEMMA ActiveFacts ==
    ASSUME IInv, NEW c \in CPUs, NEW e \in Events, Active(c, e)
    PROVE  cpu[e] = c /\ use[e] = "added" /\ \A d \in CPUs : ~Queued(events[d], e)
<1>1. cpu[e] = c /\ use[e] = "added" /\ ~Queued(events[c], e)
  BY DEF IInv, CurrentInv
<1>2. \A d \in CPUs : Queued(events[d], e) => cpu[e] = d
  BY QueuedFacts DEF Queued
<1> QED
  BY <1>1, <1>2

LEMMA HookReturnsStep ==
    ASSUME IInv, NEW c \in CPUs, hook_returns(c)
    PROVE  IInv'
<1>1. PICK e \in Events : e = event[c] /\ intr[c] = "hook"
  BY DEF hook_returns, IInv, TypeOK, InterruptInv
<1>2. HookReturned(c, e)
  BY <1>1 DEF hook_returns, HookReturned
<1>3. /\ InterruptInv'
      /\ intr'[c] = "done" /\ \A d \in CPUs : d # c => intr'[d] = intr[d]
      /\ intr' \in [CPUs -> InterruptPC] /\ in_progress' \subseteq CPUs
      /\ threadLock' \in CPUs \cup {NoCPU}
  BY <1>1, <1>2, HookReturnedFacts
<1>4. e \in ThreadLocked \cup Rearming => Active(c, e)
  BY <1>1 DEF IInv, InterruptInv, Active
<1>5. CASE e \in Rearming
  <2>1. PICK l \in Periods : AddTimer(c, e, l, l, 0) /\ UNCHANGED use
    BY <1>1, <1>5 DEF hook_returns
  <2>2. e \notin Periodic
    BY <1>5, TimerAssumption
  <2>3. cpu[e] = c /\ use[e] = "added" /\ \A d \in CPUs : ~Queued(events[d], e)
    BY <1>4, <1>5, ActiveFacts
  <2>4. \A d \in CPUs : intr'[d] = "idle" => intr[d] = "idle"
    BY <1>3
  <2>5. /\ events' \in [CPUs -> Seq(Events)] /\ cpu' \in [Events -> CPUs \cup {NoCPU}]
        /\ left' \in [Events -> -1 .. MaxPeriod] /\ hardware' \in [CPUs -> Off .. MaxPeriod + 1]
        /\ lag' \in [CPUs -> 0 .. MaxDelay] /\ \A f \in Events : f # e => left'[f] = left[f]
        /\ \A d \in CPUs : d # c => events'[d] = events[d]
        /\ \A u : InQueue(events'[c], u) <=> u = e \/ InQueue(events[c], u)
        /\ cpu'[e] = c /\ \A f \in Events : f # e => cpu'[f] = cpu[f]
        /\ \A d \in CPUs : Lists(d)'
        /\ HardwareTimerSet'
    <3>1. l \in -1 .. MaxPeriod /\ l \in 0 .. MaxPeriod /\ 0 \in 0 .. MaxDelay /\ l \in 0 .. Max({l, 1}) + 0
      BY MaxPeriodFacts, HardwareRange, TimerAssumption
    <3> QED
      BY <2>1, <2>3, <2>4, <3>1, AddTimerFacts DEF IInv
  <2>6. TypeOK'
    BY <1>2, <1>3, <2>1, <2>5 DEF HookReturned, IInv, TypeOK
  <2>7. CurrentInv'
    <3>1. ASSUME NEW d \in CPUs, NEW u \in Events
          PROVE  /\ Active(d, u)' => cpu'[u] = d /\ use[u] = "added" /\ ~Queued(events'[d], u)
                 /\ Abandoned(d, u)' => cpu'[u] = d /\ use[u] = "cancelling"
                 /\ Passed(d, u)' /\ cpu'[u] = d => use[u] \in {"free", "refused"}
      <4>1. CASE d = c
        <5>1. current_event'[c] = e /\ intr'[c] = "done" /\ e # NoEvent
          BY <1>2, <1>3, <1>4, <1>5, TimerAssumption DEF HookReturned, Active
        <5> QED
          BY <1>5, <2>2, <4>1, <5>1 DEF Active, Abandoned, Passed
      <4>2. CASE d # c
        <5>1. /\ current_event'[d] = current_event[d] /\ intr'[d] = intr[d] /\ event'[d] = event[d]
              /\ events'[d] = events[d]
          BY <1>2, <1>3, <2>5, <4>2 DEF HookReturned
        <5>2. CASE u = e
          <6>1. (Active(d, e)' <=> Active(d, e)) /\ ~Abandoned(d, e)' /\ ~Passed(d, e)'
            BY <1>3, <1>5, <2>2, <5>1, TimerAssumption DEF Active, Abandoned, Passed, InterruptInv
          <6>2. Active(d, e) => cpu[e] = d
            BY ActiveFacts
          <6> QED
            BY <2>3, <4>2, <5>2, <6>1, <6>2
        <5>3. CASE u # e
          <6>1. (Active(d, u)' <=> Active(d, u)) /\ (Abandoned(d, u)' <=> Abandoned(d, u))
                /\ (Passed(d, u)' <=> Passed(d, u))
            BY <5>1 DEF Active, Abandoned, Passed
          <6>2. cpu'[u] = cpu[u] /\ events'[d] = events[d]
            BY <2>5, <5>1, <5>3
          <6> QED
            BY <6>1, <6>2 DEF IInv, CurrentInv
        <5> QED
          BY <5>2, <5>3
      <4> QED
        BY <4>1, <4>2
    <3> QED
      BY <2>1, <3>1 DEF CurrentInv
  <2>8. UseInv'
    <3>1. UNCHANGED <<use, current_event>>
      BY <1>2, <2>1 DEF HookReturned
    <3>2. \A d \in CPUs, u \in Events : InQueue(events'[d], u) => use[u] = "added"
      BY <2>3, <2>5, QueuedFacts
    <3> QED
      BY <3>1, <3>2 DEF IInv, UseInv, Queued
  <2>9. WaitsInv'
    BY <1>2, <2>1 DEF HookReturned, IInv, WaitsInv
  <2>10. AddingInv'
    BY <1>2, <2>1, <2>3, <2>5 DEF HookReturned, IInv, AddingInv
  <2> QED
    BY <1>3, <2>5, <2>6, <2>7, <2>8, <2>9, <2>10, ListsNext DEF IInv
<1>6. CASE e \notin Rearming
  <2>1. /\ use' = [use EXCEPT ![e] = IF e \in ThreadLocked \ Periodic THEN "free" ELSE @]
        /\ UNCHANGED <<events, left, cpu, hardware, lag>>
    BY <1>1, <1>6 DEF hook_returns
  <2>2. ListsInv' /\ HardwareTimerSet'
    <3>1. UNCHANGED ListVars /\ \A d \in CPUs : intr'[d] = "idle" => intr[d] = "idle"
      BY <1>3, <2>1 DEF ListVars
    <3> QED
      BY <3>1, ListsKept DEF IInv
  <2>3. TypeOK'
    BY <1>2, <1>3, <2>1 DEF HookReturned, IInv, TypeOK, Uses
  <2>4. /\ \A u \in Events : u # e => use'[u] = use[u]
        /\ use'[e] = IF e \in ThreadLocked \ Periodic THEN "free" ELSE use[e]
    BY <2>1 DEF IInv, TypeOK
  <2>5. \A d \in CPUs : Active(d, e) => d = c \/ e \notin ThreadLocked
    BY <1>4, ActiveFacts
  <2>6. CurrentInv'
    <3>1. ASSUME NEW d \in CPUs, NEW u \in Events
          PROVE  /\ Active(d, u)' => cpu[u] = d /\ use'[u] = "added" /\ ~Queued(events[d], u)
                 /\ Abandoned(d, u)' => cpu[u] = d /\ use'[u] = "cancelling"
                 /\ Passed(d, u)' /\ cpu[u] = d => use'[u] \in {"free", "refused"}
      <4>1. CASE d = c
        <5>1. /\ current_event'[c] = current_event[c] /\ event'[c] = e /\ intr'[c] = "done"
              /\ current_event[c] \in {e, NoEvent} /\ e # NoEvent /\ u # NoEvent
          BY <1>1, <1>2, <1>3, TimerAssumption DEF HookReturned, IInv, InterruptInv
        <5>2. Active(c, u)' => u = e /\ Active(c, e) /\ use'[e] = use[e]
          BY <1>1, <2>4, <5>1 DEF Active
        <5>3. ~Abandoned(c, u)'
          BY <5>1 DEF Abandoned
        <5>4. Passed(c, u)' => use'[u] = "free"
          BY <2>4, <5>1 DEF Passed
        <5> QED
          BY <4>1, <5>2, <5>3, <5>4, ActiveFacts
      <4>2. CASE d # c
        <5>1. current_event'[d] = current_event[d] /\ intr'[d] = intr[d] /\ event'[d] = event[d]
          BY <1>2, <1>3, <4>2 DEF HookReturned
        <5>2. (Active(d, u)' <=> Active(d, u)) /\ (Abandoned(d, u)' <=> Abandoned(d, u))
              /\ (Passed(d, u)' <=> Passed(d, u))
          BY <5>1 DEF Active, Abandoned, Passed
        <5>3. CASE u = e
          <6>1. (Active(d, u) => cpu[u] = d /\ use[u] = "added" /\ ~Queued(events[d], u))
                /\ (Abandoned(d, u) => cpu[u] = d /\ use[u] = "cancelling")
                /\ (Passed(d, u) /\ cpu[u] = d => use[u] \in {"free", "refused"})
            BY DEF IInv, CurrentInv
          <6>2. Active(d, u) \/ Abandoned(d, u) => e \notin ThreadLocked
            BY <2>5, <4>2, <5>3 DEF Abandoned
          <6>3. Passed(d, u) => use'[u] = "free"
            BY <2>4, <5>3 DEF Passed
          <6> QED
            BY <2>4, <5>2, <5>3, <6>1, <6>2, <6>3
        <5>4. CASE u # e
          BY <2>4, <5>2, <5>4 DEF IInv, CurrentInv
        <5> QED
          BY <5>3, <5>4
      <4> QED
        BY <4>1, <4>2
    <3> QED
      BY <2>1, <3>1 DEF CurrentInv
  <2>7. UseInv'
    <3>1. UNCHANGED <<events, current_event>>
      BY <1>2, <2>1 DEF HookReturned
    <3>2. e \in ThreadLocked => \A d \in CPUs : ~Queued(events[d], e)
      BY <1>4, ActiveFacts
    <3> QED
      BY <2>4, <3>1, <3>2 DEF IInv, UseInv
  <2>8. WaitsInv'
    <3>1. UNCHANGED waitsFor /\ (e \in ThreadLocked => use[e] = "added")
      BY <1>2, <1>4, ActiveFacts DEF HookReturned
    <3>2. \A d \in CPUs : waitsFor[d] # NoEvent => waitsFor[d] \in Events
      BY DEF IInv, TypeOK
    <3> QED
      BY <2>4, <3>1, <3>2 DEF IInv, WaitsInv
  <2>9. AddingInv'
    BY <1>2, <2>1, <2>4 DEF HookReturned, IInv, AddingInv
  <2> QED
    BY <1>3, <2>2, <2>3, <2>6, <2>7, <2>8, <2>9 DEF IInv
<1> QED
  BY <1>5, <1>6

\* The steps of a client that do not touch timer_interrupt().
interruptVars == <<current_event, in_progress, intr, event, threadLock>>

LEMMA ClientKept ==
    ASSUME IInv, UNCHANGED interruptVars
    PROVE  /\ InterruptInv'
           /\ \A d \in CPUs, u \in Events : /\ Active(d, u)' <=> Active(d, u)
                                            /\ Abandoned(d, u)' <=> Abandoned(d, u)
                                            /\ Passed(d, u)' <=> Passed(d, u)
           /\ \A d \in CPUs : intr'[d] = "idle" => intr[d] = "idle"
<1>1. UNCHANGED <<current_event, in_progress, intr, event, threadLock>>
  BY DEF interruptVars
<1>2. InterruptInv'
  BY <1>1 DEF IInv, InterruptInv
<1>3. ASSUME NEW d \in CPUs, NEW u \in Events
      PROVE  /\ Active(d, u)' <=> Active(d, u)
             /\ Abandoned(d, u)' <=> Abandoned(d, u)
             /\ Passed(d, u)' <=> Passed(d, u)
  BY <1>1 DEF Active, Abandoned, Passed
<1> QED
  BY <1>1, <1>2, <1>3

\* The locked section of add_timer().
LEMMA AddedStep ==
    ASSUME IInv, NEW c \in CPUs, NEW e \in Events, intr[c] = "idle", use[e] \in {"free", "adding"},
           NEW l \in -1 .. MaxPeriod, NEW h \in 0 .. MaxPeriod, NEW g \in 0 .. MaxDelay,
           h \in 0 .. Max({l, 1}) + g, AddTimer(c, e, l, h, g),
           use' = [use EXCEPT ![e] = "added"], UNCHANGED waitsFor, UNCHANGED interruptVars,
           period' \in [Events -> Periods \cup {0}], held' \in [Events -> 0 .. MaxDelay],
           \A f \in Events : f # e => period'[f] = period[f] /\ held'[f] = held[f]
    PROVE  IInv'
<1>1. /\ intr[c] = "idle" /\ use[e] \in {"free", "adding"} /\ UNCHANGED waitsFor
      /\ use' = [use EXCEPT ![e] = "added"]
  OBVIOUS
<1>2. UNCHANGED interruptVars
  OBVIOUS
<1>4. /\ InterruptInv'
      /\ \A d \in CPUs, u \in Events : /\ Active(d, u)' <=> Active(d, u)
                                       /\ Abandoned(d, u)' <=> Abandoned(d, u)
                                       /\ Passed(d, u)' <=> Passed(d, u)
      /\ \A d \in CPUs : intr'[d] = "idle" => intr[d] = "idle"
  BY <1>2, ClientKept
<1>5. \A d \in CPUs : ~Queued(events[d], e)
  BY <1>1 DEF IInv, UseInv
<1>6. /\ events' \in [CPUs -> Seq(Events)] /\ cpu' \in [Events -> CPUs \cup {NoCPU}]
      /\ left' \in [Events -> -1 .. MaxPeriod] /\ hardware' \in [CPUs -> Off .. MaxPeriod + 1]
      /\ lag' \in [CPUs -> 0 .. MaxDelay] /\ \A f \in Events : f # e => left'[f] = left[f]
      /\ \A d \in CPUs : d # c => events'[d] = events[d]
      /\ \A u : InQueue(events'[c], u) <=> u = e \/ InQueue(events[c], u)
      /\ cpu'[e] = c /\ \A f \in Events : f # e => cpu'[f] = cpu[f]
      /\ \A d \in CPUs : Lists(d)'
      /\ HardwareTimerSet'
  BY <1>4, <1>5, AddTimerFacts DEF IInv
<1>7. TypeOK'
  BY <1>1, <1>2, <1>6 DEF interruptVars, IInv, TypeOK, Uses
<1>8. use'[e] = "added" /\ \A u \in Events : u # e => use'[u] = use[u]
  BY <1>1 DEF IInv, TypeOK
<1>9. CurrentInv'
  <2>1. ASSUME NEW d \in CPUs, NEW u \in Events
        PROVE  /\ Active(d, u)' => cpu'[u] = d /\ use'[u] = "added" /\ ~Queued(events'[d], u)
               /\ Abandoned(d, u)' => cpu'[u] = d /\ use'[u] = "cancelling"
               /\ Passed(d, u)' /\ cpu'[u] = d => use'[u] \in {"free", "refused"}
    <3>1. /\ Active(d, u) => cpu[u] = d /\ use[u] = "added" /\ ~Queued(events[d], u)
          /\ Abandoned(d, u) => cpu[u] = d /\ use[u] = "cancelling"
          /\ Passed(d, u) /\ cpu[u] = d => use[u] \in {"free", "refused"}
      BY DEF IInv, CurrentInv
    <3>2. CASE u = e
      <4>1. ~Active(d, e) /\ ~Abandoned(d, e)
        BY <1>1, <3>1, <3>2
      <4>2. ~(Passed(d, e) /\ d = c)
        BY <1>1 DEF Passed
      <4> QED
        BY <1>4, <1>6, <3>2, <4>1, <4>2
    <3>3. CASE u # e
      <4>1. cpu'[u] = cpu[u] /\ use'[u] = use[u] /\ (Queued(events'[d], u) <=> Queued(events[d], u))
        BY <1>6, <1>8, <3>3 DEF Queued
      <4> QED
        BY <1>4, <3>1, <4>1
    <3> QED
      BY <3>2, <3>3
  <2> QED
    BY <2>1 DEF CurrentInv
<1>10. UseInv'
  <2>1. \A d \in CPUs, u \in Events : u # e => (Queued(events'[d], u) <=> Queued(events[d], u))
    BY <1>6 DEF Queued
  <2>2. UNCHANGED current_event
    BY <1>2 DEF interruptVars
  <2> QED
    BY <1>8, <2>1, <2>2 DEF IInv, UseInv
<1>11. WaitsInv'
  <2>1. \A d \in CPUs : waitsFor[d] # NoEvent => waitsFor[d] \in Events /\ waitsFor[d] # e
    BY <1>1 DEF IInv, TypeOK, WaitsInv
  <2> QED
    BY <1>1, <1>8, <2>1 DEF IInv, WaitsInv
<1>12. AddingInv'
  BY <1>6, <1>8 DEF IInv, AddingInv
<1> QED
  BY <1>4, <1>6, <1>7, <1>9, <1>10, <1>11, <1>12, ListsNext DEF IInv

LEMMA AddTimerStep ==
    ASSUME IInv, NEW c \in CPUs, NEW e \in Events, add_timer(c, e)
    PROVE  IInv'
<1>1. /\ intr[c] = "idle" /\ use[e] = "free" /\ UNCHANGED waitsFor /\ UNCHANGED interruptVars
      /\ use' = [use EXCEPT ![e] = "added"] /\ UNCHANGED held
  BY DEF add_timer, ClientMayRun, interruptVars
<1>2. PICK l \in Periods :
         AddTimer(c, e, l, l, 0) /\ period' = [period EXCEPT ![e] = IF e \in Periodic THEN l ELSE 0]
  BY DEF add_timer
<1>3. l \in -1 .. MaxPeriod /\ l \in 0 .. MaxPeriod /\ 0 \in 0 .. MaxDelay /\ l \in 0 .. Max({l, 1}) + 0
  BY MaxPeriodFacts, HardwareRange, TimerAssumption
<1>4. /\ period' \in [Events -> Periods \cup {0}] /\ held' \in [Events -> 0 .. MaxDelay]
      /\ \A f \in Events : f # e => period'[f] = period[f] /\ held'[f] = held[f]
  BY <1>1, <1>2 DEF IInv, TypeOK
<1> QED
  BY <1>1, <1>2, <1>3, <1>4, AddedStep

LEMMA AddTimerInsertStep ==
    ASSUME IInv, NEW c \in CPUs, NEW e \in Events, add_timer_insert(c, e)
    PROVE  IInv'
<1>1. /\ intr[c] = "idle" /\ use[e] = "adding" /\ UNCHANGED waitsFor /\ UNCHANGED interruptVars
      /\ use' = [use EXCEPT ![e] = "added"] /\ AddTimer(c, e, left[e], period[e], held[e])
      /\ period' = [period EXCEPT ![e] = IF e \in Periodic THEN @ ELSE 0]
      /\ held' = [held EXCEPT ![e] = 0]
  BY DEF add_timer_insert, ClientMayRun, interruptVars
<1>2. /\ left[e] \in -1 .. MaxPeriod /\ held[e] \in 0 .. MaxDelay
      /\ period[e] \in 0 .. Max({left[e], 1}) + held[e]
  BY <1>1 DEF IInv, TypeOK, AddingInv
<1>3. period[e] \in 0 .. MaxPeriod
  <2>1. period[e] \in Periods \/ period[e] = 0
    BY DEF IInv, TypeOK
  <2> QED
    BY <2>1, MaxPeriodFacts
<1>4. /\ period' \in [Events -> Periods \cup {0}] /\ held' \in [Events -> 0 .. MaxDelay]
      /\ \A f \in Events : f # e => period'[f] = period[f] /\ held'[f] = held[f]
  BY <1>1, TimerAssumption DEF IInv, TypeOK
<1> QED
  BY <1>1, <1>2, <1>3, <1>4, AddedStep

\* A step after which e is in no list, and its client knows so.
LEMMA FreeStep ==
    ASSUME IInv, NEW e \in Events, UNCHANGED current_event, InterruptInv',
           NEW x \in {"free", "adding", "refused"},
           \A d \in CPUs, u \in Events : /\ Active(d, u)' <=> Active(d, u)
                                         /\ Abandoned(d, u)' <=> Abandoned(d, u)
                                         /\ Passed(d, u)' <=> Passed(d, u),
           use' = [use EXCEPT ![e] = x], x = "adding" => \A d \in CPUs : ~Passed(d, e),
           \A u \in Events : u # e => cpu'[u] = cpu[u],
           \A d \in CPUs, u \in Events : Queued(events'[d], u) => u # e /\ Queued(events[d], u),
           \A d \in CPUs : ~Active(d, e) /\ ~Abandoned(d, e)
    PROVE  CurrentInv' /\ UseInv' /\ use' \in [Events -> Uses]
<1>1. use'[e] = x /\ \A u \in Events : u # e => use'[u] = use[u]
  BY DEF IInv, TypeOK
<1>2. use' \in [Events -> Uses]
  BY DEF IInv, TypeOK, Uses
<1>3. UseInv'
  BY <1>1 DEF IInv, UseInv
<1>4. CurrentInv'
  <2>1. ASSUME NEW d \in CPUs, NEW u \in Events
        PROVE  /\ Active(d, u)' => cpu'[u] = d /\ use'[u] = "added" /\ ~Queued(events'[d], u)
               /\ Abandoned(d, u)' => cpu'[u] = d /\ use'[u] = "cancelling"
               /\ Passed(d, u)' /\ cpu'[u] = d => use'[u] \in {"free", "refused"}
    <3>1. /\ Active(d, u) => cpu[u] = d /\ use[u] = "added" /\ ~Queued(events[d], u)
          /\ Abandoned(d, u) => cpu[u] = d /\ use[u] = "cancelling"
          /\ Passed(d, u) /\ cpu[u] = d => use[u] \in {"free", "refused"}
      BY DEF IInv, CurrentInv
    <3>2. CASE u = e
      BY <1>1, <3>2
    <3>3. CASE u # e
      BY <1>1, <3>1, <3>3
    <3> QED
      BY <3>2, <3>3
  <2> QED
    BY <2>1 DEF CurrentInv
<1> QED
  BY <1>2, <1>3, <1>4

LEMMA AddTimerBeginStep ==
    ASSUME IInv, NEW c \in CPUs, NEW e \in Events, add_timer_begin(c, e)
    PROVE  IInv'
<1>1. /\ e \notin ThreadLocked /\ use[e] = "free" /\ use' = [use EXCEPT ![e] = "adding"]
      /\ UNCHANGED interruptVars
      /\ UNCHANGED <<events, current_event, cpu, held, hardware, lag, intr, waitsFor>>
  BY DEF add_timer_begin, Preemptible, interruptVars, listVars
<1>2. PICK l \in Periods : /\ left' = [left EXCEPT ![e] = l]
                           /\ period' = [period EXCEPT ![e] = l]
  BY DEF add_timer_begin
<1>3. l \in Nat /\ l <= MaxPeriod /\ MaxPeriod \in Nat
  BY MaxPeriodFacts
<1>4. /\ InterruptInv'
      /\ \A d \in CPUs, u \in Events : /\ Active(d, u)' <=> Active(d, u)
                                       /\ Abandoned(d, u)' <=> Abandoned(d, u)
                                       /\ Passed(d, u)' <=> Passed(d, u)
  BY <1>1, ClientKept
<1>5. \A d \in CPUs : ~Queued(events[d], e) /\ ~Active(d, e) /\ ~Abandoned(d, e) /\ ~Passed(d, e)
  BY <1>1 DEF IInv, UseInv, CurrentInv, Passed
<1>6. CurrentInv' /\ UseInv' /\ use' \in [Events -> Uses]
  <2>1. \A d \in CPUs, u \in Events : Queued(events'[d], u) => u # e /\ Queued(events[d], u)
    BY <1>1, <1>5
  <2>2. \A u \in Events : u # e => cpu'[u] = cpu[u]
    BY <1>1
  <2> QED
    BY <1>1, <1>4, <1>5, <2>1, <2>2, FreeStep
<1>7. TypeOK'
  BY <1>1, <1>2, <1>3, <1>6 DEF interruptVars, IInv, TypeOK
<1>8. \A f \in Events : f # e => left'[f] = left[f] /\ period'[f] = period[f] /\ use'[f] = use[f]
  BY <1>1, <1>2 DEF IInv, TypeOK
<1>9. \A d \in CPUs : \A i \in DOMAIN events[d] : events[d][i] \in Events /\ events[d][i] # e
  BY <1>5 DEF IInv, TypeOK, Queued, InQueue
<1>10. ListsInv'
  BY <1>1, <1>8, <1>9 DEF IInv, ListsInv
<1>11. HardwareTimerSet'
  <2>1. \A d \in CPUs : events[d] # <<>> => Head(events[d]) \in Events /\ Head(events[d]) # e
    <3>1. ASSUME NEW d \in CPUs, events[d] # <<>>
          PROVE  1 \in DOMAIN events[d] /\ Head(events[d]) = events[d][1]
      <4>1. events[d] \in Seq(Events)
        BY DEF IInv, TypeOK
      <4> QED
        BY <3>1, <4>1
    <3> QED
      BY <1>9, <3>1
  <2> QED
    BY <1>1, <1>8, <2>1 DEF IInv, HardwareTimerSet
<1>12. WaitsInv'
  <2>1. \A d \in CPUs : waitsFor[d] # NoEvent => waitsFor[d] \in Events /\ waitsFor[d] # e
    BY <1>1 DEF IInv, TypeOK, WaitsInv
  <2> QED
    BY <1>1, <1>8, <2>1 DEF IInv, WaitsInv
<1>13. AddingInv'
  <2>1. left'[e] = l /\ period'[e] = l /\ held'[e] = held[e] /\ held[e] \in Nat
    BY <1>1, <1>2, DelayType DEF IInv, TypeOK
  <2>2. period'[e] \in 0 .. Max({left'[e], 1}) + held'[e]
    BY <1>3, <2>1, HardwareRange
  <2> QED
    BY <1>1, <1>8, <2>2 DEF IInv, AddingInv
<1> QED
  BY <1>4, <1>6, <1>7, <1>10, <1>11, <1>12, <1>13 DEF IInv

\* A step that changes nothing but what the client of e knows.
LEMMA KnownStep ==
    ASSUME IInv, NEW e \in Events, NEW x \in {"free", "refused"}, use[e] # "cancelling",
           \A d \in CPUs : ~Queued(events[d], e) /\ ~Active(d, e), use' = [use EXCEPT ![e] = x],
           UNCHANGED <<listVars, cpu, left, period, held, hardware, lag, intr, event, waitsFor,
                       threadLock>>
    PROVE  IInv'
<1>1. use[e] # "cancelling" /\ use' = [use EXCEPT ![e] = x]
  OBVIOUS
<1>2. UNCHANGED interruptVars
  BY DEF interruptVars, listVars
<1>3. UNCHANGED <<events, current_event, cpu, left, period, held, hardware, lag, waitsFor>>
  BY DEF listVars
<1>4. /\ InterruptInv'
      /\ \A d \in CPUs, u \in Events : /\ Active(d, u)' <=> Active(d, u)
                                       /\ Abandoned(d, u)' <=> Abandoned(d, u)
                                       /\ Passed(d, u)' <=> Passed(d, u)
      /\ \A d \in CPUs : intr'[d] = "idle" => intr[d] = "idle"
  BY <1>2, ClientKept
<1>5. \A d \in CPUs : ~Queued(events[d], e) /\ ~Active(d, e) /\ ~Abandoned(d, e)
  <2>1. \A d \in CPUs : Abandoned(d, e) => use[e] = "cancelling"
    BY DEF IInv, CurrentInv
  <2> QED
    BY <1>1, <2>1
<1>6. CurrentInv' /\ UseInv' /\ use' \in [Events -> Uses]
  <2>1. \A d \in CPUs, u \in Events : Queued(events'[d], u) => u # e /\ Queued(events[d], u)
    BY <1>3, <1>5
  <2>2. /\ \A u \in Events : u # e => cpu'[u] = cpu[u]
        /\ \A d \in CPUs : ~Active(d, e) /\ ~Abandoned(d, e)
    BY <1>3, <1>5
  <2>3. UNCHANGED current_event /\ x # "adding"
    BY <1>3
  <2> QED
    BY <1>1, <1>4, <2>1, <2>2, <2>3, FreeStep
<1>7. ListsInv' /\ HardwareTimerSet'
  <2>1. UNCHANGED ListVars
    BY <1>3 DEF ListVars
  <2> QED
    BY <1>4, <2>1, ListsKept DEF IInv
<1>8. TypeOK'
  BY <1>2, <1>3, <1>6 DEF interruptVars, IInv, TypeOK
<1>9. WaitsInv'
  <2>1. \A d \in CPUs : waitsFor[d] # NoEvent => waitsFor[d] \in Events /\ waitsFor[d] # e
    BY <1>1 DEF IInv, TypeOK, WaitsInv
  <2> QED
    BY <1>1, <1>3, <2>1 DEF IInv, TypeOK, WaitsInv
<1>10. AddingInv'
  BY <1>1, <1>3 DEF IInv, TypeOK, AddingInv
<1> QED
  BY <1>4, <1>6, <1>7, <1>8, <1>9, <1>10 DEF IInv

LEMMA NotFoundStep ==
    ASSUME IInv, NEW c \in CPUs, NEW e \in Events, cancel_timer_not_found(c, e)
    PROVE  IInv'
<1>1. /\ use[e] # "cancelling"
      /\ \A d \in CPUs : cpu[e] = d => current_event[d] # e /\ ~Queued(events[d], e)
      /\ use' = [use EXCEPT ![e] = "free"]
      /\ UNCHANGED <<listVars, cpu, left, period, held, hardware, lag, intr, event, waitsFor,
                     threadLock>>
  BY TimerAssumption DEF cancel_timer_not_found, MayCancel
<1>2. \A d \in CPUs : ~Queued(events[d], e) /\ ~Active(d, e)
  <2>1. \A d \in CPUs : Queued(events[d], e) => cpu[e] = d
    BY QueuedFacts DEF Queued
  <2>2. \A d \in CPUs : Active(d, e) => cpu[e] = d /\ current_event[d] = e
    BY ActiveFacts DEF Active
  <2> QED
    BY <1>1, <2>1, <2>2
<1> QED
  BY <1>1, <1>2, KnownStep

LEMMA RefusedStep ==
    ASSUME IInv, NEW c \in CPUs, NEW e \in Events, add_timer_refused(c, e)
    PROVE  IInv'
<1>1. /\ use[e] = "free" /\ use' = [use EXCEPT ![e] = "refused"]
      /\ UNCHANGED <<listVars, cpu, left, period, held, hardware, lag, intr, event, waitsFor,
                     threadLock>>
  BY DEF add_timer_refused
<1>2. \A d \in CPUs : ~Queued(events[d], e) /\ ~Active(d, e)
  BY <1>1 DEF IInv, UseInv, CurrentInv
<1> QED
  BY <1>1, <1>2, KnownStep

LEMMA CancelQueuedStep ==
    ASSUME IInv, NEW c \in CPUs, NEW e \in Events, cancel_timer_queued(c, e)
    PROVE  IInv'
<1>1. PICK p \in CPUs : p = cpu[e] /\ Queued(events[p], e)
  BY DEF cancel_timer_queued, IInv, TypeOK
<1>2. use[e] # "cancelling" /\ use' = [use EXCEPT ![e] = "free"]
  BY DEF cancel_timer_queued, MayCancel
<1>3. UNCHANGED interruptVars
  BY DEF cancel_timer_queued, interruptVars
<1>4. UNCHANGED <<current_event, held, waitsFor>> /\ period' = [period EXCEPT ![e] = 0]
  BY DEF cancel_timer_queued
<1>5. /\ events' \in [CPUs -> Seq(Events)] /\ cpu' \in [Events -> CPUs \cup {NoCPU}]
      /\ left' \in [Events -> -1 .. MaxPeriod] /\ hardware' \in [CPUs -> Off .. MaxPeriod + 1]
      /\ lag' \in [CPUs -> 0 .. MaxDelay] /\ \A f \in Events : f # e => left'[f] = left[f]
      /\ \A d \in CPUs : Lists(d)'
      /\ HardwareTimerSet'
      /\ \A d \in CPUs, u \in Events : InQueue(events'[d], u) <=> u # e /\ InQueue(events[d], u)
      /\ \A f \in Events : f # e => cpu'[f] = cpu[f]
  BY CancelQueuedFacts DEF IInv
<1>6. /\ InterruptInv'
      /\ \A d \in CPUs, u \in Events : /\ Active(d, u)' <=> Active(d, u)
                                       /\ Abandoned(d, u)' <=> Abandoned(d, u)
                                       /\ Passed(d, u)' <=> Passed(d, u)
  BY <1>3, ClientKept
<1>7. \A d \in CPUs : ~Active(d, e) /\ ~Abandoned(d, e)
  <2>1. \A d \in CPUs : Active(d, e) => ~Queued(events[p], e)
    BY ActiveFacts
  <2>2. \A d \in CPUs : Abandoned(d, e) => use[e] = "cancelling"
    BY DEF IInv, CurrentInv
  <2> QED
    BY <1>1, <1>2, <2>1, <2>2
<1>8. CurrentInv' /\ UseInv' /\ use' \in [Events -> Uses]
  <2>1. \A d \in CPUs, u \in Events : Queued(events'[d], u) => u # e /\ Queued(events[d], u)
    BY <1>5 DEF Queued
  <2> QED
    BY <1>2, <1>4, <1>5, <1>6, <1>7, <2>1, FreeStep
<1>9. TypeOK'
  BY <1>3, <1>4, <1>5, <1>8 DEF interruptVars, IInv, TypeOK
<1>10. WaitsInv'
  <2>1. \A d \in CPUs : waitsFor[d] # NoEvent => waitsFor[d] \in Events /\ waitsFor[d] # e
    BY <1>2 DEF IInv, TypeOK, WaitsInv
  <2> QED
    BY <1>2, <1>4, <2>1 DEF IInv, TypeOK, WaitsInv
<1>11. AddingInv'
  BY <1>2, <1>4, <1>5 DEF IInv, TypeOK, AddingInv
<1> QED
  BY <1>5, <1>6, <1>8, <1>9, <1>10, <1>11, ListsNext DEF IInv

LEMMA CancelReturnsStep ==
    ASSUME IInv, NEW c \in CPUs, cancel_timer_returns(c)
    PROVE  IInv'
<1>1. PICK e \in Events : e = waitsFor[c]
  BY DEF cancel_timer_returns, IInv, TypeOK
<1>2. /\ cpu[e] \notin in_progress /\ use' = [use EXCEPT ![e] = "free"]
      /\ waitsFor' = [waitsFor EXCEPT ![c] = NoEvent]
  BY <1>1 DEF cancel_timer_returns
<1>3. UNCHANGED interruptVars
  BY DEF cancel_timer_returns, interruptVars, listVars
<1>4. UNCHANGED <<current_event, period, held>> /\ UNCHANGED <<events, cpu, left, hardware, lag>>
  BY DEF cancel_timer_returns, listVars
<1>5. /\ InterruptInv'
      /\ \A d \in CPUs, u \in Events : /\ Active(d, u)' <=> Active(d, u)
                                       /\ Abandoned(d, u)' <=> Abandoned(d, u)
                                       /\ Passed(d, u)' <=> Passed(d, u)
      /\ \A d \in CPUs : intr'[d] = "idle" => intr[d] = "idle"
  BY <1>3, ClientKept
<1>6. e # NoEvent /\ use[e] = "cancelling"
  BY <1>1, TimerAssumption DEF IInv, WaitsInv
<1>7. \A d \in CPUs : ~Queued(events[d], e)
  BY <1>6 DEF IInv, UseInv
<1>8. \A d \in CPUs : ~Active(d, e) /\ ~Abandoned(d, e)
  <2>1. \A d \in CPUs : Active(d, e) => use[e] = "added"
    BY ActiveFacts
  <2>2. \A d \in CPUs : Abandoned(d, e) => cpu[e] = d
    BY DEF IInv, CurrentInv
  <2>3. \A d \in CPUs : Abandoned(d, e) => d \in in_progress
    BY DEF IInv, InterruptInv, Abandoned
  <2> QED
    BY <1>2, <1>6, <2>1, <2>2, <2>3
<1>9. CurrentInv' /\ UseInv' /\ use' \in [Events -> Uses]
  <2>1. \A d \in CPUs, u \in Events : Queued(events'[d], u) => u # e /\ Queued(events[d], u)
    BY <1>4, <1>7
  <2>2. \A u \in Events : u # e => cpu'[u] = cpu[u]
    BY <1>4
  <2> QED
    BY <1>2, <1>4, <1>5, <1>8, <2>1, <2>2, FreeStep
<1>10. ListsInv' /\ HardwareTimerSet'
  <2>1. UNCHANGED ListVars
    BY <1>4 DEF ListVars
  <2> QED
    BY <1>5, <2>1, ListsKept DEF IInv
<1>11. TypeOK'
  BY <1>2, <1>3, <1>4, <1>9 DEF interruptVars, IInv, TypeOK
<1>12. WaitsInv'
  <2>1. waitsFor'[c] = NoEvent /\ \A d \in CPUs : d # c => waitsFor'[d] = waitsFor[d]
    BY <1>2 DEF IInv, TypeOK
  <2>2. \A d \in CPUs : (d # c /\ waitsFor[d] # NoEvent) => (waitsFor[d] \in Events /\ waitsFor[d] # e)
    BY <1>1, <1>6 DEF IInv, TypeOK, WaitsInv
  <2>3. \A u \in Events : u # e => use'[u] = use[u]
    BY <1>2 DEF IInv, TypeOK
  <2> QED
    BY <2>1, <2>2, <2>3 DEF IInv, WaitsInv
<1>13. AddingInv'
  BY <1>2, <1>4 DEF IInv, TypeOK, AddingInv
<1> QED
  BY <1>5, <1>9, <1>10, <1>11, <1>12, <1>13 DEF IInv

\* cancel_timer() of an event that another CPU holds as its current one.
LEMMA CancelCurrentStep ==
    ASSUME IInv, NEW c \in CPUs, NEW e \in Events, cancel_timer_current(c, e)
    PROVE  IInv'
<1>1. PICK p \in CPUs : p = cpu[e] /\ current_event[p] = e
  BY DEF cancel_timer_current, IInv, TypeOK
<1>2. /\ intr[c] = "idle" /\ waitsFor[c] = NoEvent /\ use[e] # "cancelling"
      /\ e \in ThreadLocked => threadLock = NoCPU
      /\ e \in Remote \/ p = c
  BY <1>1 DEF cancel_timer_current, MayCancel, ClientMayRun
<1>3. /\ current_event' = [current_event EXCEPT ![p] = NoEvent]
      /\ waitsFor' = [waitsFor EXCEPT ![c] = IF e \notin ThreadLocked \/ p = c THEN e ELSE NoEvent]
      /\ use' = [use EXCEPT ![e] = IF e \notin ThreadLocked \/ p = c THEN "cancelling" ELSE "free"]
      /\ period' = [period EXCEPT ![e] = 0]
      /\ UNCHANGED <<events, in_progress, cpu, left, held, hardware, lag, intr, event, threadLock>>
  BY <1>1 DEF cancel_timer_current, WaitsForHook
<1>4. e # NoEvent /\ event[p] = e /\ intr[p] # "idle" /\ p # c /\ e \notin Rearming
  BY <1>1, <1>2, TimerAssumption DEF IInv, InterruptInv
<1>5. /\ current_event'[p] = NoEvent
      /\ \A d \in CPUs : d # p => current_event'[d] = current_event[d]
      /\ \A u \in Events : u # e => use'[u] = use[u]
      /\ use'[e] = IF e \in ThreadLocked THEN "free" ELSE "cancelling"
      /\ waitsFor'[c] = IF e \in ThreadLocked THEN NoEvent ELSE e
      /\ \A d \in CPUs : d # c => waitsFor'[d] = waitsFor[d]
  BY <1>3, <1>4 DEF IInv, TypeOK
<1>6. ListsInv' /\ HardwareTimerSet'
  <2>1. UNCHANGED ListVars /\ \A d \in CPUs : intr'[d] = "idle" => intr[d] = "idle"
    BY <1>3 DEF ListVars
  <2> QED
    BY <2>1, ListsKept DEF IInv
<1>7. TypeOK'
  BY <1>3 DEF IInv, TypeOK, Uses
<1>8. InterruptInv'
  <2>1. threadLock # p
    BY <1>2, <1>4, TimerAssumption DEF IInv, InterruptInv
  <2> QED
    BY <1>3, <1>4, <1>5, <2>1 DEF IInv, InterruptInv
<1>9. \A d \in CPUs : d # p => ~Active(d, e) /\ ~Abandoned(d, e)
  <2>1. \A d \in CPUs : Active(d, e) => cpu[e] = d
    BY ActiveFacts
  <2>2. \A d \in CPUs : Abandoned(d, e) => use[e] = "cancelling"
    BY DEF IInv, CurrentInv
  <2> QED
    BY <1>1, <1>2, <2>1, <2>2
<1>10. CurrentInv'
  <2>1. ASSUME NEW d \in CPUs, NEW u \in Events
        PROVE  /\ Active(d, u)' => cpu[u] = d /\ use'[u] = "added" /\ ~Queued(events[d], u)
               /\ Abandoned(d, u)' => cpu[u] = d /\ use'[u] = "cancelling"
               /\ Passed(d, u)' /\ cpu[u] = d => use'[u] \in {"free", "refused"}
    <3>1. CASE d = p
      <4>1. u # NoEvent
        BY TimerAssumption
      <4>2. ~Active(p, u)' /\ ~Passed(p, u)'
        BY <1>5, <4>1 DEF Active, Passed
      <4>3. Abandoned(p, u)' => u = e /\ e \notin ThreadLocked
        BY <1>3, <1>4 DEF Abandoned
      <4> QED
        BY <1>1, <1>5, <3>1, <4>2, <4>3
    <3>2. CASE d # p
      <4>1. /\ Active(d, u)' <=> Active(d, u)
            /\ Abandoned(d, u)' <=> Abandoned(d, u)
            /\ Passed(d, u)' <=> Passed(d, u)
        BY <1>3, <1>5, <3>2 DEF Active, Abandoned, Passed
      <4>2. /\ Active(d, u) => cpu[u] = d /\ use[u] = "added" /\ ~Queued(events[d], u)
            /\ Abandoned(d, u) => cpu[u] = d /\ use[u] = "cancelling"
            /\ Passed(d, u) /\ cpu[u] = d => use[u] \in {"free", "refused"}
        BY DEF IInv, CurrentInv
      <4> QED
        BY <1>1, <1>5, <1>9, <3>2, <4>1, <4>2
    <3> QED
      BY <3>1, <3>2
  <2> QED
    BY <1>3, <2>1 DEF CurrentInv
<1>11. \A d \in CPUs : ~Queued(events[d], e)
  <2>1. CASE Active(p, e)
    BY <2>1, ActiveFacts
  <2>2. CASE ~Active(p, e)
    <3>1. intr[p] = "done" /\ e \in ThreadLocked /\ e \notin Periodic
      BY <1>1, <1>4, <2>2 DEF Active, IInv, TypeOK, InterruptPC
    <3>3. Passed(p, e)
      BY <1>1, <1>4, <3>1 DEF Passed
    <3>4. use[e] # "added"
      BY <1>1, <3>3 DEF IInv, CurrentInv
    <3> QED
      BY <3>4 DEF IInv, UseInv
  <2> QED
    BY <2>1, <2>2
<1>12. UseInv'
  <2>1. e \notin ThreadLocked => \A d \in CPUs : current_event'[d] # e
    <3>1. \A d \in CPUs : d # p /\ current_event[d] = e => e \in ThreadLocked
      BY <1>4, <1>9 DEF Active
    <3> QED
      BY <1>4, <1>5, <3>1
  <2>2. \A u \in Events, d \in CPUs : u # NoEvent /\ (current_event[d] # u => current_event'[d] # u)
    BY <1>5, TimerAssumption
  <2>3. UNCHANGED events
    BY <1>3
  <2> QED
    BY <1>5, <1>11, <2>1, <2>2, <2>3 DEF IInv, UseInv
<1>13. WaitsInv'
  <2>1. \A d \in CPUs : waitsFor[d] # NoEvent => waitsFor[d] \in Events /\ waitsFor[d] # e
    BY <1>2 DEF IInv, TypeOK, WaitsInv
  <2> QED
    BY <1>2, <1>4, <1>5, <2>1 DEF IInv, WaitsInv
<1>14. AddingInv'
  BY <1>3, <1>5 DEF IInv, TypeOK, AddingInv
<1> QED
  BY <1>6, <1>7, <1>8, <1>10, <1>12, <1>13, <1>14 DEF IInv

-----------------------------------------------------------------------------
(***************************************************************************)
(* The theorems.                                                           *)
(***************************************************************************)
LEMMA NextIInv ==
    ASSUME IInv, [Next]_vars
    PROVE  IInv'
<1>1. CASE Tick
  BY <1>1, TickStep
<1>2. ASSUME NEW c \in CPUs, timer_interrupt(c) PROVE IInv'
  BY <1>2, InterruptStart
<1>3. ASSUME NEW c \in CPUs, InterruptStep(c) PROVE IInv'
  BY <1>3, CallHookStep, SkipHookStep, HookReturnsStep, InterruptNext DEF InterruptStep
<1>4. ASSUME NEW c \in CPUs, cancel_timer_returns(c) PROVE IInv'
  BY <1>4, CancelReturnsStep
<1>5. ASSUME NEW c \in CPUs, NEW e \in Events,
             \/ add_timer(c, e) \/ add_timer_begin(c, e) \/ add_timer_insert(c, e)
             \/ add_timer_refused(c, e) \/ cancel_timer_not_found(c, e)
             \/ cancel_timer_queued(c, e) \/ cancel_timer_current(c, e)
      PROVE  IInv'
  BY <1>5, AddTimerStep, AddTimerBeginStep, AddTimerInsertStep, RefusedStep, NotFoundStep,
      CancelQueuedStep, CancelCurrentStep
<1>6. CASE UNCHANGED vars
  <2>1. UNCHANGED <<events, current_event, in_progress, cpu, left, period, use, held, hardware,
                    lag, intr, event, waitsFor, threadLock>>
    BY <1>6 DEF vars, listVars, eventVars
  <2>2. TypeOK'
    BY <2>1 DEF IInv, TypeOK
  <2>3. ListsInv' /\ HardwareTimerSet'
    BY <2>1 DEF IInv, ListsInv, HardwareTimerSet
  <2>4. ControlInv'
    BY <2>1, ControlKept DEF IInv, ControlInv
  <2>5. AddingInv'
    BY <2>1 DEF IInv, AddingInv
  <2> QED
    BY <2>2, <2>3, <2>4, <2>5 DEF IInv, ControlInv
<1> QED
  BY <1>1, <1>2, <1>3, <1>4, <1>5, <1>6 DEF Next

LEMMA Invariance == Spec => []IInv
<1>1. IInv /\ [Next]_vars => IInv'
  BY NextIInv
<1> QED
  BY <1>1, InitIInv, PTL DEF Spec

\* The variables of timer.cpp have their types: an event's time stays within the
\* longest period, and the hardware timer is off or set within it.
THEOREM TimerTypes == Spec => []TypeOK
<1>1. IInv => TypeOK
  BY DEF IInv
<1> QED
  BY <1>1, Invariance, PTL

\* The lists of timer.cpp: an event is in one list at most, once, and in the list
\* of the CPU that timer::cpu names, where cancel_timer() looks for it; every list
\* is ordered by the time its events are due.
THEOREM ListsAreOrdered == Spec => []ListsInv
<1>1. IInv => ListsInv
  BY DEF IInv
<1> QED
  BY <1>1, Invariance, PTL

\* While a CPU has events and no timer_interrupt() runs there, its hardware timer is
\* set to fire in time for the first of them, or late by no more than the caller of
\* add_timer() who set it last was held up between reading the clock (timer.cpp:167)
\* and using it (timer.cpp:196).
THEOREM HardwareTimerIsSet == Spec => []HardwareTimerSet
<1>1. IInv => HardwareTimerSet
  BY DEF IInv
<1> QED
  BY <1>1, Invariance, PTL

\* When cancel_timer() has returned, whichever CPU it ran on and wherever
\* timer_interrupt() was with the event, the event is in no list, its hook does not
\* run, and timer_interrupt() will neither call it nor put it back; the same of an
\* event that is not added yet, or was refused.
THEOREM CancelledEventsStayOut == Spec => []CancelledStaysOut
<1>1. IInv => CancelledStaysOut
  <2>1. SUFFICES ASSUME IInv, NEW e \in Events, NEW c \in CPUs,
                        use[e] \in {"free", "adding", "refused"}
                 PROVE  /\ ~Queued(events[c], e)
                        /\ event[c] = e => /\ intr[c] \in {"call", "done"}
                                           /\ intr[c] = "call" => Cancelled(c)
                                           /\ intr[c] = "done" => ~Requeues(c)
    BY DEF CancelledStaysOut
  <2>2. ~Queued(events[c], e)
    BY <2>1 DEF IInv, UseInv
  <2>3. ~Active(c, e) /\ ~Abandoned(c, e)
    BY <2>1 DEF IInv, CurrentInv
  <2>4. ASSUME event[c] = e
        PROVE  /\ intr[c] \in {"call", "done"}
               /\ intr[c] = "call" => Cancelled(c)
               /\ intr[c] = "done" => ~Requeues(c)
    <3>1. current_event[c] \in {e, NoEvent} /\ intr[c] \in InterruptPC /\ intr[c] # "idle"
      BY <2>1, <2>4, TimerAssumption DEF IInv, InterruptInv, TypeOK
    <3>2. intr[c] = "hook" => e \notin ThreadLocked
      BY <2>1, <2>3, <2>4 DEF IInv, InterruptInv, Active
    <3>3. intr[c] # "hook"
      BY <2>3, <2>4, <3>1, <3>2 DEF Active, Abandoned
    <3>4. intr[c] = "call" => Cancelled(c)
      BY <2>3, <2>4, <3>1 DEF Active, Abandoned, Cancelled
    <3>5. intr[c] = "done" => ~Requeues(c)
      BY <2>3, <2>4, <3>1 DEF Active, Requeues
    <3> QED
      BY <3>1, <3>3, <3>4, <3>5 DEF InterruptPC
  <2> QED
    BY <2>2, <2>4
<1> QED
  BY <1>1, Invariance, PTL

-----------------------------------------------------------------------------
(***************************************************************************)
(* Inter-CPU messages: the inductive invariant.                            *)
(***************************************************************************)
Free(m) == InQueue(sFreeMessages, m)

\* m waits in a mailbox, or a CPU deals with it.
InUse(m) == InMailbox(m) \/ \E c \in CPUs : msg[c] = m

\* No list has a message twice.
ListInv ==
    /\ Distinct(sFreeMessages) /\ Distinct(sBroadcastMessages)
    /\ \A c \in CPUs : Distinct(sCPUMessages[c])

\* A message is in one list at most, and in none when a CPU has taken it out of its
\* own mailbox; the CPU that cleans it up is the only one that deals with it.
PlaceInv ==
    \A m \in Messages :
        /\ Free(m) => ~InUse(m) /\ ran[m] = {}
        /\ \A c \in CPUs :
              /\ InQueue(sCPUMessages[c], m) =>
                    /\ ~InQueue(sBroadcastMessages, m)
                    /\ \A d \in CPUs : msg[d] # m
                    /\ \A d \in CPUs : InQueue(sCPUMessages[d], m) => d = c
              /\ msg[c] = m /\ mailbox[c] = "local" =>
                    ~InMailbox(m) /\ \A d \in CPUs : msg[d] = m => d = c
              /\ msg[c] = m /\ mailbox[c] = "bcast" =>
                    InQueue(sBroadcastMessages, m) /\ c \in proc_bitmap[m]
              /\ msg[c] = m /\ step[c] = "clean" =>
                    ToCome(m) = {} /\ \A d \in CPUs : msg[d] = m => d = c

HandlerInv ==
    \A c \in CPUs :
        /\ msg[c] = NoMessage <=> step[c] \notin {"process", "clean"}
        /\ msg[c] = NoMessage <=> mailbox[c] = "none"

CountInv ==
    \A m \in Messages :
        InUse(m) => ref_count[m] = Cardinality(ToCome(m)) + Cardinality(Processing(m))

\* The message m of c, which waits for answers: those c has asked have processed it,
\* or will find it, or process it; it is done when nobody deals with it any more.
Owned(c, m) ==
    /\ sync[m] /\ ~Free(m)
    /\ call[c].to = ran[m] \cup ToCome(m) \cup Processing(m)
    /\ done[m] => ~InUse(m)

\* The sender of a SYNC message keeps it; that of another one may see it used again.
SenderInv ==
    \A c \in CPUs :
        /\ mine[c] # NoMessage <=> pc[c] \in {"sent", "waits"}
        /\ pc[c] = "waits" => call[c].sync
        /\ mine[c] # NoMessage /\ call[c].sync =>
              /\ Owned(c, mine[c])
              /\ \A d \in CPUs : mine[d] = mine[c] /\ call[d].sync => d = c

MessagesInv == ListInv /\ PlaceInv /\ HandlerInv /\ CountInv

SMPInv == SMPTypeOK /\ MessagesInv /\ SenderInv

-----------------------------------------------------------------------------
(***************************************************************************)
(* Lists.                                                                  *)
(***************************************************************************)

\* A message that is put in front of a list.
LEMMA PrependFacts ==
    ASSUME NEW U, NEW s \in Seq(U), NEW t \in U
    PROVE  /\ <<t>> \o s \in Seq(U)
           /\ \A u : InQueue(<<t>> \o s, u) <=> u = t \/ InQueue(s, u)
           /\ Distinct(s) /\ ~InQueue(s, t) => Distinct(<<t>> \o s)
<1> DEFINE n == Len(s)
           r == <<t>> \o s
<1>1. r \in Seq(U)
  OBVIOUS
<1>2. /\ n \in Nat
      /\ DOMAIN s = 1 .. n
      /\ DOMAIN r = 1 .. (n + 1)
      /\ r[1] = t
      /\ \A i \in 1 .. n : r[i + 1] = s[i]
  OBVIOUS
<1> HIDE DEF n, r
<1>3. \A i \in 1 .. (n + 1) : i = 1 \/ (i - 1 \in 1 .. n /\ r[i] = s[i - 1])
  BY <1>2
<1>4. ASSUME NEW u PROVE InQueue(r, u) <=> u = t \/ InQueue(s, u)
  <2>1. ASSUME InQueue(r, u) PROVE u = t \/ InQueue(s, u)
    BY <1>2, <1>3, <2>1 DEF InQueue
  <2>2. ASSUME u = t \/ InQueue(s, u) PROVE InQueue(r, u)
    BY <1>2, <2>2 DEF InQueue
  <2> QED
    BY <2>1, <2>2
<1>5. ASSUME Distinct(s), ~InQueue(s, t) PROVE Distinct(r)
  <2>1. \A i \in 1 .. n : s[i] # t
    BY <1>2, <1>5 DEF InQueue
  <2>2. \A i, j \in 1 .. n : s[i] = s[j] => i = j
    BY <1>2, <1>5 DEF Distinct
  <2> QED
    BY <1>2, <1>3, <2>1, <2>2 DEF Distinct
<1> QED
  BY <1>1, <1>4, <1>5 DEF r

\* The message finish_message_processing() takes out of the broadcast mailbox.
LEMMA UnlinkedFacts ==
    ASSUME NEW U, NEW s \in Seq(U), NEW t, Distinct(s)
    PROVE  /\ Unlinked(s, t) \in Seq(U) /\ Distinct(Unlinked(s, t))
           /\ \A u : InQueue(Unlinked(s, t), u) <=> u # t /\ InQueue(s, u)
<1>1. CASE InQueue(s, t)
  BY <1>1, DequeueType, DequeueFacts DEF Unlinked
<1>2. CASE ~InQueue(s, t)
  BY <1>2 DEF Unlinked
<1> QED
  BY <1>1, <1>2

\* The list of free messages that smp_init() sets up.
LEMMA SetToSeqFacts ==
    ASSUME NEW S, IsFiniteSet(S)
    PROVE  SetToSeq(S) \in Seq(S) /\ Distinct(SetToSeq(S))
<1> DEFINE n == Cardinality(S)
<1>1. n \in Nat /\ ExistsBijection(1 .. n, S)
  BY FS_CardinalityType
<1>2. \E f \in [1 .. n -> S] : IsInjective(f)
  BY <1>1 DEF ExistsBijection, Bijection, Injection
<1>3. SetToSeq(S) \in [1 .. n -> S] /\ IsInjective(SetToSeq(S))
  BY <1>2 DEF SetToSeq
<1>4. SetToSeq(S) \in Seq(S)
  BY <1>1, <1>3, SeqDef
<1> QED
  BY <1>3, <1>4 DEF Distinct, IsInjective

\* The first message of the broadcast mailbox that c has not handled.
LEMMA ForMeFacts ==
    ASSUME NEW c \in CPUs, sBroadcastMessages \in Seq(Messages), ForMe(c) # {}
    PROVE  \E m \in Messages : /\ m = sBroadcastMessages[Min(ForMe(c))]
                               /\ InQueue(sBroadcastMessages, m)
                               /\ c \notin proc_bitmap[m]
<1>1. ForMe(c) \in SUBSET Nat
  BY DEF ForMe
<1>2. \E n \in ForMe(c) : \A k \in ForMe(c) : n <= k
  BY <1>1, LeastElement
<1>3. Min(ForMe(c)) \in ForMe(c)
  BY <1>2 DEF Min
<1>4. PICK i \in ForMe(c) : i = Min(ForMe(c))
  BY <1>3
<1>5. /\ i \in DOMAIN sBroadcastMessages /\ sBroadcastMessages[i] \in Messages
      /\ c \notin proc_bitmap[sBroadcastMessages[i]]
  BY DEF ForMe
<1> QED
  BY <1>4, <1>5 DEF InQueue

-----------------------------------------------------------------------------
(***************************************************************************)
(* The initial state, and steps that leave the messages alone.             *)
(***************************************************************************)
LEMMA NobodyAtFirst == SMPInit => SMPInv
<1> SUFFICES ASSUME SMPInit PROVE SMPInv
  OBVIOUS
<1>1. sFreeMessages \in Seq(Messages) /\ Distinct(sFreeMessages)
  BY SetToSeqFacts, SMPAssumption DEF SMPInit
<1>2. 0 \in 0 .. Cardinality(CPUs)
  BY FS_CardinalityType, SMPAssumption
<1>3. SMPTypeOK
  BY <1>1, <1>2 DEF SMPInit, SMPTypeOK, ThreadPC, HandlerPC, NoCall
<1>4. ListInv
  BY <1>1 DEF SMPInit, ListInv, Distinct
<1>5. ASSUME NEW m \in Messages PROVE ~InUse(m)
  BY SMPAssumption DEF SMPInit, InUse, InMailbox, InQueue
<1>6. PlaceInv
  <2>1. \A m \in Messages : ran[m] = {}
    BY DEF SMPInit
  <2>2. \A m \in Messages, c \in CPUs : ~InQueue(sCPUMessages[c], m) /\ msg[c] # m
    BY <1>5 DEF InUse, InMailbox
  <2> QED
    BY <1>5, <2>1, <2>2 DEF PlaceInv
<1>7. HandlerInv /\ CountInv
  BY <1>5 DEF SMPInit, HandlerInv, CountInv
<1>8. SenderInv
  BY DEF SMPInit, SenderInv
<1> QED
  BY <1>3, <1>4, <1>6, <1>7, <1>8 DEF SMPInv, MessagesInv

\* The senders, when the messages of those that wait for answers are still theirs.
LEMMA SendersKept ==
    ASSUME SMPInv,
           \A d \in CPUs :
              \/ /\ mine'[d] = mine[d] /\ call'[d] = call[d]
                 /\ pc'[d] \in {"sent", "waits"} <=> pc[d] \in {"sent", "waits"}
                 /\ pc'[d] = "waits" => call[d].sync
              \/ mine'[d] = NoMessage /\ pc'[d] \notin {"sent", "waits"},
           \A d \in CPUs, m \in Messages :
              (mine[d] = m /\ mine'[d] = m /\ call[d].sync /\ call'[d] = call[d] /\ Owned(d, m))
                 => Owned(d, m)'
    PROVE  SenderInv'
<1>1. ASSUME NEW d \in CPUs
      PROVE  /\ mine'[d] # NoMessage <=> pc'[d] \in {"sent", "waits"}
             /\ pc'[d] = "waits" => call'[d].sync
  BY DEF SMPInv, SenderInv
<1>2. ASSUME NEW d \in CPUs, mine'[d] # NoMessage, call'[d].sync
      PROVE  /\ Owned(d, mine[d])' /\ mine'[d] = mine[d]
             /\ \A u \in CPUs : mine'[u] = mine'[d] /\ call'[u].sync => u = d
  <2>1. mine'[d] = mine[d] /\ call'[d] = call[d]
    BY <1>2
  <2>2. PICK m \in Messages : m = mine[d]
    BY <1>2, <2>1 DEF SMPInv, SMPTypeOK
  <2>3. Owned(d, m) /\ \A u \in CPUs : mine[u] = m /\ call[u].sync => u = d
    BY <1>2, <2>1, <2>2 DEF SMPInv, SenderInv
  <2>4. Owned(d, m)' /\ mine'[d] = m
    BY <1>2, <2>1, <2>2, <2>3
  <2>5. Owned(d, mine[d])'
    BY <2>4 DEF Owned
  <2>6. ASSUME NEW u \in CPUs, mine'[u] = mine'[d], call'[u].sync PROVE u = d
    <3>1. mine[u] = m /\ call[u].sync
      BY <1>2, <2>4, <2>6
    <3> QED
      BY <2>3, <3>1
  <2> QED
    BY <2>1, <2>5, <2>6
<1> QED
  BY <1>1, <1>2 DEF SenderInv

lists == <<sFreeMessages, sCPUMessages, sBroadcastMessages>>

\* What a step has to leave alone for the messages to stay where they are: c may go
\* on, but does not take a message or give one up.
Quiet ==
    /\ UNCHANGED <<lists, messageVars, msg, mailbox, ran>>
    /\ \A d \in CPUs : /\ step'[d] = "process" <=> step[d] = "process"
                       /\ step'[d] = "clean" <=> step[d] = "clean"

LEMMA QuietFacts ==
    ASSUME Quiet, NEW m \in Messages
    PROVE  /\ Free(m)' <=> Free(m)
           /\ InMailbox(m)' <=> InMailbox(m)
           /\ InUse(m)' <=> InUse(m)
           /\ ToCome(m)' = ToCome(m)
           /\ Processing(m)' = Processing(m)
<1>1. UNCHANGED <<sFreeMessages, sCPUMessages, sBroadcastMessages, proc_bitmap, msg>>
  BY DEF Quiet, lists, messageVars
<1>2. Free(m)' <=> Free(m)
  BY <1>1 DEF Free
<1>3. InMailbox(m)' <=> InMailbox(m)
  BY <1>1 DEF InMailbox
<1>4. InUse(m)' <=> InUse(m)
  BY <1>1, <1>3 DEF InUse
<1>5. ToCome(m)' = ToCome(m)
  BY <1>1 DEF ToCome
<1>6. Processing(m)' = Processing(m)
  BY <1>1 DEF Processing, Quiet
<1> QED
  BY <1>2, <1>3, <1>4, <1>5, <1>6

LEMMA QuietStep ==
    ASSUME SMPInv, Quiet,
           \A d \in CPUs :
              \/ /\ mine'[d] = mine[d] /\ call'[d] = call[d]
                 /\ pc'[d] \in {"sent", "waits"} <=> pc[d] \in {"sent", "waits"}
                 /\ pc'[d] = "waits" => call[d].sync
              \/ mine'[d] = NoMessage /\ pc'[d] \notin {"sent", "waits"}
    PROVE  MessagesInv' /\ SenderInv'
<1>1. UNCHANGED <<sFreeMessages, sCPUMessages, sBroadcastMessages, ref_count, proc_bitmap, sync,
                  done, msg, mailbox, ran>>
  BY DEF Quiet, lists, messageVars
<1>2. \A d \in CPUs : /\ step'[d] = "process" <=> step[d] = "process"
                      /\ step'[d] = "clean" <=> step[d] = "clean"
  BY DEF Quiet
<1>3. \A m \in Messages : /\ Free(m)' <=> Free(m)
                          /\ InMailbox(m)' <=> InMailbox(m)
                          /\ InUse(m)' <=> InUse(m)
                          /\ ToCome(m)' = ToCome(m)
                          /\ Processing(m)' = Processing(m)
  BY QuietFacts
<1>4. ListInv'
  BY <1>1 DEF SMPInv, MessagesInv, ListInv
<1>5. PlaceInv'
  <2>1. PlaceInv
    BY DEF SMPInv, MessagesInv
  <2> QED
    BY <1>1, <1>2, <1>3, <2>1 DEF PlaceInv
<1>6. HandlerInv'
  BY <1>1, <1>2 DEF SMPInv, MessagesInv, HandlerInv
<1>7. CountInv'
  BY <1>1, <1>3 DEF SMPInv, MessagesInv, CountInv
<1>8. ASSUME NEW d \in CPUs, NEW m \in Messages, call'[d] = call[d], Owned(d, m)
      PROVE  Owned(d, m)'
  BY <1>1, <1>3, <1>8 DEF Owned
<1>9. SenderInv'
  BY <1>8, SendersKept
<1> QED
  BY <1>4, <1>5, <1>6, <1>7, <1>9 DEF MessagesInv

\* A CPU goes on with its handler, but not to or from a message.
LEMMA HandlerQuiet ==
    ASSUME SMPInv, NEW c \in CPUs, NEW w \in {"idle", "check", "broadcast"},
           step[c] \in {"idle", "check", "broadcast"}, step' = [step EXCEPT ![c] = w],
           UNCHANGED <<lists, messageVars, senderVars, msg, mailbox, ran>>,
           interrupt' \subseteq CPUs
    PROVE  SMPInv'
<1>1. step'[c] = w /\ \A d \in CPUs : d # c => step'[d] = step[d]
  BY DEF SMPInv, SMPTypeOK
<1>2. Quiet
  BY <1>1 DEF Quiet
<1>3. UNCHANGED <<mine, call, pc, lock, unsent>>
  BY DEF senderVars
<1>4. \A d \in CPUs : pc'[d] = "waits" => call[d].sync
  BY <1>3 DEF SMPInv, SenderInv
<1>5. MessagesInv' /\ SenderInv'
  BY <1>2, <1>3, <1>4, QuietStep
<1>6. SMPTypeOK'
  BY <1>3 DEF SMPInv, SMPTypeOK, HandlerPC, lists, messageVars
<1> QED
  BY <1>5, <1>6 DEF SMPInv

\* The thread on a CPU goes on, but not to or from a message.
LEMMA ThreadQuiet ==
    ASSUME SMPInv, NEW c \in CPUs, NEW w \in ThreadPC, pc' = [pc EXCEPT ![c] = w],
           pc[c] \notin {"sent", "waits"}, w \notin {"sent", "waits"},
           UNCHANGED <<lists, messageVars, call, mine, interrupt, handlerVars, ran>>,
           lock' \in CPUs \cup {NoCPU}, unsent' \subseteq CPUs
    PROVE  SMPInv'
<1>1. pc'[c] = w /\ \A d \in CPUs : d # c => pc'[d] = pc[d]
  BY DEF SMPInv, SMPTypeOK
<1>2. UNCHANGED <<mine, call, step, msg, mailbox>>
  BY DEF handlerVars
<1>3. Quiet
  BY <1>2 DEF Quiet
<1>4. \A d \in CPUs : pc'[d] = "waits" => call[d].sync
  BY <1>1 DEF SMPInv, SenderInv
<1>5. MessagesInv' /\ SenderInv'
  BY <1>1, <1>2, <1>3, <1>4, QuietStep
<1>6. SMPTypeOK'
  BY <1>2 DEF SMPInv, SMPTypeOK, lists, messageVars
<1> QED
  BY <1>5, <1>6 DEF SMPInv

-----------------------------------------------------------------------------
(***************************************************************************)
(* The steps.                                                              *)
(***************************************************************************)
LEMMA StartStep ==
    ASSUME SMPInv, NEW c \in CPUs, process_all_pending_ici(c) \/ smp_intercpu_int_handler(c)
    PROVE  SMPInv'
<1>1. /\ step[c] = "idle" /\ step' = [step EXCEPT ![c] = "check"]
      /\ UNCHANGED <<sFreeMessages, sCPUMessages, sBroadcastMessages, messageVars, senderVars, msg,
                     mailbox, ran>>
      /\ interrupt' = interrupt \/ interrupt' = interrupt \ {c}
  BY DEF process_all_pending_ici, smp_intercpu_int_handler
<1>2. UNCHANGED <<lists, messageVars, senderVars, msg, mailbox, ran>>
  BY <1>1 DEF lists
<1>3. interrupt' \subseteq CPUs
  BY <1>1 DEF SMPInv, SMPTypeOK
<1> QED
  BY <1>1, <1>2, <1>3, HandlerQuiet

LEMMA ThreadStep ==
    ASSUME SMPInv, NEW c \in CPUs,
           \/ smp_send(c) \/ disable_interrupts(c) \/ acquire_spinlock(c) \/ release_spinlock(c)
    PROVE  SMPInv'
<1>1. /\ UNCHANGED <<sFreeMessages, sCPUMessages, sBroadcastMessages, messageVars, call, mine,
                     interrupt, handlerVars, ran>>
      /\ lock' \in {lock, c, NoCPU} /\ unsent' \in {unsent, unsent \ {c}}
      /\ pc[c] \notin {"sent", "waits"}
      /\ \E w \in {"finds", "locks", "locked", "run"} : pc' = [pc EXCEPT ![c] = w]
  BY DEF smp_send, disable_interrupts, acquire_spinlock, release_spinlock, GoTo
<1>2. UNCHANGED <<lists, messageVars, call, mine, interrupt, handlerVars, ran>>
  BY <1>1 DEF lists
<1>3. PICK w \in {"finds", "locks", "locked", "run"} : pc' = [pc EXCEPT ![c] = w]
  BY <1>1
<1>4. w \in ThreadPC /\ w \notin {"sent", "waits"}
  BY DEF ThreadPC
<1>5. lock' \in CPUs \cup {NoCPU} /\ unsent' \subseteq CPUs
  BY <1>1 DEF SMPInv, SMPTypeOK
<1> QED
  BY <1>1, <1>2, <1>3, <1>4, <1>5, ThreadQuiet

\* What SendReturns() leaves of a CPU's call.
LEMMA ReturnFacts ==
    ASSUME SMPInv, NEW c \in CPUs, SendReturns(c)
    PROVE  /\ pc' \in [CPUs -> ThreadPC] /\ mine' \in [CPUs -> Messages \cup {NoMessage}]
           /\ call' \in [CPUs -> [to : SUBSET CPUs, sync : BOOLEAN, broadcast : BOOLEAN]]
           /\ mine'[c] = NoMessage /\ pc'[c] \notin {"sent", "waits"}
           /\ \A d \in CPUs : d # c => pc'[d] = pc[d] /\ mine'[d] = mine[d] /\ call'[d] = call[d]
<1>1. /\ pc' = [pc EXCEPT ![c] = Restored(c)] /\ Restored(c) \in {"locked", "run"}
      /\ mine' = [mine EXCEPT ![c] = NoMessage]
      /\ call' = [call EXCEPT ![c] = NoCall]
  BY DEF SendReturns, GoTo, Restored
<1>2. NoCall \in [to : SUBSET CPUs, sync : BOOLEAN, broadcast : BOOLEAN]
  BY DEF NoCall
<1>3. /\ pc' \in [CPUs -> ThreadPC] /\ mine' \in [CPUs -> Messages \cup {NoMessage}]
      /\ call' \in [CPUs -> [to : SUBSET CPUs, sync : BOOLEAN, broadcast : BOOLEAN]]
  BY <1>1, <1>2 DEF SMPInv, SMPTypeOK, ThreadPC
<1>4. /\ mine'[c] = NoMessage /\ pc'[c] \notin {"sent", "waits"}
      /\ \A d \in CPUs : d # c => pc'[d] = pc[d] /\ mine'[d] = mine[d] /\ call'[d] = call[d]
  BY <1>1 DEF SMPInv, SMPTypeOK
<1> QED
  BY <1>3, <1>4

LEMMA SelfStep ==
    ASSUME SMPInv, NEW c \in CPUs, smp_send_ici_self(c)
    PROVE  SMPInv'
<1>1. /\ SendReturns(c)
      /\ UNCHANGED <<sFreeMessages, sCPUMessages, sBroadcastMessages, messageVars, lock, unsent,
                     interrupt, handlerVars, ran>>
  BY DEF smp_send_ici_self
<1>2. /\ pc' \in [CPUs -> ThreadPC] /\ mine' \in [CPUs -> Messages \cup {NoMessage}]
      /\ call' \in [CPUs -> [to : SUBSET CPUs, sync : BOOLEAN, broadcast : BOOLEAN]]
      /\ mine'[c] = NoMessage /\ pc'[c] \notin {"sent", "waits"}
      /\ \A d \in CPUs : d # c => pc'[d] = pc[d] /\ mine'[d] = mine[d] /\ call'[d] = call[d]
  BY <1>1, ReturnFacts
<1>3. Quiet
  BY <1>1 DEF Quiet, lists, handlerVars
<1>4. \A d \in CPUs : pc[d] = "waits" => call[d].sync
  BY DEF SMPInv, SenderInv
<1>5. MessagesInv' /\ SenderInv'
  BY <1>2, <1>3, <1>4, QuietStep
<1>6. SMPTypeOK'
  BY <1>1, <1>2 DEF SMPInv, SMPTypeOK, messageVars, handlerVars
<1> QED
  BY <1>5, <1>6 DEF SMPInv

LEMMA InterruptOthersStep ==
    ASSUME SMPInv, NEW c \in CPUs, arch_smp_send_ici(c)
    PROVE  SMPInv'
<1>1. /\ pc[c] = "sent"
      /\ UNCHANGED <<sFreeMessages, sCPUMessages, sBroadcastMessages, messageVars, lock, unsent,
                     handlerVars, ran>>
  BY DEF arch_smp_send_ici
<1>2. interrupt' \subseteq CPUs
  BY DEF arch_smp_send_ici, SMPInv, SMPTypeOK
<1>3. Quiet
  BY <1>1 DEF Quiet, lists, handlerVars
<1>4. \A d \in CPUs : pc[d] = "waits" => call[d].sync
  BY DEF SMPInv, SenderInv
<1>5. CASE call[c].sync
  <2>1. pc' = [pc EXCEPT ![c] = "waits"] /\ UNCHANGED <<call, mine>>
    BY <1>5 DEF arch_smp_send_ici, GoTo
  <2>2. pc'[c] = "waits" /\ \A d \in CPUs : d # c => pc'[d] = pc[d]
    BY <2>1 DEF SMPInv, SMPTypeOK
  <2>3. MessagesInv' /\ SenderInv'
    BY <1>1, <1>3, <1>4, <1>5, <2>1, <2>2, QuietStep
  <2>4. SMPTypeOK'
    BY <1>1, <1>2, <2>1 DEF SMPInv, SMPTypeOK, ThreadPC, messageVars, handlerVars
  <2> QED
    BY <2>3, <2>4 DEF SMPInv
<1>6. CASE ~call[c].sync
  <2>1. SendReturns(c)
    BY <1>6 DEF arch_smp_send_ici
  <2>2. /\ pc' \in [CPUs -> ThreadPC] /\ mine' \in [CPUs -> Messages \cup {NoMessage}]
        /\ call' \in [CPUs -> [to : SUBSET CPUs, sync : BOOLEAN, broadcast : BOOLEAN]]
        /\ mine'[c] = NoMessage /\ pc'[c] \notin {"sent", "waits"}
        /\ \A d \in CPUs : d # c => pc'[d] = pc[d] /\ mine'[d] = mine[d] /\ call'[d] = call[d]
    BY <2>1, ReturnFacts
  <2>3. MessagesInv' /\ SenderInv'
    BY <1>3, <1>4, <2>2, QuietStep
  <2>4. SMPTypeOK'
    BY <1>1, <1>2, <2>2 DEF SMPInv, SMPTypeOK, messageVars, handlerVars
  <2> QED
    BY <2>3, <2>4 DEF SMPInv
<1> QED
  BY <1>5, <1>6

LEMMA FiniteParts ==
    ASSUME NEW m
    PROVE  /\ IsFiniteSet(ToCome(m)) /\ IsFiniteSet(Processing(m))
           /\ Cardinality(ToCome(m)) \in Nat /\ Cardinality(Processing(m)) \in Nat
<1>1. ToCome(m) \in SUBSET CPUs /\ Processing(m) \in SUBSET CPUs /\ IsFiniteSet(CPUs)
  BY SMPAssumption DEF ToCome, Processing
<1>2. IsFiniteSet(ToCome(m)) /\ IsFiniteSet(Processing(m))
  BY <1>1, FS_Subset
<1> QED
  BY <1>2, FS_CardinalityType

\* c takes m, which it was to find, and starts to process it: the count is the same.
LEMMA Taken ==
    ASSUME SMPInv, NEW c \in CPUs, NEW m \in Messages, c \in ToCome(m),
           ToCome(m)' = ToCome(m) \ {c}, Processing(m)' = Processing(m) \cup {c},
           \A n \in Messages : n # m => ToCome(n)' = ToCome(n) /\ Processing(n)' = Processing(n),
           \A n \in Messages : (Free(n)' <=> Free(n)) /\ (InUse(n)' <=> InUse(n)),
           msg[c] = NoMessage,
           UNCHANGED <<ref_count, sync, done, ran, pc, call, mine>>
    PROVE  CountInv' /\ SenderInv'
<1>1. c \notin Processing(m)
  BY SMPAssumption DEF Processing
<1>2. /\ IsFiniteSet(ToCome(m)) /\ IsFiniteSet(Processing(m))
      /\ Cardinality(ToCome(m)) \in Nat /\ Cardinality(Processing(m)) \in Nat
  BY FiniteParts
<1>3. Cardinality(ToCome(m)') + Cardinality(Processing(m)')
        = Cardinality(ToCome(m)) + Cardinality(Processing(m))
  <2>1. Cardinality(ToCome(m) \ {c}) = Cardinality(ToCome(m)) - 1
    BY <1>2, FS_RemoveElement
  <2>2. Cardinality(Processing(m) \cup {c}) = Cardinality(Processing(m)) + 1
    BY <1>1, <1>2, FS_AddElement
  <2> QED
    BY <1>2, <2>1, <2>2
<1>4. CountInv'
  <2>1. ASSUME NEW n \in Messages, InUse(n)
        PROVE  ref_count[n] = Cardinality(ToCome(n)') + Cardinality(Processing(n)')
    <3>1. ref_count[n] = Cardinality(ToCome(n)) + Cardinality(Processing(n))
      BY <2>1 DEF SMPInv, MessagesInv, CountInv
    <3> QED
      BY <1>3, <3>1
  <2> QED
    BY <2>1 DEF CountInv
<1>5. ASSUME NEW d \in CPUs, NEW n \in Messages, Owned(d, n) PROVE Owned(d, n)'
  <2>1. ToCome(n)' \cup Processing(n)' = ToCome(n) \cup Processing(n)
    BY <1>5
  <2>2. /\ sync[n] /\ ~Free(n)
        /\ call[d].to = ran[n] \cup ToCome(n) \cup Processing(n)
        /\ done[n] => ~InUse(n)
    BY <1>5 DEF Owned
  <2>3. call[d].to = ran[n] \cup ToCome(n)' \cup Processing(n)'
    BY <2>1, <2>2
  <2> QED
    BY <2>2, <2>3 DEF Owned
<1>6. \A d \in CPUs : pc'[d] = "waits" => call[d].sync
  BY DEF SMPInv, SenderInv
<1>7. SenderInv'
  BY <1>5, <1>6, SendersKept
<1> QED
  BY <1>4, <1>7

LEMMA CheckLocalStep ==
    ASSUME SMPInv, NEW c \in CPUs, check_for_message_local(c)
    PROVE  SMPInv'
<1>1. /\ step[c] = "check"
      /\ UNCHANGED <<sFreeMessages, sBroadcastMessages, messageVars, senderVars, interrupt, ran>>
  BY DEF check_for_message_local
<1>2. CASE sCPUMessages[c] = <<>>
  <2>1. step' = [step EXCEPT ![c] = "broadcast"] /\ UNCHANGED <<sCPUMessages, msg, mailbox>>
    BY <1>2 DEF check_for_message_local
  <2>2. UNCHANGED <<lists, messageVars, senderVars, msg, mailbox, ran>> /\ interrupt' \subseteq CPUs
    BY <1>1, <2>1 DEF lists, SMPInv, SMPTypeOK
  <2> QED
    BY <1>1, <2>1, <2>2, HandlerQuiet
<1>3. CASE sCPUMessages[c] # <<>>
  <2>1. PICK q \in Seq(Messages) : q = sCPUMessages[c] /\ Distinct(q) /\ q # <<>>
    BY <1>3 DEF SMPInv, SMPTypeOK, MessagesInv, ListInv
  <2>2. PICK m \in Messages : /\ m = Head(q) /\ InQueue(q, m) /\ Distinct(Tail(q))
                              /\ \A u : InQueue(Tail(q), u) <=> u # m /\ InQueue(q, u)
    BY <2>1, TailFacts
  <2>3. Tail(q) \in Seq(Messages)
    BY <2>1
  <2>4. /\ msg' = [msg EXCEPT ![c] = m]
        /\ mailbox' = [mailbox EXCEPT ![c] = "local"]
        /\ sCPUMessages' = [sCPUMessages EXCEPT ![c] = Tail(q)]
        /\ step' = [step EXCEPT ![c] = "process"]
    BY <1>3, <2>1, <2>2 DEF check_for_message_local
  <2>5. /\ msg'[c] = m /\ mailbox'[c] = "local" /\ sCPUMessages'[c] = Tail(q) /\ step'[c] = "process"
        /\ \A d \in CPUs : d # c => /\ msg'[d] = msg[d] /\ mailbox'[d] = mailbox[d]
                                    /\ sCPUMessages'[d] = sCPUMessages[d] /\ step'[d] = step[d]
    BY <2>4 DEF SMPInv, SMPTypeOK
  <2>6. UNCHANGED <<sFreeMessages, sBroadcastMessages, ref_count, proc_bitmap, sync, done, ran,
                    lock, pc, call, unsent, mine, interrupt>>
    BY <1>1 DEF messageVars, senderVars
  <2>7. msg[c] = NoMessage /\ mailbox[c] = "none" /\ m # NoMessage
    BY <1>1, SMPAssumption DEF SMPInv, MessagesInv, HandlerInv
  <2>8. /\ ~InQueue(sBroadcastMessages, m) /\ ~Free(m)
        /\ \A d \in CPUs : msg[d] # m
        /\ \A d \in CPUs : InQueue(sCPUMessages[d], m) => d = c
    <3>1. InQueue(sCPUMessages[c], m)
      BY <2>1, <2>2
    <3> QED
      BY <3>1 DEF SMPInv, MessagesInv, PlaceInv, InUse, InMailbox
  <2>9. \A d \in CPUs, n \in Messages :
           InQueue(sCPUMessages'[d], n) <=> n # m /\ InQueue(sCPUMessages[d], n)
    BY <2>1, <2>2, <2>5, <2>8
  <2>10. \A n \in Messages : n # m => (InMailbox(n)' <=> InMailbox(n))
    BY <2>6, <2>9 DEF InMailbox
  <2>11. \A n \in Messages : n # m => ToCome(n)' = ToCome(n) /\ Processing(n)' = Processing(n)
    <3>1. ASSUME NEW n \in Messages, n # m PROVE ToCome(n)' = ToCome(n)
      BY <2>6, <2>9, <3>1 DEF ToCome
    <3>2. ASSUME NEW n \in Messages, n # m PROVE Processing(n)' = Processing(n)
      <4>1. n # NoMessage
        BY SMPAssumption
      <4> QED
        BY <2>5, <2>7, <3>2, <4>1 DEF Processing
    <3> QED
      BY <3>1, <3>2
  <2>12. /\ ~InMailbox(m)' /\ ToCome(m)' = ToCome(m) \ {c} /\ c \in ToCome(m)
         /\ Processing(m)' = Processing(m) \cup {c}
    <3>1. ToCome(m) = {c}
      BY <2>1, <2>2, <2>8 DEF ToCome
    <3>2. ~InMailbox(m)' /\ ToCome(m)' = {}
      BY <2>6, <2>8, <2>9 DEF InMailbox, ToCome
    <3>3. Processing(m)' = Processing(m) \cup {c}
      BY <2>5 DEF Processing
    <3> QED
      BY <3>1, <3>2, <3>3
  <2>13. \A n \in Messages : (Free(n)' <=> Free(n)) /\ (InUse(n)' <=> InUse(n))
    <3>1. \A n \in Messages : Free(n)' <=> Free(n)
      BY <2>6 DEF Free
    <3>2. ASSUME NEW n \in Messages, n # m PROVE InUse(n)' <=> InUse(n)
      <4>1. n # NoMessage
        BY SMPAssumption
      <4> QED
        BY <2>5, <2>7, <2>10, <3>2, <4>1 DEF InUse
    <3>3. InUse(m)' /\ InUse(m)
      BY <2>1, <2>2, <2>5 DEF InUse, InMailbox
    <3> QED
      BY <3>1, <3>2, <3>3
  <2>14. CountInv' /\ SenderInv'
    BY <2>6, <2>7, <2>11, <2>12, <2>13, Taken
  <2>15. ListInv'
    BY <2>2, <2>5, <2>6 DEF SMPInv, MessagesInv, ListInv
  <2>16. HandlerInv'
    BY <2>5, <2>7 DEF SMPInv, MessagesInv, HandlerInv
  <2>17. PlaceInv'
    <3>1. PlaceInv
      BY DEF SMPInv, MessagesInv
    <3>2. ASSUME NEW n \in Messages, NEW d \in CPUs
          PROVE  /\ InQueue(sCPUMessages'[d], n) =>
                       /\ ~InQueue(sBroadcastMessages', n)
                       /\ \A u \in CPUs : msg'[u] # n
                       /\ \A u \in CPUs : InQueue(sCPUMessages'[u], n) => u = d
                 /\ msg'[d] = n /\ mailbox'[d] = "local" =>
                       ~InMailbox(n)' /\ \A u \in CPUs : msg'[u] = n => u = d
                 /\ msg'[d] = n /\ mailbox'[d] = "bcast" =>
                       InQueue(sBroadcastMessages', n) /\ d \in proc_bitmap'[n]
                 /\ msg'[d] = n /\ step'[d] = "clean" =>
                       ToCome(n)' = {} /\ \A u \in CPUs : msg'[u] = n => u = d
      <4>1. CASE n = m
        BY <2>5, <2>8, <2>9, <2>12, <4>1
      <4>2. CASE n # m
        BY <2>5, <2>6, <2>9, <2>10, <2>11, <3>1, <4>2 DEF PlaceInv
      <4> QED
        BY <4>1, <4>2
    <3>3. \A n \in Messages : Free(n)' => ~InUse(n)' /\ ran'[n] = {}
      BY <2>6, <2>13, <3>1 DEF PlaceInv
    <3> QED
      BY <3>2, <3>3 DEF PlaceInv
  <2>18. SMPTypeOK'
    BY <2>3, <2>4, <2>6 DEF SMPInv, SMPTypeOK, HandlerPC
  <2> QED
    BY <2>14, <2>15, <2>16, <2>17, <2>18 DEF SMPInv, MessagesInv
<1> QED
  BY <1>2, <1>3

LEMMA CheckBroadcastStep ==
    ASSUME SMPInv, NEW c \in CPUs, check_for_message_broadcast(c)
    PROVE  SMPInv'
<1>1. /\ step[c] = "broadcast"
      /\ UNCHANGED <<sFreeMessages, sCPUMessages, sBroadcastMessages, ref_count, sync, done,
                     senderVars, interrupt, ran>>
  BY DEF check_for_message_broadcast
<1>2. CASE ForMe(c) = {}
  <2>1. step' = [step EXCEPT ![c] = "idle"] /\ UNCHANGED <<proc_bitmap, msg, mailbox>>
    BY <1>2 DEF check_for_message_broadcast
  <2>2. UNCHANGED <<lists, messageVars, senderVars, msg, mailbox, ran>> /\ interrupt' \subseteq CPUs
    BY <1>1, <2>1 DEF lists, messageVars, SMPInv, SMPTypeOK
  <2> QED
    BY <1>1, <2>1, <2>2, HandlerQuiet
<1>3. CASE ForMe(c) # {}
  <2>1. PICK m \in Messages : /\ m = sBroadcastMessages[Min(ForMe(c))]
                              /\ InQueue(sBroadcastMessages, m)
                              /\ c \notin proc_bitmap[m]
    BY <1>3, ForMeFacts DEF SMPInv, SMPTypeOK
  <2>2. /\ msg' = [msg EXCEPT ![c] = m]
        /\ mailbox' = [mailbox EXCEPT ![c] = "bcast"]
        /\ proc_bitmap' = [proc_bitmap EXCEPT ![m] = @ \cup {c}]
        /\ step' = [step EXCEPT ![c] = "process"]
    BY <1>3, <2>1 DEF check_for_message_broadcast, Marked
  <2>3. /\ msg'[c] = m /\ mailbox'[c] = "bcast" /\ step'[c] = "process"
        /\ \A d \in CPUs : d # c => msg'[d] = msg[d] /\ mailbox'[d] = mailbox[d] /\ step'[d] = step[d]
        /\ proc_bitmap'[m] = proc_bitmap[m] \cup {c}
        /\ \A n \in Messages : n # m => proc_bitmap'[n] = proc_bitmap[n]
    BY <2>2 DEF SMPInv, SMPTypeOK
  <2>4. UNCHANGED <<sFreeMessages, sCPUMessages, sBroadcastMessages, ref_count, sync, done, ran,
                    lock, pc, call, unsent, mine, interrupt>>
    BY <1>1 DEF senderVars
  <2>5. msg[c] = NoMessage /\ mailbox[c] = "none" /\ m # NoMessage
    BY <1>1, SMPAssumption DEF SMPInv, MessagesInv, HandlerInv
  <2>6. PlaceInv
    BY DEF SMPInv, MessagesInv
  <2>7. c \in ToCome(m)
    BY <2>1 DEF ToCome
  <2>8. /\ \A d \in CPUs : ~InQueue(sCPUMessages[d], m)
        /\ \A d \in CPUs : msg[d] = m => mailbox[d] # "local" /\ step[d] # "clean"
    BY <2>1, <2>6, <2>7 DEF PlaceInv, InMailbox
  <2>9. \A n \in Messages : InMailbox(n)' <=> InMailbox(n)
    BY <2>4 DEF InMailbox
  <2>10. \A n \in Messages : n # m => ToCome(n)' = ToCome(n) /\ Processing(n)' = Processing(n)
    <3>1. ASSUME NEW n \in Messages, n # m PROVE ToCome(n)' = ToCome(n)
      BY <2>3, <2>4, <3>1 DEF ToCome
    <3>2. ASSUME NEW n \in Messages, n # m PROVE Processing(n)' = Processing(n)
      <4>1. n # NoMessage
        BY SMPAssumption
      <4> QED
        BY <2>3, <2>5, <3>2, <4>1 DEF Processing
    <3> QED
      BY <3>1, <3>2
  <2>11. ToCome(m)' = ToCome(m) \ {c} /\ Processing(m)' = Processing(m) \cup {c}
    <3>1. ToCome(m)' = ToCome(m) \ {c}
      BY <2>3, <2>4, <2>8 DEF ToCome
    <3>2. Processing(m)' = Processing(m) \cup {c}
      BY <2>3 DEF Processing
    <3> QED
      BY <3>1, <3>2
  <2>12. \A n \in Messages : (Free(n)' <=> Free(n)) /\ (InUse(n)' <=> InUse(n))
    <3>1. \A n \in Messages : Free(n)' <=> Free(n)
      BY <2>4 DEF Free
    <3>2. ASSUME NEW n \in Messages, n # m PROVE InUse(n)' <=> InUse(n)
      <4>1. n # NoMessage
        BY SMPAssumption
      <4> QED
        BY <2>3, <2>5, <2>9, <3>2, <4>1 DEF InUse
    <3>3. InUse(m)' /\ InUse(m)
      BY <2>1, <2>4 DEF InUse, InMailbox
    <3> QED
      BY <3>1, <3>2, <3>3
  <2>13. CountInv' /\ SenderInv'
    BY <2>4, <2>5, <2>7, <2>10, <2>11, <2>12, Taken
  <2>14. ListInv'
    BY <2>4 DEF SMPInv, MessagesInv, ListInv
  <2>15. HandlerInv'
    BY <2>3, <2>5 DEF SMPInv, MessagesInv, HandlerInv
  <2>16. PlaceInv'
    <3>1. ASSUME NEW n \in Messages, NEW d \in CPUs
          PROVE  /\ InQueue(sCPUMessages'[d], n) =>
                       /\ ~InQueue(sBroadcastMessages', n)
                       /\ \A u \in CPUs : msg'[u] # n
                       /\ \A u \in CPUs : InQueue(sCPUMessages'[u], n) => u = d
                 /\ msg'[d] = n /\ mailbox'[d] = "local" =>
                       ~InMailbox(n)' /\ \A u \in CPUs : msg'[u] = n => u = d
                 /\ msg'[d] = n /\ mailbox'[d] = "bcast" =>
                       InQueue(sBroadcastMessages', n) /\ d \in proc_bitmap'[n]
                 /\ msg'[d] = n /\ step'[d] = "clean" =>
                       ToCome(n)' = {} /\ \A u \in CPUs : msg'[u] = n => u = d
      <4>1. CASE n = m
        <5>1. ~InQueue(sCPUMessages'[d], m)
          BY <2>4, <2>8
        <5>2. msg'[d] = m => mailbox'[d] # "local" /\ step'[d] # "clean"
          BY <2>3, <2>8
        <5>3. msg'[d] = m /\ mailbox'[d] = "bcast" =>
                 InQueue(sBroadcastMessages', m) /\ d \in proc_bitmap'[m]
          BY <2>1, <2>3, <2>4, <2>6 DEF PlaceInv
        <5> QED
          BY <4>1, <5>1, <5>2, <5>3
      <4>2. CASE n # m
        BY <2>3, <2>4, <2>9, <2>10, <2>6, <4>2 DEF PlaceInv
      <4> QED
        BY <4>1, <4>2
    <3>2. \A n \in Messages : Free(n)' => ~InUse(n)' /\ ran'[n] = {}
      BY <2>4, <2>6, <2>12 DEF PlaceInv
    <3> QED
      BY <3>1, <3>2 DEF PlaceInv
  <2>17. SMPTypeOK'
    BY <2>2, <2>4 DEF SMPInv, SMPTypeOK, HandlerPC
  <2> QED
    BY <2>13, <2>14, <2>15, <2>16, <2>17 DEF SMPInv, MessagesInv
<1> QED
  BY <1>2, <1>3

\* The CPU that brings ref_count to 0 is alone with the message.
LEMMA LastFacts ==
    ASSUME SMPInv, NEW c \in CPUs, NEW m \in Messages, msg[c] = m, step[c] = "process"
    PROVE  /\ ref_count[m] \in Nat \ {0}
           /\ ref_count[m] = 1 => ToCome(m) = {} /\ \A d \in CPUs : msg[d] = m => d = c
<1>1. /\ IsFiniteSet(ToCome(m)) /\ IsFiniteSet(Processing(m))
      /\ Cardinality(ToCome(m)) \in Nat /\ Cardinality(Processing(m)) \in Nat
  BY FiniteParts
<1>2. c \in Processing(m) /\ InUse(m)
  BY DEF Processing, InUse
<1>3. Cardinality(Processing(m)) # 0
  BY <1>1, <1>2, FS_EmptySet
<1>4. ref_count[m] = Cardinality(ToCome(m)) + Cardinality(Processing(m))
  BY <1>2 DEF SMPInv, MessagesInv, CountInv
<1>5. ASSUME ref_count[m] = 1
      PROVE  ToCome(m) = {} /\ \A d \in CPUs : msg[d] = m => d = c
  <2>1. Cardinality(ToCome(m)) = 0 /\ Cardinality(Processing(m)) = 1
    BY <1>1, <1>3, <1>4, <1>5
  <2>2. ToCome(m) = {}
    BY <1>1, <2>1, FS_EmptySet
  <2>3. PICK x : Processing(m) = {x}
    BY <1>1, <2>1, FS_Singleton
  <2>4. ASSUME NEW d \in CPUs, msg[d] = m PROVE d = c
    <3>1. step[d] \in {"process", "clean"}
      BY <2>4, SMPAssumption DEF SMPInv, MessagesInv, HandlerInv, SMPTypeOK, HandlerPC
    <3>2. step[d] = "clean" => c = d
      BY <2>4 DEF SMPInv, MessagesInv, PlaceInv
    <3>3. step[d] = "process" => d \in Processing(m)
      BY <2>4 DEF Processing
    <3> QED
      BY <1>2, <2>3, <3>1, <3>2, <3>3
  <2> QED
    BY <2>2, <2>4
<1> QED
  BY <1>1, <1>3, <1>4, <1>5

LEMMA ProcessStep ==
    ASSUME SMPInv, NEW c \in CPUs, process_pending_ici(c)
    PROVE  SMPInv'
<1>1. step[c] = "process" /\ msg[c] # NoMessage /\ mailbox[c] # "none"
  BY DEF process_pending_ici, SMPInv, MessagesInv, HandlerInv
<1>2. PICK m \in Messages : m = msg[c] /\ m # NoMessage
  BY <1>1 DEF SMPInv, SMPTypeOK
<1>3. /\ ran' = [ran EXCEPT ![m] = @ \cup {c}]
      /\ ref_count' = [ref_count EXCEPT ![m] = @ - 1]
      /\ \/ /\ ref_count[m] = 1
            /\ step' = [step EXCEPT ![c] = "clean"] /\ UNCHANGED <<msg, mailbox>>
         \/ /\ ref_count[m] # 1
            /\ step' = [step EXCEPT ![c] = "check"]
            /\ msg' = [msg EXCEPT ![c] = NoMessage]
            /\ mailbox' = [mailbox EXCEPT ![c] = "none"]
  BY <1>2 DEF process_pending_ici, LastOne, NextMessage
<1>4. UNCHANGED <<sFreeMessages, sCPUMessages, sBroadcastMessages, proc_bitmap, sync, done,
                  lock, pc, call, unsent, mine, interrupt>>
  BY DEF process_pending_ici, senderVars
<1>5. /\ ref_count[m] \in Nat \ {0}
      /\ ref_count[m] = 1 => ToCome(m) = {} /\ \A d \in CPUs : msg[d] = m => d = c
  BY <1>1, <1>2, LastFacts
<1>6. /\ ran'[m] = ran[m] \cup {c} /\ \A n \in Messages : n # m => ran'[n] = ran[n]
      /\ ref_count'[m] = ref_count[m] - 1
      /\ \A n \in Messages : n # m => ref_count'[n] = ref_count[n]
      /\ \A d \in CPUs : d # c => msg'[d] = msg[d] /\ mailbox'[d] = mailbox[d] /\ step'[d] = step[d]
      /\ \/ /\ ref_count[m] = 1 /\ step'[c] = "clean" /\ msg'[c] = m /\ mailbox'[c] = mailbox[c]
         \/ step'[c] = "check" /\ msg'[c] = NoMessage /\ mailbox'[c] = "none"
  BY <1>2, <1>3 DEF SMPInv, SMPTypeOK
<1>7. PlaceInv /\ HandlerInv
  BY DEF SMPInv, MessagesInv
<1>8. \A n \in Messages : /\ Free(n)' <=> Free(n)
                          /\ InMailbox(n)' <=> InMailbox(n)
                          /\ ToCome(n)' = ToCome(n)
  <2>1. \A n \in Messages : (Free(n)' <=> Free(n)) /\ (InMailbox(n)' <=> InMailbox(n))
    BY <1>4 DEF Free, InMailbox
  <2>2. ASSUME NEW n \in Messages PROVE ToCome(n)' = ToCome(n)
    BY <1>4 DEF ToCome
  <2> QED
    BY <2>1, <2>2
<1>9. \A d \in CPUs, n \in Messages : msg'[d] = n => msg[d] = n
  BY <1>2, <1>6, SMPAssumption
<1>10. \A n \in Messages : InUse(n)' => InUse(n)
  BY <1>8, <1>9 DEF InUse
<1>11. /\ c \in Processing(m) /\ Processing(m)' = Processing(m) \ {c}
       /\ \A n \in Messages : n # m => Processing(n)' = Processing(n)
  <2>1. c \in Processing(m)
    BY <1>1, <1>2 DEF Processing
  <2>2. Processing(m)' = Processing(m) \ {c}
    BY <1>6 DEF Processing
  <2>3. ASSUME NEW n \in Messages, n # m PROVE Processing(n)' = Processing(n)
    BY <1>2, <1>6, <2>3, SMPAssumption DEF Processing
  <2> QED
    BY <2>1, <2>2, <2>3
<1>12. CountInv'
  <2>1. ASSUME NEW n \in Messages, InUse(n)'
        PROVE  ref_count'[n] = Cardinality(ToCome(n)') + Cardinality(Processing(n)')
    <3>1. ref_count[n] = Cardinality(ToCome(n)) + Cardinality(Processing(n))
      BY <1>10, <2>1 DEF SMPInv, MessagesInv, CountInv
    <3>2. CASE n # m
      BY <1>6, <1>8, <1>11, <3>1, <3>2
    <3>3. CASE n = m
      <4>1. /\ IsFiniteSet(Processing(m))
            /\ Cardinality(ToCome(m)) \in Nat /\ Cardinality(Processing(m)) \in Nat
        BY FiniteParts
      <4>2. Cardinality(Processing(m) \ {c}) = Cardinality(Processing(m)) - 1
        BY <1>11, <4>1, FS_RemoveElement
      <4> QED
        <5>1. ref_count[m] = Cardinality(ToCome(m)) + Cardinality(Processing(m))
          BY <3>1, <3>3
        <5>2. ref_count'[m] = Cardinality(ToCome(m)) + Cardinality(Processing(m) \ {c})
          BY <1>6, <4>1, <4>2, <5>1
        <5> QED
          BY <1>8, <1>11, <3>3, <5>2
    <3> QED
      BY <3>2, <3>3
  <2> QED
    BY <2>1 DEF CountInv
<1>13. SenderInv'
  <2>1. ASSUME NEW d \in CPUs, NEW n \in Messages, Owned(d, n) PROVE Owned(d, n)'
    <3>1. /\ sync[n] /\ ~Free(n)
          /\ call[d].to = ran[n] \cup ToCome(n) \cup Processing(n)
          /\ done[n] => ~InUse(n)
      BY <2>1 DEF Owned
    <3>2. ran'[n] \cup Processing(n)' = ran[n] \cup Processing(n)
      BY <1>6, <1>11
    <3>3. call'[d].to = ran'[n] \cup ToCome(n)' \cup Processing(n)'
      BY <1>4, <1>8, <3>1, <3>2
    <3>4. sync'[n] /\ ~Free(n)' /\ (done'[n] => ~InUse(n)')
      BY <1>4, <1>8, <1>10, <3>1
    <3> QED
      BY <3>3, <3>4 DEF Owned
  <2>2. \A d \in CPUs : pc'[d] = "waits" => call[d].sync
    BY <1>4 DEF SMPInv, SenderInv
  <2> QED
    BY <1>4, <2>1, <2>2, SendersKept
<1>14. ListInv'
  BY <1>4 DEF SMPInv, MessagesInv, ListInv
<1>15. HandlerInv'
  BY <1>1, <1>2, <1>6, <1>7 DEF HandlerInv
<1>16. PlaceInv'
  <2>1. ASSUME NEW n \in Messages, NEW d \in CPUs
        PROVE  /\ InQueue(sCPUMessages'[d], n) =>
                     /\ ~InQueue(sBroadcastMessages', n)
                     /\ \A u \in CPUs : msg'[u] # n
                     /\ \A u \in CPUs : InQueue(sCPUMessages'[u], n) => u = d
               /\ msg'[d] = n /\ mailbox'[d] = "local" =>
                     ~InMailbox(n)' /\ \A u \in CPUs : msg'[u] = n => u = d
               /\ msg'[d] = n /\ mailbox'[d] = "bcast" =>
                     InQueue(sBroadcastMessages', n) /\ d \in proc_bitmap'[n]
               /\ msg'[d] = n /\ step'[d] = "clean" =>
                     ToCome(n)' = {} /\ \A u \in CPUs : msg'[u] = n => u = d
    <3>1. msg'[d] = n => mailbox'[d] = mailbox[d]
      BY <1>6, SMPAssumption
    <3>2. /\ InQueue(sCPUMessages'[d], n) =>
                /\ ~InQueue(sBroadcastMessages', n)
                /\ \A u \in CPUs : msg'[u] # n
                /\ \A u \in CPUs : InQueue(sCPUMessages'[u], n) => u = d
          /\ msg'[d] = n /\ mailbox'[d] = "local" =>
                ~InMailbox(n)' /\ \A u \in CPUs : msg'[u] = n => u = d
          /\ msg'[d] = n /\ mailbox'[d] = "bcast" =>
                InQueue(sBroadcastMessages', n) /\ d \in proc_bitmap'[n]
      BY <1>4, <1>7, <1>8, <1>9, <3>1 DEF PlaceInv
    <3>3. ASSUME msg'[d] = n, step'[d] = "clean"
          PROVE  ToCome(n)' = {} /\ \A u \in CPUs : msg'[u] = n => u = d
      <4>1. CASE d = c
        BY <1>5, <1>6, <1>8, <1>9, <3>3, <4>1
      <4>2. CASE d # c
        BY <1>6, <1>7, <1>8, <1>9, <3>3, <4>2 DEF PlaceInv
      <4> QED
        BY <4>1, <4>2
    <3> QED
      BY <3>2, <3>3
  <2>2. ASSUME NEW n \in Messages, Free(n)' PROVE ~InUse(n)' /\ ran'[n] = {}
    <3>1. ~InUse(n) /\ ran[n] = {}
      BY <1>7, <1>8, <2>2 DEF PlaceInv
    <3>2. n # m
      BY <1>2, <3>1 DEF InUse
    <3> QED
      BY <1>6, <1>10, <3>1, <3>2
  <2> QED
    BY <2>1, <2>2 DEF PlaceInv
<1>17. SMPTypeOK'
  <2>1. ref_count[m] - 1 \in 0 .. Cardinality(CPUs)
    <3>1. ref_count[m] \in 0 .. Cardinality(CPUs) /\ Cardinality(CPUs) \in Nat
      BY FS_CardinalityType, SMPAssumption DEF SMPInv, SMPTypeOK
    <3> QED
      BY <1>5, <3>1
  <2>2. ref_count' \in [Messages -> 0 .. Cardinality(CPUs)]
    BY <1>3, <2>1 DEF SMPInv, SMPTypeOK
  <2>3. ran' \in [Messages -> SUBSET CPUs]
    BY <1>3 DEF SMPInv, SMPTypeOK
  <2>4. /\ step' \in [CPUs -> HandlerPC] /\ msg' \in [CPUs -> Messages \cup {NoMessage}]
        /\ mailbox' \in [CPUs -> {"none", "local", "bcast"}]
    <3>1. step \in [CPUs -> HandlerPC] /\ msg \in [CPUs -> Messages \cup {NoMessage}]
          /\ mailbox \in [CPUs -> {"none", "local", "bcast"}]
      BY DEF SMPInv, SMPTypeOK
    <3> QED
      BY <1>3, <3>1 DEF HandlerPC
  <2> QED
    BY <1>4, <2>2, <2>3, <2>4 DEF SMPInv, SMPTypeOK
<1> QED
  BY <1>12, <1>13, <1>14, <1>15, <1>16, <1>17 DEF SMPInv, MessagesInv

LEMMA FinishStep ==
    ASSUME SMPInv, NEW c \in CPUs, finish_message_processing(c)
    PROVE  SMPInv'
<1>1. step[c] = "clean" /\ msg[c] # NoMessage /\ mailbox[c] \in {"local", "bcast"}
  BY DEF finish_message_processing, SMPInv, MessagesInv, HandlerInv, SMPTypeOK
<1>2. PICK m \in Messages : m = msg[c] /\ m # NoMessage
  BY <1>1 DEF SMPInv, SMPTypeOK
<1> DEFINE q == sBroadcastMessages
           r == Unlinked(q, m)
           f == <<m>> \o sFreeMessages
<1>3. /\ sBroadcastMessages' = IF mailbox[c] = "bcast" THEN r ELSE q
      /\ done' = [done EXCEPT ![m] = @ \/ sync[m]]
      /\ sFreeMessages' = IF sync[m] THEN sFreeMessages ELSE f
      /\ ran' = IF sync[m] THEN ran ELSE [ran EXCEPT ![m] = {}]
      /\ step' = [step EXCEPT ![c] = "check"]
      /\ msg' = [msg EXCEPT ![c] = NoMessage]
      /\ mailbox' = [mailbox EXCEPT ![c] = "none"]
  BY <1>2 DEF finish_message_processing, CallerReturns, NextMessage
<1>4. UNCHANGED <<sCPUMessages, ref_count, proc_bitmap, sync, lock, pc, call, unsent, mine, interrupt>>
  BY DEF finish_message_processing, senderVars
<1>5. PlaceInv /\ HandlerInv /\ CountInv
  BY DEF SMPInv, MessagesInv
<1>6. /\ ToCome(m) = {} /\ \A d \in CPUs : msg[d] = m => d = c
      /\ mailbox[c] = "local" => ~InMailbox(m)
      /\ mailbox[c] = "bcast" => InQueue(q, m)
      /\ ~Free(m) /\ InUse(m)
  BY <1>1, <1>2, <1>5 DEF PlaceInv, InUse
<1>7. \A d \in CPUs : ~InQueue(sCPUMessages[d], m)
  BY <1>2, <1>5 DEF PlaceInv
<1>8. /\ r \in Seq(Messages) /\ Distinct(r)
      /\ \A u : InQueue(r, u) <=> u # m /\ InQueue(q, u)
  <2>1. q \in Seq(Messages) /\ Distinct(q)
    BY DEF SMPInv, SMPTypeOK, MessagesInv, ListInv
  <2> QED
    BY <2>1, UnlinkedFacts
<1>9. /\ f \in Seq(Messages) /\ Distinct(f)
      /\ \A u : InQueue(f, u) <=> u = m \/ InQueue(sFreeMessages, u)
  <2>1. sFreeMessages \in Seq(Messages) /\ Distinct(sFreeMessages) /\ ~InQueue(sFreeMessages, m)
    BY <1>6 DEF SMPInv, SMPTypeOK, MessagesInv, ListInv, Free
  <2> QED
    BY <2>1, PrependFacts
<1>10. /\ sBroadcastMessages' \in Seq(Messages) /\ Distinct(sBroadcastMessages')
       /\ \A n \in Messages : InQueue(sBroadcastMessages', n) <=> n # m /\ InQueue(q, n)
  <2>1. CASE mailbox[c] = "bcast"
    BY <1>3, <1>8, <2>1
  <2>2. CASE mailbox[c] = "local"
    <3>1. sBroadcastMessages' = q /\ ~InQueue(q, m)
      BY <1>3, <1>6, <2>2 DEF InMailbox
    <3> QED
      BY <3>1 DEF SMPInv, SMPTypeOK, MessagesInv, ListInv
  <2> QED
    BY <1>1, <2>1, <2>2
<1>11. /\ sFreeMessages' \in Seq(Messages) /\ Distinct(sFreeMessages')
       /\ \A n \in Messages : Free(n)' <=> Free(n) \/ (n = m /\ ~sync[m])
  <2>1. CASE sync[m]
    BY <1>3, <2>1 DEF Free, SMPInv, SMPTypeOK, MessagesInv, ListInv
  <2>2. CASE ~sync[m]
    BY <1>3, <1>9, <2>2 DEF Free
  <2> QED
    BY <2>1, <2>2
<1> HIDE DEF q, r, f
<1>12. /\ msg'[c] = NoMessage /\ mailbox'[c] = "none" /\ step'[c] = "check"
       /\ \A d \in CPUs : d # c => msg'[d] = msg[d] /\ mailbox'[d] = mailbox[d] /\ step'[d] = step[d]
       /\ \A n \in Messages : n # m => ran'[n] = ran[n] /\ done'[n] = done[n]
       /\ ran'[m] = IF sync[m] THEN ran[m] ELSE {}
  BY <1>3 DEF SMPInv, SMPTypeOK
<1>13. \A d \in CPUs, n \in Messages : msg'[d] = n <=> msg[d] = n /\ n # m
  BY <1>2, <1>6, <1>12, SMPAssumption
<1>14. \A n \in Messages : InMailbox(n)' <=> InMailbox(n) /\ n # m
  BY <1>4, <1>7, <1>10 DEF InMailbox, q
<1>15. \A n \in Messages : InUse(n)' <=> InUse(n) /\ n # m
  BY <1>13, <1>14 DEF InUse
<1>16. \A n \in Messages : ToCome(n)' = ToCome(n) /\ Processing(n)' = Processing(n)
  <2>1. ASSUME NEW n \in Messages, n # m
        PROVE ToCome(n)' = ToCome(n)
    BY <1>4, <1>10, <2>1 DEF ToCome, q
  <2>2. ToCome(m)' = {}
    BY <1>4, <1>7, <1>10 DEF ToCome
  <2>3. ASSUME NEW n \in Messages, n # m PROVE Processing(n)' = Processing(n)
    BY <1>2, <1>12, <2>3, SMPAssumption DEF Processing
  <2>4. Processing(m) = {} /\ Processing(m)' = {}
    BY <1>1, <1>6, <1>13 DEF Processing
  <2> QED
    BY <1>6, <2>1, <2>2, <2>3, <2>4
<1>17. CountInv'
  <2>1. ASSUME NEW n \in Messages, InUse(n)'
        PROVE  ref_count'[n] = Cardinality(ToCome(n)') + Cardinality(Processing(n)')
    <3>1. ref_count[n] = Cardinality(ToCome(n)) + Cardinality(Processing(n))
      BY <1>5, <1>15, <2>1 DEF CountInv
    <3> QED
      BY <1>4, <1>16, <3>1
  <2> QED
    BY <2>1 DEF CountInv
<1>18. SenderInv'
  <2>1. ASSUME NEW d \in CPUs, NEW n \in Messages, Owned(d, n) PROVE Owned(d, n)'
    <3>1. /\ sync[n] /\ ~Free(n)
          /\ call[d].to = ran[n] \cup ToCome(n) \cup Processing(n)
          /\ done[n] => ~InUse(n)
      BY <2>1 DEF Owned
    <3>2. ran'[n] = ran[n] /\ ~Free(n)'
      BY <1>11, <1>12, <3>1
    <3>3. call'[d].to = ran'[n] \cup ToCome(n)' \cup Processing(n)'
      BY <1>4, <1>16, <3>1, <3>2
    <3>4. done'[n] => ~InUse(n)'
      BY <1>12, <1>15, <3>1
    <3> QED
      BY <1>4, <3>1, <3>2, <3>3, <3>4 DEF Owned
  <2>2. \A d \in CPUs : pc'[d] = "waits" => call[d].sync
    BY <1>4 DEF SMPInv, SenderInv
  <2> QED
    BY <1>4, <2>1, <2>2, SendersKept
<1>19. ListInv'
  BY <1>4, <1>10, <1>11 DEF SMPInv, MessagesInv, ListInv
<1>20. HandlerInv'
  BY <1>5, <1>12 DEF HandlerInv
<1>21. PlaceInv'
  <2>1. ASSUME NEW n \in Messages, NEW d \in CPUs
        PROVE  /\ InQueue(sCPUMessages'[d], n) =>
                     /\ ~InQueue(sBroadcastMessages', n)
                     /\ \A u \in CPUs : msg'[u] # n
                     /\ \A u \in CPUs : InQueue(sCPUMessages'[u], n) => u = d
               /\ msg'[d] = n /\ mailbox'[d] = "local" =>
                     ~InMailbox(n)' /\ \A u \in CPUs : msg'[u] = n => u = d
               /\ msg'[d] = n /\ mailbox'[d] = "bcast" =>
                     InQueue(sBroadcastMessages', n) /\ d \in proc_bitmap'[n]
               /\ msg'[d] = n /\ step'[d] = "clean" =>
                     ToCome(n)' = {} /\ \A u \in CPUs : msg'[u] = n => u = d
    <3>1. msg'[d] = n => d # c /\ mailbox'[d] = mailbox[d] /\ step'[d] = step[d]
      BY <1>12, SMPAssumption
    <3> QED
      BY <1>4, <1>5, <1>10, <1>13, <1>14, <1>16, <3>1 DEF PlaceInv, q
  <2>2. ASSUME NEW n \in Messages, Free(n)' PROVE ~InUse(n)' /\ ran'[n] = {}
    <3>1. CASE n = m
      BY <1>6, <1>11, <1>12, <1>15, <2>2, <3>1
    <3>2. CASE n # m
      BY <1>5, <1>11, <1>12, <1>15, <2>2, <3>2 DEF PlaceInv
    <3> QED
      BY <3>1, <3>2
  <2> QED
    BY <2>1, <2>2 DEF PlaceInv
<1>22. SMPTypeOK'
  <2>1. done' \in [Messages -> BOOLEAN] /\ ran' \in [Messages -> SUBSET CPUs]
    BY <1>3 DEF SMPInv, SMPTypeOK
  <2>2. /\ step' \in [CPUs -> HandlerPC] /\ msg' \in [CPUs -> Messages \cup {NoMessage}]
        /\ mailbox' \in [CPUs -> {"none", "local", "bcast"}]
    BY <1>3 DEF SMPInv, SMPTypeOK, HandlerPC
  <2> QED
    BY <1>4, <1>10, <1>11, <2>1, <2>2 DEF SMPInv, SMPTypeOK
<1> QED
  BY <1>17, <1>18, <1>19, <1>20, <1>21, <1>22 DEF SMPInv, MessagesInv

\* What the caller of a send function may ask for.
LEMMA CallFacts ==
    ASSUME NEW c \in CPUs, NEW a \in Sends[c]
    PROVE  /\ a \in [to : SUBSET CPUs, sync : BOOLEAN, broadcast : BOOLEAN]
           /\ a.to \subseteq CPUs /\ IsFiniteSet(a.to) /\ Cardinality(a.to) \in 0 .. Cardinality(CPUs)
           /\ ~a.broadcast => \E d \in CPUs : a.to = {d}
<1>1. a \in Calls(c) /\ IsFiniteSet(CPUs)
  BY SMPAssumption
<1>2. /\ a \in [to : SUBSET CPUs, sync : BOOLEAN, broadcast : BOOLEAN]
      /\ ~a.broadcast => \E d \in CPUs : a.to = {d}
  BY <1>1 DEF Calls
<1>3. a.to \in SUBSET CPUs
  BY <1>2
<1>4. IsFiniteSet(a.to) /\ Cardinality(a.to) <= Cardinality(CPUs)
  BY <1>1, <1>3, FS_Subset
<1>5. Cardinality(a.to) \in Nat /\ Cardinality(CPUs) \in Nat
  BY <1>1, <1>4, FS_CardinalityType
<1> QED
  BY <1>2, <1>3, <1>4, <1>5

LEMMA FindStep ==
    ASSUME SMPInv, NEW c \in CPUs, find_free_message(c)
    PROVE  SMPInv'
<1>1. PICK f \in Seq(Messages) : f = sFreeMessages /\ Distinct(f) /\ f # <<>>
  BY DEF find_free_message, SMPInv, SMPTypeOK, MessagesInv, ListInv
<1>2. PICK m \in Messages : /\ m = Head(f) /\ InQueue(f, m) /\ Distinct(Tail(f))
                            /\ \A u : InQueue(Tail(f), u) <=> u # m /\ InQueue(f, u)
  BY <1>1, TailFacts
<1>3. PICK a \in Sends[c] : Mailed(m, a) /\ call' = [call EXCEPT ![c] = a]
  BY <1>1, <1>2 DEF find_free_message
<1>4. /\ sFreeMessages' = Tail(f) /\ Tail(f) \in Seq(Messages)
      /\ mine' = [mine EXCEPT ![c] = m] /\ pc' = [pc EXCEPT ![c] = "sent"]
  BY <1>1, <1>2 DEF find_free_message, GoTo
<1>5. UNCHANGED <<lock, unsent, interrupt, step, msg, mailbox, ran>>
  BY DEF find_free_message, handlerVars
<1>6. /\ a \in [to : SUBSET CPUs, sync : BOOLEAN, broadcast : BOOLEAN]
      /\ a.to \subseteq CPUs /\ IsFiniteSet(a.to) /\ Cardinality(a.to) \in 0 .. Cardinality(CPUs)
      /\ ~a.broadcast => \E d \in CPUs : a.to = {d}
  BY CallFacts
<1>7. PlaceInv /\ HandlerInv /\ CountInv /\ ListInv
  BY DEF SMPInv, MessagesInv
<1>8. /\ Free(m) /\ ~InUse(m) /\ ran[m] = {} /\ m # NoMessage
      /\ ~InQueue(sBroadcastMessages, m)
      /\ \A d \in CPUs : msg[d] # m /\ ~InQueue(sCPUMessages[d], m)
  BY <1>1, <1>2, <1>7, SMPAssumption DEF Free, PlaceInv, InUse, InMailbox
<1>9. /\ ref_count'[m] = Cardinality(a.to) /\ sync'[m] = a.sync /\ done'[m] = FALSE
      /\ \A n \in Messages : n # m => /\ ref_count'[n] = ref_count[n] /\ sync'[n] = sync[n]
                                      /\ done'[n] = done[n] /\ proc_bitmap'[n] = proc_bitmap[n]
      /\ a.broadcast => proc_bitmap'[m] = CPUs \ a.to
  <2>1. /\ ref_count' = [ref_count EXCEPT ![m] = Cardinality(a.to)]
        /\ sync' = [sync EXCEPT ![m] = a.sync]
        /\ done' = [done EXCEPT ![m] = FALSE]
        /\ a.broadcast => proc_bitmap' = [proc_bitmap EXCEPT ![m] = CPUs \ a.to]
        /\ ~a.broadcast => proc_bitmap' = proc_bitmap
    BY <1>3 DEF Mailed
  <2> QED
    BY <2>1 DEF SMPInv, SMPTypeOK
<1>10. /\ sBroadcastMessages' \in Seq(Messages) /\ Distinct(sBroadcastMessages')
       /\ sCPUMessages' \in [CPUs -> Seq(Messages)] /\ \A d \in CPUs : Distinct(sCPUMessages'[d])
       /\ \A n \in Messages :
             InQueue(sBroadcastMessages', n) <=> InQueue(sBroadcastMessages, n) \/ (n = m /\ a.broadcast)
       /\ \A n \in Messages, d \in CPUs :
             InQueue(sCPUMessages'[d], n) <=>
                InQueue(sCPUMessages[d], n) \/ (n = m /\ ~a.broadcast /\ d \in a.to)
  <2>1. /\ sBroadcastMessages \in Seq(Messages) /\ Distinct(sBroadcastMessages)
        /\ sCPUMessages \in [CPUs -> Seq(Messages)]
        /\ \A d \in CPUs : sCPUMessages[d] \in Seq(Messages) /\ Distinct(sCPUMessages[d])
    BY <1>7 DEF SMPInv, SMPTypeOK, ListInv
  <2>2. CASE a.broadcast
    <3>1. sBroadcastMessages' = <<m>> \o sBroadcastMessages /\ UNCHANGED sCPUMessages
      BY <1>3, <2>2 DEF Mailed
    <3>2. /\ <<m>> \o sBroadcastMessages \in Seq(Messages)
          /\ \A u : InQueue(<<m>> \o sBroadcastMessages, u) <=> u = m \/ InQueue(sBroadcastMessages, u)
          /\ Distinct(<<m>> \o sBroadcastMessages)
      BY <1>8, <2>1, PrependFacts
    <3> QED
      BY <2>1, <2>2, <3>1, <3>2
  <2>3. CASE ~a.broadcast
    <3>1. /\ sCPUMessages' = [d \in CPUs |-> IF d \in a.to THEN <<m>> \o sCPUMessages[d]
                                                           ELSE sCPUMessages[d]]
          /\ UNCHANGED sBroadcastMessages
      BY <1>3, <2>3 DEF Mailed
    <3>2. ASSUME NEW d \in CPUs
          PROVE  /\ <<m>> \o sCPUMessages[d] \in Seq(Messages)
                 /\ \A u : InQueue(<<m>> \o sCPUMessages[d], u) <=> u = m \/ InQueue(sCPUMessages[d], u)
                 /\ Distinct(<<m>> \o sCPUMessages[d])
      BY <1>8, <2>1, PrependFacts
    <3>3. sCPUMessages' \in [CPUs -> Seq(Messages)]
      BY <2>1, <3>1, <3>2
    <3>4. ASSUME NEW d \in CPUs
          PROVE  /\ Distinct(sCPUMessages'[d])
                 /\ \A n \in Messages : InQueue(sCPUMessages'[d], n) <=>
                                           InQueue(sCPUMessages[d], n) \/ (n = m /\ d \in a.to)
      <4>1. CASE d \in a.to
        <5>1. sCPUMessages'[d] = <<m>> \o sCPUMessages[d]
          BY <3>1, <4>1
        <5> QED
          BY <3>2, <4>1, <5>1
      <4>2. CASE d \notin a.to
        <5>1. sCPUMessages'[d] = sCPUMessages[d]
          BY <3>1, <4>2
        <5> QED
          BY <2>1, <4>2, <5>1
      <4> QED
        BY <4>1, <4>2
    <3> QED
      BY <2>1, <2>3, <3>1, <3>3, <3>4
  <2> QED
    BY <2>2, <2>3
<1>11. \A n \in Messages : Free(n)' <=> Free(n) /\ n # m
  BY <1>1, <1>2, <1>4 DEF Free
<1>12. \A n \in Messages : n # m => /\ InMailbox(n)' <=> InMailbox(n)
                                    /\ InUse(n)' <=> InUse(n)
                                    /\ ToCome(n)' = ToCome(n)
                                    /\ Processing(n)' = Processing(n)
  <2>1. ASSUME NEW n \in Messages, n # m
        PROVE  /\ InMailbox(n)' <=> InMailbox(n)
               /\ InUse(n)' <=> InUse(n)
               /\ ToCome(n)' = ToCome(n)
               /\ Processing(n)' = Processing(n)
    <3>1. InMailbox(n)' <=> InMailbox(n)
      BY <1>10, <2>1 DEF InMailbox
    <3>2. InUse(n)' <=> InUse(n)
      BY <1>5, <3>1 DEF InUse
    <3>3. ToCome(n)' = ToCome(n)
      BY <1>9, <1>10, <2>1 DEF ToCome
    <3>4. Processing(n)' = Processing(n)
      BY <1>5 DEF Processing
    <3> QED
      BY <3>1, <3>2, <3>3, <3>4
  <2> QED
    BY <2>1
<1>13. ToCome(m)' = a.to /\ Processing(m)' = {}
  <2>1. Processing(m)' = {}
    BY <1>5, <1>8 DEF Processing
  <2>2. CASE a.broadcast
    <3>1. \A d \in CPUs : ~InQueue(sCPUMessages'[d], m) /\ (d \notin proc_bitmap'[m] <=> d \in a.to)
      BY <1>8, <1>9, <1>10, <2>2
    <3>2. InQueue(sBroadcastMessages', m)
      BY <1>10, <2>2
    <3> QED
      BY <1>6, <2>1, <3>1, <3>2 DEF ToCome
  <2>3. CASE ~a.broadcast
    <3>1. \A d \in CPUs : InQueue(sCPUMessages'[d], m) <=> d \in a.to
      BY <1>8, <1>10, <2>3
    <3>2. ~InQueue(sBroadcastMessages', m)
      BY <1>8, <1>10, <2>3
    <3> QED
      BY <1>6, <2>1, <3>1, <3>2 DEF ToCome
  <2> QED
    BY <2>2, <2>3
<1>14. CountInv'
  <2>1. ASSUME NEW n \in Messages, InUse(n)'
        PROVE  ref_count'[n] = Cardinality(ToCome(n)') + Cardinality(Processing(n)')
    <3>1. CASE n = m
      <4>1. Cardinality(a.to) \in Nat /\ Cardinality({}) = 0
        BY <1>6, FS_CardinalityType, FS_EmptySet
      <4>2. ref_count'[n] = Cardinality(a.to)
        BY <1>9, <3>1
      <4>3. ToCome(n)' = a.to /\ Processing(n)' = {}
        <5> HIDE DEF SMPInv
        <5> QED
          BY <1>13, <3>1
      <4> QED
        BY <4>1, <4>2, <4>3
    <3>2. CASE n # m
      <4>1. ref_count[n] = Cardinality(ToCome(n)) + Cardinality(Processing(n))
        BY <1>7, <1>12, <2>1, <3>2 DEF CountInv
      <4>2. /\ ref_count'[n] = ref_count[n]
            /\ ToCome(n)' = ToCome(n) /\ Processing(n)' = Processing(n)
        BY <1>9, <1>12, <3>2
      <4> QED
        BY <4>1, <4>2
    <3> QED
      BY <3>1, <3>2
  <2> QED
    BY <2>1 DEF CountInv
<1>15. ListInv'
  BY <1>2, <1>4, <1>10 DEF ListInv
<1>16. HandlerInv'
  BY <1>5, <1>7 DEF HandlerInv
<1>17. PlaceInv'
  <2>1. ASSUME NEW n \in Messages, NEW d \in CPUs
        PROVE  /\ InQueue(sCPUMessages'[d], n) =>
                     /\ ~InQueue(sBroadcastMessages', n)
                     /\ \A u \in CPUs : msg'[u] # n
                     /\ \A u \in CPUs : InQueue(sCPUMessages'[u], n) => u = d
               /\ msg'[d] = n /\ mailbox'[d] = "local" =>
                     ~InMailbox(n)' /\ \A u \in CPUs : msg'[u] = n => u = d
               /\ msg'[d] = n /\ mailbox'[d] = "bcast" =>
                     InQueue(sBroadcastMessages', n) /\ d \in proc_bitmap'[n]
               /\ msg'[d] = n /\ step'[d] = "clean" =>
                     ToCome(n)' = {} /\ \A u \in CPUs : msg'[u] = n => u = d
    <3>1. CASE n = m
      <4>1. \A u \in CPUs : msg'[u] # m
        BY <1>5, <1>8
      <4>2. InQueue(sCPUMessages'[d], m) =>
               /\ ~InQueue(sBroadcastMessages', m)
               /\ \A u \in CPUs : InQueue(sCPUMessages'[u], m) => u = d
        BY <1>6, <1>8, <1>10
      <4> QED
        BY <3>1, <4>1, <4>2
    <3>2. CASE n # m
      BY <1>5, <1>7, <1>9, <1>10, <1>12, <3>2 DEF PlaceInv
    <3> QED
      BY <3>1, <3>2
  <2>2. \A n \in Messages : Free(n)' => ~InUse(n)' /\ ran'[n] = {}
    BY <1>5, <1>7, <1>11, <1>12 DEF PlaceInv
  <2> QED
    BY <2>1, <2>2 DEF PlaceInv
<1>18. /\ mine'[c] = m /\ call'[c] = a /\ pc'[c] = "sent"
       /\ \A d \in CPUs : d # c => mine'[d] = mine[d] /\ call'[d] = call[d] /\ pc'[d] = pc[d]
  BY <1>3, <1>4 DEF SMPInv, SMPTypeOK
<1>19. SenderInv'
  <2>1. ASSUME NEW d \in CPUs
        PROVE  /\ mine'[d] # NoMessage <=> pc'[d] \in {"sent", "waits"}
               /\ pc'[d] = "waits" => call'[d].sync
    BY <1>8, <1>18 DEF SMPInv, SenderInv
  <2>2. \A d \in CPUs : ~(mine[d] = m /\ call[d].sync)
    BY <1>8 DEF SMPInv, SenderInv, Owned
  <2>3. ASSUME NEW d \in CPUs, mine'[d] # NoMessage, call'[d].sync
        PROVE  /\ Owned(d, mine[d])'
               /\ \A u \in CPUs : mine'[u] = mine'[d] /\ call'[u].sync => u = d
    <3>1. CASE d = c
      <4>1. /\ sync'[m] /\ ~Free(m)' /\ ~done'[m]
            /\ call'[c].to = ran'[m] \cup ToCome(m)' \cup Processing(m)'
        BY <1>5, <1>8, <1>9, <1>11, <1>13, <1>18, <2>3, <3>1
      <4>2. Owned(c, mine[c])'
        BY <1>18, <4>1 DEF Owned
      <4>3. \A u \in CPUs : mine'[u] = m /\ call'[u].sync => u = c
        BY <1>18, <2>2
      <4> QED
        BY <1>18, <3>1, <4>2, <4>3
    <3>2. CASE d # c
      <4>1. PICK n \in Messages : n = mine[d] /\ n = mine'[d]
        BY <1>18, <2>3, <3>2 DEF SMPInv, SMPTypeOK
      <4>2. Owned(d, n) /\ n # m /\ \A u \in CPUs : mine[u] = n /\ call[u].sync => u = d
        BY <1>18, <2>2, <2>3, <3>2, <4>1, SMPAssumption DEF SMPInv, SenderInv
      <4>3. Owned(d, n)'
        BY <1>5, <1>9, <1>11, <1>12, <1>18, <3>2, <4>2 DEF Owned
      <4>4. Owned(d, mine[d])'
        BY <4>1, <4>3 DEF Owned
      <4>5. \A u \in CPUs : mine'[u] = n /\ call'[u].sync => u = d
        BY <1>18, <4>2
      <4> QED
        BY <4>1, <4>4, <4>5
    <3> QED
      BY <3>1, <3>2
  <2> QED
    BY <2>1, <2>3 DEF SenderInv
<1>20. SMPTypeOK'
  <2>1. /\ ref_count' \in [Messages -> 0 .. Cardinality(CPUs)]
        /\ sync' \in [Messages -> BOOLEAN] /\ done' \in [Messages -> BOOLEAN]
        /\ proc_bitmap' \in [Messages -> SUBSET CPUs]
    <3>1. /\ ref_count' = [ref_count EXCEPT ![m] = Cardinality(a.to)]
          /\ sync' = [sync EXCEPT ![m] = a.sync]
          /\ done' = [done EXCEPT ![m] = FALSE]
          /\ \/ proc_bitmap' = [proc_bitmap EXCEPT ![m] = CPUs \ a.to]
             \/ proc_bitmap' = proc_bitmap
      BY <1>3 DEF Mailed
    <3>2. /\ ref_count \in [Messages -> 0 .. Cardinality(CPUs)]
          /\ sync \in [Messages -> BOOLEAN] /\ done \in [Messages -> BOOLEAN]
          /\ proc_bitmap \in [Messages -> SUBSET CPUs]
      BY DEF SMPInv, SMPTypeOK
    <3>3. ref_count' \in [Messages -> 0 .. Cardinality(CPUs)]
      BY <1>6, <3>1, <3>2
    <3>4. sync' \in [Messages -> BOOLEAN] /\ done' \in [Messages -> BOOLEAN]
      BY <1>6, <3>1, <3>2, Zenon
    <3>5. proc_bitmap' \in [Messages -> SUBSET CPUs]
      BY <3>1, <3>2
    <3> QED
      BY <3>3, <3>4, <3>5
  <2>2. /\ pc' \in [CPUs -> ThreadPC] /\ mine' \in [CPUs -> Messages \cup {NoMessage}]
        /\ call' \in [CPUs -> [to : SUBSET CPUs, sync : BOOLEAN, broadcast : BOOLEAN]]
    BY <1>3, <1>4, <1>6 DEF SMPInv, SMPTypeOK, ThreadPC
  <2> QED
    BY <1>4, <1>5, <1>10, <2>1, <2>2 DEF SMPInv, SMPTypeOK
<1> QED
  BY <1>14, <1>15, <1>16, <1>17, <1>19, <1>20 DEF SMPInv, MessagesInv

\* The sender of a SYNC message returns it when it has been answered.
LEMMA SendReturnsStep ==
    ASSUME SMPInv, NEW c \in CPUs, smp_send_returns(c)
    PROVE  SMPInv'
<1>1. pc[c] = "waits" /\ call[c].sync /\ mine[c] # NoMessage
  BY DEF smp_send_returns, SMPInv, SenderInv
<1>2. PICK m \in Messages : m = mine[c]
  BY <1>1 DEF SMPInv, SMPTypeOK
<1>3. /\ ~Free(m) /\ ~InUse(m)
      /\ \A d \in CPUs : mine[d] = m /\ call[d].sync => d = c
  BY <1>1, <1>2 DEF smp_send_returns, SMPInv, SenderInv, Owned
<1> DEFINE f == <<m>> \o sFreeMessages
<1>4. sFreeMessages' = f /\ ran' = [ran EXCEPT ![m] = {}] /\ SendReturns(c)
  BY <1>2 DEF smp_send_returns
<1>5. UNCHANGED <<sCPUMessages, sBroadcastMessages, ref_count, proc_bitmap, sync, done, lock, unsent,
                  interrupt, step, msg, mailbox>>
  BY DEF smp_send_returns, messageVars, handlerVars
<1>6. /\ f \in Seq(Messages) /\ Distinct(f)
      /\ \A u : InQueue(f, u) <=> u = m \/ InQueue(sFreeMessages, u)
  <2>1. sFreeMessages \in Seq(Messages) /\ Distinct(sFreeMessages) /\ ~InQueue(sFreeMessages, m)
    BY <1>3 DEF SMPInv, SMPTypeOK, MessagesInv, ListInv, Free
  <2> QED
    BY <2>1, PrependFacts
<1>7. \A n \in Messages : Free(n)' <=> n = m \/ Free(n)
  BY <1>4, <1>6 DEF Free
<1> HIDE DEF f
<1>8. ran'[m] = {} /\ \A n \in Messages : n # m => ran'[n] = ran[n]
  BY <1>4 DEF SMPInv, SMPTypeOK
<1>9. /\ pc' \in [CPUs -> ThreadPC] /\ mine' \in [CPUs -> Messages \cup {NoMessage}]
      /\ call' \in [CPUs -> [to : SUBSET CPUs, sync : BOOLEAN, broadcast : BOOLEAN]]
      /\ mine'[c] = NoMessage /\ pc'[c] \notin {"sent", "waits"}
      /\ \A d \in CPUs : d # c => pc'[d] = pc[d] /\ mine'[d] = mine[d] /\ call'[d] = call[d]
  BY <1>4, ReturnFacts
<1>10. ASSUME NEW n \in Messages
       PROVE  /\ InMailbox(n)' <=> InMailbox(n)
              /\ InUse(n)' <=> InUse(n)
              /\ ToCome(n)' = ToCome(n)
              /\ Processing(n)' = Processing(n)
  <2>1. InMailbox(n)' <=> InMailbox(n)
    BY <1>5 DEF InMailbox
  <2>2. InUse(n)' <=> InUse(n)
    BY <1>5, <2>1 DEF InUse
  <2>3. ToCome(n)' = ToCome(n)
    BY <1>5 DEF ToCome
  <2>4. Processing(n)' = Processing(n)
    BY <1>5 DEF Processing
  <2> QED
    BY <2>1, <2>2, <2>3, <2>4
<1>11. PlaceInv /\ HandlerInv /\ CountInv /\ ListInv
  BY DEF SMPInv, MessagesInv
<1>12. CountInv'
  <2>1. ASSUME NEW n \in Messages, InUse(n)'
        PROVE  ref_count'[n] = Cardinality(ToCome(n)') + Cardinality(Processing(n)')
    <3>1. ref_count[n] = Cardinality(ToCome(n)) + Cardinality(Processing(n))
      BY <1>10, <1>11, <2>1 DEF CountInv
    <3> QED
      BY <1>5, <1>10, <3>1
  <2> QED
    BY <2>1 DEF CountInv
<1>13. ListInv'
  BY <1>4, <1>5, <1>6, <1>11 DEF ListInv
<1>14. HandlerInv'
  BY <1>5, <1>11 DEF HandlerInv
<1>15. PlaceInv'
  <2>1. ASSUME NEW n \in Messages, NEW d \in CPUs
        PROVE  /\ InQueue(sCPUMessages'[d], n) =>
                     /\ ~InQueue(sBroadcastMessages', n)
                     /\ \A u \in CPUs : msg'[u] # n
                     /\ \A u \in CPUs : InQueue(sCPUMessages'[u], n) => u = d
               /\ msg'[d] = n /\ mailbox'[d] = "local" =>
                     ~InMailbox(n)' /\ \A u \in CPUs : msg'[u] = n => u = d
               /\ msg'[d] = n /\ mailbox'[d] = "bcast" =>
                     InQueue(sBroadcastMessages', n) /\ d \in proc_bitmap'[n]
               /\ msg'[d] = n /\ step'[d] = "clean" =>
                     ToCome(n)' = {} /\ \A u \in CPUs : msg'[u] = n => u = d
    BY <1>5, <1>10, <1>11 DEF PlaceInv
  <2>2. ASSUME NEW n \in Messages, Free(n)' PROVE ~InUse(n)' /\ ran'[n] = {}
    <3>1. CASE n = m
      BY <1>3, <1>8, <1>10, <3>1
    <3>2. CASE n # m
      BY <1>7, <1>8, <1>10, <1>11, <2>2, <3>2 DEF PlaceInv
    <3> QED
      BY <3>1, <3>2
  <2> QED
    BY <2>1, <2>2 DEF PlaceInv
<1>16. SenderInv'
  <2>1. ASSUME NEW d \in CPUs, NEW n \in Messages, mine[d] = n, mine'[d] = n, call[d].sync,
               call'[d] = call[d], Owned(d, n)
        PROVE  Owned(d, n)'
    <3>1. n # m
      <4>1. d # c
        BY <1>9, <2>1, SMPAssumption
      <4> QED
        BY <1>3, <2>1, <4>1
    <3>2. /\ sync[n] /\ ~Free(n)
          /\ call[d].to = ran[n] \cup ToCome(n) \cup Processing(n)
          /\ done[n] => ~InUse(n)
      BY <2>1 DEF Owned
    <3>3. call'[d].to = ran'[n] \cup ToCome(n)' \cup Processing(n)'
      BY <1>8, <1>10, <2>1, <3>1, <3>2
    <3> QED
      BY <1>5, <1>7, <1>10, <3>1, <3>2, <3>3 DEF Owned
  <2>2. \A d \in CPUs : pc[d] = "waits" => call[d].sync
    BY DEF SMPInv, SenderInv
  <2> QED
    BY <1>9, <2>1, <2>2, SendersKept
<1>17. SMPTypeOK'
  <2>1. ran' \in [Messages -> SUBSET CPUs]
    BY <1>4 DEF SMPInv, SMPTypeOK
  <2> QED
    BY <1>4, <1>5, <1>6, <1>9, <2>1 DEF SMPInv, SMPTypeOK
<1> QED
  BY <1>12, <1>13, <1>14, <1>15, <1>16, <1>17 DEF SMPInv, MessagesInv

-----------------------------------------------------------------------------
(***************************************************************************)
(* The theorems.                                                           *)
(***************************************************************************)

LEMMA SMPNextInv ==
    ASSUME SMPInv, [SMPNext]_smpVars
    PROVE  SMPInv'
<1>1. ASSUME NEW c \in CPUs, CPUStep(c) PROVE SMPInv'
  <2>1. CASE process_all_pending_ici(c)
    BY <2>1, StartStep
  <2>2. CASE check_for_message_local(c)
    BY <2>2, CheckLocalStep
  <2>3. CASE check_for_message_broadcast(c)
    BY <2>3, CheckBroadcastStep
  <2>4. CASE process_pending_ici(c)
    BY <2>4, ProcessStep
  <2>5. CASE finish_message_processing(c)
    BY <2>5, FinishStep
  <2>6. CASE smp_send_ici_self(c)
    BY <2>6, SelfStep
  <2>7. CASE find_free_message(c)
    BY <2>7, FindStep
  <2>8. CASE arch_smp_send_ici(c)
    BY <2>8, InterruptOthersStep
  <2>9. CASE smp_send_returns(c)
    BY <2>9, SendReturnsStep
  <2>10. CASE acquire_spinlock(c) \/ release_spinlock(c)
    BY <2>10, ThreadStep
  <2> QED
    BY <1>1, <2>1, <2>2, <2>3, <2>4, <2>5, <2>6, <2>7, <2>8, <2>9, <2>10 DEF CPUStep
<1>2. ASSUME NEW c \in CPUs, smp_intercpu_int_handler(c) PROVE SMPInv'
  BY <1>2, StartStep
<1>3. ASSUME NEW c \in CPUs, smp_send(c) \/ disable_interrupts(c) PROVE SMPInv'
  BY <1>3, ThreadStep
<1>4. CASE UNCHANGED smpVars
  <2>1. Quiet /\ UNCHANGED <<senderVars, interrupt, handlerVars>>
    BY <1>4 DEF smpVars, Quiet, lists, handlerVars
  <2>2. UNCHANGED <<pc, call, mine, lock, unsent>>
    BY <2>1 DEF senderVars
  <2>3. \A d \in CPUs : pc[d] = "waits" => call[d].sync
    BY DEF SMPInv, SenderInv
  <2>4. MessagesInv' /\ SenderInv'
    BY <2>1, <2>2, <2>3, QuietStep
  <2>5. SMPTypeOK'
    BY <2>1, <2>2 DEF SMPInv, SMPTypeOK, Quiet, lists, messageVars, handlerVars
  <2> QED
    BY <2>4, <2>5 DEF SMPInv
<1> QED
  BY <1>1, <1>2, <1>3, <1>4 DEF SMPNext

LEMMA SMPInvariance == SMPSpec => []SMPInv
<1>1. SMPInit => SMPInv
  BY NobodyAtFirst
<1>2. SMPInv /\ [SMPNext]_smpVars => SMPInv'
  BY SMPNextInv
<1> QED
  BY <1>1, <1>2, PTL DEF SMPSpec

\* Every variable of smp.cpp's model keeps its type, for any number of CPUs and any
\* pool of messages: in particular no reference count falls below 0.
THEOREM SMPTypes == SMPSpec => []SMPTypeOK
<1>1. SMPInv => SMPTypeOK
  BY DEF SMPInv
<1> QED
  BY <1>1, SMPInvariance, PTL

LEMMA MessagesAlone == SMPInv => MessageInv
<1> SUFFICES ASSUME SMPInv PROVE MessageInv
  OBVIOUS
<1>1. IsInjective(sFreeMessages)
  BY DEF SMPInv, MessagesInv, ListInv, Distinct, IsInjective
<1>2. ASSUME NEW m \in Messages, InQueue(sFreeMessages, m)
      PROVE  /\ ~InMailbox(m)
             /\ \A c \in CPUs : msg[c] # m
             /\ \A c \in CPUs : mine[c] = m => pc[c] = "sent" /\ ~call[c].sync
  <2>1. Free(m) /\ ~InUse(m)
    BY <1>2 DEF Free, SMPInv, MessagesInv, PlaceInv
  <2>2. ASSUME NEW c \in CPUs, mine[c] = m PROVE pc[c] = "sent" /\ ~call[c].sync
    <3>1. mine[c] # NoMessage
      BY <2>2, SMPAssumption
    <3>2. ~call[c].sync
      BY <2>1, <2>2, <3>1 DEF SMPInv, SenderInv, Owned
    <3> QED
      BY <3>1, <3>2 DEF SMPInv, SenderInv
  <2> QED
    BY <2>1, <2>2 DEF InUse
<1>3. ASSUME NEW m \in Messages, InMailbox(m) \/ Processing(m) # {}
      PROVE  ref_count[m] = Cardinality(ToCome(m)) + Cardinality(Processing(m))
  <2>1. InUse(m)
    BY <1>3 DEF InUse, Processing
  <2> QED
    BY <2>1 DEF SMPInv, MessagesInv, CountInv
<1>4. ASSUME NEW m \in Messages, NEW c \in CPUs, msg[c] = m, step[c] = "clean"
      PROVE  ToCome(m) = {} /\ \A d \in CPUs \ {c} : msg[d] # m
  BY <1>4 DEF SMPInv, MessagesInv, PlaceInv
<1> QED
  BY <1>1, <1>2, <1>3, <1>4 DEF MessageInv

\* A message is returned to the free list once, by the CPU that brings its reference
\* count to 0 or by the sender that waited for it, when it is in no mailbox and no
\* CPU deals with it; and its reference count is the number of the CPUs that have
\* still to find it or to finish it.
THEOREM MessagesAreFreedOnce == SMPSpec => []MessageInv
  BY SMPInvariance, MessagesAlone, PTL

LEMMA AnsweredByAll == SMPInv => SyncProcessed
<1> SUFFICES ASSUME SMPInv, NEW c \in CPUs, pc[c] = "waits", done[mine[c]]
             PROVE  ran[mine[c]] = call[c].to
  BY DEF SyncProcessed
<1>1. mine[c] # NoMessage /\ call[c].sync
  BY DEF SMPInv, SenderInv
<1>2. PICK m \in Messages : m = mine[c]
  BY <1>1 DEF SMPInv, SMPTypeOK
<1>3. call[c].to = ran[m] \cup ToCome(m) \cup Processing(m) /\ ~InUse(m)
  BY <1>1, <1>2 DEF SMPInv, SenderInv, Owned
<1>4. ToCome(m) = {} /\ Processing(m) = {}
  BY <1>3 DEF InUse, InMailbox, ToCome, Processing
<1> QED
  BY <1>2, <1>3, <1>4

\* When a send function with SMP_MSG_FLAG_SYNC finds that its message is done, the
\* CPUs it was sent to have processed it, all of them and no other.
THEOREM SyncMessagesAreAnswered == SMPSpec => []SyncProcessed
  BY SMPInvariance, AnsweredByAll, PTL

=============================================================================
