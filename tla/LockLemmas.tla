----------------------------- MODULE LockLemmas -----------------------------
(***************************************************************************)
(* What the proofs about several components need: facts about the queues   *)
(* of waiters (module WaiterQueue), about the blocking protocol (module    *)
(* ThreadBlock) and about the number of threads in a set.  U is the set of *)
(* threads of the component.                                               *)
(***************************************************************************)
EXTENDS Integers, Sequences, ThreadBlock, WaiterQueue, FiniteSetTheorems,
        SequenceTheorems, WellFoundedInduction, TLAPS

(***************************************************************************)
(* What the queue operations return.                                       *)
(***************************************************************************)
Distinct(s) == \A i, j \in DOMAIN s : s[i] = s[j] => i = j

\* Dequeue() returns a queue of threads.
LEMMA DequeueType ==
    ASSUME NEW U, NEW s \in Seq(U), NEW t, InQueue(s, t)
    PROVE  /\ Dequeue(s, t) \in Seq(U)
           /\ Position(s, t) \in 1 .. Len(s)
           /\ s[Position(s, t)] = t
           /\ Len(s) - 1 \in Nat
           /\ Dequeue(s, t) = [i \in 1 .. (Len(s) - 1) |->
                  IF i < Position(s, t) THEN s[i] ELSE s[i + 1]]
<1> DEFINE k == Position(s, t)
<1>1. k \in DOMAIN s /\ s[k] = t
  BY DEF Position, InQueue
<1>2. Len(s) \in Nat /\ Len(s) > 0 /\ DOMAIN s = 1 .. Len(s)
  BY <1>1
<1>3. Len(s) - 1 \in Nat
  BY <1>2
<1>4. \A i \in 1 .. (Len(s) - 1) :
         (IF i < k THEN s[i] ELSE s[i + 1]) \in U
  BY <1>1, <1>2
<1>5. Dequeue(s, t) \in [1 .. (Len(s) - 1) -> U]
  BY <1>4 DEF Dequeue
<1> QED
  BY <1>1, <1>2, <1>3, <1>5, SeqDef DEF Dequeue

\* Dequeue() removes the thread and nothing else.
LEMMA DequeueFacts ==
    ASSUME NEW U, NEW s \in Seq(U), NEW t, InQueue(s, t), Distinct(s)
    PROVE  /\ Distinct(Dequeue(s, t))
           /\ \A u : InQueue(Dequeue(s, t), u) <=> u # t /\ InQueue(s, u)
<1> DEFINE k == Position(s, t)
           n == Len(s)
           d == Dequeue(s, t)
<1>1. /\ n \in Nat /\ n - 1 \in Nat
      /\ k \in 1 .. n
      /\ s[k] = t
      /\ DOMAIN s = 1 .. n
      /\ DOMAIN d = 1 .. (n - 1)
      /\ \A i \in 1 .. (n - 1) : d[i] = IF i < k THEN s[i] ELSE s[i + 1]
  BY DequeueType
<1> HIDE DEF k, n, d
<1>2. \A i, j \in 1 .. n : s[i] = s[j] => i = j
  BY <1>1 DEF Distinct
<1>3. Distinct(d)
  BY <1>1, <1>2 DEF Distinct
<1>4. ASSUME NEW u, InQueue(d, u)
      PROVE  u # t /\ InQueue(s, u)
  <2>1. PICK i \in 1 .. (n - 1) : d[i] = u
    BY <1>1, <1>4 DEF InQueue
  <2>2. CASE i < k
    BY <1>1, <1>2, <2>1, <2>2 DEF InQueue
  <2>3. CASE ~(i < k)
    BY <1>1, <1>2, <2>1, <2>3 DEF InQueue
  <2> QED
    BY <2>2, <2>3
<1>5. ASSUME NEW u, u # t, InQueue(s, u)
      PROVE  InQueue(d, u)
  <2>1. PICK i \in 1 .. n : s[i] = u
    BY <1>1, <1>5 DEF InQueue
  <2>2. CASE i < k
    BY <1>1, <2>1, <2>2 DEF InQueue
  <2>3. CASE i > k
    <3>1. i - 1 \in 1 .. (n - 1) /\ d[i - 1] = u
      BY <1>1, <2>1, <2>3
    <3> QED
      BY <1>1, <3>1 DEF InQueue
  <2> QED
    BY <1>1, <1>5, <2>1, <2>2, <2>3
<1> QED
  BY <1>3, <1>4, <1>5 DEF d

\* Append() adds one thread at the end.
LEMMA AppendFacts ==
    ASSUME NEW U, NEW s \in Seq(U), NEW t \in U
    PROVE  /\ \A u : InQueue(Append(s, t), u) <=> u = t \/ InQueue(s, u)
           /\ Distinct(s) /\ ~InQueue(s, t) => Distinct(Append(s, t))
<1> DEFINE n == Len(s)
           a == Append(s, t)
<1>1. /\ n \in Nat
      /\ DOMAIN s = 1 .. n
      /\ DOMAIN a = 1 .. (n + 1)
      /\ \A i \in 1 .. n : a[i] = s[i]
      /\ a[n + 1] = t
  OBVIOUS
<1> HIDE DEF n, a
<1>2. \A u : InQueue(a, u) <=> u = t \/ InQueue(s, u)
  BY <1>1 DEF InQueue
<1>3. Distinct(s) /\ ~InQueue(s, t) => Distinct(a)
  BY <1>1 DEF Distinct, InQueue
<1> QED
  BY <1>2, <1>3 DEF a

\* Tail() removes the first thread and nothing else.
LEMMA TailFacts ==
    ASSUME NEW U, NEW s \in Seq(U), s # <<>>, Distinct(s)
    PROVE  /\ Head(s) \in U
           /\ InQueue(s, Head(s))
           /\ Distinct(Tail(s))
           /\ \A u : InQueue(Tail(s), u) <=> u # Head(s) /\ InQueue(s, u)
<1> DEFINE n == Len(s)
           h == Head(s)
           r == Tail(s)
<1>1. /\ n \in Nat /\ n > 0
      /\ DOMAIN s = 1 .. n
      /\ h = s[1]
      /\ h \in U
      /\ DOMAIN r = 1 .. (n - 1)
      /\ \A i \in 1 .. (n - 1) : r[i] = s[i + 1]
  BY HeadTailProperties
<1> HIDE DEF n, h, r
<1>2. \A i, j \in 1 .. n : s[i] = s[j] => i = j
  BY <1>1 DEF Distinct
<1>3. Distinct(r) /\ InQueue(s, h)
  BY <1>1, <1>2 DEF Distinct, InQueue
<1>4. ASSUME NEW u, InQueue(r, u)
      PROVE  u # h /\ InQueue(s, u)
  <2>1. PICK i \in 1 .. (n - 1) : s[i + 1] = u
    BY <1>1, <1>4 DEF InQueue
  <2> QED
    BY <1>1, <1>2, <2>1 DEF InQueue
<1>5. ASSUME NEW u, u # h, InQueue(s, u)
      PROVE  InQueue(r, u)
  <2>1. PICK i \in 1 .. n : s[i] = u
    BY <1>1, <1>5 DEF InQueue
  <2>2. i - 1 \in 1 .. (n - 1) /\ r[i - 1] = u
    BY <1>1, <1>5, <2>1
  <2> QED
    BY <1>1, <2>2 DEF InQueue
<1> QED
  BY <1>1, <1>3, <1>4, <1>5 DEF h, r

\* The blocking protocol only ever stores wait results.
LEMMA PrepareType ==
    ASSUME NEW U, NEW ws \in [U -> WaitStatus], NEW t \in U
    PROVE  thread_prepare_to_block(ws, t) \in [U -> WaitStatus]
  BY DEF thread_prepare_to_block, WaitStatus

LEMMA UnblockType ==
    ASSUME NEW U, NEW ws \in [U -> WaitStatus], NEW t \in U,
           NEW status \in WaitStatus
    PROVE  thread_unblock_locked(ws, t, status) \in [U -> WaitStatus]
  BY DEF thread_unblock_locked, thread_is_blocked

LEMMA UnblockEachType ==
    ASSUME NEW U, NEW ws \in [U -> WaitStatus], NEW T,
           NEW status \in WaitStatus
    PROVE  thread_unblock_each(ws, T, status) \in [U -> WaitStatus]
  BY DEF thread_unblock_each, thread_unblock_locked, thread_is_blocked

-----------------------------------------------------------------------------
\* The cardinality of a set of threads after one thread, or two, joined or left.
LEMMA CardOne ==
    ASSUME NEW U, IsFiniteSet(U), NEW S \in SUBSET U, NEW R \in SUBSET U, NEW x \in U,
           \A u \in U : u # x => (u \in R <=> u \in S)
    PROVE  Cardinality(R) = Cardinality(S) + (IF x \in R THEN 1 ELSE 0)
                                           - (IF x \in S THEN 1 ELSE 0)
<1>1. IsFiniteSet(S) /\ IsFiniteSet(R)
  BY FS_Subset
<1>2. Cardinality(S) \in Nat /\ Cardinality(R) \in Nat
  BY <1>1, FS_CardinalityType
<1>3. CASE x \in R /\ x \notin S
  <2>1. R = S \cup {x}
    BY <1>3
  <2>2. Cardinality(S \cup {x}) = Cardinality(S) + 1
    BY <1>1, <1>3, FS_AddElement
  <2> QED
    BY <1>2, <1>3, <2>1, <2>2
<1>4. CASE x \notin R /\ x \in S
  <2>1. S = R \cup {x}
    BY <1>4
  <2>2. Cardinality(R \cup {x}) = Cardinality(R) + 1
    BY <1>1, <1>4, FS_AddElement
  <2> QED
    BY <1>2, <1>4, <2>1, <2>2
<1>5. CASE x \in R <=> x \in S
  <2>1. R = S
    BY <1>5
  <2> QED
    BY <1>2, <2>1
<1> QED
  BY <1>3, <1>4, <1>5

LEMMA CardTwo ==
    ASSUME NEW U, IsFiniteSet(U), NEW S \in SUBSET U, NEW R \in SUBSET U, NEW x \in U, NEW y \in U, x # y,
           \A u \in U : u # x /\ u # y => (u \in R <=> u \in S)
    PROVE  Cardinality(R) = Cardinality(S) + (IF x \in R THEN 1 ELSE 0)
                                           - (IF x \in S THEN 1 ELSE 0)
                                           + (IF y \in R THEN 1 ELSE 0)
                                           - (IF y \in S THEN 1 ELSE 0)
<1> DEFINE M == (S \ {x}) \cup (R \cap {x})
<1>1. M \in SUBSET U
  OBVIOUS
<1>2. \A u \in U : u # x => (u \in M <=> u \in S)
  OBVIOUS
<1>3. \A u \in U : u # y => (u \in R <=> u \in M)
  OBVIOUS
<1>4. (x \in M <=> x \in R) /\ (y \in M <=> y \in S)
  OBVIOUS
<1> HIDE DEF M
<1>5. Cardinality(M) = Cardinality(S) + (IF x \in M THEN 1 ELSE 0)
                                      - (IF x \in S THEN 1 ELSE 0)
  BY <1>1, <1>2, CardOne
<1>6. Cardinality(R) = Cardinality(M) + (IF y \in R THEN 1 ELSE 0)
                                      - (IF y \in M THEN 1 ELSE 0)
  BY <1>1, <1>3, CardOne
<1>7. /\ Cardinality(S) \in Nat
      /\ Cardinality(M) \in Nat
      /\ Cardinality(R) \in Nat
  BY <1>1, FS_Subset, FS_CardinalityType
<1> QED
  BY <1>4, <1>5, <1>6, <1>7

\* The first n threads of a queue are n threads.
LEMMA PrefixCard ==
    ASSUME NEW U, NEW s \in Seq(U), Distinct(s), NEW n \in 0 .. Len(s)
    PROVE  Cardinality({s[i] : i \in 1 .. n}) = n
<1> DEFINE K == {s[i] : i \in 1 .. n}
           f == [i \in 1 .. n |-> s[i]]
<1>1. n \in Nat /\ \A i \in 1 .. n : i \in DOMAIN s
  OBVIOUS
<1>2. f \in Surjection(1 .. n, K)
  BY DEF Surjection
<1>3. f \in Injection(1 .. n, K)
  BY <1>1 DEF Injection, IsInjective, Distinct
<1>4. ExistsBijection(1 .. n, K)
  BY <1>2, <1>3 DEF ExistsBijection, Bijection
<1> QED
  BY <1>1, <1>4, FS_CountingElements

\* A set of natural numbers has a least element: the induction principle that the
\* provers can use.
LEMMA LeastElement ==
    ASSUME NEW T \in SUBSET Nat, T # {}
    PROVE  \E n \in T : \A k \in T : n <= k
<1>1. PICK n \in T : \A k \in T : ~(<<k, n>> \in OpToRel(<, Nat))
  BY NatLessThanWellFounded, WFMin, Zenon
<1>2. \A k \in T : ~(k < n)
  BY <1>1 DEF OpToRel
<1> QED
  BY <1>2

\* Multiples of the writers' share in the count of a read-write lock.
LEMMA Multiple ==
    ASSUME NEW b \in Nat, NEW k \in Nat
    PROVE  /\ b * k \in Nat
           /\ b * (k + 1) = b * k + b
           /\ b * 0 = 0 /\ b * 1 = b
           /\ k > 0 => b * k >= b
           /\ k > 1 => b * k >= b + b
  OBVIOUS

LEMMA Remainder ==
    ASSUME NEW b \in Nat, NEW k \in Nat, NEW r \in Nat, 0 < r, r < b
    PROVE  (b * k + r) % b > 0
<1> DEFINE x == b * k + r
<1>1. x \in Nat
  OBVIOUS
<1>2. x = b * (x \div b) + (x % b) /\ x % b \in 0 .. (b - 1) /\ x \div b \in Int
  BY <1>1
<1>3. ASSUME NEW d \in Int PROVE b * d # r
  <2>1. d <= 0 => b * d <= 0
    OBVIOUS
  <2>2. d >= 1 => b * d >= b
    OBVIOUS
  <2> QED
    BY <2>1, <2>2
<1> HIDE DEF x
<1>4. ASSUME NEW q \in Int, x = b * q PROVE FALSE
  <2>1. b * (q - k) = r
    BY <1>4 DEF x
  <2> QED
    BY <1>3, <2>1
<1>5. x % b # 0
  <2>1. SUFFICES ASSUME x % b = 0 PROVE FALSE
    OBVIOUS
  <2>2. x = b * (x \div b)
    BY <1>1, <1>2, <2>1
  <2> QED
    BY <1>2, <1>4, <2>2
<1>6. x % b > 0
  BY <1>2, <1>5
<1> QED
  BY <1>6 DEF x

\* Cardinalities of simple sets.
LEMMA CardInterval ==
    ASSUME NEW n \in Nat
    PROVE  IsFiniteSet(1 .. n) /\ Cardinality(1 .. n) = n
<1>1. IsFiniteSet(1 .. n) /\ Cardinality(1 .. n) = IF 1 > n THEN 0 ELSE n - 1 + 1
  BY FS_Interval
<1> QED
  BY <1>1

LEMMA CardRow ==
    ASSUME NEW S, IsFiniteSet(S), NEW x
    PROVE  /\ IsFiniteSet({x} \X S) /\ Cardinality({x} \X S) = Cardinality(S)
           /\ IsFiniteSet(S \X {x}) /\ Cardinality(S \X {x}) = Cardinality(S)
<1> DEFINE X == {x}
<1>1. IsFiniteSet(X) /\ Cardinality(X) = 1
  BY FS_Singleton
<1> HIDE DEF X
<1>2. /\ IsFiniteSet(X \X S) /\ Cardinality(X \X S) = Cardinality(X) * Cardinality(S)
      /\ IsFiniteSet(S \X X) /\ Cardinality(S \X X) = Cardinality(S) * Cardinality(X)
  BY <1>1, FS_Product
<1>3. \A n \in Nat : 1 * n = n /\ n * 1 = n
  OBVIOUS
<1>4. Cardinality(S) \in Nat
  BY FS_CardinalityType
<1>5. Cardinality(X \X S) = Cardinality(S) /\ Cardinality(S \X X) = Cardinality(S)
  BY <1>1, <1>2, <1>3, <1>4
<1> QED
  BY <1>2, <1>5 DEF X

LEMMA CardDisjoint ==
    ASSUME NEW S, IsFiniteSet(S), NEW T, IsFiniteSet(T), S \cap T = {}
    PROVE  IsFiniteSet(S \cup T) /\ Cardinality(S \cup T) = Cardinality(S) + Cardinality(T)
<1>1. /\ IsFiniteSet(S \cup T)
      /\ Cardinality(S \cup T) = Cardinality(S) + Cardinality(T) - Cardinality(S \cap T)
  BY FS_Union
<1>2. Cardinality(S \cap T) = 0
  BY FS_EmptySet
<1>3. Cardinality(S) \in Nat /\ Cardinality(T) \in Nat
  BY FS_CardinalityType
<1> QED
  BY <1>1, <1>2, <1>3

\* What is left of a queue after its first waiters have gone.
LEMMA SuffixFacts ==
    ASSUME NEW U, NEW s \in Seq(U), NEW n \in Nat, n <= Len(s)
    PROVE  /\ SubSeq(s, n + 1, Len(s)) \in Seq(U)
           /\ Len(s) - n \in Nat
           /\ DOMAIN SubSeq(s, n + 1, Len(s)) = 1 .. (Len(s) - n)
           /\ Len(SubSeq(s, n + 1, Len(s))) = Len(s) - n
           /\ \A i \in 1 .. (Len(s) - n) : SubSeq(s, n + 1, Len(s))[i] = s[n + i]
<1>1. Len(s) \in Nat /\ n + 1 \in 1 .. (Len(s) + 1) /\ Len(s) \in n .. Len(s)
  OBVIOUS
<1>2. /\ SubSeq(s, n + 1, Len(s)) \in Seq(U)
      /\ Len(SubSeq(s, n + 1, Len(s))) =
            (IF n + 1 <= Len(s) THEN Len(s) - (n + 1) + 1 ELSE 0)
      /\ \A i \in 1 .. (Len(s) - (n + 1) + 1) : SubSeq(s, n + 1, Len(s))[i] = s[(n + 1) + i - 1]
  BY <1>1, SubSeqProperties
<1>3. Len(SubSeq(s, n + 1, Len(s))) = Len(s) - n
  BY <1>1, <1>2
<1>4. Len(s) - (n + 1) + 1 = Len(s) - n /\ \A i \in 1 .. (Len(s) - n) : (n + 1) + i - 1 = n + i
  BY <1>1
<1>5. DOMAIN SubSeq(s, n + 1, Len(s)) = 1 .. (Len(s) - n)
  <2>1. DOMAIN SubSeq(s, n + 1, Len(s)) = 1 .. Len(SubSeq(s, n + 1, Len(s)))
    BY <1>2
  <2> QED
    BY <1>3, <2>1
<1>6. ASSUME NEW i \in 1 .. (Len(s) - n) PROVE SubSeq(s, n + 1, Len(s))[i] = s[n + i]
  BY <1>2, <1>4
<1>7. Len(s) - n \in Nat
  BY <1>1
<1> QED
  BY <1>2, <1>3, <1>5, <1>6, <1>7

LEMMA SuffixQueue ==
    ASSUME NEW U, NEW s \in Seq(U), Distinct(s), NEW n \in Nat, NEW l \in Nat, Len(s) = n + l,
           NEW r \in Seq(U), Len(r) = l, \A i \in 1 .. l : r[i] = s[n + i]
    PROVE  /\ Distinct(r)
           /\ \A u : InQueue(r, u) <=> InQueue(s, u) /\ u \notin {s[i] : i \in 1 .. n}
           /\ l = 0 => r = <<>>
           /\ l > 0 => r # <<>> /\ Head(r) = s[n + 1]
<1>1. DOMAIN s = 1 .. (n + l) /\ DOMAIN r = 1 .. l
  OBVIOUS
<1>2. \A i \in 1 .. l : n + i \in 1 .. (n + l)
  OBVIOUS
<1>3. Distinct(r)
  <2> SUFFICES ASSUME NEW i \in 1 .. l, NEW j \in 1 .. l, r[i] = r[j] PROVE i = j
    BY <1>1, Zenon DEF Distinct
  <2>1. s[n + i] = s[n + j]
    OBVIOUS
  <2>2. n + i = n + j
    BY <1>1, <1>2, <2>1, Zenon DEF Distinct
  <2> QED
    BY <2>2
<1>4. ASSUME NEW u, InQueue(r, u) PROVE InQueue(s, u) /\ u \notin {s[i] : i \in 1 .. n}
  <2>1. PICK i \in 1 .. l : r[i] = u
    BY <1>1, <1>4, Zenon DEF InQueue
  <2>2. s[n + i] = u /\ n + i \in DOMAIN s
    BY <1>1, <1>2, <2>1, Zenon
  <2>3. ASSUME NEW j \in 1 .. n PROVE s[j] # u
    <3>1. j \in 1 .. (n + l) /\ j # n + i
      OBVIOUS
    <3> QED
      BY <1>1, <2>2, <3>1, Zenon DEF Distinct
  <2> QED
    BY <2>2, <2>3, Zenon DEF InQueue
<1>5. ASSUME NEW u, InQueue(s, u), u \notin {s[i] : i \in 1 .. n} PROVE InQueue(r, u)
  <2>1. PICK i \in 1 .. (n + l) : s[i] = u
    BY <1>1, <1>5, Zenon DEF InQueue
  <2>2. i \notin 1 .. n
    BY <1>5, <2>1, Zenon
  <2>3. i - n \in 1 .. l /\ n + (i - n) = i
    BY <2>2
  <2>4. r[i - n] = u
    BY <2>1, <2>3
  <2> QED
    BY <1>1, <2>3, <2>4, Zenon DEF InQueue
<1>6. (l = 0 => r = <<>>) /\ (l > 0 => r # <<>> /\ Head(r) = s[n + 1])
  OBVIOUS
<1> QED
  BY <1>3, <1>4, <1>5, <1>6

LEMMA DropQueue ==
    ASSUME NEW U, NEW s \in Seq(U), Distinct(s), NEW n \in Nat, n <= Len(s)
    PROVE  LET q == SubSeq(s, n + 1, Len(s)) IN
           /\ q \in Seq(U) /\ Distinct(q)
           /\ \A u : InQueue(q, u) <=> InQueue(s, u) /\ u \notin {s[i] : i \in 1 .. n}
           /\ n = Len(s) => q = <<>>
           /\ n < Len(s) => q # <<>> /\ Head(q) = s[n + 1]
<1> DEFINE r == SubSeq(s, n + 1, Len(s))
           l == Len(s) - n
<1>1. r \in Seq(U) /\ l \in Nat /\ Len(r) = l /\ \A i \in 1 .. l : r[i] = s[n + i]
  BY SuffixFacts
<1>2. Len(s) = n + l /\ (n = Len(s) => l = 0) /\ (n < Len(s) => l > 0)
  OBVIOUS
<1> HIDE DEF r, l
<1>3. /\ Distinct(r)
      /\ \A u : InQueue(r, u) <=> InQueue(s, u) /\ u \notin {s[i] : i \in 1 .. n}
      /\ l = 0 => r = <<>>
      /\ l > 0 => r # <<>> /\ Head(r) = s[n + 1]
  BY <1>1, <1>2, SuffixQueue, Zenon
<1> QED
  BY <1>1, <1>2, <1>3, Zenon DEF r

=============================================================================
