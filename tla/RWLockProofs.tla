---------------------------- MODULE RWLockProofs ----------------------------
(***************************************************************************)
(* Proofs about the read-write lock (module RWLock), for every number of   *)
(* threads and every nesting depth that Base leaves room for.              *)
(***************************************************************************)
EXTENDS RWLock, LockLemmas

-----------------------------------------------------------------------------
(***************************************************************************)
(* The invariant.                                                          *)
(***************************************************************************)

Waits == {"wait_read", "wait_write"}

\* The threads that hold or want a write lock, and the ones that wait to read.
Wanting == {t \in Threads : writes[t] > 0 \/ pc[t] = "wait_write"}
WokenReaders == {t \in Threads : Woken(t, "wait_read")}

\* What the atomic_add()s of the readers have made of count.
ReaderShare ==
    Cardinality(OwnedReads) + Cardinality(At("read_lock")) + Cardinality(At("wait_read"))

\* A thread is in the queue just as long as its wait has no result.
QueueInv ==
    /\ Distinct(waiters)
    /\ \A t \in Threads :
          /\ InQueue(waiters, t) <=> pc[t] \in Waits /\ wait_status[t] = "waiting"
          /\ pc[t] \in Waits => wait_status[t] \in {"waiting", "B_OK"}

\* What a thread owns.
OwnedOf(t) ==
    /\ reads[t] + writes[t] <= MaxNesting
    /\ pc[t] \in Waits => reads[t] = 0 /\ writes[t] = 0
    /\ pc[t] = "read_lock" => /\ reads[t] + writes[t] < MaxNesting
                              /\ reads[t] > 0 => writes[t] > 0
    /\ pc[t] = "read_unlock" => reads[t] + writes[t] < MaxNesting

OwnedInv ==
    /\ \A t \in Threads : OwnedOf(t)
    /\ \A t, u \in Threads : reads[t] > 1 /\ reads[u] > 1 => t = u

\* The holder is the writer, and alone.
HolderInv ==
    /\ \A t \in Threads : t = holder <=> writes[t] > 0 \/ Woken(t, "wait_write")
    /\ holder # NoThread =>
          /\ active_readers = 0 /\ pending_readers = 0
          /\ owner_count = Base * writes[holder] + reads[holder]
                              + (IF pc[holder] = "read_unlock" THEN 1 ELSE 0)
          /\ \A t \in Threads : t # holder =>
                reads[t] = 0 /\ pc[t] # "read_unlock" /\ ~Woken(t, "wait_read")
    /\ holder = NoThread => owner_count = 0

CountInv == count = Base * Cardinality(Wanting) + ReaderShare

\* A writer waits for readers: for the active ones, which are all there are, and
\* for the pending ones.  It is the first one in the queue.
WaitInv ==
    holder = NoThread /\ QueuedWriters # {} =>
        /\ active_readers = ReadLocks + Cardinality(At("read_unlock"))
        /\ pending_readers <= Cardinality(At("read_lock"))
        /\ active_readers + pending_readers > 0
        /\ IsWriter(Head(waiters))

\* No writer at all.
ReadInv ==
    Wanting = {} =>
        /\ active_readers = 0
        /\ pending_readers = Cardinality(At("read_lock"))
        /\ waiters = <<>>
        /\ At("read_unlock") = {}

LiveInv ==
    /\ QueueInv /\ OwnedInv /\ HolderInv /\ CountInv /\ WaitInv /\ ReadInv

\* Nobody owns a destroyed lock; whoever waited for it gets an error.
DestroyedInv ==
    /\ waiters = <<>>
    /\ \A t \in Threads :
          /\ reads[t] = 0 /\ writes[t] = 0
          /\ pc[t] \in Waits \cup {"running"}
          /\ pc[t] \in Waits => wait_status[t] = "B_ERROR"

IInv ==
    /\ TypeOK
    /\ ~destroyed => LiveInv
    /\ destroyed => DestroyedInv

-----------------------------------------------------------------------------
(***************************************************************************)
(* Counting.                                                               *)
(***************************************************************************)

LEMMA Bounds ==
    /\ IsFiniteSet(Threads) /\ NoThread \notin Threads
    /\ MaxNesting \in Nat /\ MaxNesting > 0 /\ Base \in Nat /\ Base > MaxNesting
    /\ Cardinality(Threads) \in Nat /\ Cardinality(Threads) + MaxNesting < Base
<1>1. Cardinality(Threads) \in Nat
  BY RWAssumption, FS_CardinalityType
<1> QED
  BY <1>1, RWAssumption

\* A step that concerns the thread t alone.
Only(t) ==
    \A u \in Threads : u # t =>
        /\ pc'[u] = pc[u] /\ wait_status'[u] = wait_status[u]
        /\ reads'[u] = reads[u] /\ writes'[u] = writes[u]

One(b) == IF b THEN 1 ELSE 0

LEMMA CardPairs ==
    ASSUME NEW S \in SUBSET (Threads \X (1 .. MaxNesting))
    PROVE  IsFiniteSet(S) /\ Cardinality(S) \in Nat /\ (Cardinality(S) = 0 <=> S = {})
<1>1. IsFiniteSet(Threads \X (1 .. MaxNesting))
  <2>1. IsFiniteSet(1 .. MaxNesting)
    BY Bounds, FS_Interval
  <2> QED
    BY <2>1, Bounds, FS_Product
<1>2. IsFiniteSet(S)
  BY <1>1, FS_Subset
<1> QED
  BY <1>2, FS_CardinalityType, FS_EmptySet

LEMMA CardTypes ==
    /\ \A S \in SUBSET Threads : IsFiniteSet(S) /\ Cardinality(S) \in Nat
                                 /\ (Cardinality(S) = 0 <=> S = {})
    /\ IsFiniteSet(OwnedReads) /\ Cardinality(OwnedReads) \in Nat
    /\ Cardinality(OwnedReads) = 0 <=> OwnedReads = {}
<1>1. \A S \in SUBSET Threads : IsFiniteSet(S)
  BY Bounds, FS_Subset
<1>2. OwnedReads \in SUBSET (Threads \X (1 .. MaxNesting))
  BY DEF OwnedReads
<1> QED
  BY <1>1, <1>2, CardPairs, FS_CardinalityType, FS_EmptySet

LEMMA CardAt ==
    ASSUME NEW t \in Threads, Only(t), NEW p
    PROVE  Cardinality(At(p)') = Cardinality(At(p)) + One(pc'[t] = p) - One(pc[t] = p)
<1>1. /\ At(p) \in SUBSET Threads /\ At(p)' \in SUBSET Threads
      /\ \A u \in Threads : u # t => (u \in At(p)' <=> u \in At(p))
      /\ t \in At(p)' <=> pc'[t] = p
      /\ t \in At(p) <=> pc[t] = p
  BY DEF At, Only
<1> QED
  BY <1>1, Bounds, CardOne DEF One

LEMMA CardWanting ==
    ASSUME NEW t \in Threads, Only(t)
    PROVE  Cardinality(Wanting') =
               Cardinality(Wanting) + One(t \in Wanting') - One(t \in Wanting)
<1>1. /\ Wanting \in SUBSET Threads /\ Wanting' \in SUBSET Threads
      /\ \A u \in Threads : u # t => (u \in Wanting' <=> u \in Wanting)
  BY DEF Wanting, Only
<1> QED
  BY <1>1, Bounds, CardOne DEF One

LEMMA CardWoken ==
    ASSUME NEW t \in Threads, Only(t)
    PROVE  Cardinality(WokenReaders') = Cardinality(WokenReaders)
               + One(Woken(t, "wait_read")') - One(Woken(t, "wait_read"))
<1>1. /\ WokenReaders \in SUBSET Threads /\ WokenReaders' \in SUBSET Threads
      /\ \A u \in Threads : u # t => (u \in WokenReaders' <=> u \in WokenReaders)
      /\ t \in WokenReaders' <=> Woken(t, "wait_read")'
      /\ t \in WokenReaders <=> Woken(t, "wait_read")
  BY DEF WokenReaders, Woken, Only
<1> QED
  BY <1>1, Bounds, CardOne DEF One

\* One read lock more or less.
LEMMA CardReads ==
    ASSUME reads \in [Threads -> Nat], reads' \in [Threads -> Nat], NEW t \in Threads, Only(t),
           reads[t] <= MaxNesting, reads'[t] <= MaxNesting,
           reads'[t] \in {reads[t] - 1, reads[t], reads[t] + 1}
    PROVE  Cardinality(OwnedReads') = Cardinality(OwnedReads) + reads'[t] - reads[t]
<1> DEFINE U == Threads \X (1 .. MaxNesting)
           top == IF reads'[t] > reads[t] THEN reads'[t] ELSE reads[t]
           x == <<t, top>>
<1>1. reads[t] \in Nat /\ reads'[t] \in Nat /\ MaxNesting \in Nat
  BY Bounds
<1>2. CASE reads'[t] = reads[t]
  <2>1. OwnedReads' = OwnedReads
    BY <1>2 DEF OwnedReads, Only
  <2> QED
    BY <1>1, <1>2, <2>1, CardTypes
<1>3. CASE reads'[t] # reads[t]
  <2>1. x \in U /\ top \in 1 .. MaxNesting
    BY <1>1, <1>3
  <2>2. IsFiniteSet(U)
    <3>1. IsFiniteSet(1 .. MaxNesting)
      BY Bounds, FS_Interval
    <3> QED
      BY <3>1, Bounds, FS_Product
  <2>3. OwnedReads \in SUBSET U /\ OwnedReads' \in SUBSET U
    BY DEF OwnedReads
  <2>4. ASSUME NEW r \in U, r # x PROVE r \in OwnedReads' <=> r \in OwnedReads
    <3>1. r[1] \in Threads /\ r[2] \in 1 .. MaxNesting /\ r = <<r[1], r[2]>>
      OBVIOUS
    <3>2. CASE r[1] # t
      BY <3>1, <3>2 DEF OwnedReads, Only
    <3>3. CASE r[1] = t
      <4>1. r[2] # top
        BY <2>4, <3>1, <3>3
      <4>2. r[2] <= reads'[t] <=> r[2] <= reads[t]
        BY <1>1, <1>3, <3>1, <4>1
      <4> QED
        BY <3>3, <4>2 DEF OwnedReads
    <3> QED
      BY <3>2, <3>3
  <2>5. (x \in OwnedReads' <=> reads'[t] > reads[t]) /\ (x \in OwnedReads <=> reads'[t] < reads[t])
    <3>1. x[1] = t /\ x[2] = top
      OBVIOUS
    <3>2. (x \in OwnedReads' <=> top <= reads'[t]) /\ (x \in OwnedReads <=> top <= reads[t])
      BY <2>1, <3>1 DEF OwnedReads
    <3> QED
      BY <1>1, <1>3, <3>2
  <2> HIDE DEF U, x, top
  <2>6. Cardinality(OwnedReads') = Cardinality(OwnedReads)
            + (IF x \in OwnedReads' THEN 1 ELSE 0) - (IF x \in OwnedReads THEN 1 ELSE 0)
    BY <2>1, <2>2, <2>3, <2>4, CardOne
  <2> QED
    BY <1>1, <1>3, <2>5, <2>6, CardTypes
<1> QED
  BY <1>2, <1>3

\* Who owns no read lock adds nothing.
LEMMA NoReads ==
    ASSUME reads \in [Threads -> Nat]
    PROVE  OwnedReads = {} => \A t \in Threads : reads[t] <= MaxNesting => reads[t] = 0
<1> SUFFICES ASSUME OwnedReads = {}, NEW t \in Threads, reads[t] <= MaxNesting, reads[t] # 0
             PROVE  FALSE
  OBVIOUS
<1>1. <<t, 1>> \in Threads \X (1 .. MaxNesting)
  BY Bounds
<1>2. <<t, 1>> \in OwnedReads
  BY <1>1 DEF OwnedReads
<1> QED
  BY <1>2

\* The read locks of a single owner.
LEMMA ReadsOfOne ==
    ASSUME reads \in [Threads -> Nat], NEW t \in Threads, reads[t] <= MaxNesting,
           \A u \in Threads : u # t => reads[u] = 0
    PROVE  Cardinality(OwnedReads) = reads[t]
<1>1. OwnedReads = {t} \X (1 .. reads[t])
  <2>1. ASSUME NEW r \in OwnedReads PROVE r \in {t} \X (1 .. reads[t])
    <3>1. /\ r[1] \in Threads /\ r[2] \in 1 .. MaxNesting /\ r = <<r[1], r[2]>>
          /\ r[2] <= reads[r[1]]
      BY DEF OwnedReads
    <3>2. r[1] = t
      BY <3>1, Bounds
    <3>3. r[2] \in 1 .. reads[t]
      BY <3>1, <3>2, Bounds
    <3> QED
      BY <3>1, <3>2, <3>3
  <2>2. ASSUME NEW r \in {t} \X (1 .. reads[t]) PROVE r \in OwnedReads
    <3>1. r[1] = t /\ r[2] \in 1 .. reads[t] /\ r = <<r[1], r[2]>>
      OBVIOUS
    <3>2. r[2] \in 1 .. MaxNesting /\ r[2] <= reads[t]
      BY <3>1, Bounds
    <3>3. r \in Threads \X (1 .. MaxNesting)
      BY <3>1, <3>2
    <3> QED
      BY <3>1, <3>2, <3>3 DEF OwnedReads
  <2> QED
    BY <2>1, <2>2
<1>2. IsFiniteSet(1 .. reads[t]) /\ Cardinality(1 .. reads[t]) = reads[t]
  <2>1. reads[t] \in Nat
    OBVIOUS
  <2> QED
    BY <2>1, CardInterval
<1>3. Cardinality({t} \X (1 .. reads[t])) = Cardinality(1 .. reads[t])
  BY <1>2, CardRow
<1> QED
  BY <1>1, <1>2, <1>3

-----------------------------------------------------------------------------
(***************************************************************************)
(* What the count tells.                                                   *)
(***************************************************************************)

\* The threads that write are the holder, those that want to are in the queue.
LEMMA WantingParts ==
    ASSUME TypeOK, LiveInv
    PROVE  /\ holder = NoThread => Wanting = QueuedWriters
           /\ holder # NoThread => holder \in Threads /\ holder \in Wanting
           /\ \A t \in Threads : t \in Wanting <=> t = holder \/ t \in QueuedWriters
           /\ \A t \in QueuedWriters : t # holder
<1>1. \A t \in Threads : t \in QueuedWriters <=> pc[t] = "wait_write" /\ wait_status[t] = "waiting"
  BY DEF QueuedWriters, LiveInv, QueueInv, IsWriter, Waits
<1>2. \A t \in Threads : pc[t] = "wait_write" => wait_status[t] \in {"waiting", "B_OK"}
  BY DEF LiveInv, QueueInv, Waits
<1>3. \A t \in Threads : t = holder <=> writes[t] > 0 \/ Woken(t, "wait_write")
  BY DEF LiveInv, HolderInv
<1>4. \A t \in Threads : pc[t] = "wait_write" => writes[t] = 0
  BY DEF LiveInv, OwnedInv, OwnedOf, Waits
<1>5. \A t \in Threads : t \in Wanting <=> t = holder \/ t \in QueuedWriters
  BY <1>1, <1>2, <1>3 DEF Wanting, Woken
<1>6. \A t \in QueuedWriters : t # holder
  <2>1. \A t \in QueuedWriters : t \in Threads
    BY DEF QueuedWriters
  <2>2. \A t \in Threads : writes[t] \in Nat
    BY DEF TypeOK
  <2> QED
    BY <1>1, <1>3, <1>4, <2>1, <2>2 DEF Woken
<1>7. holder = NoThread => Wanting = QueuedWriters
  BY <1>5, Bounds DEF Wanting, QueuedWriters
<1> QED
  BY <1>5, <1>6, <1>7 DEF TypeOK

\* The readers alone never reach Base.
LEMMA ShareBound ==
    ASSUME TypeOK, OwnedInv, HolderInv
    PROVE  ReaderShare \in Nat /\ ReaderShare < Base
<1>1. /\ reads \in [Threads -> Nat] /\ writes \in [Threads -> Nat]
      /\ holder \in Threads \cup {NoThread}
  BY DEF TypeOK
<1> DEFINE A == At("read_lock")
           C == At("wait_read")
<1>2. A \in SUBSET Threads /\ C \in SUBSET Threads /\ A \cap C = {}
  BY DEF At
<1>3. /\ Cardinality(A) \in Nat /\ Cardinality(C) \in Nat /\ Cardinality(OwnedReads) \in Nat
      /\ IsFiniteSet(A) /\ IsFiniteSet(C)
  BY <1>2, CardTypes
<1>4. ReaderShare \in Nat
  BY <1>3 DEF ReaderShare
<1>5. CASE Threads = {}
  <2>1. OwnedReads = {} /\ A = {} /\ C = {}
    BY <1>2, <1>5 DEF OwnedReads
  <2>2. Cardinality(OwnedReads) = 0 /\ Cardinality(A) = 0 /\ Cardinality(C) = 0
    BY <2>1, FS_EmptySet
  <2> QED
    BY <1>4, <2>2, Bounds DEF ReaderShare
<1>6. CASE Threads # {}
  <2>1. PICK s \in Threads :
           \A t \in Threads : t # s =>
               /\ reads[t] <= 1
               /\ t \in A \cup C => reads[t] = 0
    <3>1. \A t \in Threads : t \in A \cup C /\ reads[t] > 0 => t = holder
      BY <1>1 DEF At, OwnedInv, OwnedOf, HolderInv, Waits
    <3>2. CASE holder # NoThread
      <4>1. holder \in Threads
        BY <1>1, <3>2
      <4>2. \A t \in Threads : t # holder => reads[t] = 0
        BY <3>2 DEF HolderInv
      <4> QED
        BY <4>1, <4>2
    <3>3. CASE holder = NoThread
      <4>1. \A t \in Threads : t \in A \cup C => reads[t] = 0
        BY <1>1, <3>1, <3>3, Bounds
      <4>2. CASE \E s \in Threads : reads[s] > 1
        <5>1. PICK s \in Threads : reads[s] > 1
          BY <4>2
        <5>2. \A t \in Threads : t # s => ~(reads[t] > 1)
          BY <5>1 DEF OwnedInv
        <5>3. \A t \in Threads : t # s => reads[t] <= 1
          BY <1>1, <5>2
        <5> QED
          BY <4>1, <5>3
      <4>3. CASE \A s \in Threads : ~(reads[s] > 1)
        BY <1>1, <1>6, <4>1, <4>3
      <4> QED
        BY <4>2, <4>3
    <3> QED
      BY <3>2, <3>3
  <2> DEFINE B == {t \in Threads : reads[t] > 0 /\ t # s}
             X == B \X {1}
             Y == {s} \X (1 .. MaxNesting)
  <2>2. B \in SUBSET Threads /\ B \cap (A \cup C) = {}
    BY <1>1, <2>1
  <2>3. IsFiniteSet(B) /\ Cardinality(B) \in Nat
    BY <2>2, CardTypes
  <2>4. IsFiniteSet(X) /\ Cardinality(X) = Cardinality(B)
    BY <2>3, CardRow
  <2>5. IsFiniteSet(Y) /\ Cardinality(Y) = MaxNesting
    <3>1. IsFiniteSet(1 .. MaxNesting) /\ Cardinality(1 .. MaxNesting) = MaxNesting
      BY Bounds, CardInterval
    <3> QED
      BY <3>1, CardRow
  <2>6. OwnedReads \subseteq X \cup Y
    <3> SUFFICES ASSUME NEW r \in OwnedReads PROVE r \in X \cup Y
      OBVIOUS
    <3>1. /\ r[1] \in Threads /\ r[2] \in 1 .. MaxNesting /\ r = <<r[1], r[2]>>
          /\ r[2] <= reads[r[1]]
      BY DEF OwnedReads
    <3>2. CASE r[1] = s
      BY <3>1, <3>2
    <3>3. CASE r[1] # s
      <4>1. reads[r[1]] <= 1 /\ reads[r[1]] \in Nat
        BY <1>1, <2>1, <3>1, <3>3
      <4>2. r[2] = 1 /\ reads[r[1]] > 0
        BY <3>1, <4>1, Bounds
      <4> QED
        BY <3>1, <3>3, <4>2
    <3> QED
      BY <3>2, <3>3
  <2> HIDE DEF X, Y
  <2>7. Cardinality(OwnedReads) <= Cardinality(B) + MaxNesting
    <3>1. /\ IsFiniteSet(X \cup Y)
          /\ Cardinality(X \cup Y) = Cardinality(X) + Cardinality(Y) - Cardinality(X \cap Y)
      BY <2>4, <2>5, FS_Union
    <3>2. Cardinality(X \cap Y) \in Nat
      <4>1. IsFiniteSet(X \cap Y)
        BY <2>4, FS_Intersection
      <4> QED
        BY <4>1, FS_CardinalityType
    <3>3. Cardinality(OwnedReads) <= Cardinality(X \cup Y)
      BY <2>6, <3>1, FS_Subset
    <3> QED
      BY <1>3, <2>3, <2>4, <2>5, <3>1, <3>2, <3>3, Bounds
  <2>8. Cardinality(A) + Cardinality(C) + Cardinality(B) <= Cardinality(Threads)
    <3>1. Cardinality(A \cup C) = Cardinality(A) + Cardinality(C) /\ IsFiniteSet(A \cup C)
      BY <1>2, <1>3, CardDisjoint
    <3>2. Cardinality((A \cup C) \cup B) = Cardinality(A \cup C) + Cardinality(B)
      <4> DEFINE AC == A \cup C
      <4>1. AC \cap B = {} /\ IsFiniteSet(AC)
        BY <2>2, <3>1
      <4> HIDE DEF AC, A, C, B
      <4>2. Cardinality(AC \cup B) = Cardinality(AC) + Cardinality(B)
        BY <2>3, <4>1, CardDisjoint
      <4> QED
        BY <4>2 DEF AC
    <3>3. (A \cup C) \cup B \in SUBSET Threads
      BY <1>2, <2>2
    <3>4. Cardinality((A \cup C) \cup B) <= Cardinality(Threads)
      BY <3>3, Bounds, FS_Subset
    <3> QED
      BY <1>3, <2>3, <3>1, <3>2, <3>4, Bounds
  <2> QED
    BY <1>3, <1>4, <2>3, <2>7, <2>8, Bounds DEF ReaderShare
<1> QED
  BY <1>4, <1>5, <1>6

\* Base is reached just when there is a writer.
LEMMA CountFacts ==
    ASSUME TypeOK, LiveInv
    PROVE  /\ Cardinality(Wanting) \in Nat /\ ReaderShare \in Nat /\ ReaderShare < Base
           /\ count = Base * Cardinality(Wanting) + ReaderShare
           /\ count >= Base <=> Wanting # {}
           /\ Wanting = {} => count = ReaderShare
           /\ \A k \in Nat : Cardinality(Wanting) = k + 1 =>
                 count - Base = Base * k + ReaderShare /\ Base * k \in Nat
<1>1. Wanting \in SUBSET Threads
  BY DEF Wanting
<1>2. Cardinality(Wanting) \in Nat /\ (Cardinality(Wanting) = 0 <=> Wanting = {})
  BY <1>1, CardTypes
<1>3. ReaderShare \in Nat /\ ReaderShare < Base /\ Base \in Nat
  BY ShareBound, Bounds DEF LiveInv
<1>4. count = Base * Cardinality(Wanting) + ReaderShare
  BY DEF LiveInv, CountInv
<1>5. /\ Base * Cardinality(Wanting) \in Nat /\ Base * 0 = 0
      /\ Cardinality(Wanting) > 0 => Base * Cardinality(Wanting) >= Base
  BY <1>2, <1>3, Multiple
<1>6. count >= Base <=> Wanting # {}
  BY <1>2, <1>3, <1>4, <1>5
<1>7. ASSUME NEW k \in Nat, Cardinality(Wanting) = k + 1
      PROVE  count - Base = Base * k + ReaderShare /\ Base * k \in Nat
  <2>1. Base * (k + 1) = Base * k + Base /\ Base * k \in Nat
    BY <1>3, Multiple
  <2> QED
    BY <1>3, <1>4, <1>7, <2>1
<1> QED
  BY <1>2, <1>3, <1>4, <1>5, <1>6, <1>7

\* What a step of one thread does to the sums.
LEMMA Sums ==
    ASSUME TypeOK, reads' \in [Threads -> Nat], NEW t \in Threads, Only(t),
           reads[t] <= MaxNesting, reads'[t] <= MaxNesting,
           reads'[t] \in {reads[t] - 1, reads[t], reads[t] + 1}
    PROVE  /\ ReaderShare' = ReaderShare + (reads'[t] - reads[t])
                 + (One(pc'[t] = "read_lock") - One(pc[t] = "read_lock"))
                 + (One(pc'[t] = "wait_read") - One(pc[t] = "wait_read"))
           /\ ReadLocks' = ReadLocks + (reads'[t] - reads[t])
                 + (One(Woken(t, "wait_read")') - One(Woken(t, "wait_read")))
           /\ ReadLocks \in Nat /\ ReadLocks' \in Nat
<1>1. reads \in [Threads -> Nat]
  BY DEF TypeOK
<1>2. Cardinality(OwnedReads') = Cardinality(OwnedReads) + reads'[t] - reads[t]
  BY <1>1, CardReads
<1>3. /\ Cardinality(At("read_lock")') = Cardinality(At("read_lock"))
             + One(pc'[t] = "read_lock") - One(pc[t] = "read_lock")
      /\ Cardinality(At("wait_read")') = Cardinality(At("wait_read"))
             + One(pc'[t] = "wait_read") - One(pc[t] = "wait_read")
  BY CardAt
<1>4. Cardinality(WokenReaders') = Cardinality(WokenReaders)
          + One(Woken(t, "wait_read")') - One(Woken(t, "wait_read"))
  BY CardWoken
<1>5. /\ Cardinality(OwnedReads) \in Nat /\ Cardinality(At("read_lock")) \in Nat
      /\ Cardinality(At("wait_read")) \in Nat /\ Cardinality(WokenReaders) \in Nat
      /\ Cardinality(WokenReaders') \in Nat /\ Cardinality(OwnedReads') \in Nat
  <2>1. /\ At("read_lock") \in SUBSET Threads /\ At("wait_read") \in SUBSET Threads
        /\ WokenReaders \in SUBSET Threads /\ WokenReaders' \in SUBSET Threads
    BY DEF At, WokenReaders
  <2>2. Cardinality(OwnedReads') \in Nat
    <3>1. OwnedReads' \in SUBSET (Threads \X (1 .. MaxNesting))
      BY DEF OwnedReads
    <3> QED
      BY <3>1, CardPairs
  <2> QED
    BY <2>1, <2>2, CardTypes
<1>6. \A b \in BOOLEAN : One(b) \in {0, 1}
  BY DEF One
<1>7. /\ One(pc'[t] = "read_lock") \in {0, 1} /\ One(pc[t] = "read_lock") \in {0, 1}
      /\ One(pc'[t] = "wait_read") \in {0, 1} /\ One(pc[t] = "wait_read") \in {0, 1}
      /\ One(Woken(t, "wait_read")') \in {0, 1} /\ One(Woken(t, "wait_read")) \in {0, 1}
  BY DEF One
<1>8. ReadLocks = Cardinality(OwnedReads) + Cardinality(WokenReaders)
      /\ ReadLocks' = Cardinality(OwnedReads') + Cardinality(WokenReaders')
  BY DEF ReadLocks, WokenReaders
<1>9. /\ reads[t] \in Nat /\ reads'[t] \in Nat
  BY <1>1
<1> QED
  BY <1>2, <1>3, <1>4, <1>5, <1>7, <1>8, <1>9 DEF ReaderShare

-----------------------------------------------------------------------------
(***************************************************************************)
(* Frames.                                                                 *)
(***************************************************************************)

\* The queue is left alone.
LEMMA QueueFrame ==
    ASSUME TypeOK, QueueInv, NEW t \in Threads, Only(t), waiters' = waiters,
           ~InQueue(waiters, t), pc'[t] \notin Waits
    PROVE  /\ QueueInv'
           /\ QueuedWriters' = QueuedWriters
           /\ QueuedReaders' = QueuedReaders
           /\ waiters # <<>> => (IsWriter(Head(waiters))' <=> IsWriter(Head(waiters)))
<1>1. \A u \in Threads : InQueue(waiters, u) => u # t /\ pc'[u] = pc[u]
  BY DEF Only
<1>2. QueueInv'
  BY DEF QueueInv, Only
<1>3. QueuedWriters' = QueuedWriters /\ QueuedReaders' = QueuedReaders
  BY <1>1 DEF QueuedWriters, QueuedReaders, IsWriter
<1>4. ASSUME waiters # <<>> PROVE IsWriter(Head(waiters))' <=> IsWriter(Head(waiters))
  <2>1. waiters \in Seq(Threads)
    BY DEF TypeOK
  <2> PICK h \in Threads : h = Head(waiters)
    BY <1>4, <2>1
  <2>2. InQueue(waiters, h)
    BY <1>4, <2>1, TailFacts DEF QueueInv
  <2> QED
    BY <1>1, <2>2 DEF IsWriter
<1> QED
  BY <1>2, <1>3, <1>4

\* A thread enters the queue.
LEMMA QueueAdd ==
    ASSUME TypeOK, QueueInv, NEW t \in Threads, Only(t), waiters' = Append(waiters, t),
           pc[t] \notin Waits, pc'[t] \in Waits, wait_status'[t] = "waiting"
    PROVE  /\ QueueInv'
           /\ QueuedWriters' = QueuedWriters \cup (IF pc'[t] = "wait_write" THEN {t} ELSE {})
           /\ waiters' # <<>>
           /\ waiters # <<>> => (IsWriter(Head(waiters))' <=> IsWriter(Head(waiters)))
           /\ waiters = <<>> => (IsWriter(Head(waiters))' <=> pc'[t] = "wait_write")
<1>1. waiters \in Seq(Threads) /\ ~InQueue(waiters, t)
  BY DEF TypeOK, QueueInv
<1>2. /\ \A u : InQueue(waiters', u) <=> u = t \/ InQueue(waiters, u)
      /\ Distinct(waiters')
  BY <1>1, AppendFacts DEF QueueInv
<1>3. QueueInv'
  <2>1. ASSUME NEW u \in Threads
        PROVE  /\ InQueue(waiters', u) <=> pc'[u] \in Waits /\ wait_status'[u] = "waiting"
               /\ pc'[u] \in Waits => wait_status'[u] \in {"waiting", "B_OK"}
    BY <1>2 DEF QueueInv, Only
  <2> QED
    BY <1>2, <2>1 DEF QueueInv
<1>4. QueuedWriters' = QueuedWriters \cup (IF pc'[t] = "wait_write" THEN {t} ELSE {})
  <2>1. \A u \in Threads : u # t => (InQueue(waiters', u) <=> InQueue(waiters, u)) /\ pc'[u] = pc[u]
    BY <1>2 DEF Only
  <2>2. InQueue(waiters', t)
    BY <1>2
  <2> QED
    BY <1>1, <2>1, <2>2 DEF QueuedWriters, IsWriter
<1>5. waiters' # <<>> /\ Head(waiters') = (IF waiters = <<>> THEN t ELSE Head(waiters))
  BY <1>1
<1>6. ASSUME waiters # <<>> PROVE IsWriter(Head(waiters))' <=> IsWriter(Head(waiters))
  <2> PICK h \in Threads : h = Head(waiters)
    BY <1>1, <1>6
  <2>1. InQueue(waiters, h)
    BY <1>1, <1>6, TailFacts DEF QueueInv
  <2>2. h # t /\ Head(waiters') = h
    BY <1>1, <1>5, <1>6, <2>1
  <2> QED
    BY <2>2 DEF IsWriter, Only
<1>7. ASSUME waiters = <<>> PROVE IsWriter(Head(waiters))' <=> pc'[t] = "wait_write"
  BY <1>5, <1>7 DEF IsWriter
<1> QED
  BY <1>3, <1>4, <1>5, <1>6, <1>7

\* What the others own.
LEMMA OwnedFrame ==
    ASSUME TypeOK, OwnedInv, NEW t \in Threads, Only(t), OwnedOf(t)',
           reads'[t] <= 1 \/ reads'[t] <= reads[t] \/ \A u \in Threads : u # t => reads[u] = 0,
           reads'[t] \in Nat
    PROVE  OwnedInv'
<1>1. ASSUME NEW u \in Threads, u # t PROVE OwnedOf(u)'
  BY <1>1 DEF OwnedInv, OwnedOf, Only
<1>2. reads \in [Threads -> Nat]
  BY DEF TypeOK
<1>3. reads'[t] > 1 => \A u \in Threads : u # t => ~(reads[u] > 1)
  <2>1. CASE reads'[t] <= 1
    BY <2>1
  <2>2. CASE reads'[t] <= reads[t]
    <3>1. reads'[t] > 1 => reads[t] > 1
      BY <1>2, <2>2
    <3> QED
      BY <3>1 DEF OwnedInv
  <2>3. CASE \A u \in Threads : u # t => reads[u] = 0
    BY <1>2, <2>3
  <2> QED
    BY <2>1, <2>2, <2>3
<1>4. ASSUME NEW u \in Threads, NEW v \in Threads, reads'[u] > 1, reads'[v] > 1 PROVE u = v
  BY <1>3, <1>4 DEF OwnedInv, Only
<1> QED
  BY <1>1, <1>4 DEF OwnedInv

\* The holder is left alone, or takes a step itself.
LEMMA HolderFrame ==
    ASSUME TypeOK, HolderInv, NEW t \in Threads, Only(t), holder' = holder,
           t = holder <=> writes'[t] > 0 \/ Woken(t, "wait_write")',
           holder \notin {NoThread, t} =>
               reads'[t] = 0 /\ pc'[t] # "read_unlock" /\ ~Woken(t, "wait_read")',
           holder = t => owner_count' = Base * writes'[t] + reads'[t]
                                           + (IF pc'[t] = "read_unlock" THEN 1 ELSE 0),
           holder # t => owner_count' = owner_count,
           holder # NoThread => UNCHANGED <<active_readers, pending_readers>>
    PROVE  HolderInv'
<1>1. \A u \in Threads : u = holder' <=> writes'[u] > 0 \/ Woken(u, "wait_write")'
  BY DEF HolderInv, Woken, Only
<1>2. ASSUME holder' # NoThread
      PROVE  /\ active_readers' = 0 /\ pending_readers' = 0
             /\ owner_count' = Base * writes'[holder'] + reads'[holder']
                                 + (IF pc'[holder'] = "read_unlock" THEN 1 ELSE 0)
             /\ \A u \in Threads : u # holder' =>
                   reads'[u] = 0 /\ pc'[u] # "read_unlock" /\ ~Woken(u, "wait_read")'
  <2> PICK h \in Threads : h = holder
    BY <1>2 DEF TypeOK
  <2>1. owner_count' = Base * writes'[h] + reads'[h] + (IF pc'[h] = "read_unlock" THEN 1 ELSE 0)
    BY <1>2 DEF HolderInv, Only
  <2>2. ASSUME NEW u \in Threads, u # h
        PROVE  reads'[u] = 0 /\ pc'[u] # "read_unlock" /\ ~Woken(u, "wait_read")'
    BY <1>2, <2>2 DEF HolderInv, Only, Woken
  <2>3. active_readers' = 0 /\ pending_readers' = 0
    BY <1>2 DEF HolderInv
  <2> QED
    BY <2>1, <2>2, <2>3
<1>3. holder' = NoThread => owner_count' = 0
  BY Bounds DEF HolderInv
<1> QED
  BY <1>1, <1>2, <1>3 DEF HolderInv

LEMMA AtFacts ==
    ASSUME NEW p
    PROVE  /\ Cardinality(At(p)) \in Nat /\ IsFiniteSet(At(p))
           /\ Cardinality(At(p)) = 0 <=> At(p) = {}
<1>1. At(p) \in SUBSET Threads
  BY DEF At
<1> QED
  BY <1>1, CardTypes

LEMMA ReadLocksType == ReadLocks \in Nat
<1>1. WokenReaders \in SUBSET Threads
  BY DEF WokenReaders
<1>2. Cardinality(WokenReaders) \in Nat /\ Cardinality(OwnedReads) \in Nat
  BY <1>1, CardTypes
<1> QED
  BY <1>2 DEF ReadLocks, WokenReaders

LEMMA QueuedIsThere == (QueuedWriters # {} => waiters # <<>>) /\ (QueuedReaders # {} => waiters # <<>>)
  BY DEF QueuedWriters, QueuedReaders, InQueue

-----------------------------------------------------------------------------
(***************************************************************************)
(* The readers.                                                            *)
(***************************************************************************)

\* The atomic_add() of rw_lock_read_lock().
LEMMA ReadLockStep ==
    ASSUME TypeOK, LiveInv, NEW t \in Threads, rw_lock_read_lock(t)
    PROVE  TypeOK' /\ LiveInv'
<1>1. /\ pc[t] = "running" /\ reads[t] + writes[t] < MaxNesting /\ (reads[t] > 0 => writes[t] > 0)
      /\ count' = count + 1
      /\ UNCHANGED <<holder, owner_count, active_readers, pending_readers, waiters, destroyed,
                     wait_status, writes>>
  BY DEF rw_lock_read_lock, MayLock
<1>2. /\ reads \in [Threads -> Nat] /\ writes \in [Threads -> Nat] /\ pc \in [Threads -> PC]
      /\ count \in Nat /\ waiters \in Seq(Threads) /\ active_readers \in Nat
      /\ pending_readers \in Nat
  BY DEF TypeOK
<1>3. /\ Cardinality(Wanting) \in Nat /\ ReaderShare \in Nat
      /\ count >= Base <=> Wanting # {}
      /\ count = Base * Cardinality(Wanting) + ReaderShare
  BY CountFacts
<1>4. ~InQueue(waiters, t)
  BY <1>1 DEF LiveInv, QueueInv, Waits
<1>5. CASE count < Base
  <2>1. reads' = [reads EXCEPT ![t] = @ + 1] /\ pc' = pc
    BY <1>1, <1>2, <1>5, Bounds DEF rw_lock_read_lock, OwnsReadLock
  <2>2. Wanting = {} /\ holder = NoThread /\ writes[t] = 0 /\ reads[t] = 0
    <3>1. Wanting = {}
      BY <1>2, <1>3, <1>5, Bounds
    <3>2. writes[t] = 0
      BY <1>2, <3>1 DEF Wanting
    <3> QED
      BY <1>1, <1>2, <3>1, <3>2, WantingParts
  <2>3. /\ Only(t) /\ reads' \in [Threads -> Nat] /\ reads'[t] = 1 /\ pc'[t] = "running"
        /\ wait_status'[t] = wait_status[t] /\ writes'[t] = 0
    BY <1>1, <1>2, <2>1, <2>2 DEF Only
  <2>4. TypeOK'
    <3>1. reads' \in [Threads -> Nat] /\ count' \in Nat
      BY <1>1, <1>2, <2>3
    <3> QED
      BY <1>1, <2>1, <3>1 DEF TypeOK
  <2>5. QueueInv' /\ QueuedWriters' = QueuedWriters
    BY <1>1, <1>4, <2>3, QueueFrame DEF LiveInv, Waits
  <2>6. OwnedInv'
    <3>1. OwnedOf(t)'
      BY <1>2, <2>3, Bounds DEF OwnedOf, Waits
    <3> QED
      BY <2>3, <3>1, OwnedFrame DEF LiveInv
  <2>7. Wanting' = {}
    BY <1>1, <2>1, <2>2 DEF Wanting
  <2>8. HolderInv'
    BY <1>1, <2>1, <2>2, Bounds DEF LiveInv, HolderInv, Woken
  <2>9. ReaderShare' = ReaderShare + 1
    <3>1. reads[t] <= MaxNesting /\ reads'[t] <= MaxNesting /\ reads'[t] = reads[t] + 1
      BY <2>2, <2>3, Bounds
    <3>2. ReaderShare' = ReaderShare + (reads'[t] - reads[t])
                 + (One(pc'[t] = "read_lock") - One(pc[t] = "read_lock"))
                 + (One(pc'[t] = "wait_read") - One(pc[t] = "wait_read"))
      BY <2>3, <3>1, Sums
    <3> QED
      BY <1>1, <1>3, <2>2, <2>3, <3>2 DEF One
  <2>10. CountInv'
    BY <1>1, <1>3, <2>2, <2>7, <2>9, FS_EmptySet, Bounds DEF CountInv
  <2>11. WaitInv'
    BY <2>2, <2>5, WantingParts DEF WaitInv
  <2>12. ReadInv'
    <3>1. At("read_lock")' = At("read_lock") /\ At("read_unlock")' = At("read_unlock")
      BY <2>1 DEF At
    <3> QED
      BY <1>1, <2>2, <3>1 DEF LiveInv, ReadInv
  <2> QED
    BY <2>4, <2>5, <2>6, <2>8, <2>10, <2>11, <2>12 DEF LiveInv
<1>6. CASE count >= Base
  <2>1. reads' = reads /\ pc' = [pc EXCEPT ![t] = "read_lock"]
    BY <1>2, <1>6, Bounds DEF rw_lock_read_lock
  <2>2. Wanting # {}
    BY <1>3, <1>6
  <2>3. /\ Only(t) /\ reads' \in [Threads -> Nat] /\ pc'[t] = "read_lock"
        /\ wait_status'[t] = wait_status[t]
    BY <1>1, <1>2, <2>1 DEF Only
  <2>4. TypeOK'
    BY <1>1, <1>2, <2>1 DEF TypeOK, PC
  <2>5. /\ QueueInv' /\ QueuedWriters' = QueuedWriters
        /\ waiters # <<>> => (IsWriter(Head(waiters))' <=> IsWriter(Head(waiters)))
    BY <1>1, <1>4, <2>3, QueueFrame DEF LiveInv, Waits
  <2>6. OwnedInv'
    <3>1. OwnedOf(t)'
      BY <1>1, <1>2, <2>1, <2>3, Bounds DEF OwnedOf, Waits
    <3>2. reads'[t] <= reads[t] /\ reads'[t] \in Nat
      BY <1>2, <2>1
    <3> QED
      BY <2>3, <3>1, <3>2, OwnedFrame DEF LiveInv
  <2>7. Wanting' = Wanting
    BY <1>1, <2>3 DEF Wanting, Only
  <2>8. HolderInv'
    <3>1. \A u \in Threads : u = holder' <=> writes'[u] > 0 \/ Woken(u, "wait_write")'
      BY <1>1, <2>3 DEF LiveInv, HolderInv, Woken, Only
    <3>2. ASSUME holder' # NoThread
          PROVE  /\ owner_count' = Base * writes'[holder'] + reads'[holder']
                                     + (IF pc'[holder'] = "read_unlock" THEN 1 ELSE 0)
                 /\ \A u \in Threads : u # holder' =>
                       reads'[u] = 0 /\ pc'[u] # "read_unlock" /\ ~Woken(u, "wait_read")'
      <4>1. holder \in Threads
        BY <1>1, <3>2 DEF TypeOK
      <4>2. pc'[holder] = "read_unlock" <=> pc[holder] = "read_unlock"
        BY <1>1, <2>3, <4>1 DEF Only
      <4> QED
        BY <1>1, <2>1, <2>3, <3>2, <4>2 DEF LiveInv, HolderInv, Woken, Only
    <3> QED
      BY <1>1, <3>1, <3>2 DEF LiveInv, HolderInv
  <2>9. /\ ReaderShare' = ReaderShare + 1 /\ ReadLocks' = ReadLocks /\ ReadLocks \in Nat
    <3>1. Woken(t, "wait_read")' <=> Woken(t, "wait_read")
      BY <1>1, <2>3 DEF Woken
    <3>2. reads[t] <= MaxNesting /\ reads'[t] = reads[t]
      BY <1>1, <1>2, <2>1, Bounds
    <3>3. /\ ReaderShare' = ReaderShare + (reads'[t] - reads[t])
                 + (One(pc'[t] = "read_lock") - One(pc[t] = "read_lock"))
                 + (One(pc'[t] = "wait_read") - One(pc[t] = "wait_read"))
          /\ ReadLocks' = ReadLocks + (reads'[t] - reads[t])
                 + (One(Woken(t, "wait_read")') - One(Woken(t, "wait_read")))
          /\ ReadLocks \in Nat
      BY <2>3, <3>2, Sums
    <3> QED
      BY <1>1, <1>2, <1>3, <2>3, <3>1, <3>2, <3>3 DEF One
  <2>10. CountInv'
    <3>1. Base * Cardinality(Wanting) \in Nat
      BY <1>3, Bounds, Multiple
    <3> QED
      BY <1>1, <1>3, <2>7, <2>9, <3>1 DEF CountInv
  <2>11. WaitInv'
    <3>1. /\ Cardinality(At("read_lock")') = Cardinality(At("read_lock")) + 1
          /\ Cardinality(At("read_unlock")') = Cardinality(At("read_unlock"))
          /\ Cardinality(At("read_lock")) \in Nat /\ Cardinality(At("read_unlock")) \in Nat
      <4>1. At("read_lock") \in SUBSET Threads /\ At("read_unlock") \in SUBSET Threads
        BY DEF At
      <4>2. Cardinality(At("read_lock")) \in Nat /\ Cardinality(At("read_unlock")) \in Nat
        BY <4>1, CardTypes
      <4> QED
        BY <1>1, <2>3, <4>2, CardAt DEF One
    <3>2. QueuedWriters # {} => waiters # <<>>
      BY DEF QueuedWriters, InQueue
    <3> QED
      BY <1>1, <1>2, <2>5, <2>9, <3>1, <3>2 DEF LiveInv, WaitInv
  <2>12. ReadInv'
    BY <2>2, <2>7 DEF ReadInv
  <2> QED
    BY <2>4, <2>5, <2>6, <2>8, <2>10, <2>11, <2>12 DEF LiveInv
<1> QED
  BY <1>2, <1>5, <1>6, Bounds

\* _rw_lock_read_lock() up to the wait.
LEMMA ReadLockSlowStep ==
    ASSUME TypeOK, LiveInv, NEW t \in Threads, read_lock_slow(t)
    PROVE  TypeOK' /\ LiveInv'
<1>1. pc[t] = "read_lock" /\ UNCHANGED <<count, holder, destroyed, writes>>
  BY DEF read_lock_slow
<1>2. /\ reads \in [Threads -> Nat] /\ writes \in [Threads -> Nat] /\ pc \in [Threads -> PC]
      /\ count \in Nat /\ waiters \in Seq(Threads) /\ active_readers \in Nat
      /\ pending_readers \in Nat /\ owner_count \in Nat /\ wait_status \in [Threads -> WaitStatus]
  BY DEF TypeOK
<1>3. /\ Cardinality(Wanting) \in Nat /\ ReaderShare \in Nat
      /\ count >= Base <=> Wanting # {}
      /\ count = Base * Cardinality(Wanting) + ReaderShare
  BY CountFacts
<1>4. /\ ~InQueue(waiters, t) /\ reads[t] + writes[t] < MaxNesting
      /\ reads[t] > 0 => writes[t] > 0
      /\ writes[t] > 0 <=> t = holder
  BY <1>1 DEF LiveInv, QueueInv, Waits, OwnedInv, OwnedOf, HolderInv, Woken
<1>5. /\ Cardinality(At("read_lock")) \in Nat /\ Cardinality(At("read_lock")) > 0
      /\ Cardinality(At("read_unlock")) \in Nat
  <2>1. t \in At("read_lock")
    BY <1>1 DEF At
  <2> QED
    BY <2>1, AtFacts
<1>6. ASSUME NEW q \in {"running", "wait_read"}, Only(t), pc'[t] = q
      PROVE  /\ Cardinality(At("read_lock")') = Cardinality(At("read_lock")) - 1
             /\ Cardinality(At("read_unlock")') = Cardinality(At("read_unlock"))
             /\ Wanting' = Wanting
  <2>1. /\ Cardinality(At("read_lock")') = Cardinality(At("read_lock"))
               + One(pc'[t] = "read_lock") - One(pc[t] = "read_lock")
        /\ Cardinality(At("read_unlock")') = Cardinality(At("read_unlock"))
               + One(pc'[t] = "read_unlock") - One(pc[t] = "read_unlock")
    BY <1>6, CardAt
  <2>2. Wanting' = Wanting
    BY <1>1, <1>6 DEF Wanting, Only
  <2> QED
    BY <1>1, <1>5, <1>6, <2>1, <2>2 DEF One
<1>7. ASSUME OwnsReadLock(t), waiters' = waiters, wait_status' = wait_status
      PROVE  /\ Only(t) /\ pc'[t] = "running" /\ reads'[t] = reads[t] + 1
             /\ reads' \in [Threads -> Nat] /\ pc' \in [Threads -> PC]
             /\ ReaderShare' = ReaderShare /\ ReadLocks' = ReadLocks + 1 /\ ReadLocks \in Nat
             /\ QueueInv' /\ QueuedWriters' = QueuedWriters
             /\ waiters # <<>> => (IsWriter(Head(waiters))' <=> IsWriter(Head(waiters)))
             /\ OwnedOf(t)'
             /\ CountInv'
  <2>1. /\ Only(t) /\ pc'[t] = "running" /\ reads'[t] = reads[t] + 1
        /\ reads' \in [Threads -> Nat] /\ pc' \in [Threads -> PC]
    BY <1>1, <1>2, <1>7 DEF OwnsReadLock, Only, PC
  <2>2. reads[t] <= MaxNesting /\ reads'[t] <= MaxNesting
    BY <1>2, <1>4, <2>1, Bounds
  <2>3. /\ ReaderShare' = ReaderShare + (reads'[t] - reads[t])
                 + (One(pc'[t] = "read_lock") - One(pc[t] = "read_lock"))
                 + (One(pc'[t] = "wait_read") - One(pc[t] = "wait_read"))
        /\ ReadLocks' = ReadLocks + (reads'[t] - reads[t])
                 + (One(Woken(t, "wait_read")') - One(Woken(t, "wait_read")))
        /\ ReadLocks \in Nat
    BY <2>1, <2>2, Sums
  <2>4. ~Woken(t, "wait_read") /\ ~Woken(t, "wait_read")'
    BY <1>1, <2>1 DEF Woken
  <2>5. ReaderShare' = ReaderShare /\ ReadLocks' = ReadLocks + 1 /\ ReadLocks \in Nat
    BY <1>1, <1>2, <1>3, <2>1, <2>3, <2>4 DEF One
  <2>6. /\ QueueInv' /\ QueuedWriters' = QueuedWriters
        /\ waiters # <<>> => (IsWriter(Head(waiters))' <=> IsWriter(Head(waiters)))
    BY <1>4, <1>7, <2>1, QueueFrame DEF LiveInv, Waits
  <2>7. OwnedOf(t)'
    BY <1>1, <1>2, <1>4, <2>1, Bounds DEF OwnedOf, Waits
  <2>8. CountInv'
    BY <1>1, <1>3, <1>6, <2>1, <2>5 DEF CountInv
  <2> QED
    BY <2>1, <2>5, <2>6, <2>7, <2>8
<1>8. CASE holder = t
  <2>1. /\ owner_count' = owner_count + 1 /\ OwnsReadLock(t)
        /\ UNCHANGED <<active_readers, pending_readers, waiters, wait_status>>
    BY <1>8 DEF read_lock_slow
  <2>2. TypeOK'
    BY <1>1, <1>2, <1>7, <2>1 DEF TypeOK
  <2>3. OwnedInv'
    <3>1. \A u \in Threads : u # t => reads[u] = 0
      BY <1>8, Bounds DEF LiveInv, HolderInv
    <3> QED
      BY <1>2, <1>7, <2>1, <3>1, OwnedFrame DEF LiveInv
  <2>4. HolderInv'
    <3>1. owner_count = Base * writes[t] + reads[t]
      <4>1. owner_count = Base * writes[t] + reads[t] + 0
        BY <1>1, <1>8, Bounds DEF LiveInv, HolderInv
      <4>2. Base * writes[t] \in Nat /\ reads[t] \in Nat
        BY <1>2, Bounds, Multiple
      <4> QED
        BY <4>1, <4>2
    <3>2. owner_count' = Base * writes'[t] + reads'[t] + 0
      <4>1. Base * writes[t] \in Nat /\ reads[t] \in Nat
        BY <1>2, Bounds, Multiple
      <4> QED
        BY <1>1, <1>7, <2>1, <3>1, <4>1
    <3>3. writes'[t] > 0
      BY <1>1, <1>4, <1>8
    <3> QED
      BY <1>1, <1>7, <1>8, <2>1, <3>2, <3>3, HolderFrame DEF LiveInv
  <2>5. WaitInv' /\ ReadInv'
    <3>1. t \in Wanting'
      BY <1>1, <1>4, <1>8 DEF Wanting
    <3> QED
      BY <1>1, <1>8, <3>1, Bounds DEF WaitInv, ReadInv
  <2> QED
    BY <1>7, <2>1, <2>2, <2>3, <2>4, <2>5 DEF LiveInv
<1>9. CASE holder # t /\ pending_readers > 0
  <2>1. /\ PendingReaderEnters /\ OwnsReadLock(t)
        /\ UNCHANGED <<owner_count, waiters, wait_status>>
    BY <1>2, <1>9 DEF read_lock_slow
  <2>2. holder = NoThread /\ reads[t] = 0 /\ writes[t] = 0
    BY <1>2, <1>4, <1>9 DEF LiveInv, HolderInv
  <2>3. TypeOK'
    BY <1>1, <1>2, <1>7, <1>9, <2>1 DEF TypeOK, PendingReaderEnters
  <2>4. OwnedInv'
    <3>1. reads'[t] <= 1 /\ reads'[t] \in Nat
      BY <1>7, <2>1, <2>2
    <3> QED
      BY <1>7, <2>1, <3>1, OwnedFrame DEF LiveInv
  <2>5. HolderInv'
    BY <1>1, <1>7, <2>1, <2>2, Bounds, HolderFrame DEF LiveInv, Woken
  <2>6. WaitInv'
    <3>1. SUFFICES ASSUME QueuedWriters' # {} PROVE WaitInv'
      BY DEF WaitInv
    <3>2. QueuedWriters # {} /\ Wanting # {}
      BY <1>7, <2>1, <2>2, <3>1, WantingParts
    <3>3. active_readers' = active_readers + 1 /\ pending_readers' = pending_readers - 1
      BY <1>3, <2>1, <3>2 DEF PendingReaderEnters
    <3>4. /\ active_readers = ReadLocks + Cardinality(At("read_unlock"))
          /\ pending_readers <= Cardinality(At("read_lock"))
          /\ active_readers + pending_readers > 0
          /\ IsWriter(Head(waiters))
      BY <2>2, <3>2 DEF LiveInv, WaitInv
    <3>5. IsWriter(Head(waiters))'
      BY <1>7, <2>1, <3>2, <3>4, QueuedIsThere
    <3>6. /\ Cardinality(At("read_lock")') = Cardinality(At("read_lock")) - 1
          /\ Cardinality(At("read_unlock")') = Cardinality(At("read_unlock"))
          /\ ReadLocks' = ReadLocks + 1 /\ ReadLocks \in Nat
      BY <1>6, <1>7, <2>1
    <3>7. /\ active_readers' = ReadLocks' + Cardinality(At("read_unlock")')
          /\ pending_readers' <= Cardinality(At("read_lock")')
          /\ active_readers' + pending_readers' > 0
      <4>1. /\ active_readers = ReadLocks + Cardinality(At("read_unlock"))
            /\ pending_readers <= Cardinality(At("read_lock"))
            /\ active_readers \in Nat /\ pending_readers \in Nat /\ pending_readers > 0
        BY <1>2, <1>9, <3>4
      <4> QED
        BY <1>5, <3>3, <3>6, <4>1
    <3> QED
      BY <3>5, <3>7 DEF WaitInv
  <2>7. ReadInv'
    <3>1. SUFFICES ASSUME Wanting' = {} PROVE ReadInv'
      BY DEF ReadInv
    <3>2. Wanting = {} /\ ~(count >= Base)
      BY <1>3, <1>6, <1>7, <2>1, <3>1
    <3>3. active_readers' = active_readers /\ pending_readers' = pending_readers - 1
      BY <2>1, <3>2 DEF PendingReaderEnters
    <3>4. /\ active_readers = 0 /\ pending_readers = Cardinality(At("read_lock"))
          /\ waiters = <<>> /\ Cardinality(At("read_unlock")) = 0
      BY <3>2, FS_EmptySet DEF LiveInv, ReadInv
    <3>5. At("read_unlock")' = {}
      <4>1. At("read_unlock") = {}
        BY <3>4, AtFacts
      <4> QED
        BY <1>7, <2>1, <4>1 DEF At, Only
    <3> QED
      BY <1>6, <1>7, <2>1, <3>3, <3>4, <3>5 DEF ReadInv
  <2> QED
    BY <1>7, <2>1, <2>3, <2>4, <2>5, <2>6, <2>7 DEF LiveInv
<1>10. CASE holder # t /\ pending_readers = 0
  <2>1. /\ rw_lock_wait(t, "wait_read")
        /\ UNCHANGED <<owner_count, active_readers, pending_readers, reads>>
    BY <1>10 DEF read_lock_slow
  <2>2. reads[t] = 0 /\ writes[t] = 0
    BY <1>2, <1>4, <1>10
  <2>3. /\ Only(t) /\ pc'[t] = "wait_read" /\ wait_status'[t] = "waiting" /\ reads' = reads
        /\ waiters' = Append(waiters, t)
        /\ pc' \in [Threads -> PC] /\ wait_status' \in [Threads -> WaitStatus]
    BY <1>1, <1>2, <2>1 DEF rw_lock_wait, thread_prepare_to_block, Only, PC, WaitStatus
  <2>4. Wanting # {} /\ Wanting' = Wanting
    <3>1. Wanting # {}
      BY <1>5, <1>10 DEF LiveInv, ReadInv
    <3> QED
      BY <1>6, <2>3, <3>1
  <2>5. TypeOK'
    <3>1. waiters' \in Seq(Threads)
      BY <1>2, <2>3
    <3> QED
      BY <1>1, <1>2, <2>1, <2>3, <3>1 DEF TypeOK
  <2>6. /\ QueueInv' /\ QueuedWriters' = QueuedWriters
        /\ waiters # <<>> => (IsWriter(Head(waiters))' <=> IsWriter(Head(waiters)))
    BY <1>1, <2>3, QueueAdd DEF LiveInv, Waits
  <2>7. OwnedInv'
    <3>1. OwnedOf(t)'
      BY <1>1, <1>2, <2>2, <2>3, Bounds DEF OwnedOf, Waits
    <3>2. reads'[t] <= 1 /\ reads'[t] \in Nat
      BY <2>2, <2>3
    <3> QED
      BY <2>3, <3>1, <3>2, OwnedFrame DEF LiveInv
  <2>8. HolderInv'
    <3>1. ~(writes'[t] > 0) /\ ~Woken(t, "wait_write")' /\ ~Woken(t, "wait_read")'
      BY <1>1, <2>2, <2>3 DEF Woken
    <3> QED
      BY <1>1, <1>10, <2>1, <2>2, <2>3, <3>1, HolderFrame DEF LiveInv
  <2>9. ReaderShare' = ReaderShare /\ ReadLocks' = ReadLocks /\ ReadLocks \in Nat
    <3>1. reads[t] <= MaxNesting /\ reads'[t] = reads[t]
      BY <2>2, <2>3, Bounds
    <3>2. /\ ReaderShare' = ReaderShare + (reads'[t] - reads[t])
                 + (One(pc'[t] = "read_lock") - One(pc[t] = "read_lock"))
                 + (One(pc'[t] = "wait_read") - One(pc[t] = "wait_read"))
          /\ ReadLocks' = ReadLocks + (reads'[t] - reads[t])
                 + (One(Woken(t, "wait_read")') - One(Woken(t, "wait_read")))
          /\ ReadLocks \in Nat
      BY <1>2, <2>3, <3>1, Sums
    <3>3. ~Woken(t, "wait_read") /\ ~Woken(t, "wait_read")'
      BY <1>1, <2>3 DEF Woken
    <3> QED
      BY <1>1, <1>2, <1>3, <2>2, <2>3, <3>2, <3>3 DEF One
  <2>10. CountInv'
    BY <1>1, <1>3, <2>4, <2>9 DEF CountInv
  <2>11. WaitInv'
    <3>1. SUFFICES ASSUME holder = NoThread, QueuedWriters # {} PROVE WaitInv'
      BY <1>1, <2>6 DEF WaitInv
    <3>2. /\ active_readers = ReadLocks + Cardinality(At("read_unlock"))
          /\ active_readers + pending_readers > 0
          /\ IsWriter(Head(waiters))
      BY <3>1 DEF LiveInv, WaitInv
    <3>3. IsWriter(Head(waiters))'
      BY <2>6, <3>1, <3>2, QueuedIsThere
    <3> QED
      BY <1>2, <1>5, <1>6, <1>10, <2>1, <2>3, <2>9, <3>2, <3>3 DEF WaitInv
  <2>12. ReadInv'
    BY <2>4 DEF ReadInv
  <2> QED
    BY <2>5, <2>6, <2>7, <2>8, <2>10, <2>11, <2>12 DEF LiveInv
<1> QED
  BY <1>2, <1>8, <1>9, <1>10

\* _rw_lock_read_lock() after the wait.
LEMMA ReadLockReturnStep ==
    ASSUME TypeOK, LiveInv, NEW t \in Threads, read_lock_return(t)
    PROVE  TypeOK' /\ LiveInv'
<1>1. /\ pc[t] = "wait_read" /\ wait_status[t] # "waiting"
      /\ UNCHANGED <<lockVars, wait_status, writes>>
  BY DEF read_lock_return, thread_is_blocked
<1>2. /\ reads \in [Threads -> Nat] /\ writes \in [Threads -> Nat] /\ pc \in [Threads -> PC]
      /\ wait_status \in [Threads -> WaitStatus]
  BY DEF TypeOK
<1>3. /\ wait_status[t] = "B_OK" /\ ~InQueue(waiters, t) /\ reads[t] = 0 /\ writes[t] = 0
  BY <1>1 DEF LiveInv, QueueInv, Waits, OwnedInv, OwnedOf
<1>4. OwnsReadLock(t)
  BY <1>1, <1>3 DEF read_lock_return
<1>5. /\ UNCHANGED <<count, holder, owner_count, active_readers, pending_readers, waiters,
                      destroyed, wait_status, writes>>
  BY <1>1 DEF lockVars
<1>6. /\ Only(t) /\ pc'[t] = "running" /\ reads'[t] = 1
      /\ reads' \in [Threads -> Nat] /\ pc' \in [Threads -> PC]
  BY <1>2, <1>3, <1>4, <1>5 DEF OwnsReadLock, Only, PC
<1>7. holder = NoThread
  <2>1. Woken(t, "wait_read") /\ ~Woken(t, "wait_write") /\ ~(writes[t] > 0)
    BY <1>1, <1>2, <1>3 DEF Woken
  <2> QED
    BY <2>1 DEF LiveInv, HolderInv
<1>8. TypeOK'
  BY <1>5, <1>6 DEF TypeOK
<1>9. /\ QueueInv' /\ QueuedWriters' = QueuedWriters
      /\ waiters # <<>> => (IsWriter(Head(waiters))' <=> IsWriter(Head(waiters)))
  BY <1>3, <1>5, <1>6, QueueFrame DEF LiveInv, Waits
<1>10. OwnedInv'
  <2>1. OwnedOf(t)'
    BY <1>2, <1>3, <1>5, <1>6, Bounds DEF OwnedOf, Waits
  <2>2. reads'[t] <= 1 /\ reads'[t] \in Nat
    BY <1>6
  <2> QED
    BY <1>6, <2>1, <2>2, OwnedFrame DEF LiveInv
<1>11. HolderInv'
  <2>1. ~(writes'[t] > 0) /\ ~Woken(t, "wait_write")'
    BY <1>2, <1>3, <1>5, <1>6 DEF Woken
  <2> QED
    BY <1>5, <1>6, <1>7, <2>1, Bounds, HolderFrame DEF LiveInv
<1>12. /\ ReaderShare' = ReaderShare /\ ReadLocks' = ReadLocks /\ Wanting' = Wanting
  <2>1. Wanting' = Wanting
    BY <1>1, <1>5, <1>6 DEF Wanting, Only
  <2>2. reads[t] <= MaxNesting /\ reads'[t] <= MaxNesting /\ reads'[t] = reads[t] + 1
    BY <1>3, <1>6, Bounds
  <2>3. /\ ReaderShare' = ReaderShare + (reads'[t] - reads[t])
               + (One(pc'[t] = "read_lock") - One(pc[t] = "read_lock"))
               + (One(pc'[t] = "wait_read") - One(pc[t] = "wait_read"))
        /\ ReadLocks' = ReadLocks + (reads'[t] - reads[t])
               + (One(Woken(t, "wait_read")') - One(Woken(t, "wait_read")))
        /\ ReadLocks \in Nat
    BY <1>6, <2>2, Sums
  <2>4. Woken(t, "wait_read") /\ ~Woken(t, "wait_read")'
    BY <1>1, <1>3, <1>6 DEF Woken
  <2>5. ReaderShare \in Nat
    BY CountFacts
  <2> QED
    BY <1>1, <1>3, <1>6, <2>1, <2>3, <2>4, <2>5 DEF One
<1>13. At("read_lock")' = At("read_lock") /\ At("read_unlock")' = At("read_unlock")
  BY <1>1, <1>6 DEF At, Only
<1>14. CountInv'
  BY <1>5, <1>12 DEF LiveInv, CountInv
<1>15. WaitInv'
  <2>1. QueuedWriters # {} => waiters # <<>>
    BY QueuedIsThere
  <2> QED
    BY <1>5, <1>9, <1>12, <1>13, <2>1 DEF LiveInv, WaitInv
<1>16. ReadInv'
  BY <1>5, <1>12, <1>13 DEF LiveInv, ReadInv
<1> QED
  BY <1>8, <1>9, <1>10, <1>11, <1>14, <1>15, <1>16 DEF LiveInv

\* The atomic_add() of rw_lock_read_unlock().
LEMMA ReadUnlockStep ==
    ASSUME TypeOK, LiveInv, NEW t \in Threads, rw_lock_read_unlock(t)
    PROVE  TypeOK' /\ LiveInv'
<1>1. /\ pc[t] = "running" /\ reads[t] > 0 /\ count' = count - 1
      /\ reads' = [reads EXCEPT ![t] = @ - 1]
      /\ pc' = IF count >= Base THEN [pc EXCEPT ![t] = "read_unlock"] ELSE pc
      /\ UNCHANGED <<holder, owner_count, active_readers, pending_readers, waiters, destroyed,
                     wait_status, writes>>
  BY DEF rw_lock_read_unlock
<1>2. /\ reads \in [Threads -> Nat] /\ writes \in [Threads -> Nat] /\ pc \in [Threads -> PC]
      /\ count \in Nat /\ waiters \in Seq(Threads) /\ active_readers \in Nat
      /\ pending_readers \in Nat /\ owner_count \in Nat
  BY DEF TypeOK
<1>3. /\ Cardinality(Wanting) \in Nat /\ ReaderShare \in Nat
      /\ count >= Base <=> Wanting # {}
      /\ count = Base * Cardinality(Wanting) + ReaderShare
      /\ Base * Cardinality(Wanting) \in Nat
  BY CountFacts, Bounds, Multiple
<1>4. /\ ~InQueue(waiters, t) /\ reads[t] + writes[t] <= MaxNesting
      /\ writes[t] > 0 <=> t = holder
      /\ holder # NoThread => holder = t
  BY <1>1, <1>2 DEF LiveInv, QueueInv, Waits, OwnedInv, OwnedOf, HolderInv, Woken
<1>5. /\ Only(t) /\ reads' \in [Threads -> Nat] /\ reads'[t] = reads[t] - 1
      /\ pc' \in [Threads -> PC] /\ pc'[t] \in {"running", "read_unlock"}
      /\ pc'[t] = "read_unlock" <=> Wanting # {}
      /\ writes'[t] = writes[t]
  BY <1>1, <1>2, <1>3 DEF Only, PC
<1>6. /\ ReaderShare' = ReaderShare - 1 /\ ReadLocks' = ReadLocks - 1 /\ ReadLocks' \in Nat
      /\ ReaderShare > 0 /\ ReadLocks \in Nat
  <2>1. reads[t] <= MaxNesting /\ reads'[t] <= MaxNesting
    BY <1>1, <1>2, <1>4, <1>5, Bounds
  <2>2. /\ ReaderShare' = ReaderShare + (reads'[t] - reads[t])
               + (One(pc'[t] = "read_lock") - One(pc[t] = "read_lock"))
               + (One(pc'[t] = "wait_read") - One(pc[t] = "wait_read"))
        /\ ReadLocks' = ReadLocks + (reads'[t] - reads[t])
               + (One(Woken(t, "wait_read")') - One(Woken(t, "wait_read")))
        /\ ReadLocks \in Nat /\ ReadLocks' \in Nat
    BY <1>5, <2>1, Sums
  <2>3. ~Woken(t, "wait_read") /\ ~Woken(t, "wait_read")'
    BY <1>1, <1>5 DEF Woken
  <2>4. /\ One(pc'[t] = "read_lock") = 0 /\ One(pc[t] = "read_lock") = 0
        /\ One(pc'[t] = "wait_read") = 0 /\ One(pc[t] = "wait_read") = 0
        /\ One(Woken(t, "wait_read")') = 0 /\ One(Woken(t, "wait_read")) = 0
    BY <1>1, <1>5, <2>3 DEF One
  <2>5. reads[t] \in Nat /\ reads'[t] - reads[t] = 0 - 1
    BY <1>2, <1>5
  <2>6. OwnedReads # {}
    BY <1>1, <1>2, <2>1, NoReads
  <2>7. ReaderShare >= Cardinality(OwnedReads) /\ Cardinality(OwnedReads) > 0
    BY <2>6, CardTypes, AtFacts DEF ReaderShare
  <2>8. Cardinality(OwnedReads) \in Nat
    BY CardTypes
  <2> QED
    BY <1>3, <2>2, <2>4, <2>5, <2>7, <2>8
<1>7. TypeOK'
  <2>1. count' \in Nat
    BY <1>1, <1>2, <1>3, <1>6
  <2> QED
    BY <1>1, <1>5, <2>1 DEF TypeOK
<1>8. /\ QueueInv' /\ QueuedWriters' = QueuedWriters
      /\ waiters # <<>> => (IsWriter(Head(waiters))' <=> IsWriter(Head(waiters)))
  BY <1>1, <1>4, <1>5, QueueFrame DEF LiveInv, Waits
<1>9. OwnedInv'
  <2>1. OwnedOf(t)'
    BY <1>1, <1>2, <1>4, <1>5, Bounds DEF OwnedOf, Waits
  <2>2. reads'[t] <= reads[t] /\ reads'[t] \in Nat
    BY <1>2, <1>5
  <2> QED
    BY <1>5, <2>1, <2>2, OwnedFrame DEF LiveInv
<1>10. Wanting' = Wanting
  BY <1>1, <1>5 DEF Wanting, Only
<1>11. HolderInv'
  <2>1. t = holder <=> writes'[t] > 0 \/ Woken(t, "wait_write")'
    BY <1>4, <1>5 DEF Woken
  <2>2. ASSUME holder = t
        PROVE  owner_count' = Base * writes'[t] + reads'[t]
                                 + (IF pc'[t] = "read_unlock" THEN 1 ELSE 0)
    <3>1. owner_count = Base * writes[t] + reads[t] + 0
      BY <1>1, <2>2, Bounds DEF LiveInv, HolderInv
    <3>2. t \in Wanting
      BY <1>4, <2>2 DEF Wanting
    <3>3. Base * writes[t] \in Nat /\ reads[t] \in Nat
      BY <1>2, Bounds, Multiple
    <3> QED
      BY <1>1, <1>5, <3>1, <3>2, <3>3
  <2>3. holder \notin {NoThread, t} => FALSE
    BY <1>4
  <2> QED
    BY <1>1, <1>5, <2>1, <2>2, <2>3, HolderFrame DEF LiveInv
<1>12. CountInv'
  BY <1>1, <1>3, <1>6, <1>10 DEF CountInv
<1>13. /\ Cardinality(At("read_lock")') = Cardinality(At("read_lock"))
       /\ Cardinality(At("read_unlock")') = Cardinality(At("read_unlock")) + One(pc'[t] = "read_unlock")
  <2>1. /\ Cardinality(At("read_lock")') = Cardinality(At("read_lock"))
               + One(pc'[t] = "read_lock") - One(pc[t] = "read_lock")
        /\ Cardinality(At("read_unlock")') = Cardinality(At("read_unlock"))
               + One(pc'[t] = "read_unlock") - One(pc[t] = "read_unlock")
    BY <1>5, CardAt
  <2>2. /\ One(pc'[t] = "read_lock") = 0 /\ One(pc[t] = "read_lock") = 0
        /\ One(pc[t] = "read_unlock") = 0 /\ One(pc'[t] = "read_unlock") \in {0, 1}
    BY <1>1, <1>5 DEF One
  <2>3. Cardinality(At("read_lock")) \in Nat /\ Cardinality(At("read_unlock")) \in Nat
    BY AtFacts
  <2> QED
    BY <2>1, <2>2, <2>3
<1>14. WaitInv'
  <2>1. SUFFICES ASSUME holder = NoThread, QueuedWriters # {} PROVE WaitInv'
    BY <1>1, <1>8 DEF WaitInv
  <2>2. /\ active_readers = ReadLocks + Cardinality(At("read_unlock"))
        /\ pending_readers <= Cardinality(At("read_lock"))
        /\ active_readers + pending_readers > 0
        /\ IsWriter(Head(waiters))
    BY <2>1 DEF LiveInv, WaitInv
  <2>3. IsWriter(Head(waiters))'
    BY <1>8, <2>1, <2>2, QueuedIsThere
  <2>4. One(pc'[t] = "read_unlock") = 1
    BY <1>5, <2>1, WantingParts DEF One
  <2>5. active_readers = ReadLocks' + Cardinality(At("read_unlock")')
    <3>1. Cardinality(At("read_unlock")) \in Nat /\ ReadLocks = ReadLocks' + 1
      BY <1>6, AtFacts
    <3> QED
      BY <1>6, <1>13, <2>2, <2>4, <3>1
  <2> QED
    BY <1>1, <1>13, <2>2, <2>3, <2>5 DEF WaitInv
<1>15. ReadInv'
  <2>1. SUFFICES ASSUME Wanting = {} PROVE ReadInv'
    BY <1>10 DEF ReadInv
  <2>2. At("read_unlock")' = {}
    BY <1>1, <1>5, <2>1 DEF LiveInv, ReadInv, At, Only
  <2> QED
    BY <1>1, <1>13, <2>1, <2>2 DEF LiveInv, ReadInv
<1> QED
  BY <1>7, <1>8, <1>9, <1>11, <1>12, <1>14, <1>15 DEF LiveInv

\* A step of the thread t wakes the writer at the head of the queue.
LEMMA WriterWoken ==
    ASSUME TypeOK, QueueInv, waiters # <<>>, IsWriter(Head(waiters)),
           waiters' = Tail(waiters),
           wait_status' = thread_unblock_locked(wait_status, Head(waiters), "B_OK"),
           NEW t \in Threads, pc[t] \notin Waits, pc'[t] \notin Waits,
           \A u \in Threads : u # t => pc'[u] = pc[u],
           NEW h, h = Head(waiters)
    PROVE  /\ QueueInv' /\ h \in Threads /\ h # t
           /\ pc[h] = "wait_write" /\ pc'[h] = "wait_write" /\ wait_status[h] = "waiting"
           /\ wait_status'[h] = "B_OK"
           /\ \A u \in Threads : u # h => wait_status'[u] = wait_status[u]
           /\ wait_status' \in [Threads -> WaitStatus] /\ waiters' \in Seq(Threads)
<1>1. waiters \in Seq(Threads) /\ wait_status \in [Threads -> WaitStatus]
  BY DEF TypeOK
<1>2. /\ h \in Threads /\ InQueue(waiters, h) /\ Distinct(waiters')
      /\ \A u : InQueue(waiters', u) <=> u # h /\ InQueue(waiters, u)
      /\ waiters' \in Seq(Threads)
  BY <1>1, TailFacts DEF QueueInv
<1>3. pc[h] = "wait_write" /\ wait_status[h] = "waiting" /\ h # t /\ pc'[h] = "wait_write"
  BY <1>2 DEF IsWriter, QueueInv, Waits
<1>4. /\ wait_status' \in [Threads -> WaitStatus] /\ wait_status'[h] = "B_OK"
      /\ \A u \in Threads : u # h => wait_status'[u] = wait_status[u]
  BY <1>1, <1>2, <1>3 DEF thread_unblock_locked, thread_is_blocked, WaitStatus
<1>5. QueueInv'
  <2>1. ASSUME NEW u \in Threads
        PROVE  /\ InQueue(waiters', u) <=> pc'[u] \in Waits /\ wait_status'[u] = "waiting"
               /\ pc'[u] \in Waits => wait_status'[u] \in {"waiting", "B_OK"}
    <3>1. CASE u = h
      BY <1>2, <1>3, <1>4, <3>1
    <3>2. CASE u # h
      BY <1>2, <1>4, <3>2 DEF QueueInv
    <3> QED
      BY <3>1, <3>2
  <2> QED
    BY <1>2, <2>1 DEF QueueInv
<1> QED
  BY <1>2, <1>3, <1>4, <1>5

\* _rw_lock_read_unlock()
LEMMA ReadUnlockSlowStep ==
    ASSUME TypeOK, LiveInv, NEW t \in Threads, read_unlock_slow(t)
    PROVE  TypeOK' /\ LiveInv'
<1>1. /\ pc[t] = "read_unlock" /\ ~ReadUnlockPanics(t)
      /\ pc' = [pc EXCEPT ![t] = "running"]
      /\ UNCHANGED <<count, pending_readers, destroyed, reads, writes>>
  BY DEF read_unlock_slow
<1>2. /\ reads \in [Threads -> Nat] /\ writes \in [Threads -> Nat] /\ pc \in [Threads -> PC]
      /\ waiters \in Seq(Threads) /\ active_readers \in Nat
      /\ pending_readers \in Nat /\ owner_count \in Nat /\ wait_status \in [Threads -> WaitStatus]
  BY DEF TypeOK
<1>3. /\ ~InQueue(waiters, t) /\ reads[t] + writes[t] < MaxNesting
      /\ writes[t] > 0 <=> t = holder
      /\ holder # NoThread => holder = t
  BY <1>1, <1>2 DEF LiveInv, QueueInv, Waits, OwnedInv, OwnedOf, HolderInv, Woken
<1>4. /\ pc' \in [Threads -> PC] /\ pc'[t] = "running"
      /\ \A u \in Threads : u # t => pc'[u] = pc[u]
  BY <1>1, <1>2 DEF PC
<1>5. /\ At("read_lock")' = At("read_lock") /\ At("wait_read")' = At("wait_read")
      /\ At("read_unlock")' = At("read_unlock") \ {t} /\ t \in At("read_unlock")
      /\ Wanting' = Wanting
  BY <1>1, <1>4 DEF At, Wanting
<1>6. /\ Cardinality(At("read_unlock")) \in Nat /\ Cardinality(At("read_unlock")) > 0
      /\ Cardinality(At("read_unlock")') = Cardinality(At("read_unlock")) - 1
      /\ Cardinality(At("read_unlock")') = 0 <=> At("read_unlock")' = {}
      /\ Cardinality(At("read_lock")) \in Nat
  <2>1. IsFiniteSet(At("read_unlock")) /\ Cardinality(At("read_unlock")) \in Nat
        /\ Cardinality(At("read_lock")) \in Nat
        /\ (Cardinality(At("read_unlock")) = 0 <=> At("read_unlock") = {})
    BY AtFacts
  <2>2. Cardinality(At("read_unlock") \ {t}) = Cardinality(At("read_unlock")) - 1
    BY <1>5, <2>1, FS_RemoveElement
  <2>3. At("read_unlock") \ {t} \in SUBSET Threads
    BY DEF At
  <2>4. Cardinality(At("read_unlock") \ {t}) = 0 <=> At("read_unlock") \ {t} = {}
    BY <2>3, CardTypes
  <2> QED
    BY <1>5, <2>1, <2>2, <2>4
<1>7. OwnedReads' = OwnedReads /\ ReaderShare' = ReaderShare
  BY <1>1, <1>5 DEF OwnedReads, ReaderShare
<1>8. CountInv'
  BY <1>1, <1>5, <1>7 DEF LiveInv, CountInv
<1>9. OwnedInv'
  <2>1. \A u \in Threads : OwnedOf(u)'
    BY <1>1, <1>2, <1>4, Bounds DEF LiveInv, OwnedInv, OwnedOf, Waits
  <2> QED
    BY <1>1, <2>1 DEF LiveInv, OwnedInv
<1>10. Wanting # {}
  BY <1>5 DEF LiveInv, ReadInv
<1>11. ReadInv'
  BY <1>5, <1>10 DEF ReadInv
<1>12. CASE holder = t
  <2>1. /\ owner_count' = owner_count - 1
        /\ UNCHANGED <<holder, active_readers, waiters, wait_status>>
    BY <1>12 DEF read_unlock_slow
  <2>2. Only(t)
    BY <1>1, <1>4, <2>1 DEF Only
  <2>3. owner_count = Base * writes[t] + reads[t] + 1
    BY <1>1, <1>12, Bounds DEF LiveInv, HolderInv
  <2>4. Base * writes[t] \in Nat /\ reads[t] \in Nat
    BY <1>2, Bounds, Multiple
  <2>5. owner_count' = Base * writes'[t] + reads'[t] + 0 /\ owner_count' \in Nat
    BY <1>1, <2>1, <2>3, <2>4
  <2>6. TypeOK'
    BY <1>1, <1>4, <2>1, <2>5 DEF TypeOK
  <2>7. QueueInv'
    BY <1>3, <1>4, <2>1, <2>2, QueueFrame DEF LiveInv, Waits
  <2>8. HolderInv'
    BY <1>1, <1>3, <1>4, <1>12, <2>1, <2>2, <2>5, HolderFrame DEF LiveInv
  <2>9. WaitInv'
    BY <1>12, <2>1, Bounds DEF WaitInv
  <2> QED
    BY <1>8, <1>9, <1>11, <2>6, <2>7, <2>8, <2>9 DEF LiveInv
<1>13. CASE holder # t
  <2>1. holder = NoThread /\ QueuedWriters # {}
    BY <1>3, <1>10, <1>13, WantingParts
  <2>2. /\ active_readers = ReadLocks + Cardinality(At("read_unlock"))
        /\ pending_readers <= Cardinality(At("read_lock"))
        /\ IsWriter(Head(waiters)) /\ waiters # <<>>
    BY <2>1, QueuedIsThere DEF LiveInv, WaitInv
  <2>3. ReadLocks \in Nat
    <3>1. WokenReaders \in SUBSET Threads
      BY DEF WokenReaders
    <3>2. Cardinality(WokenReaders) \in Nat /\ Cardinality(OwnedReads) \in Nat
      BY <3>1, CardTypes
    <3> QED
      BY <3>2 DEF ReadLocks, WokenReaders
  <2>4. ASSUME active_readers' = active_readers - 1, active_readers' + pending_readers > 0,
               UNCHANGED <<holder, owner_count, waiters, wait_status>>
        PROVE  TypeOK' /\ LiveInv'
    <3>1. Only(t)
      BY <1>1, <1>4, <2>4 DEF Only
    <3>2. TypeOK'
      <4>1. active_readers' \in Nat
        <5>1. active_readers > 0
          BY <1>6, <2>2, <2>3
        <5> QED
          BY <1>2, <2>4, <5>1
      <4> QED
        BY <1>1, <1>4, <2>4, <4>1 DEF TypeOK
    <3>3. /\ QueueInv' /\ QueuedWriters' = QueuedWriters
          /\ waiters # <<>> => (IsWriter(Head(waiters))' <=> IsWriter(Head(waiters)))
      BY <1>3, <1>4, <2>4, <3>1, QueueFrame DEF LiveInv, Waits
    <3>4. HolderInv'
      BY <1>1, <1>3, <1>4, <2>1, <2>4, <3>1, Bounds, HolderFrame DEF LiveInv, Woken
    <3>5. ReadLocks' = ReadLocks
      <4>1. WokenReaders' = WokenReaders
        BY <1>1, <1>4, <2>4 DEF WokenReaders, Woken
      <4> QED
        BY <1>7, <4>1 DEF ReadLocks, WokenReaders
    <3>6. active_readers' = ReadLocks' + Cardinality(At("read_unlock")')
      BY <1>6, <2>2, <2>3, <2>4, <3>5
    <3>7. WaitInv'
      BY <1>1, <1>5, <2>2, <2>4, <3>3, <3>6 DEF WaitInv
    <3> QED
      BY <1>8, <1>9, <1>11, <3>2, <3>3, <3>4, <3>7 DEF LiveInv
  <2>5. CASE active_readers > 1
    <3>1. active_readers' = active_readers - 1
          /\ UNCHANGED <<holder, owner_count, waiters, wait_status>>
      BY <1>2, <1>13, <2>5 DEF read_unlock_slow
    <3>2. active_readers' + pending_readers > 0
      BY <1>2, <2>5, <3>1
    <3> QED
      BY <2>4, <3>1, <3>2
  <2>6. CASE active_readers = 1
    <3>1. rw_lock_unblock(holder, count, 0) /\ UNCHANGED owner_count
      BY <1>13, <2>6 DEF read_unlock_slow
    <3>2. ~WakesReaders(holder) /\ (WakesWriter(holder, 0) <=> pending_readers = 0)
      BY <2>1, <2>2 DEF WakesReaders, WakesWriter
    <3>3. CASE pending_readers # 0
      <4>1. active_readers' = 0 /\ UNCHANGED <<holder, waiters, wait_status>>
        BY <3>1, <3>2, <3>3 DEF rw_lock_unblock
      <4>2. active_readers' = active_readers - 1 /\ active_readers' + pending_readers > 0
        BY <1>2, <2>6, <3>3, <4>1
      <4> QED
        BY <2>4, <3>1, <4>1, <4>2
    <3>4. CASE pending_readers = 0
      <4>1. /\ waiters' = Tail(waiters) /\ holder' = Head(waiters) /\ active_readers' = 0
            /\ wait_status' = thread_unblock_locked(wait_status, Head(waiters), "B_OK")
        BY <3>1, <3>2, <3>4 DEF rw_lock_unblock
      <4> PICK h \in Threads : h = Head(waiters)
        BY <1>2, <2>2
      <4>2. /\ QueueInv' /\ h # t /\ holder' = h
            /\ pc[h] = "wait_write" /\ pc'[h] = "wait_write"
            /\ wait_status'[h] = "B_OK"
            /\ \A u \in Threads : u # h => wait_status'[u] = wait_status[u]
            /\ wait_status' \in [Threads -> WaitStatus] /\ waiters' \in Seq(Threads)
        BY <1>1, <1>4, <2>2, <4>1, WriterWoken DEF LiveInv, Waits
      <4>3. ReadLocks = 0 /\ At("read_unlock")' = {}
        BY <1>6, <2>2, <2>3, <2>6
      <4>4. OwnedReads = {} /\ WokenReaders = {}
        <5>1. WokenReaders \in SUBSET Threads
          BY DEF WokenReaders
        <5>2. Cardinality(OwnedReads) \in Nat /\ Cardinality(WokenReaders) \in Nat
          BY <5>1, CardTypes
        <5>3. Cardinality(OwnedReads) = 0 /\ Cardinality(WokenReaders) = 0
          BY <4>3, <5>2 DEF ReadLocks, WokenReaders
        <5> QED
          BY <5>1, <5>3, CardTypes
      <4>5. \A u \in Threads : reads[u] = 0
        <5>1. \A u \in Threads : reads[u] <= MaxNesting
          <6>1. \A u \in Threads : reads[u] + writes[u] <= MaxNesting
            BY DEF LiveInv, OwnedInv, OwnedOf
          <6> QED
            BY <1>2, <6>1, Bounds
        <5> QED
          BY <1>2, <4>4, <5>1, NoReads
      <4>6. TypeOK'
        BY <1>1, <1>4, <3>1, <4>1, <4>2 DEF TypeOK
      <4>7. HolderInv'
        <5>1. \A u \in Threads : ~(writes[u] > 0) /\ ~Woken(u, "wait_write")
          BY <2>1, Bounds DEF LiveInv, HolderInv
        <5>2. \A u \in Threads : u = h <=> writes'[u] > 0 \/ Woken(u, "wait_write")'
          <6>1. Woken(h, "wait_write")'
            BY <4>2 DEF Woken
          <6>2. ASSUME NEW u \in Threads, u # h PROVE ~(writes'[u] > 0) /\ ~Woken(u, "wait_write")'
            BY <1>1, <1>4, <4>2, <5>1, <6>2 DEF Woken
          <6> QED
            BY <6>1, <6>2
        <5>3. \A u \in Threads : pc'[u] # "read_unlock"
          BY <4>3 DEF At
        <5>4. \A u \in Threads : u # h => ~Woken(u, "wait_read")'
          BY <1>1, <1>4, <4>2, <4>4 DEF WokenReaders, Woken
        <5>5. owner_count' = Base * writes'[h] + reads'[h] + 0
          <6>1. owner_count = 0 /\ writes[h] = 0 /\ reads[h] = 0
            BY <1>2, <2>1, <4>5, <5>1 DEF LiveInv, HolderInv
          <6> QED
            BY <1>1, <3>1, <6>1, Bounds, Multiple
        <5>6. h # NoThread
          BY Bounds
        <5> QED
          BY <1>1, <3>4, <4>1, <4>2, <4>5, <5>2, <5>3, <5>4, <5>5, <5>6 DEF HolderInv
      <4>8. WaitInv'
        BY <4>2, Bounds DEF WaitInv
      <4> QED
        BY <1>8, <1>9, <1>11, <4>2, <4>6, <4>7, <4>8 DEF LiveInv
    <3> QED
      BY <3>3, <3>4
  <2> QED
    BY <1>1, <1>2, <1>13, <2>5, <2>6 DEF ReadUnlockPanics
<1> QED
  BY <1>12, <1>13

-----------------------------------------------------------------------------
(***************************************************************************)
(* The writers.                                                            *)
(***************************************************************************)

\* rw_lock_write_lock() up to the wait.
LEMMA WriteLockStep ==
    ASSUME TypeOK, LiveInv, NEW t \in Threads, rw_lock_write_lock(t)
    PROVE  TypeOK' /\ LiveInv'
<1>1. /\ pc[t] = "running" /\ reads[t] + writes[t] < MaxNesting /\ (reads[t] > 0 => writes[t] > 0)
      /\ UNCHANGED <<pending_readers, destroyed, reads>>
  BY DEF rw_lock_write_lock, MayLock
<1>2. /\ reads \in [Threads -> Nat] /\ writes \in [Threads -> Nat] /\ pc \in [Threads -> PC]
      /\ count \in Nat /\ waiters \in Seq(Threads) /\ active_readers \in Nat
      /\ pending_readers \in Nat /\ owner_count \in Nat /\ wait_status \in [Threads -> WaitStatus]
      /\ holder \in Threads \cup {NoThread}
  BY DEF TypeOK
<1>3. /\ Cardinality(Wanting) \in Nat /\ ReaderShare \in Nat
      /\ count >= Base <=> Wanting # {}
      /\ count = Base * Cardinality(Wanting) + ReaderShare
      /\ Wanting = {} => count = ReaderShare
  BY CountFacts
<1>4. /\ ~InQueue(waiters, t) /\ (writes[t] > 0 <=> t = holder)
  BY <1>1 DEF LiveInv, QueueInv, Waits, HolderInv, Woken
<1>5. OwnedReads' = OwnedReads
  BY <1>1 DEF OwnedReads
<1>6. CASE holder = t
  <2>1. /\ owner_count' = owner_count + Base
        /\ writes' = [writes EXCEPT ![t] = @ + 1]
        /\ UNCHANGED <<count, holder, active_readers, waiters, wait_status, pc>>
    BY <1>6 DEF rw_lock_write_lock
  <2>2. /\ Only(t) /\ writes' \in [Threads -> Nat] /\ writes'[t] = writes[t] + 1
        /\ writes[t] > 0 /\ writes'[t] > 0
    BY <1>1, <1>2, <1>4, <1>6, <2>1 DEF Only
  <2>3. TypeOK'
    BY <1>1, <1>2, <2>1, <2>2, Bounds DEF TypeOK
  <2>4. QueueInv'
    BY <1>1, <1>4, <2>1, <2>2, QueueFrame DEF LiveInv, Waits
  <2>5. OwnedInv'
    <3>1. OwnedOf(t)'
      BY <1>1, <1>2, <2>1, <2>2, Bounds DEF OwnedOf, Waits
    <3>2. reads'[t] <= reads[t] /\ reads'[t] \in Nat
      BY <1>1, <1>2
    <3> QED
      BY <2>2, <3>1, <3>2, OwnedFrame DEF LiveInv
  <2>6. HolderInv'
    <3>1. owner_count = Base * writes[t] + reads[t] + 0
      BY <1>1, <1>6, Bounds DEF LiveInv, HolderInv
    <3>2. Base * (writes[t] + 1) = Base * writes[t] + Base /\ Base * writes[t] \in Nat
      BY <1>2, Bounds, Multiple
    <3>3. Base * writes'[t] = Base * writes[t] + Base
      BY <2>2, <3>2
    <3>4. owner_count' = Base * writes'[t] + reads'[t] + 0
      <4>1. reads[t] \in Nat /\ reads'[t] = reads[t] /\ owner_count' = owner_count + Base
        BY <1>1, <1>2, <2>1
      <4> QED
        BY <3>1, <3>2, <3>3, <4>1, Bounds
    <3> QED
      BY <1>1, <1>6, <2>1, <2>2, <3>4, HolderFrame DEF LiveInv, Woken
  <2>7. Wanting' = Wanting /\ t \in Wanting
    BY <2>1, <2>2 DEF Wanting, Only
  <2>8. CountInv'
    <3>1. ReaderShare' = ReaderShare
      BY <1>5, <2>1 DEF ReaderShare, At
    <3> QED
      BY <2>1, <2>7, <3>1 DEF LiveInv, CountInv
  <2>9. WaitInv' /\ ReadInv'
    BY <1>6, <2>1, <2>7, Bounds DEF WaitInv, ReadInv
  <2> QED
    BY <2>3, <2>4, <2>5, <2>6, <2>8, <2>9 DEF LiveInv
<1>7. CASE holder # t /\ count = 0
  <2>1. /\ count' = Base /\ holder' = t /\ owner_count' = Base
        /\ writes' = [writes EXCEPT ![t] = 1]
        /\ UNCHANGED <<active_readers, waiters, wait_status, pc>>
    BY <1>7 DEF rw_lock_write_lock
  <2>2. Wanting = {} /\ ReaderShare = 0 /\ holder = NoThread /\ writes[t] = 0 /\ reads[t] = 0
    <3>1. Wanting = {}
      BY <1>3, <1>7, Bounds
    <3> QED
      BY <1>1, <1>2, <1>3, <1>4, <1>7, <3>1, WantingParts
  <2>3. /\ Only(t) /\ writes' \in [Threads -> Nat] /\ writes'[t] = 1
    BY <1>1, <1>2, <2>1 DEF Only
  <2>4. TypeOK'
    BY <1>1, <1>2, <2>1, <2>3, Bounds DEF TypeOK
  <2>5. QueueInv'
    BY <1>1, <1>4, <2>1, <2>3, QueueFrame DEF LiveInv, Waits
  <2>6. OwnedInv'
    <3>1. OwnedOf(t)'
      BY <1>1, <1>2, <2>1, <2>2, <2>3, Bounds DEF OwnedOf, Waits
    <3>2. reads'[t] <= reads[t] /\ reads'[t] \in Nat
      BY <1>1, <1>2
    <3> QED
      BY <2>3, <3>1, <3>2, OwnedFrame DEF LiveInv
  <2>7. OwnedReads = {} /\ At("read_lock") = {} /\ At("wait_read") = {}
    <3>1. /\ Cardinality(OwnedReads) \in Nat /\ Cardinality(At("read_lock")) \in Nat
          /\ Cardinality(At("wait_read")) \in Nat
      BY CardTypes, AtFacts
    <3>2. /\ Cardinality(OwnedReads) = 0 /\ Cardinality(At("read_lock")) = 0
          /\ Cardinality(At("wait_read")) = 0
      BY <2>2, <3>1 DEF ReaderShare
    <3> QED
      BY <3>2, CardTypes, AtFacts
  <2>8. \A u \in Threads : reads[u] = 0
    <3>1. \A u \in Threads : reads[u] <= MaxNesting
      <4>1. \A u \in Threads : reads[u] + writes[u] <= MaxNesting
        BY DEF LiveInv, OwnedInv, OwnedOf
      <4> QED
        BY <1>2, <4>1, Bounds
    <3> QED
      BY <1>2, <2>7, <3>1, NoReads
  <2>9. active_readers = 0 /\ pending_readers = 0 /\ At("read_unlock") = {}
    <3>1. Cardinality(At("read_lock")) = 0
      BY <2>7, AtFacts
    <3> QED
      BY <2>2, <3>1 DEF LiveInv, ReadInv
  <2>10. HolderInv'
    <3>1. \A u \in Threads : ~(writes[u] > 0) /\ ~Woken(u, "wait_write")
      BY <2>2, Bounds DEF LiveInv, HolderInv
    <3>2. \A u \in Threads : u = t <=> writes'[u] > 0 \/ Woken(u, "wait_write")'
      BY <2>1, <2>3, <3>1 DEF Only, Woken
    <3>3. \A u \in Threads : pc'[u] # "read_unlock" /\ ~Woken(u, "wait_read")'
      BY <2>1, <2>7, <2>9 DEF At, Woken
    <3>4. owner_count' = Base * writes'[t] + reads'[t] + 0
      <4>1. Base * 1 = Base
        BY Bounds, Multiple
      <4> QED
        BY <1>1, <2>1, <2>2, <2>3, <4>1, Bounds
    <3> QED
      BY <1>1, <2>1, <2>8, <2>9, <3>2, <3>3, <3>4, Bounds DEF HolderInv
  <2>11. CountInv'
    <3>1. ReaderShare' = 0
      BY <1>5, <2>1, <2>2 DEF ReaderShare, At
    <3>2. Wanting' = {t}
      <4>1. \A u \in Threads : writes[u] = 0 /\ pc[u] # "wait_write"
        BY <1>2, <2>2 DEF Wanting
      <4> QED
        BY <2>1, <2>3, <4>1 DEF Wanting, Only
    <3>3. Cardinality({t}) = 1
      BY FS_Singleton
    <3>4. Base * 1 = Base
      BY Bounds, Multiple
    <3> QED
      BY <2>1, <3>1, <3>2, <3>3, <3>4, Bounds DEF CountInv
  <2>12. WaitInv' /\ ReadInv'
    <3>1. t \in Wanting'
      BY <2>3 DEF Wanting
    <3> QED
      BY <2>1, <3>1, Bounds DEF WaitInv, ReadInv
  <2> QED
    BY <2>4, <2>5, <2>6, <2>10, <2>11, <2>12 DEF LiveInv
<1>8. CASE holder # t /\ count # 0
  <2>1. /\ count' = count + Base /\ active_readers' = FirstWriter
        /\ rw_lock_wait(t, "wait_write") /\ UNCHANGED <<holder, owner_count, writes>>
    BY <1>8 DEF rw_lock_write_lock
  <2>2. reads[t] = 0 /\ writes[t] = 0
    BY <1>1, <1>2, <1>4, <1>8
  <2>3. /\ Only(t) /\ pc'[t] = "wait_write" /\ wait_status'[t] = "waiting"
        /\ waiters' = Append(waiters, t)
        /\ pc' \in [Threads -> PC] /\ wait_status' \in [Threads -> WaitStatus]
    BY <1>1, <1>2, <2>1 DEF rw_lock_wait, thread_prepare_to_block, Only, PC, WaitStatus
  <2>4. /\ QueueInv' /\ QueuedWriters' = QueuedWriters \cup {t}
        /\ waiters # <<>> => (IsWriter(Head(waiters))' <=> IsWriter(Head(waiters)))
        /\ waiters = <<>> => IsWriter(Head(waiters))'
    BY <1>1, <2>3, QueueAdd DEF LiveInv, Waits
  <2>5. OwnedInv'
    <3>1. OwnedOf(t)'
      BY <1>1, <1>2, <2>1, <2>2, <2>3, Bounds DEF OwnedOf, Waits
    <3>2. reads'[t] <= reads[t] /\ reads'[t] \in Nat
      BY <1>1, <1>2
    <3> QED
      BY <2>3, <3>1, <3>2, OwnedFrame DEF LiveInv
  <2>6. /\ At("read_lock")' = At("read_lock") /\ At("read_unlock")' = At("read_unlock")
        /\ At("wait_read")' = At("wait_read") /\ WokenReaders' = WokenReaders
    BY <1>1, <2>3 DEF At, WokenReaders, Woken, Only
  <2>7. ReaderShare' = ReaderShare /\ ReadLocks' = ReadLocks
    BY <1>5, <2>6 DEF ReaderShare, ReadLocks, WokenReaders
  <2>8. CountInv'
    <3>1. Cardinality(Wanting') = Cardinality(Wanting) + 1
      <4>1. Cardinality(Wanting') = Cardinality(Wanting) + One(t \in Wanting') - One(t \in Wanting)
        BY <2>3, CardWanting
      <4>2. t \in Wanting' /\ t \notin Wanting
        BY <1>1, <2>2, <2>3 DEF Wanting
      <4> QED
        BY <1>3, <4>1, <4>2 DEF One
    <3>2. Base * (Cardinality(Wanting) + 1) = Base * Cardinality(Wanting) + Base
          /\ Base * Cardinality(Wanting) \in Nat
      BY <1>3, Bounds, Multiple
    <3> QED
      BY <1>3, <2>1, <2>7, <3>1, <3>2, Bounds DEF CountInv
  <2>9. /\ Wanting # {} => active_readers' = active_readers
        /\ Wanting = {} => active_readers' = count - pending_readers
    <3>1. Wanting # {} => ~(count < Base)
      BY <1>2, <1>3, Bounds
    <3>2. Wanting = {} => count < Base
      BY <1>2, <1>3, Bounds
    <3> QED
      BY <2>1, <3>1, <3>2 DEF FirstWriter
  <2>10. HolderInv'
    <3>1. ~(writes'[t] > 0) /\ ~Woken(t, "wait_write")' /\ ~Woken(t, "wait_read")'
      BY <1>1, <2>1, <2>2, <2>3 DEF Woken
    <3>2. holder # NoThread => active_readers' = active_readers
      BY <2>9, WantingParts
    <3> QED
      BY <1>1, <1>8, <2>1, <2>2, <2>3, <3>1, <3>2, HolderFrame DEF LiveInv
  <2>11. ASSUME Wanting = {}
         PROVE  /\ active_readers' = ReadLocks /\ active_readers' \in Nat
                /\ At("read_unlock") = {} /\ pending_readers = Cardinality(At("read_lock"))
                /\ waiters = <<>>
    <3>1. /\ pending_readers = Cardinality(At("read_lock")) /\ waiters = <<>>
          /\ At("read_unlock") = {}
      BY <2>11 DEF LiveInv, ReadInv
    <3>2. WokenReaders = At("wait_read")
      <4>1. \A u \in Threads : ~InQueue(waiters, u)
        BY <3>1 DEF InQueue
      <4> QED
        BY <4>1 DEF WokenReaders, At, Woken, LiveInv, QueueInv, Waits
    <3>3. /\ Cardinality(OwnedReads) \in Nat /\ Cardinality(At("read_lock")) \in Nat
          /\ Cardinality(At("wait_read")) \in Nat
      BY CardTypes, AtFacts
    <3>4. ReadLocks = Cardinality(OwnedReads) + Cardinality(At("wait_read"))
      BY <3>2 DEF ReadLocks, WokenReaders
    <3>5. count = Cardinality(OwnedReads) + Cardinality(At("read_lock"))
                     + Cardinality(At("wait_read"))
      BY <1>3, <2>11 DEF ReaderShare
    <3> QED
      BY <2>9, <2>11, <3>1, <3>3, <3>4, <3>5
  <2>12. TypeOK'
    <3>1. active_readers' \in Nat /\ waiters' \in Seq(Threads)
      BY <1>2, <2>3, <2>9, <2>11
    <3> QED
      BY <1>1, <1>2, <2>1, <2>3, <3>1, Bounds DEF TypeOK
  <2>13. WaitInv'
    <3>1. SUFFICES ASSUME holder = NoThread PROVE WaitInv'
      BY <2>1 DEF WaitInv
    <3>2. CASE Wanting = {}
      <4>1. Cardinality(At("read_unlock")) = 0 /\ Cardinality(At("read_lock")) \in Nat
        BY <2>11, <3>2, AtFacts
      <4>2. active_readers' = ReadLocks' + Cardinality(At("read_unlock")')
        BY <2>6, <2>7, <2>11, <3>2, <4>1
      <4>3. active_readers' + pending_readers' > 0
        BY <1>1, <1>2, <1>8, <2>9, <3>2
      <4>4. pending_readers' <= Cardinality(At("read_lock")')
        BY <1>1, <2>6, <2>11, <3>2, <4>1
      <4> QED
        BY <2>4, <2>11, <3>2, <4>2, <4>3, <4>4 DEF WaitInv
    <3>3. CASE Wanting # {}
      <4>1. QueuedWriters # {}
        BY <3>1, <3>3, WantingParts
      <4>2. /\ active_readers = ReadLocks + Cardinality(At("read_unlock"))
            /\ pending_readers <= Cardinality(At("read_lock"))
            /\ active_readers + pending_readers > 0
            /\ IsWriter(Head(waiters)) /\ waiters # <<>>
        BY <3>1, <4>1, QueuedIsThere DEF LiveInv, WaitInv
      <4> QED
        BY <1>1, <2>4, <2>6, <2>7, <2>9, <3>3, <4>2 DEF WaitInv
    <3> QED
      BY <3>2, <3>3
  <2>14. ReadInv'
    BY <2>3 DEF ReadInv, Wanting
  <2> QED
    BY <2>4, <2>5, <2>8, <2>10, <2>12, <2>13, <2>14 DEF LiveInv
<1> QED
  BY <1>6, <1>7, <1>8

\* rw_lock_write_lock() after the wait.
LEMMA WriteLockReturnStep ==
    ASSUME TypeOK, LiveInv, NEW t \in Threads, write_lock_return(t)
    PROVE  TypeOK' /\ LiveInv'
<1>1. /\ pc[t] = "wait_write" /\ wait_status[t] # "waiting"
      /\ pc' = [pc EXCEPT ![t] = "running"]
      /\ UNCHANGED <<count, active_readers, pending_readers, waiters, destroyed, wait_status, reads>>
  BY DEF write_lock_return, thread_is_blocked
<1>2. /\ reads \in [Threads -> Nat] /\ writes \in [Threads -> Nat] /\ pc \in [Threads -> PC]
  BY DEF TypeOK
<1>3. /\ wait_status[t] = "B_OK" /\ ~InQueue(waiters, t) /\ reads[t] = 0 /\ writes[t] = 0
  BY <1>1 DEF LiveInv, QueueInv, Waits, OwnedInv, OwnedOf
<1>4. holder = t
  BY <1>1, <1>3 DEF LiveInv, HolderInv, Woken
<1>5. holder' = holder /\ owner_count' = Base /\ writes' = [writes EXCEPT ![t] = 1]
  BY <1>1, <1>3, <1>4 DEF write_lock_return
<1>6. /\ Only(t) /\ pc'[t] = "running" /\ writes'[t] = 1
      /\ writes' \in [Threads -> Nat] /\ pc' \in [Threads -> PC]
  BY <1>1, <1>2, <1>5 DEF Only, PC
<1>7. TypeOK'
  BY <1>1, <1>5, <1>6, Bounds DEF TypeOK
<1>8. QueueInv'
  BY <1>1, <1>3, <1>6, QueueFrame DEF LiveInv, Waits
<1>9. OwnedInv'
  <2>1. OwnedOf(t)'
    BY <1>1, <1>3, <1>6, Bounds DEF OwnedOf, Waits
  <2>2. reads'[t] <= reads[t] /\ reads'[t] \in Nat
    BY <1>1, <1>2
  <2> QED
    BY <1>6, <2>1, <2>2, OwnedFrame DEF LiveInv
<1>10. HolderInv'
  <2>1. owner_count' = Base * writes'[t] + reads'[t] + 0
    <3>1. Base * 1 = Base
      BY Bounds, Multiple
    <3> QED
      BY <1>1, <1>3, <1>5, <1>6, <3>1, Bounds
  <2>2. writes'[t] > 0
    BY <1>6
  <2> QED
    BY <1>1, <1>4, <1>5, <1>6, <2>1, <2>2, HolderFrame DEF LiveInv
<1>11. Wanting' = Wanting /\ t \in Wanting
  BY <1>1, <1>6 DEF Wanting, Only
<1>12. CountInv'
  <2>1. ReaderShare' = ReaderShare
    <3>1. At("read_lock")' = At("read_lock") /\ At("wait_read")' = At("wait_read")
      BY <1>1, <1>6 DEF At, Only
    <3> QED
      BY <1>1, <3>1 DEF ReaderShare, OwnedReads
  <2> QED
    BY <1>1, <1>11, <2>1 DEF LiveInv, CountInv
<1>13. WaitInv' /\ ReadInv'
  BY <1>4, <1>5, <1>11, Bounds DEF WaitInv, ReadInv
<1> QED
  BY <1>7, <1>8, <1>9, <1>10, <1>12, <1>13 DEF LiveInv

\* The readers at the head of the queue end before its first writer.
LEMMA Leading ==
    ASSUME TypeOK
    PROVE  /\ LeadingReaders \in 0 .. Len(waiters)
           /\ \A i \in 1 .. LeadingReaders : ~IsWriter(waiters[i])
           /\ LeadingReaders < Len(waiters) => IsWriter(waiters[LeadingReaders + 1])
<1>1. waiters \in Seq(Threads) /\ Len(waiters) \in Nat
  BY DEF TypeOK
<1>2. \E n \in 0 .. Len(waiters) :
          /\ \A i \in 1 .. n : ~IsWriter(waiters[i])
          /\ n < Len(waiters) => IsWriter(waiters[n + 1])
  <2> DEFINE W == {i \in 1 .. Len(waiters) : IsWriter(waiters[i])}
  <2>1. CASE W = {}
    <3>1. \A i \in 1 .. Len(waiters) : ~IsWriter(waiters[i])
      BY <2>1
    <3> QED
      BY <1>1, <3>1
  <2>2. CASE W # {}
    <3>1. PICK m \in W : \A k \in W : m <= k
      <4>1. W \in SUBSET Nat
        BY <1>1
      <4> QED
        BY <2>2, <4>1, LeastElement
    <3>2. m \in 1 .. Len(waiters) /\ m - 1 \in 0 .. Len(waiters) /\ (m - 1) + 1 = m
      BY <1>1
    <3>3. \A i \in 1 .. (m - 1) : ~IsWriter(waiters[i])
      BY <1>1, <3>1, <3>2
    <3>4. IsWriter(waiters[(m - 1) + 1])
      BY <3>2
    <3> QED
      BY <3>2, <3>3, <3>4
  <2> QED
    BY <2>1, <2>2
<1> DEFINE P(n) == /\ \A i \in 1 .. n : ~IsWriter(waiters[i])
                   /\ n < Len(waiters) => IsWriter(waiters[n + 1])
<1>3. LeadingReaders = CHOOSE n \in 0 .. Len(waiters) : P(n)
  BY DEF LeadingReaders
<1>4. \E n \in 0 .. Len(waiters) : P(n)
  BY <1>2
<1> HIDE DEF P
<1>5. LeadingReaders \in 0 .. Len(waiters) /\ P(LeadingReaders)
  BY <1>3, <1>4
<1> QED
  BY <1>5 DEF P

\* The readers at the head of the queue, and those who stay behind them.
LeadingSet == {waiters[i] : i \in 1 .. LeadingReaders}
RestOfQueue == SubSeq(waiters, LeadingReaders + 1, Len(waiters))

LEMMA QueueParts ==
    ASSUME TypeOK, Distinct(waiters)
    PROVE  /\ LeadingReaders \in Nat
           /\ LeadingSet \in SUBSET Threads /\ Cardinality(LeadingSet) = LeadingReaders
           /\ \A u \in LeadingSet : InQueue(waiters, u) /\ ~IsWriter(u)
           /\ RestOfQueue \in Seq(Threads) /\ Distinct(RestOfQueue)
           /\ \A u : InQueue(RestOfQueue, u) <=> InQueue(waiters, u) /\ u \notin LeadingSet
           /\ \/ RestOfQueue = <<>>
              \/ RestOfQueue # <<>> /\ Head(RestOfQueue) \in Threads
                 /\ IsWriter(Head(RestOfQueue))
           /\ waiters # <<>> /\ ~IsWriter(Head(waiters)) => LeadingReaders > 0
<1> DEFINE n == LeadingReaders
<1>1. /\ waiters \in Seq(Threads) /\ Len(waiters) \in Nat /\ DOMAIN waiters = 1 .. Len(waiters)
  BY DEF TypeOK
<1>2. /\ n \in Nat /\ n <= Len(waiters)
      /\ \A i \in 1 .. n : ~IsWriter(waiters[i])
      /\ n < Len(waiters) => IsWriter(waiters[n + 1])
  BY <1>1, Leading
<1>3. /\ LeadingSet = {waiters[i] : i \in 1 .. n} /\ RestOfQueue = SubSeq(waiters, n + 1, Len(waiters))
  BY DEF LeadingSet, RestOfQueue
<1> HIDE DEF n
<1>4. /\ RestOfQueue \in Seq(Threads) /\ Distinct(RestOfQueue)
      /\ \A u : InQueue(RestOfQueue, u) <=> InQueue(waiters, u) /\ u \notin LeadingSet
      /\ n = Len(waiters) => RestOfQueue = <<>>
      /\ n < Len(waiters) => RestOfQueue # <<>> /\ Head(RestOfQueue) = waiters[n + 1]
  BY <1>1, <1>2, <1>3, DropQueue, Zenon
<1>5. LeadingSet \in SUBSET Threads /\ Cardinality(LeadingSet) = n
  <2>1. Cardinality({waiters[i] : i \in 1 .. n}) = n
    BY <1>1, <1>2, PrefixCard
  <2>2. \A i \in 1 .. n : waiters[i] \in Threads
    BY <1>1, <1>2
  <2>3. \A u \in LeadingSet : \E i \in 1 .. n : u = waiters[i]
    BY <1>3
  <2>4. LeadingSet \subseteq Threads
    BY <2>2, <2>3
  <2>5. Cardinality(LeadingSet) = n
    BY <1>3, <2>1
  <2> QED
    BY <2>4, <2>5, Zenon
<1>6. ASSUME NEW u \in LeadingSet PROVE InQueue(waiters, u) /\ ~IsWriter(u)
  <2>1. PICK i \in 1 .. n : u = waiters[i]
    BY <1>3
  <2>2. i \in DOMAIN waiters
    BY <1>1, <1>2
  <2> QED
    BY <1>2, <2>1, <2>2 DEF InQueue
<1>7. \/ RestOfQueue = <<>>
      \/ RestOfQueue # <<>> /\ Head(RestOfQueue) \in Threads /\ IsWriter(Head(RestOfQueue))
  <2>1. CASE n = Len(waiters)
    BY <1>4, <2>1, Zenon
  <2>2. CASE n < Len(waiters)
    <3>1. waiters[n + 1] \in Threads
      BY <1>1, <1>2, <2>2
    <3> QED
      BY <1>2, <1>4, <2>2, <3>1, Zenon
  <2>3. n = Len(waiters) \/ n < Len(waiters)
    <3>1. n \in Nat /\ n <= Len(waiters) /\ Len(waiters) \in Nat
      BY <1>1, <1>2, Zenon
    <3> QED
      BY <3>1
  <2> QED
    BY <2>1, <2>2, <2>3, Zenon
<1>8. ASSUME waiters # <<>>, ~IsWriter(Head(waiters)) PROVE n > 0
  <2>1. Len(waiters) > 0 /\ ~IsWriter(waiters[1])
    BY <1>1, <1>8
  <2> QED
    BY <1>1, <1>2, <2>1
<1> QED
  BY <1>2, <1>4, <1>5, <1>6, <1>7, <1>8 DEF n

\* rw_lock_unblock() wakes the readers at the head of the queue, and they alone.
LEMMA ReadersGo ==
    ASSUME TypeOK, QueueInv, WakesReaders(NoThread), pc' = pc,
           waiters' = RestOfQueue,
           wait_status' = thread_unblock_each(wait_status, LeadingSet, "B_OK"),
           \A u \in Threads : ~Woken(u, "wait_write") /\ ~Woken(u, "wait_read")
    PROVE  /\ QueueInv' /\ waiters' \in Seq(Threads) /\ wait_status' \in [Threads -> WaitStatus]
           /\ Cardinality(WokenReaders') = LeadingReaders
           /\ LeadingReaders \in Nat /\ LeadingReaders > 0
           /\ \A u \in Threads : ~Woken(u, "wait_write")'
           /\ QueuedWriters # {} => IsWriter(Head(waiters))'
           /\ QueuedWriters = {} => waiters' = <<>> /\ WokenReaders' = QueuedReaders
<1>1. /\ LeadingReaders \in Nat
      /\ LeadingSet \in SUBSET Threads /\ Cardinality(LeadingSet) = LeadingReaders
      /\ \A u \in LeadingSet : InQueue(waiters, u) /\ ~IsWriter(u)
      /\ waiters' \in Seq(Threads) /\ Distinct(waiters')
      /\ \A u : InQueue(waiters', u) <=> InQueue(waiters, u) /\ u \notin LeadingSet
      /\ LeadingReaders > 0
  BY QueueParts DEF QueueInv, WakesReaders
<1>2. \/ waiters' = <<>>
      \/ waiters' # <<>> /\ Head(waiters') \in Threads /\ IsWriter(Head(waiters'))
  BY QueueParts DEF QueueInv
<1>3. \A u \in LeadingSet : pc[u] = "wait_read" /\ wait_status[u] = "waiting"
  BY <1>1 DEF QueueInv, Waits, IsWriter
<1>4. /\ wait_status' \in [Threads -> WaitStatus]
      /\ \A u \in LeadingSet : wait_status'[u] = "B_OK"
      /\ \A u \in Threads : u \notin LeadingSet => wait_status'[u] = wait_status[u]
  <2>1. wait_status \in [Threads -> WaitStatus]
    BY DEF TypeOK
  <2> QED
    BY <1>1, <1>3, <2>1 DEF thread_unblock_each, thread_unblock_locked, thread_is_blocked, WaitStatus
<1>5. QueueInv'
  <2>1. ASSUME NEW u \in Threads
        PROVE  /\ InQueue(waiters', u) <=> pc[u] \in Waits /\ wait_status'[u] = "waiting"
               /\ pc[u] \in Waits => wait_status'[u] \in {"waiting", "B_OK"}
    <3>1. CASE u \in LeadingSet
      BY <1>1, <1>4, <3>1
    <3>2. CASE u \notin LeadingSet
      BY <1>1, <1>4, <3>2 DEF QueueInv
    <3> QED
      BY <3>1, <3>2
  <2> QED
    BY <1>1, <2>1 DEF QueueInv
<1>6. WokenReaders' = LeadingSet /\ \A u \in Threads : ~Woken(u, "wait_write")'
  <2>1. \A u \in Threads : (Woken(u, "wait_read")' <=> u \in LeadingSet) /\ ~Woken(u, "wait_write")'
    BY <1>3, <1>4 DEF Woken
  <2> QED
    BY <1>1, <2>1 DEF WokenReaders
<1>7. ASSUME waiters' = <<>> PROVE LeadingSet = QueuedReaders /\ QueuedWriters = {}
  <2>1. \A u \in Threads : ~InQueue(waiters', u)
    BY <1>7 DEF InQueue
  <2>2. \A u \in Threads : InQueue(waiters, u) <=> u \in LeadingSet
    BY <1>1, <2>1
  <2> QED
    BY <1>1, <2>2 DEF QueuedReaders, QueuedWriters
<1>8. ASSUME waiters' # <<>> PROVE QueuedWriters # {} /\ IsWriter(Head(waiters))'
  <2> PICK h \in Threads : h = Head(waiters') /\ IsWriter(h)
    BY <1>2, <1>8
  <2>1. InQueue(waiters', h)
    BY <1>1, <1>8, TailFacts
  <2>2. InQueue(waiters, h)
    BY <1>1, <2>1
  <2> QED
    BY <2>2 DEF QueuedWriters, IsWriter
<1> QED
  BY <1>1, <1>4, <1>5, <1>6, <1>7, <1>8

\* The last write lock is given up: the case that looks at the queue.
LEMMA LastWriteUnlockStep ==
    ASSUME TypeOK, LiveInv, NEW t \in Threads, pc[t] = "running", holder = t, writes[t] = 1,
           writes' = [writes EXCEPT ![t] = @ - 1], UNCHANGED <<destroyed, pc, reads>>,
           LastWriteUnlock(count - Base, reads[t])
    PROVE  TypeOK' /\ LiveInv'
<1>1. /\ reads \in [Threads -> Nat] /\ writes \in [Threads -> Nat] /\ pc \in [Threads -> PC]
      /\ count \in Nat /\ waiters \in Seq(Threads) /\ active_readers \in Nat
      /\ pending_readers \in Nat /\ wait_status \in [Threads -> WaitStatus] /\ reads[t] \in Nat
  BY DEF TypeOK
<1>2. /\ active_readers = 0 /\ pending_readers = 0
      /\ \A u \in Threads : u # t =>
            /\ reads[u] = 0 /\ pc[u] # "read_unlock" /\ ~Woken(u, "wait_read")
            /\ ~(writes[u] > 0) /\ ~Woken(u, "wait_write")
  BY Bounds DEF LiveInv, HolderInv
<1>3. /\ writes' \in [Threads -> Nat] /\ \A u \in Threads : writes'[u] = 0
  BY <1>1, <1>2
<1>4. /\ Wanting' = QueuedWriters /\ Wanting = QueuedWriters \cup {t} /\ t \notin QueuedWriters
  <2>1. t \notin QueuedWriters /\ QueuedWriters \subseteq Threads
    BY DEF QueuedWriters, IsWriter
  <2>2. \A u \in Threads : u \in Wanting <=> u = t \/ u \in QueuedWriters
    BY WantingParts
  <2>3. \A u \in Threads : u \in Wanting' <=> pc[u] = "wait_write"
    BY <1>3 DEF Wanting
  <2>4. \A u \in Threads : pc[u] = "wait_write" <=> u \in Wanting /\ u # t
    BY <1>2 DEF Wanting
  <2> QED
    BY <2>1, <2>2, <2>3, <2>4 DEF Wanting
<1> DEFINE k == Cardinality(QueuedWriters)
<1>5. /\ k \in Nat /\ (k = 0 <=> QueuedWriters = {})
      /\ count - Base = Base * k + ReaderShare /\ Base * k \in Nat
      /\ ReaderShare \in Nat /\ ReaderShare < Base
  <2>1. QueuedWriters \in SUBSET Threads
    BY DEF QueuedWriters
  <2>2. k \in Nat /\ (k = 0 <=> QueuedWriters = {}) /\ IsFiniteSet(QueuedWriters)
    BY <2>1, CardTypes
  <2>3. Cardinality(Wanting) = k + 1
    BY <1>4, <2>2, FS_AddElement
  <2>4. /\ ReaderShare \in Nat /\ ReaderShare < Base
        /\ \A j \in Nat : Cardinality(Wanting) = j + 1 =>
              count - Base = Base * j + ReaderShare /\ Base * j \in Nat
    BY CountFacts
  <2> HIDE DEF k
  <2> QED
    BY <2>2, <2>3, <2>4
<1> HIDE DEF k
<1>6. /\ \A p : At(p)' = At(p)
      /\ OwnedReads' = OwnedReads /\ ReaderShare' = ReaderShare
  BY DEF At, OwnedReads, ReaderShare
<1>7. count' = count - Base /\ owner_count' = 0 /\ CountInv' /\ count' \in Nat
  <2>1. count' = count - Base /\ owner_count' = 0
    BY DEF LastWriteUnlock
  <2>2. Cardinality(Wanting') = k
    BY <1>4 DEF k
  <2> QED
    BY <1>5, <1>6, <2>1, <2>2 DEF CountInv
<1>8. OwnedInv'
  <2>1. \A u \in Threads : OwnedOf(u)'
    BY <1>1, <1>2, <1>3, Bounds DEF LiveInv, OwnedInv, OwnedOf, Waits
  <2> QED
    BY <2>1 DEF LiveInv, OwnedInv
<1>9. /\ Cardinality(OwnedReads) = reads[t] /\ At("read_unlock") = {} /\ WokenReaders = {}
      /\ At("wait_read") = QueuedReaders
      /\ Cardinality(At("read_unlock")) = 0
      /\ ReaderShare = reads[t] + Cardinality(At("read_lock")) + Cardinality(At("wait_read"))
      /\ Cardinality(At("read_lock")) \in Nat /\ Cardinality(At("wait_read")) \in Nat
  <2>1. Cardinality(OwnedReads) = reads[t]
    <3>1. reads[t] + writes[t] <= MaxNesting
      BY DEF LiveInv, OwnedInv, OwnedOf
    <3>2. reads[t] <= MaxNesting
      BY <1>1, <3>1, Bounds
    <3> QED
      BY <1>1, <1>2, <3>2, ReadsOfOne
  <2>2. At("read_unlock") = {}
    BY <1>2 DEF At
  <2>3. WokenReaders = {}
    BY <1>2 DEF WokenReaders, Woken
  <2>4. At("wait_read") = QueuedReaders
    <3>1. ASSUME NEW u \in Threads PROVE pc[u] = "wait_read" <=> InQueue(waiters, u) /\ ~IsWriter(u)
      <4>1. pc[u] = "wait_read" => wait_status[u] = "waiting"
        BY <1>2 DEF LiveInv, QueueInv, Waits, Woken
      <4> QED
        BY <4>1 DEF LiveInv, QueueInv, Waits, IsWriter
    <3> QED
      BY <3>1 DEF At, QueuedReaders
  <2>5. /\ Cardinality(At("read_lock")) \in Nat /\ Cardinality(At("wait_read")) \in Nat
        /\ Cardinality(At("read_unlock")) = 0
    BY <2>2, AtFacts
  <2>6. ReaderShare = reads[t] + Cardinality(At("read_lock")) + Cardinality(At("wait_read"))
    BY <2>1 DEF ReaderShare
  <2> QED
    BY <2>1, <2>2, <2>3, <2>4, <2>5, <2>6
<1>10. ASSUME waiters # <<>> PROVE Head(waiters) \in Threads /\ InQueue(waiters, Head(waiters))
  BY <1>1, <1>10, TailFacts DEF LiveInv, QueueInv
<1>11. ASSUME holder' = NoThread, \A u \in Threads : ~Woken(u, "wait_write")'
       PROVE  HolderInv'
  BY <1>3, <1>7, <1>11, Bounds DEF HolderInv
<1>12. ASSUME UNCHANGED <<waiters, wait_status>>
       PROVE  /\ QueueInv' /\ QueuedWriters' = QueuedWriters /\ QueuedReaders' = QueuedReaders
              /\ waiters' \in Seq(Threads) /\ wait_status' \in [Threads -> WaitStatus]
              /\ WokenReaders' = {}
              /\ \A u \in Threads : ~Woken(u, "wait_write")'
              /\ waiters # <<>> => (IsWriter(Head(waiters))' <=> IsWriter(Head(waiters)))
  <2>1. Only(t)
    BY <1>12, <1>2, <1>3, <1>1 DEF Only
  <2>2. ~InQueue(waiters, t) /\ pc'[t] \notin Waits
    BY DEF LiveInv, QueueInv, Waits
  <2>3. /\ QueueInv' /\ QueuedWriters' = QueuedWriters /\ QueuedReaders' = QueuedReaders
        /\ waiters # <<>> => (IsWriter(Head(waiters))' <=> IsWriter(Head(waiters)))
    BY <1>12, <2>1, <2>2, QueueFrame DEF LiveInv
  <2>4. \A u \in Threads : ~Woken(u, "wait_write")' /\ ~Woken(u, "wait_read")'
    BY <1>2, <1>12 DEF Woken
  <2> QED
    BY <1>1, <1>12, <2>3, <2>4 DEF WokenReaders
<1>13. ASSUME WakesReaders(NoThread), waiters' = RestOfQueue,
              wait_status' = thread_unblock_each(wait_status, LeadingSet, "B_OK")
       PROVE  /\ QueueInv' /\ waiters' \in Seq(Threads) /\ wait_status' \in [Threads -> WaitStatus]
              /\ Cardinality(WokenReaders') = LeadingReaders
              /\ LeadingReaders \in Nat /\ LeadingReaders > 0
              /\ \A u \in Threads : ~Woken(u, "wait_write")'
              /\ QueuedWriters # {} => IsWriter(Head(waiters))'
              /\ QueuedWriters = {} => waiters' = <<>> /\ WokenReaders' = QueuedReaders
  <2>1. \A u \in Threads : ~Woken(u, "wait_write") /\ ~Woken(u, "wait_read")
    BY <1>2 DEF Woken
  <2> QED
    BY <1>13, <2>1, ReadersGo DEF LiveInv
<1>14. LeadingReaders \in Nat
  BY QueueParts DEF LiveInv, QueueInv
<1>15. CASE count - Base = 0
  <2>1. holder' = NoThread /\ UNCHANGED <<active_readers, pending_readers, waiters, wait_status>>
    BY <1>15, Bounds DEF LastWriteUnlock
  <2>2. k = 0 /\ ReaderShare = 0
    <3>1. k > 0 => Base * k >= Base
      BY <1>5, Bounds, Multiple
    <3> QED
      BY <1>5, <1>15, <3>1, Bounds
  <2>3. QueuedWriters = {} /\ At("wait_read") = {} /\ At("read_lock") = {}
        /\ Cardinality(At("read_lock")) = 0
    <3>1. Cardinality(At("read_lock")) = 0 /\ Cardinality(At("wait_read")) = 0
      BY <1>1, <1>9, <2>2
    <3> QED
      BY <1>5, <2>2, <3>1, AtFacts
  <2>4. waiters = <<>>
    BY <1>9, <1>10, <2>3 DEF QueuedWriters, QueuedReaders
  <2>5. TypeOK'
    BY <1>3, <1>7, <2>1 DEF TypeOK
  <2>6. HolderInv'
    BY <1>11, <1>12, <2>1
  <2>7. WaitInv'
    BY <1>12, <2>1, <2>3 DEF WaitInv
  <2>8. ReadInv'
    BY <1>2, <1>6, <1>9, <2>1, <2>3, <2>4 DEF ReadInv
  <2> QED
    BY <1>7, <1>8, <1>12, <2>1, <2>5, <2>6, <2>7, <2>8 DEF LiveInv
<1>16. CASE count - Base >= Base
  <2>1. /\ rw_lock_unblock(NoThread, count - Base, reads[t]) /\ UNCHANGED pending_readers
    BY <1>1, <1>16, Bounds DEF LastWriteUnlock
  <2>2. QueuedWriters # {} /\ waiters # <<>>
    <3>1. k # 0
      <4>1. Base * 0 = 0
        BY Bounds, Multiple
      <4> QED
        BY <1>5, <1>16, <4>1, Bounds
    <3> QED
      BY <1>5, <3>1, QueuedIsThere
  <2>3. ReadInv'
    BY <1>4, <2>2 DEF ReadInv
  <2>4. ASSUME holder' = NoThread, active_readers' = reads[t] + Cardinality(WokenReaders'),
               WokenReaders' \in SUBSET Threads, active_readers' > 0,
               IsWriter(Head(waiters))', QueueInv',
               waiters' \in Seq(Threads), wait_status' \in [Threads -> WaitStatus],
               \A u \in Threads : ~Woken(u, "wait_write")'
        PROVE  TypeOK' /\ LiveInv'
    <3>1. Cardinality(WokenReaders') \in Nat
      BY <2>4, CardTypes
    <3>2. active_readers' \in Nat
      BY <1>1, <2>4, <3>1
    <3>3. TypeOK'
      BY <1>1, <1>3, <1>7, <2>1, <2>4, <3>2 DEF TypeOK
    <3>4. ReadLocks' = reads[t] + Cardinality(WokenReaders')
      BY <1>6, <1>9 DEF ReadLocks, WokenReaders
    <3>5. active_readers' = ReadLocks' + Cardinality(At("read_unlock")')
      BY <1>6, <1>9, <2>4, <3>2, <3>4
    <3>6. pending_readers' <= Cardinality(At("read_lock")') /\ active_readers' + pending_readers' > 0
      BY <1>2, <1>6, <1>9, <2>1, <2>4, <3>2
    <3>7. WaitInv'
      BY <2>4, <3>5, <3>6 DEF WaitInv
    <3>8. HolderInv'
      BY <1>11, <2>4
    <3> QED
      BY <1>7, <1>8, <2>3, <2>4, <3>3, <3>7, <3>8 DEF LiveInv
  <2>5. CASE IsWriter(Head(waiters)) /\ reads[t] = 0
    <3>1. WakesWriter(NoThread, reads[t]) /\ ~WakesReaders(NoThread)
      BY <1>2, <2>2, <2>5 DEF WakesWriter, WakesReaders
    <3>2. /\ waiters' = Tail(waiters) /\ holder' = Head(waiters) /\ active_readers' = 0
          /\ wait_status' = thread_unblock_locked(wait_status, Head(waiters), "B_OK")
      BY <2>1, <2>5, <3>1 DEF rw_lock_unblock
    <3> PICK h \in Threads : h = Head(waiters)
      BY <1>10, <2>2
    <3>3. /\ QueueInv' /\ h # t /\ holder' = h
          /\ pc[h] = "wait_write" /\ wait_status'[h] = "B_OK"
          /\ \A u \in Threads : u # h => wait_status'[u] = wait_status[u]
          /\ wait_status' \in [Threads -> WaitStatus] /\ waiters' \in Seq(Threads)
      BY <2>2, <2>5, <3>2, WriterWoken DEF LiveInv, Waits
    <3>4. TypeOK'
      BY <1>1, <1>3, <1>7, <2>1, <3>2, <3>3 DEF TypeOK
    <3>5. HolderInv'
      <4>1. \A u \in Threads : u = h <=> writes'[u] > 0 \/ Woken(u, "wait_write")'
        BY <1>2, <1>3, <3>3 DEF Woken
      <4>2. \A u \in Threads : reads'[u] = 0 /\ pc'[u] # "read_unlock"
        BY <1>2, <2>5
      <4>3. \A u \in Threads : u # h => ~Woken(u, "wait_read")'
        BY <1>2, <3>3 DEF Woken
      <4>4. owner_count' = Base * writes'[h] + reads'[h] + 0
        BY <1>3, <1>7, <4>2, Bounds, Multiple
      <4> QED
        BY <1>2, <2>1, <3>2, <3>3, <4>1, <4>2, <4>3, <4>4, Bounds DEF HolderInv
    <3>6. WaitInv'
      BY <3>3, Bounds DEF WaitInv
    <3> QED
      BY <1>7, <1>8, <2>3, <3>3, <3>4, <3>5, <3>6 DEF LiveInv
  <2>6. CASE IsWriter(Head(waiters)) /\ reads[t] # 0
    <3>1. ~WakesWriter(NoThread, reads[t]) /\ ~WakesReaders(NoThread)
      BY <2>6 DEF WakesWriter, WakesReaders
    <3>2. /\ active_readers' = reads[t] /\ holder' = NoThread /\ UNCHANGED <<waiters, wait_status>>
      BY <2>1, <3>1 DEF rw_lock_unblock
    <3>3. WokenReaders' = {} /\ Cardinality(WokenReaders') = 0
      BY <1>12, <3>2, FS_EmptySet
    <3>4. active_readers' = reads[t] + Cardinality(WokenReaders') /\ active_readers' > 0
      BY <1>1, <2>6, <3>2, <3>3
    <3> QED
      BY <1>12, <2>2, <2>4, <2>6, <3>2, <3>3, <3>4
  <2>7. CASE ~IsWriter(Head(waiters))
    <3>1. ~WakesWriter(NoThread, reads[t]) /\ WakesReaders(NoThread)
      BY <2>2, <2>7 DEF WakesWriter, WakesReaders
    <3>2. /\ waiters' = RestOfQueue
          /\ wait_status' = thread_unblock_each(wait_status, LeadingSet, "B_OK")
          /\ active_readers' = ReadersWoken(count - Base, reads[t], LeadingReaders)
          /\ holder' = NoThread
      BY <2>1, <3>1 DEF rw_lock_unblock, RestOfQueue, LeadingSet
    <3>3. active_readers' = reads[t] + LeadingReaders
      BY <1>16, <3>2 DEF ReadersWoken
    <3>4. /\ QueueInv' /\ waiters' \in Seq(Threads) /\ wait_status' \in [Threads -> WaitStatus]
          /\ Cardinality(WokenReaders') = LeadingReaders /\ LeadingReaders > 0
          /\ \A u \in Threads : ~Woken(u, "wait_write")'
          /\ IsWriter(Head(waiters))'
      BY <1>13, <1>14, <2>2, <3>1, <3>2
    <3>5. WokenReaders' \in SUBSET Threads
      BY DEF WokenReaders
    <3>6. active_readers' = reads[t] + Cardinality(WokenReaders') /\ active_readers' > 0
      BY <1>1, <1>14, <3>3, <3>4
    <3> QED
      BY <2>4, <3>2, <3>4, <3>5, <3>6
  <2> QED
    BY <2>5, <2>6, <2>7
<1>17. CASE count - Base # 0 /\ count - Base < Base
  <2>1. /\ rw_lock_unblock(NoThread, count - Base, active_readers)
        /\ pending_readers' = count - Base - reads[t] - Unblocked(NoThread, active_readers)
    <3>1. ~(count - Base >= Base)
      BY <1>1, <1>17, Bounds
    <3> QED
      BY <1>17, <3>1 DEF LastWriteUnlock, StillComing
  <2>2. QueuedWriters = {} /\ count - Base = ReaderShare
    <3>1. /\ k > 0 => Base * k >= Base
          /\ Base * 0 = 0
      BY <1>5, Bounds, Multiple
    <3>2. k = 0
      BY <1>5, <1>17, <3>1, Bounds
    <3> QED
      BY <1>5, <3>1, <3>2, Bounds
  <2>3. waiters # <<>> => ~IsWriter(Head(waiters))
    BY <1>10, <2>2 DEF QueuedWriters
  <2>4. ~WakesWriter(NoThread, active_readers) /\ (WakesReaders(NoThread) <=> waiters # <<>>)
    BY <2>3 DEF WakesWriter, WakesReaders
  <2>5. WaitInv'
    <3>1. QueuedWriters' \subseteq Wanting'
      BY DEF QueuedWriters, Wanting, IsWriter
    <3> QED
      BY <1>4, <2>2, <3>1 DEF WaitInv
  <2>6. ASSUME holder' = NoThread, active_readers' = 0, waiters' = <<>>,
               pending_readers' = Cardinality(At("read_lock")), QueueInv',
               wait_status' \in [Threads -> WaitStatus],
               \A u \in Threads : ~Woken(u, "wait_write")'
        PROVE  TypeOK' /\ LiveInv'
    <3>1. TypeOK'
      BY <1>1, <1>3, <1>7, <1>9, <2>6 DEF TypeOK
    <3>2. HolderInv'
      BY <1>11, <2>6
    <3>3. ReadInv'
      BY <1>6, <1>9, <2>6 DEF ReadInv
    <3> QED
      BY <1>7, <1>8, <2>5, <2>6, <3>1, <3>2, <3>3 DEF LiveInv
  <2>7. CASE waiters = <<>>
    <3>1. active_readers' = active_readers /\ holder' = NoThread /\ UNCHANGED <<waiters, wait_status>>
      BY <2>1, <2>4, <2>7 DEF rw_lock_unblock
    <3>2. Unblocked(NoThread, active_readers) = 0
      BY <2>4, <2>7 DEF Unblocked
    <3>3. Cardinality(At("wait_read")) = 0
      <4>1. At("wait_read") = {}
        BY <1>9, <2>7, QueuedIsThere
      <4> QED
        BY <4>1, AtFacts
    <3>4. pending_readers' = Cardinality(At("read_lock"))
      BY <1>1, <1>5, <1>9, <2>1, <2>2, <3>2, <3>3
    <3> QED
      BY <1>2, <1>12, <2>6, <2>7, <3>1, <3>4
  <2>8. CASE waiters # <<>>
    <3>1. WakesReaders(NoThread)
      BY <2>4, <2>8
    <3>2. /\ waiters' = RestOfQueue
          /\ wait_status' = thread_unblock_each(wait_status, LeadingSet, "B_OK")
          /\ active_readers' = ReadersWoken(count - Base, active_readers, LeadingReaders)
          /\ holder' = NoThread
      BY <2>1, <2>4, <3>1 DEF rw_lock_unblock, RestOfQueue, LeadingSet
    <3>3. active_readers' = 0
      <4>1. ~(count - Base >= Base)
        BY <1>1, <1>17, Bounds
      <4> QED
        BY <1>2, <3>2, <4>1 DEF ReadersWoken
    <3>4. /\ QueueInv' /\ waiters' = <<>> /\ wait_status' \in [Threads -> WaitStatus]
          /\ Cardinality(QueuedReaders) = LeadingReaders
          /\ \A u \in Threads : ~Woken(u, "wait_write")'
      BY <1>13, <1>14, <2>2, <3>1, <3>2
    <3>5. Unblocked(NoThread, active_readers) = LeadingReaders
      BY <2>4, <3>1 DEF Unblocked
    <3>6. Cardinality(At("wait_read")) = LeadingReaders
      BY <1>9, <3>4
    <3>7. pending_readers' = Cardinality(At("read_lock"))
      <4>1. pending_readers' = ReaderShare - reads[t] - LeadingReaders
        BY <2>1, <2>2, <3>5
      <4>2. /\ ReaderShare = reads[t] + Cardinality(At("read_lock")) + LeadingReaders
            /\ Cardinality(At("read_lock")) \in Nat
        BY <1>9, <3>6
      <4> QED
        BY <1>1, <1>14, <4>1, <4>2
    <3> QED
      BY <2>6, <3>2, <3>3, <3>4, <3>7
  <2> QED
    BY <2>7, <2>8
<1> QED
  BY <1>1, <1>15, <1>16, <1>17, Bounds

\* _rw_lock_write_unlock()
LEMMA WriteUnlockStep ==
    ASSUME TypeOK, LiveInv, NEW t \in Threads, rw_lock_write_unlock(t)
    PROVE  TypeOK' /\ LiveInv'
<1>1. /\ pc[t] = "running" /\ writes[t] > 0 /\ holder = t
      /\ writes' = [writes EXCEPT ![t] = @ - 1]
      /\ UNCHANGED <<destroyed, pc, reads>>
  BY DEF rw_lock_write_unlock
<1>2. /\ reads \in [Threads -> Nat] /\ writes \in [Threads -> Nat]
      /\ reads[t] \in Nat /\ writes[t] \in Nat /\ owner_count \in Nat
  BY DEF TypeOK
<1>3. /\ owner_count = Base * writes[t] + reads[t] + 0
      /\ reads[t] + writes[t] <= MaxNesting
      /\ ~InQueue(waiters, t)
  BY <1>1, Bounds DEF LiveInv, HolderInv, OwnedInv, OwnedOf, QueueInv, Waits
<1>4. CASE writes[t] = 1
  <2>1. owner_count - Base = reads[t]
    <3>1. Base * 1 = Base
      BY Bounds, Multiple
    <3> QED
      BY <1>2, <1>3, <1>4, <3>1, Bounds
  <2>2. owner_count - Base < Base /\ ~(owner_count - Base >= Base)
    BY <1>2, <1>3, <2>1, Bounds
  <2>3. LastWriteUnlock(count - Base, reads[t])
    BY <2>1, <2>2 DEF rw_lock_write_unlock
  <2> QED
    BY <1>1, <1>4, <2>3, LastWriteUnlockStep
<1>5. CASE writes[t] # 1
  <2>1. PICK w \in Nat : writes[t] = w + 1 /\ w > 0
    <3>1. writes[t] - 1 \in Nat /\ writes[t] - 1 > 0 /\ writes[t] = (writes[t] - 1) + 1
      BY <1>1, <1>2, <1>5
    <3> QED
      BY <3>1
  <2>2. Base * (w + 1) = Base * w + Base /\ Base * w \in Nat /\ Base * w >= Base
    BY <2>1, Bounds, Multiple
  <2>3. owner_count = Base * w + Base + reads[t]
    <3>1. Base * writes[t] = Base * w + Base
      BY <2>1, <2>2
    <3> QED
      BY <1>2, <1>3, <2>2, <3>1, Bounds
  <2>4. owner_count - Base = Base * w + reads[t] /\ owner_count - Base >= Base
        /\ ~(owner_count - Base < Base) /\ owner_count - Base \in Nat
    BY <1>2, <2>2, <2>3, Bounds
  <2>5. /\ owner_count' = owner_count - Base
        /\ UNCHANGED <<count, holder, active_readers, pending_readers, waiters, wait_status>>
    BY <2>4 DEF rw_lock_write_unlock
  <2>6. Only(t) /\ writes' \in [Threads -> Nat] /\ writes'[t] = w
    BY <1>1, <1>2, <2>1, <2>5 DEF Only
  <2>7. TypeOK'
    BY <1>1, <2>4, <2>5, <2>6 DEF TypeOK
  <2>8. QueueInv'
    BY <1>1, <1>3, <2>5, <2>6, QueueFrame DEF LiveInv, Waits
  <2>9. OwnedInv'
    <3>1. OwnedOf(t)'
      BY <1>1, <1>2, <1>3, <2>1, <2>6, Bounds DEF OwnedOf, Waits
    <3>2. reads'[t] <= reads[t] /\ reads'[t] \in Nat
      BY <1>1, <1>2
    <3> QED
      BY <2>6, <3>1, <3>2, OwnedFrame DEF LiveInv
  <2>10. HolderInv'
    <3>1. owner_count' = Base * writes'[t] + reads'[t] + 0
      <4>1. reads'[t] = reads[t]
        BY <1>1
      <4> QED
        BY <1>2, <2>2, <2>4, <2>5, <2>6, <4>1
    <3>2. writes'[t] > 0 /\ pc'[t] = "running"
      BY <1>1, <2>1, <2>6
    <3> QED
      BY <1>1, <2>5, <2>6, <3>1, <3>2, HolderFrame DEF LiveInv
  <2>11. Wanting' = Wanting /\ t \in Wanting
    BY <1>1, <2>1, <2>6 DEF Wanting, Only
  <2>12. CountInv'
    <3>1. ReaderShare' = ReaderShare
      BY <1>1 DEF ReaderShare, At, OwnedReads
    <3> QED
      BY <2>5, <2>11, <3>1 DEF LiveInv, CountInv
  <2>13. WaitInv' /\ ReadInv'
    BY <1>1, <2>5, <2>11, Bounds DEF WaitInv, ReadInv
  <2> QED
    BY <2>7, <2>8, <2>9, <2>10, <2>12, <2>13 DEF LiveInv
<1> QED
  BY <1>4, <1>5

-----------------------------------------------------------------------------
(***************************************************************************)
(* The life of the lock.                                                   *)
(***************************************************************************)

\* A lock that nobody has used yet.
Fresh ==
    /\ TypeOK
    /\ count = 0 /\ holder = NoThread /\ owner_count = 0
    /\ active_readers = 0 /\ pending_readers = 0 /\ waiters = <<>>
    /\ \A t \in Threads : pc[t] = "running" /\ reads[t] = 0 /\ writes[t] = 0

LEMMA FreshIsLive == Fresh => LiveInv
<1> SUFFICES ASSUME Fresh PROVE LiveInv
  OBVIOUS
<1>1. /\ count = 0 /\ holder = NoThread /\ owner_count = 0
      /\ active_readers = 0 /\ pending_readers = 0 /\ waiters = <<>>
      /\ \A t \in Threads : pc[t] = "running" /\ reads[t] = 0 /\ writes[t] = 0
  BY DEF Fresh
<1>2. \A t : ~InQueue(waiters, t)
  BY <1>1 DEF InQueue
<1>3. QueueInv
  BY <1>1, <1>2 DEF QueueInv, Distinct, Waits
<1>4. OwnedInv
  BY <1>1, Bounds DEF OwnedInv, OwnedOf, Waits
<1>5. HolderInv
  BY <1>1, Bounds DEF HolderInv, Woken
<1>6. Wanting = {} /\ At("read_lock") = {} /\ At("wait_read") = {} /\ At("read_unlock") = {}
  BY <1>1 DEF Wanting, At
<1>7. OwnedReads = {}
  <2> SUFFICES ASSUME NEW r \in OwnedReads PROVE FALSE
    OBVIOUS
  <2>1. r[1] \in Threads /\ r[2] \in 1 .. MaxNesting /\ r[2] <= reads[r[1]]
    BY DEF OwnedReads
  <2> QED
    BY <1>1, <2>1, Bounds
<1>8. /\ Cardinality(Wanting) = 0 /\ Cardinality(OwnedReads) = 0
      /\ Cardinality(At("read_lock")) = 0 /\ Cardinality(At("wait_read")) = 0
  BY <1>6, <1>7, FS_EmptySet
<1>9. CountInv
  <2>1. Base * 0 = 0
    BY Bounds, Multiple
  <2> QED
    BY <1>1, <1>8, <2>1 DEF CountInv, ReaderShare
<1>10. WaitInv
  BY <1>2 DEF WaitInv, QueuedWriters
<1>11. ReadInv
  BY <1>1, <1>6, <1>8 DEF ReadInv
<1> QED
  BY <1>3, <1>4, <1>5, <1>9, <1>10, <1>11 DEF LiveInv

\* rw_lock_destroy()
LEMMA DestroyStep ==
    ASSUME TypeOK, LiveInv, NEW t \in Threads, rw_lock_destroy(t)
    PROVE  TypeOK' /\ DestroyedInv'
<1>1. /\ pc[t] = "running" /\ writes[t] > 0
      /\ \A u \in Threads : pc[u] \notin {"read_lock", "read_unlock"}
      /\ waiters' = <<>> /\ destroyed' = TRUE
      /\ reads' = [reads EXCEPT ![t] = 0] /\ writes' = [writes EXCEPT ![t] = 0]
      /\ UNCHANGED <<count, holder, owner_count, active_readers, pending_readers, pc>>
      /\ wait_status' = thread_unblock_each(wait_status,
                            {u \in Threads : InQueue(waiters, u)}, "B_ERROR")
  BY DEF rw_lock_destroy, MayDestroy
<1>2. /\ reads \in [Threads -> Nat] /\ writes \in [Threads -> Nat] /\ pc \in [Threads -> PC]
      /\ wait_status \in [Threads -> WaitStatus]
  BY DEF TypeOK
<1>3. holder = t
  BY <1>1 DEF LiveInv, HolderInv
<1>4. \A u \in Threads : u # t =>
          /\ reads[u] = 0 /\ writes[u] = 0
          /\ ~Woken(u, "wait_read") /\ ~Woken(u, "wait_write")
  BY <1>2, <1>3, Bounds DEF LiveInv, HolderInv
<1>5. /\ wait_status' \in [Threads -> WaitStatus]
      /\ \A u \in Threads : InQueue(waiters, u) /\ wait_status[u] = "waiting" => wait_status'[u] = "B_ERROR"
  BY <1>1, <1>2 DEF thread_unblock_each, thread_unblock_locked, thread_is_blocked, WaitStatus
<1>6. \A u \in Threads : reads'[u] = 0 /\ writes'[u] = 0
  BY <1>1, <1>2, <1>4
<1>7. ASSUME NEW u \in Threads
      PROVE  pc'[u] \in Waits \cup {"running"} /\ (pc'[u] \in Waits => wait_status'[u] = "B_ERROR")
  <2>1. pc[u] \in Waits \cup {"running"}
    BY <1>1, <1>2 DEF PC, Waits
  <2>2. ASSUME pc[u] \in Waits PROVE InQueue(waiters, u) /\ wait_status[u] = "waiting"
    <3>1. u # t
      BY <1>1, <2>2 DEF Waits
    <3> QED
      BY <1>4, <2>2, <3>1 DEF LiveInv, QueueInv, Woken, Waits
  <2> QED
    BY <1>1, <1>5, <2>1, <2>2
<1>8. TypeOK'
  BY <1>1, <1>2, <1>5 DEF TypeOK
<1> QED
  BY <1>1, <1>6, <1>7, <1>8 DEF DestroyedInv

\* After that the waiters leave, and the lock is made anew.
LEMMA AfterDestroyStep ==
    ASSUME TypeOK, destroyed, DestroyedInv, Next
    PROVE  TypeOK' /\ (destroyed' => DestroyedInv') /\ (~destroyed' => LiveInv')
<1>1. /\ reads \in [Threads -> Nat] /\ writes \in [Threads -> Nat] /\ pc \in [Threads -> PC]
      /\ waiters = <<>>
      /\ \A u \in Threads : reads[u] = 0 /\ writes[u] = 0 /\ pc[u] \in Waits \cup {"running"}
                            /\ (pc[u] \in Waits => wait_status[u] = "B_ERROR")
  BY DEF TypeOK, DestroyedInv
<1>2. CASE rw_lock_init
  <2>1. TypeOK'
    <3>1. /\ count' = 0 /\ holder' = NoThread /\ owner_count' = 0 /\ active_readers' = 0
          /\ pending_readers' = 0 /\ waiters' = <<>> /\ destroyed' = FALSE
          /\ UNCHANGED <<wait_status, pc, reads, writes>>
      BY <1>2, Zenon DEF rw_lock_init
    <3>2. waiters' \in Seq(Threads)
      BY <3>1
    <3> QED
      BY <3>1, <3>2 DEF TypeOK
  <2>2. Fresh'
    BY <1>1, <1>2, <2>1 DEF rw_lock_init, Fresh
  <2>3. (Fresh => LiveInv)'
    BY FreshIsLive, PTL
  <2> QED
    BY <1>2, <2>1, <2>2, <2>3 DEF rw_lock_init
<1>3. ASSUME NEW t \in Threads, pc[t] \in Waits, pc' = [pc EXCEPT ![t] = "running"],
             UNCHANGED <<lockVars, wait_status, reads, writes>>
      PROVE  TypeOK' /\ destroyed' /\ DestroyedInv'
  <2>1. /\ UNCHANGED <<count, holder, owner_count, active_readers, pending_readers, waiters,
                       destroyed, wait_status, reads, writes>>
    BY <1>3 DEF lockVars
  <2>2. TypeOK'
    BY <1>1, <1>3, <2>1 DEF TypeOK, PC
  <2>3. \A u \in Threads : pc'[u] = pc[u] \/ pc'[u] = "running"
    BY <1>1, <1>3
  <2> QED
    BY <1>1, <2>1, <2>2, <2>3 DEF DestroyedInv, Waits
<1>4. ASSUME NEW t \in Threads, read_lock_return(t) PROVE TypeOK' /\ destroyed' /\ DestroyedInv'
  <2>1. pc[t] = "wait_read" /\ wait_status[t] # "B_OK"
    BY <1>1, <1>4 DEF read_lock_return, Waits
  <2> QED
    BY <1>3, <1>4, <2>1 DEF read_lock_return, Waits
<1>5. ASSUME NEW t \in Threads, write_lock_return(t) PROVE TypeOK' /\ destroyed' /\ DestroyedInv'
  <2>1. pc[t] = "wait_write" /\ wait_status[t] # "B_OK"
    BY <1>1, <1>5 DEF write_lock_return, Waits
  <2> QED
    BY <1>3, <1>5, <2>1 DEF write_lock_return, Waits, lockVars
<1>6. ASSUME NEW t \in Threads
      PROVE  /\ ~read_lock_slow(t) /\ ~read_unlock_slow(t) /\ ~Unlock(t)
             /\ ~rw_lock_read_lock(t) /\ ~rw_lock_write_lock(t) /\ ~rw_lock_destroy(t)
  <2>1. pc[t] # "read_lock" /\ pc[t] # "read_unlock" /\ writes[t] = 0
    BY <1>1 DEF Waits
  <2>2. ~read_lock_slow(t) /\ ~read_unlock_slow(t)
    BY <2>1 DEF read_lock_slow, read_unlock_slow
  <2>3. ~Unlock(t)
    BY DEF Unlock, rw_lock_read_unlock, rw_lock_write_unlock
  <2>4. ~rw_lock_read_lock(t) /\ ~rw_lock_write_lock(t)
    BY DEF rw_lock_read_lock, rw_lock_write_lock, MayLock
  <2>5. ~rw_lock_destroy(t)
    BY <2>1 DEF rw_lock_destroy, MayDestroy
  <2> QED
    BY <2>2, <2>3, <2>4, <2>5
<1> QED
  BY <1>2, <1>4, <1>5, <1>6 DEF Next, ThreadStep

-----------------------------------------------------------------------------
(***************************************************************************)
(* The invariant is inductive.                                             *)
(***************************************************************************)

LEMMA InitIInv == Init => IInv
<1> SUFFICES ASSUME Init PROVE IInv
  OBVIOUS
<1>1. TypeOK
  <2>1. /\ wait_status \in [Threads -> WaitStatus] /\ pc \in [Threads -> PC]
        /\ reads \in [Threads -> Nat] /\ writes \in [Threads -> Nat]
    BY DEF Init, PC, WaitStatus
  <2>2. /\ count \in Nat /\ holder \in Threads \cup {NoThread} /\ owner_count \in Nat
        /\ active_readers \in Nat /\ pending_readers \in Nat
    BY DEF Init
  <2>3. waiters \in Seq(Threads)
    BY DEF Init
  <2>4. destroyed \in BOOLEAN
    BY DEF Init
  <2> QED
    BY <2>1, <2>2, <2>3, <2>4 DEF TypeOK
<1>2. Fresh
  BY <1>1 DEF Init, Fresh
<1> QED
  BY <1>1, <1>2, FreshIsLive DEF Init, IInv

LEMMA LiveStep ==
    ASSUME TypeOK, LiveInv, ~destroyed, Next
    PROVE  TypeOK' /\ (destroyed' => DestroyedInv') /\ (~destroyed' => LiveInv')
<1>1. ~rw_lock_init
  BY DEF rw_lock_init
<1>2. PICK t \in Threads : \/ ThreadStep(t) \/ Unlock(t) \/ rw_lock_read_lock(t)
                           \/ rw_lock_write_lock(t) \/ rw_lock_destroy(t)
  BY <1>1 DEF Next
<1>3. CASE rw_lock_destroy(t)
  BY <1>3, DestroyStep DEF rw_lock_destroy
<1>4. CASE ThreadStep(t)
  <2>1. destroyed' = destroyed
    BY <1>4 DEF ThreadStep, read_lock_slow, read_lock_return, read_unlock_slow, write_lock_return,
                lockVars
  <2> QED
    BY <1>4, <2>1, ReadLockSlowStep, ReadLockReturnStep, ReadUnlockSlowStep, WriteLockReturnStep
    DEF ThreadStep
<1>5. CASE Unlock(t)
  <2>1. destroyed' = destroyed
    BY <1>5 DEF Unlock, rw_lock_read_unlock, rw_lock_write_unlock
  <2> QED
    BY <1>5, <2>1, ReadUnlockStep, WriteUnlockStep DEF Unlock
<1>6. CASE rw_lock_read_lock(t)
  <2>1. destroyed' = destroyed
    BY <1>6 DEF rw_lock_read_lock
  <2> QED
    BY <1>6, <2>1, ReadLockStep
<1>7. CASE rw_lock_write_lock(t)
  <2>1. destroyed' = destroyed
    BY <1>7 DEF rw_lock_write_lock
  <2> QED
    BY <1>7, <2>1, WriteLockStep
<1> QED
  BY <1>2, <1>3, <1>4, <1>5, <1>6, <1>7

LEMMA StutterIInv == IInv /\ UNCHANGED vars => IInv'
  BY DEF IInv, vars, lockVars, TypeOK, LiveInv, DestroyedInv, QueueInv, OwnedInv, OwnedOf,
         HolderInv, CountInv, WaitInv, ReadInv, Woken, Wanting, ReaderShare, OwnedReads, At,
         QueuedWriters, ReadLocks, IsWriter

LEMMA NextIInv == IInv /\ [Next]_vars => IInv'
<1> SUFFICES ASSUME IInv, Next PROVE IInv'
  BY StutterIInv
<1>1. CASE destroyed
  BY <1>1, AfterDestroyStep DEF IInv
<1>2. CASE ~destroyed
  BY <1>2, LiveStep DEF IInv
<1> QED
  BY <1>1, <1>2

LEMMA AlwaysIInv == Spec => []IInv
  BY InitIInv, NextIInv, PTL DEF Spec

-----------------------------------------------------------------------------
(***************************************************************************)
(* What the invariant says.                                                *)
(***************************************************************************)

LEMMA WritersAreHolder ==
    ASSUME TypeOK, LiveInv
    PROVE  /\ holder = NoThread => Writers = {}
           /\ holder # NoThread => Writers = {holder} /\ holder \in Threads
<1>1. \A t \in Threads : t \in Writers <=> t = holder
  BY DEF Writers, LiveInv, HolderInv
<1>2. Writers \subseteq Threads /\ holder \in Threads \cup {NoThread}
  BY DEF Writers, TypeOK
<1> QED
  BY <1>1, <1>2, Bounds

LEMMA IInvExclusion == IInv => Exclusion
<1> SUFFICES ASSUME IInv, ~destroyed
             PROVE  Cardinality(Writers) <= 1 /\ (Writers # {} => Readers \subseteq Writers)
  BY DEF Exclusion
<1>1. TypeOK /\ LiveInv
  BY DEF IInv
<1>2. CASE holder = NoThread
  <2>1. Writers = {} /\ Cardinality(Writers) = 0
    BY <1>1, <1>2, WritersAreHolder, FS_EmptySet
  <2> QED
    BY <2>1
<1>3. CASE holder # NoThread
  <2>1. Writers = {holder}
    BY <1>1, <1>3, WritersAreHolder
  <2>2. Cardinality({holder}) = 1
    BY FS_Singleton
  <2>3. \A t \in Threads : t # holder => ~(reads[t] > 0) /\ ~Woken(t, "wait_read")
    BY <1>1, <1>3 DEF LiveInv, HolderInv
  <2>4. Readers \subseteq {holder}
    BY <2>3 DEF Readers
  <2> QED
    BY <2>1, <2>2, <2>4
<1> QED
  BY <1>2, <1>3

LEMMA IInvNoPanic == IInv => NoPanic
<1> SUFFICES ASSUME IInv, ~destroyed, NEW t \in Threads
             PROVE  /\ pc[t] = "read_lock" /\ holder # t /\ pending_readers = 0 => count >= Base
                    /\ pc[t] = "read_unlock" => ~ReadUnlockPanics(t)
                    /\ pc[t] = "read_unlock" /\ holder = t => owner_count % Base > 0
                    /\ pc[t] = "running" /\ writes[t] > 0 => holder = t /\ owner_count >= Base
  BY DEF NoPanic
<1>1. TypeOK /\ LiveInv
  BY DEF IInv
<1>2. /\ count \in Nat /\ reads[t] \in Nat /\ writes[t] \in Nat /\ holder \in Threads \cup {NoThread}
      /\ active_readers \in Nat
  BY <1>1 DEF TypeOK
<1>3. ASSUME pc[t] = "read_lock", pending_readers = 0 PROVE count >= Base
  <2>1. t \in At("read_lock")
    BY <1>3 DEF At
  <2>2. Cardinality(At("read_lock")) # 0
    BY <2>1, AtFacts
  <2>3. Wanting # {}
    BY <1>1, <1>3, <2>2 DEF LiveInv, ReadInv
  <2> QED
    BY <1>1, <2>3, CountFacts
<1>4. ASSUME pc[t] = "read_unlock", holder # t PROVE active_readers # 0
  <2>1. t \in At("read_unlock")
    BY <1>4 DEF At
  <2>2. Cardinality(At("read_unlock")) \in Nat /\ Cardinality(At("read_unlock")) > 0
    BY <2>1, AtFacts
  <2>3. holder = NoThread
    BY <1>1, <1>4 DEF LiveInv, HolderInv
  <2>4. Wanting # {}
    BY <1>1, <2>1 DEF LiveInv, ReadInv
  <2>5. QueuedWriters # {}
    BY <1>1, <2>3, <2>4, WantingParts
  <2>6. active_readers = ReadLocks + Cardinality(At("read_unlock"))
    BY <1>1, <2>3, <2>5 DEF LiveInv, WaitInv
  <2>7. ReadLocks \in Nat
    BY ReadLocksType
  <2> QED
    BY <2>2, <2>6, <2>7
<1>5. ASSUME holder = t
      PROVE  /\ owner_count = Base * writes[t] + reads[t]
                                + (IF pc[t] = "read_unlock" THEN 1 ELSE 0)
             /\ Base * writes[t] \in Nat
             /\ writes[t] > 0 => Base * writes[t] >= Base
  BY <1>1, <1>2, <1>5, Bounds, Multiple DEF LiveInv, HolderInv
<1>6. ASSUME pc[t] = "read_unlock", holder = t PROVE owner_count % Base > 0
  <2>1. reads[t] + writes[t] < MaxNesting
    BY <1>1, <1>6 DEF LiveInv, OwnedInv, OwnedOf
  <2>2. PICK r \in Nat : r = reads[t] + 1 /\ 0 < r /\ r < Base
    <3>1. reads[t] + 1 \in Nat /\ 0 < reads[t] + 1 /\ reads[t] + 1 < Base
      BY <1>2, <2>1, Bounds
    <3> QED
      BY <3>1
  <2>3. owner_count = Base * writes[t] + r
    <3>1. owner_count = Base * writes[t] + reads[t] + 1
      BY <1>5, <1>6
    <3> QED
      BY <1>2, <1>5, <1>6, <2>2, <3>1
  <2> QED
    BY <1>2, <2>2, <2>3, Bounds, Remainder
<1>7. ASSUME pc[t] = "running", writes[t] > 0 PROVE holder = t /\ owner_count >= Base
  <2>1. holder = t
    BY <1>1, <1>7 DEF LiveInv, HolderInv
  <2>2. owner_count = Base * writes[t] + reads[t] + 0
    BY <1>5, <1>7, <2>1
  <2> QED
    BY <1>2, <1>5, <1>7, <2>1, <2>2, Bounds
<1> QED
  BY <1>3, <1>4, <1>6, <1>7 DEF ReadUnlockPanics

LEMMA IInvReaderCounts == IInv => ReaderCountsInv
<1> SUFFICES ASSUME IInv, ~destroyed
             PROVE  /\ active_readers > 0 => QueuedWriters # {}
                    /\ QueuedWriters # {} /\ Writers = {} =>
                          active_readers = ReadLocks + Cardinality(At("read_unlock"))
                    /\ pending_readers <= Cardinality(At("read_lock"))
                    /\ Writers \cup QueuedWriters = {} =>
                          /\ pending_readers = Cardinality(At("read_lock"))
                          /\ QueuedReaders = {}
  BY DEF ReaderCountsInv
<1>1. TypeOK /\ LiveInv
  BY DEF IInv
<1>2. /\ active_readers \in Nat /\ pending_readers \in Nat
      /\ Cardinality(At("read_lock")) \in Nat
  BY <1>1, AtFacts DEF TypeOK
<1>3. holder # NoThread => active_readers = 0 /\ pending_readers = 0 /\ Writers # {}
  BY <1>1, WritersAreHolder DEF LiveInv, HolderInv
<1>4. holder = NoThread => Wanting = QueuedWriters
  BY <1>1, WantingParts
<1>5. Wanting = {} => /\ active_readers = 0 /\ pending_readers = Cardinality(At("read_lock"))
                      /\ QueuedReaders = {}
  BY <1>1, QueuedIsThere DEF LiveInv, ReadInv
<1>6. holder = NoThread /\ QueuedWriters # {} =>
          /\ active_readers = ReadLocks + Cardinality(At("read_unlock"))
          /\ pending_readers <= Cardinality(At("read_lock"))
  BY <1>1 DEF LiveInv, WaitInv
<1>7. active_readers > 0 => QueuedWriters # {}
  BY <1>2, <1>3, <1>4, <1>5
<1>8. pending_readers <= Cardinality(At("read_lock"))
  BY <1>2, <1>3, <1>4, <1>5, <1>6
<1> QED
  BY <1>3, <1>4, <1>5, <1>6, <1>7, <1>8

LEMMA IInvNoLostWakeup == IInv => NoLostWakeup
<1> SUFFICES ASSUME IInv, ~destroyed, waiters # <<>>, Writers = {}
             PROVE  /\ QueuedWriters # {}
                    /\ Readers \cup At("read_unlock") \cup At("read_lock") # {}
  BY DEF NoLostWakeup
<1>1. TypeOK /\ LiveInv
  BY DEF IInv
<1>2. holder = NoThread
  BY <1>1, WritersAreHolder
<1>3. QueuedWriters # {}
  <2>1. Wanting # {}
    BY <1>1 DEF LiveInv, ReadInv
  <2> QED
    BY <1>1, <1>2, <2>1, WantingParts
<1>4. /\ active_readers = ReadLocks + Cardinality(At("read_unlock"))
      /\ pending_readers <= Cardinality(At("read_lock"))
      /\ active_readers + pending_readers > 0
  BY <1>1, <1>2, <1>3 DEF LiveInv, WaitInv
<1>5. /\ active_readers \in Nat /\ pending_readers \in Nat /\ ReadLocks \in Nat
      /\ Cardinality(At("read_lock")) \in Nat /\ Cardinality(At("read_unlock")) \in Nat
  BY <1>1, AtFacts, ReadLocksType DEF TypeOK
<1>6. \/ Cardinality(At("read_lock")) # 0
      \/ Cardinality(At("read_unlock")) # 0
      \/ ReadLocks # 0
  BY <1>4, <1>5
<1>7. ASSUME ReadLocks # 0 PROVE Readers # {}
  <2> SUFFICES ASSUME Readers = {} PROVE FALSE
    OBVIOUS
  <2>1. \A t \in Threads : ~(reads[t] > 0) /\ ~Woken(t, "wait_read")
    BY DEF Readers
  <2>2. WokenReaders = {}
    BY <2>1 DEF WokenReaders
  <2>3. OwnedReads = {}
    <3> SUFFICES ASSUME NEW r \in OwnedReads PROVE FALSE
      OBVIOUS
    <3>1. r[1] \in Threads /\ r[2] \in 1 .. MaxNesting /\ r[2] <= reads[r[1]]
      BY DEF OwnedReads
    <3>2. reads[r[1]] \in Nat /\ ~(reads[r[1]] > 0)
      BY <1>1, <2>1, <3>1 DEF TypeOK
    <3> QED
      BY <3>1, <3>2, Bounds
  <2>4. Cardinality(WokenReaders) = 0 /\ Cardinality(OwnedReads) = 0
    BY <2>2, <2>3, FS_EmptySet
  <2> QED
    BY <1>7, <2>4 DEF ReadLocks, WokenReaders
<1> QED
  BY <1>3, <1>6, <1>7, AtFacts

-----------------------------------------------------------------------------
(***************************************************************************)
(* Theorems.                                                               *)
(***************************************************************************)

\* Whatever the readers' atomic_add()s and the writers' sections do in between, a writer of
\* the lock is alone.
THEOREM RWLockExcludes == Spec => []Exclusion
  BY AlwaysIInv, IInvExclusion, PTL

\* No ASSERT() and no panic() of lock.cpp is hit by a caller that keeps the rules.
THEOREM RWLockNeverPanics == Spec => []NoPanic
  BY AlwaysIInv, IInvNoPanic, PTL

\* active_readers and pending_readers are the numbers of readers that lock.h says they are.
THEOREM RWLockCountsReaders == Spec => []ReaderCountsInv
  BY AlwaysIInv, IInvReaderCounts, PTL

\* Whenever a thread waits for the lock somebody else is there who will wake it.
THEOREM RWLockLosesNoWakeup == Spec => []NoLostWakeup
  BY AlwaysIInv, IInvNoLostWakeup, PTL

\* The fields of the lock keep their types; the counters never become negative.
THEOREM RWLockTypes == Spec => []TypeOK
<1>1. IInv => TypeOK
  BY DEF IInv
<1> QED
  BY <1>1, AlwaysIInv, PTL

=============================================================================
