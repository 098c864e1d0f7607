----------------------------- MODULE SemProofs -----------------------------
(***************************************************************************)
(* Proofs about the semaphores.  The table (module SemTable): no slot is   *)
(* lost or freed twice, an id leads to its slot, and the lists of the      *)
(* teams have the semaphores the teams own, as long as nobody has clashed  *)
(* with sem_delete_owned_sems().  The units (module Semaphore): no unit is *)
(* lost, nobody sleeps outside a queue or is overtaken in it, those who    *)
(* selected a semaphore are notified, and only a release leaves somebody   *)
(* asleep beside the units it waits for.                                   *)
(***************************************************************************)
EXTENDS SemTable, Semaphore, LockLemmas

\* RemoveAt() and Dequeue() return the same queue.
LEMMA RemoveAtElements ==
    ASSUME NEW U, NEW s \in Seq(U), NEW k \in 1 .. Len(s)
    PROVE  RemoveAt(s, k) = [i \in 1 .. (Len(s) - 1) |-> IF i < k THEN s[i] ELSE s[i + 1]]
<1> DEFINE n == Len(s)
           a == SubSeq(s, 1, k - 1)
           b == SubSeq(s, k + 1, n)
<1>1. n \in Nat /\ k \in 1 .. n
  OBVIOUS
<1>2. a \in Seq(U) /\ Len(a) = k - 1 /\ \A i \in 1 .. (k - 1) : a[i] = s[i]
  OBVIOUS
<1>3. b \in Seq(U) /\ Len(b) = n - k /\ \A i \in 1 .. (n - k) : b[i] = s[k + i]
  OBVIOUS
<1> HIDE DEF a, b
<1>4. /\ a \o b \in Seq(U)
      /\ Len(a \o b) = Len(a) + Len(b)
      /\ \A i \in 1 .. Len(a) + Len(b) : (a \o b)[i] = IF i <= Len(a) THEN a[i] ELSE b[i - Len(a)]
  BY <1>2, <1>3, ConcatProperties, Zenon
<1> DEFINE c == a \o b
<1> HIDE DEF c
<1>5. c \in Seq(U) /\ Len(c) = n - 1
  BY <1>1, <1>2, <1>3, <1>4 DEF c
<1>6. ASSUME NEW i \in 1 .. (n - 1)
      PROVE  c[i] = IF i < k THEN s[i] ELSE s[i + 1]
  <2>1. c[i] = IF i <= k - 1 THEN a[i] ELSE b[i - (k - 1)]
    BY <1>1, <1>2, <1>3, <1>4 DEF c
  <2>2. CASE i < k
    BY <1>1, <1>2, <2>1, <2>2
  <2>3. CASE ~(i < k)
    <3>1. i - (k - 1) \in 1 .. (n - k) /\ k + (i - (k - 1)) = i + 1
      BY <1>1, <2>3
    <3> QED
      BY <1>1, <1>3, <2>1, <2>3, <3>1
  <2> QED
    BY <2>2, <2>3
<1>7. DOMAIN c = 1 .. (n - 1)
  BY <1>5
<1>8. c = [i \in 1 .. (n - 1) |-> IF i < k THEN s[i] ELSE s[i + 1]]
  BY <1>5, <1>6, <1>7
<1> QED
  BY <1>8 DEF RemoveAt, a, b, c

\* RemoveFirst() takes the element out, if it is there.
LEMMA RemoveFirstFacts ==
    ASSUME NEW U, NEW s \in Seq(U), NEW t, Distinct(s)
    PROVE  RemoveFirst(s, t) = IF InQueue(s, t) THEN Dequeue(s, t) ELSE s
<1> DEFINE I == {i \in 1 .. Len(s) : s[i] = t}
<1>1. InQueue(s, t) <=> \E i \in 1 .. Len(s) : s[i] = t
  BY DEF InQueue
<1>2. CASE ~InQueue(s, t)
  BY <1>1, <1>2 DEF RemoveFirst
<1>3. CASE InQueue(s, t)
  <2>1. SelectInSeq(s, LAMBDA v : v = t) = IF I # {} THEN Min(I) ELSE 0
    BY DEF SelectInSeq
  <2>2. RemoveFirst(s, t) = RemoveAt(s, Min(I))
    BY <1>1, <1>3, <2>1 DEF RemoveFirst
  <2>3. PICK k \in 1 .. Len(s) : s[k] = t
    BY <1>1, <1>3
  <2>4. I = {k}
    BY <2>3 DEF Distinct
  <2>5. Min(I) = k
    BY <2>4 DEF Min
  <2>6. Position(s, t) = k
    BY <2>3 DEF Position, Distinct
  <2> HIDE DEF I
  <2>7. RemoveFirst(s, t) = [i \in 1 .. (Len(s) - 1) |-> IF i < k THEN s[i] ELSE s[i + 1]]
    BY <2>2, <2>5, RemoveAtElements
  <2> QED
    BY <1>3, <2>6, <2>7 DEF Dequeue
<1> QED
  BY <1>2, <1>3

-----------------------------------------------------------------------------
(***************************************************************************)
(* The inductive invariant.                                                *)
(***************************************************************************)

\* The free list has a slot once, and no slot that is used.
FreeInv ==
    /\ Distinct(free)
    /\ used = MaxSems - Len(free)
    /\ \A s \in Slots : InQueue(free, s) => id[s] = -1

\* The id of a slot, and the next one, lead to the slot.
IdInv ==
    \A s \in Slots : /\ SlotOf(next_id[s]) = s
                     /\ id[s] # -1 => SlotOf(id[s]) = s

\* What an actor is about to free is neither used nor free, and nobody else is
\* about to free it.
FreeingInv ==
    /\ \A a \in BeingFreed : /\ freed[a] # -1
                             /\ id[SlotOf(freed[a])] = -1
                             /\ ~InQueue(free, SlotOf(freed[a]))
    /\ \A a, b \in BeingFreed : SlotOf(freed[a]) = SlotOf(freed[b]) => a = b

\* No slot is lost.
KeptInv ==
    \A s \in Slots : \/ id[s] # -1
                     \/ InQueue(free, s)
                     \/ \E a \in BeingFreed : SlotOf(freed[a]) = s

\* A thread that has created a semaphore has the slot for itself, and the team
\* it is to be listed in is alive.
InsertInv ==
    /\ \A t \in Callers : callerPc[t] = "insert" => /\ id[slot[t]] # -1
                                              /\ owner[slot[t]] \notin dying
    /\ \A t, u \in Callers :
          callerPc[t] = "insert" /\ callerPc[u] = "insert" /\ slot[t] = slot[u] => t = u

\* sem_delete_owned_sems() of the team has taken s from the list, and has not
\* deleted it yet.
BeingDeleted(team, s) == teamPc[team] = "uninit" /\ current[team] = s

\* The semaphore s exists, is the team's, and its creator has listed it.
Listed(team, s) == id[s] # -1 /\ owner[s] = team /\ ~BeingInserted(s)

\* Which of the two lists of a team is in use, and what they have.
TeamInv(team) ==
    /\ Distinct(sem_list[team]) /\ Distinct(moved[team])
    /\ team \in dying => sem_list[team] = <<>>
    /\ teamPc[team] = "idle" => moved[team] = <<>>
    /\ teamPc[team] = "unlink" => InQueue(moved[team], current[team])
    /\ \A s \in Slots :
          /\ InQueue(sem_list[team], s) => /\ Listed(team, s)
                                           /\ ~InQueue(moved[team], s)
                                           /\ ~BeingDeleted(team, s)
          /\ InQueue(moved[team], s) => Listed(team, s) /\ ~BeingDeleted(team, s)
          /\ BeingDeleted(team, s) => Listed(team, s)

\* A semaphore has an owner, which is going to find it.
OwnerInv ==
    \A s \in Slots : id[s] # -1 =>
        \E team \in Teams : /\ owner[s] = team
                            /\ \/ InQueue(sem_list[team], s)
                               \/ InQueue(moved[team], s)
                               \/ BeingInserted(s)
                               \/ BeingDeleted(team, s)

ListInv == \A team \in Teams : TeamInv(team)

\* What concerns the slots, and what concerns the lists of the teams.
SlotInv == FreeInv /\ IdInv /\ FreeingInv /\ KeptInv
TeamListsInv == InsertInv /\ ListInv /\ OwnerInv

IInv == TableTypeOK /\ SlotInv /\ TeamListsInv

-----------------------------------------------------------------------------
(***************************************************************************)
(* Lists of slots and ids.                                                 *)
(***************************************************************************)

\* list_remove_link(), whether the slot is in the list or not.
LEMMA UnlinkFacts ==
    ASSUME NEW q \in Seq(Slots), Distinct(q), NEW s
    PROVE  /\ RemoveFirst(q, s) \in Seq(Slots)
           /\ Distinct(RemoveFirst(q, s))
           /\ \A u : InQueue(RemoveFirst(q, s), u) <=> u # s /\ InQueue(q, u)
           /\ q = <<>> => RemoveFirst(q, s) = <<>>
<1>0. q = <<>> => ~InQueue(q, s)
  BY DEF InQueue
<1>1. CASE InQueue(q, s)
  <2>1. RemoveFirst(q, s) = Dequeue(q, s)
    BY <1>1, RemoveFirstFacts
  <2> QED
    BY <1>0, <1>1, <2>1, DequeueType, DequeueFacts
<1>2. CASE ~InQueue(q, s)
  <2>1. RemoveFirst(q, s) = q
    BY <1>2, RemoveFirstFacts
  <2> QED
    BY <1>2, <2>1
<1> QED
  BY <1>1, <1>2

\* A list without repetitions is not longer than the table.
LEMMA FreeBound ==
    ASSUME NEW q \in Seq(Slots), Distinct(q)
    PROVE  Len(q) <= MaxSems
<1> DEFINE R == {q[i] : i \in 1 .. Len(q)}
<1>1. Cardinality(R) = Len(q)
  <2>1. Len(q) \in 0 .. Len(q)
    OBVIOUS
  <2> QED
    BY <2>1, PrefixCard
<1>2. R \subseteq Slots
  OBVIOUS
<1>3. IsFiniteSet(Slots) /\ Cardinality(Slots) = MaxSems
  <2>1. 0 \in Int /\ MaxSems - 1 \in Int /\ ~(0 > MaxSems - 1)
    BY SemTableAssumption
  <2>2. IsFiniteSet(0 .. MaxSems - 1) /\ Cardinality(0 .. MaxSems - 1) = (MaxSems - 1) - 0 + 1
    BY <2>1, FS_Interval
  <2> QED
    BY <2>2, SemTableAssumption DEF Slots
<1>4. Cardinality(R) <= Cardinality(Slots)
  BY <1>2, <1>3, FS_Subset
<1> QED
  BY <1>1, <1>3, <1>4

\* The remainder of a slot, of an id and of the id after it.
LEMMA SlotOfSlot ==
    ASSUME NEW s \in Slots
    PROVE  s \in SemIds /\ SlotOf(s) = s
  BY SemTableAssumption DEF Slots, SemIds, SlotOf

LEMMA SlotOfType ==
    ASSUME NEW n \in SemIds
    PROVE  SlotOf(n) \in Slots
  BY SemTableAssumption DEF Slots, SemIds, SlotOf

LEMMA AddModulus ==
    ASSUME NEW b \in Nat \ {0}, NEW n \in Nat
    PROVE  (n + b) % b = n % b
<1> DEFINE x == n + b
<1>1. PICK q \in Int, r \in 0 .. (b - 1) : n = b * q + r /\ n % b = r
  <2>1. n = b * (n \div b) + (n % b) /\ n % b \in 0 .. (b - 1) /\ n \div b \in Int
    OBVIOUS
  <2> QED
    BY <2>1
<1>2. PICK p \in Int, l \in 0 .. (b - 1) : x = b * p + l /\ x % b = l
  <2>1. x = b * (x \div b) + (x % b) /\ x % b \in 0 .. (b - 1) /\ x \div b \in Int
    OBVIOUS
  <2> QED
    BY <2>1
<1>3. PICK d \in Int : d = p - q - 1
  OBVIOUS
<1>4. b * d = r - l
  BY <1>1, <1>2, <1>3
<1>5. r - l < b /\ r - l > -b
  OBVIOUS
<1>6. /\ d >= 1 => b * d >= b
      /\ d <= -1 => b * d <= -b
      /\ d = 0 => b * d = 0
  OBVIOUS
<1>7. r = l
  BY <1>4, <1>5, <1>6
<1> QED
  BY <1>1, <1>2, <1>7

LEMMA NextIdFacts ==
    ASSUME NEW n \in SemIds
    PROVE  NextId(n) \in SemIds /\ SlotOf(NextId(n)) = SlotOf(n)
<1>1. CASE n + MaxSems > MaxId
  <2>1. NextId(n) = SlotOf(n)
    BY <1>1 DEF NextId
  <2> QED
    BY <2>1, SlotOfType, SlotOfSlot
<1>2. CASE ~(n + MaxSems > MaxId)
  <2>1. NextId(n) = n + MaxSems
    BY <1>2 DEF NextId
  <2>2. n + MaxSems \in SemIds
    BY <1>2, SemTableAssumption DEF SemIds
  <2>3. (n + MaxSems) % MaxSems = n % MaxSems
    <3>1. n \in Nat /\ MaxSems \in Nat \ {0}
      BY SemTableAssumption DEF SemIds
    <3> QED
      BY <3>1, AddModulus, Zenon
  <2>4. SlotOf(n + MaxSems) = SlotOf(n)
    BY <2>2, <2>3, SemTableAssumption DEF SemIds, SlotOf
  <2> QED
    BY <2>1, <2>2, <2>4
<1> QED
  BY <1>1, <1>2

-----------------------------------------------------------------------------
(***************************************************************************)
(* The slots: a step takes a slot from the free list, makes one unused, or *)
(* puts one into the free list.                                            *)
(***************************************************************************)

LEMMA SlotsKeep ==
    ASSUME SlotInv, UNCHANGED <<id, next_id, free, used, freed>>, BeingFreed' = BeingFreed
    PROVE  SlotInv'
  BY DEF SlotInv, FreeInv, IdInv, FreeingInv, KeptInv

\* create_sem_etc()
LEMMA SlotsTake ==
    ASSUME TableTypeOK, SlotInv, free # <<>>, NEW h \in Slots, h = Head(free),
           free' = Tail(free), id' = [id EXCEPT ![h] = next_id[h]],
           used' = used + 1, UNCHANGED <<next_id, freed>>, BeingFreed' = BeingFreed
    PROVE  SlotInv'
<1> USE DEF SlotInv
<1>1. /\ free \in Seq(Slots) /\ free' \in Seq(Slots) /\ Len(free') = Len(free) - 1
      /\ Distinct(free') /\ InQueue(free, h)
      /\ \A u : InQueue(free', u) <=> u # h /\ InQueue(free, u)
  <2>1. free \in Seq(Slots) /\ Distinct(free)
    BY DEF TableTypeOK, FreeInv
  <2>2. Len(Tail(free)) = Len(free) - 1 /\ Tail(free) \in Seq(Slots)
    BY <2>1
  <2> QED
    BY <2>1, <2>2, TailFacts
<1>2. id' \in [Slots -> SemIds \cup {-1}] /\ next_id[h] \in SemIds
  BY DEF TableTypeOK
<1>3. id'[h] = next_id[h] /\ id'[h] # -1 /\ \A s \in Slots : s # h => id'[s] = id[s]
  BY <1>2 DEF TableTypeOK, SemIds
<1>4. FreeInv'
  <2>1. used' = MaxSems - Len(free')
    BY <1>1, SemTableAssumption DEF FreeInv, TableTypeOK
  <2> QED
    BY <1>1, <1>3, <2>1 DEF FreeInv
<1>5. IdInv'
  BY <1>3 DEF IdInv
<1>6. \A a \in BeingFreed : SlotOf(freed[a]) # h
  BY <1>1 DEF FreeingInv
<1>7. FreeingInv'
  <2>1. ASSUME NEW a \in BeingFreed
        PROVE  id'[SlotOf(freed[a])] = -1 /\ ~InQueue(free', SlotOf(freed[a]))
    <3>1. freed[a] \in SemIds
      BY DEF FreeingInv, BeingFreed, TableTypeOK
    <3>2. SlotOf(freed[a]) \in Slots /\ SlotOf(freed[a]) # h
      BY <1>6, <3>1, SlotOfType
    <3> QED
      BY <1>1, <1>3, <3>2 DEF FreeingInv
  <2> QED
    BY <2>1 DEF FreeingInv
<1>8. KeptInv'
  BY <1>1, <1>3 DEF KeptInv
<1> QED
  BY <1>4, <1>5, <1>7, <1>8

\* uninit_sem_locked() up to the free list.
LEMMA SlotsDelete ==
    ASSUME TableTypeOK, SlotInv, NEW s \in Slots, id[s] # -1,
           NEW a \in Actors, a \notin BeingFreed, BeingFreed' = BeingFreed \cup {a},
           id' = [id EXCEPT ![s] = -1], freed' = [freed EXCEPT ![a] = id[s]],
           UNCHANGED <<next_id, free, used>>
    PROVE  SlotInv'
<1> USE DEF SlotInv
<1>1. id'[s] = -1 /\ \A u \in Slots : u # s => id'[u] = id[u]
  BY DEF TableTypeOK
<1>2. /\ SlotOf(id[s]) = s /\ id[s] \in SemIds
      /\ freed'[a] = id[s] /\ \A b \in BeingFreed : freed'[b] = freed[b]
      /\ BeingFreed \subseteq Actors
  BY DEF TableTypeOK, IdInv, BeingFreed
<1>3. \A b \in BeingFreed : SlotOf(freed[b]) \in Slots /\ SlotOf(freed[b]) # s
  <2>1. ASSUME NEW b \in BeingFreed
        PROVE  SlotOf(freed[b]) \in Slots /\ SlotOf(freed[b]) # s
    <3>1. freed[b] \in SemIds /\ id[SlotOf(freed[b])] = -1
      BY <1>2 DEF TableTypeOK, FreeingInv
    <3> QED
      BY <3>1, SlotOfType
  <2> QED
    BY <2>1
<1>4. FreeInv'
  BY <1>1 DEF FreeInv
<1>5. IdInv'
  BY <1>1 DEF IdInv
<1>6. ~InQueue(free, s)
  BY DEF FreeInv
<1>7. FreeingInv'
  <2>1. ASSUME NEW b \in BeingFreed'
        PROVE  /\ freed'[b] # -1 /\ id'[SlotOf(freed'[b])] = -1
               /\ ~InQueue(free, SlotOf(freed'[b]))
    <3>1. CASE b = a
      BY <1>1, <1>2, <1>6, <3>1
    <3>2. CASE b \in BeingFreed
      <4>1. freed'[b] = freed[b] /\ SlotOf(freed[b]) \in Slots /\ SlotOf(freed[b]) # s
        BY <1>2, <1>3, <3>2
      <4> QED
        BY <1>1, <3>2, <4>1 DEF FreeingInv
    <3> QED
      BY <3>1, <3>2
  <2>2. ASSUME NEW b \in BeingFreed', NEW c \in BeingFreed',
               SlotOf(freed'[b]) = SlotOf(freed'[c])
        PROVE  b = c
    BY <1>2, <1>3, <2>2 DEF FreeingInv
  <2> QED
    BY <2>1, <2>2 DEF FreeingInv
<1>8. KeptInv'
  <2>1. ASSUME NEW u \in Slots
        PROVE  id'[u] # -1 \/ InQueue(free, u) \/ \E b \in BeingFreed' : SlotOf(freed'[b]) = u
    BY <1>1, <1>2 DEF KeptInv
  <2> QED
    BY <2>1 DEF KeptInv
<1> QED
  BY <1>4, <1>5, <1>7, <1>8

\* free_sem_slot()
LEMMA SlotsFree ==
    ASSUME TableTypeOK, SlotInv, NEW a \in BeingFreed, BeingFreed' = BeingFreed \ {a},
           FreeSlot(freed[a]), freed' = [freed EXCEPT ![a] = -1], UNCHANGED id
    PROVE  /\ SlotInv'
           /\ free' \in Seq(Slots) /\ next_id' \in [Slots -> SemIds]
<1> USE DEF SlotInv
<1>1. BeingFreed \subseteq Actors /\ \A b \in BeingFreed' : freed'[b] = freed[b] /\ b # a
  BY DEF TableTypeOK, BeingFreed
<1>2. PICK n \in SemIds : n = freed[a]
  BY <1>1 DEF TableTypeOK, FreeingInv
<1>3. PICK s \in Slots : s = SlotOf(n)
  BY SlotOfType
<1>4. id[s] = -1 /\ ~InQueue(free, s)
  BY <1>2, <1>3 DEF FreeingInv
<1>5. free' = Append(free, s) /\ used' = used - 1
  BY <1>2, <1>3 DEF FreeSlot
<1>6. /\ free \in Seq(Slots) /\ free' \in Seq(Slots) /\ Len(free') = Len(free) + 1
      /\ Distinct(free') /\ \A u : InQueue(free', u) <=> u = s \/ InQueue(free, u)
  <2>1. free \in Seq(Slots) /\ Distinct(free)
    BY DEF TableTypeOK, FreeInv
  <2>2. Len(Append(free, s)) = Len(free) + 1 /\ Append(free, s) \in Seq(Slots)
    BY <2>1
  <2> QED
    BY <1>4, <1>5, <2>1, <2>2, AppendFacts
<1>7. /\ next_id' = [u \in Slots |-> IF u = s THEN NextId(n) ELSE next_id[u]]
      /\ NextId(n) \in SemIds /\ SlotOf(NextId(n)) = s
  BY <1>2, <1>3, NextIdFacts DEF FreeSlot
<1>8. next_id' \in [Slots -> SemIds]
  BY <1>7 DEF TableTypeOK
<1>9. FreeInv'
  <2>1. used' = MaxSems - Len(free')
    BY <1>5, <1>6, SemTableAssumption DEF FreeInv, TableTypeOK
  <2> QED
    BY <1>4, <1>6, <2>1 DEF FreeInv
<1>10. IdInv'
  BY <1>7 DEF IdInv
<1>11. FreeingInv'
  <2>1. ASSUME NEW b \in BeingFreed'
        PROVE  SlotOf(freed[b]) # s
    BY <1>1, <1>2, <1>3, <2>1 DEF FreeingInv
  <2> QED
    BY <1>1, <1>6, <2>1 DEF FreeingInv
<1>12. KeptInv'
  <2>1. ASSUME NEW u \in Slots
        PROVE  id[u] # -1 \/ InQueue(free', u) \/ \E b \in BeingFreed' : SlotOf(freed'[b]) = u
    <3>1. CASE u = s
      BY <1>6, <3>1
    <3>2. CASE u # s
      BY <1>1, <1>2, <1>3, <1>6, <3>2 DEF KeptInv
    <3> QED
      BY <3>1, <3>2
  <2> QED
    BY <2>1 DEF KeptInv
<1> QED
  BY <1>6, <1>8, <1>9, <1>10, <1>11, <1>12

-----------------------------------------------------------------------------
(***************************************************************************)
(* The steps.                                                              *)
(***************************************************************************)

\* The bound on sUsedSems follows from the free list.
LEMMA UsedBound ==
    ASSUME free \in Seq(Slots), FreeInv
    PROVE  used \in 0 .. MaxSems
<1>1. Len(free) <= MaxSems /\ Len(free) \in Nat
  BY FreeBound DEF FreeInv
<1> QED
  BY <1>1, SemTableAssumption DEF FreeInv

LEMMA InitIInv == TableInit => IInv
<1> SUFFICES ASSUME TableInit PROVE IInv
  OBVIOUS
<1>1. /\ free \in Seq(Slots) /\ Len(free) = MaxSems /\ DOMAIN free = 1 .. MaxSems
      /\ \A i \in 1 .. MaxSems : free[i] = i - 1
  <2>1. \A i \in 1 .. MaxSems : i - 1 \in Slots
    BY SemTableAssumption DEF Slots
  <2>2. free = [i \in 1 .. MaxSems |-> i - 1] /\ MaxSems \in Nat
    BY SemTableAssumption DEF TableInit
  <2> QED
    BY <2>1, <2>2
<1>2. FreeInv
  <2>1. Distinct(free)
    BY <1>1 DEF Distinct
  <2>2. used = MaxSems - Len(free)
    BY <1>1, SemTableAssumption DEF TableInit
  <2> QED
    BY <2>1, <2>2 DEF FreeInv, TableInit
<1>3. \A s \in Slots : InQueue(free, s)
  <2>1. ASSUME NEW s \in Slots PROVE InQueue(free, s)
    <3>1. s + 1 \in 1 .. MaxSems /\ (s + 1) - 1 = s
      BY SemTableAssumption DEF Slots
    <3> QED
      BY <1>1, <3>1 DEF InQueue
  <2> QED
    BY <2>1
<1>4. BeingFreed = {}
  BY DEF TableInit, BeingFreed
<1>5. IdInv
  BY SlotOfSlot DEF IdInv, TableInit
<1>6. FreeingInv /\ KeptInv
  BY <1>3, <1>4 DEF FreeingInv, KeptInv
<1>7. TableTypeOK
  <2>1. used \in 0 .. MaxSems
    BY <1>1, <1>2, UsedBound
  <2>2. next_id \in [Slots -> SemIds] /\ 0 \in Slots
    BY SlotOfSlot, SemTableAssumption DEF TableInit, Slots
  <2>3. clash \in BOOLEAN
    BY Zenon DEF TableInit
  <2>4. teamPc \in [Teams -> {"idle", "next", "unlink", "uninit", "free"}]
    BY DEF TableInit
  <2> QED
    BY <1>1, <2>1, <2>2, <2>3, <2>4 DEF TableTypeOK, TableInit
<1>8. TeamListsInv
  BY DEF TeamListsInv, InsertInv, ListInv, TeamInv, Listed, OwnerInv, TableInit, BeingDeleted, InQueue, Distinct
<1> QED
  BY <1>2, <1>5, <1>6, <1>7, <1>8 DEF IInv, SlotInv

LEMMA CreateStep ==
    ASSUME IInv, NEW t \in Callers, NEW team \in Teams, NEW locked \in BOOLEAN,
           create_sem_etc(t, team, locked)
    PROVE  IInv'
<1> DEFINE h == Head(free)
<1> USE DEF IInv
<1>1. /\ free \in Seq(Slots) /\ free # <<>> /\ h \in Slots /\ InQueue(free, h)
      /\ Tail(free) \in Seq(Slots)
  <2>1. free \in Seq(Slots) /\ free # <<>> /\ Distinct(free)
    BY DEF create_sem_etc, TableTypeOK, SlotInv, FreeInv
  <2> QED
    BY <2>1, TailFacts
<1>2. id[h] = -1 /\ next_id[h] \in SemIds
  BY <1>1 DEF SlotInv, FreeInv, TableTypeOK
<1>3. /\ free' = Tail(free)
      /\ id' = [id EXCEPT ![h] = next_id[h]]
      /\ owner' = [owner EXCEPT ![h] = team]
      /\ used' = used + 1
      /\ callerPc[t] = "running" /\ team \notin dying
      /\ UNCHANGED <<next_id, dying, moved, teamPc, current, freed, clash>>
      /\ \/ /\ sem_list' = [sem_list EXCEPT ![team] = Append(@, h)]
            /\ UNCHANGED <<callerPc, slot>>
         \/ /\ callerPc' = [callerPc EXCEPT ![t] = "insert"]
            /\ slot' = [slot EXCEPT ![t] = h]
            /\ UNCHANGED sem_list
  BY DEF create_sem_etc, MayCall
<1> HIDE DEF h
<1>4. BeingFreed' = BeingFreed
  BY <1>3, SemTableAssumption DEF BeingFreed, TableTypeOK
<1>5. SlotInv'
  <2>1. PICK g \in Slots : g = h
    BY <1>1
  <2>2. g = Head(free)
    BY <2>1 DEF h
  <2> QED
    BY <1>1, <1>3, <1>4, <2>1, <2>2, SlotsTake
<1>6. TableTypeOK'
  <2>1. used' \in 0 .. MaxSems
    <3>1. (free \in Seq(Slots) /\ FreeInv => used \in 0 .. MaxSems)'
      BY UsedBound, PTL
    <3> QED
      BY <1>1, <1>3, <1>5, <3>1 DEF SlotInv
  <2>2. sem_list' \in [Teams -> Seq(Slots)]
    <3>1. sem_list[team] \in Seq(Slots) /\ Append(sem_list[team], h) \in Seq(Slots)
      BY <1>1 DEF TableTypeOK
    <3> QED
      BY <1>3, <3>1 DEF TableTypeOK
  <2>3. id' \in [Slots -> SemIds \cup {-1}] /\ owner' \in [Slots -> Teams \cup {NoTeam}]
    BY <1>1, <1>2, <1>3 DEF TableTypeOK
  <2>4. callerPc' \in [Callers -> {"running", "insert", "free"}] /\ slot' \in [Callers -> Slots]
    BY <1>1, <1>3 DEF TableTypeOK
  <2> QED
    BY <1>1, <1>3, <2>1, <2>2, <2>3, <2>4 DEF TableTypeOK
<1>7. /\ id'[h] # -1 /\ owner'[h] = team
      /\ \A s \in Slots : s # h => id'[s] = id[s] /\ owner'[s] = owner[s]
  BY <1>1, <1>2, <1>3 DEF TableTypeOK, SemIds
<1>8. /\ \A u \in Callers : callerPc[u] = "insert" => slot[u] # h /\ slot[u] \in Slots
      /\ \A g \in Teams : ~InQueue(sem_list[g], h) /\ ~InQueue(moved[g], h) /\ ~BeingDeleted(g, h)
  BY <1>1, <1>2 DEF TeamListsInv, InsertInv, ListInv, TeamInv, Listed, TableTypeOK
<1>9. InsertInv'
  <2>1. \A u \in Callers : callerPc'[u] = "insert" =>
            \/ u = t /\ slot'[u] = h
            \/ callerPc[u] = "insert" /\ slot'[u] = slot[u]
    BY <1>3 DEF TableTypeOK
  <2> QED
    BY <1>3, <1>7, <1>8, <2>1 DEF TeamListsInv, InsertInv
<1>10. CASE sem_list' = [sem_list EXCEPT ![team] = Append(@, h)] /\ UNCHANGED <<callerPc, slot>>
  <2>1. /\ \A g \in Teams : g # team => sem_list'[g] = sem_list[g]
        /\ sem_list'[team] = Append(sem_list[team], h)
        /\ sem_list[team] \in Seq(Slots) /\ Distinct(sem_list[team])
    BY <1>10 DEF TableTypeOK, TeamListsInv, ListInv, TeamInv, Listed
  <2>2. /\ Distinct(sem_list'[team])
        /\ \A u : InQueue(sem_list'[team], u) <=> u = h \/ InQueue(sem_list[team], u)
    BY <1>1, <1>8, <2>1, AppendFacts
  <2>3. ListInv'
    <3>1. ASSUME NEW g \in Teams PROVE TeamInv(g)'
      BY <1>3, <1>7, <1>8, <1>10, <2>1, <2>2, <3>1
        DEF TeamListsInv, ListInv, TeamInv, Listed, BeingInserted, BeingDeleted
    <3> QED
      BY <3>1 DEF ListInv
  <2>4. OwnerInv'
    <3>1. ASSUME NEW s \in Slots, id'[s] # -1
          PROVE  \E g \in Teams : /\ owner'[s] = g
                                  /\ \/ InQueue(sem_list'[g], s)
                                     \/ InQueue(moved'[g], s)
                                     \/ BeingInserted(s)'
                                     \/ BeingDeleted(g, s)'
      BY <1>3, <1>7, <1>10, <2>1, <2>2, <3>1 DEF TeamListsInv, OwnerInv, BeingInserted, BeingDeleted
    <3> QED
      BY <3>1 DEF OwnerInv
  <2> QED
    BY <1>5, <1>6, <1>9, <2>3, <2>4 DEF TeamListsInv
<1>11. CASE /\ callerPc' = [callerPc EXCEPT ![t] = "insert"]
            /\ slot' = [slot EXCEPT ![t] = h]
            /\ UNCHANGED sem_list
  <2>1. \A s \in Slots : BeingInserted(s)' <=> s = h \/ BeingInserted(s)
    BY <1>1, <1>3, <1>8, <1>11 DEF BeingInserted, TableTypeOK
  <2>2. ListInv'
    <3>1. ASSUME NEW g \in Teams PROVE TeamInv(g)'
      BY <1>3, <1>7, <1>8, <1>11, <2>1, <3>1
        DEF TeamListsInv, ListInv, TeamInv, Listed, BeingDeleted
    <3> QED
      BY <3>1 DEF ListInv
  <2>3. OwnerInv'
    <3>1. ASSUME NEW s \in Slots, id'[s] # -1
          PROVE  \E g \in Teams : /\ owner'[s] = g
                                  /\ \/ InQueue(sem_list'[g], s)
                                     \/ InQueue(moved'[g], s)
                                     \/ BeingInserted(s)'
                                     \/ BeingDeleted(g, s)'
      BY <1>3, <1>7, <1>11, <2>1, <3>1 DEF TeamListsInv, OwnerInv, BeingDeleted
    <3> QED
      BY <3>1 DEF OwnerInv
  <2> QED
    BY <1>5, <1>6, <1>9, <2>2, <2>3 DEF TeamListsInv
<1> QED
  BY <1>3, <1>10, <1>11

LEMMA InsertStep ==
    ASSUME IInv, NEW t \in Callers, create_sem_insert(t)
    PROVE  IInv'
<1> USE DEF IInv
<1>1. PICK s \in Slots : s = slot[t]
  BY DEF TableTypeOK
<1>2. callerPc[t] = "insert" /\ id[s] # -1 /\ owner[s] \notin dying
  BY <1>1 DEF create_sem_insert, TeamListsInv, InsertInv
<1>3. PICK team \in Teams : owner[s] = team
  BY <1>2 DEF TeamListsInv, OwnerInv
<1>4. /\ sem_list' = [sem_list EXCEPT ![team] = Append(@, s)]
      /\ callerPc' = [callerPc EXCEPT ![t] = "running"]
      /\ UNCHANGED <<id, next_id, owner, free, used, dying, moved, slot, teamPc,
                     current, freed, clash>>
  BY <1>1, <1>3 DEF create_sem_insert
<1>5. SlotInv'
  <2>1. BeingFreed' = BeingFreed
    BY <1>2, <1>4, SemTableAssumption DEF BeingFreed, TableTypeOK
  <2> QED
    BY <1>4, <2>1, SlotsKeep
<1>6. /\ \A g \in Teams : g # team => sem_list'[g] = sem_list[g]
      /\ sem_list'[team] = Append(sem_list[team], s)
      /\ sem_list[team] \in Seq(Slots) /\ Append(sem_list[team], s) \in Seq(Slots)
      /\ Distinct(sem_list[team])
  BY <1>4 DEF TableTypeOK, TeamListsInv, ListInv, TeamInv, Listed
<1>7. TableTypeOK'
  <2>1. sem_list' \in [Teams -> Seq(Slots)]
    BY <1>4, <1>6 DEF TableTypeOK
  <2> QED
    BY <1>4, <2>1 DEF TableTypeOK
<1>8. BeingInserted(s)
  BY <1>1, <1>2 DEF BeingInserted
<1>9. /\ Distinct(sem_list'[team])
      /\ \A u : InQueue(sem_list'[team], u) <=> u = s \/ InQueue(sem_list[team], u)
  <2>1. ~InQueue(sem_list[team], s)
    BY <1>8 DEF TeamListsInv, ListInv, TeamInv, Listed
  <2> QED
    BY <1>6, <2>1, AppendFacts
<1>10. \A u \in Slots : BeingInserted(u)' <=> u # s /\ BeingInserted(u)
  <2>1. \A v \in Callers : callerPc'[v] = "insert" <=> callerPc[v] = "insert" /\ v # t
    BY <1>4 DEF TableTypeOK
  <2>2. \A v \in Callers : callerPc[v] = "insert" /\ slot[v] = s => v = t
    BY <1>1, <1>2 DEF TeamListsInv, InsertInv
  <2> QED
    BY <1>1, <1>4, <2>1, <2>2 DEF BeingInserted
<1>11. InsertInv'
  BY <1>4 DEF TeamListsInv, InsertInv, TableTypeOK
<1>12. ListInv'
  <2>1. ASSUME NEW g \in Teams PROVE TeamInv(g)'
    BY <1>2, <1>3, <1>4, <1>6, <1>8, <1>9, <1>10, <2>1
      DEF TeamListsInv, ListInv, TeamInv, Listed, BeingDeleted
  <2> QED
    BY <2>1 DEF ListInv
<1>13. OwnerInv'
  <2>1. ASSUME NEW u \in Slots, id'[u] # -1
        PROVE  \E g \in Teams : /\ owner'[u] = g
                                /\ \/ InQueue(sem_list'[g], u)
                                   \/ InQueue(moved'[g], u)
                                   \/ BeingInserted(u)'
                                   \/ BeingDeleted(g, u)'
    BY <1>3, <1>4, <1>6, <1>9, <1>10, <2>1 DEF TeamListsInv, OwnerInv, BeingDeleted
  <2> QED
    BY <2>1 DEF OwnerInv
<1> QED
  BY <1>5, <1>7, <1>11, <1>12, <1>13 DEF TeamListsInv

\* A semaphore that is deleted or moved without a clash is in a list of its owner, and
\* sem_delete_owned_sems() does not touch its links.
LEMMA KnownFacts ==
    ASSUME IInv, NEW s \in Slots, Known(s), ~Interferes(s)
    PROVE  /\ id[s] # -1 /\ owner[s] \in Teams /\ ~BeingInserted(s)
           /\ \A g \in Teams : /\ ~BeingDeleted(g, s)
                               /\ teamPc[g] = "unlink" => ~InQueue(moved[g], s)
<1> USE DEF IInv
<1>1. id[s] # -1 /\ ~BeingInserted(s)
  BY DEF Known, BeingInserted
<1>2. owner[s] \in Teams
  BY <1>1 DEF TeamListsInv, OwnerInv
<1>3. ASSUME NEW g \in Teams
      PROVE  ~BeingDeleted(g, s) /\ (teamPc[g] = "unlink" => ~InQueue(moved[g], s))
  <2>1. moved[g] \in Seq(Slots)
    BY DEF TableTypeOK
  <2>2. InQueue(moved[g], s) <=> Contains(moved[g], s)
    BY <2>1 DEF InQueue, Contains
  <2> QED
    BY <2>2 DEF Interferes, BeingDeleted
<1> QED
  BY <1>1, <1>2, <1>3

LEMMA DeleteStep ==
    ASSUME IInv, NEW t \in Callers, NEW s \in Slots, delete_sem_internal(t, s), ~Interferes(s)
    PROVE  IInv'
<1> USE DEF IInv
<1>1. /\ id[s] # -1 /\ owner[s] \in Teams /\ ~BeingInserted(s)
      /\ \A g \in Teams : /\ ~BeingDeleted(g, s)
                          /\ teamPc[g] = "unlink" => ~InQueue(moved[g], s)
  BY KnownFacts DEF delete_sem_internal
<1>2. /\ sem_list' = [g \in Teams |-> RemoveFirst(sem_list[g], s)]
      /\ moved' = [g \in Teams |-> RemoveFirst(moved[g], s)]
      /\ owner' = [owner EXCEPT ![s] = NoTeam]
      /\ id' = [id EXCEPT ![s] = -1]
      /\ freed' = [freed EXCEPT ![t] = id[s]]
      /\ callerPc[t] = "running"
      /\ callerPc' = [callerPc EXCEPT ![t] = "free"]
      /\ slot' = [slot EXCEPT ![t] = s]
      /\ clash' = (clash \/ Interferes(s))
      /\ UNCHANGED <<next_id, free, used, dying, teamPc, current>>
  BY DEF delete_sem_internal, MayCall, DeleteUnlink, Unlink
<1>3. SlotInv'
  <2>1. t \notin BeingFreed /\ BeingFreed' = BeingFreed \cup {t} /\ t \in Actors
    BY <1>2, SemTableAssumption DEF BeingFreed, TableTypeOK, Actors
  <2> QED
    BY <1>1, <1>2, <2>1, SlotsDelete
<1>4. ASSUME NEW g \in Teams
      PROVE  /\ sem_list'[g] \in Seq(Slots) /\ Distinct(sem_list'[g])
             /\ \A u : InQueue(sem_list'[g], u) <=> u # s /\ InQueue(sem_list[g], u)
             /\ moved'[g] \in Seq(Slots) /\ Distinct(moved'[g])
             /\ \A u : InQueue(moved'[g], u) <=> u # s /\ InQueue(moved[g], u)
             /\ sem_list[g] = <<>> => sem_list'[g] = <<>>
             /\ moved[g] = <<>> => moved'[g] = <<>>
  <2>1. /\ sem_list[g] \in Seq(Slots) /\ Distinct(sem_list[g])
        /\ moved[g] \in Seq(Slots) /\ Distinct(moved[g])
    BY DEF TableTypeOK, TeamListsInv, ListInv, TeamInv, Listed
  <2>2. sem_list'[g] = RemoveFirst(sem_list[g], s) /\ moved'[g] = RemoveFirst(moved[g], s)
    BY <1>2
  <2> QED
    BY <2>1, <2>2, UnlinkFacts
<1>5. TableTypeOK'
  <2>1. sem_list' \in [Teams -> Seq(Slots)] /\ moved' \in [Teams -> Seq(Slots)]
    BY <1>2, <1>4
  <2>2. t \in Actors /\ id[s] \in SemIds \cup {-1}
    BY DEF TableTypeOK, Actors
  <2> QED
    BY <1>2, <2>1, <2>2 DEF TableTypeOK
<1>6. id'[s] = -1 /\ \A u \in Slots : u # s => id'[u] = id[u] /\ owner'[u] = owner[u]
  BY <1>2 DEF TableTypeOK
<1>7. \A v \in Callers : callerPc'[v] = "insert" <=> callerPc[v] = "insert" /\ v # t
  BY <1>2 DEF TableTypeOK
<1>8. \A v \in Callers : v # t => slot'[v] = slot[v]
  BY <1>2 DEF TableTypeOK
<1>9. \A v \in Callers : callerPc[v] = "insert" => slot[v] # s /\ slot[v] \in Slots /\ v # t
  BY <1>1, <1>2 DEF BeingInserted, TableTypeOK
<1>10. \A u \in Slots : BeingInserted(u)' <=> BeingInserted(u)
  BY <1>7, <1>8, <1>9 DEF BeingInserted
<1>11. InsertInv'
  BY <1>2, <1>6, <1>7, <1>8, <1>9 DEF TeamListsInv, InsertInv
<1>12. ListInv'
  <2>1. ASSUME NEW g \in Teams PROVE TeamInv(g)'
    <3>1. TeamInv(g)
      BY DEF TeamListsInv, ListInv
    <3>2. /\ Distinct(sem_list'[g]) /\ Distinct(moved'[g])
          /\ g \in dying' => sem_list'[g] = <<>>
          /\ teamPc'[g] = "idle" => moved'[g] = <<>>
          /\ teamPc'[g] = "unlink" => InQueue(moved'[g], current'[g])
      <4>1. teamPc'[g] = "unlink" => InQueue(moved'[g], current'[g])
        <5>1. SUFFICES ASSUME teamPc[g] = "unlink" PROVE InQueue(moved'[g], current[g])
          BY <1>2
        <5>2. InQueue(moved[g], current[g]) /\ ~InQueue(moved[g], s)
          BY <1>1, <3>1, <5>1 DEF TeamInv
        <5> QED
          BY <1>4, <5>2
      <4> QED
        BY <1>2, <1>4, <3>1, <4>1 DEF TeamInv
    <3>3. ASSUME NEW u \in Slots
          PROVE  /\ InQueue(sem_list'[g], u) => /\ Listed(g, u)'
                                                /\ ~InQueue(moved'[g], u)
                                                /\ ~BeingDeleted(g, u)
                 /\ InQueue(moved'[g], u) => Listed(g, u)' /\ ~BeingDeleted(g, u)
                 /\ BeingDeleted(g, u) => Listed(g, u)'
      <4>1. /\ InQueue(sem_list[g], u) => /\ Listed(g, u) /\ ~InQueue(moved[g], u)
                                          /\ ~BeingDeleted(g, u)
            /\ InQueue(moved[g], u) => Listed(g, u) /\ ~BeingDeleted(g, u)
            /\ BeingDeleted(g, u) => Listed(g, u)
        BY <3>1 DEF TeamInv
      <4>2. /\ InQueue(sem_list'[g], u) <=> u # s /\ InQueue(sem_list[g], u)
            /\ InQueue(moved'[g], u) <=> u # s /\ InQueue(moved[g], u)
        BY <1>4
      <4>3. u # s => (Listed(g, u) => Listed(g, u)')
        BY <1>6, <1>10 DEF Listed
      <4>4. u = s => ~BeingDeleted(g, u)
        BY <1>1
      <4> QED
        BY <4>1, <4>2, <4>3, <4>4
    <3>4. \A u \in Slots : BeingDeleted(g, u)' <=> BeingDeleted(g, u)
      BY <1>2 DEF BeingDeleted
    <3> QED
      BY <3>2, <3>3, <3>4 DEF TeamInv, Listed
  <2> QED
    BY <2>1 DEF ListInv
<1>13. OwnerInv'
  <2>1. ASSUME NEW u \in Slots, id'[u] # -1
        PROVE  \E g \in Teams : /\ owner'[u] = g
                                /\ \/ InQueue(sem_list'[g], u)
                                   \/ InQueue(moved'[g], u)
                                   \/ BeingInserted(u)'
                                   \/ BeingDeleted(g, u)'
    <3>1. u # s /\ id[u] # -1 /\ owner'[u] = owner[u]
      BY <1>6, <2>1
    <3>2. PICK g \in Teams : /\ owner[u] = g
                             /\ \/ InQueue(sem_list[g], u)
                                \/ InQueue(moved[g], u)
                                \/ BeingInserted(u)
                                \/ BeingDeleted(g, u)
      BY <3>1 DEF TeamListsInv, OwnerInv
    <3>3. BeingDeleted(g, u)' <=> BeingDeleted(g, u)
      BY <1>2 DEF BeingDeleted
    <3> QED
      BY <1>4, <1>10, <3>1, <3>2, <3>3
  <2> QED
    BY <2>1 DEF OwnerInv
<1> QED
  BY <1>3, <1>5, <1>11, <1>12, <1>13 DEF TeamListsInv

LEMMA DeleteFreeStep ==
    ASSUME IInv, NEW t \in Callers, delete_sem_free(t)
    PROVE  IInv'
<1> USE DEF IInv
<1>1. /\ callerPc[t] = "free" /\ FreeSlot(freed[t])
      /\ callerPc' = [callerPc EXCEPT ![t] = "running"]
      /\ freed' = [freed EXCEPT ![t] = -1]
      /\ UNCHANGED <<id, owner, sem_list, dying, moved, slot, teamPc, current, clash>>
  BY DEF delete_sem_free
<1>2. t \in BeingFreed /\ BeingFreed' = BeingFreed \ {t}
  BY <1>1, SemTableAssumption DEF BeingFreed, TableTypeOK, Actors
<1>3. SlotInv' /\ free' \in Seq(Slots) /\ next_id' \in [Slots -> SemIds]
  BY <1>1, <1>2, SlotsFree
<1>4. TableTypeOK'
  <2>1. (free \in Seq(Slots) /\ FreeInv => used \in 0 .. MaxSems)'
    BY UsedBound, PTL
  <2> QED
    BY <1>1, <1>3, <2>1 DEF TableTypeOK, SlotInv
<1>5. \A v \in Callers : callerPc'[v] = "insert" <=> callerPc[v] = "insert"
  BY <1>1 DEF TableTypeOK
<1>6. \A u \in Slots : BeingInserted(u)' <=> BeingInserted(u)
  BY <1>1, <1>5 DEF BeingInserted
<1>7. InsertInv'
  BY <1>1, <1>5 DEF TeamListsInv, InsertInv
<1>8. ListInv'
  BY <1>1, <1>6 DEF TeamListsInv, ListInv, TeamInv, Listed, BeingDeleted
<1>9. OwnerInv'
  BY <1>1, <1>6 DEF TeamListsInv, OwnerInv, BeingDeleted
<1> QED
  BY <1>3, <1>4, <1>7, <1>8, <1>9 DEF TeamListsInv

LEMMA SetOwnerStep ==
    ASSUME IInv, NEW t \in Callers, NEW s \in Slots, NEW team \in Teams,
           set_sem_owner(t, s, team), ~Interferes(s)
    PROVE  IInv'
<1> USE DEF IInv
<1>1. /\ id[s] # -1 /\ owner[s] \in Teams /\ ~BeingInserted(s)
      /\ \A g \in Teams : /\ ~BeingDeleted(g, s)
                          /\ teamPc[g] = "unlink" => ~InQueue(moved[g], s)
  BY KnownFacts DEF set_sem_owner
<1>2. /\ team \notin dying
      /\ sem_list' = [g \in Teams |-> IF g = team THEN Append(RemoveFirst(sem_list[g], s), s)
                                                  ELSE RemoveFirst(sem_list[g], s)]
      /\ moved' = [g \in Teams |-> RemoveFirst(moved[g], s)]
      /\ owner' = [owner EXCEPT ![s] = team]
      /\ clash' = (clash \/ Interferes(s))
      /\ UNCHANGED <<id, next_id, free, used, dying, callerPc, slot, teamPc, current, freed>>
  BY DEF set_sem_owner, SwitchLists
<1>3. SlotInv'
  <2>1. BeingFreed' = BeingFreed
    BY <1>2 DEF BeingFreed
  <2> QED
    BY <1>2, <2>1, SlotsKeep
<1>4. ASSUME NEW g \in Teams
      PROVE  /\ sem_list'[g] \in Seq(Slots) /\ Distinct(sem_list'[g])
             /\ \A u : InQueue(sem_list'[g], u) <=> \/ u = s /\ g = team
                                                    \/ u # s /\ InQueue(sem_list[g], u)
             /\ moved'[g] \in Seq(Slots) /\ Distinct(moved'[g])
             /\ \A u : InQueue(moved'[g], u) <=> u # s /\ InQueue(moved[g], u)
             /\ g # team /\ sem_list[g] = <<>> => sem_list'[g] = <<>>
             /\ moved[g] = <<>> => moved'[g] = <<>>
  <2>1. /\ sem_list[g] \in Seq(Slots) /\ Distinct(sem_list[g])
        /\ moved[g] \in Seq(Slots) /\ Distinct(moved[g])
    BY DEF TableTypeOK, TeamListsInv, ListInv, TeamInv, Listed
  <2> DEFINE q == RemoveFirst(sem_list[g], s)
  <2>2. /\ sem_list'[g] = IF g = team THEN Append(q, s) ELSE q
        /\ moved'[g] = RemoveFirst(moved[g], s)
    BY <1>2
  <2>3. /\ q \in Seq(Slots) /\ Distinct(q) /\ \A u : InQueue(q, u) <=> u # s /\ InQueue(sem_list[g], u)
        /\ sem_list[g] = <<>> => q = <<>>
    BY <2>1, UnlinkFacts
  <2> HIDE DEF q
  <2>4. /\ moved'[g] \in Seq(Slots) /\ Distinct(moved'[g])
        /\ \A u : InQueue(moved'[g], u) <=> u # s /\ InQueue(moved[g], u)
        /\ moved[g] = <<>> => moved'[g] = <<>>
    BY <2>1, <2>2, UnlinkFacts
  <2>5. CASE g = team
    <3>1. ~InQueue(q, s)
      BY <2>3
    <3>2. /\ Append(q, s) \in Seq(Slots) /\ Distinct(Append(q, s))
          /\ \A u : InQueue(Append(q, s), u) <=> u = s \/ InQueue(q, u)
      BY <2>3, <3>1, AppendFacts
    <3> QED
      BY <2>2, <2>3, <2>4, <2>5, <3>2
  <2>6. CASE g # team
    BY <2>2, <2>3, <2>4, <2>6
  <2> QED
    BY <2>5, <2>6
<1>5. TableTypeOK'
  <2>1. sem_list' \in [Teams -> Seq(Slots)] /\ moved' \in [Teams -> Seq(Slots)]
    BY <1>2, <1>4
  <2> QED
    BY <1>2, <2>1 DEF TableTypeOK
<1>6. owner'[s] = team /\ \A u \in Slots : u # s => owner'[u] = owner[u]
  BY <1>2 DEF TableTypeOK
<1>7. \A u \in Slots : BeingInserted(u)' <=> BeingInserted(u)
  BY <1>2 DEF BeingInserted
<1>8. InsertInv'
  <2>1. \A v \in Callers : callerPc[v] = "insert" => slot[v] # s /\ slot[v] \in Slots
    BY <1>1 DEF BeingInserted, TableTypeOK
  <2> QED
    BY <1>2, <1>6, <2>1 DEF TeamListsInv, InsertInv
<1>9. ListInv'
  <2>1. ASSUME NEW g \in Teams PROVE TeamInv(g)'
    <3>1. TeamInv(g)
      BY DEF TeamListsInv, ListInv
    <3>2. /\ Distinct(sem_list'[g]) /\ Distinct(moved'[g])
          /\ g \in dying' => sem_list'[g] = <<>>
          /\ teamPc'[g] = "idle" => moved'[g] = <<>>
          /\ teamPc'[g] = "unlink" => InQueue(moved'[g], current'[g])
      <4>1. teamPc'[g] = "unlink" => InQueue(moved'[g], current'[g])
        <5>1. SUFFICES ASSUME teamPc[g] = "unlink" PROVE InQueue(moved'[g], current[g])
          BY <1>2
        <5>2. InQueue(moved[g], current[g]) /\ ~InQueue(moved[g], s)
          BY <1>1, <3>1, <5>1 DEF TeamInv
        <5> QED
          BY <1>4, <5>2
      <4> QED
        BY <1>2, <1>4, <3>1, <4>1 DEF TeamInv
    <3>3. ASSUME NEW u \in Slots
          PROVE  /\ InQueue(sem_list'[g], u) => /\ Listed(g, u)'
                                                /\ ~InQueue(moved'[g], u)
                                                /\ ~BeingDeleted(g, u)
                 /\ InQueue(moved'[g], u) => Listed(g, u)' /\ ~BeingDeleted(g, u)
                 /\ BeingDeleted(g, u) => Listed(g, u)'
      <4>1. /\ InQueue(sem_list[g], u) => /\ Listed(g, u) /\ ~InQueue(moved[g], u)
                                          /\ ~BeingDeleted(g, u)
            /\ InQueue(moved[g], u) => Listed(g, u) /\ ~BeingDeleted(g, u)
            /\ BeingDeleted(g, u) => Listed(g, u)
        BY <3>1 DEF TeamInv, Listed
      <4>2. /\ InQueue(sem_list'[g], u) <=> \/ u = s /\ g = team
                                            \/ u # s /\ InQueue(sem_list[g], u)
            /\ InQueue(moved'[g], u) <=> u # s /\ InQueue(moved[g], u)
        BY <1>4
      <4>3. CASE u = s
        BY <1>1, <1>2, <1>6, <1>7, <4>2, <4>3 DEF Listed
      <4>4. CASE u # s
        BY <1>2, <1>6, <1>7, <4>1, <4>2, <4>4 DEF Listed
      <4> QED
        BY <4>3, <4>4
    <3>4. \A u \in Slots : BeingDeleted(g, u)' <=> BeingDeleted(g, u)
      BY <1>2 DEF BeingDeleted
    <3> QED
      BY <1>2, <3>2, <3>3, <3>4 DEF TeamInv, Listed
  <2> QED
    BY <2>1 DEF ListInv
<1>10. OwnerInv'
  <2>1. ASSUME NEW u \in Slots, id'[u] # -1
        PROVE  \E g \in Teams : /\ owner'[u] = g
                                /\ \/ InQueue(sem_list'[g], u)
                                   \/ InQueue(moved'[g], u)
                                   \/ BeingInserted(u)'
                                   \/ BeingDeleted(g, u)'
    <3>1. CASE u = s
      BY <1>4, <1>6, <3>1
    <3>2. CASE u # s
      <4>1. PICK g \in Teams : /\ owner[u] = g
                               /\ \/ InQueue(sem_list[g], u)
                                  \/ InQueue(moved[g], u)
                                  \/ BeingInserted(u)
                                  \/ BeingDeleted(g, u)
        BY <1>2, <2>1 DEF TeamListsInv, OwnerInv
      <4>2. BeingDeleted(g, u)' <=> BeingDeleted(g, u)
        BY <1>2 DEF BeingDeleted
      <4> QED
        BY <1>4, <1>6, <1>7, <3>2, <4>1, <4>2
    <3> QED
      BY <3>1, <3>2
  <2> QED
    BY <2>1 DEF OwnerInv
<1> QED
  BY <1>3, <1>5, <1>8, <1>9, <1>10 DEF TeamListsInv

\* team_delete() and exec_team()
LEMMA TakeListStep ==
    ASSUME IInv, NEW team \in Teams, team \notin dying, teamPc[team] = "idle",
           NoThreadCreates(team), TakeList(team), dying' \in {dying, dying \cup {team}},
           UNCHANGED <<id, next_id, owner, free, used, callerPc, slot, current, freed, clash>>
    PROVE  IInv'
<1> USE DEF IInv
<1>1. /\ team \notin dying
      /\ \A t \in Callers : ~(callerPc[t] = "insert" /\ owner[slot[t]] = team)
      /\ dying' \in {dying, dying \cup {team}}
      /\ moved' = [moved EXCEPT ![team] = sem_list[team]]
      /\ sem_list' = [sem_list EXCEPT ![team] = <<>>]
      /\ teamPc' = [teamPc EXCEPT ![team] = "next"]
      /\ UNCHANGED <<id, next_id, owner, free, used, callerPc, slot, current, freed, clash>>
  BY DEF TakeList, NoThreadCreates
<1>2. /\ teamPc[team] = "idle" /\ moved[team] = <<>>
      /\ teamPc'[team] = "next" /\ moved'[team] = sem_list[team] /\ sem_list'[team] = <<>>
      /\ \A g \in Teams : g # team => /\ teamPc'[g] = teamPc[g] /\ moved'[g] = moved[g]
                                      /\ sem_list'[g] = sem_list[g]
  BY <1>1 DEF TableTypeOK, TeamListsInv, ListInv, TeamInv, Listed
<1>3. SlotInv'
  <2>1. BeingFreed' = BeingFreed
    BY <1>1, <1>2 DEF BeingFreed
  <2> QED
    BY <1>1, <2>1, SlotsKeep
<1>4. TableTypeOK'
  BY <1>1 DEF TableTypeOK
<1>5. InsertInv'
  BY <1>1 DEF TeamListsInv, InsertInv
<1>6. \A u \in Slots : BeingInserted(u)' <=> BeingInserted(u)
  BY <1>1 DEF BeingInserted
<1>7. \A g \in Teams, u \in Slots : BeingDeleted(g, u)' <=> BeingDeleted(g, u)
  BY <1>1, <1>2 DEF BeingDeleted
<1>8. \A u \in Slots : ~BeingDeleted(team, u)
  BY <1>2 DEF BeingDeleted
<1>9. \A u : ~InQueue(sem_list'[team], u) /\ ~InQueue(moved[team], u)
  BY <1>2 DEF InQueue
<1>10. ListInv'
  <2>1. ASSUME NEW g \in Teams PROVE TeamInv(g)'
    <3>1. TeamInv(g)
      BY DEF TeamListsInv, ListInv
    <3>2. CASE g = team
      <4>1. Distinct(sem_list'[team])
        BY <1>2 DEF Distinct
      <4> QED
        BY <1>1, <1>2, <1>6, <1>7, <1>8, <1>9, <3>1, <3>2, <4>1 DEF TeamInv, Listed
    <3>3. CASE g # team
      BY <1>1, <1>2, <1>6, <1>7, <3>1, <3>3 DEF TeamInv, Listed
    <3> QED
      BY <3>2, <3>3
  <2> QED
    BY <2>1 DEF ListInv
<1>11. OwnerInv'
  BY <1>1, <1>2, <1>6, <1>7, <1>9 DEF TeamListsInv, OwnerInv
<1> QED
  BY <1>3, <1>4, <1>5, <1>10, <1>11 DEF TeamListsInv

LEMMA OwnedNextStep ==
    ASSUME IInv, NEW team \in Teams, delete_owned_next(team)
    PROVE  IInv'
<1> USE DEF IInv
<1>1. /\ teamPc[team] = "next"
      /\ UNCHANGED <<id, next_id, owner, free, used, sem_list, moved, dying, callerPc, slot, freed,
                     clash>>
      /\ TeamInv(team)
  BY DEF delete_owned_next, tableVars, TeamListsInv, ListInv
<1>2. \A u \in Slots : BeingInserted(u)' <=> BeingInserted(u)
  BY <1>1 DEF BeingInserted
<1>3. InsertInv'
  BY <1>1 DEF TeamListsInv, InsertInv
<1>4. /\ teamPc' = [teamPc EXCEPT ![team] = IF moved[team] # <<>> THEN "unlink" ELSE "idle"]
      /\ moved[team] # <<>> => current' = [current EXCEPT ![team] = Head(moved[team])]
      /\ moved[team] = <<>> => current' = current
  BY DEF delete_owned_next
<1>5. moved[team] # <<>> => Head(moved[team]) \in Slots /\ InQueue(moved[team], Head(moved[team]))
  <2>1. moved[team] \in Seq(Slots) /\ Distinct(moved[team])
    BY <1>1 DEF TableTypeOK, TeamInv, Listed
  <2> QED
    BY <2>1, TailFacts
<1>6. TableTypeOK'
  BY <1>1, <1>4, <1>5 DEF TableTypeOK
<1>7. /\ teamPc'[team] \in {"unlink", "idle"}
      /\ moved[team] # <<>> => teamPc'[team] = "unlink" /\ current'[team] = Head(moved[team])
      /\ moved[team] = <<>> => teamPc'[team] = "idle"
      /\ \A g \in Teams : g # team => teamPc'[g] = teamPc[g] /\ current'[g] = current[g]
  BY <1>4 DEF TableTypeOK
<1>8. SlotInv'
  <2>1. BeingFreed' = BeingFreed
    BY <1>1, <1>7 DEF BeingFreed
  <2> QED
    BY <1>1, <2>1, SlotsKeep
<1>9. \A g \in Teams, u \in Slots : BeingDeleted(g, u)' <=> BeingDeleted(g, u)
  BY <1>1, <1>7 DEF BeingDeleted
<1>10. \A g \in Teams, u \in Slots : Listed(g, u)' <=> Listed(g, u)
  BY <1>1, <1>2 DEF Listed
<1>11. ListInv'
  <2>1. ASSUME NEW g \in Teams PROVE TeamInv(g)'
    <3>1. TeamInv(g)
      BY DEF TeamListsInv, ListInv
    <3>2. /\ teamPc'[g] = "idle" => moved'[g] = <<>>
          /\ teamPc'[g] = "unlink" => InQueue(moved'[g], current'[g])
      BY <1>1, <1>5, <1>7, <3>1 DEF TeamInv, Listed
    <3> QED
      BY <1>1, <1>9, <1>10, <3>1, <3>2 DEF TeamInv, Listed
  <2> QED
    BY <2>1 DEF ListInv
<1>12. OwnerInv'
  BY <1>1, <1>2, <1>9 DEF TeamListsInv, OwnerInv
<1> QED
  BY <1>3, <1>6, <1>8, <1>11, <1>12 DEF TeamListsInv

LEMMA OwnedUnlinkStep ==
    ASSUME IInv, NEW team \in Teams, delete_owned_unlink(team)
    PROVE  IInv'
<1> USE DEF IInv
<1>1. PICK h \in Slots : h = current[team]
  BY DEF TableTypeOK
<1>2. /\ teamPc[team] = "unlink"
      /\ moved' = [moved EXCEPT ![team] = RemoveFirst(moved[team], h)]
      /\ teamPc' = [teamPc EXCEPT ![team] = "uninit"]
      /\ UNCHANGED <<id, next_id, owner, free, used, sem_list, dying, callerPc, slot, current,
                     freed, clash>>
      /\ TeamInv(team)
  BY <1>1 DEF delete_owned_unlink, TeamListsInv, ListInv
<1>3. InQueue(moved[team], h)
  BY <1>1, <1>2 DEF TeamInv, Listed
<1>4. /\ RemoveFirst(moved[team], h) \in Seq(Slots) /\ Distinct(RemoveFirst(moved[team], h))
      /\ \A u : InQueue(RemoveFirst(moved[team], h), u) <=> u # h /\ InQueue(moved[team], u)
  <2>1. moved[team] \in Seq(Slots) /\ Distinct(moved[team])
    BY <1>2 DEF TableTypeOK, TeamInv, Listed
  <2> QED
    BY <2>1, UnlinkFacts
<1>5. TableTypeOK'
  BY <1>2, <1>4 DEF TableTypeOK
<1>6. /\ moved'[team] = RemoveFirst(moved[team], h) /\ current'[team] = h
      /\ teamPc'[team] = "uninit"
      /\ \A g \in Teams : /\ current'[g] = current[g]
                          /\ g # team => moved'[g] = moved[g] /\ teamPc'[g] = teamPc[g]
  BY <1>1, <1>2 DEF TableTypeOK
<1>7. SlotInv'
  <2>1. BeingFreed' = BeingFreed
    BY <1>2, <1>6 DEF BeingFreed
  <2> QED
    BY <1>2, <2>1, SlotsKeep
<1>8. \A g \in Teams, u \in Slots :
          BeingDeleted(g, u)' <=> (g = team /\ u = h) \/ (g # team /\ BeingDeleted(g, u))
  BY <1>6 DEF BeingDeleted
<1>9. \A u \in Slots : ~BeingDeleted(team, u)
  BY <1>2 DEF BeingDeleted
<1>10. \A u \in Slots : BeingInserted(u)' <=> BeingInserted(u)
  BY <1>2 DEF BeingInserted
<1>11. \A g \in Teams, u \in Slots : Listed(g, u)' <=> Listed(g, u)
  BY <1>2, <1>10 DEF Listed
<1>12. InsertInv'
  BY <1>2 DEF TeamListsInv, InsertInv
<1>13. ListInv'
  <2>1. ASSUME NEW g \in Teams PROVE TeamInv(g)'
    <3>1. TeamInv(g)
      BY DEF TeamListsInv, ListInv
    <3>2. CASE g = team
      BY <1>2, <1>3, <1>4, <1>6, <1>8, <1>11, <3>1, <3>2 DEF TeamInv, Listed
    <3>3. CASE g # team
      BY <1>2, <1>6, <1>8, <1>11, <3>1, <3>3 DEF TeamInv, Listed
    <3> QED
      BY <3>2, <3>3
  <2> QED
    BY <2>1 DEF ListInv
<1>14. OwnerInv'
  <2>1. ASSUME NEW u \in Slots, id'[u] # -1
        PROVE  \E g \in Teams : /\ owner'[u] = g
                                /\ \/ InQueue(sem_list'[g], u)
                                   \/ InQueue(moved'[g], u)
                                   \/ BeingInserted(u)'
                                   \/ BeingDeleted(g, u)'
    <3>1. PICK g \in Teams : /\ owner[u] = g
                             /\ \/ InQueue(sem_list[g], u)
                                \/ InQueue(moved[g], u)
                                \/ BeingInserted(u)
                                \/ BeingDeleted(g, u)
      BY <1>2, <2>1 DEF TeamListsInv, OwnerInv
    <3> QED
      BY <1>2, <1>4, <1>6, <1>8, <1>9, <1>10, <3>1
  <2> QED
    BY <2>1 DEF OwnerInv
<1> QED
  BY <1>5, <1>7, <1>12, <1>13, <1>14 DEF TeamListsInv

LEMMA OwnedUninitStep ==
    ASSUME IInv, NEW team \in Teams, delete_owned_uninit(team)
    PROVE  IInv'
<1> USE DEF IInv
<1>1. PICK s \in Slots : s = current[team]
  BY DEF TableTypeOK
<1>2. /\ teamPc[team] = "uninit"
      /\ freed' = [freed EXCEPT ![team] = id[s]]
      /\ id' = [id EXCEPT ![s] = -1]
      /\ teamPc' = [teamPc EXCEPT ![team] = "free"]
      /\ UNCHANGED <<next_id, owner, free, used, sem_list, dying, moved, callerPc, slot, current,
                     clash>>
  BY <1>1 DEF delete_owned_uninit
<1>3. BeingDeleted(team, s)
  BY <1>1, <1>2 DEF BeingDeleted
<1>4. /\ id[s] # -1 /\ owner[s] = team /\ ~BeingInserted(s)
      /\ \A g \in Teams : ~InQueue(sem_list[g], s) /\ ~InQueue(moved[g], s)
      /\ \A g \in Teams : BeingDeleted(g, s) => g = team
  <2>1. \A g \in Teams : TeamInv(g)
    BY DEF TeamListsInv, ListInv
  <2>2. id[s] # -1 /\ owner[s] = team /\ ~BeingInserted(s)
    BY <1>3, <2>1 DEF TeamInv, Listed
  <2>3. ~InQueue(sem_list[team], s) /\ ~InQueue(moved[team], s)
    BY <1>3, <2>1 DEF TeamInv, Listed
  <2> QED
    BY <2>1, <2>2, <2>3 DEF TeamInv, Listed
<1>5. /\ id'[s] = -1 /\ \A u \in Slots : u # s => id'[u] = id[u]
      /\ teamPc'[team] = "free" /\ \A g \in Teams : g # team => teamPc'[g] = teamPc[g]
  BY <1>2 DEF TableTypeOK
<1>6. SlotInv'
  <2>1. team \notin BeingFreed /\ BeingFreed' = BeingFreed \cup {team} /\ team \in Actors
    BY <1>2, <1>5, SemTableAssumption DEF BeingFreed, Actors
  <2> QED
    BY <1>2, <1>4, <2>1, SlotsDelete
<1>7. TableTypeOK'
  <2>1. team \in Actors /\ id[s] \in SemIds \cup {-1}
    BY DEF TableTypeOK, Actors
  <2> QED
    BY <1>2, <2>1 DEF TableTypeOK
<1>8. \A u \in Slots : BeingInserted(u)' <=> BeingInserted(u)
  BY <1>2 DEF BeingInserted
<1>9. \A g \in Teams, u \in Slots : BeingDeleted(g, u)' <=> g # team /\ BeingDeleted(g, u)
  BY <1>2, <1>5 DEF BeingDeleted
<1>11. InsertInv'
  <2>1. \A v \in Callers : callerPc[v] = "insert" => slot[v] # s /\ slot[v] \in Slots
    BY <1>4 DEF BeingInserted, TableTypeOK
  <2> QED
    BY <1>2, <1>5, <2>1 DEF TeamListsInv, InsertInv
<1>12. ListInv'
  <2>1. ASSUME NEW g \in Teams PROVE TeamInv(g)'
    <3>1. TeamInv(g)
      BY DEF TeamListsInv, ListInv
    <3>2. /\ Distinct(sem_list'[g]) /\ Distinct(moved'[g])
          /\ g \in dying' => sem_list'[g] = <<>>
          /\ teamPc'[g] = "idle" => moved'[g] = <<>>
          /\ teamPc'[g] = "unlink" => InQueue(moved'[g], current'[g])
      BY <1>2, <1>4, <1>5, <3>1 DEF TeamInv, Listed
    <3>3. ASSUME NEW u \in Slots
          PROVE  /\ InQueue(sem_list[g], u) => /\ Listed(g, u)' /\ ~InQueue(moved[g], u)
                                               /\ ~BeingDeleted(g, u)
                 /\ InQueue(moved[g], u) => Listed(g, u)' /\ ~BeingDeleted(g, u)
                 /\ g # team /\ BeingDeleted(g, u) => Listed(g, u)'
      <4>1. CASE u = s
        BY <1>4, <4>1
      <4>2. CASE u # s
        BY <1>2, <1>5, <1>8, <3>1, <4>2 DEF TeamInv, Listed
      <4> QED
        BY <4>1, <4>2
    <3> QED
      BY <1>2, <1>9, <3>2, <3>3 DEF TeamInv, Listed
  <2> QED
    BY <2>1 DEF ListInv
<1>13. OwnerInv'
  <2>1. ASSUME NEW u \in Slots, id'[u] # -1
        PROVE  \E g \in Teams : /\ owner'[u] = g
                                /\ \/ InQueue(sem_list'[g], u)
                                   \/ InQueue(moved'[g], u)
                                   \/ BeingInserted(u)'
                                   \/ BeingDeleted(g, u)'
    <3>1. u # s /\ id[u] # -1
      BY <1>5, <2>1
    <3>2. ~BeingDeleted(team, u)
      BY <1>1, <3>1 DEF BeingDeleted
    <3> QED
      BY <1>2, <1>8, <1>9, <3>1, <3>2 DEF TeamListsInv, OwnerInv
  <2> QED
    BY <2>1 DEF OwnerInv
<1> QED
  BY <1>6, <1>7, <1>11, <1>12, <1>13 DEF TeamListsInv

LEMMA OwnedFreeStep ==
    ASSUME IInv, NEW team \in Teams, delete_owned_free(team)
    PROVE  IInv'
<1> USE DEF IInv
<1>1. /\ teamPc[team] = "free" /\ FreeSlot(freed[team])
      /\ teamPc' = [teamPc EXCEPT ![team] = "next"]
      /\ freed' = [freed EXCEPT ![team] = -1]
      /\ UNCHANGED <<id, owner, sem_list, dying, moved, callerPc, slot, current, clash>>
  BY DEF delete_owned_free
<1>2. teamPc'[team] = "next" /\ \A g \in Teams : g # team => teamPc'[g] = teamPc[g]
  BY <1>1 DEF TableTypeOK
<1>3. team \in BeingFreed /\ BeingFreed' = BeingFreed \ {team}
  BY <1>1, <1>2, SemTableAssumption DEF BeingFreed, Actors
<1>4. SlotInv' /\ free' \in Seq(Slots) /\ next_id' \in [Slots -> SemIds]
  BY <1>1, <1>3, SlotsFree
<1>5. TableTypeOK'
  <2>1. (free \in Seq(Slots) /\ FreeInv => used \in 0 .. MaxSems)'
    BY UsedBound, PTL
  <2> QED
    BY <1>1, <1>4, <2>1 DEF TableTypeOK, SlotInv
<1>6. \A u \in Slots : BeingInserted(u)' <=> BeingInserted(u)
  BY <1>1 DEF BeingInserted
<1>7. \A g \in Teams, u \in Slots : BeingDeleted(g, u)' <=> BeingDeleted(g, u)
  BY <1>1, <1>2 DEF BeingDeleted
<1>8. InsertInv'
  BY <1>1 DEF TeamListsInv, InsertInv
<1>9. ListInv'
  <2>1. ASSUME NEW g \in Teams PROVE TeamInv(g)'
    <3>1. TeamInv(g)
      BY DEF TeamListsInv, ListInv
    <3> QED
      BY <1>1, <1>2, <1>6, <1>7, <3>1 DEF TeamInv, Listed
  <2> QED
    BY <2>1 DEF ListInv
<1>10. OwnerInv'
  BY <1>1, <1>6, <1>7 DEF TeamListsInv, OwnerInv
<1> QED
  BY <1>4, <1>5, <1>8, <1>9, <1>10 DEF TeamListsInv

LEMMA TeamCreateStep ==
    ASSUME IInv, NEW team \in Teams, team_create(team)
    PROVE  IInv'
<1> USE DEF IInv
<1>1. /\ teamPc[team] = "idle" /\ dying' = dying \ {team}
      /\ UNCHANGED <<id, next_id, owner, free, used, sem_list, moved, callerPc, slot, teamPc,
                     current, freed, clash>>
  BY DEF team_create, tableVars
<1>2. SlotInv'
  <2>1. BeingFreed' = BeingFreed
    BY <1>1 DEF BeingFreed
  <2> QED
    BY <1>1, <2>1, SlotsKeep
<1>3. TableTypeOK'
  BY <1>1 DEF TableTypeOK
<1>4. \A u \in Slots : BeingInserted(u)' <=> BeingInserted(u)
  BY <1>1 DEF BeingInserted
<1>5. \A g \in Teams, u \in Slots : BeingDeleted(g, u)' <=> BeingDeleted(g, u)
  BY <1>1 DEF BeingDeleted
<1>6. InsertInv'
  BY <1>1 DEF TeamListsInv, InsertInv
<1>7. ListInv'
  BY <1>1, <1>4, <1>5 DEF TeamListsInv, ListInv, TeamInv, Listed
<1>8. OwnerInv'
  BY <1>1, <1>4, <1>5 DEF TeamListsInv, OwnerInv
<1> QED
  BY <1>2, <1>3, <1>6, <1>7, <1>8 DEF TeamListsInv

-----------------------------------------------------------------------------
(***************************************************************************)
(* The theorems.                                                           *)
(***************************************************************************)

LEMMA StepIInv ==
    ASSUME IInv, [TableNext]_semTableVars, ~clash'
    PROVE  IInv'
<1>2. CASE UNCHANGED semTableVars
  <2>1. UNCHANGED <<id, next_id, owner, free, used, sem_list, moved, dying, callerPc, slot, teamPc,
                    current, freed, clash>>
    BY <1>2 DEF semTableVars, tableVars
  <2>2. BeingFreed' = BeingFreed
    BY <2>1 DEF BeingFreed
  <2>3. SlotInv'
    BY <2>1, <2>2, SlotsKeep DEF IInv
  <2> QED
    BY <2>1, <2>3
      DEF IInv, TableTypeOK, TeamListsInv, InsertInv, ListInv, TeamInv, OwnerInv, BeingInserted,
          BeingDeleted, Listed
<1>3. CASE TableNext
  <2>1. CASE \E t \in Callers : create_sem_insert(t)
    BY <2>1, InsertStep
  <2>2. CASE \E t \in Callers : delete_sem_free(t)
    BY <2>2, DeleteFreeStep
  <2>3. CASE \E t \in Callers, s \in Slots : delete_sem_internal(t, s)
    <3>1. PICK t \in Callers, s \in Slots : delete_sem_internal(t, s)
      BY <2>3
    <3>2. ~Interferes(s)
      BY <3>1 DEF delete_sem_internal
    <3> QED
      BY <3>1, <3>2, DeleteStep
  <2>4. CASE \E t \in Callers, team \in Teams, locked \in BOOLEAN :
                 create_sem_etc(t, team, locked)
    BY <2>4, CreateStep
  <2>5. CASE \E t \in Callers, s \in Slots, team \in Teams : set_sem_owner(t, s, team)
    <3>1. PICK t \in Callers, s \in Slots, team \in Teams : set_sem_owner(t, s, team)
      BY <2>5
    <3>2. ~Interferes(s)
      BY <3>1 DEF set_sem_owner
    <3> QED
      BY <3>1, <3>2, SetOwnerStep
  <2>6. CASE \E team \in Teams : team_delete(team)
    BY <2>6, TakeListStep DEF team_delete
  <2>11. CASE \E team \in Teams : exec_team(team)
    BY <2>11, TakeListStep DEF exec_team
  <2>7. CASE \E team \in Teams : delete_owned_next(team)
    BY <2>7, OwnedNextStep
  <2>12. CASE \E team \in Teams : delete_owned_unlink(team)
    BY <2>12, OwnedUnlinkStep
  <2>8. CASE \E team \in Teams : delete_owned_uninit(team)
    BY <2>8, OwnedUninitStep
  <2>9. CASE \E team \in Teams : delete_owned_free(team)
    BY <2>9, OwnedFreeStep
  <2>10. CASE \E team \in Teams : team_create(team)
    BY <2>10, TeamCreateStep
  <2> QED
    BY <1>3, <2>1, <2>2, <2>3, <2>4, <2>5, <2>6, <2>7, <2>8, <2>9, <2>10, <2>11, <2>12
      DEF TableNext
<1> QED
  BY <1>2, <1>3

\* As long as there has been no clash the invariant holds; a clash is not forgotten.
LEMMA Invariance == TableSpec => [](~clash => IInv)
<1>1. TableInit => (~clash => IInv)
  BY InitIInv
<1>2. (~clash => IInv) /\ [TableNext]_semTableVars => (~clash => IInv)'
  <2> SUFFICES ASSUME ~clash => IInv, [TableNext]_semTableVars, ~clash'
               PROVE  IInv'
    OBVIOUS
  <2>1. ~clash
    BY DEF TableNext, create_sem_insert, delete_sem_free, delete_sem_internal, create_sem_etc,
           set_sem_owner, team_delete, exec_team, delete_owned_next, delete_owned_unlink,
           delete_owned_uninit, delete_owned_free, team_create, semTableVars
  <2> QED
    BY <2>1, StepIInv
<1> QED
  BY <1>1, <1>2, PTL DEF TableSpec

\* The state of the table keeps its type until somebody clashes with
\* sem_delete_owned_sems(); sUsedSems stays between zero and the size of the table.
THEOREM SemTableTypes == TableSpec => [](~clash => TableTypeOK)
<1>1. (~clash => IInv) => (~clash => TableTypeOK)
  BY DEF IInv
<1> QED
  BY <1>1, Invariance, PTL

\* An id leads back to its slot, also after the ids have wrapped around.
THEOREM IdsNameTheirSlots == TableSpec => []IdNamesSlot
<1>1. (~clash => IInv) => IdNamesSlot
  BY DEF IInv, SlotInv, IdInv, IdNamesSlot
<1> QED
  BY <1>1, Invariance, PTL

\* The lists of the teams have the semaphores the teams own, and no others.
THEOREM ListsHaveTheSemaphores == TableSpec => []ListsMatchOwners
<1>1. ASSUME ~clash => IInv PROVE ListsMatchOwners
  <2>1. SUFFICES ASSUME IInv, NEW team \in Teams, NEW s \in Slots
                 PROVE  /\ team \in dying => sem_list[team] = <<>>
                        /\ Contains(sem_list[team], s) \/ Contains(moved[team], s) =>
                              id[s] # -1 /\ owner[s] = team
                        /\ (id[s] # -1 /\ owner[s] = team) =>
                              \/ Contains(sem_list[team], s)
                              \/ Contains(moved[team], s)
                              \/ BeingInserted(s)
                              \/ teamPc[team] = "uninit" /\ current[team] = s
    BY <1>1 DEF ListsMatchOwners, IInv, TeamListsInv, ListInv, TeamInv
  <2>2. TeamInv(team)
    BY <2>1 DEF IInv, TeamListsInv, ListInv
  <2>3. sem_list[team] \in Seq(Slots) /\ moved[team] \in Seq(Slots)
    BY <2>1 DEF IInv, TableTypeOK
  <2>4. /\ Contains(sem_list[team], s) <=> InQueue(sem_list[team], s)
        /\ Contains(moved[team], s) <=> InQueue(moved[team], s)
    BY <2>3 DEF Contains, InQueue
  <2>5. id[s] # -1 /\ owner[s] = team => \/ InQueue(sem_list[team], s)
                                         \/ InQueue(moved[team], s)
                                         \/ BeingInserted(s)
                                         \/ BeingDeleted(team, s)
    BY <2>1 DEF IInv, TeamListsInv, OwnerInv
  <2> QED
    BY <2>2, <2>4, <2>5 DEF BeingDeleted, TeamInv, Listed
<1> QED
  BY <1>1, Invariance, PTL

\* No slot is lost or used twice, and sUsedSems counts those that are not free.
THEOREM SlotsAreAccountedFor == TableSpec => []SlotAccounting
<1>1. ASSUME ~clash => IInv, ~clash
      PROVE  /\ \A s \in Slots :
                   (IF id[s] # -1 THEN 1 ELSE 0)
                     + Cardinality({i \in DOMAIN free : free[i] = s})
                     + Cardinality({a \in BeingFreed : SlotOf(freed[a]) = s}) = 1
             /\ used = MaxSems - Len(free)
  <2>1. used = MaxSems - Len(free)
    BY <1>1 DEF IInv, SlotInv, FreeInv
  <2>2. ASSUME NEW s \in Slots
        PROVE  (IF id[s] # -1 THEN 1 ELSE 0)
                 + Cardinality({i \in DOMAIN free : free[i] = s})
                 + Cardinality({a \in BeingFreed : SlotOf(freed[a]) = s}) = 1
    <3> DEFINE F == {i \in DOMAIN free : free[i] = s}
               B == {a \in BeingFreed : SlotOf(freed[a]) = s}
    <3>1. /\ F # {} => \E i : F = {i}
          /\ B # {} => \E a : B = {a}
      <4>1. \A i, j \in F : i = j
        BY <1>1 DEF IInv, SlotInv, FreeInv, Distinct
      <4>2. \A a, b \in B : a = b
        BY <1>1 DEF IInv, SlotInv, FreeingInv
      <4> HIDE DEF F, B
      <4> QED
        BY <4>1, <4>2
    <3>2. /\ F # {} <=> InQueue(free, s)
          /\ B # {} <=> \E a \in BeingFreed : SlotOf(freed[a]) = s
      BY DEF InQueue
    <3>3. /\ id[s] # -1 => F = {} /\ B = {}
          /\ F # {} => B = {}
          /\ id[s] # -1 \/ F # {} \/ B # {}
      BY <1>1, <3>2 DEF IInv, SlotInv, FreeInv, FreeingInv, KeptInv
    <3> HIDE DEF F, B
    <3>4. /\ Cardinality(F) = IF F = {} THEN 0 ELSE 1
          /\ Cardinality(B) = IF B = {} THEN 0 ELSE 1
      BY <3>1, FS_EmptySet, FS_Singleton
    <3>5. (IF id[s] # -1 THEN 1 ELSE 0) + Cardinality(F) + Cardinality(B) = 1
      BY <3>3, <3>4
    <3> QED
      BY <3>5 DEF F, B
  <2> QED
    BY <2>1, <2>2
<1>2. (~clash => IInv) => SlotAccounting
  BY <1>1 DEF SlotAccounting
<1> QED
  BY <1>2, Invariance, PTL

-----------------------------------------------------------------------------
(***************************************************************************)
(* The units of the semaphores (module Semaphore).                         *)
(***************************************************************************)

(***************************************************************************)
(* Loops over a queue.  FoldLeft() is defined by recursion over the sets   *)
(* of positions; for the positions 1 .. k of a sequence that is recursion  *)
(* over k.                                                                 *)
(***************************************************************************)

\* What holds of 0, and of k + 1 if it holds of k, holds up to n.
LEMMA CountUp ==
    ASSUME NEW n \in Nat, NEW P \in SUBSET Nat, 0 \in P, \A k \in 0 .. (n - 1) : k \in P => k + 1 \in P
    PROVE  \A k \in 0 .. n : k \in P
<1> DEFINE T == {k \in 0 .. n : k \notin P}
<1> SUFFICES ASSUME T # {} PROVE FALSE
  OBVIOUS
<1>1. T \in SUBSET Nat
  OBVIOUS
<1>2. PICK k \in T : \A j \in T : k <= j
  <2> HIDE DEF T
  <2> QED
    BY <1>1, LeastElement
<1>3. k \in 0 .. n /\ k # 0 /\ k - 1 \in 0 .. (n - 1)
  BY <1>2
<1>4. k - 1 \in P
  <2>1. k - 1 \notin T
    BY <1>2, <1>3
  <2> QED
    BY <1>3, <2>1
<1> QED
  BY <1>2, <1>3, <1>4

LEMMA RowMax ==
    ASSUME NEW n \in Nat, NEW s \in SUBSET (1 .. n), s # {}
    PROVE  Max(s) \in s /\ \A x \in s : x <= Max(s)
<1> DEFINE D == {n - x : x \in s}
<1>1. D \in SUBSET Nat /\ D # {}
  <2>1. \A x \in s : x \in 1 .. n /\ n - x \in Nat /\ n - x \in D
    OBVIOUS
  <2> QED
    BY <2>1
<1>2. PICK d \in D : \A e \in D : d <= e
  <2> HIDE DEF D
  <2> QED
    BY <1>1, LeastElement
<1>3. PICK x \in s : d = n - x
  BY <1>2
<1>4. \A y \in s : x >= y
  <2> SUFFICES ASSUME NEW y \in s PROVE x >= y
    OBVIOUS
  <2>1. n - y \in D
    OBVIOUS
  <2>2. d <= n - y
    BY <1>2, <2>1
  <2> QED
    BY <1>3, <2>2
<1>5. Max(s) \in s /\ \A y \in s : Max(s) >= y
  BY <1>4 DEF Max
<1> QED
  BY <1>5

LEMMA RowTop ==
    ASSUME NEW n \in Nat, NEW s \in SUBSET (1 .. n), n \in s
    PROVE  Max(s) = n
<1>1. Max(s) \in s /\ n <= Max(s)
  BY RowMax
<1>2. Max(s) \in 1 .. n
  BY <1>1
<1> QED
  BY <1>1, <1>2

\* The recursion has a solution.
Iteration(it, base, step, q) ==
    it = [s \in SUBSET DOMAIN q |-> IF s = {} THEN base ELSE step[<<it[s \ {Max(s)}], q[Max(s)]>>]]

LEMMA FoldExists ==
    ASSUME NEW A, NEW B, NEW q \in Seq(B), NEW base \in A, NEW step \in [A \X B -> A]
    PROVE  \E it : Iteration(it, base, step, q) /\ \A s \in SUBSET DOMAIN q : it[s] \in A
<1> DEFINE Solves(it, n) ==
              /\ it = [s \in SUBSET (1 .. n) |->
                          IF s = {} THEN base ELSE step[<<it[s \ {Max(s)}], q[Max(s)]>>]]
              /\ \A s \in SUBSET (1 .. n) : it[s] \in A
           P == {n \in Nat : \E it : Solves(it, n)}
<1>1. 0 \in P
  <2> DEFINE i0 == [s \in SUBSET (1 .. 0) |-> base]
  <2>1. \A s \in SUBSET (1 .. 0) : s = {} /\ i0[s] = base
    OBVIOUS
  <2>2. i0 = [s \in SUBSET (1 .. 0) |-> IF s = {} THEN base ELSE step[<<i0[s \ {Max(s)}], q[Max(s)]>>]]
    <3> DEFINE j0 == [s \in SUBSET (1 .. 0) |->
                         IF s = {} THEN base ELSE step[<<i0[s \ {Max(s)}], q[Max(s)]>>]]
    <3>1. \A s \in SUBSET (1 .. 0) : j0[s] = base
      BY <2>1
    <3> QED
      BY <2>1, <3>1
  <2>3. Solves(i0, 0)
    BY <2>1, <2>2
  <2> QED
    BY <2>3
<1>2. ASSUME NEW n \in 0 .. (Len(q) - 1), n \in P PROVE n + 1 \in P
  <2>1. PICK it : Solves(it, n)
    BY <1>2
  <2>0. n \in Nat /\ n + 1 \in Nat /\ n + 1 \in 1 .. Len(q) /\ q[n + 1] \in B
    OBVIOUS
  <2> DEFINE i2 == [s \in SUBSET (1 .. (n + 1)) |->
                       IF n + 1 \in s THEN step[<<it[s \ {n + 1}], q[n + 1]>>] ELSE it[s]]
             j2 == [s \in SUBSET (1 .. (n + 1)) |->
                       IF s = {} THEN base ELSE step[<<i2[s \ {Max(s)}], q[Max(s)]>>]]
  <2>2. ASSUME NEW s \in SUBSET (1 .. (n + 1)), n + 1 \in s PROVE i2[s] \in A /\ i2[s] = j2[s]
    <3>1. Max(s) = n + 1
      BY <2>0, <2>2, RowTop
    <3>2. s \ {n + 1} \in SUBSET (1 .. n) /\ s \ {n + 1} \in SUBSET (1 .. (n + 1))
      BY <2>0
    <3>3. i2[s \ {n + 1}] = it[s \ {n + 1}] /\ it[s \ {n + 1}] \in A
      BY <2>1, <3>2
    <3>4. i2[s] = step[<<it[s \ {n + 1}], q[n + 1]>>]
      BY <2>2
    <3>5. j2[s] = step[<<i2[s \ {n + 1}], q[n + 1]>>]
      BY <2>2, <3>1
    <3> QED
      BY <2>0, <3>3, <3>4, <3>5
  <2>3. ASSUME NEW s \in SUBSET (1 .. (n + 1)), n + 1 \notin s PROVE i2[s] \in A /\ i2[s] = j2[s]
    <3>1. s \in SUBSET (1 .. n) /\ s \ {Max(s)} \in SUBSET (1 .. n)
      <4>1. \A x \in s : x \in 1 .. (n + 1) /\ x # n + 1
        BY <2>3
      <4>2. \A x \in s : x \in 1 .. n
        BY <2>0, <4>1
      <4> QED
        BY <4>2
    <3>2. i2[s] = it[s] /\ i2[s \ {Max(s)}] = it[s \ {Max(s)}]
      <4>1. s \ {Max(s)} \in SUBSET (1 .. (n + 1)) /\ n + 1 \notin s \ {Max(s)}
        BY <2>3
      <4> QED
        BY <2>3, <4>1
    <3>3. it[s] = IF s = {} THEN base ELSE step[<<it[s \ {Max(s)}], q[Max(s)]>>]
      BY <2>1, <3>1
    <3>4. j2[s] = IF s = {} THEN base ELSE step[<<i2[s \ {Max(s)}], q[Max(s)]>>]
      OBVIOUS
    <3> QED
      BY <2>1, <3>1, <3>2, <3>3, <3>4
  <2>4. i2 = j2
    <3>1. \A s \in SUBSET (1 .. (n + 1)) : i2[s] = j2[s]
      BY <2>2, <2>3
    <3>2. i2 = [s \in SUBSET (1 .. (n + 1)) |-> i2[s]] /\ j2 = [s \in SUBSET (1 .. (n + 1)) |-> j2[s]]
      OBVIOUS
    <3> HIDE DEF i2, j2
    <3> QED
      BY <3>1, <3>2
  <2>5. \A s \in SUBSET (1 .. (n + 1)) : i2[s] \in A
    BY <2>2, <2>3
  <2>6. Solves(i2, n + 1)
    BY <2>4, <2>5
  <2> HIDE DEF Solves
  <2> QED
    BY <2>0, <2>6
<1>3. Len(q) \in P
  <2>1. P \in SUBSET Nat /\ Len(q) \in Nat /\ Len(q) \in 0 .. Len(q)
    OBVIOUS
  <2> HIDE DEF P
  <2>2. \A n \in 0 .. (Len(q) - 1) : n \in P => n + 1 \in P
    BY <1>2
  <2> QED
    BY <1>1, <2>1, <2>2, CountUp
<1>4. DOMAIN q = 1 .. Len(q)
  OBVIOUS
<1> QED
  BY <1>3, <1>4 DEF Iteration

\* The accumulators of the two loops.
LoopStates == [count : Int, net : Nat, left : Nat, wake : SUBSET Threads, stay : Seq(Threads)]

\* The accumulator with these fields.
Acc(c, n, l, w, s) == [count |-> c, net |-> n, left |-> l, wake |-> w, stay |-> s]

AccNames == {"count", "net", "left", "wake", "stay"}

LEMMA AccIs ==
    ASSUME NEW z, DOMAIN z = AccNames, z = [f \in DOMAIN z |-> z[f]]
    PROVE  z = Acc(z.count, z.net, z.left, z.wake, z.stay)
  BY DEF Acc, AccNames

LEMMA AccCount ==
    ASSUME NEW r \in LoopStates, NEW x
    PROVE  [r EXCEPT !.count = x] = Acc(x, r.net, r.left, r.wake, r.stay)
<1> DEFINE u == [r EXCEPT !.count = x]
<1>1. DOMAIN u = AccNames /\ u = [f \in DOMAIN u |-> u[f]]
  BY DEF LoopStates, AccNames
<1>2. u.count = x /\ u.net = r.net /\ u.left = r.left /\ u.wake = r.wake /\ u.stay = r.stay
  BY DEF LoopStates
<1> HIDE DEF u
<1>3. u = Acc(u.count, u.net, u.left, u.wake, u.stay)
  BY <1>1, AccIs
<1> QED
  BY <1>2, <1>3 DEF u

LEMMA AccStay ==
    ASSUME NEW r \in LoopStates, NEW x
    PROVE  [r EXCEPT !.stay = x] = Acc(r.count, r.net, r.left, r.wake, x)
<1> DEFINE u == [r EXCEPT !.stay = x]
<1>1. DOMAIN u = AccNames /\ u = [f \in DOMAIN u |-> u[f]]
  BY DEF LoopStates, AccNames
<1>2. u.count = r.count /\ u.net = r.net /\ u.left = r.left /\ u.wake = r.wake /\ u.stay = x
  BY DEF LoopStates
<1> HIDE DEF u
<1>3. u = Acc(u.count, u.net, u.left, u.wake, u.stay)
  BY <1>1, AccIs
<1> QED
  BY <1>2, <1>3 DEF u

LEMMA AccNetWake ==
    ASSUME NEW r \in LoopStates, NEW x, NEW y
    PROVE  [r EXCEPT !.net = x, !.wake = y] = Acc(r.count, x, r.left, y, r.stay)
<1> DEFINE u == [r EXCEPT !.net = x, !.wake = y]
<1>1. DOMAIN u = AccNames /\ u = [f \in DOMAIN u |-> u[f]]
  BY DEF LoopStates, AccNames
<1>2. u.count = r.count /\ u.net = x /\ u.left = r.left /\ u.wake = y /\ u.stay = r.stay
  BY DEF LoopStates
<1> HIDE DEF u
<1>3. u = Acc(u.count, u.net, u.left, u.wake, u.stay)
  BY <1>1, AccIs
<1> QED
  BY <1>2, <1>3 DEF u

LEMMA AccCountNet ==
    ASSUME NEW r \in LoopStates, NEW x, NEW y
    PROVE  [r EXCEPT !.count = x, !.net = y] = Acc(x, y, r.left, r.wake, r.stay)
<1> DEFINE u == [r EXCEPT !.count = x, !.net = y]
<1>1. DOMAIN u = AccNames /\ u = [f \in DOMAIN u |-> u[f]]
  BY DEF LoopStates, AccNames
<1>2. u.count = x /\ u.net = y /\ u.left = r.left /\ u.wake = r.wake /\ u.stay = r.stay
  BY DEF LoopStates
<1> HIDE DEF u
<1>3. u = Acc(u.count, u.net, u.left, u.wake, u.stay)
  BY <1>1, AccIs
<1> QED
  BY <1>2, <1>3 DEF u

LEMMA AccBroken ==
    ASSUME NEW r \in LoopStates, NEW x, NEW y, NEW z
    PROVE  [r EXCEPT !.count = x, !.net = y, !.left = z] = Acc(x, y, z, r.wake, r.stay)
<1> DEFINE u == [r EXCEPT !.count = x, !.net = y, !.left = z]
<1>1. DOMAIN u = AccNames /\ u = [f \in DOMAIN u |-> u[f]]
  BY DEF LoopStates, AccNames
<1>2. u.count = x /\ u.net = y /\ u.left = z /\ u.wake = r.wake /\ u.stay = r.stay
  BY DEF LoopStates
<1> HIDE DEF u
<1>3. u = Acc(u.count, u.net, u.left, u.wake, u.stay)
  BY <1>1, AccIs
<1> QED
  BY <1>2, <1>3 DEF u

LEMMA AccWoken ==
    ASSUME NEW r \in LoopStates, NEW x, NEW y, NEW z, NEW v
    PROVE  [r EXCEPT !.count = x, !.net = y, !.left = z, !.wake = v] = Acc(x, y, z, v, r.stay)
<1> DEFINE u == [r EXCEPT !.count = x, !.net = y, !.left = z, !.wake = v]
<1>1. DOMAIN u = AccNames /\ u = [f \in DOMAIN u |-> u[f]]
  BY DEF LoopStates, AccNames
<1>2. u.count = x /\ u.net = y /\ u.left = z /\ u.wake = v /\ u.stay = r.stay
  BY DEF LoopStates
<1> HIDE DEF u
<1>3. u = Acc(u.count, u.net, u.left, u.wake, u.stay)
  BY <1>1, AccIs
<1> QED
  BY <1>2, <1>3 DEF u

\* What a round of each loop returns.
LEMMA ReleaseRoundIs ==
    ASSUME NEW r \in LoopStates, NEW t \in Threads
    PROVE  ReleaseRound(r, t) =
             IF r.left = 0 \/ r.stay # <<>> THEN Acc(r.count, r.net, r.left, r.wake, Append(r.stay, t))
             ELSE IF wait_status[t] # "waiting" THEN Acc(r.count + want[t], r.net, r.left, r.wake, r.stay)
             ELSE IF want[t] > r.net + r.left
             THEN Acc(r.count + r.left, r.net + r.left, 0, r.wake, Append(r.stay, t))
             ELSE LET d == IF r.left < want[t] THEN r.left ELSE want[t]
                  IN  Acc(r.count + d, r.net + d - want[t], r.left - d, r.wake \cup {t}, r.stay)
<1> DEFINE d == IF r.left < want[t] THEN r.left ELSE want[t]
           p == [r EXCEPT !.stay = Append(r.stay, t)]
           u1 == [r EXCEPT !.count = r.count + want[t]]
           u2 == [p EXCEPT !.count = p.count + r.left, !.net = p.net + r.left, !.left = 0]
           u3 == [r EXCEPT !.count = r.count + d, !.net = r.net + d - want[t], !.left = r.left - d,
                           !.wake = r.wake \cup {t}]
<1>1. ReleaseRound(r, t) =
         IF r.left = 0 \/ r.stay # <<>> THEN p
         ELSE IF wait_status[t] # "waiting" THEN u1
         ELSE IF want[t] > r.net + r.left THEN u2
         ELSE u3
  BY Zenon DEF ReleaseRound, Stays, Drop, Unsatisfied, IsWaiting, thread_is_blocked
<1>2. p = Acc(r.count, r.net, r.left, r.wake, Append(r.stay, t))
  BY AccStay, Zenon
<1>3. p \in LoopStates /\ p.count = r.count /\ p.net = r.net /\ p.wake = r.wake /\ p.stay = Append(r.stay, t)
  <2>1. /\ r.count \in Int /\ r.net \in Nat /\ r.left \in Nat /\ r.wake \in SUBSET Threads
        /\ Append(r.stay, t) \in Seq(Threads)
    BY DEF LoopStates
  <2> HIDE DEF p
  <2> QED
    BY <1>2, <2>1 DEF Acc, LoopStates
<1>4. u1 = Acc(r.count + want[t], r.net, r.left, r.wake, r.stay)
  BY AccCount, Zenon
<1>5. u2 = Acc(r.count + r.left, r.net + r.left, 0, r.wake, Append(r.stay, t))
  <2> HIDE DEF p
  <2>1. u2 = Acc(p.count + r.left, p.net + r.left, 0, p.wake, p.stay)
    <3>1. p \in LoopStates
      BY <1>3
    <3> QED
      BY <3>1, AccBroken, Zenon
  <2> QED
    BY <1>3, <2>1
<1>6. u3 = Acc(r.count + d, r.net + d - want[t], r.left - d, r.wake \cup {t}, r.stay)
  <2> HIDE DEF d
  <2> QED
    BY AccWoken, Zenon
<1> HIDE DEF p, u1, u2, u3
<1> QED
  BY <1>1, <1>2, <1>4, <1>5, <1>6

LEMMA RemoveRoundIs ==
    ASSUME NEW r \in LoopStates, NEW t \in Threads
    PROVE  RemoveRound(r, t) =
             IF r.stay # <<>> THEN Acc(r.count, r.net, r.left, r.wake, Append(r.stay, t))
             ELSE IF wait_status[t] # "waiting" THEN Acc(r.count + want[t], r.net, r.left, r.wake, r.stay)
             ELSE IF want[t] > r.net THEN Acc(r.count, r.net, r.left, r.wake, Append(r.stay, t))
             ELSE Acc(r.count, r.net - want[t], r.left, r.wake \cup {t}, r.stay)
<1> DEFINE p == [r EXCEPT !.stay = Append(r.stay, t)]
           u1 == [r EXCEPT !.count = r.count + want[t]]
           u2 == [r EXCEPT !.net = r.net - want[t], !.wake = r.wake \cup {t}]
<1>1. RemoveRound(r, t) =
         IF r.stay # <<>> THEN p ELSE IF wait_status[t] # "waiting" THEN u1
         ELSE IF want[t] > r.net THEN p ELSE u2
  BY Zenon DEF RemoveRound, Stays, Drop, WakeNext, Unsatisfied, IsWaiting,
               thread_is_blocked
<1>2. /\ p = Acc(r.count, r.net, r.left, r.wake, Append(r.stay, t))
      /\ u1 = Acc(r.count + want[t], r.net, r.left, r.wake, r.stay)
      /\ u2 = Acc(r.count, r.net - want[t], r.left, r.wake \cup {t}, r.stay)
  BY AccStay, AccCount, AccNetWake, Zenon
<1> HIDE DEF p, u1, u2
<1> QED
  BY <1>1, <1>2

LEMMA ReleaseRoundType ==
    ASSUME want \in [Threads -> Nat], NEW r \in LoopStates, NEW t \in Threads
    PROVE  ReleaseRound(r, t) \in LoopStates
<1>1. /\ Append(r.stay, t) \in Seq(Threads) /\ want[t] \in Nat /\ r.net \in Nat /\ r.left \in Nat
      /\ r.count \in Int /\ r.wake \in SUBSET Threads /\ r.wake \cup {t} \in SUBSET Threads /\ r.stay \in Seq(Threads)
  BY DEF LoopStates
<1>2. CASE r.left = 0 \/ r.stay # <<>>
  <2>1. ReleaseRound(r, t) = Acc(r.count, r.net, r.left, r.wake, Append(r.stay, t))
    BY <1>2, ReleaseRoundIs
  <2> QED
    BY <1>1, <2>1 DEF Acc, LoopStates
<1>3. CASE ~(r.left = 0 \/ r.stay # <<>>) /\ wait_status[t] # "waiting"
  <2>1. r.count + want[t] \in Int
    BY <1>1
  <2> QED
    BY <1>1, <1>3, <2>1, ReleaseRoundIs DEF Acc, LoopStates
<1>4. CASE ~(r.left = 0 \/ r.stay # <<>>) /\ wait_status[t] = "waiting" /\ want[t] > r.net + r.left
  <2>1. r.count + r.left \in Int /\ r.net + r.left \in Nat /\ 0 \in Nat
    BY <1>1
  <2> QED
    BY <1>1, <1>4, <2>1, ReleaseRoundIs DEF Acc, LoopStates
<1>5. CASE ~(r.left = 0 \/ r.stay # <<>>) /\ wait_status[t] = "waiting" /\ ~(want[t] > r.net + r.left)
  <2> DEFINE d == IF r.left < want[t] THEN r.left ELSE want[t]
  <2>1. r.count + d \in Int /\ r.net + d - want[t] \in Nat /\ r.left - d \in Nat
    BY <1>1, <1>5
  <2>2. ReleaseRound(r, t) = Acc(r.count + d, r.net + d - want[t], r.left - d, r.wake \cup {t}, r.stay)
    BY <1>5, ReleaseRoundIs
  <2> HIDE DEF d
  <2> QED
    BY <1>1, <2>1, <2>2 DEF Acc, LoopStates
<1> QED
  BY <1>2, <1>3, <1>4, <1>5

LEMMA RemoveRoundType ==
    ASSUME want \in [Threads -> Nat], NEW r \in LoopStates, NEW t \in Threads
    PROVE  RemoveRound(r, t) \in LoopStates
<1>1. /\ Append(r.stay, t) \in Seq(Threads) /\ want[t] \in Nat /\ r.net \in Nat /\ r.left \in Nat
      /\ r.count \in Int /\ r.wake \in SUBSET Threads /\ r.wake \cup {t} \in SUBSET Threads /\ r.stay \in Seq(Threads)
  BY DEF LoopStates
<1>2. r.count + want[t] \in Int /\ (~(want[t] > r.net) => r.net - want[t] \in Nat)
  BY <1>1
<1>3. CASE RemoveRound(r, t) = Acc(r.count, r.net, r.left, r.wake, Append(r.stay, t))
  BY <1>1, <1>3 DEF Acc, LoopStates
<1>4. CASE RemoveRound(r, t) = Acc(r.count + want[t], r.net, r.left, r.wake, r.stay)
  BY <1>1, <1>2, <1>4 DEF Acc, LoopStates
<1>5. CASE /\ ~(want[t] > r.net)
           /\ RemoveRound(r, t) = Acc(r.count, r.net - want[t], r.left, r.wake \cup {t}, r.stay)
  BY <1>1, <1>2, <1>5 DEF Acc, LoopStates
<1> QED
  BY <1>3, <1>4, <1>5, RemoveRoundIs

\* The positions 1 .. k.
LEMMA Rows ==
    ASSUME NEW B, NEW q \in Seq(B), NEW k \in 1 .. Len(q)
    PROVE  /\ 1 .. k \in SUBSET DOMAIN q /\ 1 .. k # {} /\ Max(1 .. k) = k /\ (1 .. k) \ {k} = 1 .. (k - 1)
<1>1. k \in Nat /\ k \in 1 .. k /\ 1 .. k \in SUBSET (1 .. k)
  OBVIOUS
<1>2. Max(1 .. k) = k
  BY <1>1, RowTop
<1>3. (1 .. k) \ {k} = 1 .. (k - 1)
  BY <1>1
<1>4. 1 .. k \in SUBSET DOMAIN q /\ 1 .. k # {}
  <2>1. DOMAIN q = 1 .. Len(q) /\ Len(q) \in Nat
    OBVIOUS
  <2>2. \A x \in 1 .. k : x \in 1 .. Len(q)
    BY <2>1
  <2> QED
    BY <1>1, <2>1, <2>2
<1> QED
  BY <1>2, <1>3, <1>4

LEMMA PositionInQueue ==
    ASSUME NEW B, NEW q \in Seq(B), NEW s \in SUBSET DOMAIN q, s # {}
    PROVE  q[Max(s)] \in B
<1>1. s \in SUBSET (1 .. Len(q)) /\ Len(q) \in Nat
  OBVIOUS
<1>2. Max(s) \in s
  BY <1>1, RowMax
<1> QED
  BY <1>2

\* The loop of release_sem_etc(), round by round.
LEMMA ReleaseRounds ==
    ASSUME want \in [Threads -> Nat], NEW q \in Seq(Threads), NEW base \in LoopStates
    PROVE  \E f : /\ f[0] = base
                  /\ \A k \in 1 .. Len(q) : f[k] = ReleaseRound(f[k - 1], q[k])
                  /\ FoldLeft(ReleaseRound, base, q) = f[Len(q)]
<1> DEFINE Solves(it) == it = [s \in SUBSET DOMAIN q |->
                                 IF s = {} THEN base
                                 ELSE ReleaseRound(it[s \ {Max(s)}], q[Max(s)])]
           step == [x \in LoopStates \X Threads |-> ReleaseRound(x[1], x[2])]
<1>1. \E it : Solves(it)
  <2>1. step \in [LoopStates \X Threads -> LoopStates]
    BY ReleaseRoundType
  <2>2. \A r \in LoopStates, t \in Threads : step[<<r, t>>] = ReleaseRound(r, t)
    OBVIOUS
  <2> HIDE DEF step
  <2>3. PICK it : Iteration(it, base, step, q) /\ \A s \in SUBSET DOMAIN q : it[s] \in LoopStates
    BY <2>1, FoldExists
  <2>4. \A s \in SUBSET DOMAIN q : s # {} =>
           step[<<it[s \ {Max(s)}], q[Max(s)]>>] = ReleaseRound(it[s \ {Max(s)}], q[Max(s)])
    <3> SUFFICES ASSUME NEW s \in SUBSET DOMAIN q, s # {}
                 PROVE  step[<<it[s \ {Max(s)}], q[Max(s)]>>] = ReleaseRound(it[s \ {Max(s)}], q[Max(s)])
      OBVIOUS
    <3>1. s \ {Max(s)} \in SUBSET DOMAIN q
      OBVIOUS
    <3> QED
      BY <2>2, <2>3, <3>1, PositionInQueue
  <2>5. Solves(it)
    BY <2>3, <2>4 DEF Iteration
  <2> QED
    BY <2>5
<1> DEFINE it == CHOOSE i : Solves(i)
<1>2. Solves(it)
  BY <1>1
<1>3. FoldLeft(ReleaseRound, base, q) = it[DOMAIN q]
  BY DEF FoldLeft, MapThenFoldSet, Max
<1> HIDE DEF it
<1>4. it[{}] = base
  BY <1>2
<1>5. ASSUME NEW k \in 1 .. Len(q) PROVE it[1 .. k] = ReleaseRound(it[1 .. (k - 1)], q[k])
  <2>1. 1 .. k \in SUBSET DOMAIN q /\ 1 .. k # {} /\ Max(1 .. k) = k /\ (1 .. k) \ {k} = 1 .. (k - 1)
    BY Rows
  <2> DEFINE x == 1 .. k
  <2>2. it[x] = ReleaseRound(it[x \ {Max(x)}], q[Max(x)])
    <3>1. x \in SUBSET DOMAIN q /\ x # {}
      BY <2>1
    <3> HIDE DEF x
    <3> QED
      BY <1>2, <3>1
  <2> QED
    BY <2>1, <2>2
<1> DEFINE f == [k \in 0 .. Len(q) |-> it[1 .. k]]
<1>6. f[0] = base
  <2>1. 1 .. 0 = {} /\ Len(q) \in Nat
    OBVIOUS
  <2> QED
    BY <1>4, <2>1
<1>7. ASSUME NEW k \in 1 .. Len(q) PROVE f[k] = ReleaseRound(f[k - 1], q[k])
  <2>1. k \in 0 .. Len(q) /\ k - 1 \in 0 .. Len(q)
    OBVIOUS
  <2> QED
    BY <1>5, <2>1
<1>8. f[Len(q)] = it[DOMAIN q]
  OBVIOUS
<1> QED
  BY <1>3, <1>6, <1>7, <1>8

\* The loop of remove_thread_from_sem(), round by round.
LEMMA RemoveRounds ==
    ASSUME want \in [Threads -> Nat], NEW q \in Seq(Threads), NEW base \in LoopStates
    PROVE  \E f : /\ f[0] = base
                  /\ \A k \in 1 .. Len(q) : f[k] = RemoveRound(f[k - 1], q[k])
                  /\ FoldLeft(RemoveRound, base, q) = f[Len(q)]
<1> DEFINE Solves(it) == it = [s \in SUBSET DOMAIN q |->
                                 IF s = {} THEN base
                                 ELSE RemoveRound(it[s \ {Max(s)}], q[Max(s)])]
           step == [x \in LoopStates \X Threads |-> RemoveRound(x[1], x[2])]
<1>1. \E it : Solves(it)
  <2>1. step \in [LoopStates \X Threads -> LoopStates]
    BY RemoveRoundType
  <2>2. \A r \in LoopStates, t \in Threads : step[<<r, t>>] = RemoveRound(r, t)
    OBVIOUS
  <2> HIDE DEF step
  <2>3. PICK it : Iteration(it, base, step, q) /\ \A s \in SUBSET DOMAIN q : it[s] \in LoopStates
    BY <2>1, FoldExists
  <2>4. \A s \in SUBSET DOMAIN q : s # {} =>
           step[<<it[s \ {Max(s)}], q[Max(s)]>>] = RemoveRound(it[s \ {Max(s)}], q[Max(s)])
    <3> SUFFICES ASSUME NEW s \in SUBSET DOMAIN q, s # {}
                 PROVE  step[<<it[s \ {Max(s)}], q[Max(s)]>>] = RemoveRound(it[s \ {Max(s)}], q[Max(s)])
      OBVIOUS
    <3>1. s \ {Max(s)} \in SUBSET DOMAIN q
      OBVIOUS
    <3> QED
      BY <2>2, <2>3, <3>1, PositionInQueue
  <2>5. Solves(it)
    BY <2>3, <2>4 DEF Iteration
  <2> QED
    BY <2>5
<1> DEFINE it == CHOOSE i : Solves(i)
<1>2. Solves(it)
  BY <1>1
<1>3. FoldLeft(RemoveRound, base, q) = it[DOMAIN q]
  BY DEF FoldLeft, MapThenFoldSet, Max
<1> HIDE DEF it
<1>4. it[{}] = base
  BY <1>2
<1>5. ASSUME NEW k \in 1 .. Len(q) PROVE it[1 .. k] = RemoveRound(it[1 .. (k - 1)], q[k])
  <2>1. 1 .. k \in SUBSET DOMAIN q /\ 1 .. k # {} /\ Max(1 .. k) = k /\ (1 .. k) \ {k} = 1 .. (k - 1)
    BY Rows
  <2> DEFINE x == 1 .. k
  <2>2. it[x] = RemoveRound(it[x \ {Max(x)}], q[Max(x)])
    <3>1. x \in SUBSET DOMAIN q /\ x # {}
      BY <2>1
    <3> HIDE DEF x
    <3> QED
      BY <1>2, <3>1
  <2> QED
    BY <2>1, <2>2
<1> DEFINE f == [k \in 0 .. Len(q) |-> it[1 .. k]]
<1>6. f[0] = base
  <2>1. 1 .. 0 = {} /\ Len(q) \in Nat
    OBVIOUS
  <2> QED
    BY <1>4, <2>1
<1>7. ASSUME NEW k \in 1 .. Len(q) PROVE f[k] = RemoveRound(f[k - 1], q[k])
  <2>1. k \in 0 .. Len(q) /\ k - 1 \in 0 .. Len(q)
    OBVIOUS
  <2> QED
    BY <1>5, <2>1
<1>8. f[Len(q)] = it[DOMAIN q]
  OBVIOUS
<1> QED
  BY <1>3, <1>6, <1>7, <1>8

-----------------------------------------------------------------------------
(***************************************************************************)
(* What the threads of a queue ask for, together.                          *)
(***************************************************************************)
Total(w, q) == FoldLeft(LAMBDA n, t : n + w[t], 0, q)

LEMMA AskedIsTotal ==
    ASSUME NEW s
    PROVE  Asked(s) = Total(want, queue[s]) /\ Asked(s)' = Total(want', queue'[s])
  BY DEF Asked, Total, FoldLeft, MapThenFoldSet

\* f[k] is what the first k threads ask for.
Sums(f, w, q) == f[0] = 0 /\ \A k \in 1 .. Len(q) : f[k] = f[k - 1] + w[q[k]]

LEMMA SumsAreNat ==
    ASSUME NEW w \in [Threads -> Nat], NEW q \in Seq(Threads), NEW f, Sums(f, w, q)
    PROVE  \A k \in 0 .. Len(q) : f[k] \in Nat
<1> DEFINE P == {k \in 0 .. Len(q) : f[k] \in Nat}
<1>1. P \in SUBSET Nat /\ Len(q) \in Nat /\ 0 \in P
  BY DEF Sums
<1>2. ASSUME NEW k \in 0 .. (Len(q) - 1), k \in P PROVE k + 1 \in P
  <2>1. k + 1 \in 1 .. Len(q) /\ k + 1 \in 0 .. Len(q) /\ (k + 1) - 1 = k /\ q[k + 1] \in Threads
    OBVIOUS
  <2>2. f[k + 1] = f[k] + w[q[k + 1]]
    BY <2>1 DEF Sums
  <2>3. f[k] \in Nat /\ w[q[k + 1]] \in Nat
    BY <1>2, <2>1
  <2> QED
    BY <2>1, <2>2, <2>3
<1>3. \A k \in 0 .. Len(q) : k \in P
  <2>1. \A k \in 0 .. (Len(q) - 1) : k \in P => k + 1 \in P
    BY <1>2
  <2> HIDE DEF P
  <2> QED
    BY <1>1, <2>1, CountUp
<1> QED
  BY <1>3

LEMMA TotalRounds ==
    ASSUME NEW w \in [Threads -> Nat], NEW q \in Seq(Threads)
    PROVE  \E f : Sums(f, w, q) /\ Total(w, q) = f[Len(q)]
<1> DEFINE Solves(it) == it = [s \in SUBSET DOMAIN q |->
                                 IF s = {} THEN 0 ELSE it[s \ {Max(s)}] + w[q[Max(s)]]]
           step == [x \in Nat \X Threads |-> x[1] + w[x[2]]]
<1>1. \E it : Solves(it)
  <2>1. step \in [Nat \X Threads -> Nat] /\ 0 \in Nat
    OBVIOUS
  <2>2. \A n \in Nat, t \in Threads : step[<<n, t>>] = n + w[t]
    OBVIOUS
  <2> HIDE DEF step
  <2>3. PICK it : Iteration(it, 0, step, q) /\ \A s \in SUBSET DOMAIN q : it[s] \in Nat
    BY <2>1, FoldExists, Zenon
  <2>4. \A s \in SUBSET DOMAIN q : s # {} =>
           step[<<it[s \ {Max(s)}], q[Max(s)]>>] = it[s \ {Max(s)}] + w[q[Max(s)]]
    <3> SUFFICES ASSUME NEW s \in SUBSET DOMAIN q, s # {}
                 PROVE  step[<<it[s \ {Max(s)}], q[Max(s)]>>] = it[s \ {Max(s)}] + w[q[Max(s)]]
      OBVIOUS
    <3>1. s \ {Max(s)} \in SUBSET DOMAIN q
      OBVIOUS
    <3>2. it[s \ {Max(s)}] \in Nat /\ q[Max(s)] \in Threads
      BY <2>3, <3>1, PositionInQueue
    <3> QED
      BY <2>2, <3>2
  <2>5. Solves(it)
    BY <2>3, <2>4 DEF Iteration
  <2> QED
    BY <2>5
<1> DEFINE it == CHOOSE i : Solves(i)
<1>2. Solves(it)
  BY <1>1
<1>3. Total(w, q) = it[DOMAIN q]
  BY DEF Total, FoldLeft, MapThenFoldSet, Max
<1> HIDE DEF it
<1>4. it[{}] = 0
  BY <1>2
<1>5. ASSUME NEW k \in 1 .. Len(q) PROVE it[1 .. k] = it[1 .. (k - 1)] + w[q[k]]
  <2>1. 1 .. k \in SUBSET DOMAIN q /\ 1 .. k # {} /\ Max(1 .. k) = k /\ (1 .. k) \ {k} = 1 .. (k - 1)
    BY Rows
  <2> DEFINE x == 1 .. k
  <2>2. it[x] = it[x \ {Max(x)}] + w[q[Max(x)]]
    <3>1. x \in SUBSET DOMAIN q /\ x # {}
      BY <2>1
    <3> HIDE DEF x
    <3> QED
      BY <1>2, <3>1
  <2> QED
    BY <2>1, <2>2
<1> DEFINE f == [k \in 0 .. Len(q) |-> it[1 .. k]]
<1>6. f[0] = 0
  <2>1. 1 .. 0 = {} /\ Len(q) \in Nat
    OBVIOUS
  <2> QED
    BY <1>4, <2>1
<1>7. ASSUME NEW k \in 1 .. Len(q) PROVE f[k] = f[k - 1] + w[q[k]]
  <2>1. k \in 0 .. Len(q) /\ k - 1 \in 0 .. Len(q)
    OBVIOUS
  <2> QED
    BY <1>5, <2>1
<1>8. f[Len(q)] = it[DOMAIN q]
  OBVIOUS
<1> HIDE DEF f
<1> QED
  BY <1>3, <1>6, <1>7, <1>8 DEF Sums

\* The sums are determined by their recursion.
LEMMA TotalIs ==
    ASSUME NEW w \in [Threads -> Nat], NEW q \in Seq(Threads), NEW f, Sums(f, w, q)
    PROVE  Total(w, q) = f[Len(q)]
<1>1. PICK g : Sums(g, w, q) /\ Total(w, q) = g[Len(q)]
  BY TotalRounds
<1> DEFINE P == {k \in 0 .. Len(q) : f[k] = g[k]}
<1>2. P \in SUBSET Nat /\ Len(q) \in Nat /\ Len(q) \in 0 .. Len(q) /\ 0 \in P
  BY <1>1 DEF Sums
<1>3. \A k \in 0 .. (Len(q) - 1) : k \in P => k + 1 \in P
  <2> SUFFICES ASSUME NEW k \in 0 .. (Len(q) - 1), k \in P PROVE k + 1 \in P
    OBVIOUS
  <2>1. k + 1 \in 1 .. Len(q) /\ k + 1 \in 0 .. Len(q) /\ (k + 1) - 1 = k
    OBVIOUS
  <2>2. f[k + 1] = f[k] + w[q[k + 1]] /\ g[k + 1] = g[k] + w[q[k + 1]]
    BY <1>1, <2>1 DEF Sums
  <2> QED
    BY <2>1, <2>2
<1>4. Len(q) \in P
  <2> HIDE DEF P
  <2> QED
    BY <1>2, <1>3, CountUp
<1> QED
  BY <1>1, <1>4

LEMMA TotalEmpty ==
    ASSUME NEW w \in [Threads -> Nat]
    PROVE  Total(w, <<>>) = 0
<1> DEFINE f == [k \in {0} |-> 0]
<1>1. <<>> \in Seq(Threads) /\ Len(<<>>) = 0 /\ f[0] = 0
  OBVIOUS
<1>2. Sums(f, w, <<>>)
  BY <1>1 DEF Sums
<1> QED
  BY <1>1, <1>2, TotalIs

\* Only what the queued threads ask for matters.
LEMMA TotalSame ==
    ASSUME NEW w \in [Threads -> Nat], NEW v \in [Threads -> Nat], NEW q \in Seq(Threads),
           \A t \in Threads : InQueue(q, t) => v[t] = w[t]
    PROVE  Total(v, q) = Total(w, q)
<1>1. PICK f : Sums(f, w, q) /\ Total(w, q) = f[Len(q)]
  BY TotalRounds
<1>2. \A k \in 1 .. Len(q) : q[k] \in Threads /\ InQueue(q, q[k])
  BY DEF InQueue
<1>3. Sums(f, v, q)
  BY <1>1, <1>2 DEF Sums
<1> QED
  BY <1>1, <1>3, TotalIs

LEMMA TotalAppend ==
    ASSUME NEW w \in [Threads -> Nat], NEW q \in Seq(Threads), NEW t \in Threads
    PROVE  Total(w, Append(q, t)) = Total(w, q) + w[t]
<1> DEFINE n == Len(q)
           a == Append(q, t)
<1>1. PICK f : Sums(f, w, q) /\ Total(w, q) = f[n]
  BY TotalRounds
<1> DEFINE g == [k \in 0 .. (n + 1) |-> IF k = n + 1 THEN f[n] + w[t] ELSE f[k]]
<1>2. /\ n \in Nat /\ a \in Seq(Threads) /\ Len(a) = n + 1 /\ a[n + 1] = t
      /\ \A k \in 1 .. n : a[k] = q[k]
  OBVIOUS
<1>3. /\ g[n + 1] = f[n] + w[t] /\ \A k \in 0 .. n : g[k] = f[k]
  BY <1>2
<1> HIDE DEF g, a, n
<1>4. Sums(g, w, a)
  <2>1. g[0] = 0
    BY <1>1, <1>2, <1>3 DEF Sums
  <2>2. ASSUME NEW k \in 1 .. (n + 1) PROVE g[k] = g[k - 1] + w[a[k]]
    <3>1. CASE k = n + 1
      BY <1>2, <1>3, <3>1
    <3>2. CASE k # n + 1
      <4>1. k \in 1 .. n /\ k \in 0 .. n /\ k - 1 \in 0 .. n
        BY <1>2, <3>2
      <4>2. f[k] = f[k - 1] + w[q[k]]
        BY <1>1, <4>1 DEF Sums, n
      <4> QED
        BY <1>2, <1>3, <4>1, <4>2
    <3> QED
      BY <3>1, <3>2
  <2> QED
    BY <1>2, <2>1, <2>2 DEF Sums
<1>5. Total(w, a) = g[n + 1]
  BY <1>2, <1>4, TotalIs
<1> QED
  BY <1>1, <1>3, <1>5 DEF a

\* What is left behind the first n threads.
LEMMA TotalSuffix ==
    ASSUME NEW w \in [Threads -> Nat], NEW q \in Seq(Threads), NEW f, Sums(f, w, q),
           NEW n \in 0 .. Len(q), NEW r \in Seq(Threads), Len(r) = Len(q) - n,
           \A i \in 1 .. (Len(q) - n) : r[i] = q[n + i]
    PROVE  Total(w, r) = f[Len(q)] - f[n] /\ f[n] \in Nat /\ f[Len(q)] \in Nat
<1> DEFINE l == Len(q) - n
           g == [k \in 0 .. l |-> f[n + k] - f[n]]
<1>1. n \in Nat /\ l \in Nat /\ Len(q) = n + l /\ Len(q) \in 0 .. Len(q)
  OBVIOUS
<1>2. \A k \in 0 .. Len(q) : f[k] \in Nat
  BY SumsAreNat
<1>3. f[n] \in Nat /\ f[Len(q)] \in Nat
  BY <1>1, <1>2
<1>4. \A k \in 0 .. l : g[k] = f[n + k] - f[n]
  OBVIOUS
<1> HIDE DEF g, l
<1>5. Sums(g, w, r)
  <2>1. g[0] = 0
    BY <1>1, <1>3, <1>4
  <2>2. ASSUME NEW k \in 1 .. l PROVE g[k] = g[k - 1] + w[r[k]]
    <3>1. k \in 0 .. l /\ k - 1 \in 0 .. l /\ n + k \in 1 .. Len(q) /\ (n + k) - 1 = n + (k - 1)
          /\ n + (k - 1) \in 0 .. Len(q)
      BY <1>1
    <3>2. f[n + k] = f[n + (k - 1)] + w[q[n + k]]
      BY <3>1 DEF Sums
    <3>3. r[k] = q[n + k]
      BY DEF l
    <3>4. w[r[k]] \in Nat /\ f[n + (k - 1)] \in Nat
      BY <1>2, <3>1, <3>3
    <3>5. g[k] = f[n + k] - f[n] /\ g[k - 1] = f[n + (k - 1)] - f[n]
      BY <1>4, <3>1
    <3>6. f[n + k] = f[n + (k - 1)] + w[r[k]]
      BY <3>2, <3>3
    <3>7. \A x, y, z \in Nat : (y + z) - x = (y - x) + z
      OBVIOUS
    <3>8. g[k] = (f[n + (k - 1)] + w[r[k]]) - f[n]
      BY <3>5, <3>6
    <3> QED
      BY <1>3, <3>4, <3>5, <3>7, <3>8
  <2> QED
    BY <2>1, <2>2 DEF Sums, l
<1>6. Total(w, r) = g[l]
  BY <1>5, TotalIs DEF l
<1>7. l \in 0 .. l /\ n + l = Len(q)
  BY <1>1
<1> QED
  BY <1>3, <1>4, <1>6, <1>7

LEMMA TotalDequeue ==
    ASSUME NEW w \in [Threads -> Nat], NEW q \in Seq(Threads), NEW t \in Threads, InQueue(q, t)
    PROVE  Total(w, Dequeue(q, t)) = Total(w, q) - w[t]
<1> DEFINE n == Len(q)
           p == Position(q, t)
           d == Dequeue(q, t)
<1>1. /\ d \in Seq(Threads) /\ p \in 1 .. n /\ q[p] = t /\ n - 1 \in Nat /\ n \in Nat
      /\ d = [i \in 1 .. (n - 1) |-> IF i < p THEN q[i] ELSE q[i + 1]]
  BY DequeueType
<1>2. PICK f : Sums(f, w, q) /\ Total(w, q) = f[n]
  BY TotalRounds
<1>3. \A k \in 0 .. n : f[k] \in Nat
  BY <1>2, SumsAreNat
<1> DEFINE g == [k \in 0 .. (n - 1) |-> IF k < p THEN f[k] ELSE f[k + 1] - w[t]]
<1>4. Len(d) = n - 1 /\ \A i \in 1 .. (n - 1) : d[i] = IF i < p THEN q[i] ELSE q[i + 1]
  BY <1>1
<1>5. \A k \in 0 .. (n - 1) : g[k] = IF k < p THEN f[k] ELSE f[k + 1] - w[t]
  OBVIOUS
<1>6. \A k \in 1 .. n : f[k] = f[k - 1] + w[q[k]]
  BY <1>2 DEF Sums
<1> HIDE DEF g, d, n, p
<1>7. f[0] = 0 /\ w[t] \in Nat /\ f[p] = f[p - 1] + w[t]
  BY <1>1, <1>2, <1>6 DEF Sums
<1>8. Sums(g, w, d)
  <2>1. g[0] = 0
    BY <1>1, <1>5, <1>7
  <2>2. ASSUME NEW k \in 1 .. (n - 1) PROVE g[k] = g[k - 1] + w[d[k]]
    <3>1. k \in 0 .. (n - 1) /\ k - 1 \in 0 .. (n - 1) /\ k \in 1 .. n /\ k + 1 \in 1 .. n /\ (k + 1) - 1 = k
          /\ (k - 1) + 1 = k
      BY <1>1
    <3>0. q[k] \in Threads /\ q[k + 1] \in Threads /\ f[k] \in Nat /\ f[k - 1] \in Nat /\ f[k + 1] \in Nat
      BY <1>1, <1>3, <3>1 DEF n
    <3>2. CASE k < p
      <4>1. k - 1 < p /\ g[k] = f[k] /\ g[k - 1] = f[k - 1] /\ d[k] = q[k]
        BY <1>1, <1>4, <1>5, <3>1, <3>2
      <4> QED
        BY <1>6, <3>1, <4>1
    <3>3. CASE k = p
      <4>1. k - 1 < p /\ g[k] = f[k + 1] - w[t] /\ g[k - 1] = f[k - 1] /\ d[k] = q[k + 1]
        BY <1>1, <1>4, <1>5, <3>1, <3>3
      <4>2. f[k + 1] = f[k] + w[q[k + 1]] /\ f[k] = f[k - 1] + w[t]
        BY <1>6, <1>7, <3>1, <3>3
      <4> QED
        BY <1>7, <3>0, <4>1, <4>2
    <3>4. CASE k > p
      <4>1. ~(k - 1 < p) /\ g[k] = f[k + 1] - w[t] /\ g[k - 1] = f[k] - w[t] /\ d[k] = q[k + 1]
        <5>1. ~(k < p) /\ ~(k - 1 < p)
          BY <1>1, <3>4
        <5> QED
          BY <1>1, <1>4, <1>5, <3>1, <5>1
      <4>2. f[k + 1] = f[k] + w[q[k + 1]]
        BY <1>6, <3>1
      <4> QED
        BY <1>7, <3>0, <4>1, <4>2
    <3> QED
      BY <1>1, <3>1, <3>2, <3>3, <3>4
  <2> QED
    BY <1>4, <2>1, <2>2 DEF Sums
<1>9. Total(w, d) = g[n - 1]
  BY <1>1, <1>4, <1>8, TotalIs
<1>10. g[n - 1] = f[n] - w[t]
  <2>1. n - 1 \in 0 .. (n - 1) /\ (n - 1) + 1 = n
    BY <1>1
  <2>2. CASE n - 1 < p
    <3>1. p = n
      BY <1>1, <2>2
    <3>2. f[n - 1] \in Nat /\ f[n] = f[n - 1] + w[t]
      BY <1>3, <1>7, <2>1, <3>1
    <3>3. g[n - 1] = f[n - 1]
      BY <1>5, <2>1, <2>2
    <3> QED
      BY <1>7, <3>2, <3>3
  <2>3. CASE ~(n - 1 < p)
    BY <1>5, <2>1, <2>3
  <2> QED
    BY <2>2, <2>3
<1> QED
  BY <1>2, <1>9, <1>10 DEF d

-----------------------------------------------------------------------------
(***************************************************************************)
(* What the loops leave.                                                   *)
(***************************************************************************)
Waits(t) == wait_status[t] = "waiting"

\* After k rounds of a loop over q the first n threads are gone, the others stay; d is what net_count
\* was ahead of count.
After(r, d, q, k, n, f) ==
    /\ r \in LoopStates
    /\ n \in 0 .. k
    /\ Len(r.stay) = k - n
    /\ \A i \in 1 .. (k - n) : r.stay[i] = q[n + i]
    /\ r.wake = {t \in Threads : Waits(t) /\ \E i \in 1 .. n : q[i] = t}
    /\ r.net - r.count = d - f[n]

LEMMA RoundStays ==
    ASSUME NEW q \in Seq(Threads), NEW k \in 0 .. (Len(q) - 1), NEW r, NEW d \in Int, NEW n, NEW f,
           After(r, d, q, k, n, f), NEW c \in Int, NEW m \in Nat, NEW l \in Nat, m - c = r.net - r.count
    PROVE  After(Acc(c, m, l, r.wake, Append(r.stay, q[k + 1])), d, q, k + 1, n, f)
<1> DEFINE z == Acc(c, m, l, r.wake, Append(r.stay, q[k + 1]))
<1>1. /\ q[k + 1] \in Threads /\ r.stay \in Seq(Threads) /\ r.wake \in SUBSET Threads /\ k \in Nat /\ n \in Nat
      /\ n <= k /\ Append(r.stay, q[k + 1]) \in Seq(Threads)
  BY DEF After, LoopStates
<1>2. z.stay = Append(r.stay, q[k + 1]) /\ z.wake = r.wake /\ z.net = m /\ z.count = c
  BY DEF Acc
<1>3. z \in LoopStates
  BY <1>1 DEF Acc, LoopStates
<1> HIDE DEF z
<1>4. Len(z.stay) = (k + 1) - n
  <2>1. Len(r.stay) = k - n
    BY DEF After
  <2>2. Len(Append(r.stay, q[k + 1])) = Len(r.stay) + 1
    BY <1>1
  <2> QED
    BY <1>1, <1>2, <2>1, <2>2
<1>5. \A i \in 1 .. ((k + 1) - n) : z.stay[i] = q[n + i]
  <2> SUFFICES ASSUME NEW i \in 1 .. ((k + 1) - n) PROVE z.stay[i] = q[n + i]
    OBVIOUS
  <2>0. Len(r.stay) = k - n
    BY DEF After
  <2>1. CASE i = (k + 1) - n
    <3>1. i = Len(r.stay) + 1 /\ n + i = k + 1
      BY <1>1, <2>0, <2>1
    <3> QED
      BY <1>1, <1>2, <3>1
  <2>2. CASE i # (k + 1) - n
    <3>1. i \in 1 .. (k - n) /\ i \in 1 .. Len(r.stay)
      BY <1>1, <2>0, <2>2
    <3>2. z.stay[i] = r.stay[i]
      BY <1>1, <1>2, <3>1
    <3> QED
      BY <3>1, <3>2 DEF After
  <2> QED
    BY <2>1, <2>2
<1>6. n \in 0 .. (k + 1)
  BY <1>1
<1> QED
  BY <1>2, <1>3, <1>4, <1>5, <1>6 DEF After, z

LEMMA RoundLeaves ==
    ASSUME want \in [Threads -> Nat], NEW q \in Seq(Threads), NEW k \in 0 .. (Len(q) - 1), NEW r, NEW d \in Int,
           NEW n, NEW f, Sums(f, want, q), After(r, d, q, k, n, f), r.stay = <<>>,
           NEW c \in Int, NEW m \in Nat, NEW l \in Nat, m - c = r.net - r.count - want[q[k + 1]],
           NEW w, w = IF Waits(q[k + 1]) THEN r.wake \cup {q[k + 1]} ELSE r.wake
    PROVE  After(Acc(c, m, l, w, r.stay), d, q, k + 1, k + 1, f)
<1> DEFINE z == Acc(c, m, l, w, r.stay)
           t == q[k + 1]
<1>1. /\ t \in Threads /\ r.stay \in Seq(Threads) /\ r.wake \in SUBSET Threads /\ k \in Nat /\ n \in Nat
      /\ n <= k /\ k + 1 \in 1 .. Len(q)
  <2>1. k \in Nat /\ k + 1 \in 1 .. Len(q) /\ t \in Threads
    OBVIOUS
  <2>2. r \in LoopStates /\ n \in 0 .. k
    BY DEF After
  <2> QED
    BY <2>1, <2>2 DEF LoopStates
<1>0. n = k
  <2>1. Len(r.stay) = 0 /\ Len(r.stay) = k - n
    BY DEF After
  <2> QED
    BY <1>1, <2>1
<1>2. z.stay = r.stay /\ z.wake = w /\ z.net = m /\ z.count = c
  BY DEF Acc
<1>3. z \in LoopStates
  BY <1>1 DEF Acc, LoopStates
<1>4. Len(z.stay) = (k + 1) - (k + 1) /\ \A i \in 1 .. ((k + 1) - (k + 1)) : z.stay[i] = q[(k + 1) + i]
  BY <1>1, <1>2
<1>5. w = {u \in Threads : Waits(u) /\ \E i \in 1 .. (k + 1) : q[i] = u}
  <2>1. r.wake = {u \in Threads : Waits(u) /\ \E i \in 1 .. k : q[i] = u}
    BY <1>0 DEF After
  <2>2. \A u : (\E i \in 1 .. (k + 1) : q[i] = u) <=> (u = t \/ \E i \in 1 .. k : q[i] = u)
    <3>1. \A i \in 1 .. (k + 1) : i = k + 1 \/ i \in 1 .. k
      BY <1>1
    <3>2. k + 1 \in 1 .. (k + 1) /\ \A i \in 1 .. k : i \in 1 .. (k + 1)
      BY <1>1
    <3> QED
      BY <3>1, <3>2
  <2> HIDE DEF t, Waits
  <2>3. w = IF Waits(t) THEN r.wake \cup {t} ELSE r.wake
    BY DEF t
  <2> QED
    BY <1>1, <2>1, <2>2, <2>3
<1>6. z.net - z.count = d - f[k + 1]
  <2>1. f[k + 1] = f[k] + want[t]
    <3>1. (k + 1) - 1 = k
      BY <1>1
    <3> QED
      BY <1>1, <3>1 DEF Sums
  <2>2. f[k] \in Nat /\ want[t] \in Nat
    <3>1. \A i \in 0 .. Len(q) : f[i] \in Nat
      BY SumsAreNat
    <3>2. k \in 0 .. Len(q)
      OBVIOUS
    <3> QED
      BY <1>1, <3>1, <3>2
  <2>3. r.net - r.count = d - f[k]
    BY <1>0 DEF After
  <2>4. m - c = (d - f[k]) - want[t]
    BY <2>3
  <2>5. \A x, y \in Nat : (d - x) - y = d - (x + y)
    OBVIOUS
  <2>6. m - c = d - f[k + 1]
    BY <2>1, <2>2, <2>4, <2>5
  <2> QED
    BY <1>2, <2>6
<1>7. k + 1 \in 0 .. (k + 1)
  BY <1>1
<1> HIDE DEF z
<1> QED
  BY <1>2, <1>3, <1>4, <1>5, <1>6, <1>7 DEF After, z

LEMMA ReleaseRoundAfter ==
    ASSUME want \in [Threads -> Nat], NEW q \in Seq(Threads), NEW k \in 0 .. (Len(q) - 1), NEW r, NEW d \in Int,
           NEW n, NEW f, Sums(f, want, q), After(r, d, q, k, n, f)
    PROVE  \E m : After(ReleaseRound(r, q[k + 1]), d, q, k + 1, m, f)
<1> DEFINE t == q[k + 1]
           z == ReleaseRound(r, t)
<1>1. /\ t \in Threads /\ r \in LoopStates /\ want[t] \in Nat /\ r.net \in Nat /\ r.left \in Nat
      /\ r.count \in Int
  BY DEF After, LoopStates
<1>2. CASE r.left = 0 \/ r.stay # <<>>
  <2>1. z = Acc(r.count, r.net, r.left, r.wake, Append(r.stay, t))
    BY <1>1, <1>2, ReleaseRoundIs
  <2>2. After(Acc(r.count, r.net, r.left, r.wake, Append(r.stay, t)), d, q, k + 1, n, f)
    BY <1>1, RoundStays
  <2> QED
    BY <2>1, <2>2
<1>3. CASE ~(r.left = 0 \/ r.stay # <<>>) /\ wait_status[t] # "waiting"
  <2>1. z = Acc(r.count + want[t], r.net, r.left, r.wake, r.stay)
    BY <1>1, <1>3, ReleaseRoundIs
  <2>2. r.count + want[t] \in Int /\ r.net - (r.count + want[t]) = r.net - r.count - want[t]
    <3> DEFINE x == r.count
               y == r.net
               w == want[t]
    <3>1. x \in Int /\ y \in Nat /\ w \in Nat
      BY <1>1
    <3> HIDE DEF x, y, w
    <3>2. x + w \in Int /\ y - (x + w) = y - x - w
      BY <3>1
    <3> QED
      BY <3>2 DEF x, y, w
  <2>3. r.wake = IF Waits(t) THEN r.wake \cup {t} ELSE r.wake
    BY <1>3 DEF Waits
  <2>4. After(Acc(r.count + want[t], r.net, r.left, r.wake, r.stay), d, q, k + 1, k + 1, f)
    BY <1>1, <1>3, <2>2, <2>3, RoundLeaves
  <2> QED
    BY <2>1, <2>4
<1>4. CASE ~(r.left = 0 \/ r.stay # <<>>) /\ wait_status[t] = "waiting" /\ want[t] > r.net + r.left
  <2>1. z = Acc(r.count + r.left, r.net + r.left, 0, r.wake, Append(r.stay, t))
    BY <1>1, <1>4, ReleaseRoundIs
  <2>2. /\ r.count + r.left \in Int /\ r.net + r.left \in Nat /\ 0 \in Nat
        /\ (r.net + r.left) - (r.count + r.left) = r.net - r.count
    <3> DEFINE x == r.count
               y == r.net
               l == r.left
    <3>1. x \in Int /\ y \in Nat /\ l \in Nat
      BY <1>1
    <3> HIDE DEF x, y, l
    <3>2. x + l \in Int /\ y + l \in Nat /\ 0 \in Nat /\ (y + l) - (x + l) = y - x
      BY <3>1
    <3> QED
      BY <3>2 DEF x, y, l
  <2>3. After(Acc(r.count + r.left, r.net + r.left, 0, r.wake, Append(r.stay, t)), d, q, k + 1, n, f)
    BY <2>2, RoundStays
  <2> QED
    BY <2>1, <2>3
<1>5. CASE ~(r.left = 0 \/ r.stay # <<>>) /\ wait_status[t] = "waiting" /\ ~(want[t] > r.net + r.left)
  <2> DEFINE e == IF r.left < want[t] THEN r.left ELSE want[t]
  <2>1. /\ r.count + e \in Int /\ r.net + e - want[t] \in Nat /\ r.left - e \in Nat
        /\ (r.net + e - want[t]) - (r.count + e) = r.net - r.count - want[t]
    <3>1. e \in Nat /\ e <= r.left /\ r.net + e >= want[t]
      BY <1>1, <1>5
    <3> DEFINE x == r.count
               y == r.net
               l == r.left
               w == want[t]
    <3>2. x \in Int /\ y \in Nat /\ l \in Nat /\ w \in Nat /\ e <= l /\ y + e >= w
      BY <1>1, <3>1
    <3> HIDE DEF e, x, y, l, w
    <3>3. x + e \in Int /\ y + e - w \in Nat /\ l - e \in Nat /\ (y + e - w) - (x + e) = y - x - w
      BY <3>1, <3>2
    <3> QED
      BY <3>3 DEF x, y, l, w
  <2>2. z = Acc(r.count + e, r.net + e - want[t], r.left - e, r.wake \cup {t}, r.stay)
    BY <1>1, <1>5, ReleaseRoundIs
  <2>3. r.wake \cup {t} = IF Waits(t) THEN r.wake \cup {t} ELSE r.wake
    BY <1>5 DEF Waits
  <2> HIDE DEF e
  <2>4. After(Acc(r.count + e, r.net + e - want[t], r.left - e, r.wake \cup {t}, r.stay), d, q, k + 1, k + 1, f)
    BY <1>1, <1>5, <2>1, <2>3, RoundLeaves
  <2> QED
    BY <2>2, <2>4
<1> QED
  BY <1>2, <1>3, <1>4, <1>5

LEMMA RemoveRoundAfter ==
    ASSUME want \in [Threads -> Nat], NEW q \in Seq(Threads), NEW k \in 0 .. (Len(q) - 1), NEW r, NEW d \in Int,
           NEW n, NEW f, Sums(f, want, q), After(r, d, q, k, n, f)
    PROVE  \E m : After(RemoveRound(r, q[k + 1]), d, q, k + 1, m, f)
<1> DEFINE t == q[k + 1]
           z == RemoveRound(r, t)
<1>1. /\ t \in Threads /\ r \in LoopStates /\ want[t] \in Nat /\ r.net \in Nat /\ r.left \in Nat
      /\ r.count \in Int
  BY DEF After, LoopStates
<1>2. CASE r.stay # <<>> \/ (wait_status[t] = "waiting" /\ want[t] > r.net)
  <2>1. z = Acc(r.count, r.net, r.left, r.wake, Append(r.stay, t))
    BY <1>1, <1>2, RemoveRoundIs
  <2>2. After(Acc(r.count, r.net, r.left, r.wake, Append(r.stay, t)), d, q, k + 1, n, f)
    BY <1>1, RoundStays
  <2> QED
    BY <2>1, <2>2
<1>3. CASE r.stay = <<>> /\ wait_status[t] # "waiting"
  <2>1. z = Acc(r.count + want[t], r.net, r.left, r.wake, r.stay)
    BY <1>1, <1>3, RemoveRoundIs
  <2>2. r.count + want[t] \in Int /\ r.net - (r.count + want[t]) = r.net - r.count - want[t]
    <3> DEFINE x == r.count
               y == r.net
               w == want[t]
    <3>1. x \in Int /\ y \in Nat /\ w \in Nat
      BY <1>1
    <3> HIDE DEF x, y, w
    <3>2. x + w \in Int /\ y - (x + w) = y - x - w
      BY <3>1
    <3> QED
      BY <3>2 DEF x, y, w
  <2>3. r.wake = IF Waits(t) THEN r.wake \cup {t} ELSE r.wake
    BY <1>3 DEF Waits
  <2>4. After(Acc(r.count + want[t], r.net, r.left, r.wake, r.stay), d, q, k + 1, k + 1, f)
    BY <1>1, <1>3, <2>2, <2>3, RoundLeaves
  <2> QED
    BY <2>1, <2>4
<1>4. CASE r.stay = <<>> /\ wait_status[t] = "waiting" /\ ~(want[t] > r.net)
  <2>1. z = Acc(r.count, r.net - want[t], r.left, r.wake \cup {t}, r.stay)
    BY <1>1, <1>4, RemoveRoundIs
  <2>2. r.net - want[t] \in Nat /\ (r.net - want[t]) - r.count = r.net - r.count - want[t]
    <3> DEFINE x == r.count
               y == r.net
               w == want[t]
    <3>1. x \in Int /\ y \in Nat /\ w \in Nat /\ ~(w > y)
      BY <1>1, <1>4
    <3> HIDE DEF x, y, w
    <3>2. y - w \in Nat /\ (y - w) - x = y - x - w
      BY <3>1
    <3> QED
      BY <3>2 DEF x, y, w
  <2>3. r.wake \cup {t} = IF Waits(t) THEN r.wake \cup {t} ELSE r.wake
    BY <1>4 DEF Waits
  <2>4. After(Acc(r.count, r.net - want[t], r.left, r.wake \cup {t}, r.stay), d, q, k + 1, k + 1, f)
    BY <1>1, <1>4, <2>2, <2>3, RoundLeaves
  <2> QED
    BY <2>1, <2>4
<1> QED
  BY <1>2, <1>3, <1>4

LEMMA ReleaseLoopAfter ==
    ASSUME want \in [Threads -> Nat], NEW q \in Seq(Threads), NEW base \in LoopStates, base.stay = <<>>,
           base.wake = {}, NEW f, Sums(f, want, q)
    PROVE  \E n : After(FoldLeft(ReleaseRound, base, q), base.net - base.count, q, Len(q), n, f)
<1> DEFINE d == base.net - base.count
<1>1. PICK g : /\ g[0] = base
               /\ \A k \in 1 .. Len(q) : g[k] = ReleaseRound(g[k - 1], q[k])
               /\ FoldLeft(ReleaseRound, base, q) = g[Len(q)]
  BY ReleaseRounds
<1> DEFINE P == {k \in 0 .. Len(q) : \E n : After(g[k], d, q, k, n, f)}
<1>2. P \in SUBSET Nat /\ Len(q) \in Nat /\ Len(q) \in 0 .. Len(q)
  OBVIOUS
<1>3. d \in Int
  BY DEF LoopStates
<1>4. 0 \in P
  <2>1. After(base, d, q, 0, 0, f)
    <3>1. Len(base.stay) = 0 - 0 /\ 0 \in 0 .. 0 /\ 1 .. 0 = {}
      OBVIOUS
    <3>2. f[0] = 0 /\ d - 0 = d
      BY <1>3 DEF Sums
    <3> HIDE DEF Waits
    <3> QED
      BY <3>1, <3>2 DEF After
  <2> HIDE DEF After
  <2> QED
    BY <1>1, <1>2, <2>1
<1>5. ASSUME NEW k \in 0 .. (Len(q) - 1), k \in P PROVE k + 1 \in P
  <2>1. k + 1 \in 1 .. Len(q) /\ k + 1 \in 0 .. Len(q) /\ (k + 1) - 1 = k
    OBVIOUS
  <2>2. g[k + 1] = ReleaseRound(g[k], q[k + 1])
    BY <1>1, <2>1
  <2> HIDE DEF d
  <2>3. PICK n : After(g[k], d, q, k, n, f)
    BY <1>5
  <2>4. \E m : After(ReleaseRound(g[k], q[k + 1]), d, q, k + 1, m, f)
    BY <1>3, <2>3, ReleaseRoundAfter
  <2> QED
    BY <2>1, <2>2, <2>4
<1>6. Len(q) \in P
  <2> HIDE DEF P
  <2>1. \A k \in 0 .. (Len(q) - 1) : k \in P => k + 1 \in P
    BY <1>5
  <2> QED
    BY <1>2, <1>4, <2>1, CountUp
<1> QED
  BY <1>1, <1>6

LEMMA RemoveLoopAfter ==
    ASSUME want \in [Threads -> Nat], NEW q \in Seq(Threads), NEW base \in LoopStates, base.stay = <<>>,
           base.wake = {}, NEW f, Sums(f, want, q)
    PROVE  \E n : After(FoldLeft(RemoveRound, base, q), base.net - base.count, q, Len(q), n, f)
<1> DEFINE d == base.net - base.count
<1>1. PICK g : /\ g[0] = base
               /\ \A k \in 1 .. Len(q) : g[k] = RemoveRound(g[k - 1], q[k])
               /\ FoldLeft(RemoveRound, base, q) = g[Len(q)]
  BY RemoveRounds
<1> DEFINE P == {k \in 0 .. Len(q) : \E n : After(g[k], d, q, k, n, f)}
<1>2. P \in SUBSET Nat /\ Len(q) \in Nat /\ Len(q) \in 0 .. Len(q)
  OBVIOUS
<1>3. d \in Int
  BY DEF LoopStates
<1>4. 0 \in P
  <2>1. After(base, d, q, 0, 0, f)
    <3>1. Len(base.stay) = 0 - 0 /\ 0 \in 0 .. 0 /\ 1 .. 0 = {}
      OBVIOUS
    <3>2. f[0] = 0 /\ d - 0 = d
      BY <1>3 DEF Sums
    <3> HIDE DEF Waits
    <3> QED
      BY <3>1, <3>2 DEF After
  <2> HIDE DEF After
  <2> QED
    BY <1>1, <1>2, <2>1
<1>5. ASSUME NEW k \in 0 .. (Len(q) - 1), k \in P PROVE k + 1 \in P
  <2>1. k + 1 \in 1 .. Len(q) /\ k + 1 \in 0 .. Len(q) /\ (k + 1) - 1 = k
    OBVIOUS
  <2>2. g[k + 1] = RemoveRound(g[k], q[k + 1])
    BY <1>1, <2>1
  <2> HIDE DEF d
  <2>3. PICK n : After(g[k], d, q, k, n, f)
    BY <1>5
  <2>4. \E m : After(RemoveRound(g[k], q[k + 1]), d, q, k + 1, m, f)
    BY <1>3, <2>3, RemoveRoundAfter
  <2> QED
    BY <2>1, <2>2, <2>4
<1>6. Len(q) \in P
  <2> HIDE DEF P
  <2>1. \A k \in 0 .. (Len(q) - 1) : k \in P => k + 1 \in P
    BY <1>5
  <2> QED
    BY <1>2, <1>4, <2>1, CountUp
<1> QED
  BY <1>1, <1>6

\* A loop over the threads of q has ended with r.
Good(r, q) ==
    /\ r \in LoopStates
    /\ r.net = r.count + Total(want, r.stay)
    /\ Distinct(r.stay)
    /\ \A u : InQueue(r.stay, u) => InQueue(q, u)
    /\ \A u \in Threads : InQueue(q, u) /\ Waits(u) => u \in r.wake \/ InQueue(r.stay, u)
    /\ \A u \in r.wake : Waits(u) /\ InQueue(q, u) /\ ~InQueue(r.stay, u)
    /\ \A i, j \in 1 .. Len(q) : i < j /\ q[j] \in r.wake /\ Waits(q[i]) => q[i] \in r.wake

\* r is s without its first n threads.
IsRest(r, s, n) == Distinct(r) /\ \A u : InQueue(r, u) <=> InQueue(s, u) /\ ~(\E i \in 1 .. n : s[i] = u)

LEMMA RestIsRest ==
    ASSUME NEW U, NEW s \in Seq(U), Distinct(s), NEW n \in Nat, NEW l \in Nat, Len(s) = n + l,
           NEW r \in Seq(U), Len(r) = l, \A i \in 1 .. l : r[i] = s[n + i]
    PROVE  IsRest(r, s, n)
<1>1. DOMAIN s = 1 .. (n + l) /\ DOMAIN r = 1 .. l /\ \A i \in 1 .. l : n + i \in 1 .. (n + l)
  OBVIOUS
<1>2. Distinct(r)
  BY SuffixQueue, Zenon
<1>3. ASSUME NEW u, InQueue(r, u) PROVE InQueue(s, u) /\ ~(\E i \in 1 .. n : s[i] = u)
  <2>1. PICK i \in 1 .. l : r[i] = u
    BY <1>1, <1>3, Zenon DEF InQueue
  <2>2. s[n + i] = u /\ n + i \in DOMAIN s
    BY <1>1, <2>1, Zenon
  <2>3. ASSUME NEW j \in 1 .. n PROVE s[j] # u
    <3>1. j \in 1 .. (n + l) /\ j # n + i
      OBVIOUS
    <3> QED
      BY <1>1, <2>2, <3>1, Zenon DEF Distinct
  <2> QED
    BY <2>2, <2>3, Zenon DEF InQueue
<1>4. ASSUME NEW u, InQueue(s, u), ~(\E i \in 1 .. n : s[i] = u) PROVE InQueue(r, u)
  <2>1. PICK i \in 1 .. (n + l) : s[i] = u
    BY <1>1, <1>4, Zenon DEF InQueue
  <2>2. i - n \in 1 .. l /\ n + (i - n) = i
    <3>1. i \notin 1 .. n
      BY <1>4, <2>1, Zenon
    <3> QED
      BY <3>1
  <2>3. r[i - n] = u
    BY <2>1, <2>2
  <2> QED
    BY <1>1, <2>2, <2>3, Zenon DEF InQueue
<1> QED
  BY <1>2, <1>3, <1>4 DEF IsRest

LEMMA AfterGood ==
    ASSUME want \in [Threads -> Nat], NEW q \in Seq(Threads), Distinct(q), NEW f, Sums(f, want, q), NEW n, NEW r,
           After(r, Total(want, q), q, Len(q), n, f)
    PROVE  Good(r, q)
<1> DEFINE l == Len(q) - n
<1>1. r \in LoopStates /\ n \in 0 .. Len(q) /\ r.stay \in Seq(Threads) /\ Len(r.stay) = l
      /\ (\A i \in 1 .. l : r.stay[i] = q[n + i]) /\ r.net \in Nat /\ r.count \in Int
  BY DEF After, LoopStates
<1>2. n \in Nat /\ l \in Nat /\ Len(q) = n + l /\ Len(q) \in Nat
  BY <1>1
<1>3. r.wake = {t \in Threads : Waits(t) /\ \E i \in 1 .. n : q[i] = t}
  BY DEF After
<1>4. r.net = r.count + Total(want, r.stay)
  <2>1. Total(want, q) = f[Len(q)]
    BY TotalIs
  <2>2. Total(want, r.stay) = f[Len(q)] - f[n] /\ f[n] \in Nat /\ f[Len(q)] \in Nat
    BY <1>1, TotalSuffix
  <2>3. r.net - r.count = f[Len(q)] - f[n]
    BY <2>1 DEF After
  <2>4. r.net - r.count = Total(want, r.stay) /\ Total(want, r.stay) \in Int
    BY <2>2, <2>3
  <2> DEFINE x == r.net
             y == r.count
             z == Total(want, r.stay)
  <2>5. x \in Nat /\ y \in Int /\ z \in Int /\ x - y = z
    BY <1>1, <2>4
  <2> HIDE DEF x, y, z
  <2>6. x = y + z
    BY <2>5
  <2> QED
    BY <2>6 DEF x, y, z
<1>5. /\ Distinct(r.stay)
      /\ \A u : InQueue(r.stay, u) <=> InQueue(q, u) /\ ~(\E i \in 1 .. n : q[i] = u)
  <2> DEFINE p == r.stay
  <2>1. p \in Seq(Threads) /\ Len(p) = l /\ \A i \in 1 .. l : p[i] = q[n + i]
    BY <1>1
  <2> HIDE DEF l, p
  <2>2. IsRest(p, q, n)
    BY <1>2, <2>1, RestIsRest
  <2> QED
    BY <2>2, Zenon DEF p, IsRest
<1>7. \A i \in 1 .. n : InQueue(q, q[i]) /\ i \in 1 .. Len(q)
  BY <1>2 DEF InQueue
<1>8. ASSUME NEW i \in 1 .. Len(q), NEW j \in 1 .. Len(q), i < j, q[j] \in r.wake, Waits(q[i]) PROVE q[i] \in r.wake
  <2>1. PICK k \in 1 .. n : q[k] = q[j]
    BY <1>3, <1>8
  <2>2. k = j
    <3>1. k \in 1 .. Len(q)
      BY <1>7
    <3> QED
      BY <2>1, <3>1 DEF Distinct
  <2>3. i \in 1 .. n /\ q[i] \in Threads
    BY <1>2, <1>8, <2>2
  <2> QED
    BY <1>3, <1>8, <2>3
<1> HIDE DEF l, Waits, Distinct, InQueue
<1>9. \A u \in r.wake : Waits(u) /\ InQueue(q, u) /\ ~InQueue(r.stay, u)
  BY <1>3, <1>5, <1>7
<1>10. \A u \in Threads : InQueue(q, u) /\ Waits(u) => u \in r.wake \/ InQueue(r.stay, u)
  BY <1>3, <1>5
<1> QED
  BY <1>1, <1>4, <1>5, <1>8, <1>9, <1>10 DEF Good

LEMMA LoopStart ==
    ASSUME NEW s, NEW n \in Nat, count[s] \in Int, net_count[s] \in Nat
    PROVE  /\ Loop(s, n) \in LoopStates
           /\ Loop(s, n).count = count[s] /\ Loop(s, n).net = net_count[s] /\ Loop(s, n).left = n
           /\ Loop(s, n).wake = {} /\ Loop(s, n).stay = <<>>
  BY DEF Loop, LoopStates

\* The release of n units goes through the queue of s.
LEMMA ReleaseGood ==
    ASSUME want \in [Threads -> Nat], NEW s, NEW n \in Nat, NEW b \in BOOLEAN, count[s] \in Int, net_count[s] \in Nat,
           queue[s] \in Seq(Threads), Distinct(queue[s]), net_count[s] = count[s] + Total(want, queue[s])
    PROVE  Good(Release(s, n, b), queue[s])
<1> DEFINE q == queue[s]
           base == Loop(s, n)
           r == FoldLeft(ReleaseRound, base, q)
           z == NobodyWaits(r, b)
<1>1. PICK f : Sums(f, want, q) /\ Total(want, q) = f[Len(q)]
  BY TotalRounds
<1>2. /\ base \in LoopStates /\ base.stay = <<>> /\ base.wake = {}
      /\ base.count = count[s] /\ base.net = net_count[s]
  BY LoopStart
<1>3. Total(want, q) = base.net - base.count
  <2>1. \A k \in 0 .. Len(q) : f[k] \in Nat
    BY <1>1, SumsAreNat
  <2>2. Total(want, q) \in Nat
    BY <1>1, <2>1
  <2> DEFINE x == net_count[s]
             y == count[s]
             v == Total(want, q)
  <2>3. x \in Nat /\ y \in Int /\ v \in Nat /\ x = y + v
    BY <2>2
  <2> HIDE DEF x, y, v
  <2>4. v = x - y
    BY <2>3
  <2> QED
    BY <1>2, <2>4 DEF x, y, v
<1> HIDE DEF base
<1>4. PICK k : After(r, base.net - base.count, q, Len(q), k, f)
  BY <1>1, <1>2, ReleaseLoopAfter
<1>5. Good(r, q)
  <2> HIDE DEF r, q
  <2>1. After(r, Total(want, q), q, Len(q), k, f)
    BY <1>3, <1>4
  <2>2. q \in Seq(Threads) /\ Distinct(q)
    BY DEF q
  <2> QED
    BY <1>1, <2>1, <2>2, AfterGood
<1>6. Release(s, n, b) = z
  BY DEF Release, base
<1> HIDE DEF r, q
<1>7. r \in LoopStates
  BY <1>5 DEF Good
<1>8. CASE b \/ r.stay # <<>>
  <2>1. z = r
    BY <1>8 DEF NobodyWaits
  <2> QED
    BY <1>5, <1>6, <2>1 DEF q
<1>9. CASE ~(b \/ r.stay # <<>>)
  <2>1. z = [r EXCEPT !.count = r.count + r.left, !.net = r.net + r.left]
    BY <1>9 DEF NobodyWaits
  <2>2. z = Acc(r.count + r.left, r.net + r.left, r.left, r.wake, r.stay)
    BY <1>7, <2>1, AccCountNet, Zenon
  <2>3. r.count \in Int /\ r.net \in Nat /\ r.left \in Nat /\ r.wake \in SUBSET Threads /\ r.stay \in Seq(Threads)
    BY <1>7 DEF LoopStates
  <2>4. r.count + r.left \in Int /\ r.net + r.left \in Nat
    BY <2>3
  <2> HIDE DEF z
  <2>5. /\ z \in LoopStates /\ z.count = r.count + r.left /\ z.net = r.net + r.left /\ z.wake = r.wake
        /\ z.stay = r.stay
    BY <2>2, <2>3, <2>4 DEF Acc, LoopStates
  <2>6. r.net = r.count /\ Total(want, r.stay) = 0
    <3>1. Total(want, r.stay) = 0
      BY <1>9, TotalEmpty
    <3>2. r.net = r.count + Total(want, r.stay)
      BY <1>5 DEF Good
    <3> QED
      BY <2>3, <3>1, <3>2
  <2>7. z.net = z.count + Total(want, z.stay)
    BY <2>3, <2>4, <2>5, <2>6
  <2>8. Good(z, q)
    <3> HIDE DEF Waits, Distinct, InQueue, Total
    <3> QED
      BY <1>5, <2>5, <2>7 DEF Good
  <2> QED
    BY <1>6, <2>8 DEF q
<1> QED
  BY <1>8, <1>9

\* remove_thread_from_sem() goes through the queue without t.
LEMMA UnqueueGood ==
    ASSUME want \in [Threads -> Nat], NEW s, NEW t \in Threads, count[s] \in Int, net_count[s] \in Nat,
           queue[s] \in Seq(Threads), Distinct(queue[s]), net_count[s] = count[s] + Total(want, queue[s]),
           InQueue(queue[s], t)
    PROVE  Good(Unqueue(s, t), Dequeue(queue[s], t))
<1> DEFINE q == Dequeue(queue[s], t)
           o == Loop(s, 0)
           base == Drop(o, t)
           r == FoldLeft(RemoveRound, base, q)
<1>0. q \in Seq(Threads) /\ Distinct(q)
  BY DequeueType, DequeueFacts
<1>1. PICK f : Sums(f, want, q) /\ Total(want, q) = f[Len(q)]
  BY <1>0, TotalRounds
<1>2. /\ base \in LoopStates /\ base.stay = <<>> /\ base.wake = {}
      /\ base.count = count[s] + want[t] /\ base.net = net_count[s]
  <2>1. o \in LoopStates /\ o.count = count[s] /\ o.net = net_count[s] /\ o.wake = {} /\ o.stay = <<>>
        /\ o.left = 0
    BY LoopStart
  <2> HIDE DEF o
  <2>2. base = Acc(o.count + want[t], o.net, o.left, o.wake, o.stay)
    BY <2>1, AccCount DEF Drop
  <2>3. count[s] + want[t] \in Int
    OBVIOUS
  <2> HIDE DEF base
  <2> QED
    BY <2>1, <2>2, <2>3 DEF Acc, LoopStates
<1>3. Total(want, q) = base.net - base.count
  <2>1. Total(want, q) = Total(want, queue[s]) - want[t]
    BY TotalDequeue
  <2>2. Total(want, queue[s]) \in Nat
    <3>1. PICK g : Sums(g, want, queue[s]) /\ Total(want, queue[s]) = g[Len(queue[s])]
      BY TotalRounds
    <3>2. Len(queue[s]) \in 0 .. Len(queue[s])
      OBVIOUS
    <3> QED
      BY <3>1, <3>2, SumsAreNat
  <2> DEFINE x == net_count[s]
             y == count[s]
             v == Total(want, queue[s])
             m == want[t]
  <2>3. x \in Nat /\ y \in Int /\ v \in Nat /\ x = y + v /\ m \in Nat
    BY <2>2
  <2> HIDE DEF x, y, v, m
  <2>4. v - m = x - (y + m)
    BY <2>3
  <2> QED
    BY <1>2, <2>1, <2>4 DEF x, y, v, m
<1> HIDE DEF base, q
<1>4. PICK k : After(r, base.net - base.count, q, Len(q), k, f)
  BY <1>0, <1>1, <1>2, RemoveLoopAfter
<1>5. Good(r, q)
  <2> HIDE DEF r
  <2>1. After(r, Total(want, q), q, Len(q), k, f)
    BY <1>3, <1>4
  <2> QED
    BY <1>0, <1>1, <2>1, AfterGood
<1>6. Unqueue(s, t) = r
  BY DEF Unqueue, base, q
<1> QED
  BY <1>5, <1>6 DEF q

\* With single units, a semaphore that has none has none after a round.
LEMMA ReleaseRoundZero ==
    ASSUME NEW r \in LoopStates, NEW t \in Threads, want[t] = 1, r.net = 0
    PROVE  ReleaseRound(r, t).net = 0
<1> DEFINE z == ReleaseRound(r, t)
<1>1. r.left \in Nat
  BY DEF LoopStates
<1>2. CASE r.left = 0 \/ r.stay # <<>>
  BY <1>2, ReleaseRoundIs DEF Acc
<1>3. CASE ~(r.left = 0 \/ r.stay # <<>>) /\ wait_status[t] # "waiting"
  BY <1>3, ReleaseRoundIs DEF Acc
<1>4. CASE ~(r.left = 0 \/ r.stay # <<>>) /\ wait_status[t] = "waiting"
  <2>1. ~(1 > 0 + r.left) /\ ~(r.left < 1) /\ 0 + 1 - 1 = 0
    BY <1>1, <1>4
  <2>2. z = Acc(r.count + 1, 0 + 1 - 1, r.left - 1, r.wake \cup {t}, r.stay)
    BY <1>4, <2>1, ReleaseRoundIs
  <2> QED
    BY <2>1, <2>2 DEF Acc
<1> QED
  BY <1>2, <1>3, <1>4

LEMMA RemoveRoundZero ==
    ASSUME NEW r \in LoopStates, NEW t \in Threads, want[t] = 1, r.net = 0
    PROVE  RemoveRound(r, t).net = 0
<1>1. want[t] > r.net
  OBVIOUS
<1> QED
  BY <1>1, RemoveRoundIs DEF Acc

LEMMA ReleaseLoopZero ==
    ASSUME want \in [Threads -> Nat], NEW q \in Seq(Threads), NEW base \in LoopStates, base.net = 0,
           \A t \in Threads : InQueue(q, t) => want[t] = 1
    PROVE  FoldLeft(ReleaseRound, base, q).net = 0
<1>1. PICK g : /\ g[0] = base
               /\ \A k \in 1 .. Len(q) : g[k] = ReleaseRound(g[k - 1], q[k])
               /\ FoldLeft(ReleaseRound, base, q) = g[Len(q)]
  BY ReleaseRounds
<1> DEFINE P == {k \in 0 .. Len(q) : g[k] \in LoopStates /\ g[k].net = 0}
<1>2. P \in SUBSET Nat /\ Len(q) \in Nat /\ Len(q) \in 0 .. Len(q) /\ 0 \in P
  BY <1>1
<1>3. \A k \in 0 .. (Len(q) - 1) : k \in P => k + 1 \in P
  <2> SUFFICES ASSUME NEW k \in 0 .. (Len(q) - 1), k \in P PROVE k + 1 \in P
    OBVIOUS
  <2>1. k + 1 \in 1 .. Len(q) /\ k + 1 \in 0 .. Len(q) /\ (k + 1) - 1 = k /\ q[k + 1] \in Threads
    OBVIOUS
  <2>2. g[k + 1] = ReleaseRound(g[k], q[k + 1])
    BY <1>1, <2>1
  <2>3. want[q[k + 1]] = 1
    BY <2>1 DEF InQueue
  <2>4. g[k] \in LoopStates /\ g[k].net = 0
    OBVIOUS
  <2>5. ReleaseRound(g[k], q[k + 1]) \in LoopStates /\ ReleaseRound(g[k], q[k + 1]).net = 0
    BY <2>1, <2>3, <2>4, ReleaseRoundType, ReleaseRoundZero
  <2> QED
    BY <2>1, <2>2, <2>5
<1>4. Len(q) \in P
  <2> HIDE DEF P
  <2> QED
    BY <1>2, <1>3, CountUp
<1> QED
  BY <1>1, <1>4

LEMMA RemoveLoopZero ==
    ASSUME want \in [Threads -> Nat], NEW q \in Seq(Threads), NEW base \in LoopStates, base.net = 0,
           \A t \in Threads : InQueue(q, t) => want[t] = 1
    PROVE  FoldLeft(RemoveRound, base, q).net = 0
<1>1. PICK g : /\ g[0] = base
               /\ \A k \in 1 .. Len(q) : g[k] = RemoveRound(g[k - 1], q[k])
               /\ FoldLeft(RemoveRound, base, q) = g[Len(q)]
  BY RemoveRounds
<1> DEFINE P == {k \in 0 .. Len(q) : g[k] \in LoopStates /\ g[k].net = 0}
<1>2. P \in SUBSET Nat /\ Len(q) \in Nat /\ Len(q) \in 0 .. Len(q) /\ 0 \in P
  BY <1>1
<1>3. \A k \in 0 .. (Len(q) - 1) : k \in P => k + 1 \in P
  <2> SUFFICES ASSUME NEW k \in 0 .. (Len(q) - 1), k \in P PROVE k + 1 \in P
    OBVIOUS
  <2>1. k + 1 \in 1 .. Len(q) /\ k + 1 \in 0 .. Len(q) /\ (k + 1) - 1 = k /\ q[k + 1] \in Threads
    OBVIOUS
  <2>2. g[k + 1] = RemoveRound(g[k], q[k + 1])
    BY <1>1, <2>1
  <2>3. want[q[k + 1]] = 1
    BY <2>1 DEF InQueue
  <2>4. g[k] \in LoopStates /\ g[k].net = 0
    OBVIOUS
  <2>5. RemoveRound(g[k], q[k + 1]) \in LoopStates /\ RemoveRound(g[k], q[k + 1]).net = 0
    BY <2>1, <2>3, <2>4, RemoveRoundType, RemoveRoundZero
  <2> QED
    BY <2>1, <2>2, <2>5
<1>4. Len(q) \in P
  <2> HIDE DEF P
  <2> QED
    BY <1>2, <1>3, CountUp
<1> QED
  BY <1>1, <1>4

LEMMA ReleaseZero ==
    ASSUME want \in [Threads -> Nat], NEW s, NEW n \in Nat, NEW b \in BOOLEAN, count[s] \in Int, net_count[s] \in Nat,
           queue[s] \in Seq(Threads), queue[s] # <<>> => net_count[s] = 0,
           \A t \in Threads : InQueue(queue[s], t) => want[t] = 1,
           Good(Release(s, n, b), queue[s]), Release(s, n, b).stay # <<>>
    PROVE  Release(s, n, b).net = 0
<1> DEFINE base == Loop(s, n)
           r == FoldLeft(ReleaseRound, base, queue[s])
           z == NobodyWaits(r, b)
<1>1. Release(s, n, b) = z
  BY DEF Release
<1>2. base \in LoopStates /\ base.net = net_count[s]
  BY LoopStart
<1>3. queue[s] # <<>>
  <2>1. z.stay \in Seq(Threads) /\ z.stay # <<>>
    BY <1>1 DEF Good, LoopStates
  <2>2. InQueue(z.stay, z.stay[1])
    <3> HIDE DEF z
    <3> QED
      BY <2>1 DEF InQueue
  <2>3. InQueue(queue[s], z.stay[1])
    BY <1>1, <2>2 DEF Good
  <2> QED
    BY <2>3 DEF InQueue
<1>4. r.net = 0
  <2> HIDE DEF base
  <2> QED
    BY <1>2, <1>3, ReleaseLoopZero
<1>5. r.stay # <<>>
  <2>1. CASE b \/ r.stay # <<>>
    <3>1. z = r
      BY <2>1 DEF NobodyWaits
    <3> QED
      BY <1>1, <3>1
  <2>2. CASE ~(b \/ r.stay # <<>>)
    <3>1. z = [r EXCEPT !.count = r.count + r.left, !.net = r.net + r.left]
      BY <2>2 DEF NobodyWaits
    <3>2. r \in LoopStates
      <4>1. PICK f : Sums(f, want, queue[s]) /\ Total(want, queue[s]) = f[Len(queue[s])]
        BY TotalRounds
      <4>2. base.stay = <<>> /\ base.wake = {}
        BY LoopStart
      <4> HIDE DEF base
      <4>3. \E k : After(r, base.net - base.count, queue[s], Len(queue[s]), k, f)
        BY <1>2, <4>1, <4>2, ReleaseLoopAfter
      <4> HIDE DEF r
      <4> QED
        BY <4>3 DEF After
    <3>3. z = Acc(r.count + r.left, r.net + r.left, r.left, r.wake, r.stay)
      BY <3>1, <3>2, AccCountNet, Zenon
    <3> HIDE DEF z
    <3>4. z.stay = r.stay
      BY <3>3 DEF Acc
    <3> QED
      BY <1>1, <2>2, <3>4
  <2> QED
    BY <2>1, <2>2
<1>6. z = r
  BY <1>5 DEF NobodyWaits
<1> QED
  BY <1>1, <1>4, <1>6

LEMMA UnqueueZero ==
    ASSUME want \in [Threads -> Nat], NEW s, NEW t \in Threads, count[s] \in Int, net_count[s] = 0,
           queue[s] \in Seq(Threads), Distinct(queue[s]), InQueue(queue[s], t),
           \A u \in Threads : InQueue(queue[s], u) => want[u] = 1
    PROVE  Unqueue(s, t).net = 0
<1> DEFINE q == Dequeue(queue[s], t)
           o == Loop(s, 0)
           base == Drop(o, t)
<1>1. q \in Seq(Threads) /\ \A u : InQueue(q, u) => InQueue(queue[s], u)
  BY DequeueType, DequeueFacts
<1>2. base \in LoopStates /\ base.net = 0
  <2>1. o \in LoopStates /\ o.count = count[s] /\ o.net = 0 /\ o.wake = {} /\ o.stay = <<>> /\ o.left = 0
    BY LoopStart
  <2> HIDE DEF o
  <2>2. base = Acc(o.count + want[t], o.net, o.left, o.wake, o.stay)
    BY <2>1, AccCount DEF Drop
  <2>3. count[s] + want[t] \in Int
    OBVIOUS
  <2> HIDE DEF base
  <2> QED
    BY <2>1, <2>2, <2>3 DEF Acc, LoopStates
<1>3. Unqueue(s, t) = FoldLeft(RemoveRound, base, q)
  BY DEF Unqueue
<1> HIDE DEF q, base
<1>4. FoldLeft(RemoveRound, base, q).net = 0
  BY <1>1, <1>2, RemoveLoopZero
<1> QED
  BY <1>3, <1>4

-----------------------------------------------------------------------------
(***************************************************************************)
(* The inductive invariant of the semaphores.                              *)
(***************************************************************************)

\* The types, without the bounds of the model.
UnitsTypes ==
    /\ active \in SUBSET Sems
    /\ generation \in [Sems -> Nat]
    /\ count \in [Sems -> Int]
    /\ net_count \in [Sems -> Nat]
    /\ queue \in [Sems -> Seq(Threads)]
    /\ select_infos \in [Sems -> SUBSET Infos]
    /\ selected \in [Infos -> (Sems \X Nat) \cup {NoId}]
    /\ events \in [Infos -> SUBSET {"acquire", "invalid"}]
    /\ wait_status \in [Threads -> WaitStatus]
    /\ pc \in [Threads -> {"running", "release", "blocked"}]
    /\ obj \in [Threads -> Sems \cup {NoSem}]
    /\ want \in [Threads -> Nat]

\* net_count is what is left of count when those who wait have given back what they took.
CountedInv == \A s \in active : net_count[s] = count[s] + Total(want, queue[s])

QueuesInv == \A s \in Sems : Distinct(queue[s]) /\ (s \notin active => queue[s] = <<>>)

QueuedInv == \A s \in Sems : \A t \in Threads : InQueue(queue[s], t) => pc[t] # "running" /\ obj[t] = s

WaitingInv ==
    \A t \in Threads :
        /\ pc[t] # "running" => obj[t] \in Sems
        /\ Waits(t) => pc[t] # "running" /\ obj[t] \in active /\ InQueue(queue[obj[t]], t)

\* The info i is selected for the semaphore s, which still exists.
SelectedFor(i, s) == s \in active /\ selected[i] = <<s, generation[s]>>

SelectInv ==
    \A i \in Infos : selected[i] # NoId =>
        \E s \in Sems, g \in Nat :
            /\ selected[i] = <<s, g>> /\ g <= generation[s]
            /\ SelectedFor(i, s) => i \in select_infos[s] /\ (count[s] > 0 => "acquire" \in events[i])
            /\ ~SelectedFor(i, s) => "invalid" \in events[i]

\* Where everybody acquires one unit, a semaphore somebody waits for has none.
SingleInv ==
    AcquireCounts = {1} =>
        \A s \in active :
            /\ queue[s] # <<>> => net_count[s] = 0
            /\ \A t \in Threads : InQueue(queue[s], t) => want[t] = 1

UnitsInv == UnitsTypes /\ CountedInv /\ QueuesInv /\ QueuedInv /\ WaitingInv /\ SelectInv /\ SingleInv

LEMMA TotalNat ==
    ASSUME NEW w \in [Threads -> Nat], NEW q \in Seq(Threads)
    PROVE  Total(w, q) \in Nat
<1>1. PICK g : Sums(g, w, q) /\ Total(w, q) = g[Len(q)]
  BY TotalRounds
<1>2. Len(q) \in 0 .. Len(q)
  OBVIOUS
<1> QED
  BY <1>1, <1>2, SumsAreNat

LEMMA WakeFacts ==
    ASSUME wait_status \in [Threads -> WaitStatus], NEW T, NEW x \in WaitStatus,
           wait_status' = thread_unblock_each(wait_status, T, x)
    PROVE  /\ wait_status' \in [Threads -> WaitStatus]
           /\ \A u \in Threads : wait_status'[u] = IF u \in T /\ Waits(u) THEN x ELSE wait_status[u]
  BY DEF thread_unblock_each, thread_unblock_locked, thread_is_blocked, Waits

\* The info's semaphore is the only one it can be selected for.
LEMMA SelectLoop ==
    ASSUME SelectInv, UnitsTypes, NEW s \in active, NEW c \in Int,
           count' = [count EXCEPT ![s] = c],
           events' = [i \in Infos |-> IF i \in Notify(s, c) THEN events[i] \cup {"acquire"} ELSE events[i]],
           UNCHANGED <<active, generation, select_infos, selected>>
    PROVE  SelectInv' /\ events' \in [Infos -> SUBSET {"acquire", "invalid"}]
<1>1. ASSUME NEW i \in Infos PROVE events'[i] = IF c > 0 /\ i \in select_infos[s] THEN events[i] \cup {"acquire"} ELSE events[i]
  BY DEF Notify
<1>2. \A i \in Infos : events'[i] \in SUBSET {"acquire", "invalid"}
  BY <1>1 DEF UnitsTypes
<1>3. events' \in [Infos -> SUBSET {"acquire", "invalid"}]
  BY <1>2
<1>4. SelectInv'
  <2> SUFFICES ASSUME NEW i \in Infos, selected[i] # NoId
               PROVE  \E z \in Sems, g \in Nat :
                         /\ selected[i] = <<z, g>> /\ g <= generation[z]
                         /\ SelectedFor(i, z) => i \in select_infos[z] /\ (count'[z] > 0 => "acquire" \in events'[i])
                         /\ ~SelectedFor(i, z) => "invalid" \in events'[i]
    BY DEF SelectInv, SelectedFor, NoId
  <2>1. PICK z \in Sems, g \in Nat :
            /\ selected[i] = <<z, g>> /\ g <= generation[z]
            /\ SelectedFor(i, z) => i \in select_infos[z] /\ (count[z] > 0 => "acquire" \in events[i])
            /\ ~SelectedFor(i, z) => "invalid" \in events[i]
    BY DEF SelectInv
  <2>2. events[i] \subseteq events'[i]
    BY <1>1
  <2>3. ASSUME SelectedFor(i, z), count'[z] > 0 PROVE "acquire" \in events'[i]
    <3>1. CASE z = s
      <4>1. count'[z] = c
        BY <3>1 DEF UnitsTypes
      <4> QED
        BY <1>1, <2>1, <2>3, <3>1, <4>1
    <3>2. CASE z # s
      <4>1. count'[z] = count[z]
        BY <3>2 DEF UnitsTypes
      <4> QED
        BY <2>1, <2>2, <2>3, <4>1
    <3> QED
      BY <3>1, <3>2
  <2> HIDE DEF SelectedFor
  <2> QED
    BY <2>1, <2>2, <2>3
<1> QED
  BY <1>3, <1>4

\* A loop over the threads of q, which wait for s, ends with r.  The threads of Leaving return.
LEMMA LoopStep ==
    ASSUME UnitsInv, NEW s \in active, NEW r, NEW q, Good(r, q), AfterLoop(s, r),
           AcquireCounts = {1} /\ r.stay # <<>> => r.net = 0,
           UNCHANGED <<active, generation, select_infos, selected>>,
           pc' \in [Threads -> {"running", "release", "blocked"}],
           obj' \in [Threads -> Sems \cup {NoSem}], want' \in [Threads -> Nat],
           NEW Leaving,
           \A u \in Threads : InQueue(q, u) => InQueue(queue[s], u) /\ u \notin Leaving,
           \A u \in Threads : InQueue(queue[s], u) /\ Waits(u) => InQueue(q, u),
           \A u \in Leaving : ~Waits(u) /\ \A z \in Sems : InQueue(queue[z], u) => z = s,
           \A u \in Leaving : pc'[u] = "running",
           \A u \in Threads : u \notin Leaving =>
               (pc'[u] = "running" <=> pc[u] = "running") /\ obj'[u] = obj[u] /\ want'[u] = want[u]
    PROVE  UnitsInv'
<1> USE DEF UnitsInv
<1>1. /\ count' = [count EXCEPT ![s] = r.count] /\ net_count' = [net_count EXCEPT ![s] = r.net]
      /\ queue' = [queue EXCEPT ![s] = r.stay]
      /\ wait_status' = thread_unblock_each(wait_status, r.wake, "B_OK")
      /\ events' = [i \in Infos |-> IF i \in Notify(s, r.count) THEN events[i] \cup {"acquire"} ELSE events[i]]
  BY DEF AfterLoop
<1>2. s \in Sems /\ r \in LoopStates /\ r.count \in Int /\ r.net \in Nat /\ r.stay \in Seq(Threads)
      /\ r.wake \in SUBSET Threads
  BY DEF UnitsTypes, Good, LoopStates
<1>3. /\ queue'[s] = r.stay /\ count'[s] = r.count /\ net_count'[s] = r.net
      /\ \A z \in Sems : z # s => queue'[z] = queue[z] /\ count'[z] = count[z] /\ net_count'[z] = net_count[z]
  BY <1>1, <1>2 DEF UnitsTypes
<1>4. /\ wait_status' \in [Threads -> WaitStatus]
      /\ \A u \in Threads : Waits(u)' <=> Waits(u) /\ u \notin r.wake
  <2>1. "B_OK" \in WaitStatus /\ "B_OK" # "waiting" /\ wait_status \in [Threads -> WaitStatus]
    BY DEF WaitStatus, UnitsTypes
  <2>2. /\ wait_status' \in [Threads -> WaitStatus]
        /\ \A u \in Threads : wait_status'[u] = IF u \in r.wake /\ Waits(u) THEN "B_OK" ELSE wait_status[u]
    BY <1>1, <2>1, WakeFacts
  <2> QED
    BY <2>1, <2>2 DEF Waits
<1>5. SelectInv' /\ events' \in [Infos -> SUBSET {"acquire", "invalid"}]
  BY <1>1, <1>2, SelectLoop
<1>6. /\ Distinct(r.stay) /\ r.net = r.count + Total(want, r.stay)
      /\ \A u : InQueue(r.stay, u) => InQueue(q, u)
      /\ \A u \in Threads : InQueue(q, u) /\ Waits(u) => u \in r.wake \/ InQueue(r.stay, u)
      /\ \A u \in r.wake : Waits(u) /\ InQueue(q, u) /\ ~InQueue(r.stay, u)
  BY DEF Good
<1>7. UnitsTypes'
  <2>1. count' \in [Sems -> Int] /\ net_count' \in [Sems -> Nat] /\ queue' \in [Sems -> Seq(Threads)]
    BY <1>1, <1>2 DEF UnitsTypes
  <2> QED
    BY <1>4, <1>5, <2>1 DEF UnitsTypes, NoId
<1>8. ASSUME NEW z \in Sems, NEW u \in Threads, InQueue(queue'[z], u)
      PROVE  InQueue(queue[z], u) /\ u \notin Leaving
  <2>1. CASE z = s
    BY <1>3, <1>6, <1>8, <2>1
  <2>2. CASE z # s
    BY <1>3, <1>8, <2>2
  <2> QED
    BY <2>1, <2>2
<1>9. CountedInv'
  <2> SUFFICES ASSUME NEW z \in active PROVE net_count'[z] = count'[z] + Total(want', queue'[z])
    BY DEF CountedInv
  <2>0. z \in Sems
    BY DEF UnitsTypes
  <2>1. Total(want', queue'[z]) = Total(want, queue'[z])
    <3>1. \A u \in Threads : InQueue(queue'[z], u) => want'[u] = want[u]
      BY <1>8, <2>0
    <3>2. want \in [Threads -> Nat] /\ queue'[z] \in Seq(Threads)
      BY <1>7, <2>0 DEF UnitsTypes
    <3> QED
      BY <3>1, <3>2, TotalSame
  <2>2. CASE z = s
    BY <1>3, <1>6, <2>1, <2>2
  <2>3. CASE z # s
    BY <1>3, <2>0, <2>1, <2>3 DEF CountedInv
  <2> QED
    BY <2>2, <2>3
<1>10. QueuesInv'
  <2> HIDE DEF Distinct
  <2> QED
    BY <1>3, <1>6 DEF QueuesInv
<1>11. QueuedInv'
  BY <1>8 DEF QueuedInv
<1>12. WaitingInv'
  <2> SUFFICES ASSUME NEW u \in Threads
               PROVE  /\ pc'[u] # "running" => obj'[u] \in Sems
                      /\ Waits(u)' => pc'[u] # "running" /\ obj'[u] \in active /\ InQueue(queue'[obj'[u]], u)
    BY DEF WaitingInv
  <2>1. pc'[u] # "running" => obj'[u] \in Sems
    BY DEF WaitingInv
  <2>2. ASSUME Waits(u)' PROVE pc'[u] # "running" /\ obj'[u] \in active /\ InQueue(queue'[obj'[u]], u)
    <3>1. Waits(u) /\ u \notin r.wake
      BY <1>4, <2>2
    <3>2. u \notin Leaving
      BY <3>1
    <3>3. pc'[u] # "running" /\ obj'[u] = obj[u] /\ obj[u] \in active /\ InQueue(queue[obj[u]], u)
      BY <3>1, <3>2 DEF WaitingInv
    <3>4. InQueue(queue'[obj[u]], u)
      <4>1. CASE obj[u] = s
        BY <1>3, <1>6, <3>1, <3>3, <4>1
      <4>2. CASE obj[u] # s
        <5>1. obj[u] \in Sems
          BY <3>3 DEF UnitsTypes
        <5> QED
          BY <1>3, <3>3, <4>2, <5>1
      <4> QED
        BY <4>1, <4>2
    <3> QED
      BY <3>3, <3>4
  <2> QED
    BY <2>1, <2>2
<1>13. SingleInv'
  <2> SUFFICES ASSUME AcquireCounts = {1}, NEW z \in active
               PROVE  /\ queue'[z] # <<>> => net_count'[z] = 0
                      /\ \A u \in Threads : InQueue(queue'[z], u) => want'[u] = 1
    BY DEF SingleInv
  <2>0. z \in Sems
    BY DEF UnitsTypes
  <2>1. queue'[z] # <<>> => net_count'[z] = 0
    <3>1. CASE z = s
      BY <1>3, <3>1
    <3>2. CASE z # s
      BY <1>3, <2>0, <3>2 DEF SingleInv
    <3> QED
      BY <3>1, <3>2
  <2>2. \A u \in Threads : InQueue(queue'[z], u) => want'[u] = 1
    BY <1>8, <2>0 DEF SingleInv
  <2> QED
    BY <2>1, <2>2
<1> QED
  BY <1>5, <1>7, <1>9, <1>10, <1>11, <1>12, <1>13

LEMMA UnitsInit == Init => UnitsInv
<1> SUFFICES ASSUME Init PROVE UnitsInv
  OBVIOUS
<1> USE SemaphoreAssumption DEF Init
<1>1. /\ count \in [Sems -> Nat] /\ net_count = count /\ active = Sems
      /\ \A s \in Sems : queue[s] = <<>>
  <2>1. count \in [Sems -> InitialCounts]
    OBVIOUS
  <2>2. \A s \in Sems : count[s] \in Nat
    BY <2>1
  <2> QED
    BY <2>1, <2>2
<1>2. UnitsTypes
  <2>1. count \in [Sems -> Int]
    BY <1>1
  <2>2. wait_status \in [Threads -> WaitStatus]
    BY DEF WaitStatus
  <2> QED
    BY <1>1, <2>1, <2>2 DEF UnitsTypes, NoId
<1>3. CountedInv
  <2>1. want \in [Threads -> Nat]
    OBVIOUS
  <2>2. Total(want, <<>>) = 0
    BY <2>1, TotalEmpty
  <2>3. \A s \in Sems : count[s] = count[s] + 0
    BY <1>1
  <2> QED
    BY <1>1, <2>2, <2>3 DEF CountedInv
<1>4. \A u : ~InQueue(<<>>, u)
  BY DEF InQueue
<1>5. QueuesInv
  BY <1>1 DEF QueuesInv, Distinct
<1>6. QueuedInv /\ SingleInv
  BY <1>1, <1>4 DEF QueuedInv, SingleInv
<1>7. WaitingInv
  BY DEF WaitingInv, Waits
<1>8. SelectInv
  BY DEF SelectInv
<1> QED
  BY <1>2, <1>3, <1>5, <1>6, <1>7, <1>8 DEF UnitsInv

\* Who takes units makes no semaphore available.
LEMMA SelectKeep ==
    ASSUME SelectInv, UnitsTypes, \A s \in Sems : count'[s] \in Int /\ count'[s] <= count[s],
           UNCHANGED <<active, generation, select_infos, selected, events>>
    PROVE  SelectInv'
<1> SUFFICES ASSUME NEW i \in Infos, selected[i] # NoId
             PROVE  \E z \in Sems, g \in Nat :
                       /\ selected[i] = <<z, g>> /\ g <= generation[z]
                       /\ SelectedFor(i, z) => i \in select_infos[z] /\ (count'[z] > 0 => "acquire" \in events[i])
                       /\ ~SelectedFor(i, z) => "invalid" \in events[i]
  BY DEF SelectInv, SelectedFor, NoId
<1>1. PICK z \in Sems, g \in Nat :
          /\ selected[i] = <<z, g>> /\ g <= generation[z]
          /\ SelectedFor(i, z) => i \in select_infos[z] /\ (count[z] > 0 => "acquire" \in events[i])
          /\ ~SelectedFor(i, z) => "invalid" \in events[i]
  BY DEF SelectInv
<1>2. count'[z] > 0 => count[z] > 0
  <2>1. count'[z] \in Int /\ count[z] \in Int /\ count'[z] <= count[z]
    BY DEF UnitsTypes
  <2> QED
    BY <2>1
<1> QED
  BY <1>1, <1>2

LEMMA AcquireUnits ==
    ASSUME UnitsInv, NEW t \in Threads, NEW s \in Sems, NEW n \in AcquireCounts,
           acquire_sem(t, s, n)
    PROVE  UnitsInv'
<1> USE DEF UnitsInv
<1>1. /\ s \in active /\ count[s] - n >= 0
      /\ count' = [count EXCEPT ![s] = count[s] - n]
      /\ net_count' = [net_count EXCEPT ![s] = net_count[s] - n]
      /\ UNCHANGED <<active, generation, queue, select_infos, selected, events, wait_status, pc, obj, want>>
  BY DEF acquire_sem, selectVars, threadVars
<1>2. /\ n \in Nat /\ n > 0 /\ count[s] \in Int /\ net_count[s] \in Nat
      /\ queue[s] \in Seq(Threads) /\ want \in [Threads -> Nat]
  BY SemaphoreAssumption DEF UnitsTypes
<1> DEFINE v == Total(want, queue[s])
<1>3. v \in Nat /\ net_count[s] = count[s] + v
  BY <1>1, <1>2, TotalNat DEF CountedInv
<1>4. /\ net_count[s] - n \in Nat /\ count[s] - n \in Int /\ count[s] - n <= count[s]
      /\ net_count[s] - n = (count[s] - n) + v /\ net_count[s] # 0
  <2> DEFINE x == net_count[s]
             y == count[s]
  <2>1. n \in Nat /\ n > 0 /\ y \in Int /\ x \in Nat /\ v \in Nat /\ x = y + v /\ y - n >= 0
    BY <1>1, <1>2, <1>3
  <2> HIDE DEF x, y, v
  <2>2. x - n \in Nat /\ y - n \in Int /\ y - n <= y /\ x - n = (y - n) + v /\ x # 0
    BY <2>1
  <2> QED
    BY <2>2 DEF x, y
<1>5. /\ count'[s] = count[s] - n /\ net_count'[s] = net_count[s] - n
      /\ \A z \in Sems : z # s => count'[z] = count[z] /\ net_count'[z] = net_count[z]
  BY <1>1 DEF UnitsTypes
<1>6. UnitsTypes'
  <2>1. count' \in [Sems -> Int] /\ net_count' \in [Sems -> Nat]
    BY <1>1, <1>4 DEF UnitsTypes
  <2> QED
    BY <1>1, <2>1 DEF UnitsTypes, NoId
<1>7. CountedInv'
  <2> SUFFICES ASSUME NEW z \in active PROVE net_count'[z] = count'[z] + Total(want, queue[z])
    BY <1>1 DEF CountedInv
  <2>1. z \in Sems
    BY DEF UnitsTypes
  <2> QED
    BY <1>4, <1>5, <2>1 DEF CountedInv
<1>8. SelectInv'
  <2>1. \A z \in Sems : count'[z] \in Int /\ count'[z] <= count[z]
    <3> SUFFICES ASSUME NEW z \in Sems PROVE count'[z] \in Int /\ count'[z] <= count[z]
      OBVIOUS
    <3>1. count[z] \in Int
      BY DEF UnitsTypes
    <3> QED
      BY <1>4, <1>5, <3>1
  <2> QED
    BY <1>1, <2>1, SelectKeep
<1>9. QueuesInv' /\ QueuedInv' /\ WaitingInv'
  BY <1>1 DEF QueuesInv, QueuedInv, WaitingInv, Waits
<1>10. SingleInv'
  <2> SUFFICES ASSUME AcquireCounts = {1}, NEW z \in active
               PROVE  /\ queue[z] # <<>> => net_count'[z] = 0
                      /\ \A u \in Threads : InQueue(queue[z], u) => want[u] = 1
    BY <1>1 DEF SingleInv
  <2>1. z \in Sems
    BY DEF UnitsTypes
  <2> QED
    BY <1>1, <1>4, <1>5, <2>1 DEF SingleInv
<1> QED
  BY <1>6, <1>7, <1>8, <1>9, <1>10

LEMMA SwitchUnits ==
    ASSUME UnitsInv, NEW t \in Threads, NEW s \in Sems, NEW n \in AcquireCounts, NEW other,
           switch_sem(t, s, n, other)
    PROVE  UnitsInv'
<1> USE DEF UnitsInv
<1>1. /\ pc[t] = "running" /\ s \in active /\ count[s] - n < 0
      /\ count' = [count EXCEPT ![s] = count[s] - n]
      /\ queue' = [queue EXCEPT ![s] = Append(queue[s], t)]
      /\ want' = [want EXCEPT ![t] = n] /\ obj' = [obj EXCEPT ![t] = s]
      /\ wait_status' = [wait_status EXCEPT ![t] = "waiting"]
      /\ pc' = [pc EXCEPT ![t] = IF other = NoId THEN "blocked" ELSE "release"]
      /\ UNCHANGED <<active, generation, net_count, select_infos, selected, events>>
  BY DEF switch_sem, selectVars, thread_prepare_to_block
<1>2. /\ n \in Nat /\ n > 0 /\ count[s] \in Int /\ net_count[s] \in Nat /\ count[s] - n \in Int
      /\ queue[s] \in Seq(Threads) /\ want \in [Threads -> Nat] /\ Append(queue[s], t) \in Seq(Threads)
      /\ Distinct(queue[s])
  BY SemaphoreAssumption DEF UnitsTypes, QueuesInv
<1>3. \A z \in Sems : ~InQueue(queue[z], t)
  BY <1>1 DEF QueuedInv
<1>4. UnitsTypes'
  <2>1. count' \in [Sems -> Int] /\ queue' \in [Sems -> Seq(Threads)]
    BY <1>1, <1>2 DEF UnitsTypes
  <2>2. wait_status' \in [Threads -> WaitStatus]
    BY <1>1 DEF UnitsTypes, WaitStatus
  <2>3. want' \in [Threads -> Nat] /\ obj' \in [Threads -> Sems \cup {NoSem}]
    BY <1>1, <1>2 DEF UnitsTypes
  <2>4. pc' \in [Threads -> {"running", "release", "blocked"}]
    <3> HIDE DEF NoId
    <3> QED
      BY <1>1 DEF UnitsTypes
  <2> QED
    BY <1>1, <2>1, <2>2, <2>3, <2>4 DEF UnitsTypes, NoId
<1>5. /\ count'[s] = count[s] - n /\ queue'[s] = Append(queue[s], t)
      /\ \A z \in Sems : z # s => count'[z] = count[z] /\ queue'[z] = queue[z]
  BY <1>1 DEF UnitsTypes
<1>6. /\ want'[t] = n /\ obj'[t] = s /\ pc'[t] # "running" /\ Waits(t)'
      /\ \A u \in Threads : u # t =>
            want'[u] = want[u] /\ obj'[u] = obj[u] /\ pc'[u] = pc[u] /\ (Waits(u)' <=> Waits(u))
  <2>1. pc'[t] # "running" /\ \A u \in Threads : u # t => pc'[u] = pc[u]
    <3> HIDE DEF NoId
    <3> QED
      BY <1>1 DEF UnitsTypes
  <2> QED
    BY <1>1, <2>1 DEF UnitsTypes, Waits
<1>7. /\ \A u : InQueue(Append(queue[s], t), u) <=> u = t \/ InQueue(queue[s], u)
      /\ Distinct(Append(queue[s], t))
  BY <1>2, <1>3, AppendFacts
<1>8. CountedInv'
  <2> SUFFICES ASSUME NEW z \in active PROVE net_count[z] = count'[z] + Total(want', queue'[z])
    BY <1>1 DEF CountedInv
  <2>0. z \in Sems /\ want' \in [Threads -> Nat] /\ queue[z] \in Seq(Threads)
    BY <1>4 DEF UnitsTypes
  <2>1. Total(want', queue[z]) = Total(want, queue[z])
    <3>1. \A u \in Threads : InQueue(queue[z], u) => want'[u] = want[u]
      BY <1>3, <1>6, <2>0
    <3> QED
      BY <1>2, <2>0, <3>1, TotalSame
  <2>2. CASE z = s
    <3>1. Total(want', queue'[z]) = Total(want, queue[z]) + n
      BY <1>5, <1>6, <2>0, <2>1, <2>2, TotalAppend
    <3>2. net_count[z] = count[z] + Total(want, queue[z]) /\ Total(want, queue[z]) \in Nat
      BY <1>2, <2>0, TotalNat DEF CountedInv
    <3> DEFINE v == Total(want, queue[z])
               y == count[s]
    <3>3. net_count[z] = y + v /\ v \in Nat /\ y \in Int /\ count'[z] = y - n
      BY <1>2, <1>5, <2>2, <3>2
    <3> HIDE DEF v, y
    <3>4. y + v = (y - n) + (v + n)
      BY <1>2, <3>3
    <3>5. Total(want', queue'[z]) = v + n
      BY <3>1 DEF v
    <3> QED
      BY <3>3, <3>4, <3>5
  <2>3. CASE z # s
    BY <1>5, <2>0, <2>1, <2>3 DEF CountedInv
  <2> QED
    BY <2>2, <2>3
<1>9. QueuesInv'
  <2> HIDE DEF Distinct
  <2> QED
    BY <1>1, <1>5, <1>7 DEF QueuesInv
<1>10. \A z \in Sems, u \in Threads : InQueue(queue'[z], u) <=> InQueue(queue[z], u) \/ (z = s /\ u = t)
  BY <1>5, <1>7
<1>11. QueuedInv'
  BY <1>3, <1>6, <1>10 DEF QueuedInv
<1>12. WaitingInv'
  <2> SUFFICES ASSUME NEW u \in Threads
               PROVE  /\ pc'[u] # "running" => obj'[u] \in Sems
                      /\ Waits(u)' => pc'[u] # "running" /\ obj'[u] \in active /\ InQueue(queue'[obj'[u]], u)
    BY <1>1 DEF WaitingInv
  <2>1. CASE u = t
    BY <1>1, <1>6, <1>10, <2>1
  <2>2. CASE u # t
    <3>1. \A z \in active : z \in Sems
      BY DEF UnitsTypes
    <3> QED
      BY <1>6, <1>10, <2>2, <3>1 DEF WaitingInv
  <2> QED
    BY <2>1, <2>2
<1>13. SelectInv'
  <2>1. \A z \in Sems : count'[z] \in Int /\ count'[z] <= count[z]
    <3> SUFFICES ASSUME NEW z \in Sems PROVE count'[z] \in Int /\ count'[z] <= count[z]
      OBVIOUS
    <3>1. count[z] \in Int
      BY DEF UnitsTypes
    <3>2. count[s] - n <= count[s]
      BY <1>2
    <3> QED
      BY <1>2, <1>5, <3>1, <3>2
  <2> QED
    BY <1>1, <2>1, SelectKeep
<1>14. SingleInv'
  <2> SUFFICES ASSUME AcquireCounts = {1}, NEW z \in active
               PROVE  /\ queue'[z] # <<>> => net_count[z] = 0
                      /\ \A u \in Threads : InQueue(queue'[z], u) => want'[u] = 1
    BY <1>1 DEF SingleInv
  <2>0. z \in Sems /\ n = 1
    BY DEF UnitsTypes
  <2>1. \A u \in Threads : InQueue(queue'[z], u) => want'[u] = 1
    BY <1>3, <1>6, <1>10, <2>0 DEF SingleInv
  <2>2. ASSUME queue'[z] # <<>> PROVE net_count[z] = 0
    <3>1. CASE queue[z] # <<>>
      BY <3>1 DEF SingleInv
    <3>2. CASE queue[z] = <<>>
      <4>1. z = s
        BY <1>5, <2>0, <2>2, <3>2
      <4>2. Total(want, queue[s]) = 0
        BY <1>2, <3>2, <4>1, TotalEmpty
      <4>3. net_count[s] = count[s] + 0
        BY <1>1, <4>2 DEF CountedInv
      <4>4. count[s] - 1 < 0
        BY <1>1, <2>0
      <4> QED
        BY <1>2, <4>1, <4>3, <4>4
    <3> QED
      BY <3>1, <3>2
  <2> QED
    BY <2>1, <2>2
<1> QED
  BY <1>4, <1>8, <1>9, <1>11, <1>12, <1>13, <1>14

LEMMA ReleaseUnits ==
    ASSUME UnitsInv, NEW s \in active, NEW n \in Nat, NEW b \in BOOLEAN,
           AfterLoop(s, Release(s, n, b)),
           UNCHANGED <<active, generation, select_infos, selected, obj, want>>,
           pc' \in [Threads -> {"running", "release", "blocked"}],
           \A u \in Threads : pc'[u] = "running" <=> pc[u] = "running"
    PROVE  UnitsInv' /\ Good(Release(s, n, b), queue[s])
<1> USE DEF UnitsInv
<1> DEFINE r == Release(s, n, b)
<1>1. /\ s \in Sems /\ count[s] \in Int /\ net_count[s] \in Nat /\ queue[s] \in Seq(Threads)
      /\ Distinct(queue[s]) /\ want \in [Threads -> Nat] /\ net_count[s] = count[s] + Total(want, queue[s])
  BY DEF UnitsTypes, QueuesInv, CountedInv
<1>2. Good(r, queue[s])
  BY <1>1, ReleaseGood
<1>3. AcquireCounts = {1} /\ r.stay # <<>> => r.net = 0
  <2> SUFFICES ASSUME AcquireCounts = {1}, r.stay # <<>> PROVE r.net = 0
    OBVIOUS
  <2>1. (queue[s] # <<>> => net_count[s] = 0) /\ \A t \in Threads : InQueue(queue[s], t) => want[t] = 1
    BY DEF SingleInv
  <2> QED
    BY <1>1, <1>2, <2>1, ReleaseZero
<1>4. obj' \in [Threads -> Sems \cup {NoSem}] /\ want' \in [Threads -> Nat]
  BY DEF UnitsTypes
<1> DEFINE N == {}
<1>5. /\ \A u \in Threads : InQueue(queue[s], u) => InQueue(queue[s], u) /\ u \notin N
      /\ \A u \in Threads : InQueue(queue[s], u) /\ Waits(u) => InQueue(queue[s], u)
      /\ \A u \in N : ~Waits(u) /\ \A z \in Sems : InQueue(queue[z], u) => z = s
      /\ \A u \in N : pc'[u] = "running"
      /\ \A u \in Threads : u \notin N =>
            (pc'[u] = "running" <=> pc[u] = "running") /\ obj'[u] = obj[u] /\ want'[u] = want[u]
  OBVIOUS
<1> HIDE DEF N, r, UnitsInv
<1>6. AfterLoop(s, r)
  BY DEF r
<1>7. UnitsInv'
  BY <1>2, <1>3, <1>4, <1>5, <1>6, LoopStep
<1> QED
  BY <1>2, <1>7 DEF r

LEMMA SwitchReleaseUnits ==
    ASSUME UnitsInv, NEW t \in Threads, switch_sem_release(t)
    PROVE  UnitsInv'
<1> DEFINE o == toRelease[t][1]
<1>1. /\ pc[t] = "release" /\ pc' = [pc EXCEPT ![t] = "blocked"]
      /\ UNCHANGED <<active, generation, select_infos, selected, obj, want>>
      /\ \/ o \in active /\ AfterLoop(o, Release(o, 1, FALSE))
         \/ UNCHANGED <<count, net_count, queue, wait_status, events>>
  BY DEF switch_sem_release
<1>2. /\ pc' \in [Threads -> {"running", "release", "blocked"}]
      /\ \A u \in Threads : pc'[u] = "running" <=> pc[u] = "running"
  BY <1>1 DEF UnitsInv, UnitsTypes
<1>3. CASE o \in active /\ AfterLoop(o, Release(o, 1, FALSE))
  <2> HIDE DEF o
  <2>1. 1 \in Nat /\ FALSE \in BOOLEAN
    OBVIOUS
  <2> QED
    BY <1>1, <1>2, <1>3, <2>1, ReleaseUnits
<1>4. CASE UNCHANGED <<count, net_count, queue, wait_status, events>>
  <2>1. UnitsTypes'
    BY <1>1, <1>2, <1>4 DEF UnitsInv, UnitsTypes, NoId
  <2>2. CountedInv' /\ QueuesInv' /\ SingleInv'
    BY <1>1, <1>4 DEF UnitsInv, CountedInv, QueuesInv, SingleInv
  <2>3. QueuedInv' /\ WaitingInv'
    BY <1>1, <1>2, <1>4 DEF UnitsInv, QueuedInv, WaitingInv, Waits
  <2>4. SelectInv'
    BY <1>1, <1>4 DEF UnitsInv, SelectInv, SelectedFor, NoId
  <2> QED
    BY <2>1, <2>2, <2>3, <2>4 DEF UnitsInv
<1> QED
  BY <1>1, <1>3, <1>4

LEMMA ReturnUnits ==
    ASSUME UnitsInv, NEW t \in Threads, switch_sem_return(t)
    PROVE  /\ UnitsInv'
           /\ \/ /\ obj[t] \in active /\ InQueue(queue[obj[t]], t) /\ ~Waits(t)
                 /\ AfterLoop(obj[t], Unqueue(obj[t], t))
                 /\ Good(Unqueue(obj[t], t), Dequeue(queue[obj[t]], t))
              \/ wait_status' = wait_status
<1> USE DEF UnitsInv
<1> DEFINE s == obj[t]
           r == Unqueue(s, t)
           q == Dequeue(queue[s], t)
<1>1. /\ pc[t] = "blocked" /\ ~Waits(t)
      /\ pc' = [pc EXCEPT ![t] = "running"] /\ obj' = [obj EXCEPT ![t] = NoSem]
      /\ want' = [want EXCEPT ![t] = 0]
      /\ UNCHANGED <<active, generation, select_infos, selected>>
      /\ \/ InQueue(queue[s], t) /\ AfterLoop(s, r)
         \/ ~InQueue(queue[s], t) /\ UNCHANGED <<count, net_count, queue, wait_status, events>>
  BY DEF switch_sem_return, thread_is_blocked, Waits
<1>2. /\ pc' \in [Threads -> {"running", "release", "blocked"}]
      /\ obj' \in [Threads -> Sems \cup {NoSem}] /\ want' \in [Threads -> Nat]
      /\ pc'[t] = "running"
      /\ \A u \in Threads : u # t => pc'[u] = pc[u] /\ obj'[u] = obj[u] /\ want'[u] = want[u]
  BY <1>1 DEF UnitsTypes
<1>3. s \in Sems /\ queue[s] \in Seq(Threads) /\ Distinct(queue[s])
  BY <1>1 DEF UnitsTypes, WaitingInv, QueuesInv
<1>4. CASE InQueue(queue[s], t) /\ AfterLoop(s, r)
  <2>1. s \in active
    <3>1. queue[s] # <<>>
      BY <1>4 DEF InQueue
    <3> QED
      BY <1>3, <3>1 DEF QueuesInv
  <2>2. /\ count[s] \in Int /\ net_count[s] \in Nat /\ want \in [Threads -> Nat]
        /\ net_count[s] = count[s] + Total(want, queue[s])
    BY <1>3, <2>1 DEF UnitsTypes, CountedInv
  <2>3. Good(r, q)
    <3> HIDE DEF s
    <3> QED
      BY <1>3, <1>4, <2>2, UnqueueGood
  <2>4. AcquireCounts = {1} => r.net = 0
    <3> SUFFICES ASSUME AcquireCounts = {1} PROVE r.net = 0
      OBVIOUS
    <3>1. queue[s] # <<>>
      BY <1>4 DEF InQueue
    <3>2. net_count[s] = 0 /\ \A u \in Threads : InQueue(queue[s], u) => want[u] = 1
      BY <2>1, <3>1 DEF SingleInv
    <3> HIDE DEF s
    <3> QED
      BY <1>3, <1>4, <2>2, <3>2, UnqueueZero
  <2>5. \A u : InQueue(q, u) <=> u # t /\ InQueue(queue[s], u)
    BY <1>3, <1>4, DequeueFacts
  <2> DEFINE N == {t}
  <2>6. \A z \in Sems : InQueue(queue[z], t) => z = s
    BY DEF QueuedInv
  <2>7. /\ \A u \in Threads : InQueue(q, u) => InQueue(queue[s], u) /\ u \notin N
        /\ \A u \in Threads : InQueue(queue[s], u) /\ Waits(u) => InQueue(q, u)
        /\ \A u \in N : ~Waits(u) /\ \A z \in Sems : InQueue(queue[z], u) => z = s
        /\ \A u \in N : pc'[u] = "running"
        /\ \A u \in Threads : u \notin N =>
              (pc'[u] = "running" <=> pc[u] = "running") /\ obj'[u] = obj[u] /\ want'[u] = want[u]
    <3> HIDE DEF q, s
    <3> QED
      BY <1>1, <1>2, <2>5, <2>6
  <2> HIDE DEF N, r, q, UnitsInv
  <2>8. UnitsInv'
    <3> HIDE DEF s
    <3> QED
      BY <1>1, <1>2, <1>4, <2>1, <2>3, <2>4, <2>7, LoopStep
  <2> QED
    BY <1>1, <1>4, <2>1, <2>3, <2>8 DEF r, q
<1>5. CASE ~InQueue(queue[s], t) /\ UNCHANGED <<count, net_count, queue, wait_status, events>>
  <2>1. UnitsTypes'
    BY <1>1, <1>2, <1>5 DEF UnitsTypes, NoId
  <2>2. \A z \in Sems, u \in Threads : InQueue(queue[z], u) => u # t
    BY <1>5 DEF QueuedInv
  <2>3. CountedInv'
    <3> SUFFICES ASSUME NEW z \in active PROVE net_count[z] = count[z] + Total(want', queue[z])
      BY <1>1, <1>5 DEF CountedInv
    <3>1. z \in Sems /\ queue[z] \in Seq(Threads) /\ want \in [Threads -> Nat]
      BY DEF UnitsTypes
    <3>2. \A u \in Threads : InQueue(queue[z], u) => want'[u] = want[u]
      BY <1>2, <2>2, <3>1
    <3>3. Total(want', queue[z]) = Total(want, queue[z])
      BY <1>2, <3>1, <3>2, TotalSame
    <3> QED
      BY <3>3 DEF CountedInv
  <2>4. QueuesInv'
    BY <1>1, <1>5 DEF QueuesInv
  <2>5. QueuedInv'
    BY <1>2, <1>5, <2>2 DEF QueuedInv
  <2>6. SingleInv'
    <3>1. \A z \in active : z \in Sems
      BY DEF UnitsTypes
    <3> QED
      BY <1>1, <1>2, <1>5, <2>2, <3>1 DEF SingleInv
  <2>7. WaitingInv'
    <3> SUFFICES ASSUME NEW u \in Threads
                 PROVE  /\ pc'[u] # "running" => obj'[u] \in Sems
                        /\ Waits(u) => pc'[u] # "running" /\ obj'[u] \in active /\ InQueue(queue[obj'[u]], u)
      BY <1>1, <1>5 DEF WaitingInv, Waits
    <3>1. CASE u = t
      BY <1>1, <1>2, <3>1
    <3>2. CASE u # t
      BY <1>2, <3>2 DEF WaitingInv
    <3> QED
      BY <3>1, <3>2
  <2>8. SelectInv'
    BY <1>1, <1>5 DEF SelectInv, SelectedFor, NoId
  <2> QED
    BY <1>5, <2>1, <2>3, <2>4, <2>5, <2>6, <2>7, <2>8
<1> QED
  BY <1>1, <1>4, <1>5

\* A wait ends while the thread is still queued.
LEMMA UnblockUnits ==
    ASSUME UnitsInv, NEW t \in Threads, NEW x \in WaitStatus, x # "waiting",
           wait_status' = thread_unblock_locked(wait_status, t, x),
           UNCHANGED <<semVars, selectVars, threadVars>>
    PROVE  UnitsInv'
<1>1. UNCHANGED <<active, generation, count, net_count, queue, select_infos, selected, events, pc, obj, want>>
  BY DEF semVars, selectVars, threadVars
<1>2. wait_status' \in [Threads -> WaitStatus] /\ \A u \in Threads : Waits(u)' => Waits(u)
  BY DEF UnitsInv, UnitsTypes, thread_unblock_locked, thread_is_blocked, Waits
<1>3. UnitsTypes'
  BY <1>1, <1>2 DEF UnitsInv, UnitsTypes, NoId
<1>4. CountedInv' /\ QueuesInv' /\ SingleInv' /\ QueuedInv'
  BY <1>1 DEF UnitsInv, CountedInv, QueuesInv, SingleInv, QueuedInv
<1>5. WaitingInv'
  <2> HIDE DEF Waits
  <2> QED
    BY <1>1, <1>2 DEF UnitsInv, WaitingInv
<1>6. SelectInv'
  BY <1>1 DEF UnitsInv, SelectInv, SelectedFor, NoId
<1> QED
  BY <1>3, <1>4, <1>5, <1>6 DEF UnitsInv

LEMMA SelectUnits ==
    ASSUME UnitsInv, NEW i \in Infos, NEW s \in Sems, select_sem(i, s)
    PROVE  UnitsInv'
<1>1. /\ s \in active
      /\ selected' = [selected EXCEPT ![i] = <<s, generation[s]>>]
      /\ select_infos' = [select_infos EXCEPT ![s] = select_infos[s] \cup {i}]
      /\ events' = [events EXCEPT ![i] = IF count[s] > 0 THEN {"acquire"} ELSE {}]
      /\ UNCHANGED <<active, generation, count, net_count, queue, wait_status, pc, obj, want>>
  BY DEF select_sem, Id, semVars, threadVars
<1>2. UnitsTypes'
  <2>1. select_infos' \in [Sems -> SUBSET Infos] /\ events' \in [Infos -> SUBSET {"acquire", "invalid"}]
    BY <1>1 DEF UnitsInv, UnitsTypes
  <2>2. selected' \in [Infos -> (Sems \X Nat) \cup {NoId}]
    <3>1. <<s, generation[s]>> \in Sems \X Nat
      BY DEF UnitsInv, UnitsTypes
    <3> QED
      BY <1>1, <3>1 DEF UnitsInv, UnitsTypes
  <2> QED
    BY <1>1, <2>1, <2>2 DEF UnitsInv, UnitsTypes, NoId
<1>3. CountedInv' /\ QueuesInv' /\ SingleInv' /\ QueuedInv' /\ WaitingInv'
  BY <1>1 DEF UnitsInv, CountedInv, QueuesInv, SingleInv, QueuedInv, WaitingInv, Waits
<1>4. SelectInv'
  <2> SUFFICES ASSUME NEW j \in Infos, selected'[j] # NoId
               PROVE  \E z \in Sems, g \in Nat :
                         /\ selected'[j] = <<z, g>> /\ g <= generation[z]
                         /\ SelectedFor(j, z)' => j \in select_infos'[z] /\ (count[z] > 0 => "acquire" \in events'[j])
                         /\ ~SelectedFor(j, z)' => "invalid" \in events'[j]
    BY <1>1 DEF SelectInv, NoId
  <2>1. CASE j = i
    <3>1. /\ selected'[j] = <<s, generation[s]>> /\ generation[s] \in Nat /\ j \in select_infos'[s]
          /\ events'[j] = IF count[s] > 0 THEN {"acquire"} ELSE {}
      BY <1>1, <2>1 DEF UnitsInv, UnitsTypes
    <3>2. SelectedFor(j, s)'
      BY <1>1, <3>1 DEF SelectedFor
    <3>3. generation[s] <= generation[s]
      BY <3>1
    <3> QED
      BY <3>1, <3>2, <3>3
  <2>2. CASE j # i
    <3>1. selected'[j] = selected[j] /\ events'[j] = events[j] /\ \A z \in Sems : select_infos[z] \subseteq select_infos'[z]
      BY <1>1, <2>2 DEF UnitsInv, UnitsTypes
    <3>2. \A z \in Sems : SelectedFor(j, z)' <=> SelectedFor(j, z)
      BY <1>1, <3>1 DEF SelectedFor
    <3>3. PICK z \in Sems, g \in Nat :
             /\ selected[j] = <<z, g>> /\ g <= generation[z]
             /\ SelectedFor(j, z) => j \in select_infos[z] /\ (count[z] > 0 => "acquire" \in events[j])
             /\ ~SelectedFor(j, z) => "invalid" \in events[j]
      BY <3>1 DEF UnitsInv, SelectInv
    <3> HIDE DEF SelectedFor
    <3> QED
      BY <3>1, <3>2, <3>3
  <2> QED
    BY <2>1, <2>2
<1> QED
  BY <1>2, <1>3, <1>4 DEF UnitsInv

LEMMA DeselectUnits ==
    ASSUME UnitsInv, NEW i \in Infos, deselect_sem(i)
    PROVE  UnitsInv'
<1> DEFINE s == selected[i][1]
<1>1. /\ selected[i] # NoId
      /\ selected' = [selected EXCEPT ![i] = NoId]
      /\ select_infos' = IF s \in active /\ selected[i] = <<s, generation[s]>>
                         THEN [select_infos EXCEPT ![s] = select_infos[s] \ {i}] ELSE select_infos
      /\ UNCHANGED <<active, generation, count, net_count, queue, events, wait_status, pc, obj, want>>
  BY DEF deselect_sem, Id, semVars, threadVars
<1>2. s \in active => s \in Sems
  BY DEF UnitsInv, UnitsTypes
<1>3. /\ select_infos' \in [Sems -> SUBSET Infos]
      /\ \A z \in Sems : \A j \in Infos : j # i => (j \in select_infos[z] => j \in select_infos'[z])
  <2>1. CASE select_infos' = select_infos
    BY <2>1 DEF UnitsInv, UnitsTypes
  <2>2. CASE s \in active /\ select_infos' = [select_infos EXCEPT ![s] = select_infos[s] \ {i}]
    <3> HIDE DEF s
    <3> QED
      BY <1>2, <2>2 DEF UnitsInv, UnitsTypes
  <2> QED
    BY <1>1, <2>1, <2>2
<1>4. UnitsTypes'
  <2>1. selected' \in [Infos -> (Sems \X Nat) \cup {NoId}]
    BY <1>1 DEF UnitsInv, UnitsTypes
  <2> QED
    BY <1>1, <1>3, <2>1 DEF UnitsInv, UnitsTypes, NoId
<1>5. CountedInv' /\ QueuesInv' /\ SingleInv' /\ QueuedInv' /\ WaitingInv'
  BY <1>1 DEF UnitsInv, CountedInv, QueuesInv, SingleInv, QueuedInv, WaitingInv, Waits
<1>6. SelectInv'
  <2> SUFFICES ASSUME NEW j \in Infos, selected'[j] # NoId
               PROVE  \E z \in Sems, g \in Nat :
                         /\ selected'[j] = <<z, g>> /\ g <= generation[z]
                         /\ SelectedFor(j, z)' => j \in select_infos'[z] /\ (count[z] > 0 => "acquire" \in events[j])
                         /\ ~SelectedFor(j, z)' => "invalid" \in events[j]
    BY <1>1 DEF SelectInv, NoId
  <2>1. j # i
    BY <1>1 DEF UnitsInv, UnitsTypes
  <2>2. selected'[j] = selected[j]
    BY <1>1, <2>1 DEF UnitsInv, UnitsTypes
  <2>3. \A z \in Sems : SelectedFor(j, z)' <=> SelectedFor(j, z)
    BY <1>1, <2>2 DEF SelectedFor
  <2>4. PICK z \in Sems, g \in Nat :
           /\ selected[j] = <<z, g>> /\ g <= generation[z]
           /\ SelectedFor(j, z) => j \in select_infos[z] /\ (count[z] > 0 => "acquire" \in events[j])
           /\ ~SelectedFor(j, z) => "invalid" \in events[j]
    BY <2>2 DEF UnitsInv, SelectInv
  <2> HIDE DEF SelectedFor
  <2> QED
    BY <1>3, <2>1, <2>2, <2>3, <2>4
<1> QED
  BY <1>4, <1>5, <1>6 DEF UnitsInv

LEMMA DeleteUnits ==
    ASSUME UnitsInv, NEW s \in Sems, delete_sem(s)
    PROVE  /\ UnitsInv'
           /\ \A u \in Threads : wait_status'[u] = IF InQueue(queue[s], u) /\ Waits(u) THEN "B_BAD_SEM_ID"
                                                   ELSE wait_status[u]
<1> DEFINE T == {queue[s][k] : k \in DOMAIN queue[s]}
<1>1. /\ s \in active /\ active' = active \ {s}
      /\ events' = [i \in Infos |-> IF i \in select_infos[s] THEN events[i] \cup {"invalid"} ELSE events[i]]
      /\ select_infos' = [select_infos EXCEPT ![s] = {}]
      /\ wait_status' = thread_unblock_each(wait_status, T, "B_BAD_SEM_ID")
      /\ queue' = [queue EXCEPT ![s] = <<>>]
      /\ UNCHANGED <<generation, count, net_count, selected, pc, obj, want>>
  BY DEF delete_sem, DeleteWakes, ToSet, threadVars
<1>2. \A u : u \in T <=> InQueue(queue[s], u)
  BY DEF InQueue
<1> HIDE DEF T
<1>3. /\ wait_status' \in [Threads -> WaitStatus]
      /\ \A u \in Threads : wait_status'[u] = IF InQueue(queue[s], u) /\ Waits(u) THEN "B_BAD_SEM_ID" ELSE wait_status[u]
  <2>1. "B_BAD_SEM_ID" \in WaitStatus /\ wait_status \in [Threads -> WaitStatus]
    BY DEF WaitStatus, UnitsInv, UnitsTypes
  <2>2. /\ wait_status' \in [Threads -> WaitStatus]
        /\ \A u \in Threads : wait_status'[u] = IF u \in T /\ Waits(u) THEN "B_BAD_SEM_ID" ELSE wait_status[u]
    BY <1>1, <2>1, WakeFacts
  <2> QED
    BY <1>2, <2>2
<1>4. \A u \in Threads : Waits(u)' <=> Waits(u) /\ ~InQueue(queue[s], u)
  BY <1>3 DEF Waits
<1>5. queue'[s] = <<>> /\ \A z \in Sems : z # s => queue'[z] = queue[z]
  BY <1>1 DEF UnitsInv, UnitsTypes
<1>6. \A u : ~InQueue(<<>>, u)
  BY DEF InQueue
<1>7. UnitsTypes'
  <2>1. queue' \in [Sems -> Seq(Threads)] /\ select_infos' \in [Sems -> SUBSET Infos]
    BY <1>1 DEF UnitsInv, UnitsTypes
  <2>2. events' \in [Infos -> SUBSET {"acquire", "invalid"}]
    BY <1>1 DEF UnitsInv, UnitsTypes
  <2> QED
    BY <1>1, <1>3, <2>1, <2>2 DEF UnitsInv, UnitsTypes, NoId
<1>8. \A z \in active' : z \in active /\ z \in Sems /\ z # s /\ queue'[z] = queue[z]
  BY <1>1, <1>5 DEF UnitsInv, UnitsTypes
<1>9. CountedInv' /\ SingleInv'
  BY <1>1, <1>8 DEF UnitsInv, CountedInv, SingleInv
<1>10. QueuesInv'
  <2>1. Distinct(<<>>)
    BY DEF Distinct
  <2> HIDE DEF Distinct
  <2> QED
    BY <1>1, <1>5, <2>1 DEF UnitsInv, QueuesInv
<1>11. QueuedInv'
  BY <1>1, <1>5, <1>6 DEF UnitsInv, QueuedInv
<1>12. WaitingInv'
  <2> SUFFICES ASSUME NEW u \in Threads
               PROVE  /\ pc[u] # "running" => obj[u] \in Sems
                      /\ Waits(u)' => pc[u] # "running" /\ obj[u] \in active' /\ InQueue(queue'[obj[u]], u)
    BY <1>1 DEF WaitingInv
  <2>1. pc[u] # "running" => obj[u] \in Sems
    BY DEF UnitsInv, WaitingInv
  <2>2. ASSUME Waits(u)' PROVE pc[u] # "running" /\ obj[u] \in active' /\ InQueue(queue'[obj[u]], u)
    <3>1. Waits(u) /\ ~InQueue(queue[s], u)
      BY <1>4, <2>2
    <3>2. pc[u] # "running" /\ obj[u] \in active /\ InQueue(queue[obj[u]], u)
      BY <3>1 DEF UnitsInv, WaitingInv
    <3>3. obj[u] # s
      BY <3>1, <3>2
    <3> QED
      BY <1>1, <1>8, <3>2, <3>3
  <2> QED
    BY <2>1, <2>2
<1>13. SelectInv'
  <2> SUFFICES ASSUME NEW j \in Infos, selected[j] # NoId
               PROVE  \E z \in Sems, g \in Nat :
                         /\ selected[j] = <<z, g>> /\ g <= generation[z]
                         /\ SelectedFor(j, z)' => j \in select_infos'[z] /\ (count[z] > 0 => "acquire" \in events'[j])
                         /\ ~SelectedFor(j, z)' => "invalid" \in events'[j]
    BY <1>1 DEF SelectInv, NoId
  <2>1. PICK z \in Sems, g \in Nat :
           /\ selected[j] = <<z, g>> /\ g <= generation[z]
           /\ SelectedFor(j, z) => j \in select_infos[z] /\ (count[z] > 0 => "acquire" \in events[j])
           /\ ~SelectedFor(j, z) => "invalid" \in events[j]
    BY DEF UnitsInv, SelectInv
  <2>2. events[j] \subseteq events'[j] /\ (j \in select_infos[s] => "invalid" \in events'[j])
    BY <1>1
  <2>3. SelectedFor(j, z)' <=> z # s /\ SelectedFor(j, z)
    BY <1>1 DEF SelectedFor
  <2>4. z # s => select_infos'[z] = select_infos[z]
    BY <1>1 DEF UnitsInv, UnitsTypes
  <2> HIDE DEF SelectedFor
  <2>5. SelectedFor(j, z)' => j \in select_infos'[z] /\ (count[z] > 0 => "acquire" \in events'[j])
    BY <2>1, <2>2, <2>3, <2>4
  <2>6. ~SelectedFor(j, z)' => "invalid" \in events'[j]
    BY <2>1, <2>2, <2>3
  <2> QED
    BY <2>1, <2>5, <2>6
<1> QED
  BY <1>3, <1>7, <1>9, <1>10, <1>11, <1>12, <1>13 DEF UnitsInv

LEMMA CreateUnits ==
    ASSUME UnitsInv, NEW s \in Sems, NEW n \in InitialCounts, create_sem(s, n)
    PROVE  UnitsInv'
<1>1. /\ s \notin active /\ active' = active \cup {s}
      /\ generation' = [generation EXCEPT ![s] = generation[s] + 1]
      /\ count' = [count EXCEPT ![s] = n] /\ net_count' = [net_count EXCEPT ![s] = n]
      /\ select_infos' = [select_infos EXCEPT ![s] = {}]
      /\ queue' = [queue EXCEPT ![s] = <<>>]
      /\ UNCHANGED <<selected, events, wait_status, pc, obj, want>>
  BY DEF create_sem, threadVars
<1>2. n \in Nat /\ n \in Int /\ generation[s] \in Nat /\ generation[s] + 1 \in Nat /\ queue[s] = <<>>
  BY <1>1, SemaphoreAssumption DEF UnitsInv, UnitsTypes, QueuesInv
<1>3. /\ queue' = queue /\ count'[s] = n /\ net_count'[s] = n /\ generation'[s] = generation[s] + 1
      /\ \A z \in Sems : z # s => /\ count'[z] = count[z] /\ net_count'[z] = net_count[z]
                                  /\ generation'[z] = generation[z] /\ select_infos'[z] = select_infos[z]
  <2>1. queue' = queue
    BY <1>1, <1>2 DEF UnitsInv, UnitsTypes
  <2> QED
    BY <1>1, <2>1 DEF UnitsInv, UnitsTypes
<1>4. UnitsTypes'
  <2>1. count' \in [Sems -> Int] /\ net_count' \in [Sems -> Nat] /\ generation' \in [Sems -> Nat]
    BY <1>1, <1>2 DEF UnitsInv, UnitsTypes
  <2>2. select_infos' \in [Sems -> SUBSET Infos]
    BY <1>1 DEF UnitsInv, UnitsTypes
  <2> QED
    BY <1>1, <1>3, <2>1, <2>2 DEF UnitsInv, UnitsTypes, NoId
<1>5. \A u : ~InQueue(<<>>, u)
  BY DEF InQueue
<1>6. CountedInv'
  <2> SUFFICES ASSUME NEW z \in active' PROVE net_count'[z] = count'[z] + Total(want, queue[z])
    BY <1>1, <1>3 DEF CountedInv
  <2>1. CASE z = s
    <3>1. Total(want, queue[z]) = 0
      BY <1>2, <2>1, TotalEmpty DEF UnitsInv, UnitsTypes
    <3> QED
      BY <1>2, <1>3, <2>1, <3>1
  <2>2. CASE z # s
    <3>1. z \in active /\ z \in Sems
      BY <1>1, <2>2 DEF UnitsInv, UnitsTypes
    <3> QED
      BY <1>3, <2>2, <3>1 DEF UnitsInv, CountedInv
  <2> QED
    BY <2>1, <2>2
<1>7. SingleInv'
  <2> SUFFICES ASSUME AcquireCounts = {1}, NEW z \in active'
               PROVE  /\ queue[z] # <<>> => net_count'[z] = 0
                      /\ \A u \in Threads : InQueue(queue[z], u) => want[u] = 1
    BY <1>1, <1>3 DEF SingleInv
  <2>1. CASE z = s
    BY <1>2, <1>5, <2>1
  <2>2. CASE z # s
    <3>1. z \in active /\ z \in Sems
      BY <1>1, <2>2 DEF UnitsInv, UnitsTypes
    <3> QED
      BY <1>3, <2>2, <3>1 DEF UnitsInv, SingleInv
  <2> QED
    BY <2>1, <2>2
<1>8. QueuesInv' /\ QueuedInv' /\ WaitingInv'
  BY <1>1, <1>3 DEF UnitsInv, QueuesInv, QueuedInv, WaitingInv, Waits
<1>9. SelectInv'
  <2> SUFFICES ASSUME NEW j \in Infos, selected[j] # NoId
               PROVE  \E z \in Sems, g \in Nat :
                         /\ selected[j] = <<z, g>> /\ g <= generation'[z]
                         /\ SelectedFor(j, z)' => j \in select_infos'[z] /\ (count'[z] > 0 => "acquire" \in events[j])
                         /\ ~SelectedFor(j, z)' => "invalid" \in events[j]
    BY <1>1 DEF SelectInv, NoId
  <2>1. PICK z \in Sems, g \in Nat :
           /\ selected[j] = <<z, g>> /\ g <= generation[z]
           /\ SelectedFor(j, z) => j \in select_infos[z] /\ (count[z] > 0 => "acquire" \in events[j])
           /\ ~SelectedFor(j, z) => "invalid" \in events[j]
    BY DEF UnitsInv, SelectInv
  <2>2. CASE z = s
    <3>1. g # generation[s] + 1 /\ g <= generation[s] + 1
      BY <1>2, <2>1, <2>2
    <3>2. ~SelectedFor(j, z)' /\ ~SelectedFor(j, z)
      BY <1>1, <1>3, <2>1, <2>2, <3>1 DEF SelectedFor
    <3> HIDE DEF SelectedFor
    <3> QED
      BY <1>3, <2>1, <2>2, <3>1, <3>2
  <2>3. CASE z # s
    <3>1. SelectedFor(j, z)' <=> SelectedFor(j, z)
      BY <1>1, <1>3, <2>3 DEF SelectedFor
    <3> HIDE DEF SelectedFor
    <3> QED
      BY <1>3, <2>1, <2>3, <3>1
  <2> QED
    BY <2>2, <2>3
<1> QED
  BY <1>4, <1>6, <1>7, <1>8, <1>9 DEF UnitsInv

-----------------------------------------------------------------------------
(***************************************************************************)
(* The order of a queue.                                                   *)
(***************************************************************************)

\* A thread that gets its units in this step leaves nobody waiting before it.
Orderly ==
    \A s \in active : \A i, j \in DOMAIN queue[s] :
        (/\ i < j
         /\ thread_is_blocked(wait_status, queue[s][j])
         /\ wait_status'[queue[s][j]] = "B_OK")
            => ~thread_is_blocked(wait_status', queue[s][i])

LEMMA QuietOrderly ==
    ASSUME UnitsTypes, \A u \in Threads : Waits(u) => wait_status'[u] # "B_OK"
    PROVE  Orderly
<1> SUFFICES ASSUME NEW s \in active, NEW j \in DOMAIN queue[s], Waits(queue[s][j]), wait_status'[queue[s][j]] = "B_OK"
             PROVE  FALSE
  BY DEF Orderly, thread_is_blocked, Waits
<1>1. queue[s] \in Seq(Threads)
  BY DEF UnitsTypes
<1>2. queue[s][j] \in Threads
  BY <1>1
<1> QED
  BY <1>2

LEMMA LoopOrderly ==
    ASSUME UnitsInv, NEW s \in active, NEW r, NEW q, Good(r, q), AfterLoop(s, r),
           \A u \in Threads : InQueue(q, u) => InQueue(queue[s], u),
           \A i, j \in DOMAIN queue[s] : i < j /\ InQueue(q, queue[s][j]) /\ Waits(queue[s][i]) =>
               \E k, m \in 1 .. Len(q) : k < m /\ q[k] = queue[s][i] /\ q[m] = queue[s][j]
    PROVE  Orderly
<1>1. /\ "B_OK" \in WaitStatus /\ wait_status \in [Threads -> WaitStatus]
      /\ wait_status' = thread_unblock_each(wait_status, r.wake, "B_OK")
  BY DEF WaitStatus, UnitsInv, UnitsTypes, AfterLoop
<1>2. \A u \in Threads : wait_status'[u] = IF u \in r.wake /\ Waits(u) THEN "B_OK" ELSE wait_status[u]
  BY <1>1, WakeFacts
<1>3. SUFFICES ASSUME NEW z \in active, NEW i \in DOMAIN queue[z], NEW j \in DOMAIN queue[z], i < j,
                      Waits(queue[z][j]), wait_status'[queue[z][j]] = "B_OK", wait_status'[queue[z][i]] = "waiting"
               PROVE  FALSE
  BY DEF Orderly, thread_is_blocked, Waits
<1> DEFINE v == queue[z][j]
           u == queue[z][i]
<1>4. z \in Sems /\ s \in Sems /\ queue[z] \in Seq(Threads)
  BY DEF UnitsInv, UnitsTypes
<1>5. v \in Threads /\ u \in Threads /\ InQueue(queue[z], v)
  BY <1>4 DEF InQueue
<1>6. v \in r.wake
  BY <1>2, <1>3, <1>5 DEF Waits
<1>7. InQueue(q, v)
  BY <1>6 DEF Good
<1>8. z = s
  BY <1>4, <1>5, <1>7 DEF UnitsInv, QueuedInv
<1>9. Waits(u) /\ u \notin r.wake
  BY <1>2, <1>3, <1>5 DEF Waits
<1>10. PICK k \in 1 .. Len(q), m \in 1 .. Len(q) : k < m /\ q[k] = u /\ q[m] = v
  BY <1>3, <1>7, <1>8, <1>9
<1>11. q[k] \in r.wake
  BY <1>6, <1>9, <1>10 DEF Good
<1> QED
  BY <1>9, <1>10, <1>11

LEMMA ReleaseOrderly ==
    ASSUME UnitsInv, NEW s \in active, NEW r, Good(r, queue[s]), AfterLoop(s, r)
    PROVE  Orderly
<1>1. DOMAIN queue[s] = 1 .. Len(queue[s])
  BY DEF UnitsInv, UnitsTypes
<1>2. \A i, j \in DOMAIN queue[s] : i < j /\ InQueue(queue[s], queue[s][j]) /\ Waits(queue[s][i]) =>
         \E k, m \in 1 .. Len(queue[s]) : k < m /\ queue[s][k] = queue[s][i] /\ queue[s][m] = queue[s][j]
  BY <1>1
<1> QED
  BY <1>2, LoopOrderly

LEMMA ReturnOrderly ==
    ASSUME UnitsInv, NEW s \in active, NEW t \in Threads, InQueue(queue[s], t), ~Waits(t), NEW r,
           Good(r, Dequeue(queue[s], t)), AfterLoop(s, r)
    PROVE  Orderly
<1> DEFINE a == queue[s]
           q == Dequeue(queue[s], t)
           p == Position(queue[s], t)
           n == Len(queue[s])
<1>1. a \in Seq(Threads) /\ Distinct(a)
  BY DEF UnitsInv, UnitsTypes, QueuesInv
<1>2. /\ q = [i \in 1 .. (n - 1) |-> IF i < p THEN a[i] ELSE a[i + 1]]
      /\ n - 1 \in Nat /\ p \in 1 .. n /\ a[p] = t /\ n \in Nat /\ DOMAIN a = 1 .. n
  BY <1>1, DequeueType
<1>3. \A u : InQueue(q, u) <=> u # t /\ InQueue(a, u)
  BY <1>1, DequeueFacts
<1>4. Len(q) = n - 1 /\ \A i \in 1 .. (n - 1) : q[i] = IF i < p THEN a[i] ELSE a[i + 1]
  BY <1>2
<1> HIDE DEF q, p, n, a
<1>5. ASSUME NEW i \in 1 .. n, NEW j \in 1 .. n, i < j, InQueue(q, a[j]), Waits(a[i])
      PROVE  \E k, m \in 1 .. Len(q) : k < m /\ q[k] = a[i] /\ q[m] = a[j]
  <2>1. i # p /\ j # p
    BY <1>2, <1>3, <1>5
  <2> DEFINE k == IF i < p THEN i ELSE i - 1
             m == IF j < p THEN j ELSE j - 1
  <2>2. k \in 1 .. (n - 1) /\ m \in 1 .. (n - 1) /\ k < m
    BY <1>2, <1>5, <2>1
  <2>3. q[k] = a[i]
    <3>1. CASE i < p
      BY <1>4, <2>2, <3>1
    <3>2. CASE ~(i < p)
      <4>1. k = i - 1 /\ ~(i - 1 < p) /\ (i - 1) + 1 = i
        BY <1>2, <2>1, <3>2
      <4> QED
        BY <1>4, <2>2, <4>1
    <3> QED
      BY <3>1, <3>2
  <2>4. q[m] = a[j]
    <3>1. CASE j < p
      BY <1>4, <2>2, <3>1
    <3>2. CASE ~(j < p)
      <4>1. m = j - 1 /\ ~(j - 1 < p) /\ (j - 1) + 1 = j
        BY <1>2, <2>1, <3>2
      <4> QED
        BY <1>4, <2>2, <4>1
    <3> QED
      BY <3>1, <3>2
  <2> HIDE DEF k, m
  <2> QED
    BY <1>4, <2>2, <2>3, <2>4
<1>6. \A i, j \in DOMAIN queue[s] : i < j /\ InQueue(q, queue[s][j]) /\ Waits(queue[s][i]) =>
         \E k, m \in 1 .. Len(q) : k < m /\ q[k] = queue[s][i] /\ q[m] = queue[s][j]
  BY <1>2, <1>5 DEF a
<1>7. \A u \in Threads : InQueue(q, u) => InQueue(queue[s], u)
  BY <1>3 DEF a
<1>8. Good(r, q)
  BY DEF q
<1> QED
  BY <1>6, <1>7, <1>8, LoopOrderly

-----------------------------------------------------------------------------
(***************************************************************************)
(* The steps together.                                                     *)
(***************************************************************************)

\* A step that releases units and changes nothing else of the threads.
LEMMA ReleaseBoth ==
    ASSUME UnitsInv, NEW s \in active, NEW n \in Nat, NEW b \in BOOLEAN,
           AfterLoop(s, Release(s, n, b)),
           UNCHANGED <<active, generation, select_infos, selected, threadVars>>
    PROVE  UnitsInv' /\ Orderly
<1>1. UNCHANGED <<active, generation, select_infos, selected, obj, want>> /\ pc' = pc
  BY DEF threadVars
<1>2. pc' \in [Threads -> {"running", "release", "blocked"}]
  BY <1>1 DEF UnitsInv, UnitsTypes
<1>3. UnitsInv' /\ Good(Release(s, n, b), queue[s])
  BY <1>1, <1>2, ReleaseUnits
<1> QED
  BY <1>3, ReleaseOrderly

LEMMA UnitsStep ==
    ASSUME UnitsInv, [Next]_vars
    PROVE  UnitsInv' /\ (Orderly \/ UNCHANGED vars)
<1>0. \A u \in Threads : Waits(u) => wait_status[u] # "B_OK"
  BY DEF Waits
<1>1. UnitsTypes
  BY DEF UnitsInv
<1>2. CASE UNCHANGED vars
  <2>1. UNCHANGED <<active, generation, count, net_count, queue, select_infos, selected, events, wait_status,
                    pc, obj, want>>
    BY <1>2 DEF vars, semVars, selectVars, threadVars
  <2>2. UnitsTypes' /\ CountedInv' /\ QueuesInv' /\ SingleInv' /\ QueuedInv'
    BY <2>1 DEF UnitsInv, UnitsTypes, CountedInv, QueuesInv, SingleInv, QueuedInv, NoId
  <2>3. WaitingInv' /\ SelectInv'
    BY <2>1 DEF UnitsInv, WaitingInv, Waits, SelectInv, SelectedFor, NoId
  <2> QED
    BY <1>2, <2>2, <2>3 DEF UnitsInv
<1>3. ASSUME NEW t \in Threads, switch_sem_release(t) PROVE UnitsInv' /\ Orderly
  <2>1. UnitsInv'
    BY <1>3, SwitchReleaseUnits
  <2> DEFINE o == toRelease[t][1]
  <2>2. \/ o \in active /\ AfterLoop(o, Release(o, 1, FALSE))
        \/ wait_status' = wait_status
    BY <1>3 DEF switch_sem_release
  <2>3. CASE o \in active /\ AfterLoop(o, Release(o, 1, FALSE))
    <3> HIDE DEF o
    <3>1. /\ count[o] \in Int /\ net_count[o] \in Nat /\ queue[o] \in Seq(Threads)
          /\ Distinct(queue[o]) /\ want \in [Threads -> Nat] /\ net_count[o] = count[o] + Total(want, queue[o])
          /\ 1 \in Nat /\ FALSE \in BOOLEAN
      BY <2>3 DEF UnitsInv, UnitsTypes, QueuesInv, CountedInv
    <3>2. Good(Release(o, 1, FALSE), queue[o])
      BY <3>1, ReleaseGood
    <3> QED
      BY <2>1, <2>3, <3>2, ReleaseOrderly
  <2>4. CASE wait_status' = wait_status
    BY <1>0, <1>1, <2>1, <2>4, QuietOrderly
  <2> QED
    BY <2>2, <2>3, <2>4
<1>4. ASSUME NEW t \in Threads, switch_sem_return(t) PROVE UnitsInv' /\ Orderly
  <2> DEFINE s == obj[t]
  <2>1. /\ UnitsInv'
        /\ \/ /\ s \in active /\ InQueue(queue[s], t) /\ ~Waits(t)
              /\ AfterLoop(s, Unqueue(s, t))
              /\ Good(Unqueue(s, t), Dequeue(queue[s], t))
           \/ wait_status' = wait_status
    BY <1>4, ReturnUnits
  <2>2. CASE wait_status' = wait_status
    BY <1>0, <1>1, <2>1, <2>2, QuietOrderly
  <2>3. CASE /\ s \in active /\ InQueue(queue[s], t) /\ ~Waits(t)
             /\ AfterLoop(s, Unqueue(s, t))
             /\ Good(Unqueue(s, t), Dequeue(queue[s], t))
    <3> HIDE DEF s
    <3> QED
      BY <2>1, <2>3, ReturnOrderly
  <2> QED
    BY <2>1, <2>2, <2>3
<1>5. ASSUME NEW t \in Threads, thread_block_timeout(t) \/ thread_interrupt(t) PROVE UnitsInv' /\ Orderly
  <2>1. PICK x \in {"B_TIMED_OUT", "B_INTERRUPTED"} :
           /\ wait_status' = thread_unblock_locked(wait_status, t, x)
           /\ UNCHANGED <<semVars, selectVars, threadVars>>
    BY <1>5 DEF thread_block_timeout, thread_interrupt
  <2>2. x \in WaitStatus /\ x # "waiting" /\ x # "B_OK"
    BY <2>1 DEF WaitStatus
  <2>3. \A u \in Threads : Waits(u) => wait_status'[u] # "B_OK"
    BY <1>1, <2>1, <2>2 DEF UnitsTypes, Waits, thread_unblock_locked, thread_is_blocked
  <2> QED
    BY <1>1, <2>1, <2>2, <2>3, UnblockUnits, QuietOrderly
<1>6. ASSUME NEW t \in Threads, NEW s \in Sems, NEW n \in AcquireCounts, acquire_sem(t, s, n)
      PROVE  UnitsInv' /\ Orderly
  <2>1. wait_status' = wait_status
    BY <1>6 DEF acquire_sem
  <2> QED
    BY <1>0, <1>1, <1>6, <2>1, AcquireUnits, QuietOrderly
<1>7. ASSUME NEW t \in Threads, NEW s \in Sems, NEW n \in AcquireCounts, NEW other, switch_sem(t, s, n, other)
      PROVE  UnitsInv' /\ Orderly
  <2>1. wait_status' = [wait_status EXCEPT ![t] = "waiting"]
    BY <1>7 DEF switch_sem, thread_prepare_to_block
  <2>2. \A u \in Threads : Waits(u) => wait_status'[u] # "B_OK"
    BY <1>1, <2>1 DEF UnitsTypes, Waits
  <2> QED
    BY <1>1, <1>7, <2>2, SwitchUnits, QuietOrderly
<1>8. ASSUME NEW t \in Threads, NEW s \in Sems, NEW n \in AcquireCounts, NEW o \in active,
             switch_sem_interrupted(t, s, n, Id(o))
      PROVE  UnitsInv' /\ Orderly
  <2>1. Id(o)[1] = o
    BY DEF Id
  <2>2. /\ AfterLoop(o, Release(o, 1, FALSE))
        /\ UNCHANGED <<active, generation, select_infos, selected, threadVars>>
    BY <1>8, <2>1 DEF switch_sem_interrupted
  <2>3. 1 \in Nat /\ FALSE \in BOOLEAN
    OBVIOUS
  <2> QED
    BY <2>2, <2>3, ReleaseBoth
<1>9. ASSUME NEW s \in Sems, NEW n \in ReleaseCounts, NEW b \in BOOLEAN, release_sem_etc(s, n, b)
      PROVE  UnitsInv' /\ Orderly
  <2>1. /\ s \in active /\ AfterLoop(s, Release(s, n, b))
        /\ UNCHANGED <<active, generation, select_infos, selected, threadVars>>
    BY <1>9 DEF release_sem_etc
  <2>2. n \in Nat
    BY SemaphoreAssumption
  <2> QED
    BY <2>1, <2>2, ReleaseBoth
<1>10. ASSUME NEW s \in Sems, release_sem_all(s) PROVE UnitsInv' /\ Orderly
  <2> DEFINE n == ReleaseAll(s)
  <2>1. /\ s \in active /\ AfterLoop(s, Release(s, n, TRUE))
        /\ UNCHANGED <<active, generation, select_infos, selected, threadVars>>
    BY <1>10 DEF release_sem_all
  <2>2. n \in Nat
    <3>1. /\ count[s] \in Int /\ net_count[s] \in Nat /\ Total(want, queue[s]) \in Nat
          /\ net_count[s] = count[s] + Total(want, queue[s])
      BY <2>1, TotalNat DEF UnitsInv, UnitsTypes, CountedInv
    <3> DEFINE x == net_count[s]
               y == count[s]
               v == Total(want, queue[s])
    <3>2. y \in Int /\ x \in Nat /\ v \in Nat /\ x = y + v
      BY <3>1
    <3> HIDE DEF x, y, v
    <3>3. x - y \in Nat
      BY <3>2
    <3> QED
      BY <3>3 DEF x, y, ReleaseAll
  <2>3. TRUE \in BOOLEAN
    OBVIOUS
  <2> HIDE DEF n
  <2> QED
    BY <2>1, <2>2, <2>3, ReleaseBoth
<1>11. ASSUME NEW s \in Sems, delete_sem(s) PROVE UnitsInv' /\ Orderly
  <2>1. /\ UnitsInv'
        /\ \A u \in Threads : wait_status'[u] = IF InQueue(queue[s], u) /\ Waits(u) THEN "B_BAD_SEM_ID"
                                                ELSE wait_status[u]
    BY <1>11, DeleteUnits
  <2>2. \A u \in Threads : Waits(u) => wait_status'[u] # "B_OK"
    BY <2>1 DEF Waits
  <2> QED
    BY <1>1, <2>1, <2>2, QuietOrderly
<1>12. ASSUME NEW s \in Sems, NEW n \in InitialCounts, create_sem(s, n) PROVE UnitsInv' /\ Orderly
  <2>1. wait_status' = wait_status
    BY <1>12 DEF create_sem
  <2> QED
    BY <1>0, <1>1, <1>12, <2>1, CreateUnits, QuietOrderly
<1>13. ASSUME NEW i \in Infos, deselect_sem(i) \/ \E s \in Sems : select_sem(i, s)
       PROVE  UnitsInv' /\ Orderly
  <2>1. wait_status' = wait_status
    BY <1>13 DEF deselect_sem, select_sem
  <2>2. UnitsInv'
    BY <1>13, DeselectUnits, SelectUnits
  <2> QED
    BY <1>0, <1>1, <2>1, <2>2, QuietOrderly
<1> QED
  BY <1>2, <1>3, <1>4, <1>5, <1>6, <1>7, <1>8, <1>9, <1>10, <1>11, <1>12, <1>13 DEF Next

LEMMA UnitsInvariance == Spec => []UnitsInv
<1>1. Init => UnitsInv
  BY UnitsInit
<1>2. UnitsInv /\ [Next]_vars => UnitsInv'
  BY UnitsStep
<1> QED
  BY <1>1, <1>2, PTL DEF Spec

\* No unit of a semaphore is created or lost and nobody acquires what is not there: net_count is count and
\* what the queued threads ask for (sem.cpp), for any counts, threads, timeouts, signals and deletions.
THEOREM NoUnitIsLost == Spec => []NetCountInv
<1>1. UnitsInv => NetCountInv
  <2> SUFFICES ASSUME UnitsInv, NEW s \in active PROVE net_count[s] = count[s] + Asked(s) /\ net_count[s] >= 0
    BY DEF NetCountInv
  <2>1. net_count[s] \in Nat /\ net_count[s] = count[s] + Total(want, queue[s])
    BY DEF UnitsInv, UnitsTypes, CountedInv
  <2>2. Asked(s) = Total(want, queue[s])
    BY AskedIsTotal
  <2> QED
    BY <2>1, <2>2
<1>2. Spec => []UnitsInv
  BY UnitsInvariance
<1> QED
  BY <1>1, <1>2, PTL

\* A thread sleeps only in the queue of an existing semaphore, once, and nobody who returned from
\* acquire_sem_etc() is left in a queue.
THEOREM SemSleepersAreQueued == Spec => []QueuesMatchWaiters
<1>1. ASSUME UnitsInv, NEW t \in Threads, Waits(t)
      PROVE  /\ obj[t] \in active
             /\ Cardinality({k \in DOMAIN queue[obj[t]] : queue[obj[t]][k] = t}) = 1
  <2> DEFINE q == queue[obj[t]]
  <2>1. obj[t] \in active /\ obj[t] \in Sems /\ InQueue(q, t) /\ Distinct(q)
    BY <1>1 DEF UnitsInv, UnitsTypes, WaitingInv, QueuesInv
  <2>2. PICK k \in DOMAIN q : q[k] = t
    BY <2>1 DEF InQueue
  <2>3. {i \in DOMAIN q : q[i] = t} = {k}
    BY <2>1, <2>2 DEF Distinct
  <2> HIDE DEF q
  <2>4. Cardinality({i \in DOMAIN q : q[i] = t}) = 1
    <3>1. Cardinality({k}) = 1
      BY FS_Singleton
    <3> QED
      BY <2>3, <3>1
  <2> QED
    BY <2>1, <2>4 DEF q
<1>2. ASSUME UnitsInv, NEW s \in Sems, NEW t \in ToSet(queue[s]) PROVE pc[t] # "running" /\ obj[t] = s
  <2>1. queue[s] \in Seq(Threads)
    BY <1>2 DEF UnitsInv, UnitsTypes
  <2>2. t \in Threads /\ InQueue(queue[s], t)
    BY <2>1 DEF ToSet, InQueue
  <2> QED
    BY <1>2, <2>2 DEF UnitsInv, QueuedInv
<1>3. UnitsInv => QueuesMatchWaiters
  BY <1>1, <1>2 DEF QueuesMatchWaiters, thread_is_blocked, Waits
<1>4. Spec => []UnitsInv
  BY UnitsInvariance
<1> QED
  BY <1>3, <1>4, PTL

\* Whoever has selected a semaphore with select_sem() has been notified when it can be acquired, and of
\* its deletion, also if its slot is in use again.
THEOREM SelectorsAreNotified == Spec => []SelectNotified
<1>1. ASSUME UnitsInv, NEW i \in Infos, selected[i] # NoId
      PROVE  IF selected[i][1] \in active /\ selected[i] = Id(selected[i][1])
             THEN count[selected[i][1]] > 0 => "acquire" \in events[i] ELSE "invalid" \in events[i]
  <2>1. PICK s \in Sems, g \in Nat :
           /\ selected[i] = <<s, g>> /\ g <= generation[s]
           /\ SelectedFor(i, s) => i \in select_infos[s] /\ (count[s] > 0 => "acquire" \in events[i])
           /\ ~SelectedFor(i, s) => "invalid" \in events[i]
    BY <1>1 DEF UnitsInv, SelectInv
  <2>2. selected[i][1] = s
    BY <2>1
  <2>3. SelectedFor(i, s) <=> s \in active /\ selected[i] = Id(s)
    BY DEF SelectedFor, Id
  <2> QED
    BY <2>1, <2>2, <2>3
<1>2. UnitsInv => SelectNotified
  BY <1>1 DEF SelectNotified
<1>3. Spec => []UnitsInv
  BY UnitsInvariance
<1> QED
  BY <1>2, <1>3, PTL

\* Where everybody acquires one unit at a time, the first thread of a queue does not sleep while there is
\* a unit.  (With several units at a time the code of sem.cpp does not guarantee that.)
THEOREM FirstIsUnblocked ==
    AcquireCounts = {1} => (Spec => []SatisfiedIsUnblocked)
<1> SUFFICES ASSUME AcquireCounts = {1} PROVE Spec => []SatisfiedIsUnblocked
  OBVIOUS
<1>1. ASSUME UnitsInv, NEW s \in active, queue[s] # <<>> PROVE ~(want[Head(queue[s])] <= net_count[s])
  <2>1. queue[s] \in Seq(Threads) /\ net_count[s] = 0
    BY <1>1 DEF UnitsInv, UnitsTypes, SingleInv
  <2>2. Head(queue[s]) \in Threads /\ InQueue(queue[s], Head(queue[s]))
    BY <1>1, <2>1 DEF InQueue
  <2>3. want[Head(queue[s])] = 1
    BY <1>1, <2>2 DEF UnitsInv, SingleInv
  <2> QED
    BY <2>1, <2>3
<1>2. UnitsInv => SatisfiedIsUnblocked
  BY <1>1 DEF SatisfiedIsUnblocked, Stranded
<1>3. Spec => []UnitsInv
  BY UnitsInvariance
<1> QED
  BY <1>2, <1>3, PTL

\* Whoever need not wait leaves what the queued threads have asked for.
Modest == \A s \in active : \A t \in Threads, n \in AcquireCounts : acquire_sem(t, s, n) => Asked(s) <= net_count'[s]

LEMMA AcquireIsModest == UnitsInv => Modest
<1> SUFFICES ASSUME UnitsInv, NEW s \in active, NEW t \in Threads, NEW n \in AcquireCounts, acquire_sem(t, s, n)
             PROVE  Asked(s) <= net_count'[s]
  BY DEF Modest
<1> DEFINE c == count[s]
           m == net_count[s]
           a == Total(want, queue[s])
<1>1. s \in Sems /\ c \in Int /\ m \in Nat /\ m = c + a /\ n \in Nat /\ c - n >= 0 /\ net_count'[s] = m - n
  BY SemaphoreAssumption DEF UnitsInv, UnitsTypes, CountedInv, acquire_sem
<1>2. a \in Nat
  BY <1>1, TotalNat DEF UnitsInv, UnitsTypes
<1>3. Asked(s) = a
  BY AskedIsTotal
<1> HIDE DEF c, m, a
<1>4. a <= m - n
  BY <1>1, <1>2
<1> QED
  BY <1>1, <1>3, <1>4

\* In a queue nobody is overtaken: no step of any operation wakes a thread with its units while a thread
\* before it in the queue goes on waiting.  A caller of acquire_sem_etc() that need not wait leaves at
\* least what all those who sleep in the queue have asked for.
THEOREM NobodyIsOvertaken == Spec => NoOvertaking
<1>1. UnitsInv /\ [Next]_vars => [Orderly /\ Modest]_vars
  BY UnitsStep, AcquireIsModest
<1>2. Spec => []UnitsInv
  BY UnitsInvariance
<1>3. Spec => [][Orderly /\ Modest]_vars
  BY <1>1, <1>2, PTL DEF Spec
<1>4. NoOvertaking <=> [][Orderly /\ Modest]_vars
  <2> DEFINE A == \A s \in active :
                     /\ \A i, j \in DOMAIN queue[s] :
                           (/\ i < j
                            /\ thread_is_blocked(wait_status, queue[s][j])
                            /\ wait_status'[queue[s][j]] = "B_OK")
                               => ~thread_is_blocked(wait_status', queue[s][i])
                     /\ \A t \in Threads, n \in AcquireCounts : acquire_sem(t, s, n) => Asked(s) <= net_count'[s]
  <2>1. A <=> Orderly /\ Modest
    BY Zenon DEF Orderly, Modest
  <2>2. [A]_vars <=> [Orderly /\ Modest]_vars
    BY <2>1
  <2>3. [][A]_vars <=> [][Orderly /\ Modest]_vars
    BY <2>2, PTL
  <2> QED
    BY <2>3 DEF NoOvertaking
<1> QED
  BY <1>3, <1>4, PTL

-----------------------------------------------------------------------------
(***************************************************************************)
(* Who is left asleep beside the units it waits for.                       *)
(***************************************************************************)

\* remove_thread_from_sem() stops only at a thread that is not satisfied.
LEMMA RemoveLoopStops ==
    ASSUME want \in [Threads -> Nat], NEW q \in Seq(Threads), NEW base \in LoopStates, base.stay = <<>>
    PROVE  LET r == FoldLeft(RemoveRound, base, q) IN r.stay # <<>> => want[Head(r.stay)] > r.net
<1> DEFINE Stops(r) == r.stay # <<>> => want[Head(r.stay)] > r.net
<1>1. PICK g : /\ g[0] = base
               /\ \A k \in 1 .. Len(q) : g[k] = RemoveRound(g[k - 1], q[k])
               /\ FoldLeft(RemoveRound, base, q) = g[Len(q)]
  BY RemoveRounds
<1> DEFINE P == {k \in 0 .. Len(q) : g[k] \in LoopStates /\ Stops(g[k])}
<1>2. P \in SUBSET Nat /\ Len(q) \in Nat /\ Len(q) \in 0 .. Len(q) /\ 0 \in P
  BY <1>1
<1>3. ASSUME NEW r \in LoopStates, NEW t \in Threads, Stops(r) PROVE Stops(RemoveRound(r, t))
  <2> DEFINE z == RemoveRound(r, t)
  <2>1. r.stay \in Seq(Threads)
    BY DEF LoopStates
  <2>2. CASE r.stay # <<>>
    <3>1. z.stay = Append(r.stay, t) /\ z.net = r.net
      BY <2>2, RemoveRoundIs DEF Acc
    <3>2. Head(Append(r.stay, t)) = Head(r.stay)
      <4> DEFINE p == r.stay
      <4>1. p \in Seq(Threads) /\ p # <<>>
        BY <2>1, <2>2
      <4> HIDE DEF p
      <4>2. Head(Append(p, t)) = Head(p)
        BY <4>1
      <4> QED
        BY <4>2 DEF p
    <3> QED
      BY <1>3, <2>2, <3>1, <3>2
  <2>3. CASE r.stay = <<>> /\ wait_status[t] = "waiting" /\ want[t] > r.net
    <3>1. z.stay = Append(<<>>, t) /\ z.net = r.net
      BY <2>3, RemoveRoundIs DEF Acc
    <3>2. Head(Append(<<>>, t)) = t
      OBVIOUS
    <3> QED
      BY <2>3, <3>1, <3>2
  <2>4. CASE r.stay = <<>> /\ ~(wait_status[t] = "waiting" /\ want[t] > r.net)
    <3>1. z.stay = r.stay
      BY <2>4, RemoveRoundIs DEF Acc
    <3> QED
      BY <2>4, <3>1
  <2> QED
    BY <2>2, <2>3, <2>4
<1> HIDE DEF Stops
<1>4. \A k \in 0 .. (Len(q) - 1) : k \in P => k + 1 \in P
  <2> SUFFICES ASSUME NEW k \in 0 .. (Len(q) - 1), k \in P PROVE k + 1 \in P
    OBVIOUS
  <2>1. k + 1 \in 1 .. Len(q) /\ k + 1 \in 0 .. Len(q) /\ (k + 1) - 1 = k /\ q[k + 1] \in Threads
    OBVIOUS
  <2>2. g[k + 1] = RemoveRound(g[k], q[k + 1])
    BY <1>1, <2>1
  <2>3. g[k] \in LoopStates /\ Stops(g[k])
    OBVIOUS
  <2>4. RemoveRound(g[k], q[k + 1]) \in LoopStates /\ Stops(RemoveRound(g[k], q[k + 1]))
    BY <1>3, <2>1, <2>3, RemoveRoundType
  <2> QED
    BY <2>1, <2>2, <2>4
<1>5. Len(q) \in P
  <2> HIDE DEF P
  <2> QED
    BY <1>2, <1>4, CountUp
<1> QED
  BY <1>1, <1>5 DEF Stops

LEMMA UnqueueStops ==
    ASSUME want \in [Threads -> Nat], NEW s, NEW t \in Threads, count[s] \in Int, net_count[s] \in Nat,
           queue[s] \in Seq(Threads), Distinct(queue[s]), InQueue(queue[s], t)
    PROVE  Unqueue(s, t).stay # <<>> => want[Head(Unqueue(s, t).stay)] > Unqueue(s, t).net
<1> DEFINE q == Dequeue(queue[s], t)
           o == Loop(s, 0)
           base == Drop(o, t)
<1>1. q \in Seq(Threads)
  BY DequeueType
<1>2. base \in LoopStates /\ base.stay = <<>>
  <2>1. o \in LoopStates /\ o.count = count[s] /\ o.net = net_count[s] /\ o.wake = {} /\ o.stay = <<>> /\ o.left = 0
    BY LoopStart
  <2> HIDE DEF o
  <2>2. base = Acc(o.count + want[t], o.net, o.left, o.wake, o.stay)
    BY <2>1, AccCount DEF Drop
  <2>3. count[s] + want[t] \in Int
    OBVIOUS
  <2> HIDE DEF base
  <2> QED
    BY <2>1, <2>2, <2>3 DEF Acc, LoopStates
<1>3. Unqueue(s, t) = FoldLeft(RemoveRound, base, q)
  BY DEF Unqueue
<1> HIDE DEF q, base
<1> QED
  BY <1>1, <1>2, <1>3, RemoveLoopStops

\* B_RELEASE_ALL has enough for everybody: the loop goes to the end of the queue.
LEMMA ReleaseLoopEmpties ==
    ASSUME want \in [Threads -> Nat], NEW q \in Seq(Threads), NEW base \in LoopStates, base.stay = <<>>,
           \A t \in Threads : InQueue(q, t) => want[t] > 0, base.left = Total(want, q)
    PROVE  FoldLeft(ReleaseRound, base, q).stay = <<>>
<1>1. PICK g : /\ g[0] = base
               /\ \A k \in 1 .. Len(q) : g[k] = ReleaseRound(g[k - 1], q[k])
               /\ FoldLeft(ReleaseRound, base, q) = g[Len(q)]
  BY ReleaseRounds
<1>2. PICK f : Sums(f, want, q) /\ Total(want, q) = f[Len(q)]
  BY TotalRounds
<1>3. \A k \in 0 .. Len(q) : f[k] \in Nat
  BY <1>2, SumsAreNat
<1> DEFINE L == Len(q)
           Enough(k) == g[k] \in LoopStates /\ g[k].stay = <<>> /\ g[k].left >= f[L] - f[k]
           P == {k \in 0 .. L : Enough(k)}
<1>4. P \in SUBSET Nat /\ L \in Nat /\ L \in 0 .. L /\ 0 \in 0 .. L
  OBVIOUS
<1>5. Enough(0)
  <2>1. f[0] = 0 /\ f[L] \in Nat /\ f[L] - 0 = f[L] /\ base.left = f[L]
    BY <1>2, <1>3 DEF Sums
  <2> QED
    BY <1>1, <2>1
\* The sums do not fall.
<1>6. ASSUME NEW k \in 1 .. L PROVE f[k] <= f[L]
  <2> DEFINE Q == {j \in 0 .. (L - k) : f[k] <= f[k + j]}
             M == L - k
  <2>1. Q \in SUBSET Nat /\ M \in Nat /\ M \in 0 .. M /\ k + M = L /\ k + 0 = k
    OBVIOUS
  <2>2. 0 \in Q
    BY <1>3, <2>1
  <2>3. ASSUME NEW j \in 0 .. (M - 1), j \in Q PROVE j + 1 \in Q
    <3>0. k + j + 1 \in 1 .. L /\ (k + j + 1) - 1 = k + j /\ k + j \in 0 .. L
          /\ k + (j + 1) = k + j + 1 /\ j + 1 \in 0 .. (L - k) /\ k \in 0 .. L
      <4> HIDE DEF L
      <4> QED
        BY <1>4
    <3>1. /\ k + j + 1 \in 1 .. L /\ (k + j + 1) - 1 = k + j /\ k + j \in 0 .. L /\ q[k + j + 1] \in Threads
          /\ k + (j + 1) = k + j + 1 /\ j + 1 \in 0 .. (L - k) /\ k \in 0 .. L
      BY <3>0
    <3>2. f[k + j + 1] = f[k + j] + want[q[k + j + 1]]
      BY <1>2, <3>1 DEF Sums
    <3>3. f[k] \in Nat /\ f[k + j] \in Nat /\ want[q[k + j + 1]] \in Nat /\ f[k] <= f[k + j]
      BY <1>3, <2>3, <3>1
    <3>4. f[k] <= f[k + j + 1]
      BY <3>2, <3>3
    <3> QED
      BY <3>1, <3>4
  <2>4. M \in Q
    <3>1. \A j \in 0 .. (M - 1) : j \in Q => j + 1 \in Q
      BY <2>3
    <3> HIDE DEF Q, M
    <3> QED
      BY <2>1, <2>2, <3>1, CountUp
  <2> QED
    BY <2>1, <2>4
<1>7. ASSUME NEW k \in 0 .. (L - 1), Enough(k) PROVE Enough(k + 1)
  <2> DEFINE t == q[k + 1]
             r == g[k]
  <2>1. k + 1 \in 1 .. L /\ k + 1 \in 0 .. L /\ (k + 1) - 1 = k /\ t \in Threads /\ k \in 0 .. L /\ L \in 0 .. L
    OBVIOUS
  <2>2. g[k + 1] = ReleaseRound(r, t)
    BY <1>1, <2>1
  <2>3. /\ f[k + 1] = f[k] + want[t] /\ f[k] \in Nat /\ f[k + 1] \in Nat /\ f[L] \in Nat /\ f[k + 1] <= f[L]
    BY <1>2, <1>3, <1>6, <2>1 DEF Sums
  <2>4. want[t] \in Nat /\ want[t] > 0
    BY <2>1 DEF InQueue
  <2>5. r \in LoopStates /\ r.stay = <<>> /\ r.left \in Nat /\ r.net \in Nat /\ r.left >= f[L] - f[k]
    BY <1>7 DEF LoopStates
  <2> DEFINE w == want[t]
             l == r.left
             m == r.net
             x == f[k]
             y == f[L]
  <2>6. w \in Nat /\ w > 0 /\ l \in Nat /\ m \in Nat /\ x \in Nat /\ y \in Nat /\ x + w <= y /\ l >= y - x
    BY <2>3, <2>4, <2>5
  <2>7. ReleaseRound(r, t) \in LoopStates
    BY <2>1, <2>5, ReleaseRoundType
  <2>8. l # 0 /\ ~(w > m + l) /\ ~(l < w) /\ l >= y - (x + w) /\ l - w >= y - (x + w)
    <3> HIDE DEF w, l, m, x, y
    <3> QED
      BY <2>6
  <2>9. CASE wait_status[t] # "waiting"
    <3>1. ReleaseRound(r, t).stay = <<>> /\ ReleaseRound(r, t).left = l
      BY <2>1, <2>5, <2>8, <2>9, ReleaseRoundIs DEF Acc
    <3> HIDE DEF r, t, l
    <3> QED
      BY <2>2, <2>3, <2>7, <2>8, <3>1
  <2>10. CASE wait_status[t] = "waiting"
    <3>1. ReleaseRound(r, t) = Acc(r.count + w, r.net + w - w, l - w, r.wake \cup {t}, r.stay)
      BY <2>1, <2>5, <2>8, <2>10, ReleaseRoundIs
    <3> HIDE DEF r, t, l, w
    <3>2. ReleaseRound(r, t).stay = r.stay /\ ReleaseRound(r, t).left = l - w
      BY <3>1 DEF Acc
    <3> QED
      BY <2>2, <2>3, <2>5, <2>7, <2>8, <3>2 DEF w
  <2> QED
    BY <2>9, <2>10
<1>8. \A k \in 0 .. (L - 1) : k \in P => k + 1 \in P
  <2> SUFFICES ASSUME NEW k \in 0 .. (L - 1), k \in P PROVE k + 1 \in P
    OBVIOUS
  <2>1. k + 1 \in 0 .. L /\ Enough(k)
    OBVIOUS
  <2> HIDE DEF Enough
  <2> QED
    BY <1>7, <2>1
<1>9. L \in P
  <2>1. 0 \in P
    BY <1>4, <1>5
  <2> HIDE DEF P, L
  <2> QED
    BY <1>4, <1>8, <2>1, CountUp
<1> QED
  BY <1>1, <1>9

\* Whoever waits has asked for something.
AskingInv == \A t \in Threads : pc[t] # "running" => want[t] \in Nat \ {0}

LEMMA AskingStep ==
    ASSUME UnitsInv, AskingInv, [Next]_vars
    PROVE  AskingInv'
<1>1. pc \in [Threads -> {"running", "release", "blocked"}] /\ want \in [Threads -> Nat]
  BY DEF UnitsInv, UnitsTypes
<1>2. CASE \E t \in Threads : switch_sem_release(t)
  BY <1>1, <1>2 DEF switch_sem_release, AskingInv
<1>3. CASE \E t \in Threads : switch_sem_return(t)
  BY <1>1, <1>3 DEF switch_sem_return, AskingInv
<1>4. CASE UNCHANGED threadVars
  BY <1>4 DEF threadVars, AskingInv
<1>5. ASSUME NEW t \in Threads, NEW s \in Sems, NEW n \in AcquireCounts, NEW o, switch_sem(t, s, n, o)
      PROVE  AskingInv'
  <2>1. n \in Nat \ {0} /\ want' = [want EXCEPT ![t] = n]
        /\ pc' = [pc EXCEPT ![t] = IF o = NoId THEN "blocked" ELSE "release"]
    BY <1>5, SemaphoreAssumption DEF switch_sem
  <2> QED
    BY <1>1, <2>1 DEF AskingInv
<1>6. CASE \/ \E t \in Threads : thread_block_timeout(t) \/ thread_interrupt(t)
           \/ \E t \in Threads, s \in Sems, n \in AcquireCounts :
                 acquire_sem(t, s, n) \/ \E o \in active : switch_sem_interrupted(t, s, n, Id(o))
           \/ \E s \in Sems : \/ \E n \in ReleaseCounts, b \in BOOLEAN : release_sem_etc(s, n, b)
                              \/ release_sem_all(s) \/ delete_sem(s)
                              \/ \E n \in InitialCounts : create_sem(s, n)
           \/ \E i \in Infos : deselect_sem(i) \/ \E s \in Sems : select_sem(i, s)
  <2>1. UNCHANGED threadVars
    BY <1>6 DEF thread_block_timeout, thread_interrupt, acquire_sem, switch_sem_interrupted, release_sem_etc,
                release_sem_all, delete_sem, create_sem, deselect_sem, select_sem
  <2> QED
    BY <1>4, <2>1
<1>7. CASE UNCHANGED vars
  BY <1>4, <1>7 DEF vars
<1> QED
  BY <1>2, <1>3, <1>5, <1>6, <1>7 DEF Next

\* A step that gives the semaphore s no unit and its queue no other head.
LEMMA NotStranded ==
    ASSUME UnitsTypes, NEW s \in Sems, s \in active' => s \in active, queue'[s] = queue[s],
           net_count'[s] <= net_count[s], net_count'[s] \in Int,
           \A t \in Threads : InQueue(queue[s], t) => want'[t] = want[t] /\ (Waits(t)' => Waits(t)), Stranded(s)'
    PROVE  Stranded(s)
<1> DEFINE t == Head(queue[s])
<1>1. queue[s] \in Seq(Threads) /\ queue[s] # <<>> /\ net_count[s] \in Nat /\ want \in [Threads -> Nat]
  BY DEF UnitsTypes, Stranded
<1>2. t \in Threads /\ InQueue(queue[s], t)
  BY <1>1 DEF InQueue
<1>3. Waits(t)' /\ want'[t] <= net_count'[s] /\ s \in active'
  BY DEF Stranded, IsWaiting, thread_is_blocked, Waits
<1>4. Waits(t) /\ want[t] \in Nat /\ want[t] <= net_count'[s] /\ s \in active
  BY <1>1, <1>2, <1>3
<1>5. want[t] <= net_count[s]
  BY <1>1, <1>4
<1> QED
  BY <1>1, <1>4, <1>5 DEF Stranded, IsWaiting, thread_is_blocked, Waits

\* Another semaphore than the one a step runs a loop on.
LEMMA OthersNotStranded ==
    ASSUME UnitsInv, NEW o \in active, NEW r, AfterLoop(o, r), active' = active, NEW s \in Sems, s # o,
           \A u \in Threads : InQueue(queue[s], u) => want'[u] = want[u], Stranded(s)'
    PROVE  Stranded(s)
<1>1. UnitsTypes /\ wait_status \in [Threads -> WaitStatus] /\ "B_OK" \in WaitStatus
  BY DEF UnitsInv, UnitsTypes, WaitStatus
<1>2. queue'[s] = queue[s] /\ net_count'[s] = net_count[s] /\ net_count[s] \in Nat
      /\ wait_status' = thread_unblock_each(wait_status, r.wake, "B_OK")
  BY <1>1 DEF AfterLoop, UnitsTypes
<1>3. \A u \in Threads : Waits(u)' => Waits(u)
  BY <1>1, <1>2, WakeFacts DEF Waits
<1>4. \A t \in Threads : InQueue(queue[s], t) => want'[t] = want[t] /\ (Waits(t)' => Waits(t))
  BY <1>3
<1>5. net_count'[s] <= net_count[s] /\ net_count'[s] \in Int
  BY <1>2
<1> QED
  BY <1>1, <1>2, <1>4, <1>5, NotStranded

\* A step that changes no queue, raises no net_count, and ends at most some waits.
LEMMA QuietNotStranded ==
    ASSUME UnitsInv, NEW s \in Sems, s \in active' => s \in active, queue'[s] = queue[s], want' = want,
           net_count'[s] = net_count[s], \A u \in Threads : Waits(u)' => Waits(u), Stranded(s)'
    PROVE  Stranded(s)
<1>1. UnitsTypes /\ net_count[s] \in Nat
  BY DEF UnitsInv, UnitsTypes
<1>2. net_count'[s] <= net_count[s] /\ net_count'[s] \in Int
  BY <1>1
<1> QED
  BY <1>1, <1>2, NotStranded

LEMMA StrandStep ==
    ASSUME UnitsInv, AskingInv, Next, NEW s \in Sems, ~Stranded(s), Stranded(s)'
    PROVE  ReleasesSome(s)
<1>1. UnitsTypes /\ wait_status \in [Threads -> WaitStatus] /\ {"B_OK", "B_BAD_SEM_ID"} \subseteq WaitStatus
      /\ net_count[s] \in Nat /\ queue[s] \in Seq(Threads)
  BY DEF UnitsInv, UnitsTypes, WaitStatus
<1>2. s \in active' /\ queue'[s] # <<>> /\ want'[Head(queue'[s])] <= net_count'[s]
  BY DEF Stranded
<1>3. ASSUME NEW t \in Threads, switch_sem_release(t) PROVE ReleasesSome(s)
  <2> DEFINE o == toRelease[t][1]
  <2>1. active' = active /\ want' = want
    BY <1>3 DEF switch_sem_release
  <2>2. CASE o \in active /\ toRelease[t] = Id(o) /\ AfterLoop(o, Release(o, 1, FALSE))
    <3>1. CASE o = s
      BY <1>3, <2>2, <3>1 DEF ReleasesSome
    <3>2. CASE o # s
      <4> HIDE DEF o
      <4>1. \A u \in Threads : InQueue(queue[s], u) => want'[u] = want[u]
        BY <2>1
      <4> QED
        BY <2>1, <2>2, <3>2, <4>1, OthersNotStranded
    <3> QED
      BY <3>1, <3>2
  <2>3. CASE UNCHANGED <<count, net_count, queue, wait_status, events>>
    <3>1. \A u \in Threads : Waits(u)' => Waits(u)
      BY <2>3 DEF Waits
    <3> QED
      BY <2>1, <2>3, <3>1, QuietNotStranded
  <2> QED
    BY <1>3, <2>2, <2>3 DEF switch_sem_release
<1>4. ASSUME NEW t \in Threads, switch_sem_return(t) PROVE FALSE
  <2> DEFINE o == obj[t]
             r == Unqueue(o, t)
  <2>1. active' = active /\ want' = [want EXCEPT ![t] = 0] /\ pc[t] = "blocked"
    BY <1>4 DEF switch_sem_return
  <2>2. \A z \in Sems : InQueue(queue[z], t) => z = o
    BY DEF UnitsInv, QueuedInv
  <2>3. \A u \in Threads : u \notin {t} => want'[u] = want[u]
    BY <1>1, <2>1 DEF UnitsTypes
  <2>4. CASE InQueue(queue[o], t) /\ AfterLoop(o, r)
    <3>0. o \in Sems
      BY <2>1 DEF UnitsInv, WaitingInv
    <3>1. o \in active
      BY <2>4, <3>0 DEF UnitsInv, QueuesInv, InQueue
    <3>2. /\ count[o] \in Int /\ net_count[o] \in Nat /\ queue[o] \in Seq(Threads) /\ Distinct(queue[o])
          /\ want \in [Threads -> Nat] /\ net_count[o] = count[o] + Total(want, queue[o])
      BY <3>0, <3>1 DEF UnitsInv, UnitsTypes, QueuesInv, CountedInv
    <3> HIDE DEF o
    <3>3. s = o
      <4>1. s # o => \A u \in Threads : InQueue(queue[s], u) => want'[u] = want[u]
        BY <2>2, <2>3
      <4> HIDE DEF r
      <4> QED
        BY <2>1, <2>4, <3>1, <4>1, OthersNotStranded
    <3>4. Good(r, Dequeue(queue[o], t)) /\ (r.stay # <<>> => want[Head(r.stay)] > r.net)
      BY <2>4, <3>2, UnqueueGood, UnqueueStops
    <3>5. \A u : InQueue(Dequeue(queue[o], t), u) => u # t
      BY <2>4, <3>2, DequeueFacts
    <3>6. r.stay \in Seq(Threads) /\ r.net \in Nat
      <4> HIDE DEF r
      <4> QED
        BY <3>4 DEF Good, LoopStates
    <3>7. queue'[s] = r.stay /\ net_count'[s] = r.net
      BY <1>1, <2>4, <3>3 DEF AfterLoop, UnitsTypes
    <3> HIDE DEF r
    <3> DEFINE h == Head(r.stay)
    <3>8. r.stay # <<>>
      BY <1>2, <3>7
    <3>9. h \in Threads /\ InQueue(r.stay, h)
      <4> DEFINE p == r.stay
      <4>1. p \in Seq(Threads) /\ p # <<>>
        BY <3>6, <3>8
      <4> HIDE DEF p
      <4>2. Head(p) \in Threads /\ InQueue(p, Head(p))
        BY <4>1 DEF InQueue
      <4> QED
        BY <4>2 DEF p
    <3>10. h # t
      BY <3>4, <3>5, <3>9 DEF Good
    <3>11. want'[h] = want[h] /\ want[h] \in Nat /\ want[h] > r.net
      BY <2>3, <3>2, <3>4, <3>8, <3>9, <3>10
    <3>12. want'[h] <= r.net
      BY <1>2, <3>7
    <3> HIDE DEF h
    <3> QED
      BY <3>6, <3>11, <3>12
  <2>5. CASE ~InQueue(queue[o], t) /\ UNCHANGED <<count, net_count, queue, wait_status, events>>
    <3>1. \A u \in Threads : InQueue(queue[s], u) => want'[u] = want[u] /\ (Waits(u)' => Waits(u))
      BY <2>2, <2>3, <2>5 DEF Waits
    <3>2. net_count'[s] <= net_count[s] /\ net_count'[s] \in Int
      BY <1>1, <2>5
    <3> QED
      BY <1>1, <2>1, <2>5, <3>1, <3>2, NotStranded
  <2> QED
    BY <1>4, <2>4, <2>5 DEF switch_sem_return
<1>5. ASSUME NEW t \in Threads, thread_block_timeout(t) \/ thread_interrupt(t) PROVE FALSE
  <2>1. PICK x \in {"B_TIMED_OUT", "B_INTERRUPTED"} :
           /\ wait_status' = thread_unblock_locked(wait_status, t, x)
           /\ UNCHANGED <<semVars, threadVars>>
    BY <1>5 DEF thread_block_timeout, thread_interrupt
  <2>2. \A u \in Threads : Waits(u)' => Waits(u)
    BY <1>1, <2>1 DEF Waits, thread_unblock_locked, thread_is_blocked
  <2>3. active' = active /\ queue' = queue /\ want' = want /\ net_count' = net_count
    BY <2>1 DEF semVars, threadVars
  <2> QED
    BY <2>2, <2>3, QuietNotStranded
<1>6. ASSUME NEW t \in Threads, NEW z \in Sems, NEW n \in AcquireCounts, acquire_sem(t, z, n) PROVE FALSE
  <2>1. n \in Nat /\ net_count' = [net_count EXCEPT ![z] = @ - n] /\ active' = active /\ queue' = queue
        /\ want' = want /\ wait_status' = wait_status
    BY <1>6, SemaphoreAssumption DEF acquire_sem, threadVars
  <2>2. net_count'[s] <= net_count[s] /\ net_count'[s] \in Int
    BY <1>1, <2>1 DEF UnitsTypes
  <2>3. \A u \in Threads : InQueue(queue[s], u) => want'[u] = want[u] /\ (Waits(u)' => Waits(u))
    BY <2>1 DEF Waits
  <2> QED
    BY <1>1, <2>1, <2>2, <2>3, NotStranded
<1>7. ASSUME NEW t \in Threads, NEW z \in Sems, NEW n \in AcquireCounts, NEW other, switch_sem(t, z, n, other)
      PROVE  FALSE
  <2>1. /\ pc[t] = "running" /\ z \in active /\ count[z] - n < 0 /\ active' = active /\ net_count' = net_count
        /\ queue' = [queue EXCEPT ![z] = Append(@, t)] /\ want' = [want EXCEPT ![t] = n]
        /\ wait_status' = [wait_status EXCEPT ![t] = "waiting"]
    BY <1>7 DEF switch_sem, thread_prepare_to_block
  <2>2. ~InQueue(queue[s], t)
    BY <2>1 DEF UnitsInv, QueuedInv
  <2>3. \A u \in Threads : InQueue(queue[s], u) => want'[u] = want[u] /\ (Waits(u)' => Waits(u))
    BY <1>1, <2>1, <2>2 DEF UnitsTypes, Waits
  <2>4. net_count'[s] <= net_count[s] /\ net_count'[s] \in Int
    BY <1>1, <2>1
  <2>5. CASE z # s
    <3>1. queue'[s] = queue[s]
      BY <1>1, <2>1, <2>5 DEF UnitsTypes
    <3> QED
      BY <1>1, <2>1, <2>3, <2>4, <3>1, NotStranded
  <2>6. CASE z = s /\ queue[s] = <<>>
    <3>1. queue'[s] = Append(<<>>, t) /\ Head(Append(<<>>, t)) = t
      BY <1>1, <2>1, <2>6 DEF UnitsTypes
    <3>2. want'[t] = n
      BY <1>1, <2>1 DEF UnitsTypes
    <3>3. net_count[s] = count[s] + Total(want, <<>>) /\ count[s] \in Int /\ want \in [Threads -> Nat]
      BY <2>1, <2>6 DEF UnitsInv, CountedInv, UnitsTypes
    <3>4. net_count[s] = count[s] + 0
      BY <3>3, TotalEmpty
    <3>5. n \in Nat /\ n > net_count[s]
      BY <2>1, <2>6, <3>3, <3>4, SemaphoreAssumption
    <3> QED
      BY <1>1, <1>2, <2>1, <3>1, <3>2, <3>5
  <2>7. CASE z = s /\ queue[s] # <<>>
    <3> DEFINE q == queue[s]
               h == Head(queue[s])
    <3>1. queue'[s] = Append(q, t)
      BY <1>1, <2>1, <2>7 DEF UnitsTypes
    <3>2. Head(Append(q, t)) = h /\ h \in Threads /\ InQueue(q, h)
      BY <1>1, <2>7 DEF InQueue
    <3>3. Head(queue'[s]) = h
      BY <3>1, <3>2
    <3>4. Waits(h)' /\ want'[h] <= net_count'[s]
      BY <3>3 DEF Stranded, IsWaiting, thread_is_blocked, Waits
    <3>5. Waits(h) /\ want[h] <= net_count[s]
      BY <2>1, <2>3, <3>2, <3>4
    <3> QED
      BY <2>1, <2>7, <3>5 DEF Stranded, IsWaiting, thread_is_blocked, Waits
  <2> QED
    BY <2>5, <2>6, <2>7
<1>8. ASSUME NEW t \in Threads, NEW z \in Sems, NEW n \in AcquireCounts, NEW o \in active,
             switch_sem_interrupted(t, z, n, Id(o))
      PROVE  ReleasesSome(s)
  <2>1. CASE o = s
    BY <1>8, <2>1 DEF ReleasesSome
  <2>2. CASE o # s
    <3>1. Id(o)[1] = o
      BY DEF Id
    <3>2. AfterLoop(o, Release(o, 1, FALSE)) /\ active' = active /\ want' = want
      BY <1>8, <3>1 DEF switch_sem_interrupted, threadVars
    <3>3. \A u \in Threads : InQueue(queue[s], u) => want'[u] = want[u]
      BY <3>2
    <3> QED
      BY <2>2, <3>2, <3>3, OthersNotStranded
  <2> QED
    BY <2>1, <2>2
<1>9. ASSUME NEW o \in Sems, NEW n \in ReleaseCounts, NEW b \in BOOLEAN, release_sem_etc(o, n, b)
      PROVE  ReleasesSome(s)
  <2>1. CASE o = s
    BY <1>9, <2>1 DEF ReleasesSome
  <2>2. CASE o # s
    <3>1. o \in active /\ AfterLoop(o, Release(o, n, b)) /\ active' = active /\ want' = want
      BY <1>9 DEF release_sem_etc, threadVars
    <3>2. \A u \in Threads : InQueue(queue[s], u) => want'[u] = want[u]
      BY <3>1
    <3> QED
      BY <2>2, <3>1, <3>2, OthersNotStranded
  <2> QED
    BY <2>1, <2>2
<1>10. ASSUME NEW o \in Sems, release_sem_all(o) PROVE FALSE
  <2> DEFINE n == ReleaseAll(o)
             base == Loop(o, n)
             r == FoldLeft(ReleaseRound, base, queue[o])
  <2>1. o \in active /\ AfterLoop(o, Release(o, n, TRUE)) /\ active' = active /\ want' = want
    BY <1>10 DEF release_sem_all, threadVars
  <2>2. \A u \in Threads : InQueue(queue[s], u) => want'[u] = want[u]
    BY <2>1
  <2>3. o = s
    <3> HIDE DEF n
    <3> QED
      BY <2>1, <2>2, OthersNotStranded
  <2>4. /\ count[o] \in Int /\ net_count[o] \in Nat /\ queue[o] \in Seq(Threads) /\ want \in [Threads -> Nat]
        /\ net_count[o] = count[o] + Total(want, queue[o])
    BY <2>1 DEF UnitsInv, UnitsTypes, CountedInv
  <2>5. n = Total(want, queue[o]) /\ n \in Nat
    <3>1. Total(want, queue[o]) \in Nat
      BY <2>4, TotalNat
    <3> DEFINE x == net_count[o]
               y == count[o]
               v == Total(want, queue[o])
    <3>2. x \in Nat /\ y \in Int /\ v \in Nat /\ x = y + v
      BY <2>4, <3>1
    <3> HIDE DEF x, y, v
    <3>3. x - y = v
      BY <3>2
    <3> QED
      BY <3>1, <3>3 DEF x, y, v, ReleaseAll
  <2>6. \A u \in Threads : InQueue(queue[o], u) => want[u] > 0
    BY <2>4 DEF UnitsInv, QueuedInv, AskingInv
  <2>7. base \in LoopStates /\ base.stay = <<>> /\ base.left = n
    <3> HIDE DEF n
    <3> QED
      BY <2>4, <2>5, LoopStart
  <2>8. r.stay = <<>>
    <3> HIDE DEF base, n
    <3> QED
      BY <2>4, <2>5, <2>6, <2>7, ReleaseLoopEmpties
  <2>9. Release(o, n, TRUE) = r
    BY DEF Release, NobodyWaits
  <2> HIDE DEF r, n
  <2>10. queue'[o] = <<>>
    BY <1>1, <2>1, <2>8, <2>9 DEF AfterLoop, UnitsTypes
  <2> QED
    BY <1>2, <2>3, <2>10
<1>11. ASSUME NEW o \in Sems, delete_sem(o) PROVE FALSE
  <2>1. /\ active' = active \ {o} /\ queue' = [queue EXCEPT ![o] = <<>>] /\ net_count' = net_count /\ want' = want
    BY <1>11 DEF delete_sem, threadVars
  <2>2. \A u \in Threads : wait_status'[u] = IF InQueue(queue[o], u) /\ Waits(u) THEN "B_BAD_SEM_ID"
                                             ELSE wait_status[u]
    BY <1>11, DeleteUnits
  <2>3. \A u \in Threads : Waits(u)' => Waits(u)
    BY <2>2 DEF Waits
  <2>4. o # s /\ s \in active /\ queue'[s] = queue[s]
    BY <1>1, <1>2, <2>1 DEF UnitsTypes
  <2> QED
    BY <2>1, <2>3, <2>4, QuietNotStranded
<1>12. ASSUME NEW o \in Sems, NEW n \in InitialCounts, create_sem(o, n) PROVE FALSE
  <2>1. /\ active' = active \cup {o} /\ queue' = [queue EXCEPT ![o] = <<>>]
        /\ net_count' = [net_count EXCEPT ![o] = n] /\ want' = want /\ wait_status' = wait_status
    BY <1>12 DEF create_sem, threadVars
  <2>2. o # s
    BY <1>1, <1>2, <2>1 DEF UnitsTypes
  <2>3. s \in active /\ queue'[s] = queue[s] /\ net_count'[s] = net_count[s]
    BY <1>1, <1>2, <2>1, <2>2 DEF UnitsTypes
  <2>4. \A u \in Threads : Waits(u)' => Waits(u)
    BY <2>1 DEF Waits
  <2> QED
    BY <2>1, <2>3, <2>4, QuietNotStranded
<1>13. ASSUME NEW i \in Infos, deselect_sem(i) \/ \E z \in Sems : select_sem(i, z) PROVE FALSE
  <2>1. active' = active /\ queue' = queue /\ want' = want /\ net_count' = net_count /\ wait_status' = wait_status
    BY <1>13 DEF deselect_sem, select_sem, semVars, threadVars
  <2>2. \A u \in Threads : Waits(u)' => Waits(u)
    BY <2>1 DEF Waits
  <2> QED
    BY <2>1, <2>2, QuietNotStranded
<1> QED
  BY <1>3, <1>4, <1>5, <1>6, <1>7, <1>8, <1>9, <1>10, <1>11, <1>12, <1>13 DEF Next

\* Only release_sem_etc() with a number of units, or a switch, can leave the first thread of a queue asleep
\* beside the units it waits for: nobody who gives up, starts to wait or acquires does, nor B_RELEASE_ALL.
THEOREM OnlyReleasesStrand == Spec => OnlyReleaseStrands
<1> DEFINE A == \A s \in Sems : ~Stranded(s) /\ Stranded(s)' => ReleasesSome(s)
<1>1. Init => AskingInv
  BY DEF Init, AskingInv
<1>2. UnitsInv /\ AskingInv /\ [Next]_vars => AskingInv'
  BY AskingStep
<1>3. UnitsInv /\ AskingInv /\ [Next]_vars => [A]_vars
  BY StrandStep
<1>4. Spec => []UnitsInv
  BY UnitsInvariance
<1>5. Spec => [][A]_vars
  BY <1>1, <1>2, <1>3, <1>4, PTL DEF Spec
<1> QED
  BY <1>5 DEF OnlyReleaseStrands

=============================================================================
