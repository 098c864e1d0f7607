----------------------------- MODULE PortProofs -----------------------------
(***************************************************************************)
(* Proofs about ports (module Port), for any number of readers, writers    *)
(* and messages, any capacities and any succession of ports in the slot.   *)
(***************************************************************************)
EXTENDS Port, LockLemmas

(***************************************************************************)
(* The inductive invariant.                                                *)
(***************************************************************************)

\* The condition a thread waits at.
ConditionOf(t) == IF t \in Readers THEN "read_condition" ELSE "write_condition"

\* The slot's ports have ids of their own, and the unused slot has no messages.
IdInv ==
    /\ id = -1 => sNextPort <= MaxId /\ messages = <<>>
    /\ id # -1 => sNextPort = id + 1

\* What a thread's local variables say of it.
PlaceOf(t) ==
    /\ pc[t] = "running" <=> portId[t] = -1
    /\ portId[t] < sNextPort
    /\ pc[t] # "running" => (call[t] = "write" <=> t \in Writers)
    /\ pc[t] # "running" => call[t] # "none"
    /\ pc[t] = "get_message" <=> lock = t
    /\ pc[t] = "get_message" => portId[t] = id /\ capacity # 0

PlaceInv == \A t \in Threads : PlaceOf(t)

\* What an entry and the thread it belongs to know of each other.  An entry that has
\* not been notified belongs to the port there is, and that is open.
EntryOf(t) ==
    /\ ~Detached(t) => /\ pc[t] \in {"added", "blocked"}
                       /\ fVariable[t] = ConditionOf(t)
                       /\ portId[t] = id /\ capacity # 0
    /\ ~Detached(t) /\ pc[t] = "added" => fWaitStatus[t] = "STATUS_ADDED"
    /\ ~Detached(t) /\ pc[t] = "blocked" => fWaitStatus[t] = "STATUS_WAITING"
    /\ pc[t] = "blocked" /\ wait_status[t] = "waiting" => ~Detached(t)
    /\ pc[t] = "blocked" /\ wait_status[t] # "waiting" => Detached(t) \/ t \in Impatient

EntryInv == \A t \in Threads : EntryOf(t)

\* The writers whose entry is in the write condition: those who sleep, and those
\* whose wait has timed out.  While there are any, all places are taken or promised.
QueuedWriters == {t \in Writers : fVariable[t] = "write_condition"}

RoomInv == QueuedWriters # {} => write_count + Cardinality(QueuedWriters) <= 0

\* The readers that are on their way to a message.
ComingReaders == {t \in Readers : Coming(t)}

ComingInv ==
    id # -1 /\ (\E t \in Readers : Sleeping(t)) => Cardinality(ComingReaders) >= read_count

\* Readers use no timeouts and are not interrupted.
PatientReaders == Impatient \cap Readers = {}

IInv ==
    /\ TypeOK /\ IdInv /\ PlaceInv
    /\ EntriesInv /\ EntryInv
    /\ MessagesInv /\ RoomInv
    /\ PatientReaders => ComingInv

-----------------------------------------------------------------------------
(***************************************************************************)
(* The condition variables.                                                *)
(***************************************************************************)

Conditions == ConditionTypeOK /\ EntriesInv

\* EntriesInv, as the queue lemmas need it.
LEMMA EntriesFacts ==
    ASSUME Conditions, NEW v \in Variables
    PROVE  /\ fEntries[v] \in Seq(Threads) /\ Distinct(fEntries[v])
           /\ \A t \in Threads : InQueue(fEntries[v], t) <=> fVariable[t] = v
<1>1. fEntries[v] \in Seq(Threads)
  BY DEF Conditions, ConditionTypeOK
<1>2. \A t \in Threads : InQueue(fEntries[v], t) <=> fVariable[t] = v
  BY DEF Conditions, EntriesInv
<1>3. Distinct(fEntries[v])
  <2>1. CASE Threads = {}
    <3>1. DOMAIN fEntries[v] = {}
      <4>1. \A i \in DOMAIN fEntries[v] : fEntries[v][i] \in Threads
        BY <1>1
      <4> QED
        BY <2>1, <4>1
    <3> QED
      BY <3>1 DEF Distinct
  <2>2. CASE Threads # {}
    BY <2>2 DEF Conditions, EntriesInv, Distinct
  <2> QED
    BY <2>1, <2>2
<1> QED
  BY <1>1, <1>2, <1>3

\* What the entries of all variables have to satisfy for EntriesInv.
LEMMA EntriesFrom ==
    ASSUME NEW E, NEW F,
           \A v \in Variables : /\ Distinct(E[v])
                                /\ \A t \in Threads : InQueue(E[v], t) <=> F[t] = v
    PROVE  \A t \in Threads : \A v \in Variables :
              /\ InQueue(E[v], t) <=> F[t] = v
              /\ \A i, j \in DOMAIN E[v] : E[v][i] = E[v][j] => i = j
  BY DEF Distinct

\* NotifyOne() takes the first entry, if there is any.
LEMMA UnnotifiedFirst ==
    ASSUME Conditions, NEW v \in Variables, NEW w \in Variables
    PROVE  Unnotified(fEntries[w], First(v)) =
              IF w = v /\ fEntries[v] # <<>> THEN Tail(fEntries[v]) ELSE fEntries[w]
<1> DEFINE s == fEntries[w]
           q == fEntries[v]
<1>1. /\ s \in Seq(Threads) /\ q \in Seq(Threads) /\ Distinct(s) /\ Distinct(q)
      /\ \A t \in Threads : InQueue(s, t) <=> fVariable[t] = w
      /\ \A t \in Threads : InQueue(q, t) <=> fVariable[t] = v
  BY EntriesFacts
<1>2. /\ First(v) = IF q = <<>> THEN {} ELSE {Head(q)}
      /\ Unnotified(s, First(v)) =
            IF \A i \in DOMAIN s : s[i] \in First(v) THEN <<>>
            ELSE IF Head(s) \in First(v) THEN Tail(s) ELSE s
  BY DEF First, Unnotified
<1>3. s = q \/ w # v
  OBVIOUS
<1> HIDE DEF s, q
<1>4. CASE q = <<>>
  <2>1. First(v) = {}
    BY <1>2, <1>4
  <2>2. ASSUME \A i \in DOMAIN s : s[i] \in First(v) PROVE s = <<>>
    <3>1. ~(1 \in DOMAIN s)
      BY <2>1, <2>2
    <3>2. Len(s) \in Nat /\ DOMAIN s = 1 .. Len(s)
      BY <1>1
    <3>3. Len(s) = 0
      BY <3>1, <3>2
    <3> QED
      BY <1>1, <3>3, EmptySeq
  <2> QED
    BY <1>2, <1>4, <2>1, <2>2 DEF s, q
<1>5. CASE q # <<>> /\ w # v
  <2>1. Head(q) \in Threads /\ fVariable[Head(q)] = v
    BY <1>1, <1>5, TailFacts
  <2>2. ~InQueue(s, Head(q))
    BY <1>1, <1>5, <2>1
  <2>3. \A i \in DOMAIN s : s[i] \notin First(v)
    BY <1>2, <1>5, <2>2 DEF InQueue
  <2>4. CASE s = <<>>
    BY <1>2, <1>5, <2>4 DEF s
  <2>5. CASE s # <<>>
    <3>1. 1 \in DOMAIN s /\ Head(s) = s[1]
      BY <1>1, <2>5
    <3> QED
      BY <1>2, <1>5, <2>3, <3>1 DEF s
  <2> QED
    BY <2>4, <2>5
<1>6. CASE q # <<>> /\ w = v
  <2>1. s = q /\ First(v) = {s[1]} /\ Head(s) = s[1] /\ 1 \in DOMAIN s
    BY <1>1, <1>2, <1>6 DEF s, q
  <2>2. CASE \A i \in DOMAIN s : s[i] \in First(v)
    <3>1. \A i \in DOMAIN s : i = 1
      BY <1>1, <2>1, <2>2 DEF Distinct
    <3>2. Len(s) = 1
      <4>1. Len(s) \in Nat /\ DOMAIN s = 1 .. Len(s)
        BY <1>1
      <4>2. Len(s) \in DOMAIN s
        BY <2>1, <4>1
      <4> QED
        BY <3>1, <4>2
    <3>3. Tail(s) = <<>>
      <4>1. Tail(s) \in Seq(Threads) /\ Len(Tail(s)) = 0
        BY <1>1, <1>6, <2>1, <3>2
      <4> QED
        BY <4>1, EmptySeq
    <3> QED
      BY <1>2, <1>6, <2>1, <2>2, <3>3 DEF s, q
  <2>3. CASE ~\A i \in DOMAIN s : s[i] \in First(v)
    BY <1>2, <1>6, <2>1, <2>3 DEF s, q
  <2> QED
    BY <2>2, <2>3
<1> QED
  BY <1>4, <1>5, <1>6

\* The notified thread x (NoThread: nobody was there) is told the result r.
Told(x, v, r) ==
    /\ IF x = NoThread THEN \A t \in Threads : fVariable[t] # v
                       ELSE x \in Threads /\ fVariable[x] = v
    /\ fVariable' = [t \in Threads |-> IF t = x THEN NoVariable ELSE fVariable[t]]
    /\ fWaitStatus' = [t \in Threads |-> IF t = x THEN r ELSE fWaitStatus[t]]
    /\ wait_status' = [t \in Threads |->
          IF t = x /\ fWaitStatus[t] = "STATUS_WAITING" /\ wait_status[t] = "waiting"
          THEN r ELSE wait_status[t]]

\* ConditionVariable::NotifyOne()
LEMMA NotifyFirst ==
    ASSUME Conditions, NEW v \in Variables, NEW r \in WaitStatus, Notify(First(v), r)
    PROVE  Conditions' /\ \E x \in Threads \cup {NoThread} : Told(x, v, r)
<1>1. /\ fEntries[v] \in Seq(Threads) /\ Distinct(fEntries[v])
      /\ \A t \in Threads : InQueue(fEntries[v], t) <=> fVariable[t] = v
  BY EntriesFacts
<1>2. /\ fVariable \in [Threads -> Variables \cup {NoVariable}]
      /\ fWaitStatus \in [Threads -> EntryStatus] /\ wait_status \in [Threads -> WaitStatus]
  BY DEF Conditions, ConditionTypeOK
<1>3. PICK x \in Threads \cup {NoThread} :
         /\ First(v) = IF x = NoThread THEN {} ELSE {x}
         /\ x = NoThread <=> fEntries[v] = <<>>
         /\ x # NoThread => x = Head(fEntries[v]) /\ fVariable[x] = v /\ x \in Threads
  <2>1. CASE fEntries[v] = <<>>
    BY <2>1 DEF First
  <2>2. CASE fEntries[v] # <<>>
    <3>1. Head(fEntries[v]) \in Threads /\ InQueue(fEntries[v], Head(fEntries[v]))
      BY <1>1, <2>2, TailFacts
    <3> QED
      BY <1>1, <2>2, <3>1, PortAssumption DEF First
  <2> QED
    BY <2>1, <2>2
<1>4. fEntries' = [w \in Variables |-> IF w = v /\ fEntries[v] # <<>> THEN Tail(fEntries[v])
                                       ELSE fEntries[w]]
  <2>1. fEntries' = [w \in Variables |-> Unnotified(fEntries[w], First(v))]
    BY DEF Notify
  <2> QED
    BY <2>1, UnnotifiedFirst
<1>5. Told(x, v, r)
  <2>1. fVariable' = [t \in Threads |-> IF t = x THEN NoVariable ELSE fVariable[t]]
    BY <1>3, PortAssumption DEF Notify
  <2>2. fWaitStatus' = [t \in Threads |-> IF t = x THEN r ELSE fWaitStatus[t]]
    BY <1>3, PortAssumption DEF Notify
  <2>3. wait_status' = [t \in Threads |->
          IF t = x /\ fWaitStatus[t] = "STATUS_WAITING" /\ wait_status[t] = "waiting"
          THEN r ELSE wait_status[t]]
    <3>1. wait_status' = [t \in Threads |->
             IF t \in {u \in First(v) : fWaitStatus[u] = "STATUS_WAITING"}
             THEN (IF wait_status[t] = "waiting" THEN [wait_status EXCEPT ![t] = r]
                                                 ELSE wait_status)[t]
             ELSE wait_status[t]]
      BY <1>2 DEF Notify, thread_unblock_each, thread_unblock_locked, thread_is_blocked
    <3>2. ASSUME NEW t \in Threads
          PROVE  (IF t \in {u \in First(v) : fWaitStatus[u] = "STATUS_WAITING"}
                  THEN (IF wait_status[t] = "waiting" THEN [wait_status EXCEPT ![t] = r]
                                                      ELSE wait_status)[t]
                  ELSE wait_status[t])
                 = IF t = x /\ fWaitStatus[t] = "STATUS_WAITING" /\ wait_status[t] = "waiting"
                   THEN r ELSE wait_status[t]
      BY <1>2, <1>3, PortAssumption
    <3> QED
      BY <3>1, <3>2
  <2>4. IF x = NoThread THEN \A t \in Threads : fVariable[t] # v
                        ELSE x \in Threads /\ fVariable[x] = v
    <3>1. CASE x = NoThread
      <4>1. DOMAIN fEntries[v] = {}
        BY <1>3, <3>1
      <4> QED
        BY <1>1, <3>1, <4>1 DEF InQueue
    <3> QED
      BY <1>3, <3>1
  <2> QED
    BY <2>1, <2>2, <2>3, <2>4 DEF Told
<1>6. ASSUME NEW w \in Variables
      PROVE  /\ fEntries'[w] \in Seq(Threads) /\ Distinct(fEntries'[w])
             /\ \A t \in Threads : InQueue(fEntries'[w], t) <=> fVariable'[t] = w
  <2>0. \A t \in Threads : fVariable'[t] = IF t = x THEN NoVariable ELSE fVariable[t]
    BY <1>5 DEF Told
  <2>1. CASE w = v /\ fEntries[v] # <<>>
    <3>1. /\ fEntries'[w] = Tail(fEntries[v]) /\ Tail(fEntries[v]) \in Seq(Threads)
          /\ Distinct(Tail(fEntries[v]))
          /\ \A t : InQueue(Tail(fEntries[v]), t) <=> t # x /\ InQueue(fEntries[v], t)
      BY <1>1, <1>3, <1>4, <2>1, TailFacts
    <3> QED
      BY <1>1, <2>0, <2>1, <3>1, ConditionVariableAssumption
  <2>2. CASE ~(w = v /\ fEntries[v] # <<>>)
    <3>1. /\ fEntries'[w] = fEntries[w] /\ fEntries[w] \in Seq(Threads) /\ Distinct(fEntries[w])
          /\ \A t \in Threads : InQueue(fEntries[w], t) <=> fVariable[t] = w
      BY <1>4, <2>2, EntriesFacts
    <3>2. \A t \in Threads : t = x => fVariable[t] # w
      BY <1>3, <2>2, PortAssumption
    <3> QED
      BY <2>0, <3>1, <3>2, ConditionVariableAssumption
  <2> QED
    BY <2>1, <2>2
<1>7. ConditionTypeOK'
  <2>1. fEntries' \in [Variables -> Seq(Threads)]
    BY <1>4, <1>6
  <2>2. fVariable' \in [Threads -> Variables \cup {NoVariable}]
    BY <1>2, <1>5 DEF Told
  <2>3. fWaitStatus' \in [Threads -> EntryStatus] /\ wait_status' \in [Threads -> WaitStatus]
    BY <1>2, <1>5 DEF Told, EntryStatus
  <2> QED
    BY <2>1, <2>2, <2>3 DEF ConditionTypeOK
<1>8. EntriesInv'
  BY <1>6, EntriesFrom DEF EntriesInv
<1> QED
  BY <1>5, <1>7, <1>8 DEF Conditions

\* ConditionVariable::NotifyAll() of both conditions, for a port that goes away.
LEMMA NotifyAll ==
    ASSUME Conditions, Notify(Woken, "B_BAD_PORT_ID")
    PROVE  /\ Conditions'
           /\ \A t \in Threads :
                 /\ fVariable'[t] = NoVariable
                 /\ ~(wait_status'[t] = "waiting" /\ fWaitStatus[t] = "STATUS_WAITING"
                        /\ fVariable[t] # NoVariable)
                 /\ fVariable[t] = NoVariable => wait_status'[t] = wait_status[t]
<1>1. \A v \in Variables :
         /\ fEntries[v] \in Seq(Threads) /\ Distinct(fEntries[v])
         /\ \A t \in Threads : InQueue(fEntries[v], t) <=> fVariable[t] = v
  BY EntriesFacts
<1>2. /\ fVariable \in [Threads -> Variables \cup {NoVariable}]
      /\ fWaitStatus \in [Threads -> EntryStatus] /\ wait_status \in [Threads -> WaitStatus]
  BY DEF Conditions, ConditionTypeOK
<1>3. \A t \in Threads : t \in Woken <=> fVariable[t] # NoVariable
  <2>1. \A t \in Threads : t \in Woken <=> \E v \in Variables : InQueue(fEntries[v], t)
    BY PortAssumption DEF Woken, All, InQueue
  <2> QED
    BY <1>1, <1>2, <2>1, ConditionVariableAssumption
<1>4. \A v \in Variables : \A i \in DOMAIN fEntries[v] : fEntries[v][i] \in Woken
  BY PortAssumption DEF Woken, All
<1>5. fEntries' = [v \in Variables |-> <<>>]
  BY <1>4 DEF Notify, Unnotified
<1>6. fVariable' = [t \in Threads |-> NoVariable]
  BY <1>2, <1>3 DEF Notify
<1>7. fWaitStatus' \in [Threads -> EntryStatus]
  BY <1>2 DEF Notify, EntryStatus, WaitStatus
<1>8. wait_status' \in [Threads -> WaitStatus]
  BY <1>2, UnblockEachType DEF Notify, WaitStatus
<1>9. ASSUME NEW t \in Threads
      PROVE  /\ ~(wait_status'[t] = "waiting" /\ fWaitStatus[t] = "STATUS_WAITING"
                     /\ fVariable[t] # NoVariable)
             /\ fVariable[t] = NoVariable => wait_status'[t] = wait_status[t]
  <2>1. wait_status'[t] =
           IF t \in {u \in Woken : fWaitStatus[u] = "STATUS_WAITING"}
           THEN (IF wait_status[t] = "waiting" THEN [wait_status EXCEPT ![t] = "B_BAD_PORT_ID"]
                                               ELSE wait_status)[t]
           ELSE wait_status[t]
    BY <1>2 DEF Notify, thread_unblock_each, thread_unblock_locked, thread_is_blocked
  <2> QED
    BY <1>2, <1>3, <2>1
<1>10. EntriesInv'
  <2>1. \A v \in Variables : \A t \in Threads : ~InQueue(fEntries'[v], t) /\ fVariable'[t] # v
    BY <1>5, <1>6, ConditionVariableAssumption DEF InQueue
  <2>2. \A v \in Variables : DOMAIN fEntries'[v] = {}
    BY <1>5
  <2> QED
    BY <2>1, <2>2 DEF EntriesInv
<1>11. ConditionTypeOK'
  <2>1. fEntries' \in [Variables -> Seq(Threads)] /\ fVariable' \in [Threads -> Variables \cup {NoVariable}]
    BY <1>5, <1>6
  <2> QED
    BY <1>7, <1>8, <2>1 DEF ConditionTypeOK
<1> QED
  BY <1>6, <1>9, <1>10, <1>11 DEF Conditions

\* ConditionVariable::Add()
LEMMA AddEntry ==
    ASSUME Conditions, NEW t \in Threads, NEW v \in Variables, Detached(t), Add(t, v)
    PROVE  /\ Conditions'
           /\ fVariable'[t] = v /\ fWaitStatus'[t] = "STATUS_ADDED"
           /\ \A u \in Threads : u # t => /\ fVariable'[u] = fVariable[u]
                                          /\ fWaitStatus'[u] = fWaitStatus[u]
           /\ \A u \in Threads : wait_status'[u] = wait_status[u]
<1>1. /\ fEntries \in [Variables -> Seq(Threads)]
      /\ fVariable \in [Threads -> Variables \cup {NoVariable}]
      /\ fWaitStatus \in [Threads -> EntryStatus] /\ wait_status \in [Threads -> WaitStatus]
  BY DEF Conditions, ConditionTypeOK
<1>2. /\ fVariable'[t] = v /\ fWaitStatus'[t] = "STATUS_ADDED"
      /\ \A u \in Threads : u # t => /\ fVariable'[u] = fVariable[u]
                                     /\ fWaitStatus'[u] = fWaitStatus[u]
      /\ wait_status' = wait_status
  BY <1>1 DEF Add
<1>3. ASSUME NEW w \in Variables
      PROVE  /\ fEntries'[w] \in Seq(Threads) /\ Distinct(fEntries'[w])
             /\ \A u \in Threads : InQueue(fEntries'[w], u) <=> fVariable'[u] = w
  <2>1. /\ fEntries[w] \in Seq(Threads) /\ Distinct(fEntries[w])
        /\ \A u \in Threads : InQueue(fEntries[w], u) <=> fVariable[u] = w
    BY EntriesFacts
  <2>2. fVariable[t] = NoVariable /\ NoVariable # w
    BY ConditionVariableAssumption DEF Detached
  <2>3. CASE w = v
    <3>1. fEntries'[w] = Append(fEntries[w], t)
      BY <1>1, <2>3 DEF Add
    <3>2. /\ \A u : InQueue(Append(fEntries[w], t), u) <=> u = t \/ InQueue(fEntries[w], u)
          /\ Distinct(fEntries[w]) /\ ~InQueue(fEntries[w], t) => Distinct(Append(fEntries[w], t))
      BY <2>1, AppendFacts
    <3>3. Append(fEntries[w], t) \in Seq(Threads)
      BY <2>1
    <3>4. \A u \in Threads : InQueue(fEntries'[w], u) <=> fVariable'[u] = w
      BY <1>2, <2>1, <2>3, <3>1, <3>2
    <3> QED
      BY <2>1, <2>2, <3>1, <3>2, <3>3, <3>4
  <2>4. CASE w # v
    <3>1. fEntries'[w] = fEntries[w]
      BY <1>1, <2>4 DEF Add
    <3> QED
      BY <1>2, <2>1, <2>2, <2>4, <3>1
  <2> QED
    BY <2>3, <2>4
<1>4. ConditionTypeOK'
  <2>1. fEntries' \in [Variables -> Seq(Threads)]
    BY <1>1, <1>3 DEF Add
  <2>2. fVariable' \in [Threads -> Variables \cup {NoVariable}]
    BY <1>1 DEF Add
  <2>3. fWaitStatus' \in [Threads -> EntryStatus] /\ wait_status' \in [Threads -> WaitStatus]
    BY <1>1 DEF Add, EntryStatus
  <2> QED
    BY <2>1, <2>2, <2>3 DEF ConditionTypeOK
<1>5. EntriesInv'
  BY <1>3, EntriesFrom DEF EntriesInv
<1> QED
  BY <1>2, <1>4, <1>5 DEF Conditions

\* ConditionVariableEntry::Wait() up to the wait, and a wait that times out.
LEMMA StatusOnly ==
    ASSUME Conditions, UNCHANGED <<fEntries, fVariable>>,
           fWaitStatus' \in [Threads -> EntryStatus], wait_status' \in [Threads -> WaitStatus]
    PROVE  Conditions'
<1>1. ConditionTypeOK'
  BY DEF Conditions, ConditionTypeOK
<1>2. EntriesInv'
  BY DEF Conditions, EntriesInv, InQueue
<1> QED
  BY <1>1, <1>2 DEF Conditions

\* ConditionVariableEntry::Wait() after the wait.
LEMMA EndWait ==
    ASSUME Conditions, NEW t \in Threads, WaitEnds(t)
    PROVE  /\ Conditions'
           /\ fVariable'[t] = NoVariable /\ wait_status[t] # "waiting"
           /\ \A u \in Threads : u # t => /\ fVariable'[u] = fVariable[u]
                                          /\ fWaitStatus'[u] = fWaitStatus[u]
                                          /\ wait_status'[u] = wait_status[u]
<1>1. /\ fEntries \in [Variables -> Seq(Threads)]
      /\ fVariable \in [Threads -> Variables \cup {NoVariable}]
      /\ fWaitStatus \in [Threads -> EntryStatus] /\ wait_status \in [Threads -> WaitStatus]
  BY DEF Conditions, ConditionTypeOK
<1>2. /\ fVariable'[t] = NoVariable /\ wait_status[t] # "waiting"
      /\ \A u \in Threads : u # t => /\ fVariable'[u] = fVariable[u]
                                     /\ fWaitStatus'[u] = fWaitStatus[u]
                                     /\ wait_status'[u] = wait_status[u]
  BY <1>1 DEF WaitEnds, thread_is_blocked
<1>3. ASSUME NEW w \in Variables
      PROVE  /\ fEntries'[w] \in Seq(Threads) /\ Distinct(fEntries'[w])
             /\ \A u \in Threads : InQueue(fEntries'[w], u) <=> fVariable'[u] = w
  <2>1. /\ fEntries[w] \in Seq(Threads) /\ Distinct(fEntries[w])
        /\ \A u \in Threads : InQueue(fEntries[w], u) <=> fVariable[u] = w
    BY EntriesFacts
  <2>3. CASE w = fVariable[t]
    <3>0. ~Detached(t)
      BY <2>3, ConditionVariableAssumption DEF Detached
    <3>1. fEntries'[w] = Dequeue(fEntries[w], t)
      BY <1>1, <2>3, <3>0 DEF WaitEnds
    <3>2. InQueue(fEntries[w], t)
      BY <2>1, <2>3
    <3>3. /\ Dequeue(fEntries[w], t) \in Seq(Threads) /\ Distinct(Dequeue(fEntries[w], t))
          /\ \A u : InQueue(Dequeue(fEntries[w], t), u) <=> u # t /\ InQueue(fEntries[w], u)
      BY <2>1, <3>2, DequeueType, DequeueFacts
    <3>4. \A u \in Threads : InQueue(fEntries'[w], u) <=> fVariable'[u] = w
      BY <1>2, <2>1, <2>3, <3>1, <3>3, ConditionVariableAssumption
    <3> QED
      BY <3>1, <3>3, <3>4
  <2>4. CASE w # fVariable[t]
    <3>1. fEntries'[w] = fEntries[w]
      BY <1>1, <2>4 DEF WaitEnds
    <3> QED
      BY <1>2, <2>1, <2>4, <3>1, ConditionVariableAssumption
  <2> QED
    BY <2>3, <2>4
<1>4. ConditionTypeOK'
  <2>0. fEntries' = IF Detached(t) THEN fEntries
                    ELSE [fEntries EXCEPT ![fVariable[t]] = Dequeue(@, t)]
    BY DEF WaitEnds
  <2>1. fEntries' \in [Variables -> Seq(Threads)]
    BY <1>1, <1>3, <2>0
  <2>2. fVariable' \in [Threads -> Variables \cup {NoVariable}]
    BY <1>1 DEF WaitEnds
  <2>3. fWaitStatus' \in [Threads -> EntryStatus] /\ wait_status' \in [Threads -> WaitStatus]
    BY <1>1 DEF WaitEnds, EntryStatus, WaitStatus
  <2> QED
    BY <2>1, <2>2, <2>3 DEF ConditionTypeOK
<1>5. EntriesInv'
  BY <1>3, EntriesFrom DEF EntriesInv
<1> QED
  BY <1>2, <1>4, <1>5 DEF Conditions

-----------------------------------------------------------------------------
(***************************************************************************)
(* The local variables of the threads, and the sets that are counted.      *)
(***************************************************************************)
PCs == {"running", "added", "blocked", "relock", "get_message"}
Calls == ReadCalls \cup {"write", "none"}

\* Only t's local variables change.
OthersKeep(t) ==
    \A u \in Threads : u # t => /\ pc'[u] = pc[u] /\ call'[u] = call[u]
                                /\ portId'[u] = portId[u] /\ status'[u] = status[u]

ThreadTypes ==
    /\ pc \in [Threads -> PCs] /\ call \in [Threads -> Calls]
    /\ portId \in [Threads -> -1 .. MaxId] /\ status \in [Threads -> EntryStatus]

LEMMA TypeParts ==
    ASSUME TypeOK
    PROVE  /\ ThreadTypes /\ ConditionTypeOK
           /\ id \in -1 .. MaxId /\ sNextPort \in 0 .. MaxId + 1
           /\ id \in Int /\ sNextPort \in Int /\ MaxId \in Nat
           /\ capacity \in Capacities \cup {0} /\ capacity \in Nat
           /\ read_count \in Nat /\ write_count \in Int
           /\ messages \in Seq(0 .. MaxId) /\ lock \in Writers \cup {NoThread}
<1>1. ThreadTypes
  BY DEF TypeOK, ThreadTypes, PCs, Calls
<1>2. capacity \in Nat
  BY PortAssumption DEF TypeOK
<1>3. id \in Int /\ sNextPort \in Int /\ MaxId \in Nat
  BY PortAssumption DEF TypeOK
<1> QED
  BY <1>1, <1>2, <1>3 DEF TypeOK

LEMMA CallEffect ==
    ASSUME ThreadTypes, NEW t \in Threads, NEW c \in Calls, NEW p \in -1 .. MaxId, NEW n \in PCs,
           InCall(t, c, p, n)
    PROVE  /\ ThreadTypes' /\ OthersKeep(t)
           /\ pc'[t] = n /\ call'[t] = c /\ portId'[t] = p /\ status'[t] = "B_OK"
<1>1. pc' \in [Threads -> PCs] /\ pc'[t] = n /\ \A u \in Threads : u # t => pc'[u] = pc[u]
  BY DEF ThreadTypes, InCall
<1>2. call' \in [Threads -> Calls] /\ call'[t] = c /\ \A u \in Threads : u # t => call'[u] = call[u]
  BY DEF ThreadTypes, InCall
<1>3. /\ portId' \in [Threads -> -1 .. MaxId] /\ portId'[t] = p
      /\ \A u \in Threads : u # t => portId'[u] = portId[u]
  BY DEF ThreadTypes, InCall
<1>4. /\ status' \in [Threads -> EntryStatus] /\ status'[t] = "B_OK"
      /\ \A u \in Threads : u # t => status'[u] = status[u]
  BY DEF ThreadTypes, InCall, EntryStatus, WaitStatus
<1> QED
  BY <1>1, <1>2, <1>3, <1>4 DEF ThreadTypes, OthersKeep

LEMMA ReturnEffect ==
    ASSUME ThreadTypes, NEW t \in Threads, Return(t)
    PROVE  /\ ThreadTypes' /\ OthersKeep(t)
           /\ pc'[t] = "running" /\ call'[t] = "none" /\ portId'[t] = -1 /\ status'[t] = "B_OK"
<1>1. "none" \in Calls /\ -1 \in -1 .. MaxId /\ "running" \in PCs
  BY PortAssumption DEF Calls, PCs
<1>2. InCall(t, "none", -1, "running")
  BY DEF Return
<1> QED
  BY <1>1, <1>2, CallEffect

\* The writers that have a place in the port's queue, or have asked for one.
Users == {t \in Writers : portId[t] = id /\ pc[t] # "running"}

\* A set of writers or readers, as one thread joins or leaves it.
LEMMA CountOne ==
    ASSUME NEW S \in SUBSET Threads, NEW R \in SUBSET Threads, NEW x \in Threads,
           \A u \in Threads : u # x => (u \in R <=> u \in S)
    PROVE  /\ Cardinality(S) \in Nat /\ Cardinality(R) \in Nat
           /\ Cardinality(R) = Cardinality(S) + (IF x \in R THEN 1 ELSE 0)
                                              - (IF x \in S THEN 1 ELSE 0)
<1>1. IsFiniteSet(Threads)
  BY PortAssumption
<1>2. IsFiniteSet(S) /\ IsFiniteSet(R)
  BY <1>1, FS_Subset
<1>3. Cardinality(S) \in Nat /\ Cardinality(R) \in Nat
  BY <1>2, FS_CardinalityType
<1> QED
  BY <1>1, <1>3, CardOne

LEMMA UsersAfter ==
    ASSUME NEW t \in Threads, OthersKeep(t), id' = id
    PROVE  /\ Cardinality(Users) \in Nat /\ Cardinality(Users') \in Nat
           /\ Cardinality(Users') = Cardinality(Users) + (IF t \in Users' THEN 1 ELSE 0)
                                                       - (IF t \in Users THEN 1 ELSE 0)
<1>1. Users \in SUBSET Threads /\ Users' \in SUBSET Threads
  BY PortAssumption DEF Users
<1>2. \A u \in Threads : u # t => (u \in Users' <=> u \in Users)
  BY DEF Users, OthersKeep
<1> QED
  BY <1>1, <1>2, CountOne

LEMMA QueuedAfter ==
    ASSUME NEW t \in Threads, \A u \in Threads : u # t => fVariable'[u] = fVariable[u]
    PROVE  /\ Cardinality(QueuedWriters) \in Nat /\ Cardinality(QueuedWriters') \in Nat
           /\ Cardinality(QueuedWriters') =
                 Cardinality(QueuedWriters) + (IF t \in QueuedWriters' THEN 1 ELSE 0)
                                            - (IF t \in QueuedWriters THEN 1 ELSE 0)
<1>1. QueuedWriters \in SUBSET Threads /\ QueuedWriters' \in SUBSET Threads
  BY PortAssumption DEF QueuedWriters
<1>2. \A u \in Threads : u # t => (u \in QueuedWriters' <=> u \in QueuedWriters)
  BY PortAssumption DEF QueuedWriters
<1> QED
  BY <1>1, <1>2, CountOne

\* A place becomes free, and a writer that waits is told so.
LEMMA RoomTold ==
    ASSUME NEW x \in Threads \cup {NoThread}, NEW r, Told(x, "write_condition", r),
           RoomInv, EntryInv, write_count \in Int, write_count' = write_count + 1
    PROVE  RoomInv'
<1>1. CASE x = NoThread
  <2>1. QueuedWriters' = {}
    <3>1. \A t \in Threads : fVariable'[t] = fVariable[t] /\ fVariable[t] # "write_condition"
      BY <1>1, PortAssumption DEF Told
    <3> QED
      BY <3>1, PortAssumption DEF QueuedWriters
  <2> QED
    BY <2>1 DEF RoomInv
<1>2. CASE x \in Threads
  <2>1. fVariable[x] = "write_condition" /\ fVariable'[x] = NoVariable
    BY <1>2, PortAssumption DEF Told
  <2>2. x \in Writers
    <3>1. ~Detached(x)
      BY <2>1, PortAssumption, ConditionVariableAssumption DEF Detached
    <3>2. ConditionOf(x) = "write_condition"
      BY <1>2, <2>1, <3>1 DEF EntryInv, EntryOf
    <3> QED
      BY <1>2, <3>2, PortAssumption DEF ConditionOf
  <2>3. x \in QueuedWriters /\ x \notin QueuedWriters'
    BY <2>1, <2>2, PortAssumption, ConditionVariableAssumption DEF QueuedWriters
  <2>4. \A u \in Threads : u # x => fVariable'[u] = fVariable[u]
    BY DEF Told
  <2>5. /\ Cardinality(QueuedWriters) \in Nat /\ Cardinality(QueuedWriters') \in Nat
        /\ Cardinality(QueuedWriters') = Cardinality(QueuedWriters) - 1
    BY <1>2, <2>3, <2>4, QueuedAfter
  <2>6. write_count + Cardinality(QueuedWriters) <= 0
    BY <2>3 DEF RoomInv
  <2>7. write_count' + Cardinality(QueuedWriters)' <= 0
    BY <2>5, <2>6
  <2> QED
    BY <2>7 DEF RoomInv
<1> QED
  BY <1>1, <1>2

\* Neither the places nor those who wait for one change.
LEMMA RoomSame ==
    ASSUME RoomInv, write_count' = write_count,
           \A u \in Writers : fVariable'[u] = fVariable[u]
    PROVE  RoomInv'
<1>1. QueuedWriters' = QueuedWriters
  BY DEF QueuedWriters
<1> QED
  BY <1>1 DEF RoomInv

-----------------------------------------------------------------------------
(***************************************************************************)
(* What the ways in which calls begin, wait and end do to the invariant.   *)
(***************************************************************************)

\* A call ends.
LEMMA PlaceReturned ==
    ASSUME ThreadTypes, PlaceInv, NEW t \in Threads, Return(t), sNextPort \in Nat,
           id' = id, sNextPort' = sNextPort, capacity' = capacity,
           \A u \in Threads : lock' = u <=> u # t /\ lock = u
    PROVE  PlaceInv'
<1>1. /\ OthersKeep(t)
      /\ pc'[t] = "running" /\ call'[t] = "none" /\ portId'[t] = -1
  BY ReturnEffect
<1>2. ASSUME NEW u \in Threads PROVE PlaceOf(u)'
  <2>1. PlaceOf(u)
    BY DEF PlaceInv
  <2>2. CASE u = t
    BY <1>1, <2>2 DEF PlaceOf
  <2>3. CASE u # t
    BY <1>1, <2>1, <2>3 DEF PlaceOf, OthersKeep
  <2> QED
    BY <2>2, <2>3
<1> QED
  BY <1>2 DEF PlaceInv

\* The thread that is told can be any but the one that runs.
LEMMA ToldThread ==
    ASSUME EntryInv, NEW v \in Variables, NEW r, NEW x \in Threads, Told(x, v, r)
    PROVE  /\ ~Detached(x) /\ fVariable'[x] = NoVariable
           /\ pc[x] \in {"added", "blocked"} /\ portId[x] = id /\ v = ConditionOf(x)
           /\ pc[x] = "added" => fWaitStatus[x] = "STATUS_ADDED"
           /\ pc[x] = "blocked" => fWaitStatus[x] = "STATUS_WAITING"
           /\ fWaitStatus'[x] = r
           /\ wait_status'[x] = IF fWaitStatus[x] = "STATUS_WAITING" /\ wait_status[x] = "waiting"
                                THEN r ELSE wait_status[x]
<1>1. x # NoThread
  BY PortAssumption
<1>2. fVariable[x] = v /\ fVariable'[x] = NoVariable
  BY <1>1 DEF Told
<1>3. ~Detached(x)
  BY <1>2, ConditionVariableAssumption DEF Detached
<1>4. EntryOf(x)
  BY DEF EntryInv
<1>5. /\ fWaitStatus'[x] = r
      /\ wait_status'[x] = IF fWaitStatus[x] = "STATUS_WAITING" /\ wait_status[x] = "waiting"
                           THEN r ELSE wait_status[x]
  BY DEF Told
<1> QED
  BY <1>2, <1>3, <1>4, <1>5 DEF EntryOf

\* A call ends that tells a thread.
LEMMA EntriesTold ==
    ASSUME EntryInv, NEW v \in Variables, NEW x \in Threads \cup {NoThread}, Told(x, v, "B_OK"),
           NEW t \in Threads, Detached(t), OthersKeep(t), pc'[t] = "running",
           id' = id, capacity' = capacity
    PROVE  EntryInv'
<1>1. ASSUME NEW u \in Threads PROVE EntryOf(u)'
  <2>0. EntryOf(u)
    BY DEF EntryInv
  <2>1. CASE u = x
    <3>1. /\ ~Detached(u) /\ fVariable'[u] = NoVariable
          /\ pc[u] = "blocked" => fWaitStatus[u] = "STATUS_WAITING"
          /\ wait_status'[u] = IF fWaitStatus[u] = "STATUS_WAITING" /\ wait_status[u] = "waiting"
                               THEN "B_OK" ELSE wait_status[u]
      BY <2>1, ToldThread
    <3>2. u # t /\ pc'[u] = pc[u]
      BY <3>1 DEF OthersKeep
    <3>3. Detached(u)'
      BY <3>1 DEF Detached
    <3>4. ~(pc'[u] = "blocked" /\ wait_status'[u] = "waiting")
      BY <3>1, <3>2
    <3> QED
      BY <3>3, <3>4 DEF EntryOf
  <2>2. CASE u # x /\ u = t
    <3>1. fVariable'[u] = fVariable[u]
      BY <2>2 DEF Told
    <3>2. Detached(u)' /\ pc'[u] = "running"
      BY <2>2, <3>1 DEF Detached
    <3> QED
      BY <3>2 DEF EntryOf
  <2>3. CASE u # x /\ u # t
    <3>1. /\ fVariable'[u] = fVariable[u] /\ fWaitStatus'[u] = fWaitStatus[u]
          /\ wait_status'[u] = wait_status[u]
      BY <2>3 DEF Told
    <3>2. pc'[u] = pc[u] /\ portId'[u] = portId[u]
      BY <2>3 DEF OthersKeep
    <3> QED
      BY <2>0, <3>1, <3>2 DEF EntryOf, Detached
  <2> QED
    BY <2>1, <2>2, <2>3
<1> QED
  BY <1>1 DEF EntryInv

\* A reader or a writer other than t keeps its entry.
LEMMA EntryKept ==
    ASSUME EntryInv, NEW t \in Threads, OthersKeep(t), id' = id, capacity' = capacity,
           NEW u \in Threads, u # t, fVariable'[u] = fVariable[u],
           fWaitStatus'[u] = fWaitStatus[u], wait_status'[u] = wait_status[u]
    PROVE  EntryOf(u)' /\ (Coming(u)' <=> Coming(u)) /\ (Sleeping(u)' <=> Sleeping(u))
<1>1. EntryOf(u)
  BY DEF EntryInv
<1>2. pc'[u] = pc[u] /\ portId'[u] = portId[u] /\ status'[u] = status[u]
  BY DEF OthersKeep
<1>3. EntryOf(u)'
  BY <1>1, <1>2 DEF EntryOf, Detached
<1>4. Coming(u)' <=> Coming(u)
  BY <1>2 DEF Coming, Detached
<1>5. Sleeping(u)' <=> Sleeping(u)
  BY <1>2 DEF Sleeping, Detached, thread_is_blocked
<1> QED
  BY <1>3, <1>4, <1>5

\* Only the reader t may come or go, and a message is taken if it goes.
LEMMA ComingOne ==
    ASSUME ComingInv, NEW t \in Threads, id' = id, read_count \in Nat, read_count' \in Nat,
           \A u \in Readers : u # t => (Coming(u)' <=> Coming(u)),
           \A u \in Readers : Sleeping(u)' => Sleeping(u),
           read_count' + (IF t \in ComingReaders THEN 1 ELSE 0)
              <= read_count + (IF t \in ComingReaders' THEN 1 ELSE 0)
    PROVE  ComingInv'
<1> SUFFICES ASSUME id' # -1, NEW s \in Readers, Sleeping(s)'
             PROVE  Cardinality(ComingReaders)' >= read_count'
  BY DEF ComingInv
<1>1. Cardinality(ComingReaders) >= read_count
  BY DEF ComingInv
<1>2. ComingReaders \in SUBSET Threads /\ ComingReaders' \in SUBSET Threads
  BY PortAssumption DEF ComingReaders
<1>3. \A u \in Threads : u # t => (u \in ComingReaders' <=> u \in ComingReaders)
  BY DEF ComingReaders
<1>4. /\ Cardinality(ComingReaders) \in Nat /\ Cardinality(ComingReaders') \in Nat
      /\ Cardinality(ComingReaders') = Cardinality(ComingReaders)
            + (IF t \in ComingReaders' THEN 1 ELSE 0) - (IF t \in ComingReaders THEN 1 ELSE 0)
  BY <1>2, <1>3, CountOne
<1>5. ASSUME NEW n \in Nat, NEW m \in Nat, NEW k \in Nat, NEW l \in Nat, NEW i \in {0, 1}, NEW j \in {0, 1},
             n >= k, l + i <= k + j, m = n + j - i
      PROVE  m >= l
  BY <1>5
<1> DEFINE i == IF t \in ComingReaders THEN 1 ELSE 0
           j == IF t \in ComingReaders' THEN 1 ELSE 0
<1>6. i \in {0, 1} /\ j \in {0, 1} /\ read_count' + i <= read_count + j
      /\ Cardinality(ComingReaders') = Cardinality(ComingReaders) + j - i
  BY <1>4
<1> HIDE DEF i, j
<1> QED
  BY <1>1, <1>4, <1>5, <1>6

\* A call ends that tells a reader: a writer's that has added a message, or one
\* that has only looked at the message.
LEMMA ComingTold ==
    ASSUME PatientReaders, ComingInv, EntryInv, NEW x \in Threads \cup {NoThread},
           Told(x, "read_condition", "B_OK"),
           NEW t \in Threads, Detached(t), OthersKeep(t), pc'[t] = "running",
           id' = id, capacity' = capacity, read_count \in Nat,
           read_count' = read_count + (IF t \in Writers THEN 1 ELSE 0)
    PROVE  ComingInv'
<1> SUFFICES ASSUME id' # -1, NEW s \in Readers, Sleeping(s)'
             PROVE  Cardinality(ComingReaders)' >= read_count'
  BY DEF ComingInv
<1>0. s \in Threads /\ s # t /\ fVariable'[s] # NoVariable
  BY PortAssumption DEF Sleeping, Detached
<1>1. s # x
  BY <1>0, ToldThread, PortAssumption
<1>2. fVariable'[s] = fVariable[s] /\ fWaitStatus'[s] = fWaitStatus[s] /\ wait_status'[s] = wait_status[s]
  BY <1>0, <1>1 DEF Told
<1>3. Sleeping(s)
  BY <1>0, <1>2, EntryKept
<1>4. Cardinality(ComingReaders) >= read_count
  BY <1>3 DEF ComingInv
<1>5. x \in Threads
  <2>1. fVariable[s] = "read_condition"
    BY <1>0, <1>2 DEF EntryInv, EntryOf, Detached, ConditionOf
  <2> QED
    BY <1>0, <2>1 DEF Told
<1>6. /\ ~Detached(x) /\ fVariable'[x] = NoVariable
      /\ pc[x] \in {"added", "blocked"} /\ portId[x] = id /\ "read_condition" = ConditionOf(x)
      /\ pc[x] = "blocked" => fWaitStatus[x] = "STATUS_WAITING"
      /\ fWaitStatus'[x] = "B_OK"
      /\ wait_status'[x] = IF fWaitStatus[x] = "STATUS_WAITING" /\ wait_status[x] = "waiting"
                           THEN "B_OK" ELSE wait_status[x]
  BY <1>5, ToldThread, PortAssumption
<1>7. x \in Readers /\ x # t /\ pc'[x] = pc[x] /\ portId'[x] = portId[x]
  BY <1>5, <1>6 DEF ConditionOf, OthersKeep
<1>8. pc[x] = "blocked" => wait_status[x] = "waiting"
  BY <1>5, <1>6, <1>7 DEF EntryInv, EntryOf, PatientReaders
<1>9. x \notin ComingReaders
  BY <1>6, <1>8 DEF ComingReaders, Coming
<1>10. x \in ComingReaders'
  <2>1. Coming(x)'
    BY <1>6, <1>7, <1>8 DEF Coming, Detached
  <2> QED
    BY <1>7, <2>1 DEF ComingReaders
<1>11. t \notin ComingReaders' /\ (t \in ComingReaders => t \notin Writers)
  <2>1. ~Coming(t)'
    BY DEF Coming
  <2> QED
    BY <2>1, PortAssumption DEF ComingReaders
<1>12. \A u \in Threads : u # x /\ u # t => (u \in ComingReaders' <=> u \in ComingReaders)
  <2>1. ASSUME NEW u \in Threads, u # x, u # t PROVE Coming(u)' <=> Coming(u)
    <3>1. fVariable'[u] = fVariable[u] /\ fWaitStatus'[u] = fWaitStatus[u] /\ wait_status'[u] = wait_status[u]
      BY <2>1 DEF Told
    <3> QED
      BY <2>1, <3>1, EntryKept
  <2> QED
    BY <2>1 DEF ComingReaders
<1>13. ComingReaders \in SUBSET Threads /\ ComingReaders' \in SUBSET Threads /\ IsFiniteSet(Threads)
  BY PortAssumption DEF ComingReaders
<1>14. Cardinality(ComingReaders') = Cardinality(ComingReaders)
            + (IF x \in ComingReaders' THEN 1 ELSE 0) - (IF x \in ComingReaders THEN 1 ELSE 0)
            + (IF t \in ComingReaders' THEN 1 ELSE 0) - (IF t \in ComingReaders THEN 1 ELSE 0)
  BY <1>5, <1>7, <1>12, <1>13, CardTwo
<1>15. Cardinality(ComingReaders) \in Nat
  BY <1>13, FS_Subset, FS_CardinalityType
<1>16. Cardinality(ComingReaders)' = Cardinality(ComingReaders')
  OBVIOUS
<1>17. Cardinality(ComingReaders') >= read_count'
  BY <1>4, <1>9, <1>10, <1>11, <1>14, <1>15
<1> QED
  BY <1>16, <1>17

\* The parts of the invariant, as the steps use them and have to establish them.
LEMMA Parts ==
    ASSUME IInv
    PROVE  /\ TypeOK /\ IdInv /\ PlaceInv /\ Conditions /\ EntryInv /\ RoomInv
           /\ PatientReaders => ComingInv
           /\ id # -1 => read_count = Len(messages)
           /\ \A i \in DOMAIN messages : messages[i] = id
           /\ id # -1 /\ capacity # 0 => write_count = capacity - read_count - Cardinality(Users)
  BY DEF IInv, TypeOK, Conditions, MessagesInv, Users, is_port_closed

LEMMA PartsNext ==
    ASSUME ThreadTypes', id' \in -1 .. MaxId, sNextPort' \in 0 .. MaxId + 1,
           capacity' \in Capacities \cup {0}, read_count' \in Nat, write_count' \in Int,
           messages' \in Seq(0 .. MaxId), lock' \in Writers \cup {NoThread},
           IdInv', PlaceInv', Conditions', EntryInv', RoomInv', PatientReaders => ComingInv',
           id' # -1 => read_count' = Len(messages'),
           \A i \in DOMAIN messages' : messages'[i] = id',
           id' # -1 /\ capacity' # 0 => write_count' = capacity' - read_count' - Cardinality(Users')
    PROVE  IInv'
<1>1. TypeOK'
  BY DEF TypeOK, ThreadTypes, PCs, Calls, Conditions
<1>2. MessagesInv'
  BY DEF MessagesInv, Users, is_port_closed
<1>3. EntriesInv'
  BY DEF Conditions
<1>4. (PatientReaders => ComingInv)'
  BY DEF PatientReaders
<1> QED
  BY <1>1, <1>2, <1>3, <1>4 DEF IInv

LEMMA CreateStep ==
    ASSUME IInv, NEW queueLength \in Capacities, create_port(queueLength)
    PROVE  IInv'
<1>1. /\ ThreadTypes /\ Conditions
      /\ id \in -1 .. MaxId /\ sNextPort \in 0 .. MaxId + 1 /\ MaxId \in Nat
      /\ messages \in Seq(0 .. MaxId) /\ lock \in Writers \cup {NoThread}
      /\ IdInv /\ PlaceInv /\ EntryInv
  BY Parts, TypeParts
<1>2. /\ id = -1 /\ lock = NoThread /\ id' = sNextPort /\ sNextPort' = sNextPort + 1
      /\ capacity' = queueLength /\ read_count' = 0 /\ write_count' = queueLength
      /\ messages' = messages /\ lock' = lock
      /\ pc' = pc /\ call' = call /\ portId' = portId /\ status' = status
      /\ fEntries' = fEntries /\ fVariable' = fVariable
      /\ fWaitStatus' = fWaitStatus /\ wait_status' = wait_status
  BY DEF create_port, Unlocked, threadVars, conditionVars
<1>3. sNextPort <= MaxId /\ messages = <<>>
  BY <1>1, <1>2 DEF IdInv
<1>4. queueLength \in Nat /\ queueLength # 0
  BY PortAssumption
<1>5. ThreadTypes' /\ Conditions'
  <2>1. ThreadTypes'
    BY <1>1, <1>2 DEF ThreadTypes
  <2>2. Conditions'
    BY <1>1, <1>2, StatusOnly DEF Conditions, ConditionTypeOK
  <2> QED
    BY <2>1, <2>2
<1>6. IdInv'
  BY <1>1, <1>2 DEF IdInv
<1>7. ASSUME NEW t \in Threads PROVE PlaceOf(t)' /\ portId[t] # id' /\ Detached(t)
  <2>1. PlaceOf(t) /\ portId[t] \in -1 .. MaxId /\ EntryOf(t)
    BY <1>1 DEF PlaceInv, ThreadTypes, EntryInv
  <2>2. t # NoThread
    BY PortAssumption
  <2>3. pc[t] # "get_message"
    BY <1>2, <2>1, <2>2 DEF PlaceOf
  <2>4. portId[t] # id' /\ portId'[t] < sNextPort'
    BY <1>1, <1>2, <2>1 DEF PlaceOf
  <2>5. PlaceOf(t)'
    BY <1>2, <2>1, <2>3, <2>4 DEF PlaceOf
  <2>6. Detached(t)
    BY <1>2, <2>1 DEF EntryOf, PlaceOf
  <2> QED
    BY <2>4, <2>5, <2>6
<1>8. EntryInv' /\ \A t \in Threads : ~Sleeping(t)'
  <2>1. ASSUME NEW t \in Threads PROVE EntryOf(t)' /\ ~Sleeping(t)'
    <3>1. EntryOf(t) /\ Detached(t)
      BY <1>1, <1>7 DEF EntryInv
    <3>2. Detached(t)'
      BY <1>2, <3>1 DEF Detached
    <3> QED
      BY <1>2, <3>1, <3>2 DEF EntryOf, Sleeping
  <2> QED
    BY <2>1 DEF EntryInv
<1>9. RoomInv'
  <2>1. \A t \in Threads : fVariable'[t] # "write_condition"
    BY <1>2, <1>7, PortAssumption, ConditionVariableAssumption DEF Detached
  <2>2. QueuedWriters' = {}
    BY <2>1, PortAssumption DEF QueuedWriters
  <2> QED
    BY <2>2 DEF RoomInv
<1>10. PatientReaders => ComingInv'
  BY <1>8, PortAssumption DEF ComingInv
<1>11. Cardinality(Users') = 0
  <2>1. Users' = {}
    BY <1>2, <1>7, PortAssumption DEF Users
  <2> QED
    BY <2>1, FS_EmptySet
<1>12. /\ id' # -1 => read_count' = Len(messages')
       /\ \A i \in DOMAIN messages' : messages'[i] = id'
  BY <1>2, <1>3
<1>13. PlaceInv'
  BY <1>7 DEF PlaceInv
<1>14. id' # -1 /\ capacity' # 0 => write_count' = capacity' - read_count' - Cardinality(Users')
  BY <1>2, <1>4, <1>11
<1>15. /\ id' \in -1 .. MaxId /\ sNextPort' \in 0 .. MaxId + 1
       /\ capacity' \in Capacities \cup {0} /\ read_count' \in Nat /\ write_count' \in Int
       /\ messages' \in Seq(0 .. MaxId) /\ lock' \in Writers \cup {NoThread}
  BY <1>1, <1>2, <1>3, <1>4
<1> QED
  BY <1>5, <1>6, <1>8, <1>9, <1>10, <1>12, <1>13, <1>14, <1>15, PartsNext

\* close_port() and delete_port(): nobody keeps an entry.
LEMMA GoneStep ==
    ASSUME IInv, close_port \/ delete_port
    PROVE  IInv'
<1>1. /\ ThreadTypes /\ Conditions
      /\ id \in -1 .. MaxId /\ sNextPort \in 0 .. MaxId + 1 /\ MaxId \in Nat
      /\ capacity \in Capacities \cup {0} /\ capacity \in Nat
      /\ read_count \in Nat /\ write_count \in Int
      /\ messages \in Seq(0 .. MaxId) /\ lock \in Writers \cup {NoThread}
      /\ IdInv /\ PlaceInv /\ EntryInv
      /\ id # -1 => read_count = Len(messages)
      /\ \A i \in DOMAIN messages : messages[i] = id
      /\ id # -1 /\ capacity # 0 => write_count = capacity - read_count - Cardinality(Users)
  BY Parts, TypeParts
<1>2. /\ id \in 0 .. MaxId - 1 /\ lock = NoThread /\ sNextPort' = sNextPort
      /\ read_count' = read_count /\ write_count' = write_count /\ lock' = lock
      /\ pc' = pc /\ call' = call /\ portId' = portId /\ status' = status
      /\ Notify(Woken, "B_BAD_PORT_ID")
      /\ \/ id' = id /\ capacity' = 0 /\ messages' = messages
         \/ id' = -1 /\ capacity' = capacity /\ messages' = <<>>
  BY DEF close_port, delete_port, Unlocked, threadVars
<1>3. /\ Conditions'
      /\ \A t \in Threads :
            /\ fVariable'[t] = NoVariable
            /\ ~(wait_status'[t] = "waiting" /\ fWaitStatus[t] = "STATUS_WAITING"
                   /\ fVariable[t] # NoVariable)
            /\ fVariable[t] = NoVariable => wait_status'[t] = wait_status[t]
  BY <1>1, <1>2, NotifyAll
<1>4. ThreadTypes'
  BY <1>1, <1>2 DEF ThreadTypes
<1>5. IdInv'
  <2>1. sNextPort = id + 1
    BY <1>1, <1>2 DEF IdInv
  <2> QED
    BY <1>1, <1>2, <2>1 DEF IdInv
<1>6. PlaceInv'
  <2>1. ASSUME NEW t \in Threads PROVE PlaceOf(t)'
    <3>1. PlaceOf(t) /\ t # NoThread
      BY <1>1, PortAssumption DEF PlaceInv
    <3>2. pc[t] # "get_message"
      BY <1>2, <3>1 DEF PlaceOf
    <3> QED
      BY <1>2, <3>1, <3>2 DEF PlaceOf
  <2> QED
    BY <2>1 DEF PlaceInv
<1>7. EntryInv' /\ \A t \in Threads : ~Sleeping(t)'
  <2>1. ASSUME NEW t \in Threads PROVE EntryOf(t)' /\ ~Sleeping(t)'
    <3>1. EntryOf(t)
      BY <1>1 DEF EntryInv
    <3>2. Detached(t)'
      BY <1>3 DEF Detached
    <3>3. ~(pc'[t] = "blocked" /\ wait_status'[t] = "waiting")
      BY <1>2, <1>3, <3>1 DEF EntryOf, Detached
    <3> QED
      BY <3>2, <3>3 DEF EntryOf, Sleeping
  <2> QED
    BY <2>1 DEF EntryInv
<1>8. RoomInv'
  <2>1. \A t \in Threads : fVariable'[t] # "write_condition"
    BY <1>3, PortAssumption, ConditionVariableAssumption
  <2>2. QueuedWriters' = {}
    BY <2>1, PortAssumption DEF QueuedWriters
  <2> QED
    BY <2>2 DEF RoomInv
<1>9. PatientReaders => ComingInv'
  BY <1>7, PortAssumption DEF ComingInv
<1>10. /\ id' # -1 => read_count' = Len(messages')
       /\ \A i \in DOMAIN messages' : messages'[i] = id'
       /\ id' # -1 /\ capacity' # 0 => write_count' = capacity' - read_count' - Cardinality(Users')
  BY <1>1, <1>2
<1>11. /\ id' \in -1 .. MaxId /\ sNextPort' \in 0 .. MaxId + 1
       /\ capacity' \in Capacities \cup {0} /\ read_count' \in Nat /\ write_count' \in Int
       /\ messages' \in Seq(0 .. MaxId) /\ lock' \in Writers \cup {NoThread}
  <2>1. id' \in -1 .. MaxId
    BY <1>1, <1>2
  <2>2. capacity' \in Capacities \cup {0}
    BY <1>1, <1>2
  <2>3. messages' \in Seq(0 .. MaxId)
    <3>1. <<>> \in Seq(0 .. MaxId)
      OBVIOUS
    <3>2. messages' = messages \/ messages' = <<>>
      BY <1>2
    <3> QED
      BY <1>1, <3>1, <3>2
  <2> QED
    BY <1>1, <1>2, <2>1, <2>2, <2>3
<1> QED
  BY <1>3, <1>4, <1>5, <1>6, <1>7, <1>8, <1>9, <1>10, <1>11, PartsNext

-----------------------------------------------------------------------------
(***************************************************************************)
(* Reading.                                                                *)
(***************************************************************************)

\* A reader that holds neither an entry nor the lock.
ReaderRuns(t) == t \in Readers /\ pc[t] \in {"running", "relock"} /\ id # -1 /\ ~NothingToRead(id)

LEMMA RunnerDetached ==
    ASSUME PlaceInv, EntryInv, NEW t \in Threads, pc[t] \in {"running", "relock"}
    PROVE  Detached(t) /\ lock # t /\ ~Sleeping(t)
  BY DEF PlaceInv, PlaceOf, EntryInv, EntryOf, Sleeping

LEMMA UsersSame ==
    ASSUME NEW t \in Readers, OthersKeep(t), id' = id
    PROVE  Users' = Users
<1>1. \A u \in Writers : u \in Threads /\ u # t
  BY PortAssumption
<1> QED
  BY <1>1 DEF Users, OthersKeep

\* A reader that is told takes no place from those who wait for one.
LEMMA ToldReader ==
    ASSUME RoomInv, EntryInv, NEW x \in Threads \cup {NoThread},
           Told(x, "read_condition", "B_OK"), write_count' = write_count
    PROVE  RoomInv'
<1>1. ASSUME NEW u \in Writers PROVE fVariable'[u] = fVariable[u]
  <2>1. u \in Threads /\ u \notin Readers /\ "read_condition" \in Variables
    BY PortAssumption
  <2>2. u # x
    <3>1. ASSUME u = x PROVE FALSE
      <4>1. "read_condition" = ConditionOf(x)
        BY <2>1, <3>1, ToldThread
      <4> QED
        BY <2>1, <3>1, <4>1 DEF ConditionOf
    <3> QED
      BY <3>1
  <2> QED
    BY <2>1, <2>2 DEF Told
<1> QED
  BY <1>1, RoomSame

LEMMA ReadWaitStep ==
    ASSUME IInv, NEW t \in Readers, NEW c \in ReadCalls, ReaderRuns(t),
           read_count = 0, Add(t, "read_condition"), InCall(t, c, id, "added"),
           UNCHANGED portVars, UNCHANGED lock
    PROVE  IInv'
<1>1. /\ ThreadTypes /\ Conditions
      /\ id \in -1 .. MaxId /\ sNextPort \in 0 .. MaxId + 1 /\ MaxId \in Nat
      /\ capacity \in Capacities \cup {0}
      /\ read_count \in Nat /\ write_count \in Int
      /\ messages \in Seq(0 .. MaxId) /\ lock \in Writers \cup {NoThread}
      /\ IdInv /\ PlaceInv /\ EntryInv /\ RoomInv
      /\ id # -1 => read_count = Len(messages)
      /\ \A i \in DOMAIN messages : messages[i] = id
      /\ id # -1 /\ capacity # 0 => write_count = capacity - read_count - Cardinality(Users)
  BY Parts, TypeParts
<1>2. /\ id' = id /\ sNextPort' = sNextPort /\ capacity' = capacity /\ read_count' = read_count
      /\ write_count' = write_count /\ messages' = messages /\ lock' = lock
  BY DEF portVars
<1>3. /\ t \in Threads /\ t \notin Writers /\ pc[t] \in {"running", "relock"} /\ id # -1
      /\ "read_condition" \in Variables
  BY PortAssumption DEF ReaderRuns
<1>4. Detached(t) /\ lock # t
  BY <1>1, <1>3, RunnerDetached
<1>5. capacity # 0
  <2>1. messages = <<>>
    BY <1>1, <1>3, EmptySeq
  <2> QED
    BY <2>1 DEF ReaderRuns, NothingToRead, is_port_closed
<1>6. /\ ThreadTypes' /\ OthersKeep(t)
      /\ pc'[t] = "added" /\ call'[t] = c /\ portId'[t] = id
  <2>1. c \in Calls /\ "added" \in PCs
    BY DEF Calls, PCs
  <2> QED
    BY <1>1, <1>3, <2>1, CallEffect
<1>7. /\ Conditions'
      /\ fVariable'[t] = "read_condition" /\ fWaitStatus'[t] = "STATUS_ADDED"
      /\ \A u \in Threads : u # t => /\ fVariable'[u] = fVariable[u]
                                     /\ fWaitStatus'[u] = fWaitStatus[u]
      /\ \A u \in Threads : wait_status'[u] = wait_status[u]
  BY <1>1, <1>3, <1>4, AddEntry
<1>8. IdInv'
  BY <1>1, <1>2 DEF IdInv
<1>9. PlaceInv'
  <2>1. PlaceOf(t)'
    <3>1. c # "write" /\ c # "none"
      BY DEF ReadCalls
    <3>2. id < sNextPort
      BY <1>1, <1>3 DEF IdInv
    <3> QED
      BY <1>2, <1>3, <1>4, <1>6, <3>1, <3>2 DEF PlaceOf
  <2>2. ASSUME NEW u \in Threads, u # t PROVE PlaceOf(u)'
    <3>1. PlaceOf(u)
      BY <1>1 DEF PlaceInv
    <3> QED
      BY <1>2, <1>6, <2>2, <3>1 DEF PlaceOf, OthersKeep
  <2> QED
    BY <2>1, <2>2 DEF PlaceInv
<1>10. EntryInv'
  <2>1. EntryOf(t)'
    BY <1>2, <1>5, <1>6, <1>7 DEF EntryOf, Detached, ConditionOf
  <2>2. ASSUME NEW u \in Threads, u # t PROVE EntryOf(u)'
    BY <1>1, <1>2, <1>3, <1>6, <1>7, <2>2, EntryKept
  <2> QED
    BY <2>1, <2>2 DEF EntryInv
<1>11. RoomInv'
  <2>1. \A u \in Writers : fVariable'[u] = fVariable[u]
    BY <1>3, <1>7, PortAssumption
  <2> QED
    BY <1>1, <1>2, <2>1, RoomSame
<1>12. ComingInv'
  <2>1. ComingReaders' \in SUBSET Threads
    BY PortAssumption DEF ComingReaders
  <2>2. Cardinality(ComingReaders') \in Nat
    BY <2>1, CountOne, <1>3
  <2>3. Cardinality(ComingReaders)' >= read_count'
    BY <1>2, <2>2
  <2> QED
    BY <2>3 DEF ComingInv
<1>13. Users' = Users
  BY <1>2, <1>6, UsersSame
<1> QED
  BY <1>1, <1>2, <1>6, <1>7, <1>8, <1>9, <1>10, <1>11, <1>12, <1>13, PartsNext

\* Who takes the first message goes with one message.
LEMMA ReadTakeStep ==
    ASSUME IInv, NEW t \in Readers, ReaderRuns(t), read_count # 0, messages # <<>>,
           Return(t), TakeMessage, UNCHANGED <<id, sNextPort, capacity>>, UNCHANGED lock
    PROVE  IInv'
<1>1. /\ ThreadTypes /\ Conditions
      /\ id \in -1 .. MaxId /\ sNextPort \in 0 .. MaxId + 1 /\ sNextPort \in Nat
      /\ capacity \in Capacities \cup {0} /\ capacity \in Nat
      /\ read_count \in Nat /\ write_count \in Int
      /\ messages \in Seq(0 .. MaxId) /\ lock \in Writers \cup {NoThread}
      /\ IdInv /\ PlaceInv /\ EntryInv /\ RoomInv
      /\ PatientReaders => ComingInv
      /\ id # -1 => read_count = Len(messages)
      /\ \A i \in DOMAIN messages : messages[i] = id
      /\ id # -1 /\ capacity # 0 => write_count = capacity - read_count - Cardinality(Users)
  BY Parts, TypeParts
<1>2. /\ id' = id /\ sNextPort' = sNextPort /\ capacity' = capacity /\ read_count' = read_count - 1
      /\ write_count' = write_count + 1 /\ messages' = Tail(messages) /\ lock' = lock
      /\ Notify(First("write_condition"), "B_OK")
  BY DEF TakeMessage
<1>3. /\ t \in Threads /\ t \notin Writers /\ pc[t] \in {"running", "relock"} /\ id # -1
      /\ "write_condition" \in Variables /\ "B_OK" \in WaitStatus
  BY PortAssumption DEF ReaderRuns, WaitStatus
<1>4. Detached(t) /\ lock # t
  BY <1>1, <1>3, RunnerDetached
<1>5. /\ ThreadTypes' /\ OthersKeep(t) /\ pc'[t] = "running"
  BY <1>1, <1>3, ReturnEffect
<1>6. Conditions' /\ \E x \in Threads \cup {NoThread} : Told(x, "write_condition", "B_OK")
  BY <1>1, <1>2, <1>3, NotifyFirst
<1>7. PICK x \in Threads \cup {NoThread} : Told(x, "write_condition", "B_OK")
  BY <1>6
<1>8. IdInv'
  BY <1>1, <1>2, <1>3 DEF IdInv
<1>9. PlaceInv'
  BY <1>1, <1>2, <1>3, <1>4, PlaceReturned
<1>10. EntryInv'
  BY <1>1, <1>2, <1>3, <1>4, <1>5, <1>7, EntriesTold
<1>11. RoomInv'
  BY <1>1, <1>2, <1>7, RoomTold
<1>12. read_count - 1 \in Nat /\ Len(messages') = read_count - 1 /\ messages' \in Seq(0 .. MaxId)
  BY <1>1, <1>2, <1>3
<1>13. PatientReaders => ComingInv'
  <2>1. ASSUME NEW u \in Readers, u # t PROVE (Coming(u)' <=> Coming(u)) /\ (Sleeping(u)' <=> Sleeping(u))
    <3>1. u \in Threads /\ u # x
      <4>1. CASE x = NoThread
        BY <4>1, PortAssumption
      <4>2. CASE x \in Threads
        <5>1. "write_condition" = ConditionOf(x)
          BY <1>1, <1>3, <1>7, <4>2, ToldThread
        <5> QED
          BY <5>1, PortAssumption DEF ConditionOf
      <4> QED
        BY <4>1, <4>2, PortAssumption
    <3>2. /\ fVariable'[u] = fVariable[u] /\ fWaitStatus'[u] = fWaitStatus[u]
          /\ wait_status'[u] = wait_status[u]
      BY <1>7, <3>1 DEF Told
    <3> QED
      BY <1>1, <1>2, <1>3, <1>5, <2>1, <3>1, <3>2, EntryKept
  <2>2. ~Sleeping(t)'
    BY <1>5 DEF Sleeping
  <2>3. \A u \in Readers : Sleeping(u)' => Sleeping(u)
    BY <2>1, <2>2
  <2>4. \A u \in Readers : u # t => (Coming(u)' <=> Coming(u))
    BY <2>1
  <2>5. read_count' + (IF t \in ComingReaders THEN 1 ELSE 0)
          <= read_count + (IF t \in ComingReaders' THEN 1 ELSE 0)
    BY <1>1, <1>2
  <2> QED
    BY <1>1, <1>2, <1>3, <1>12, <2>3, <2>4, <2>5, ComingOne
<1>14. Users' = Users
  BY <1>2, <1>5, UsersSame
<1>15. id' # -1 /\ capacity' # 0 => write_count' = capacity' - read_count' - Cardinality(Users')
  <2>1. Cardinality(Users) \in Nat
    BY <1>2, <1>3, <1>5, UsersAfter
  <2> QED
    BY <1>1, <1>2, <1>14, <2>1
<1>16. \A i \in DOMAIN messages' : messages'[i] = id'
  <2>1. \A i \in DOMAIN Tail(messages) : i + 1 \in DOMAIN messages /\ Tail(messages)[i] = messages[i + 1]
    BY <1>1
  <2> QED
    BY <1>1, <1>2, <2>1
<1> QED
  BY <1>1, <1>2, <1>5, <1>6, <1>8, <1>9, <1>10, <1>11, <1>12, <1>13, <1>15, <1>16, PartsNext

\* Who only looks at it passes the notification on.
LEMMA ReadPeekStep ==
    ASSUME IInv, NEW t \in Readers, ReaderRuns(t), Return(t), Peek, UNCHANGED portVars, UNCHANGED lock
    PROVE  IInv'
<1>1. /\ ThreadTypes /\ Conditions
      /\ id \in -1 .. MaxId /\ sNextPort \in 0 .. MaxId + 1 /\ sNextPort \in Nat
      /\ capacity \in Capacities \cup {0}
      /\ read_count \in Nat /\ write_count \in Int
      /\ messages \in Seq(0 .. MaxId) /\ lock \in Writers \cup {NoThread}
      /\ IdInv /\ PlaceInv /\ EntryInv /\ RoomInv
      /\ PatientReaders => ComingInv
      /\ id # -1 => read_count = Len(messages)
      /\ \A i \in DOMAIN messages : messages[i] = id
      /\ id # -1 /\ capacity # 0 => write_count = capacity - read_count - Cardinality(Users)
  BY Parts, TypeParts
<1>2. /\ id' = id /\ sNextPort' = sNextPort /\ capacity' = capacity /\ read_count' = read_count
      /\ write_count' = write_count /\ messages' = messages /\ lock' = lock
      /\ Notify(First("read_condition"), "B_OK")
  BY DEF Peek, portVars
<1>3. /\ t \in Threads /\ t \notin Writers /\ pc[t] \in {"running", "relock"} /\ id # -1
      /\ "read_condition" \in Variables /\ "B_OK" \in WaitStatus
  BY PortAssumption DEF ReaderRuns, WaitStatus
<1>4. Detached(t) /\ lock # t
  BY <1>1, <1>3, RunnerDetached
<1>5. ThreadTypes' /\ OthersKeep(t) /\ pc'[t] = "running"
  BY <1>1, <1>3, ReturnEffect
<1>6. Conditions' /\ \E x \in Threads \cup {NoThread} : Told(x, "read_condition", "B_OK")
  BY <1>1, <1>2, <1>3, NotifyFirst
<1>7. PICK x \in Threads \cup {NoThread} : Told(x, "read_condition", "B_OK")
  BY <1>6
<1>8. IdInv'
  BY <1>1, <1>2, <1>3 DEF IdInv
<1>9. PlaceInv'
  BY <1>1, <1>2, <1>3, <1>4, PlaceReturned
<1>10. EntryInv'
  BY <1>1, <1>2, <1>3, <1>4, <1>5, <1>7, EntriesTold
<1>11. RoomInv'
  BY <1>1, <1>2, <1>3, <1>7, ToldReader
<1>12. PatientReaders => ComingInv'
  <2>1. read_count' = read_count + (IF t \in Writers THEN 1 ELSE 0)
    BY <1>1, <1>2, <1>3
  <2> QED
    BY <1>1, <1>2, <1>3, <1>4, <1>5, <1>7, <2>1, ComingTold
<1>13. Users' = Users
  BY <1>2, <1>5, UsersSame
<1> QED
  BY <1>1, <1>2, <1>5, <1>6, <1>8, <1>9, <1>10, <1>11, <1>12, <1>13, PartsNext

\* The read loop, as its two callers run it.
LEMMA ReadLoopStep ==
    ASSUME IInv, NEW t \in Readers, NEW c \in ReadCalls, ReaderRuns(t), ReadLoop(t, c), UNCHANGED lock
    PROVE  IInv'
<1>1. CASE /\ read_count = 0 /\ Add(t, "read_condition") /\ InCall(t, c, id, "added")
           /\ UNCHANGED portVars
  BY <1>1, ReadWaitStep
<1>2. CASE /\ read_count # 0 /\ messages # <<>> /\ Return(t) /\ TakeMessage
           /\ UNCHANGED <<id, sNextPort, capacity>>
  BY <1>2, ReadTakeStep
<1>3. CASE Return(t) /\ Peek /\ UNCHANGED portVars
  BY <1>3, ReadPeekStep
<1> QED
  BY <1>1, <1>2, <1>3 DEF ReadLoop

LEMMA ReadStep ==
    ASSUME IInv, NEW t \in Readers, NEW c \in ReadCalls, read_port_etc(t, c)
    PROVE  IInv'
<1>1. ReaderRuns(t) /\ ReadLoop(t, c) /\ UNCHANGED lock
  BY DEF read_port_etc, ReaderRuns
<1> QED
  BY <1>1, ReadLoopStep

\* A call that ends without a change of the port: the error of a reader, or of a
\* writer whose port is gone.
LEMMA LeaveStep ==
    ASSUME IInv, NEW t \in Threads, pc[t] = "relock", Return(t),
           UNCHANGED <<portVars, conditionVars>>, UNCHANGED lock,
           t \in Readers => NothingToRead(portId[t]) \/ status[t] # "B_OK",
           t \in Writers => WriteGone(portId[t])
    PROVE  IInv'
<1>1. /\ ThreadTypes /\ Conditions
      /\ id \in -1 .. MaxId /\ sNextPort \in 0 .. MaxId + 1 /\ sNextPort \in Nat
      /\ capacity \in Capacities \cup {0}
      /\ read_count \in Nat /\ write_count \in Int
      /\ messages \in Seq(0 .. MaxId) /\ lock \in Writers \cup {NoThread}
      /\ IdInv /\ PlaceInv /\ EntryInv /\ RoomInv
      /\ PatientReaders => ComingInv
      /\ id # -1 => read_count = Len(messages)
      /\ \A i \in DOMAIN messages : messages[i] = id
      /\ id # -1 /\ capacity # 0 => write_count = capacity - read_count - Cardinality(Users)
  BY Parts, TypeParts
<1>2. /\ id' = id /\ sNextPort' = sNextPort /\ capacity' = capacity /\ read_count' = read_count
      /\ write_count' = write_count /\ messages' = messages /\ lock' = lock
      /\ fEntries' = fEntries /\ fVariable' = fVariable
      /\ fWaitStatus' = fWaitStatus /\ wait_status' = wait_status
  BY DEF portVars, conditionVars
<1>3. Detached(t) /\ lock # t /\ ~Sleeping(t)
  BY <1>1, RunnerDetached
<1>4. ThreadTypes' /\ OthersKeep(t) /\ pc'[t] = "running" /\ portId'[t] = -1
  BY <1>1, ReturnEffect
<1>5. Conditions'
  BY <1>1, <1>2, StatusOnly DEF Conditions, ConditionTypeOK
<1>6. IdInv'
  BY <1>1, <1>2 DEF IdInv
<1>7. PlaceInv'
  BY <1>1, <1>2, <1>3, PlaceReturned
<1>8. \A u \in Threads : u # t =>
         EntryOf(u)' /\ (Coming(u)' <=> Coming(u)) /\ (Sleeping(u)' <=> Sleeping(u))
  BY <1>1, <1>2, <1>4, EntryKept
<1>9. EntryInv'
  <2>1. EntryOf(t)'
    BY <1>2, <1>3, <1>4 DEF EntryOf, Detached
  <2> QED
    BY <1>8, <2>1 DEF EntryInv
<1>10. RoomInv'
  BY <1>1, <1>2, RoomSame
<1>11. ~Sleeping(t)' /\ ~Coming(t)'
  BY <1>4 DEF Sleeping, Coming
<1>12. PatientReaders => ComingInv'
  <2>1. CASE t \in ComingReaders
    <3>1. t \in Readers /\ portId[t] = id /\ status[t] = "B_OK"
      BY <2>1 DEF ComingReaders, Coming
    <3>2. capacity = 0
      BY <3>1 DEF NothingToRead, is_port_closed
    <3>3. \A u \in Threads : ~Sleeping(u)
      BY <1>1, <3>2 DEF EntryInv, EntryOf, Sleeping
    <3>4. \A u \in Threads : ~Sleeping(u)'
      BY <1>8, <1>11, <3>3
    <3> QED
      BY <3>4, PortAssumption DEF ComingInv
  <2>2. CASE t \notin ComingReaders
    <3>1. /\ \A u \in Readers : u # t => (Coming(u)' <=> Coming(u))
          /\ \A u \in Readers : Sleeping(u)' => Sleeping(u)
      BY <1>8, <1>11, PortAssumption
    <3>2. read_count' + (IF t \in ComingReaders THEN 1 ELSE 0)
            <= read_count + (IF t \in ComingReaders' THEN 1 ELSE 0)
      BY <1>1, <1>2, <2>2
    <3> QED
      BY <1>1, <1>2, <3>1, <3>2, ComingOne
  <2> QED
    BY <2>1, <2>2
<1>13. id' # -1 /\ capacity' # 0 => write_count' = capacity' - read_count' - Cardinality(Users')
  <2> SUFFICES ASSUME id # -1, capacity # 0 PROVE Users' = Users
    BY <1>1, <1>2
  <2>1. t \notin Users /\ t \notin Users'
    BY <1>4 DEF Users, WriteGone, is_port_closed
  <2>2. \A u \in Threads : u # t => (u \in Users' <=> u \in Users)
    BY <1>2, <1>4 DEF Users, OthersKeep
  <2>3. Users \subseteq Threads /\ Users' \subseteq Threads
    BY PortAssumption DEF Users
  <2> QED
    BY <2>1, <2>2, <2>3
<1> QED
  BY <1>1, <1>2, <1>4, <1>5, <1>6, <1>7, <1>9, <1>10, <1>12, <1>13, PartsNext

LEMMA ReadRelockStep ==
    ASSUME IInv, NEW t \in Threads, read_port_relock(t)
    PROVE  IInv'
<1>1. /\ pc[t] = "relock" /\ call[t] # "write" /\ UNCHANGED lock
  BY DEF read_port_relock
<1>2. PlaceOf(t) /\ ThreadTypes
  BY Parts, TypeParts DEF PlaceInv
<1>3. t \in Readers /\ t \notin Writers /\ call[t] \in ReadCalls /\ portId[t] # -1
  <2>1. t \notin Writers /\ call[t] # "none" /\ portId[t] # -1
    BY <1>1, <1>2 DEF PlaceOf
  <2>2. call[t] \in ReadCalls \cup {"write", "none"}
    BY <1>2 DEF ThreadTypes, Calls
  <2> QED
    BY <1>1, <2>1, <2>2, PortAssumption
<1>4. CASE /\ NothingToRead(portId[t]) \/ status[t] # "B_OK"
           /\ Return(t) /\ UNCHANGED <<portVars, conditionVars>>
  BY <1>1, <1>3, <1>4, LeaveStep
<1>5. CASE ~NothingToRead(portId[t]) /\ ReadLoop(t, call[t])
  <2>1. ReaderRuns(t)
    BY <1>1, <1>3, <1>5 DEF ReaderRuns, NothingToRead
  <2>2. PICK c \in ReadCalls : ReadLoop(t, c)
    BY <1>3, <1>5
  <2> QED
    BY <1>1, <1>3, <2>1, <2>2, ReadLoopStep
<1> QED
  BY <1>4, <1>5 DEF read_port_relock

-----------------------------------------------------------------------------
(***************************************************************************)
(* Writing.                                                                *)
(***************************************************************************)

\* A writer does nothing to the readers that wait or come.
LEMMA ComingWriter ==
    ASSUME ComingInv, EntryInv, NEW t \in Writers, OthersKeep(t), read_count \in Nat,
           id' = id, capacity' = capacity, read_count' = read_count,
           \A u \in Readers : /\ fVariable'[u] = fVariable[u] /\ fWaitStatus'[u] = fWaitStatus[u]
                              /\ wait_status'[u] = wait_status[u]
    PROVE  ComingInv'
<1>1. t \in Threads /\ t \notin Readers /\ \A u \in Readers : u \in Threads /\ u # t
  BY PortAssumption
<1>2. \A u \in Readers : (Coming(u)' <=> Coming(u)) /\ (Sleeping(u)' <=> Sleeping(u))
  BY <1>1, EntryKept
<1>3. t \notin ComingReaders /\ t \notin ComingReaders'
  BY <1>1 DEF ComingReaders
<1>4. read_count' + (IF t \in ComingReaders THEN 1 ELSE 0)
         <= read_count + (IF t \in ComingReaders' THEN 1 ELSE 0)
  BY <1>3
<1> QED
  BY <1>1, <1>2, <1>4, ComingOne

\* A writer that is told is none of the readers.
LEMMA ToldWriter ==
    ASSUME EntryInv, NEW x \in Threads \cup {NoThread}, Told(x, "write_condition", "B_OK")
    PROVE  \A u \in Readers : /\ fVariable'[u] = fVariable[u] /\ fWaitStatus'[u] = fWaitStatus[u]
                              /\ wait_status'[u] = wait_status[u]
<1> SUFFICES ASSUME NEW u \in Readers
             PROVE  /\ fVariable'[u] = fVariable[u] /\ fWaitStatus'[u] = fWaitStatus[u]
                    /\ wait_status'[u] = wait_status[u]
  OBVIOUS
<1>1. u \in Threads /\ u # NoThread /\ "write_condition" \in Variables
  BY PortAssumption
<1>2. u # x
  <2>1. ASSUME u = x PROVE FALSE
    <3>1. "write_condition" = ConditionOf(x)
      BY <1>1, <2>1, ToldThread
    <3> QED
      BY <2>1, <3>1 DEF ConditionOf
  <2> QED
    BY <2>1
<1> QED
  BY <1>1, <1>2 DEF Told

\* A writer without an entry that finds its port open.
WriterRuns(t) ==
    t \in Writers /\ pc[t] \in {"running", "relock"} /\ id # -1 /\ capacity # 0 /\ lock = NoThread

LEMMA WriteWaitStep ==
    ASSUME IInv, NEW t \in Writers, WriterRuns(t), pc[t] = "running", write_count' = write_count - 1,
           NoRoom, Add(t, "write_condition"), InCall(t, "write", id, "added"),
           UNCHANGED <<id, sNextPort, capacity, read_count, messages>>, UNCHANGED lock
    PROVE  IInv'
<1>1. /\ ThreadTypes /\ Conditions
      /\ id \in -1 .. MaxId /\ sNextPort \in 0 .. MaxId + 1
      /\ capacity \in Capacities \cup {0} /\ capacity \in Nat
      /\ read_count \in Nat /\ write_count \in Int
      /\ messages \in Seq(0 .. MaxId) /\ lock \in Writers \cup {NoThread}
      /\ IdInv /\ PlaceInv /\ EntryInv /\ RoomInv
      /\ PatientReaders => ComingInv
      /\ id # -1 => read_count = Len(messages)
      /\ \A i \in DOMAIN messages : messages[i] = id
      /\ id # -1 /\ capacity # 0 => write_count = capacity - read_count - Cardinality(Users)
  BY Parts, TypeParts
<1>2. /\ id' = id /\ sNextPort' = sNextPort /\ capacity' = capacity /\ read_count' = read_count
      /\ messages' = messages /\ lock' = lock
  OBVIOUS
<1>3. /\ t \in Threads /\ t \notin Readers /\ id # -1 /\ capacity # 0 /\ t # NoThread /\ lock = NoThread
      /\ "write_condition" \in Variables /\ \A u \in Readers : u \in Threads /\ u # t
  BY PortAssumption DEF WriterRuns
<1>4. Detached(t)
  BY <1>1, <1>3, RunnerDetached
<1>5. /\ ThreadTypes' /\ OthersKeep(t)
      /\ pc'[t] = "added" /\ call'[t] = "write" /\ portId'[t] = id
  <2>1. "write" \in Calls /\ "added" \in PCs
    BY DEF Calls, PCs
  <2> QED
    BY <1>1, <1>3, <2>1, CallEffect
<1>6. /\ Conditions'
      /\ fVariable'[t] = "write_condition" /\ fWaitStatus'[t] = "STATUS_ADDED"
      /\ \A u \in Threads : u # t => /\ fVariable'[u] = fVariable[u]
                                     /\ fWaitStatus'[u] = fWaitStatus[u]
      /\ \A u \in Threads : wait_status'[u] = wait_status[u]
  BY <1>1, <1>3, <1>4, AddEntry
<1>7. IdInv' /\ id < sNextPort
  BY <1>1, <1>2, <1>3 DEF IdInv
<1>8. PlaceInv'
  <2>1. PlaceOf(t)'
    BY <1>2, <1>3, <1>5, <1>7 DEF PlaceOf
  <2>2. ASSUME NEW u \in Threads, u # t PROVE PlaceOf(u)'
    <3>1. PlaceOf(u)
      BY <1>1 DEF PlaceInv
    <3> QED
      BY <1>2, <1>5, <2>2, <3>1 DEF PlaceOf, OthersKeep
  <2> QED
    BY <2>1, <2>2 DEF PlaceInv
<1>9. EntryInv'
  <2>1. EntryOf(t)'
    BY <1>2, <1>3, <1>5, <1>6 DEF EntryOf, Detached, ConditionOf
  <2>2. ASSUME NEW u \in Threads, u # t PROVE EntryOf(u)'
    BY <1>1, <1>2, <1>3, <1>5, <1>6, <2>2, EntryKept
  <2> QED
    BY <2>1, <2>2 DEF EntryInv
<1>10. RoomInv'
  <2>1. t \in QueuedWriters' /\ t \notin QueuedWriters
    BY <1>3, <1>4, <1>6, ConditionVariableAssumption DEF QueuedWriters, Detached
  <2>2. /\ Cardinality(QueuedWriters) \in Nat /\ Cardinality(QueuedWriters') \in Nat
        /\ Cardinality(QueuedWriters') = Cardinality(QueuedWriters) + 1
    BY <1>3, <1>6, <2>1, QueuedAfter
  <2>3. write_count + Cardinality(QueuedWriters) <= 0
    <3>1. CASE QueuedWriters = {}
      <4>1. Cardinality(QueuedWriters) = 0
        BY <3>1, FS_EmptySet
      <4> QED
        BY <1>1, <4>1 DEF NoRoom
    <3> QED
      BY <1>1, <3>1 DEF RoomInv
  <2>4. write_count' + Cardinality(QueuedWriters)' <= 0
    BY <1>1, <2>2, <2>3
  <2> QED
    BY <2>4 DEF RoomInv
<1>11. PatientReaders => ComingInv'
  BY <1>1, <1>2, <1>3, <1>5, <1>6, ComingWriter
<1>12. id' # -1 /\ capacity' # 0 => write_count' = capacity' - read_count' - Cardinality(Users')
  <2>1. t \in Users' /\ t \notin Users
    BY <1>2, <1>5 DEF Users
  <2>2. Cardinality(Users) \in Nat /\ Cardinality(Users') = Cardinality(Users) + 1
    BY <1>2, <1>3, <1>5, <2>1, UsersAfter
  <2> QED
    BY <1>1, <1>2, <2>2
<1>13. write_count' \in Int
  BY <1>1
<1> QED
  BY <1>1, <1>2, <1>5, <1>6, <1>7, <1>8, <1>9, <1>10, <1>11, <1>12, <1>13, PartsNext

\* A writer takes the place it has found or has been promised, and keeps the lock.
LEMMA WriteStartStep ==
    ASSUME IInv, NEW t \in Writers, WriterRuns(t), InCall(t, "write", id, "get_message"), lock' = t,
           \/ pc[t] = "running" /\ ~NoRoom /\ write_count' = write_count - 1
           \/ pc[t] = "relock" /\ portId[t] = id /\ write_count' = write_count,
           UNCHANGED <<id, sNextPort, capacity, read_count, messages>>, UNCHANGED conditionVars
    PROVE  IInv'
<1>1. /\ ThreadTypes /\ Conditions
      /\ id \in -1 .. MaxId /\ sNextPort \in 0 .. MaxId + 1
      /\ capacity \in Capacities \cup {0} /\ capacity \in Nat
      /\ read_count \in Nat /\ write_count \in Int
      /\ messages \in Seq(0 .. MaxId)
      /\ IdInv /\ PlaceInv /\ EntryInv /\ RoomInv
      /\ PatientReaders => ComingInv
      /\ id # -1 => read_count = Len(messages)
      /\ \A i \in DOMAIN messages : messages[i] = id
      /\ id # -1 /\ capacity # 0 => write_count = capacity - read_count - Cardinality(Users)
  BY Parts, TypeParts
<1>2. /\ id' = id /\ sNextPort' = sNextPort /\ capacity' = capacity /\ read_count' = read_count
      /\ messages' = messages /\ fEntries' = fEntries /\ fVariable' = fVariable
      /\ fWaitStatus' = fWaitStatus /\ wait_status' = wait_status
  BY DEF conditionVars
<1>3. /\ t \in Threads /\ t \notin Readers /\ id # -1 /\ capacity # 0 /\ lock = NoThread
      /\ pc[t] \in {"running", "relock"} /\ \A u \in Threads : u # NoThread
  BY PortAssumption DEF WriterRuns
<1>4. Detached(t)
  BY <1>1, <1>3, RunnerDetached
<1>5. /\ ThreadTypes' /\ OthersKeep(t)
      /\ pc'[t] = "get_message" /\ call'[t] = "write" /\ portId'[t] = id
  <2>1. "write" \in Calls /\ "get_message" \in PCs
    BY DEF Calls, PCs
  <2> QED
    BY <1>1, <1>3, <2>1, CallEffect
<1>6. Conditions'
  BY <1>1, <1>2, StatusOnly DEF Conditions, ConditionTypeOK
<1>7. IdInv' /\ id < sNextPort
  BY <1>1, <1>2, <1>3 DEF IdInv
<1>8. PlaceInv'
  <2>1. PlaceOf(t)'
    BY <1>2, <1>3, <1>5, <1>7 DEF PlaceOf
  <2>2. ASSUME NEW u \in Threads, u # t PROVE PlaceOf(u)'
    <3>1. PlaceOf(u) /\ lock # u /\ lock' # u
      BY <1>1, <1>3, <2>2 DEF PlaceInv
    <3> QED
      BY <1>2, <1>5, <2>2, <3>1 DEF PlaceOf, OthersKeep
  <2> QED
    BY <2>1, <2>2 DEF PlaceInv
<1>9. EntryInv'
  <2>1. EntryOf(t)'
    BY <1>2, <1>4, <1>5 DEF EntryOf, Detached
  <2>2. ASSUME NEW u \in Threads, u # t PROVE EntryOf(u)'
    BY <1>1, <1>2, <1>3, <1>5, <2>2, EntryKept
  <2> QED
    BY <2>1, <2>2 DEF EntryInv
<1>10. RoomInv'
  <2>1. CASE write_count' = write_count
    BY <1>1, <1>2, <2>1, RoomSame
  <2>2. CASE ~NoRoom
    <3>1. Cardinality(QueuedWriters) \in Nat
      BY <1>2, <1>3, QueuedAfter
    <3>2. QueuedWriters = {}
      BY <1>1, <2>2, <3>1 DEF RoomInv, NoRoom
    <3>3. QueuedWriters' = {}
      BY <1>2, <3>2 DEF QueuedWriters
    <3> QED
      BY <3>3 DEF RoomInv
  <2> QED
    BY <2>1, <2>2
<1>11. PatientReaders => ComingInv'
  BY <1>1, <1>2, <1>3, <1>5, ComingWriter
<1>12. id' # -1 /\ capacity' # 0 => write_count' = capacity' - read_count' - Cardinality(Users')
  <2>1. t \in Users' /\ (t \in Users <=> pc[t] = "relock")
    <3>1. CASE pc[t] = "running"
      BY <1>2, <1>5, <3>1 DEF Users
    <3>2. CASE pc[t] # "running" /\ portId[t] = id
      BY <1>2, <1>3, <1>5, <3>2 DEF Users
    <3> QED
      BY <3>1, <3>2
  <2>2. /\ Cardinality(Users) \in Nat /\ Cardinality(Users') \in Nat
        /\ Cardinality(Users') = Cardinality(Users) + (IF t \in Users' THEN 1 ELSE 0)
                                                    - (IF t \in Users THEN 1 ELSE 0)
    BY <1>2, <1>3, <1>5, UsersAfter
  <2>3. CASE pc[t] = "relock"
    <3>1. Cardinality(Users') = Cardinality(Users) /\ write_count' = write_count
      BY <2>1, <2>2, <2>3
    <3> QED
      BY <1>1, <1>2, <2>2, <3>1
  <2>4. CASE pc[t] # "relock"
    <3>1. Cardinality(Users') = Cardinality(Users) + 1 /\ write_count' = write_count - 1
      BY <2>1, <2>2, <2>4
    <3> QED
      BY <1>1, <1>2, <2>2, <3>1
  <2> QED
    BY <2>3, <2>4
<1>13. write_count' \in Int /\ lock' \in Writers \cup {NoThread}
  BY <1>1
<1> QED
  BY <1>1, <1>2, <1>5, <1>6, <1>7, <1>8, <1>9, <1>10, <1>11, <1>12, <1>13, PartsNext

\* A writer that is done with the lock, or has it again after its wait, and whose
\* port is still there.
WriterHolds(t) ==
    /\ t \in Writers /\ portId[t] = id /\ capacity # 0
    /\ (pc[t] = "relock" /\ lock = NoThread) \/ (pc[t] = "get_message" /\ lock = t)

LEMMA HolderFacts ==
    ASSUME PlaceInv, EntryInv, NEW t \in Threads, WriterHolds(t)
    PROVE  Detached(t) /\ id # -1 /\ t \in Users /\ \A u \in Threads : u # t => lock # u
<1>1. PlaceOf(t) /\ EntryOf(t) /\ t \in Writers /\ portId[t] = id /\ pc[t] \in {"relock", "get_message"}
  BY DEF WriterHolds, PlaceInv, EntryInv
<1>2. Detached(t)
  BY <1>1 DEF EntryOf
<1>3. id # -1
  BY <1>1 DEF PlaceOf
<1>4. t \in Users
  BY <1>1 DEF Users
<1>5. \A u \in Threads : u # t => lock # u
  BY PortAssumption DEF WriterHolds
<1> QED
  BY <1>2, <1>3, <1>4, <1>5

LEMMA WriteErrorStep ==
    ASSUME IInv, NEW t \in Threads, WriterHolds(t), WriteError(t), lock' = NoThread
    PROVE  IInv'
<1>1. /\ ThreadTypes /\ Conditions
      /\ id \in -1 .. MaxId /\ sNextPort \in 0 .. MaxId + 1 /\ sNextPort \in Nat
      /\ capacity \in Capacities \cup {0} /\ capacity \in Nat
      /\ read_count \in Nat /\ write_count \in Int
      /\ messages \in Seq(0 .. MaxId)
      /\ IdInv /\ PlaceInv /\ EntryInv /\ RoomInv
      /\ PatientReaders => ComingInv
      /\ id # -1 => read_count = Len(messages)
      /\ \A i \in DOMAIN messages : messages[i] = id
      /\ id # -1 /\ capacity # 0 => write_count = capacity - read_count - Cardinality(Users)
  BY Parts, TypeParts
<1>2. /\ id' = id /\ sNextPort' = sNextPort /\ capacity' = capacity /\ read_count' = read_count
      /\ messages' = messages /\ write_count' = write_count + 1 /\ Return(t)
      /\ Notify(First("write_condition"), "B_OK")
  BY DEF WriteError, PlaceGivenUp, ErrorNotifies
<1>3. /\ Detached(t) /\ id # -1 /\ t \in Users /\ \A u \in Threads : u # t => lock # u
      /\ t \in Writers
  BY <1>1, HolderFacts DEF WriterHolds
<1>4. "write_condition" \in Variables /\ "B_OK" \in WaitStatus /\ \A u \in Threads : u # NoThread
  BY PortAssumption DEF WaitStatus
<1>5. ThreadTypes' /\ OthersKeep(t) /\ pc'[t] = "running"
  BY <1>1, <1>2, ReturnEffect
<1>6. Conditions' /\ \E x \in Threads \cup {NoThread} : Told(x, "write_condition", "B_OK")
  BY <1>1, <1>2, <1>4, NotifyFirst
<1>7. PICK x \in Threads \cup {NoThread} : Told(x, "write_condition", "B_OK")
  BY <1>6
<1>8. IdInv'
  BY <1>1, <1>2 DEF IdInv
<1>9. PlaceInv'
  BY <1>1, <1>2, <1>3, <1>4, PlaceReturned
<1>10. EntryInv'
  BY <1>1, <1>2, <1>3, <1>4, <1>5, <1>7, EntriesTold
<1>11. RoomInv'
  BY <1>1, <1>2, <1>7, RoomTold
<1>12. PatientReaders => ComingInv'
  <2>1. \A u \in Readers : /\ fVariable'[u] = fVariable[u] /\ fWaitStatus'[u] = fWaitStatus[u]
                           /\ wait_status'[u] = wait_status[u]
    BY <1>1, <1>7, ToldWriter
  <2> QED
    BY <1>1, <1>2, <1>3, <1>5, <2>1, ComingWriter
<1>13. id' # -1 /\ capacity' # 0 => write_count' = capacity' - read_count' - Cardinality(Users')
  <2>1. t \notin Users'
    BY <1>5 DEF Users
  <2>2. Cardinality(Users) \in Nat /\ Cardinality(Users') = Cardinality(Users) - 1
    BY <1>2, <1>3, <1>5, <2>1, UsersAfter
  <2> QED
    BY <1>1, <1>2, <2>2
<1>14. write_count' \in Int /\ lock' \in Writers \cup {NoThread}
  BY <1>1, <1>2
<1> QED
  BY <1>1, <1>2, <1>5, <1>6, <1>8, <1>9, <1>10, <1>11, <1>12, <1>13, <1>14, PartsNext

LEMMA AddStep ==
    ASSUME IInv, NEW t \in Threads, writev_port_add(t)
    PROVE  IInv'
<1>1. /\ ThreadTypes /\ Conditions
      /\ id \in -1 .. MaxId /\ sNextPort \in 0 .. MaxId + 1 /\ sNextPort \in Nat
      /\ capacity \in Capacities \cup {0} /\ capacity \in Nat
      /\ read_count \in Nat /\ write_count \in Int
      /\ messages \in Seq(0 .. MaxId) /\ lock \in Writers \cup {NoThread}
      /\ IdInv /\ PlaceInv /\ EntryInv /\ RoomInv
      /\ PatientReaders => ComingInv
      /\ id # -1 => read_count = Len(messages)
      /\ \A i \in DOMAIN messages : messages[i] = id
      /\ id # -1 /\ capacity # 0 => write_count = capacity - read_count - Cardinality(Users)
  BY Parts, TypeParts
<1>2. /\ id' = id /\ sNextPort' = sNextPort /\ capacity' = capacity /\ read_count' = read_count + 1
      /\ messages' = Append(messages, portId[t]) /\ write_count' = write_count /\ Return(t)
      /\ Notify(First("read_condition"), "B_OK") /\ lock' = NoThread /\ pc[t] = "get_message"
  BY DEF writev_port_add
<1>3. WriterHolds(t)
  <2>1. PlaceOf(t) /\ t # NoThread
    BY <1>1, PortAssumption DEF PlaceInv
  <2> QED
    BY <1>1, <1>2, <2>1 DEF PlaceOf, WriterHolds
<1>4. /\ Detached(t) /\ id # -1 /\ t \in Users /\ \A u \in Threads : u # t => lock # u
      /\ t \in Writers /\ portId[t] = id
  BY <1>1, <1>3, HolderFacts DEF WriterHolds
<1>5. "read_condition" \in Variables /\ "B_OK" \in WaitStatus /\ \A u \in Threads : u # NoThread
  BY PortAssumption DEF WaitStatus
<1>6. ThreadTypes' /\ OthersKeep(t) /\ pc'[t] = "running"
  BY <1>1, <1>2, ReturnEffect
<1>7. Conditions' /\ \E x \in Threads \cup {NoThread} : Told(x, "read_condition", "B_OK")
  BY <1>1, <1>2, <1>5, NotifyFirst
<1>8. PICK x \in Threads \cup {NoThread} : Told(x, "read_condition", "B_OK")
  BY <1>7
<1>9. IdInv'
  BY <1>1, <1>2, <1>4 DEF IdInv
<1>10. PlaceInv'
  BY <1>1, <1>2, <1>4, <1>5, PlaceReturned
<1>11. EntryInv'
  BY <1>1, <1>2, <1>4, <1>5, <1>6, <1>8, EntriesTold
<1>12. RoomInv'
  BY <1>1, <1>2, <1>8, ToldReader
<1>13. PatientReaders => ComingInv'
  <2>1. read_count' = read_count + (IF t \in Writers THEN 1 ELSE 0)
    BY <1>1, <1>2, <1>4
  <2> QED
    BY <1>1, <1>2, <1>4, <1>6, <1>8, <2>1, ComingTold
<1>14. id' # -1 /\ capacity' # 0 => write_count' = capacity' - read_count' - Cardinality(Users')
  <2>1. t \notin Users'
    BY <1>6 DEF Users
  <2>2. Cardinality(Users) \in Nat /\ Cardinality(Users') = Cardinality(Users) - 1
    BY <1>2, <1>4, <1>6, <2>1, UsersAfter
  <2> QED
    BY <1>1, <1>2, <2>2
<1>15. /\ messages' \in Seq(0 .. MaxId) /\ Len(messages') = Len(messages) + 1
       /\ \A i \in DOMAIN messages' : messages'[i] = id'
  <2>1. id \in 0 .. MaxId /\ messages' = Append(messages, id)
    BY <1>1, <1>2, <1>4
  <2> QED
    BY <1>1, <1>2, <2>1
<1>16. read_count' \in Nat /\ (id' # -1 => read_count' = Len(messages'))
  BY <1>1, <1>2, <1>4, <1>15
<1>17. lock' \in Writers \cup {NoThread}
  BY <1>2
<1> QED
  BY <1>1, <1>2, <1>6, <1>7, <1>9, <1>10, <1>11, <1>12, <1>13, <1>14, <1>15, <1>16, <1>17, PartsNext

LEMMA NoMemoryStep ==
    ASSUME IInv, NEW t \in Threads, writev_port_no_memory(t)
    PROVE  IInv'
<1>1. pc[t] = "get_message" /\ WriteError(t) /\ lock' = NoThread
  BY DEF writev_port_no_memory
<1>2. PlaceOf(t) /\ lock \in Writers \cup {NoThread} /\ t # NoThread
  BY Parts, TypeParts, PortAssumption DEF PlaceInv
<1>3. WriterHolds(t)
  BY <1>1, <1>2 DEF PlaceOf, WriterHolds
<1> QED
  BY <1>1, <1>3, WriteErrorStep

LEMMA WriteStep ==
    ASSUME IInv, NEW t \in Writers, writev_port_etc(t)
    PROVE  IInv'
<1>1. /\ pc[t] = "running" /\ write_count' = write_count - 1
      /\ UNCHANGED <<id, sNextPort, capacity, read_count, messages>>
      /\ \/ NoRoom /\ Add(t, "write_condition") /\ InCall(t, "write", id, "added") /\ UNCHANGED lock
         \/ ~NoRoom /\ InCall(t, "write", id, "get_message") /\ lock' = t /\ UNCHANGED conditionVars
  BY DEF writev_port_etc
<1>2. WriterRuns(t)
  BY DEF writev_port_etc, WriterRuns, is_port_closed, Unlocked
<1> QED
  BY <1>1, <1>2, WriteWaitStep, WriteStartStep

LEMMA WriteRelockStep ==
    ASSUME IInv, NEW t \in Threads, writev_port_relock(t)
    PROVE  IInv'
<1>1. pc[t] = "relock" /\ call[t] = "write" /\ lock = NoThread
  BY DEF writev_port_relock, Unlocked
<1>2. PlaceOf(t)
  BY Parts DEF PlaceInv
<1>3. t \in Writers /\ t \notin Readers /\ portId[t] # -1
  BY <1>1, <1>2, PortAssumption DEF PlaceOf
<1>4. CASE /\ WriteGone(portId[t]) /\ Return(t)
           /\ UNCHANGED <<portVars, lock, conditionVars>>
  BY <1>1, <1>3, <1>4, LeaveStep
<1>5. CASE ~WriteGone(portId[t]) /\ WriteError(t) /\ UNCHANGED lock
  <2>1. WriterHolds(t) /\ lock' = NoThread
    BY <1>1, <1>3, <1>5 DEF WriterHolds, WriteGone, is_port_closed
  <2> QED
    BY <1>5, <2>1, WriteErrorStep
<1>6. CASE /\ ~WriteGone(portId[t]) /\ InCall(t, "write", portId[t], "get_message") /\ lock' = t
           /\ UNCHANGED <<portVars, conditionVars>>
  <2>1. portId[t] = id /\ WriterRuns(t)
    BY <1>1, <1>3, <1>6 DEF WriterRuns, WriteGone, is_port_closed
  <2>2. /\ write_count' = write_count /\ UNCHANGED <<id, sNextPort, capacity, read_count, messages>>
        /\ UNCHANGED conditionVars /\ InCall(t, "write", id, "get_message") /\ lock' = t
    BY <1>6, <2>1 DEF portVars
  <2> QED
    BY <1>1, <1>3, <2>1, <2>2, WriteStartStep
<1> QED
  BY <1>4, <1>5, <1>6 DEF writev_port_relock

-----------------------------------------------------------------------------
(***************************************************************************)
(* Waiting.                                                                *)
(***************************************************************************)

\* The steps of a wait leave the port alone.  The writers in it stay; t stays with
\* the port it waits for, and comes if it came.
LEMMA WaitingStep ==
    ASSUME IInv, NEW t \in Threads, OthersKeep(t), ThreadTypes', Conditions',
           UNCHANGED portVars, UNCHANGED lock,
           pc[t] \in {"added", "blocked"}, pc'[t] \in {"added", "blocked", "relock"},
           call'[t] = call[t], portId'[t] = portId[t],
           \A u \in Threads : u # t => /\ fVariable'[u] = fVariable[u]
                                       /\ fWaitStatus'[u] = fWaitStatus[u]
                                       /\ wait_status'[u] = wait_status[u],
           EntryOf(t)', fVariable'[t] \in {fVariable[t], NoVariable},
           Sleeping(t)' => Sleeping(t),
           t \in Readers /\ PatientReaders => (Coming(t) => Coming(t)')
    PROVE  IInv'
<1>1. /\ id \in -1 .. MaxId /\ sNextPort \in 0 .. MaxId + 1
      /\ capacity \in Capacities \cup {0}
      /\ read_count \in Nat /\ write_count \in Int
      /\ messages \in Seq(0 .. MaxId) /\ lock \in Writers \cup {NoThread}
      /\ IdInv /\ PlaceInv /\ EntryInv /\ RoomInv
      /\ PatientReaders => ComingInv
      /\ id # -1 => read_count = Len(messages)
      /\ \A i \in DOMAIN messages : messages[i] = id
      /\ id # -1 /\ capacity # 0 => write_count = capacity - read_count - Cardinality(Users)
  BY Parts, TypeParts
<1>2. /\ id' = id /\ sNextPort' = sNextPort /\ capacity' = capacity /\ read_count' = read_count
      /\ write_count' = write_count /\ messages' = messages /\ lock' = lock
  BY DEF portVars
<1>3. IdInv'
  BY <1>1, <1>2 DEF IdInv
<1>4. PlaceInv'
  <2>1. ASSUME NEW u \in Threads PROVE PlaceOf(u)'
    <3>1. PlaceOf(u)
      BY <1>1 DEF PlaceInv
    <3>2. CASE u = t
      BY <1>2, <3>1, <3>2 DEF PlaceOf
    <3>3. CASE u # t
      BY <1>2, <3>1, <3>3 DEF PlaceOf, OthersKeep
    <3> QED
      BY <3>2, <3>3
  <2> QED
    BY <2>1 DEF PlaceInv
<1>5. \A u \in Threads : u # t =>
         EntryOf(u)' /\ (Coming(u)' <=> Coming(u)) /\ (Sleeping(u)' <=> Sleeping(u))
  BY <1>1, <1>2, EntryKept
<1>6. EntryInv'
  BY <1>5 DEF EntryInv
<1>7. RoomInv'
  <2>1. CASE t \in QueuedWriters /\ t \notin QueuedWriters'
    <3>1. /\ Cardinality(QueuedWriters) \in Nat /\ Cardinality(QueuedWriters') \in Nat
          /\ Cardinality(QueuedWriters') = Cardinality(QueuedWriters) - 1
      BY <2>1, QueuedAfter
    <3>2. write_count + Cardinality(QueuedWriters) <= 0
      BY <1>1, <2>1 DEF RoomInv
    <3>3. write_count' + Cardinality(QueuedWriters)' <= 0
      BY <1>1, <1>2, <3>1, <3>2
    <3> QED
      BY <3>3 DEF RoomInv
  <2>2. CASE ~(t \in QueuedWriters /\ t \notin QueuedWriters')
    <3>1. ASSUME NEW u \in Threads PROVE u \in QueuedWriters' <=> u \in QueuedWriters
      <4>1. CASE u # t
        BY <4>1 DEF QueuedWriters
      <4>2. CASE u = t
        BY <2>2, <4>2, PortAssumption, ConditionVariableAssumption DEF QueuedWriters
      <4> QED
        BY <4>1, <4>2
    <3>2. QueuedWriters' = QueuedWriters
      <4>1. QueuedWriters \subseteq Threads /\ QueuedWriters' \subseteq Threads
        BY PortAssumption DEF QueuedWriters
      <4> QED
        BY <3>1, <4>1
    <3> QED
      BY <1>1, <1>2, <3>2 DEF RoomInv
  <2> QED
    BY <2>1, <2>2
<1>8. PatientReaders => ComingInv'
  <2> SUFFICES ASSUME PatientReaders PROVE ComingInv'
    OBVIOUS
  <2>1. /\ \A u \in Readers : u # t => (Coming(u)' <=> Coming(u))
        /\ \A u \in Readers : Sleeping(u)' => Sleeping(u)
    BY <1>5, PortAssumption
  <2>2. t \in ComingReaders => t \in ComingReaders'
    BY DEF ComingReaders
  <2>3. read_count' + (IF t \in ComingReaders THEN 1 ELSE 0)
          <= read_count + (IF t \in ComingReaders' THEN 1 ELSE 0)
    BY <1>1, <1>2, <2>2
  <2> QED
    BY <1>1, <1>2, <2>1, <2>3, ComingOne
<1>9. Users' = Users
  <2>1. \A u \in Threads : (pc'[u] # "running" <=> pc[u] # "running") /\ portId'[u] = portId[u]
    BY DEF OthersKeep
  <2> QED
    BY <1>2, <2>1, PortAssumption DEF Users
<1> QED
  BY <1>1, <1>2, <1>3, <1>4, <1>6, <1>7, <1>8, <1>9, PartsNext

LEMMA WaitStep ==
    ASSUME IInv, NEW t \in Threads, wait(t)
    PROVE  IInv'
<1>1. ThreadTypes /\ Conditions /\ EntryOf(t) /\ PlaceOf(t)
  BY Parts, TypeParts DEF EntryInv, PlaceInv
<1>2. /\ pc[t] = "added" /\ call' = call /\ portId' = portId
      /\ UNCHANGED portVars /\ UNCHANGED lock /\ id' = id /\ capacity' = capacity
  BY DEF wait, portVars
<1>3. /\ fWaitStatus \in [Threads -> EntryStatus] /\ wait_status \in [Threads -> WaitStatus]
  BY <1>1 DEF Conditions, ConditionTypeOK
<1>4. CASE /\ WaitReturns(t) /\ pc' = [pc EXCEPT ![t] = "relock"]
           /\ status' = [status EXCEPT ![t] = fWaitStatus[t]] /\ UNCHANGED conditionVars
  <2>1. /\ fEntries' = fEntries /\ fVariable' = fVariable
        /\ fWaitStatus' = fWaitStatus /\ wait_status' = wait_status
    BY <1>4 DEF conditionVars
  <2>2. ThreadTypes' /\ OthersKeep(t) /\ pc'[t] = "relock" /\ status'[t] = fWaitStatus[t]
    BY <1>1, <1>2, <1>3, <1>4 DEF ThreadTypes, OthersKeep, PCs
  <2>3. Conditions'
    BY <1>1, <1>3, <2>1, StatusOnly
  <2>4. Detached(t) /\ Detached(t)'
    BY <1>4, <2>1 DEF WaitReturns, Detached
  <2>5. EntryOf(t)' /\ ~Sleeping(t)'
    BY <2>2, <2>4 DEF EntryOf, Sleeping
  <2>6. Coming(t) => Coming(t)'
    BY <1>2, <2>2 DEF Coming
  <2> QED
    BY <1>2, <2>1, <2>2, <2>3, <2>5, <2>6, WaitingStep
<1>5. CASE WaitBlocks(t) /\ pc' = [pc EXCEPT ![t] = "blocked"] /\ UNCHANGED status
  <2>1. /\ fEntries' = fEntries /\ fVariable' = fVariable /\ ~Detached(t)
        /\ fWaitStatus' = [fWaitStatus EXCEPT ![t] = "STATUS_WAITING"]
        /\ wait_status' = [wait_status EXCEPT ![t] = "waiting"]
    BY <1>5 DEF WaitBlocks, WaitReturns, thread_prepare_to_block
  <2>2. ThreadTypes' /\ OthersKeep(t) /\ pc'[t] = "blocked"
    BY <1>1, <1>2, <1>5 DEF ThreadTypes, OthersKeep, PCs
  <2>3. Conditions'
    BY <1>1, <1>3, <2>1, StatusOnly DEF EntryStatus, WaitStatus
  <2>4. fWaitStatus'[t] = "STATUS_WAITING" /\ wait_status'[t] = "waiting"
    BY <1>3, <2>1
  <2>5. EntryOf(t)'
    BY <1>1, <1>2, <2>1, <2>2, <2>4 DEF EntryOf, Detached
  <2>6. Sleeping(t) /\ ~Coming(t)
    BY <1>2, <2>1 DEF Sleeping, Coming
  <2>7. \A u \in Threads : u # t => fWaitStatus'[u] = fWaitStatus[u] /\ wait_status'[u] = wait_status[u]
    BY <1>3, <2>1
  <2> QED
    BY <1>2, <2>1, <2>2, <2>3, <2>5, <2>6, <2>7, WaitingStep
<1> QED
  BY <1>4, <1>5 DEF wait

LEMMA WaitReturnStep ==
    ASSUME IInv, NEW t \in Threads, wait_return(t)
    PROVE  IInv'
<1>1. ThreadTypes /\ Conditions
  BY Parts, TypeParts
<1>2. /\ pc[t] = "blocked" /\ WaitEnds(t) /\ call' = call /\ portId' = portId
      /\ pc' = [pc EXCEPT ![t] = "relock"] /\ status' = [status EXCEPT ![t] = wait_status[t]]
      /\ UNCHANGED portVars /\ UNCHANGED lock /\ id' = id
  BY DEF wait_return, portVars
<1>3. /\ Conditions'
      /\ fVariable'[t] = NoVariable /\ wait_status[t] # "waiting"
      /\ \A u \in Threads : u # t => /\ fVariable'[u] = fVariable[u]
                                     /\ fWaitStatus'[u] = fWaitStatus[u]
                                     /\ wait_status'[u] = wait_status[u]
  BY <1>1, <1>2, EndWait
<1>4. wait_status[t] \in EntryStatus
  BY <1>1 DEF Conditions, ConditionTypeOK, EntryStatus
<1>5. ThreadTypes' /\ OthersKeep(t) /\ pc'[t] = "relock" /\ status'[t] = wait_status[t]
  BY <1>1, <1>2, <1>4 DEF ThreadTypes, OthersKeep, PCs
<1>6. EntryOf(t)' /\ ~Sleeping(t)'
  BY <1>3, <1>5 DEF EntryOf, Sleeping, Detached
<1>7. Coming(t) => Coming(t)'
  BY <1>2, <1>5 DEF Coming
<1> QED
  BY <1>2, <1>3, <1>5, <1>6, <1>7, WaitingStep

\* A wait that times out keeps its entry until the thread takes it out itself.
LEMMA TimeoutStep ==
    ASSUME IInv, NEW t \in Threads, thread_block_timeout(t)
    PROVE  IInv'
<1>1. ThreadTypes /\ Conditions /\ EntryOf(t)
  BY Parts, TypeParts DEF EntryInv
<1>2. /\ pc[t] = "blocked" /\ t \in Impatient /\ wait_status[t] = "waiting"
      /\ wait_status' = [wait_status EXCEPT ![t] = "B_TIMED_OUT"]
      /\ pc' = pc /\ call' = call /\ portId' = portId /\ status' = status
      /\ fEntries' = fEntries /\ fVariable' = fVariable /\ fWaitStatus' = fWaitStatus
      /\ UNCHANGED portVars /\ UNCHANGED lock /\ id' = id /\ capacity' = capacity
  BY DEF thread_block_timeout, thread_is_blocked, thread_unblock_locked, threadVars, portVars
<1>3. /\ fWaitStatus \in [Threads -> EntryStatus] /\ wait_status \in [Threads -> WaitStatus]
  BY <1>1 DEF Conditions, ConditionTypeOK
<1>4. wait_status'[t] = "B_TIMED_OUT" /\ \A u \in Threads : u # t => wait_status'[u] = wait_status[u]
  BY <1>2, <1>3
<1>5. Conditions'
  BY <1>1, <1>2, <1>3, StatusOnly DEF WaitStatus
<1>6. ThreadTypes' /\ OthersKeep(t)
  BY <1>1, <1>2 DEF ThreadTypes, OthersKeep
<1>7. EntryOf(t)'
  BY <1>1, <1>2, <1>4 DEF EntryOf, Detached
<1>8. ~Sleeping(t)' /\ ~Coming(t)
  BY <1>2, <1>4 DEF Sleeping, Coming, thread_is_blocked
<1> QED
  BY <1>2, <1>4, <1>5, <1>6, <1>7, <1>8, WaitingStep

-----------------------------------------------------------------------------
(***************************************************************************)
(* The invariant, and the theorems.                                        *)
(***************************************************************************)
LEMMA InitIInv ==
    ASSUME Init
    PROVE  IInv
<1>0. /\ id = -1 /\ sNextPort = 0 /\ capacity = 0 /\ read_count = 0 /\ write_count = 0
      /\ messages = <<>> /\ lock = NoThread
      /\ pc = [t \in Threads |-> "running"] /\ call = [t \in Threads |-> "none"]
      /\ portId = [t \in Threads |-> -1] /\ status = [t \in Threads |-> "B_OK"]
      /\ fEntries = [v \in Variables |-> <<>>] /\ fVariable = [t \in Threads |-> NoVariable]
      /\ fWaitStatus = [t \in Threads |-> "B_OK"] /\ wait_status = [t \in Threads |-> "B_OK"]
  BY DEF Init, ConditionInit
<1>1. ConditionTypeOK
  <2>1. fEntries \in [Variables -> Seq(Threads)] /\ fVariable \in [Threads -> Variables \cup {NoVariable}]
    BY <1>0
  <2>2. fWaitStatus \in [Threads -> EntryStatus] /\ wait_status \in [Threads -> WaitStatus]
    BY <1>0 DEF EntryStatus, WaitStatus
  <2> QED
    BY <2>1, <2>2 DEF ConditionTypeOK
<1>2. TypeOK
  <2>1. id \in -1 .. MaxId /\ sNextPort \in 0 .. MaxId + 1 /\ messages \in Seq(0 .. MaxId)
    BY <1>0, PortAssumption
  <2>2. /\ pc \in [Threads -> {"running", "added", "blocked", "relock", "get_message"}]
        /\ call \in [Threads -> ReadCalls \cup {"write", "none"}]
    BY <1>0
  <2>3. portId \in [Threads -> -1 .. MaxId]
    BY <1>0, PortAssumption
  <2>4. status \in [Threads -> EntryStatus]
    BY <1>0 DEF EntryStatus, WaitStatus
  <2> QED
    BY <1>0, <1>1, <2>1, <2>2, <2>3, <2>4 DEF TypeOK
<1>3. IdInv
  BY <1>0, PortAssumption DEF IdInv
<1>4. \A t \in Threads : /\ pc[t] = "running" /\ portId[t] = -1 /\ Detached(t) /\ lock # t
                         /\ fVariable[t] = NoVariable
  BY <1>0, PortAssumption DEF Detached
<1>5. PlaceInv
  BY <1>0, <1>4 DEF PlaceInv, PlaceOf
<1>6. EntriesInv
  <2>1. \A v \in Variables : DOMAIN fEntries[v] = {}
    BY <1>0
  <2> QED
    BY <1>4, <2>1, ConditionVariableAssumption DEF EntriesInv, InQueue
<1>7. EntryInv
  BY <1>4 DEF EntryInv, EntryOf
<1>8. MessagesInv
  BY <1>0 DEF MessagesInv
<1>9. RoomInv
  <2>1. QueuedWriters = {}
    BY <1>4, PortAssumption, ConditionVariableAssumption DEF QueuedWriters
  <2> QED
    BY <2>1 DEF RoomInv
<1>10. ComingInv
  BY <1>0 DEF ComingInv
<1> QED
  BY <1>2, <1>3, <1>5, <1>6, <1>7, <1>8, <1>9, <1>10 DEF IInv

LEMMA StutterStep ==
    ASSUME IInv, UNCHANGED vars
    PROVE  IInv'
<1>1. /\ id' = id /\ sNextPort' = sNextPort /\ capacity' = capacity /\ read_count' = read_count
      /\ write_count' = write_count /\ messages' = messages /\ lock' = lock
      /\ pc' = pc /\ call' = call /\ portId' = portId /\ status' = status
      /\ fEntries' = fEntries /\ fVariable' = fVariable
      /\ fWaitStatus' = fWaitStatus /\ wait_status' = wait_status
  BY DEF vars, portVars, threadVars, conditionVars
<1>2. TypeOK' /\ IdInv' /\ EntriesInv' /\ MessagesInv' /\ RoomInv'
  <2>1. TypeOK'
    BY <1>1 DEF IInv, TypeOK, ConditionTypeOK
  <2>2. IdInv' /\ EntriesInv'
    BY <1>1 DEF IInv, IdInv, EntriesInv, InQueue
  <2>3. MessagesInv'
    BY <1>1 DEF IInv, MessagesInv, is_port_closed
  <2>4. RoomInv'
    BY <1>1 DEF IInv, RoomInv, QueuedWriters
  <2> QED
    BY <2>1, <2>2, <2>3, <2>4
<1>3. PlaceInv' /\ EntryInv'
  BY <1>1 DEF IInv, PlaceInv, PlaceOf, EntryInv, EntryOf, Detached
<1>4. (PatientReaders => ComingInv)'
  BY <1>1 DEF IInv, PatientReaders, ComingInv, ComingReaders, Coming, Sleeping, Detached, thread_is_blocked
<1> QED
  BY <1>2, <1>3, <1>4 DEF IInv

LEMMA NextIInv ==
    ASSUME IInv, [Next]_vars
    PROVE  IInv'
<1>1. ASSUME NEW queueLength \in Capacities, create_port(queueLength) PROVE IInv'
  BY <1>1, CreateStep
<1>2. CASE close_port \/ delete_port
  BY <1>2, GoneStep
<1>3. ASSUME NEW t \in Threads, ThreadStep(t) PROVE IInv'
  BY <1>3, WaitStep, WaitReturnStep, ReadRelockStep, WriteRelockStep, AddStep, NoMemoryStep DEF ThreadStep
<1>4. ASSUME NEW t \in Threads, thread_block_timeout(t) PROVE IInv'
  BY <1>4, TimeoutStep
<1>5. ASSUME NEW t \in Readers, NEW c \in ReadCalls, read_port_etc(t, c) PROVE IInv'
  BY <1>5, ReadStep
<1>6. ASSUME NEW t \in Writers, writev_port_etc(t) PROVE IInv'
  BY <1>6, WriteStep
<1>7. CASE UNCHANGED vars
  BY <1>7, StutterStep
<1> QED
  BY <1>1, <1>2, <1>3, <1>4, <1>5, <1>6, <1>7 DEF Next

LEMMA SpecIInv == Spec => []IInv
<1>1. Init => IInv
  BY InitIInv
<1>2. IInv /\ [Next]_vars => IInv'
  BY NextIInv
<1> QED
  BY <1>1, <1>2, PTL DEF Spec

\* The variables of a port, of the threads that use it and of its two conditions
\* keep their types; read_count never falls below 0.
THEOREM PortTypes == Spec => []TypeOK
<1>1. IInv => TypeOK
  BY DEF IInv
<1> QED
  BY <1>1, SpecIInv, PTL

LEMMA ReachableSleepers ==
    ASSUME IInv
    PROVE  SleepersReachable
<1>1. EntriesInv
  BY DEF IInv
<1>2. ASSUME NEW t \in Threads
      PROVE  /\ pc[t] = "blocked" /\ thread_is_blocked(wait_status, t) => Sleeping(t)
             /\ Sleeping(t) => portId[t] = id /\ ~is_port_closed
  <2>1. EntryOf(t)
    BY DEF IInv, EntryInv
  <2> QED
    BY <2>1 DEF EntryOf, Sleeping, thread_is_blocked, is_port_closed
<1> QED
  BY <1>1, <1>2 DEF SleepersReachable

\* Whatever the order in which ports are closed, deleted and created, waits time
\* out and notifications arrive: an entry is in exactly the condition it names, once,
\* and nobody sleeps in read_port_etc() or writev_port_etc() without one, or for a
\* port that has been closed or is gone.
THEOREM NobodySleepsUnreachable == Spec => []SleepersReachable
<1>1. IInv => SleepersReachable
  BY ReachableSleepers
<1> QED
  BY <1>1, SpecIInv, PTL

\* read_count is the number of messages in the queue, so that read_port_etc() always
\* finds one; they were all written to this port; and write_count is the port's
\* capacity less the messages and the writers that have, or wait for, a place.
THEOREM PortCountsItsMessages == Spec => []MessagesInv
<1>1. IInv => MessagesInv
  BY DEF IInv
<1> QED
  BY <1>1, SpecIInv, PTL

\* While a writer sleeps, the queue is full with the messages and the writers that
\* are on their way.
LEMMA SleepingWriters ==
    ASSUME IInv, id # -1, NEW w \in Writers, Sleeping(w)
    PROVE  read_count + Cardinality({t \in Writers : /\ portId[t] = id
                                                     /\ pc[t] # "running"
                                                     /\ ~Sleeping(t)}) >= capacity
<1> DEFINE S == {t \in Writers : Sleeping(t)}
           I == {t \in Writers : portId[t] = id /\ pc[t] # "running" /\ ~Sleeping(t)}
<1>1. /\ EntryInv /\ RoomInv /\ read_count \in Nat /\ write_count \in Int /\ capacity \in Nat
      /\ id # -1 /\ capacity # 0 => write_count = capacity - read_count - Cardinality(Users)
  BY Parts, TypeParts
<1>2. ASSUME NEW t \in Writers, Sleeping(t)
      PROVE  /\ fVariable[t] = "write_condition" /\ portId[t] = id /\ capacity # 0
             /\ pc[t] # "running"
  <2>1. t \in Threads /\ t \notin Readers
    BY PortAssumption
  <2>2. EntryOf(t)
    BY <1>1, <2>1 DEF EntryInv
  <2> QED
    BY <1>2, <2>1, <2>2 DEF EntryOf, Sleeping, ConditionOf
<1>3. S \subseteq QueuedWriters /\ Users = S \cup I /\ S \cap I = {} /\ w \in QueuedWriters
  BY <1>2 DEF QueuedWriters, Users
<1>4. IsFiniteSet(S) /\ IsFiniteSet(I) /\ IsFiniteSet(QueuedWriters)
  <2>1. S \subseteq Threads /\ I \subseteq Threads /\ QueuedWriters \subseteq Threads /\ IsFiniteSet(Threads)
    BY PortAssumption DEF QueuedWriters
  <2> HIDE DEF S, I
  <2> QED
    BY <2>1, FS_Subset
<1> HIDE DEF S, I
<1>5. /\ Cardinality(S) \in Nat /\ Cardinality(I) \in Nat /\ Cardinality(QueuedWriters) \in Nat
      /\ Cardinality(S) <= Cardinality(QueuedWriters)
      /\ Cardinality(Users) = Cardinality(S) + Cardinality(I)
  <2>1. Cardinality(S) <= Cardinality(QueuedWriters)
    BY <1>3, <1>4, FS_Subset
  <2>2. Cardinality(Users) = Cardinality(S) + Cardinality(I)
    BY <1>3, <1>4, CardDisjoint
  <2> QED
    BY <1>4, <2>1, <2>2, FS_CardinalityType
<1>6. write_count + Cardinality(QueuedWriters) <= 0
  BY <1>1, <1>3 DEF RoomInv
<1>7. write_count = capacity - read_count - Cardinality(Users)
  BY <1>1, <1>2
<1>8. read_count + Cardinality(I) >= capacity
  BY <1>1, <1>5, <1>6, <1>7
<1> QED
  BY <1>8 DEF I

\* The writers' half of it needs nothing of the readers: whatever times out, while a
\* writer sleeps in writev_port_etc() no place in the queue is free that has not been
\* promised to a writer on its way.
THEOREM NoWriterIsForgotten ==
    Spec => [](id # -1 /\ (\E w \in Writers : Sleeping(w)) =>
                  read_count + Cardinality({t \in Writers : /\ portId[t] = id
                                                            /\ pc[t] # "running"
                                                            /\ ~Sleeping(t)}) >= capacity)
<1>1. IInv => (id # -1 /\ (\E w \in Writers : Sleeping(w)) =>
                  read_count + Cardinality({t \in Writers : /\ portId[t] = id
                                                            /\ pc[t] # "running"
                                                            /\ ~Sleeping(t)}) >= capacity)
  BY SleepingWriters
<1> QED
  BY <1>1, SpecIInv, PTL

\* No notification is lost or given to the wrong thread, if readers use no timeouts
\* and are not interrupted: while a reader sleeps, enough others are on their way to
\* read all messages there are; and, whatever the writers do, while a writer sleeps
\* the messages and the writers on their way fill the queue.
THEOREM NobodyIsForgotten ==
    PatientReaders => (Spec => []NobodyForgotten)
<1> SUFFICES ASSUME PatientReaders PROVE Spec => []NobodyForgotten
  OBVIOUS
<1>1. IInv => NobodyForgotten
  <2> SUFFICES ASSUME IInv PROVE NobodyForgotten
    OBVIOUS
  <2>1. ASSUME id # -1, NEW s \in Readers, Sleeping(s)
        PROVE  Cardinality({t \in Readers : Coming(t)}) >= read_count
    BY <2>1 DEF IInv, ComingInv, ComingReaders
  <2>2. ASSUME id # -1, NEW w \in Writers, Sleeping(w)
        PROVE  read_count + Cardinality({t \in Writers : /\ portId[t] = id
                                                         /\ pc[t] # "running"
                                                         /\ ~Sleeping(t)}) >= capacity
    BY <2>2, SleepingWriters
  <2> QED
    BY <2>1, <2>2 DEF NobodyForgotten
<1> QED
  BY <1>1, SpecIInv, PTL

=============================================================================
