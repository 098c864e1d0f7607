------------------------------ MODULE SemTable ------------------------------
(***************************************************************************)
(* The table of semaphores of src/system/kernel/sem.cpp: slots, ids, the   *)
(* free list and the list of the semaphores each team owns.                *)
(*                                                                         *)
(* A slot is protected by its own spinlock, the free list by               *)
(* sSemsSpinlock, the teams' lists by gTeamSpinlock.  Creating and         *)
(* deleting a semaphore takes two of these sections each, and deleting all *)
(* semaphores of a team that goes away or calls exec() four steps for      *)
(* every one of them.  Each section is a step.                             *)
(*                                                                         *)
(* sem_delete_owned_sems() takes the semaphores from its list without a    *)
(* lock, while others may delete or move the same semaphores.  Where they  *)
(* meet in the same links or the same semaphore, what follows depends on   *)
(* overwritten memory; the history variable clash records that they have.  *)
(* The properties are about what happens as long as they have not; after a *)
(* clash the calls under way go on, and no others begin.                   *)
(***************************************************************************)
EXTENDS Integers, Sequences, SequencesExt, FiniteSetsExt

CONSTANTS
    Callers,
    Teams,
    NoTeam,
    MaxSems,            \* sMaxSems
    MaxId               \* the largest sem_id (INT32_MAX)

ASSUME SemTableAssumption ==
    /\ MaxSems \in Nat \ {0}
    /\ MaxId \in Nat /\ MaxId >= MaxSems
    /\ NoTeam \notin Teams
    /\ Callers \cap Teams = {}

Slots == 0 .. MaxSems - 1
SemIds == 0 .. MaxId

VARIABLES
    id,             \* sem_entry.id, -1 when the slot is unused
    next_id,        \* sem_entry.u.unused.next_id
    owner,          \* sem_entry.u.used.owner
    free,           \* the free list, head first
    used,           \* sUsedSems
    sem_list,       \* team.sem_list
    dying,          \* the teams whose deletion has begun
    moved,          \* the list sem_delete_owned_sems() works through
    callerPc,       \* a thread: "running", "insert", "free"
    slot,           \* the slot it works on
    teamPc,         \* sem_delete_owned_sems(): "idle", "next", "unlink", "uninit",
                    \* "free"
    current,        \* the slot it works on
    freed,          \* the id of the semaphore a thread or a team is deleting
    clash           \* history: somebody interfered with sem_delete_owned_sems()

tableVars == <<id, next_id, owner, free, used, sem_list, moved>>
semTableVars == <<tableVars, dying, callerPc, slot, teamPc, current, freed, clash>>

Actors == Callers \cup Teams

TableTypeOK ==
    /\ id \in [Slots -> SemIds \cup {-1}]
    /\ next_id \in [Slots -> SemIds]
    /\ owner \in [Slots -> Teams \cup {NoTeam}]
    /\ free \in Seq(Slots)
    /\ used \in 0 .. MaxSems
    /\ sem_list \in [Teams -> Seq(Slots)]
    /\ dying \subseteq Teams
    /\ moved \in [Teams -> Seq(Slots)]
    /\ callerPc \in [Callers -> {"running", "insert", "free"}]
    /\ slot \in [Callers -> Slots]
    /\ teamPc \in [Teams -> {"idle", "next", "unlink", "uninit", "free"}]
    /\ current \in [Teams -> Slots]
    /\ freed \in [Actors -> SemIds \cup {-1}]
    /\ clash \in BOOLEAN

\* haiku_sem_init()
TableInit ==
    /\ id = [s \in Slots |-> -1]
    /\ next_id = [s \in Slots |-> s]
    /\ owner = [s \in Slots |-> NoTeam]
    /\ free = [i \in 1 .. MaxSems |-> i - 1]
    /\ used = 0
    /\ sem_list = [team \in Teams |-> <<>>]
    /\ dying = {}
    /\ moved = [team \in Teams |-> <<>>]
    /\ callerPc = [t \in Callers |-> "running"]
    /\ slot = [t \in Callers |-> 0]
    /\ teamPc = [team \in Teams |-> "idle"]
    /\ current = [team \in Teams |-> 0]
    /\ freed = [a \in Actors |-> -1]
    /\ clash = FALSE

-----------------------------------------------------------------------------

\* id % sMaxSems as C computes it: the remainder has the sign of id.
SlotOf(semId) == IF semId >= 0 THEN semId % MaxSems ELSE -((-semId) % MaxSems)

\* Mutant: the ids start again at zero, whatever the slot.
NextIdMutant(semId) == IF semId + MaxSems > MaxId THEN 0 ELSE semId + MaxSems

\* id + sMaxSems; a sum above INT32_MAX is negative, and the slot itself is
\* the id then.
NextId(semId) ==
    IF semId + MaxSems > MaxId THEN SlotOf(semId) ELSE semId + MaxSems

\* list_remove_link(): the slot leaves the list it is in.
Unlink(s) ==
    /\ sem_list' = [team \in Teams |-> RemoveFirst(sem_list[team], s)]
    /\ moved' = [team \in Teams |-> RemoveFirst(moved[team], s)]

\* Mutant: sUsedSems keeps counting the semaphore.
FreeSlotMutant(semId) ==
    /\ free' = Append(free, SlotOf(semId))
    /\ next_id' = [s \in Slots |-> IF s = SlotOf(semId) THEN NextId(semId)
                                   ELSE next_id[s]]
    /\ UNCHANGED used

\* free_sem_slot() and the decrement of sUsedSems, under sSemsSpinlock.
FreeSlot(semId) ==
    /\ free' = Append(free, SlotOf(semId))
    /\ next_id' = [s \in Slots |-> IF s = SlotOf(semId) THEN NextId(semId)
                                   ELSE next_id[s]]
    /\ used' = used - 1

\* The thread t may call any function.
MayCall(t) == callerPc[t] = "running" /\ ~clash

\* create_sem_etc(): takes the first free slot.  If the team is not the
\* kernel's or the caller's own, its list is locked and gets the slot at once.
create_sem_etc(t, team, teamsLocked) ==
    LET s == Head(free) IN
    /\ MayCall(t)
    /\ team \notin dying
    /\ used # MaxSems
    /\ free # <<>>
    /\ free' = Tail(free)
    /\ id' = [id EXCEPT ![s] = next_id[s]]
    /\ owner' = [owner EXCEPT ![s] = team]
    /\ used' = used + 1
    /\ \/ /\ teamsLocked
          /\ sem_list' = [sem_list EXCEPT ![team] = Append(@, s)]
          /\ UNCHANGED <<callerPc, slot>>
       \/ /\ ~teamsLocked
          /\ callerPc' = [callerPc EXCEPT ![t] = "insert"]
          /\ slot' = [slot EXCEPT ![t] = s]
          /\ UNCHANGED sem_list
    /\ UNCHANGED <<next_id, dying, moved, teamPc, current, freed, clash>>

\* create_sem_etc(): insert the slot into the owner's list, and return the id.
create_sem_insert(t) ==
    /\ callerPc[t] = "insert"
    /\ sem_list' = [sem_list EXCEPT ![owner[slot[t]]] = Append(@, slot[t])]
    /\ callerPc' = [callerPc EXCEPT ![t] = "running"]
    /\ UNCHANGED <<id, next_id, owner, free, used, dying, moved, slot, teamPc,
                   current, freed, clash>>

\* Callers know the id of a semaphore once create_sem() has returned it.
Known(s) ==
    /\ id[s] # -1
    /\ \A t \in Callers : ~(callerPc[t] = "insert" /\ slot[t] = s)

\* list_remove_link() of s while sem_delete_owned_sems() unlinks the head of the same
\* list, or after it has taken s out of the list.
Interferes(s) ==
    \E team \in Teams :
        \/ teamPc[team] = "unlink" /\ Contains(moved[team], s)
        \/ teamPc[team] = "uninit" /\ current[team] = s

\* Mutant: the semaphore stays in its owner's list.
DeleteUnlinkMutant(s) == UNCHANGED <<sem_list, moved>>
DeleteUnlink(s) == Unlink(s)

\* delete_sem_internal(), with uninit_sem_locked() up to the free list.
delete_sem_internal(t, s) ==
    /\ MayCall(t)
    /\ Known(s)
    /\ DeleteUnlink(s)
    /\ owner' = [owner EXCEPT ![s] = NoTeam]
    /\ id' = [id EXCEPT ![s] = -1]
    /\ freed' = [freed EXCEPT ![t] = id[s]]
    /\ callerPc' = [callerPc EXCEPT ![t] = "free"]
    /\ slot' = [slot EXCEPT ![t] = s]
    /\ clash' = (clash \/ Interferes(s))
    /\ UNCHANGED <<next_id, free, used, dying, teamPc, current>>

delete_sem_free(t) ==
    /\ callerPc[t] = "free"
    /\ FreeSlot(freed[t])
    /\ callerPc' = [callerPc EXCEPT ![t] = "running"]
    /\ freed' = [freed EXCEPT ![t] = -1]
    /\ UNCHANGED <<id, owner, sem_list, dying, moved, slot, teamPc, current, clash>>

\* The slot leaves the list it is in and goes to the end of newTeam's list.
SwitchLists(s, newTeam) ==
    /\ sem_list' = [team \in Teams |->
                        LET l == RemoveFirst(sem_list[team], s)
                        IN  IF team = newTeam THEN Append(l, s) ELSE l]
    /\ moved' = [team \in Teams |-> RemoveFirst(moved[team], s)]

\* set_sem_owner(); a team being deleted is not found any more.
set_sem_owner(t, s, newTeam) ==
    /\ MayCall(t)
    /\ Known(s)
    /\ newTeam \notin dying
    /\ SwitchLists(s, newTeam)
    /\ owner' = [owner EXCEPT ![s] = newTeam]
    /\ clash' = (clash \/ Interferes(s))
    /\ UNCHANGED <<id, next_id, free, used, dying, callerPc, slot, teamPc, current,
                   freed>>

\* sem_delete_owned_sems() takes the list of the team's semaphores away.
TakeList(team) ==
    /\ moved' = [moved EXCEPT ![team] = sem_list[team]]
    /\ sem_list' = [sem_list EXCEPT ![team] = <<>>]
    /\ teamPc' = [teamPc EXCEPT ![team] = "next"]

\* No thread of the team is in create_sem_etc().
NoThreadCreates(team) ==
    \A t \in Callers : ~(callerPc[t] = "insert" /\ owner[slot[t]] = team)

\* team_remove_team() hides the team, which has no threads left; then its
\* semaphores are deleted.
team_delete(team) ==
    /\ team \notin dying /\ teamPc[team] = "idle"
    /\ NoThreadCreates(team)
    /\ dying' = dying \cup {team}
    /\ TakeList(team)
    /\ UNCHANGED <<id, next_id, owner, free, used, callerPc, slot, current, freed, clash>>

\* exec_team(): the only thread of the team deletes the team's semaphores; the team
\* can be found all the time.
exec_team(team) ==
    /\ team \notin dying /\ teamPc[team] = "idle"
    /\ NoThreadCreates(team)
    /\ TakeList(team)
    /\ UNCHANGED <<id, next_id, owner, free, used, dying, callerPc, slot, current, freed,
                   clash>>

\* list_remove_head_item(&queue), without a lock: reads the head of the list ...
delete_owned_next(team) ==
    /\ teamPc[team] = "next"
    /\ \/ /\ moved[team] # <<>>
          /\ current' = [current EXCEPT ![team] = Head(moved[team])]
          /\ teamPc' = [teamPc EXCEPT ![team] = "unlink"]
       \/ /\ moved[team] = <<>>
          /\ teamPc' = [teamPc EXCEPT ![team] = "idle"]
          /\ UNCHANGED current
    /\ UNCHANGED <<tableVars, dying, callerPc, slot, freed, clash>>

\* ... and takes it out.
delete_owned_unlink(team) ==
    /\ teamPc[team] = "unlink"
    /\ moved' = [moved EXCEPT ![team] = RemoveFirst(@, current[team])]
    /\ teamPc' = [teamPc EXCEPT ![team] = "uninit"]
    /\ UNCHANGED <<id, next_id, owner, free, used, sem_list, dying, callerPc, slot,
                   current, freed, clash>>

\* uninit_sem_locked(), up to the free list.
delete_owned_uninit(team) ==
    LET s == current[team] IN
    /\ teamPc[team] = "uninit"
    /\ freed' = [freed EXCEPT ![team] = id[s]]
    /\ id' = [id EXCEPT ![s] = -1]
    /\ teamPc' = [teamPc EXCEPT ![team] = "free"]
    /\ UNCHANGED <<next_id, owner, free, used, sem_list, dying, moved, callerPc, slot,
                   current, clash>>

delete_owned_free(team) ==
    /\ teamPc[team] = "free"
    /\ FreeSlot(freed[team])
    /\ teamPc' = [teamPc EXCEPT ![team] = "next"]
    /\ freed' = [freed EXCEPT ![team] = -1]
    /\ UNCHANGED <<id, owner, sem_list, dying, moved, callerPc, slot, current, clash>>

\* A team with the same team structure starts.
team_create(team) ==
    /\ team \in dying
    /\ teamPc[team] = "idle"
    /\ dying' = dying \ {team}
    /\ UNCHANGED <<tableVars, callerPc, slot, teamPc, current, freed, clash>>

TableNext ==
    \/ \E t \in Callers :
          \/ create_sem_insert(t)
          \/ delete_sem_free(t)
          \/ \E s \in Slots : delete_sem_internal(t, s)
          \/ \E team \in Teams :
                \/ \E locked \in BOOLEAN : create_sem_etc(t, team, locked)
                \/ \E s \in Slots : set_sem_owner(t, s, team)
    \/ \E team \in Teams :
          \/ team_delete(team)
          \/ exec_team(team)
          \/ delete_owned_next(team)
          \/ delete_owned_unlink(team)
          \/ delete_owned_uninit(team)
          \/ delete_owned_free(team)
          \/ team_create(team)

TableSpec == TableInit /\ [][TableNext]_semTableVars

-----------------------------------------------------------------------------
(***************************************************************************)
(* Properties.                                                             *)
(***************************************************************************)

\* The semaphores on their way to the free list.
BeingFreed ==
    {a \in Actors : \/ a \in Callers /\ callerPc[a] = "free"
                    \/ a \in Teams /\ teamPc[a] = "free"}

\* No slot is lost or used twice: each is used, or once in the free list, or
\* on its way there in the hands of one actor; and sUsedSems counts those that
\* are not in the free list.  Others may delete and move the semaphores of a team
\* whose deletion or exec() deletes them too, as long as they do not clash.
SlotAccounting ==
    ~clash =>
        /\ \A s \in Slots :
              (IF id[s] # -1 THEN 1 ELSE 0)
                + Cardinality({i \in DOMAIN free : free[i] = s})
                + Cardinality({a \in BeingFreed : SlotOf(freed[a]) = s}) = 1
        /\ used = MaxSems - Len(free)

\* free_sem_slot() is called with "the index of the semaphore slot", whoever deletes
\* a semaphore of a team that goes away.
FreedSlotExists == \A a \in BeingFreed : SlotOf(freed[a]) \in Slots

\* The thread t has created the semaphore in slot s, but not listed it yet.
BeingInserted(s) == \E t \in Callers : callerPc[t] = "insert" /\ slot[t] = s

\* A team's lists, sem_list and the one sem_delete_owned_sems() works through, have
\* the semaphores the team owns and no others, so that each of them goes away with
\* the team, and none before; except for those being created and the one
\* sem_delete_owned_sems() is working on.  A team that is deleted gets no others.
ListsMatchOwners ==
    ~clash =>
        \A team \in Teams :
            /\ team \in dying => sem_list[team] = <<>>
            /\ \A s \in Slots :
                  /\ Contains(sem_list[team], s) \/ Contains(moved[team], s) =>
                        id[s] # -1 /\ owner[s] = team
                  /\ (id[s] # -1 /\ owner[s] = team) =>
                        \/ Contains(sem_list[team], s)
                        \/ Contains(moved[team], s)
                        \/ BeingInserted(s)
                        \/ teamPc[team] = "uninit" /\ current[team] = s

\* An id leads back to its slot, also after the ids of the slot have wrapped
\* around: every function of sem.cpp looks for it at id % sMaxSems.
IdNamesSlot ==
    ~clash => \A s \in Slots :
        /\ id[s] # -1 => SlotOf(id[s]) = s
        /\ Contains(free, s) => SlotOf(next_id[s]) = s

=============================================================================
