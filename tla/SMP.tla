-------------------------------- MODULE SMP --------------------------------
(***************************************************************************)
(* Inter-CPU messages (src/system/kernel/smp.cpp).                         *)
(*                                                                         *)
(* A sender takes a message from a pool, puts it into the mailbox of one   *)
(* CPU or into the broadcast mailbox, and interrupts the others; with      *)
(* SMP_MSG_FLAG_SYNC it waits until all of them have processed it.  CPUs   *)
(* process messages in the interrupt handler, and wherever they wait with  *)
(* interrupts disabled: for a spinlock, for a free message, for a SYNC     *)
(* message of their own.                                                   *)
(*                                                                         *)
(* A section under one of the module's own spinlocks is one step; lock is  *)
(* a spinlock of somebody else, such as gThreadSpinlock, with which a CPU  *)
(* may send messages.  ICIs are enabled, and threads are pinned while they *)
(* send.  What a message makes a CPU do does not send messages itself; the *)
(* kernel debugger's SMP_MSG_CPU_HALT is left out.                         *)
(***************************************************************************)
EXTENDS Integers, Sequences, FiniteSets, SequencesExt, WaiterQueue, Machine

CONSTANTS
    Messages,           \* the pool, MSG_POOL_SIZE
    Sends,              \* bound: what each CPU may send; it sends once
    Lockers,            \* bound: the CPUs that use the spinlock
    NoMessage

\* What a CPU may send: to one CPU, also to itself, or to several of the others.
Calls(c) ==
    [to : {{d} : d \in CPUs}, sync : BOOLEAN, broadcast : {FALSE}]
    \cup [to : SUBSET (CPUs \ {c}) \ {{}}, sync : BOOLEAN, broadcast : {TRUE}]

ASSUME SMPAssumption ==
    /\ IsFiniteSet(CPUs) /\ IsFiniteSet(Messages)
    /\ DOMAIN Sends = CPUs /\ \A c \in CPUs : Sends[c] \subseteq Calls(c)
    /\ Lockers \subseteq CPUs
    /\ NoMessage \notin Messages /\ NoCPU \notin CPUs

VARIABLES
    sFreeMessages,          \* the list of the free messages, first message first
    sCPUMessages,           \* a CPU's mailbox, first message first
    sBroadcastMessages,     \* the broadcast mailbox, first message first
    ref_count, proc_bitmap, sync, done,     \* smp_msg; proc_bitmap as a set
    lock,                   \* the CPU that has the spinlock
    pc,                     \* what the thread on a CPU does
    call,                   \* the arguments of its smp_send_...()
    unsent,                 \* the CPUs that have not yet sent
    mine,                   \* its message
    interrupt,              \* the CPUs with an ICI interrupt pending
    step, msg, mailbox,     \* process_pending_ici() on a CPU, and its variables
    ran                     \* history: the CPUs that have processed a message

messageVars == <<ref_count, proc_bitmap, sync, done>>
senderVars == <<lock, pc, call, unsent, mine>>
handlerVars == <<step, msg, mailbox>>
smpVars == <<sFreeMessages, sCPUMessages, sBroadcastMessages, messageVars,
             senderVars, interrupt, handlerVars, ran>>

\* "run": interrupts are enabled; "locks": waits for the spinlock; "locked": has
\* got it; "finds": waits for a free message; "sent": has put it into a mailbox;
\* "waits": for the other CPUs.
ThreadPC == {"run", "locks", "locked", "finds", "sent", "waits"}

\* "check" and "broadcast": check_for_message(), before the CPU's own and before the
\* broadcast mailbox; "process": has found a message; "clean": was the last to
\* process it.
HandlerPC == {"idle", "check", "broadcast", "process", "clean"}

NoCall == [to |-> {}, sync |-> FALSE, broadcast |-> FALSE]

SMPTypeOK ==
    /\ sFreeMessages \in Seq(Messages)
    /\ sCPUMessages \in [CPUs -> Seq(Messages)]
    /\ sBroadcastMessages \in Seq(Messages)
    /\ ref_count \in [Messages -> 0 .. Cardinality(CPUs)]
    /\ proc_bitmap \in [Messages -> SUBSET CPUs]
    /\ sync \in [Messages -> BOOLEAN] /\ done \in [Messages -> BOOLEAN]
    /\ lock \in CPUs \cup {NoCPU}
    /\ pc \in [CPUs -> ThreadPC]
    /\ call \in [CPUs -> [to : SUBSET CPUs, sync : BOOLEAN, broadcast : BOOLEAN]]
    /\ unsent \subseteq CPUs
    /\ mine \in [CPUs -> Messages \cup {NoMessage}]
    /\ interrupt \subseteq CPUs
    /\ step \in [CPUs -> HandlerPC]
    /\ msg \in [CPUs -> Messages \cup {NoMessage}]
    /\ mailbox \in [CPUs -> {"none", "local", "bcast"}]
    /\ ran \in [Messages -> SUBSET CPUs]

\* smp_init()
SMPInit ==
    /\ sFreeMessages = SetToSeq(Messages)
    /\ sCPUMessages = [c \in CPUs |-> <<>>]
    /\ sBroadcastMessages = <<>>
    /\ ref_count = [m \in Messages |-> 0]
    /\ proc_bitmap = [m \in Messages |-> {}]
    /\ sync = [m \in Messages |-> FALSE]
    /\ done = [m \in Messages |-> FALSE]
    /\ lock = NoCPU
    /\ pc = [c \in CPUs |-> "run"]
    /\ call = [c \in CPUs |-> NoCall]
    /\ unsent = {c \in CPUs : Sends[c] # {}}
    /\ mine = [c \in CPUs |-> NoMessage]
    /\ interrupt = {}
    /\ step = [c \in CPUs |-> "idle"]
    /\ msg = [c \in CPUs |-> NoMessage]
    /\ mailbox = [c \in CPUs |-> "none"]
    /\ ran = [m \in Messages |-> {}]

GoTo(c, where) == pc' = [pc EXCEPT ![c] = where]

\* What a CPU goes on with when it has sent a message: restore_interrupts() enables
\* them unless it has the spinlock.
Restored(c) == IF lock = c THEN "locked" ELSE "run"

-----------------------------------------------------------------------------
(***************************************************************************)
(* Processing: process_all_pending_ici().                                  *)
(***************************************************************************)

\* Mutant: _acquire_spinlock() only spins.
PollsMutant(c) ==
    \/ pc[c] = "finds" /\ sFreeMessages = <<>>
    \/ pc[c] = "waits" /\ ~done[mine[c]]

\* A CPU processes messages while it waits.
Polls(c) ==
    \/ pc[c] = "locks" /\ lock # NoCPU
    \/ pc[c] = "finds" /\ sFreeMessages = <<>>
    \/ pc[c] = "waits" /\ ~done[mine[c]]

\* The wait loops call process_all_pending_ici().
process_all_pending_ici(c) ==
    /\ step[c] = "idle" /\ Polls(c)
    /\ step' = [step EXCEPT ![c] = "check"]
    /\ UNCHANGED <<sFreeMessages, sCPUMessages, sBroadcastMessages, messageVars,
                   senderVars, interrupt, msg, mailbox, ran>>

\* Interrupts are enabled on c.
Interruptible(c) == pc[c] = "run" \/ (pc[c] = "finds" /\ lock # c)

smp_intercpu_int_handler(c) ==
    /\ step[c] = "idle" /\ Interruptible(c)
    /\ c \in interrupt
    /\ interrupt' = interrupt \ {c}
    /\ step' = [step EXCEPT ![c] = "check"]
    /\ UNCHANGED <<sFreeMessages, sCPUMessages, sBroadcastMessages, messageVars,
                   senderVars, msg, mailbox, ran>>

\* check_for_message(), in the CPU's own mailbox
check_for_message_local(c) ==
    /\ step[c] = "check"
    /\ \/ /\ sCPUMessages[c] = <<>>
          /\ step' = [step EXCEPT ![c] = "broadcast"]
          /\ UNCHANGED <<sCPUMessages, msg, mailbox>>
       \/ /\ sCPUMessages[c] # <<>>
          /\ msg' = [msg EXCEPT ![c] = Head(sCPUMessages[c])]
          /\ mailbox' = [mailbox EXCEPT ![c] = "local"]
          /\ sCPUMessages' = [sCPUMessages EXCEPT ![c] = Tail(@)]
          /\ step' = [step EXCEPT ![c] = "process"]
    /\ UNCHANGED <<sFreeMessages, sBroadcastMessages, messageVars, senderVars,
                   interrupt, ran>>

\* The places of the broadcast mailbox with a message c has not handled already
ForMe(c) == {i \in DOMAIN sBroadcastMessages : c \notin proc_bitmap[sBroadcastMessages[i]]}

\* "mark it so we wont try to process this one again"
Marked(c, m) == [proc_bitmap EXCEPT ![m] = @ \cup {c}]

\* check_for_message(), in the broadcast mailbox; without a message
\* process_all_pending_ici() is done.
check_for_message_broadcast(c) ==
    /\ step[c] = "broadcast"
    /\ \/ /\ ForMe(c) = {}
          /\ step' = [step EXCEPT ![c] = "idle"]
          /\ UNCHANGED <<proc_bitmap, msg, mailbox>>
       \/ /\ ForMe(c) # {}
          /\ LET m == sBroadcastMessages[Min(ForMe(c))]
             IN  /\ msg' = [msg EXCEPT ![c] = m]
                 /\ proc_bitmap' = Marked(c, m)
          /\ mailbox' = [mailbox EXCEPT ![c] = "bcast"]
          /\ step' = [step EXCEPT ![c] = "process"]
    /\ UNCHANGED <<sFreeMessages, sCPUMessages, sBroadcastMessages, ref_count, sync,
                   done, senderVars, interrupt, ran>>

\* process_pending_ici() on c goes on with the next message.
NextMessage(c) ==
    /\ step' = [step EXCEPT ![c] = "check"]
    /\ msg' = [msg EXCEPT ![c] = NoMessage]
    /\ mailbox' = [mailbox EXCEPT ![c] = "none"]

\* Mutant: the first one that has processed the message cleans it up.
LastOneMutant(m) == TRUE

\* "we were the last one to decrement the ref_count"
LastOne(m) == ref_count[m] = 1

\* process_pending_ici(): the CPU does what the message says, and gives up its
\* reference.
process_pending_ici(c) ==
    LET m == msg[c]
    IN  /\ step[c] = "process"
        /\ ran' = [ran EXCEPT ![m] = @ \cup {c}]
        /\ ref_count' = [ref_count EXCEPT ![m] = @ - 1]
        /\ \/ /\ LastOne(m)
              /\ step' = [step EXCEPT ![c] = "clean"]
              /\ UNCHANGED <<msg, mailbox>>
           \/ /\ ~LastOne(m)
              /\ NextMessage(c)
        /\ UNCHANGED <<sFreeMessages, sCPUMessages, sBroadcastMessages, proc_bitmap,
                       sync, done, senderVars, interrupt>>

\* Mutant: the last CPU returns every message.
CallerReturnsMutant(m) == FALSE

\* "the caller cpu should now free the message"
CallerReturns(m) == sync[m]

\* The list without m, if it is there
Unlinked(list, m) == IF InQueue(list, m) THEN Dequeue(list, m) ELSE list

\* finish_message_processing(): "it's our job to remove it from the list & possibly
\* clean it up"; once removed the message is private to c.  (The one in a CPU's own
\* mailbox has already been removed.)
finish_message_processing(c) ==
    LET m == msg[c]
    IN  /\ step[c] = "clean"
        /\ sBroadcastMessages' =
              IF mailbox[c] = "bcast" THEN Unlinked(sBroadcastMessages, m)
                                      ELSE sBroadcastMessages
        /\ done' = [done EXCEPT ![m] = @ \/ sync[m]]
        /\ sFreeMessages' = IF CallerReturns(m) THEN sFreeMessages
                            ELSE <<m>> \o sFreeMessages
        /\ ran' = IF CallerReturns(m) THEN ran ELSE [ran EXCEPT ![m] = {}]
        /\ NextMessage(c)
        /\ UNCHANGED <<sCPUMessages, ref_count, proc_bitmap, sync, senderVars,
                       interrupt>>

-----------------------------------------------------------------------------
(***************************************************************************)
(* Sending: smp_send_ici(), smp_send_multicast_ici(),                      *)
(* smp_send_broadcast_ici() and smp_send_broadcast_ici_interrupts_disabled *)
(***************************************************************************)

\* A thread calls one of them; what it sends does not matter before it has a message.
smp_send(c) ==
    /\ step[c] = "idle" /\ pc[c] \in {"run", "locked"}
    /\ c \in unsent
    /\ unsent' = unsent \ {c}
    /\ GoTo(c, "finds")
    /\ UNCHANGED <<sFreeMessages, sCPUMessages, sBroadcastMessages, messageVars,
                   lock, call, mine, interrupt, handlerVars, ran>>

\* The function returns.
SendReturns(c) ==
    /\ GoTo(c, Restored(c))
    /\ mine' = [mine EXCEPT ![c] = NoMessage]
    /\ call' = [call EXCEPT ![c] = NoCall]

\* smp_send_ici() to the CPU itself: "nope, cant do that"; the message is returned at
\* once.
smp_send_ici_self(c) ==
    /\ step[c] = "idle" /\ pc[c] = "finds"
    /\ sFreeMessages # <<>>
    /\ \E a \in Sends[c] : a.to = {c}
    /\ SendReturns(c)
    /\ UNCHANGED <<sFreeMessages, sCPUMessages, sBroadcastMessages, messageVars, lock,
                   unsent, interrupt, handlerVars, ran>>

\* The message m is set up for the call a and put first into a mailbox.
Mailed(m, a) ==
    /\ ref_count' = [ref_count EXCEPT ![m] = Cardinality(a.to)]
    /\ sync' = [sync EXCEPT ![m] = a.sync]
    /\ done' = [done EXCEPT ![m] = FALSE]
    /\ \/ /\ a.broadcast
          /\ proc_bitmap' = [proc_bitmap EXCEPT ![m] = CPUs \ a.to]
          /\ sBroadcastMessages' = <<m>> \o sBroadcastMessages
          /\ UNCHANGED sCPUMessages
       \/ /\ ~a.broadcast
          /\ sCPUMessages' = [d \in CPUs |-> IF d \in a.to THEN <<m>> \o sCPUMessages[d]
                                                          ELSE sCPUMessages[d]]
          /\ UNCHANGED <<proc_bitmap, sBroadcastMessages>>

\* find_free_message() or find_free_message_interrupts_disabled() gets a message,
\* which is private to c until it is in a mailbox.
find_free_message(c) ==
    /\ step[c] = "idle" /\ pc[c] = "finds"
    /\ sFreeMessages # <<>>
    /\ \E a \in Sends[c] :
          /\ a.to # {c}
          /\ Mailed(Head(sFreeMessages), a)
          /\ call' = [call EXCEPT ![c] = a]
    /\ sFreeMessages' = Tail(sFreeMessages)
    /\ mine' = [mine EXCEPT ![c] = Head(sFreeMessages)]
    /\ GoTo(c, "sent")
    /\ UNCHANGED <<lock, unsent, interrupt, handlerVars, ran>>

\* arch_smp_send_ici() interrupts the target, arch_smp_send_broadcast_ici() all others.
arch_smp_send_ici(c) ==
    /\ pc[c] = "sent"
    /\ interrupt' = interrupt \cup (IF call[c].broadcast THEN CPUs \ {c} ELSE call[c].to)
    /\ \/ call[c].sync /\ GoTo(c, "waits") /\ UNCHANGED <<call, mine>>
       \/ ~call[c].sync /\ SendReturns(c)
    /\ UNCHANGED <<sFreeMessages, sCPUMessages, sBroadcastMessages, messageVars, lock,
                   unsent, handlerVars, ran>>

\* "for SYNC messages, it's our responsibility to put it back into the free list"
smp_send_returns(c) ==
    /\ step[c] = "idle" /\ pc[c] = "waits"
    /\ done[mine[c]]
    /\ sFreeMessages' = <<mine[c]>> \o sFreeMessages
    /\ ran' = [ran EXCEPT ![mine[c]] = {}]
    /\ SendReturns(c)
    /\ UNCHANGED <<sCPUMessages, sBroadcastMessages, messageVars, lock, unsent,
                   interrupt, handlerVars>>

-----------------------------------------------------------------------------
(***************************************************************************)
(* The spinlock.                                                           *)
(***************************************************************************)

disable_interrupts(c) ==
    /\ c \in Lockers /\ step[c] = "idle" /\ pc[c] = "run"
    /\ GoTo(c, "locks")
    /\ UNCHANGED <<sFreeMessages, sCPUMessages, sBroadcastMessages, messageVars, lock,
                   call, unsent, mine, interrupt, handlerVars, ran>>

acquire_spinlock(c) ==
    /\ step[c] = "idle" /\ pc[c] = "locks"
    /\ lock = NoCPU
    /\ lock' = c
    /\ GoTo(c, "locked")
    /\ UNCHANGED <<sFreeMessages, sCPUMessages, sBroadcastMessages, messageVars, call,
                   unsent, mine, interrupt, handlerVars, ran>>

release_spinlock(c) ==
    /\ pc[c] = "locked"
    /\ lock' = NoCPU
    /\ GoTo(c, "run")
    /\ UNCHANGED <<sFreeMessages, sCPUMessages, sBroadcastMessages, messageVars, call,
                   unsent, mine, interrupt, handlerVars, ran>>

-----------------------------------------------------------------------------

\* The steps of a CPU that handles messages, sends one, or has interrupts disabled
CPUStep(c) ==
    \/ process_all_pending_ici(c)
    \/ check_for_message_local(c) \/ check_for_message_broadcast(c)
    \/ process_pending_ici(c) \/ finish_message_processing(c)
    \/ smp_send_ici_self(c) \/ find_free_message(c)
    \/ arch_smp_send_ici(c) \/ smp_send_returns(c)
    \/ acquire_spinlock(c) \/ release_spinlock(c)

SMPNext ==
    \E c \in CPUs :
        \/ CPUStep(c) \/ smp_intercpu_int_handler(c)
        \/ smp_send(c) \/ disable_interrupts(c)

SMPSpec == SMPInit /\ [][SMPNext]_smpVars

\* CPUs run: one that handles messages or sends goes on, one that spins looks again,
\* and one with the spinlock does something with it.  A pending interrupt is taken
\* some time if interrupts are enabled again and again.
SMPFairness ==
    \A c \in CPUs : WF_smpVars(CPUStep(c)) /\ SF_smpVars(smp_intercpu_int_handler(c))

SMPFairSpec == SMPSpec /\ SMPFairness

-----------------------------------------------------------------------------
(***************************************************************************)
(* Properties.                                                             *)
(***************************************************************************)

InMailbox(m) ==
    InQueue(sBroadcastMessages, m) \/ \E c \in CPUs : InQueue(sCPUMessages[c], m)

\* The CPUs that will find m in a mailbox
ToCome(m) ==
    {c \in CPUs : \/ InQueue(sCPUMessages[c], m)
                  \/ InQueue(sBroadcastMessages, m) /\ c \notin proc_bitmap[m]}

\* The CPUs that process m and have not yet given up their reference
Processing(m) == {c \in CPUs : msg[c] = m /\ step[c] = "process"}

\* A message is returned to the pool once, when nobody uses it any more: ref_count
\* is the number of CPUs that have still to find it or to finish it, and the one
\* that has brought it to 0, or the sender that waited for it, is alone with it.
MessageInv ==
    /\ IsInjective(sFreeMessages)
    /\ \A m \in Messages :
          /\ InQueue(sFreeMessages, m) =>
                /\ ~InMailbox(m)
                /\ \A c \in CPUs : msg[c] # m
                /\ \A c \in CPUs : mine[c] = m => pc[c] = "sent" /\ ~call[c].sync
          /\ InMailbox(m) \/ Processing(m) # {} =>
                ref_count[m] = Cardinality(ToCome(m)) + Cardinality(Processing(m))
          /\ \A c \in CPUs : msg[c] = m /\ step[c] = "clean" =>
                /\ \A d \in CPUs \ {c} : msg[d] # m
                /\ ToCome(m) = {}

\* When smp_send_...() with SMP_MSG_FLAG_SYNC stops waiting, all the CPUs it has
\* asked have processed the message, and no other has: the caller may, for instance,
\* give away the pages whose translations they have forgotten.
SyncProcessed ==
    \A c \in CPUs :
        pc[c] = "waits" /\ done[mine[c]] => ran[mine[c]] = call[c].to

\* A CPU that sends gets a message, and with SMP_MSG_FLAG_SYNC its answers, although
\* all CPUs may wait with interrupts disabled: for messages of an empty pool, for
\* each other's answers, or for a spinlock the sender keeps.  (Each CPU sends once:
\* with messages without end the pool would not be fair, and the message that was
\* put into a mailbox last is the first to be processed.)
EverySendReturns ==
    \A c \in {d \in CPUs : Sends[d] # {}} :
        (pc[c] = "finds") ~> (pc[c] \in {"run", "locked"})

=============================================================================
