------------------------------ MODULE IrqSender ------------------------------
(***************************************************************************)
(* An interrupt object (Irq_sender, irq.h and irq.cc) that sends messages  *)
(* to the thread or the wait queue (Wait_queue) it is bound to: interrupts *)
(* hit it, receivers wait, take the message and acknowledge it, and a      *)
(* control thread binds it to another target or detaches it.               *)
(*                                                                         *)
(* Code in the kernel holds the lock of its CPU: whoever runs on a CPU     *)
(* excludes the others of that CPU until it ends or blocks, and other CPUs *)
(* interleave at every access to shared data.                              *)
(***************************************************************************)
EXTENDS Integers, Sequences, SequencesExt, FiniteSets

CONSTANTS
  Systems,   \* the systems to look at
  Threads,   \* the threads that receive from the interrupt
  Irq,       \* the interrupt, as a sender in a list
  Wq,        \* the wait queue
  Detaching, \* detach_in_progress()
  None

Endpoints == Threads \cup {Wq}
Actors == {"hit", "trigger", "ctl"} \cup Threads

\* cpu: the CPU of every actor, which are the interrupt ("hit"), a software trigger
\* ("trigger"), the control thread ("ctl") and the receivers; edge: edge or level
\* triggered; soft: a software interrupt, whose chip (Irq_chip_soft) has no pin to mask;
\* sources: what hits it; first: its first target; wait: what each thread receives from,
\* the wait queue or its own list; binds: the targets the control thread binds the
\* interrupt to; detach: it detaches the interrupt, too; timeouts: the receivers with a timeout;
\* maxhits, maxctl: bounds on interrupts (and triggers), and on control operations
IsSystem(s) ==
  /\ s.cpu \in [Actors -> Nat]
  /\ {s.edge, s.soft, s.detach} \subseteq BOOLEAN /\ s.timeouts \subseteq Threads
  /\ s.wait \in [Threads -> Endpoints] /\ \A t \in Threads : s.wait[t] \in {t, Wq}
  /\ s.first \in Endpoints /\ s.binds \subseteq Endpoints
  /\ s.sources \subseteq {"hit", "trigger"}
  /\ s.maxhits \in Nat /\ s.maxctl \in Nat

VARIABLES
  sys,      \* the system: chosen once, never changed
  queued,   \* Irq_sender::_queued
  target,   \* Irq_sender::_irq_target
  enabled,  \* Irq_base::_flags & F_enabled
  masked,   \* the pin is masked at the chip
  list,     \* the list the interrupt is in: that of a thread, Wq or None
  wait_q,   \* the receivers in Wait_queue::_wait_q
  has_senders,
  state,    \* the state flags of every thread
  poi,      \* the partner the thread waits for; None: an open wait
  pc,       \* where every actor is
  rcv,      \* the endpoint, then the receiver an actor sends to
  old,      \* the target an actor of control replaces
  got,      \* the messages consumed without an interrupt: history
  hits, ctls

irqv == <<queued, target>>
pinv == <<enabled, masked>>
listv == <<list, wait_q, has_senders>>
thrv == <<state, poi>>
locv == <<rcv, old>>
cntv == <<got, hits, ctls>>
vars == <<sys, irqv, pinv, listv, thrv, pc, locv, cntv>>

AtRest(a) == pc[a] \in {"idle", "blocked", "wq_blocked"}

\* An actor runs when no other actor of its CPU is inside the kernel.
HasCpu(a) == \A b \in Actors \ {a} : sys.cpu[b] = sys.cpu[a] => AtRest(b)
At(a, l) == pc[a] = l /\ HasCpu(a)
Goto(a, l) == pc' = [pc EXCEPT ![a] = l]
is_valid_target(e) == e \in Endpoints
IpcMask == {"receive_wait", "receive_in_progress"}
Change(t, del, add) == state' = [state EXCEPT ![t] = (@ \ del) \cup add]

Init ==
  /\ sys \in Systems
  /\ queued = 0 /\ target = sys.first
  /\ enabled = TRUE /\ masked = FALSE
  /\ list = None /\ wait_q = <<>> /\ has_senders = FALSE
  /\ state = [t \in Threads |-> {"ready"}]
  /\ poi = [t \in Threads |-> None]
  /\ pc = [a \in Actors |-> "idle"]
  /\ rcv = [a \in Actors |-> None] /\ old = [a \in Actors |-> None]
  /\ got = 0 /\ hits = 0 /\ ctls = 0

-----------------------------------------------------------------------------
(* Masking: the flag of the object first, then the pin of the chip.        *)

\* Irq_base::mask() and mask_and_ack(): nothing at the chip when the flag was clear.
Mask(a, l, chip, then) ==
  /\ At(a, l)
  /\ enabled' = FALSE
  /\ Goto(a, IF enabled THEN chip ELSE then)
  /\ UNCHANGED <<sys, irqv, masked, listv, thrv, locv, cntv>>

MaskChip(a, chip, then) ==
  /\ At(a, chip)
  /\ masked' = ~sys.soft
  /\ Goto(a, then)
  /\ UNCHANGED <<sys, irqv, enabled, listv, thrv, locv, cntv>>

\* Mutant: the chip is unmasked if the flag was set already.
UnmaskSwapped(a, l, chip, then) ==
  /\ At(a, l)
  /\ enabled' = TRUE
  /\ Goto(a, IF enabled THEN chip ELSE then)
  /\ UNCHANGED <<sys, irqv, masked, listv, thrv, locv, cntv>>

\* Irq_base::unmask()
Unmask(a, l, chip, then) ==
  /\ At(a, l)
  /\ enabled' = TRUE
  /\ Goto(a, IF enabled THEN then ELSE chip)
  /\ UNCHANGED <<sys, irqv, masked, listv, thrv, locv, cntv>>

UnmaskChip(a, chip, then) ==
  /\ At(a, chip)
  /\ masked' = FALSE
  /\ Goto(a, then)
  /\ UNCHANGED <<sys, irqv, enabled, listv, thrv, locv, cntv>>

-----------------------------------------------------------------------------
(* Sending the message of the interrupt                                    *)

\* Ipc_sender::check_sender(): the receiver waits for this sender.  The interrupt is
\* the only sender, hence the first of the list in an open wait.
SenderOkState(a, l, yes, no) ==
  /\ At(a, l)
  /\ Goto(a, IF state[rcv[a]] \cap IpcMask = {"receive_wait"} THEN yes ELSE no)
  /\ UNCHANGED <<sys, irqv, pinv, listv, thrv, locv, cntv>>

SenderOkPoi(a, l, yes, no) ==
  /\ At(a, l)
  /\ Goto(a, IF poi[rcv[a]] \in {None, Irq} THEN yes ELSE no)
  /\ UNCHANGED <<sys, irqv, pinv, listv, thrv, locv, cntv>>

\* state.change_safely(~Thread_receive_wait, Thread_receive_in_progress)
Grab(a, l, yes, no) ==
  /\ At(a, l)
  /\ IF "receive_wait" \in state[rcv[a]]
     THEN Change(rcv[a], {"receive_wait"}, {"receive_in_progress"}) /\ Goto(a, yes)
     ELSE UNCHANGED state /\ Goto(a, no)
  /\ UNCHANGED <<sys, irqv, pinv, listv, poi, locv, cntv>>

\* Mutant: the receiver is not looked at again.
SenderEnqueueOnly(a) ==
  /\ At(a, "cs_enqueue")
  /\ list' = IF list = None THEN rcv[a] ELSE list
  /\ Goto(a, "sent")
  /\ UNCHANGED <<sys, irqv, pinv, wait_q, has_senders, thrv, locv, cntv>>

SenderEnqueue(a) ==
  /\ At(a, "cs_enqueue")
  /\ list' = IF list = None THEN rcv[a] ELSE list
  /\ Goto(a, "cs_ok2")
  /\ UNCHANGED <<sys, irqv, pinv, wait_q, has_senders, thrv, locv, cntv>>

\* Another has taken the message when the interrupt is no longer in the list.
SenderDequeue(a) ==
  /\ At(a, "cs_dequeue")
  /\ list' = IF list = rcv[a] THEN None ELSE list
  /\ Goto(a, IF list = rcv[a] THEN "cs_grab2" ELSE "sent")
  /\ UNCHANGED <<sys, irqv, pinv, wait_q, has_senders, thrv, locv, cntv>>

\* Irq_sender::consume(), after transfer_msg(): takes all interrupts at once.
Consume(a, l, unmask, then) ==
  /\ At(a, l)
  /\ queued' = 0
  /\ got' = IF queued = 0 THEN 1 ELSE got
  /\ Goto(a, IF queued >= 2 /\ sys.edge THEN unmask ELSE then)
  /\ UNCHANGED <<sys, target, pinv, listv, thrv, locv, hits, ctls>>

\* state.change(~Thread_ipc_mask, Thread_ready) of send_msg()
Wake(a) ==
  /\ At(a, "wake")
  /\ Change(rcv[a], IpcMask, {"ready"})
  /\ Goto(a, "sent")
  /\ UNCHANGED <<sys, irqv, pinv, listv, poi, locv, cntv>>

SendMsg(a) ==
  \/ SenderOkState(a, "cs_ok1", "cs_poi1", "cs_enqueue")
  \/ SenderOkPoi(a, "cs_poi1", "cs_grab1", "cs_enqueue")
  \/ Grab(a, "cs_grab1", "consume", "cs_enqueue")
  \/ SenderEnqueue(a)
  \/ SenderOkState(a, "cs_ok2", "cs_poi2", "sent")
  \/ SenderOkPoi(a, "cs_poi2", "cs_dequeue", "sent")
  \/ SenderDequeue(a)
  \/ Grab(a, "cs_grab2", "consume", "cs_enqueue")
  \/ Consume(a, "consume", "snd_unmask", "wake")
  \/ Unmask(a, "snd_unmask", "snd_unmask_chip", "wake")
  \/ UnmaskChip(a, "snd_unmask_chip", "wake")
  \/ Wake(a)

\* Irq_sender::send() to a thread, or send_to_wq()
SendLabel(e) == IF e = Wq THEN "wq_dequeue" ELSE "cs_ok1"

\* Wait_queue::dequeue_receiver(), under the lock of the queue
DequeueReceiver(a) ==
  /\ At(a, "wq_dequeue")
  /\ IF ~has_senders /\ wait_q # <<>>
     THEN /\ rcv' = [rcv EXCEPT ![a] = Head(wait_q)]
          /\ wait_q' = Tail(wait_q)
          /\ Goto(a, "set_partner")
     ELSE UNCHANGED <<rcv, wait_q>> /\ Goto(a, "wq_enqueue")
  /\ UNCHANGED <<sys, irqv, pinv, list, has_senders, thrv, old, cntv>>

\* Wait_queue::enqueue_sender(), under the lock of the queue
EnqueueSender(a) ==
  /\ At(a, "wq_enqueue")
  /\ IF ~has_senders /\ wait_q # <<>>
     THEN /\ rcv' = [rcv EXCEPT ![a] = Head(wait_q)]
          /\ wait_q' = Tail(wait_q)
          /\ Goto(a, "set_partner")
          /\ UNCHANGED <<list, has_senders>>
     ELSE /\ has_senders' = TRUE /\ list' = Wq
          /\ Goto(a, "sent")
          /\ UNCHANGED <<rcv, wait_q>>
  /\ UNCHANGED <<sys, irqv, pinv, thrv, old, cntv>>

SetPartner(a) ==
  /\ At(a, "set_partner")
  /\ poi' = [poi EXCEPT ![rcv[a]] = Irq]
  /\ Goto(a, "cs_ok1")
  /\ UNCHANGED <<sys, irqv, pinv, listv, state, locv, cntv>>

\* After the message: the rest of bind_irq(), or the end of the handler.
Sent(a) ==
  /\ At(a, "sent")
  /\ rcv' = [rcv EXCEPT ![a] = None]
  /\ old' = [old EXCEPT ![a] = None]
  /\ Goto(a, "idle")
  /\ UNCHANGED <<sys, irqv, pinv, listv, thrv, cntv>>

Send(a) ==
  SendMsg(a) \/ DequeueReceiver(a) \/ EnqueueSender(a) \/ SetPartner(a) \/ Sent(a)

-----------------------------------------------------------------------------
(* The interrupt: hit_level_irq() and hit_edge_irq()                       *)

\* The pin raises an interrupt unless it is masked; a trigger calls hit() directly.
Hit(a) ==
  /\ At(a, "idle") /\ a \in {"hit", "trigger"} \cap sys.sources
  /\ a = "hit" => ~masked
  /\ hits < sys.maxhits /\ hits' = hits + 1
  /\ Goto(a, IF sys.edge THEN "target" ELSE "mask")
  /\ UNCHANGED <<sys, irqv, pinv, listv, thrv, locv, got, ctls>>

LoadTarget(a) ==
  /\ At(a, "target")
  /\ rcv' = [rcv EXCEPT ![a] = target]
  /\ Goto(a, IF is_valid_target(target) THEN "queue"
             ELSE IF sys.edge THEN "mask" ELSE "sent")
  /\ UNCHANGED <<sys, irqv, pinv, listv, thrv, old, cntv>>

\* queue(): only the first interrupt sends, further ones of an edge mask the pin.
Queue(a) ==
  /\ At(a, "queue")
  /\ queued' = queued + 1
  /\ Goto(a, IF queued = 0 THEN SendLabel(rcv[a]) ELSE IF sys.edge THEN "mask" ELSE "sent")
  /\ UNCHANGED <<sys, target, pinv, listv, thrv, locv, cntv>>

HitMask(a) ==
  LET then == IF sys.edge THEN "sent" ELSE "target"
  IN  Mask(a, "mask", "mask_chip", then) \/ MaskChip(a, "mask_chip", then)

HandleHit(a) == Hit(a) \/ LoadTarget(a) \/ Queue(a) \/ HitMask(a)

-----------------------------------------------------------------------------
(* The control thread: bind_irq() and detach_irq_thread()                  *)

\* The loop of bind_irq() ends with the compare-exchange that succeeds.  The hit
\* function is stored after it: another one only if a thread follows a wait queue or
\* the reverse, which happens on the CPU of the interrupt alone, with its CPU lock held.
Bind(e) ==
  /\ At("ctl", "idle") /\ e \in sys.binds
  /\ ctls < sys.maxctl /\ ctls' = ctls + 1
  /\ target # Detaching /\ target # e
  /\ target' = e
  /\ old' = [old EXCEPT !["ctl"] = target]
  /\ rcv' = [rcv EXCEPT !["ctl"] = e]
  /\ Goto("ctl", IF is_valid_target(target) THEN "bind_dequeue" ELSE "sent")
  /\ UNCHANGED <<sys, queued, pinv, listv, thrv, got, hits>>

\* A message that waits for the old target goes to the new one.
BindDequeue ==
  /\ At("ctl", "bind_dequeue")
  /\ IF list = old["ctl"]
     THEN list' = None /\ Goto("ctl", SendLabel(rcv["ctl"]))
     ELSE UNCHANGED list /\ Goto("ctl", "sent")
  /\ UNCHANGED <<sys, irqv, pinv, wait_q, has_senders, thrv, locv, cntv>>

DetachStart ==
  /\ At("ctl", "idle") /\ sys.detach
  /\ ctls < sys.maxctl /\ ctls' = ctls + 1
  /\ is_valid_target(target)
  /\ target' = Detaching
  /\ old' = [old EXCEPT !["ctl"] = target]
  /\ Goto("ctl", "detach_mask")
  /\ UNCHANGED <<sys, queued, pinv, listv, thrv, rcv, got, hits>>

DetachDequeue ==
  /\ At("ctl", "detach_dequeue")
  /\ list' = IF list = old["ctl"] THEN None ELSE list
  /\ Goto("ctl", "detach_end")
  /\ UNCHANGED <<sys, irqv, pinv, wait_q, has_senders, thrv, locv, cntv>>

DetachEnd ==
  /\ At("ctl", "detach_end")
  /\ target' = None
  /\ Goto("ctl", "sent")
  /\ UNCHANGED <<sys, queued, pinv, listv, thrv, locv, cntv>>

Control ==
  \/ \E e \in Endpoints : Bind(e)
  \/ BindDequeue \/ DetachStart
  \/ Mask("ctl", "detach_mask", "detach_chip", "detach_dequeue")
  \/ MaskChip("ctl", "detach_chip", "detach_dequeue")
  \/ DetachDequeue \/ DetachEnd

-----------------------------------------------------------------------------
(* A receiver that waits for any sender: do_ipc(), try_receive()           *)

\* prepare_receive() resets the partner, then Thread_receive_wait is set.
Receive(t) ==
  /\ At(t, "idle") /\ sys.wait[t] = t
  /\ poi' = [poi EXCEPT ![t] = None]
  /\ Goto(t, "rc_wait")
  /\ UNCHANGED <<sys, irqv, pinv, listv, state, locv, cntv>>

AddReceiveWait(t) ==
  /\ At(t, "rc_wait")
  /\ Change(t, {}, {"receive_wait"})
  /\ Goto(t, "rc_test")
  /\ UNCHANGED <<sys, irqv, pinv, listv, poi, locv, cntv>>

\* A sender is at work on this receiver: wait for it; or it is done.
ReceiveTest(t) ==
  /\ At(t, "rc_test")
  /\ IF "receive_in_progress" \in state[t]
     THEN Change(t, {"ready"}, {}) /\ Goto(t, "blocked")
     ELSE UNCHANGED state
          /\ Goto(t, IF "receive_wait" \in state[t] THEN "rc_next" ELSE "rc_done")
  /\ UNCHANGED <<sys, irqv, pinv, listv, poi, locv, cntv>>

NextSender(t) ==
  /\ At(t, "rc_next")
  /\ Goto(t, IF list = t THEN "rc_take" ELSE "rc_block")
  /\ UNCHANGED <<sys, irqv, pinv, listv, thrv, locv, cntv>>

\* state.change_if(test_waiting, ~Thread_ready, 0)
ReceiveBlock(t) ==
  /\ At(t, "rc_block")
  /\ IF "receive_wait" \in state[t]
     THEN Change(t, {"ready"}, {}) /\ Goto(t, "blocked")
     ELSE UNCHANGED state /\ Goto(t, "rc_test")
  /\ UNCHANGED <<sys, irqv, pinv, listv, poi, locv, cntv>>

\* dequeue_next_sender(), which makes the sender the partner
TakeSender(t) ==
  /\ At(t, "rc_take")
  /\ IF list = t
     THEN /\ list' = None /\ poi' = [poi EXCEPT ![t] = Irq] /\ Goto(t, "rc_grab")
     ELSE UNCHANGED <<list, poi>> /\ Goto(t, "rc_test")
  /\ rcv' = [rcv EXCEPT ![t] = t]
  /\ UNCHANGED <<sys, irqv, pinv, wait_q, has_senders, state, old, cntv>>

\* The interrupt itself has served this receiver in the meantime: its next message
\* goes back into the list, and the receive is over.
Requeue(t) ==
  /\ At(t, "rc_requeue")
  /\ list' = IF list = None THEN t ELSE list
  /\ Goto(t, "rc_recheck")
  /\ UNCHANGED <<sys, irqv, pinv, wait_q, has_senders, thrv, locv, cntv>>

Recheck(t) ==
  /\ At(t, "rc_recheck")
  /\ Goto(t, IF state[t] \cap IpcMask = {} THEN "rc_done" ELSE "rc_test")
  /\ UNCHANGED <<sys, irqv, pinv, listv, thrv, locv, cntv>>

Resume(t) ==
  /\ At(t, "blocked") /\ "ready" \in state[t]
  /\ Goto(t, "rc_done")
  /\ UNCHANGED <<sys, irqv, pinv, listv, thrv, locv, cntv>>

\* The end of the receive: without a message when Thread_receive_wait is still set.
\* A message is acknowledged (Op_eoi) if its interrupts have all been consumed.
ReceiveDone(t) ==
  /\ At(t, "rc_done")
  /\ Change(t, IpcMask \cup {"timeout"}, {})
  /\ rcv' = [rcv EXCEPT ![t] = None]
  /\ Goto(t, IF "receive_wait" \in state[t] THEN "idle" ELSE "eoi")
  /\ UNCHANGED <<sys, irqv, pinv, listv, poi, old, cntv>>

Eoi(t) ==
  \/ /\ At(t, "eoi")
     /\ Goto(t, IF queued < 1 THEN "eoi_unmask" ELSE "idle")
     /\ UNCHANGED <<sys, irqv, pinv, listv, thrv, locv, cntv>>
  \/ Unmask(t, "eoi_unmask", "eoi_chip", "idle")
  \/ UnmaskChip(t, "eoi_chip", "idle")

\* The timeout of the receiver, on its CPU.
Timeout(t) ==
  /\ t \in sys.timeouts /\ pc[t] \in {"blocked", "wq_blocked"} /\ HasCpu(t)
  /\ "receive_wait" \in state[t] /\ "ready" \notin state[t]
  /\ Change(t, {}, {"timeout", "ready"})
  /\ UNCHANGED <<sys, irqv, pinv, listv, poi, pc, locv, cntv>>

ReceiveDirect(t) ==
  \/ Receive(t) \/ AddReceiveWait(t) \/ ReceiveTest(t) \/ NextSender(t)
  \/ ReceiveBlock(t) \/ TakeSender(t) \/ Resume(t)
  \/ Grab(t, "rc_grab", "rc_consume", "rc_requeue") \/ Requeue(t) \/ Recheck(t)
  \/ Consume(t, "rc_consume", "rc_unmask", "rc_done")
  \/ Unmask(t, "rc_unmask", "rc_unmask_chip", "rc_done")
  \/ UnmaskChip(t, "rc_unmask_chip", "rc_done")
  \/ ReceiveDone(t) \/ Eoi(t) \/ Timeout(t)

-----------------------------------------------------------------------------
(* A receiver of the wait queue: Wait_queue::do_receive()                  *)

\* dequeue_sender(), under the lock of the queue
DequeueSender(t) ==
  /\ At(t, "idle") /\ sys.wait[t] = Wq
  /\ IF has_senders /\ list = Wq
     THEN list' = None /\ Goto(t, "wq_partner")
     ELSE UNCHANGED list /\ Goto(t, "wq_poi")
  /\ UNCHANGED <<sys, irqv, pinv, wait_q, has_senders, thrv, locv, cntv>>

ResetPoi(t) ==
  /\ At(t, "wq_poi")
  /\ poi' = [poi EXCEPT ![t] = Wq]
  /\ Goto(t, "wq_receive")
  /\ UNCHANGED <<sys, irqv, pinv, listv, state, locv, cntv>>

\* enqueue_receiver(), under the lock of the queue
EnqueueReceiver(t) ==
  /\ At(t, "wq_receive")
  /\ IF has_senders /\ list = Wq
     THEN list' = None /\ UNCHANGED <<wait_q, has_senders>> /\ Goto(t, "wq_partner")
     ELSE /\ has_senders' = FALSE /\ wait_q' = Append(wait_q, t)
          /\ UNCHANGED list /\ Goto(t, "wq_block")
  /\ UNCHANGED <<sys, irqv, pinv, thrv, locv, cntv>>

\* prepare_receive() and state.add(Thread_receive_in_progress); then ipc_send_msg()
TakeFromWq(t) ==
  /\ At(t, "wq_partner")
  /\ poi' = [poi EXCEPT ![t] = Irq]
  /\ Change(t, {}, {"receive_in_progress"})
  /\ Goto(t, "rc_consume")
  /\ UNCHANGED <<sys, irqv, pinv, listv, locv, cntv>>

\* state.change(~Thread_ready, Thread_receive_wait)
WqBlock(t) ==
  /\ At(t, "wq_block")
  /\ Change(t, {"ready"}, {"receive_wait"})
  /\ Goto(t, "wq_blocked")
  /\ UNCHANGED <<sys, irqv, pinv, listv, poi, locv, cntv>>

WqResume(t) ==
  /\ At(t, "wq_blocked") /\ "ready" \in state[t]
  /\ poi' = [poi EXCEPT ![t] = None]
  /\ Goto(t, IF state[t] \cap {"timeout", "receive_wait"} # {} THEN "wq_abort" ELSE "rc_done")
  /\ UNCHANGED <<sys, irqv, pinv, listv, state, locv, cntv>>

\* state.del(Thread_full_ipc_mask), and out of the queue, unless a sender was faster
WqAbort(t) ==
  /\ At(t, "wq_abort")
  /\ Change(t, IpcMask \cup {"timeout"}, {})
  /\ Goto(t, "wq_leave")
  /\ UNCHANGED <<sys, irqv, pinv, listv, poi, locv, cntv>>

WqLeave(t) ==
  /\ At(t, "wq_leave")
  /\ wait_q' = SelectSeq(wait_q, LAMBDA u : u # t)
  /\ Goto(t, "idle")
  /\ UNCHANGED <<sys, irqv, pinv, list, has_senders, thrv, locv, cntv>>

ReceiveWq(t) ==
  \/ DequeueSender(t) \/ ResetPoi(t) \/ EnqueueReceiver(t) \/ TakeFromWq(t)
  \/ WqBlock(t) \/ WqResume(t) \/ WqAbort(t) \/ WqLeave(t)

-----------------------------------------------------------------------------
Next ==
  \/ \E a \in {"hit", "trigger"} : HandleHit(a)
  \/ \E a \in {"hit", "trigger", "ctl"} : HasCpu(a) /\ Send(a)
  \/ Control
  \/ \E t \in Threads : ReceiveDirect(t) \/ ReceiveWq(t)

Spec == Init /\ [][Next]_vars

-----------------------------------------------------------------------------
\* Nobody waits for a message that is there: when all have come to rest and interrupts
\* are queued, the interrupt is in the list of its target, and no receiver of that
\* target sleeps.  Nor does anybody get a message without an interrupt.
NoForgottenIrq ==
  /\ got = 0
  /\ (\A a \in Actors : AtRest(a)) /\ queued > 0 /\ is_valid_target(target) =>
       /\ list = target
       /\ \A t \in Threads :
            sys.wait[t] = target /\ pc[t] \in {"blocked", "wq_blocked"}
              => "ready" \in state[t]

\* Whoever masks the pin leaves a message behind that leads to its being unmasked: when
\* all have come to rest and no receiver is about to run, a masked pin has a queued
\* interrupt.
MaskedMeansQueued ==
  /\ \A a \in Actors : AtRest(a)
  /\ \A t \in Threads : pc[t] \in {"blocked", "wq_blocked"} => "ready" \notin state[t]
  /\ masked /\ is_valid_target(target)
  => queued > 0
=============================================================================
