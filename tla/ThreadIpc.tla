------------------------------ MODULE ThreadIpc ------------------------------
(***************************************************************************)
(* The IPC handshake between threads: Thread_ipc::_do_ipc(), _ipc_send(),  *)
(* check_send(), do_send_wait(), abort_send(), try_receive() and           *)
(* ipc_send_msg() (thread_ipc.h) with Receiver::sender_ok() (receiver.h),  *)
(* IPC_timeout::expired(), Thread_object::ex_regs() as far as it cancels   *)
(* an IPC, and the part of Thread::do_kill() that frees the senders of a   *)
(* thread.                                                                 *)
(*                                                                         *)
(* Each thread has a home CPU and executes there with the CPU lock held,   *)
(* so threads of one CPU interleave only at the labels of Preemptible.     *)
(* Threads of different CPUs interleave between any two accesses to shared *)
(* memory: every access to the state word of a thread, to a Poi and to a   *)
(* sender list is a step of its own.  An operation on a sender list, which *)
(* holds the lock of the list, is one step; PrioList has its inside.       *)
(*                                                                         *)
(* A message is the identity of its sender.  Threads with a vCPU state,    *)
(* reply capabilities and wait queues are the subject of other modules.    *)
(***************************************************************************)
EXTENDS Naturals, FiniteSets, SequencesExt

CONSTANTS Threads, Cpus,
          Systems,   \* the systems of threads to look at
          None,
          LastSender \* stands for the sender of the last message

Timeouts == {"never", "zero", "finite"}

\* to: the partner of the send phase, None for no send phase, LastSender for
\* the sender of the last message, if there is one; from: the partner of the
\* receive phase, None for an open wait.
OpSet == [to : Threads \cup {None, LastSender}, recv : BOOLEAN,
          from : Threads \cup {None}, snd : Timeouts, rcv : Timeouts]

\* home: the CPU of each thread; ops: the IPC operations each thread may ask
\* for; oneshot: the threads that ask for one operation only; mortal: those
\* that may be killed; cancelled: those whose IPC may be cancelled by
\* ex_regs(); fails: copying a message may fail; items: messages carry items,
\* and mapping one releases the CPU lock in the middle of the copy.
IsSystem(s) ==
  /\ s.home \in [Threads -> Cpus]
  /\ s.ops \in [Threads -> SUBSET OpSet]
  /\ \A t \in Threads : \A o \in s.ops[t] :
       (o.to # None \/ o.recv) /\ (o.from # None => o.recv)
  /\ s.oneshot \cup s.mortal \cup s.cancelled \subseteq Threads
  /\ s.fails \in BOOLEAN /\ s.items \in BOOLEAN /\ (s.fails => s.items)

ASSUME IpcAssumption ==
  /\ None \notin Threads /\ LastSender \notin Threads \cup {None}
  /\ \A s \in Systems : IsSystem(s)

VARIABLES
  sys,     \* the system of threads: chosen once, never changed
  state,   \* Context_base::state, the set of its flags
  list,    \* Receiver::_sender_list
  poi,     \* Prio_list::_poi of that list
  op,      \* the arguments of _do_ipc(); they outlive the call in _rcv_regs
  timer,   \* the IPC_timeout on the kernel stack
  next,    \* `next' of do_receive(), or the sender do_kill() aborts
  act,     \* `activate_partner'
  pc,
  res,     \* the outcome _do_ipc() reports
  got,     \* the sender of the message in the receive registers
  sent     \* history: the message of this operation has been copied

vars == <<sys, state, list, poi, op, timer, next, act, pc, res, got, sent>>
shared == <<state, list, poi>>
locals == <<op, timer, next, act, res, got, sent>>

Home == sys.home

ReceiveMask == {"receive_wait", "receive_in_progress"}
IpcMask == ReceiveMask \cup {"send_wait", "send_in_progress"}
AbortMask == {"transfer_failed", "cancel", "timeout"}
FullIpcMask == IpcMask \cup AbortMask
Flags == FullIpcMask \cup {"ready", "dead"}

NotQueued == 0
Queued == 1
Setting == 2

Partner(t) == op[t].to

SendLabels == {"cs_invalid", "cs_ok1", "cs_poi1", "cs_head1", "cs_grab1",
               "cs_wait", "cs_enqueue", "cs_ok2", "cs_poi2", "cs_head2",
               "cs_dequeue", "cs_grab2", "cs_del", "snd_failed", "xfer_start", "xfer_del", "xfer_state"}
WaitLabels == {"sw_timer", "sw_test", "sw_del", "ab_dequeue", "ab_del",
               "ab_test", "ab_done"}
ReceiveLabels == {"rc_state", "rc_next", "activate_rcv", "activate_fin",
                  "tr_test", "tr_next", "tr_wait", "tr_dequeue", "tr_grab",
                  "tr_clear", "ism_add", "ism_done", "ism_failed", "tr_end",
                  "tr_requeue", "tr_recheck", "finish", "fin_del"}
PoiLabels == {"poi_load", "poi_queued", "poi_unqueued", "tr_poi_start",
              "tr_poi_load", "tr_poi_queued", "tr_poi_unqueued"}

\* schedule() was called, the partner was switched to, or the CPU lock is not
\* held.
BlockedLabels == {"sw_blocked", "ab_blocked", "tr_blocked"}
YieldLabels == {"yield_rcv", "yield_fin"}
CopyLabels == {"xfer", "ism_xfer"}
KillLabels == {"kill_pp", "kill_leave", "kill_dead", "dead"}
Preemptible == {"user"} \cup BlockedLabels \cup YieldLabels \cup KillLabels
                 \cup (IF sys.items THEN CopyLabels ELSE {})

Labels == SendLabels \cup WaitLabels \cup ReceiveLabels \cup PoiLabels
            \cup Preemptible \cup CopyLabels \cup {"first", "kill_abort"}

Init ==
  /\ sys \in Systems
  /\ state = [t \in Threads |-> {"ready"}]
  /\ list = [t \in Threads |-> <<>>]
  /\ poi = [t \in Threads |-> [e |-> None, st |-> NotQueued]]
  /\ op = [t \in Threads |-> [to |-> None, recv |-> FALSE, from |-> None,
                              snd |-> "never", rcv |-> "never"]]
  /\ timer = [t \in Threads |-> "unset"]
  /\ next = [t \in Threads |-> None]
  /\ act = [t \in Threads |-> FALSE]
  /\ pc = [t \in Threads |-> "user"]
  /\ res = [t \in Threads |-> "none"]
  /\ got = [t \in Threads |-> None]
  /\ sent = [t \in Threads |-> FALSE]

\* The end of ipc_send_msg() may switch to the sender on the same CPU.
Interruptible(u) ==
  \/ pc[u] \in Preemptible
  \/ pc[u] = "tr_end" /\ Home[next[u]] = Home[u]

\* No other thread of the CPU is inside kernel code, and no timer interrupt
\* of the CPU is between its two accesses to the state word.
HasCpu(t) ==
  \A u \in Threads : Home[u] = Home[t] =>
    /\ u # t => Interruptible(u)
    /\ timer[u] # "firing"

At(t, l) == pc[t] = l /\ HasCpu(t)

Goto(t, l) == pc' = [pc EXCEPT ![t] = l]

\* state.change(~del, add) of thread t.
Change(t, del, add) == state' = [state EXCEPT ![t] = (@ \ del) \cup add]

\* Context_base::State::change_safely(~receive_wait, receive_in_progress)
CanGrab(r) == "receive_wait" \in state[r]
\* Mutant: the receiver is grabbed without Thread_receive_in_progress.
GrabUnmarked(r) == Change(r, {"receive_wait"}, {})

GrabReceiver(r) == Change(r, {"receive_wait"}, {"receive_in_progress"})

-----------------------------------------------------------------------------
(* The sender list, with the tracking of the Poi.                          *)

InList(s) == \E r \in Threads : s \in ToSet(list[r])

TrackPoi(r, s, old, new) ==
  poi' = IF poi[r] = [e |-> s, st |-> old]
         THEN [poi EXCEPT ![r].st = new] ELSE poi

Enqueue(r, s) ==
  /\ list' = [list EXCEPT ![r] = Append(@, s)]
  /\ TrackPoi(r, s, NotQueued, Queued)

Dequeue(r, s) ==
  /\ list' = [list EXCEPT ![r] = SelectSeq(@, LAMBDA x : x # s)]
  /\ TrackPoi(r, s, Queued, NotQueued)

\* Sender::in_sender_list(s, list): the Poi answers for its own element.
InSenderList(s, r) == IF poi[r].e = s THEN poi[r].st = Queued
                      ELSE s \in ToSet(list[r])

\* Mutant: a closed wait does not look into the queue.
NextSenderOpenOnly(t) ==
  IF op[t].from # None \/ list[t] = <<>> THEN None ELSE list[t][1]

\* Thread_ipc::next_sender()
NextSender(t) ==
  LET from == op[t].from
  IN  IF from # None THEN IF InSenderList(from, t) THEN from ELSE None
      ELSE IF list[t] = <<>> THEN None ELSE list[t][1]

-----------------------------------------------------------------------------
(* _do_ipc(): prepare_receive(), and what follows it.                      *)

Start(t, o) ==
  LET to == IF o.to = LastSender THEN got[t] ELSE o.to
      wait == o.from # None
  IN  /\ At(t, "user")
      /\ t \in sys.oneshot => res[t] = "none"
      /\ to # None \/ o.recv
      /\ op' = [op EXCEPT ![t] = [o EXCEPT !.to = to]]
      /\ poi' = [poi EXCEPT ![t] =
                   [e |-> o.from, st |-> IF wait THEN Setting ELSE NotQueued]]
      /\ Goto(t, IF wait THEN "poi_load" ELSE "first")
      /\ Change(t, {"cancel"}, {})   \* every kernel entry clears it
      /\ res' = [res EXCEPT ![t] = "none"]
      /\ got' = [got EXCEPT ![t] = None]
      /\ sent' = [sent EXCEPT ![t] = FALSE]
      /\ act' = [act EXCEPT ![t] = FALSE]
      /\ UNCHANGED <<list, timer, next>>

\* Prio_list::set_poi(): the load of _queue, and the store it decides.
PoiLoad(t, l, e, yes, no) ==
  /\ At(t, l)
  /\ Goto(t, IF e \in ToSet(list[t]) THEN yes ELSE no)
  /\ UNCHANGED <<shared, locals>>

PoiStore(t, yes, no, e, then) ==
  /\ At(t, yes) \/ At(t, no)
  /\ poi' = [poi EXCEPT ![t] =
               [e |-> e, st |-> IF pc[t] = yes THEN Queued ELSE NotQueued]]
  /\ Goto(t, then)
  /\ UNCHANGED <<state, list, locals>>

ClosedWait(t) ==
  \/ PoiLoad(t, "poi_load", op[t].from, "poi_queued", "poi_unqueued")
  \/ PoiStore(t, "poi_queued", "poi_unqueued", op[t].from, "first")

\* The send phase, or state.add(Thread_receive_wait).
FirstPhase(t) ==
  /\ At(t, "first")
  /\ IF Partner(t) # None
     THEN Goto(t, "cs_invalid") /\ UNCHANGED state
     ELSE Goto(t, "rc_state") /\ Change(t, {}, {"receive_wait"})
  /\ UNCHANGED <<list, poi, locals>>

-----------------------------------------------------------------------------
(* check_send()                                                            *)

CheckInvalid(t) ==
  /\ At(t, "cs_invalid")
  /\ Goto(t, IF "dead" \in state[Partner(t)] THEN "snd_failed" ELSE "cs_ok1")
  /\ UNCHANGED <<shared, locals>>

\* sender_ok() loads the state word first ...
SenderOkState(t, l, yes, no) ==
  /\ At(t, l)
  /\ Goto(t, IF state[Partner(t)] \cap IpcMask = {"receive_wait"}
             THEN yes ELSE no)
  /\ UNCHANGED <<shared, locals>>

\* ... then the Poi ...
SenderOkPoi(t, l, yes, open, no) ==
  /\ At(t, l)
  /\ Goto(t, CASE poi[Partner(t)].e = t -> yes
               [] poi[Partner(t)].e = None -> open
               [] OTHER -> no)
  /\ UNCHANGED <<shared, locals>>

\* ... and in an open wait the head of the list.
SenderOkHead(t, l, yes, no) ==
  /\ At(t, l)
  /\ LET senders == list[Partner(t)]
     IN  Goto(t, IF senders = <<>> \/ Head(senders) = t THEN yes ELSE no)
  /\ UNCHANGED <<shared, locals>>

Grab(t, l, yes) ==
  /\ At(t, l) /\ CanGrab(Partner(t))
  /\ GrabReceiver(Partner(t))
  /\ Goto(t, yes)
  /\ UNCHANGED <<list, poi, locals>>

GrabFail(t, l, no) ==
  /\ At(t, l) /\ ~CanGrab(Partner(t))
  /\ Goto(t, no)
  /\ UNCHANGED <<shared, locals>>

\* `if (zero_timeout) return check_send_fail(L4_error::Timeout)'
AfterFirstTry(t) == IF op[t].snd = "zero" THEN "snd_failed" ELSE "cs_wait"

AddSendWait(t) ==
  /\ At(t, "cs_wait")
  /\ Change(t, {}, {"send_wait"})
  /\ Goto(t, "cs_enqueue")
  /\ UNCHANGED <<list, poi, locals>>

\* sender_enqueue() fails for a thread that is in a list already.
SenderEnqueue(t) ==
  /\ At(t, "cs_enqueue")
  /\ IF InList(t)
     THEN Goto(t, "snd_failed") /\ UNCHANGED <<list, poi>>
     ELSE Goto(t, "cs_ok2") /\ Enqueue(Partner(t), t)
  /\ UNCHANGED <<state, locals>>

\* sender_dequeue() fails when the receiver has taken the sender already.
SenderDequeue(t) ==
  /\ At(t, "cs_dequeue") /\ t \in ToSet(list[Partner(t)])
  /\ Dequeue(Partner(t), t)
  /\ Goto(t, "cs_grab2")
  /\ UNCHANGED <<state, locals>>

SenderTaken(t) ==
  /\ At(t, "cs_dequeue") /\ t \notin ToSet(list[Partner(t)])
  /\ Goto(t, "sw_timer")
  /\ UNCHANGED <<shared, locals>>

DelSendWait(t) ==
  /\ At(t, "cs_del")
  /\ Change(t, {"send_wait"}, {})
  /\ Goto(t, "xfer_start")
  /\ UNCHANGED <<list, poi, locals>>

CheckSend(t) ==
  \/ CheckInvalid(t)
  \/ SenderOkState(t, "cs_ok1", "cs_poi1", AfterFirstTry(t))
  \/ SenderOkPoi(t, "cs_poi1", "cs_grab1", "cs_head1", AfterFirstTry(t))
  \/ SenderOkHead(t, "cs_head1", "cs_grab1", AfterFirstTry(t))
  \/ Grab(t, "cs_grab1", "xfer_start") \/ GrabFail(t, "cs_grab1", AfterFirstTry(t))
  \/ AddSendWait(t) \/ SenderEnqueue(t)
  \/ SenderOkState(t, "cs_ok2", "cs_poi2", "sw_timer")
  \/ SenderOkPoi(t, "cs_poi2", "cs_dequeue", "cs_head2", "sw_timer")
  \/ SenderOkHead(t, "cs_head2", "cs_dequeue", "sw_timer")
  \/ SenderDequeue(t) \/ SenderTaken(t)
  \/ Grab(t, "cs_grab2", "cs_del") \/ GrabFail(t, "cs_grab2", "cs_wait")
  \/ DelSendWait(t)

-----------------------------------------------------------------------------
(* _ipc_send(): the case Failed, and the transfer to a waiting receiver.   *)

\* The send phase ends with `regs->tag(L4_msg_tag::error())'.
SendError(t) == res' = [res EXCEPT ![t] = "snd_error"]

SendFailed(t) ==
  /\ At(t, "snd_failed")
  /\ Change(t, IpcMask, {})
  /\ SendError(t)
  /\ Goto(t, "rc_state")
  /\ UNCHANGED <<list, poi, op, timer, next, act, got, sent>>

\* partner->reset_timeout() on the CPU of the partner only.
TransferStart(t) ==
  LET r == Partner(t)
  IN  /\ At(t, "xfer_start")
      /\ timer' = IF Home[r] = Home[t] /\ timer[r] = "set"
                  THEN [timer EXCEPT ![r] = "unset"] ELSE timer
      /\ Goto(t, "xfer")
      /\ UNCHANGED <<shared, op, next, act, res, got, sent>>

\* transfer_msg(), by the sender or by the receiver of s.
Copied(s, r) ==
  /\ sent' = [sent EXCEPT ![s] = TRUE]
  /\ got' = [got EXCEPT ![r] = s]

TransferOk(t) ==
  /\ At(t, "xfer")
  /\ Copied(t, Partner(t))
  /\ Goto(t, "xfer_del")
  /\ UNCHANGED <<shared, op, timer, next, act, res>>

TransferFail(t) ==
  /\ At(t, "xfer") /\ sys.fails
  /\ res' = [res EXCEPT ![t] = "snd_error", ![Partner(t)] = "rcv_error"]
  /\ Goto(t, "xfer_del")
  /\ UNCHANGED <<shared, op, timer, next, act, got, sent>>

DelReceiveInProgress(t) ==
  /\ At(t, "xfer_del")
  /\ Change(Partner(t), {"receive_in_progress"}, {})
  /\ Goto(t, "xfer_state")
  /\ UNCHANGED <<list, poi, locals>>

SwitchToReceive(t) ==
  /\ At(t, "xfer_state")
  /\ Change(t, IpcMask, IF res[t] # "snd_error" /\ op[t].recv
                        THEN {"receive_wait"} ELSE {})
  /\ act' = [act EXCEPT ![t] = Partner(t) # t]
  /\ Goto(t, "rc_state")
  /\ UNCHANGED <<list, poi, op, timer, next, res, got, sent>>

IpcSend(t) ==
  \/ SendFailed(t)
  \/ TransferStart(t) \/ TransferOk(t) \/ TransferFail(t)
  \/ DelReceiveInProgress(t) \/ SwitchToReceive(t)

-----------------------------------------------------------------------------
(* do_send_wait() and abort_send()                                         *)

\* A finite timeout is programmed, or has passed already.
SendTimer(t) ==
  /\ At(t, "sw_timer")
  /\ \/ /\ op[t].snd # "finite"
        /\ Goto(t, "sw_test")
        /\ UNCHANGED timer
     \/ /\ op[t].snd = "finite"
        /\ timer' = [timer EXCEPT ![t] = "set"]
        /\ Goto(t, "sw_test")
     \/ /\ op[t].snd = "finite"
        /\ Goto(t, "ab_dequeue")
        /\ UNCHANGED timer
  /\ UNCHANGED <<shared, op, next, act, res, got, sent>>

SendBits(t) == state[t] \cap ({"send_wait"} \cup AbortMask)

\* change_if(): only Thread_send_wait is set, give up the CPU ...
SendBlock(t) ==
  /\ At(t, "sw_test") /\ SendBits(t) = {"send_wait"}
  /\ Change(t, {"ready"}, {})
  /\ Goto(t, "sw_blocked")
  /\ UNCHANGED <<list, poi, locals>>

\* ... else reset_timeout(), and the reason decides.
SendWoken(t) ==
  /\ At(t, "sw_test") /\ SendBits(t) # {"send_wait"}
  /\ timer' = [timer EXCEPT ![t] = "unset"]
  /\ Goto(t, IF SendBits(t) = {} THEN "rc_state"
             ELSE IF "transfer_failed" \in SendBits(t) THEN "sw_del"
             ELSE "ab_dequeue")
  /\ UNCHANGED <<shared, op, next, act, res, got, sent>>

\* schedule() returns to a thread that is ready again.
Resume(t, l, then) ==
  /\ At(t, l) /\ "ready" \in state[t]
  /\ Goto(t, then)
  /\ UNCHANGED <<shared, locals>>

\* state.del(Thread_full_ipc_mask) and a failed send, in do_send_wait() and
\* in abort_send().
SendGivenUp(t, l) ==
  /\ At(t, l)
  /\ Change(t, FullIpcMask, {})
  /\ SendError(t)
  /\ Goto(t, "rc_state")
  /\ UNCHANGED <<list, poi, op, timer, next, act, got, sent>>

\* Mutant: a sender that gives up stays in the list.
AbortInList(t) ==
  /\ At(t, "ab_dequeue")
  /\ Goto(t, IF t \in ToSet(list[Partner(t)]) THEN "ab_del" ELSE "ab_test")
  /\ UNCHANGED <<shared, locals>>

AbortDequeue(t) ==
  /\ At(t, "ab_dequeue")
  /\ IF t \in ToSet(list[Partner(t)])
     THEN Dequeue(Partner(t), t) /\ Goto(t, "ab_del")
     ELSE Goto(t, "ab_test") /\ UNCHANGED <<list, poi>>
  /\ UNCHANGED <<state, locals>>

\* The receiver is copying the message: wait for it.
AbortBlock(t) ==
  /\ At(t, "ab_test") /\ "send_in_progress" \in state[t]
  /\ Change(t, {"ready"}, {})
  /\ Goto(t, "ab_blocked")
  /\ UNCHANGED <<list, poi, locals>>

AbortTooLate(t) ==
  /\ At(t, "ab_test") /\ "send_in_progress" \notin state[t]
  /\ Goto(t, "ab_done")
  /\ UNCHANGED <<shared, locals>>

\* `IPC done, nothing to abort': abort_send() returns false, the send is ok.
AbortDone(t) ==
  /\ At(t, "ab_done")
  /\ Change(t, FullIpcMask, {})
  /\ Goto(t, "rc_state")
  /\ UNCHANGED <<list, poi, locals>>

SendWait(t) ==
  \/ SendTimer(t) \/ SendBlock(t) \/ SendWoken(t)
  \/ Resume(t, "sw_blocked", "sw_test")
  \/ SendGivenUp(t, "sw_del")

AbortSend(t) ==
  \/ AbortDequeue(t) \/ AbortBlock(t) \/ AbortTooLate(t) \/ AbortDone(t)
  \/ Resume(t, "ab_blocked", "ab_test")
  \/ SendGivenUp(t, "ab_del")

-----------------------------------------------------------------------------
(* _do_ipc(): set up the receive phase and activate the partner.           *)

\* setup_timer(): a finite timeout is programmed or has passed already.
SetupTimer(t) ==
  \/ op[t].rcv = "never" /\ UNCHANGED <<state, timer>>
  \/ /\ op[t].rcv = "finite"
     /\ timer' = [timer EXCEPT ![t] = "set"]
     /\ UNCHANGED state
  \/ /\ op[t].rcv # "never"
     /\ Change(t, {}, {"ready", "timeout"})
     /\ UNCHANGED timer

ReceivePhase(t) ==
  /\ At(t, "rc_state")
  /\ Goto(t, IF op[t].recv /\ state[t] \cap ReceiveMask # {}
             THEN "rc_next" ELSE "activate_fin")
  /\ UNCHANGED <<shared, locals>>

ReceiveNext(t) ==
  /\ At(t, "rc_next")
  /\ next' = [next EXCEPT ![t] = NextSender(t)]
  /\ IF NextSender(t) # None THEN UNCHANGED <<state, timer>> ELSE SetupTimer(t)
  /\ Goto(t, "activate_rcv")
  /\ UNCHANGED <<list, poi, op, act, res, got, sent>>

\* Mutant: the partner is not made ready.
ActivateNot(t, l, yield, then) ==
  /\ At(t, l)
  /\ Goto(t, then)
  /\ act' = [act EXCEPT ![t] = FALSE]
  /\ UNCHANGED <<shared, op, timer, next, res, got, sent>>

\* activate_ipc_partner(): a partner on the same CPU may run at once.
Activate(t, l, yield, then) ==
  /\ At(t, l)
  /\ IF act[t]
     THEN /\ Change(Partner(t), {"receive_in_progress"}, {"ready"})
          /\ Goto(t, IF Home[Partner(t)] = Home[t] THEN yield ELSE then)
     ELSE Goto(t, then) /\ UNCHANGED state
  /\ act' = [act EXCEPT ![t] = FALSE]
  /\ UNCHANGED <<list, poi, op, timer, next, res, got, sent>>

AfterSend(t) ==
  \/ ReceivePhase(t) \/ ReceiveNext(t)
  \/ Activate(t, "activate_rcv", "yield_rcv", "tr_test")
  \/ Activate(t, "activate_fin", "yield_fin", "finish")
  \/ Resume(t, "yield_rcv", "tr_test")
  \/ Resume(t, "yield_fin", "finish")

-----------------------------------------------------------------------------
(* try_receive(), and the loop of do_receive() around it                   *)

Aborted(t) == state[t] \cap AbortMask # {}

\* `block while receiving a message is in progress'
ReceiveTest(t) ==
  /\ At(t, "tr_test")
  /\ IF ~Aborted(t) /\ "receive_in_progress" \in state[t]
     THEN Change(t, {"ready"}, {}) /\ Goto(t, "tr_blocked")
     ELSE /\ Goto(t, IF Aborted(t) \/ state[t] \cap ReceiveMask = {}
                     THEN "finish" ELSE "tr_next")
          /\ UNCHANGED state
  /\ UNCHANGED <<list, poi, locals>>

\* Somebody is in the queue ...
FindSender(t) ==
  /\ At(t, "tr_next")
  /\ next[t] # None \/ NextSender(t) # None
  /\ next' = [next EXCEPT ![t] = IF @ = None THEN NextSender(t) ELSE @]
  /\ Goto(t, "tr_dequeue")
  /\ UNCHANGED <<shared, op, timer, act, res, got, sent>>

\* ... or nobody is: the timeout has hit, or is set up now at the latest.
FindNobody(t) ==
  /\ At(t, "tr_next") /\ next[t] = None /\ NextSender(t) = None
  /\ IF timer[t] # "unset"
     THEN UNCHANGED <<state, timer>>
     ELSE SetupTimer(t)
  /\ Goto(t, IF timer[t] = "hit" \/ "timeout" \in state'[t] \ state[t]
             THEN "finish" ELSE "tr_wait")
  /\ UNCHANGED <<list, poi, op, next, act, res, got, sent>>

\* The second change_if(), on Thread_receive_wait.
ReceiveBlock(t) ==
  /\ At(t, "tr_wait")
  /\ IF ~Aborted(t) /\ "receive_wait" \in state[t]
     THEN Change(t, {"ready"}, {}) /\ Goto(t, "tr_blocked")
     ELSE /\ Goto(t, IF Aborted(t) \/ state[t] \cap ReceiveMask = {}
                     THEN "finish" ELSE "tr_test")
          /\ UNCHANGED state
  /\ UNCHANGED <<list, poi, locals>>

\* dequeue_next_sender(): the sender may have left in the meantime.
TakeSender(t) ==
  /\ At(t, "tr_dequeue")
  /\ LET s == next[t]
     IN  IF InSenderList(s, t) /\ s \in ToSet(list[t])
         THEN /\ Dequeue(t, s)
              /\ Goto(t, "tr_poi_start")
              /\ UNCHANGED next
         ELSE /\ next' = [next EXCEPT ![t] = None]
              /\ Goto(t, "tr_test")
              /\ UNCHANGED <<list, poi>>
  /\ UNCHANGED <<state, op, timer, act, res, got, sent>>

\* set_partner(next)
SetPartner(t) ==
  \/ /\ At(t, "tr_poi_start")
     /\ poi' = [poi EXCEPT ![t] = [e |-> next[t], st |-> Setting]]
     /\ Goto(t, "tr_poi_load")
     /\ UNCHANGED <<state, list, locals>>
  \/ PoiLoad(t, "tr_poi_load", next[t], "tr_poi_queued", "tr_poi_unqueued")
  \/ PoiStore(t, "tr_poi_queued", "tr_poi_unqueued", next[t], "tr_grab")

\* Start to receive from next, unless another sender has grabbed us.
GrabSelf(t) ==
  /\ At(t, "tr_grab")
  /\ IF CanGrab(t) THEN GrabReceiver(t) /\ Goto(t, "tr_clear")
     ELSE Goto(t, "tr_requeue") /\ UNCHANGED state
  /\ UNCHANGED <<list, poi, locals>>

IgnoreTimeout(t) ==
  /\ At(t, "tr_clear")
  /\ Change(t, {"timeout"}, {})
  /\ Goto(t, "ism_add")
  /\ UNCHANGED <<list, poi, locals>>

\* sender_enqueue() of a sender that could not be served after all.
Requeue(t) ==
  /\ At(t, "tr_requeue")
  /\ IF InList(next[t]) THEN UNCHANGED <<list, poi>> ELSE Enqueue(t, next[t])
  /\ Goto(t, "tr_recheck")
  /\ UNCHANGED <<state, locals>>

Recheck(t) ==
  /\ At(t, "tr_recheck")
  /\ Goto(t, IF state[t] \cap ReceiveMask = {} THEN "finish" ELSE "tr_test")
  /\ next' = [next EXCEPT ![t] = None]
  /\ UNCHANGED <<shared, op, timer, act, res, got, sent>>

-----------------------------------------------------------------------------
(* ipc_send_msg(): the receiver t copies the message of the sender next[t]. *)

MarkSender(t) ==
  /\ At(t, "ism_add")
  /\ Change(next[t], {}, {"send_in_progress"})
  /\ Goto(t, "ism_xfer")
  /\ UNCHANGED <<list, poi, locals>>

FetchOk(t) ==
  /\ At(t, "ism_xfer")
  /\ Copied(next[t], t)
  /\ Goto(t, "ism_done")
  /\ UNCHANGED <<shared, op, timer, next, act, res>>

FetchFail(t) ==
  /\ At(t, "ism_xfer") /\ sys.fails
  /\ res' = [res EXCEPT ![t] = "rcv_error"]
  /\ Goto(t, "ism_failed")
  /\ UNCHANGED <<shared, op, timer, next, act, got, sent>>

\* The sender is done or, with a receive phase, waits for its answer.
WakeSender(t) ==
  /\ At(t, "ism_done")
  /\ Change(next[t], IpcMask,
            {"ready"} \cup IF op[next[t]].recv THEN {"receive_wait"} ELSE {})
  /\ Goto(t, "tr_end")
  /\ UNCHANGED <<list, poi, locals>>

WakeFailedSender(t) ==
  /\ At(t, "ism_failed")
  /\ Change(next[t], {}, {"transfer_failed", "ready"})
  /\ Goto(t, "tr_end")
  /\ UNCHANGED <<list, poi, locals>>

ReceiveEnd(t) ==
  /\ At(t, "tr_end")
  /\ Change(t, IpcMask, {})
  /\ Goto(t, "finish")
  /\ UNCHANGED <<list, poi, locals>>

IpcSendMsg(t) ==
  \/ MarkSender(t) \/ FetchOk(t) \/ FetchFail(t)
  \/ WakeSender(t) \/ WakeFailedSender(t)

DoReceive(t) ==
  \/ ReceiveTest(t) \/ FindSender(t) \/ FindNobody(t) \/ ReceiveBlock(t)
  \/ TakeSender(t) \/ SetPartner(t) \/ GrabSelf(t) \/ IgnoreTimeout(t)
  \/ Requeue(t) \/ Recheck(t) \/ ReceiveEnd(t)
  \/ Resume(t, "tr_blocked", "finish")

-----------------------------------------------------------------------------
(* The end of _do_ipc(): the timeout is dequeued, the state word is read.  *)

\* The answer _do_ipc() gives for the state word st.
Outcome(t, st) ==
  IF st \cap IpcMask # {}
  THEN IF "cancel" \in st THEN "rcv_canceled" ELSE "rcv_timeout"
  ELSE IF res[t] = "none" THEN "ok" ELSE res[t]

Finish(t) ==
  /\ At(t, "finish")
  /\ res' = [res EXCEPT ![t] = Outcome(t, state[t])]
  /\ Goto(t, IF state[t] \cap FullIpcMask = {} THEN "user" ELSE "fin_del")
  /\ timer' = [timer EXCEPT ![t] = "unset"]
  /\ next' = [next EXCEPT ![t] = None]
  /\ UNCHANGED <<shared, op, act, got, sent>>

FinishDel(t) ==
  /\ At(t, "fin_del")
  /\ Change(t, FullIpcMask, {})
  /\ Goto(t, "user")
  /\ UNCHANGED <<list, poi, locals>>

Ipc(t) ==
  /\ pc[t] \notin {"user", "dead"} /\ HasCpu(t)
  /\ \/ ClosedWait(t) \/ FirstPhase(t) \/ CheckSend(t) \/ IpcSend(t)
     \/ SendWait(t) \/ AbortSend(t) \/ AfterSend(t) \/ DoReceive(t)
     \/ IpcSendMsg(t) \/ Finish(t) \/ FinishDel(t)

-----------------------------------------------------------------------------
(* Timeout interrupt, ex_regs() and kill                                   *)

\* The CPU of t is in code that takes interrupts.
Interrupt(t) ==
  /\ HasCpu(t)
  /\ Interruptible(t)

\* IPC_timeout::expired() looks at the state word ...
TimerRead(t) ==
  /\ timer[t] = "set" /\ Interrupt(t)
  /\ timer' = [timer EXCEPT ![t] =
       IF state[t] \cap IpcMask = {} \/ "receive_in_progress" \in state[t]
       THEN "hit" ELSE "firing"]
  /\ UNCHANGED <<shared, op, next, act, pc, res, got, sent>>

\* ... and then sets the flags.
TimerAdd(t) ==
  /\ timer[t] = "firing"
  /\ Change(t, {}, {"ready", "timeout"})
  /\ timer' = [timer EXCEPT ![t] = "hit"]
  /\ UNCHANGED <<list, poi, op, next, act, pc, res, got, sent>>

\* ex_regs(): executed on the CPU of t, by another thread or by a DRQ.
Cancel(t) ==
  /\ t \in sys.cancelled /\ Interrupt(t)
  /\ pc[t] \notin {"user"} \cup KillLabels
  /\ Change(t, {}, {"cancel", "ready"})
  /\ UNCHANGED <<list, poi, locals, pc>>

\* do_kill(): abort the operation of every thread in the sender list, with a
\* preemption point after each of them, and then become Thread_dead.
KillStart(t) ==
  /\ t \in sys.mortal /\ At(t, "user")
  /\ Goto(t, "kill_pp")
  /\ UNCHANGED <<shared, locals>>

KillNext(t) ==
  /\ At(t, "kill_pp")
  /\ IF list[t] = <<>>
     THEN Goto(t, "kill_leave") /\ UNCHANGED <<list, poi, next>>
     ELSE /\ Dequeue(t, Head(list[t]))
          /\ next' = [next EXCEPT ![t] = Head(list[t])]
          /\ Goto(t, "kill_abort")
  /\ UNCHANGED <<state, op, timer, act, res, got, sent>>

\* Mutant: the sender is woken up without Thread_transfer_failed.
KillAbortOk(t) ==
  /\ At(t, "kill_abort")
  /\ Change(next[t], {"send_wait"}, {"ready"})
  /\ next' = [next EXCEPT ![t] = None]
  /\ Goto(t, "kill_pp")
  /\ UNCHANGED <<list, poi, op, timer, act, res, got, sent>>

\* ipc_receiver_aborted()
KillAbort(t) ==
  /\ At(t, "kill_abort")
  /\ Change(next[t], {"send_wait"}, {"transfer_failed", "ready"})
  /\ next' = [next EXCEPT ![t] = None]
  /\ Goto(t, "kill_pp")
  /\ UNCHANGED <<list, poi, op, timer, act, res, got, sent>>

\* A thread that is still in some sender list leaves it.
KillLeave(t) ==
  /\ At(t, "kill_leave")
  /\ IF InList(t)
     THEN Dequeue(CHOOSE r \in Threads : t \in ToSet(list[r]), t)
     ELSE UNCHANGED <<list, poi>>
  /\ Goto(t, "kill_dead")
  /\ UNCHANGED <<state, locals>>

KillDead(t) ==
  /\ At(t, "kill_dead")
  /\ Change(t, {"ready"}, {"dead"})
  /\ Goto(t, "dead")
  /\ UNCHANGED <<list, poi, locals>>

Kill(t) == KillNext(t) \/ KillAbort(t) \/ KillLeave(t) \/ KillDead(t)

-----------------------------------------------------------------------------
Ask(t) == (\E o \in sys.ops[t] : Start(t, o)) /\ UNCHANGED sys

Disturb(t) == (KillStart(t) \/ TimerRead(t) \/ Cancel(t)) /\ UNCHANGED sys

Step(t) == (Ipc(t) \/ Kill(t) \/ TimerAdd(t)) /\ UNCHANGED sys

Next == \E t \in Threads : Ask(t) \/ Disturb(t) \/ Step(t)

Spec == Init /\ [][Next]_vars

\* A CPU goes on with what it does in the kernel, and the scheduler gives every
\* thread that is ready a CPU again and again.  Whether a thread asks for an
\* IPC, a timeout elapses or a thread is killed is left open.
FairSpec == Spec /\ \A t \in Threads : SF_vars(Step(t))

-----------------------------------------------------------------------------
(* Properties                                                              *)

\* Every variable holds a value of the type the code gives it.
TypeOK ==
  /\ sys \in Systems
  /\ state \in [Threads -> SUBSET Flags]
  /\ \A r \in Threads : IsInjective(list[r]) /\ ToSet(list[r]) \subseteq Threads
  /\ poi \in [Threads -> [e : Threads \cup {None},
                          st : {NotQueued, Queued, Setting}]]
  /\ op \in [Threads -> OpSet] /\ \A t \in Threads : op[t].to # LastSender
  /\ timer \in [Threads -> {"unset", "set", "firing", "hit"}]
  /\ next \in [Threads -> Threads \cup {None}]
  /\ act \in [Threads -> BOOLEAN]
  /\ pc \in [Threads -> Labels]
  /\ res \in [Threads -> {"none", "ok", "snd_error", "rcv_error",
                          "rcv_canceled", "rcv_timeout"}]
  /\ got \in [Threads -> Threads \cup {None}]
  /\ sent \in [Threads -> BOOLEAN]

\* The transfers to a receiver: by senders that have grabbed it, or its own.
Transfers(r) == {t \in Threads : pc[t] = "xfer" /\ Partner(t) = r}
                  \cup IF pc[r] = "ism_xfer" THEN {r} ELSE {}

\* "A thread is carrying this flag while performing the IPC transfer operation
\* to itself" (thread_state.h): the receive registers belong to one transfer
\* at a time, and the receiver carries Thread_receive_in_progress during it.
TransferUnderFlag ==
  \A r \in Threads :
    /\ Cardinality(Transfers(r)) <= 1
    /\ Transfers(r) # {} => "receive_in_progress" \in state[r]

\* An IPC did what it reports.  On success, the message of the send phase was copied,
\* and the receive phase got a message, in a closed wait one of the thread it waits for;
\* and no receive phase is reported to have timed out that has no timeout.
OkMeansDone ==
  \A t \in Threads : pc[t] = "user" =>
    /\ res[t] = "ok" =>
         /\ op[t].to # None => sent[t]
         /\ op[t].recv => got[t] # None
         /\ op[t].recv /\ op[t].from # None => got[t] = op[t].from
    /\ res[t] = "rcv_timeout" => op[t].rcv # "never"

\* A thread that has left _do_ipc() carries no IPC flag, so that the next IPC
\* finds none (`assert (!_this()->state.has(Thread_ipc_mask))'), and no sender list
\* holds a thread that is not about to send to the owner of the list.
CleanAfterIpc ==
  /\ \A t \in Threads : pc[t] = "user" => state[t] \cap IpcMask = {}
  /\ \A r \in Threads : \A s \in ToSet(list[r]) :
       op[s].to = r /\ pc[s] \notin {"user", "dead"}

\* No thread will take a step by itself.
Quiet == \A t \in Threads :
  \/ pc[t] \in {"user", "dead"}
  \/ pc[t] \in BlockedLabels /\ "ready" \notin state[t]

Awaits(r, s) == /\ pc[r] = "tr_blocked" /\ "receive_wait" \in state[r]
                /\ op[r].from \in {None, s}

\* Whenever everything has come to rest, no sender is left queued at a thread that waits
\* for just this sender: a rendezvous is never missed, whatever the order in which the
\* two sides have looked at each other.  Nor does a sender wait that the receiver, or
\* the death of the receiver, has taken out of the list: whoever takes a sender out
\* wakes it up.
NoLostRendezvous ==
  Quiet =>
    /\ \A r, s \in Threads : s \in ToSet(list[r]) => ~Awaits(r, s)
    /\ \A s \in Threads : pc[s] \in {"sw_blocked", "ab_blocked"} =>
         s \in ToSet(list[Partner(s)])

\* do_kill() aborts the operations of all threads that want to send to the
\* dying thread: nobody is left in the sender list of a dead thread.
NoSenderAtDead == Quiet => \A r \in Threads : pc[r] = "dead" => list[r] = <<>>
=============================================================================
