---------------------------- MODULE RemoteRequest ----------------------------
(***************************************************************************)
(* Cross-CPU requests of the multi-processor kernel: deferred requests     *)
(* (DRQs), remote wake-ups and thread migration, together with the         *)
(* inter-processor interrupt that delivers them and with CPUs that go      *)
(* offline and come back (context_mp.h, context_drq.h, context_drq.cc,     *)
(* drq_queue.h, remote_ready_queue.h, sched_mp.h, sched.cc,                *)
(* context_migration.h).                                                   *)
(*                                                                         *)
(* A context has a home CPU.  Only that CPU may touch its scheduling state *)
(* and run its DRQs.  Another CPU that wants something of the context puts *)
(* the request into the context (its DRQ queue, its migration pointer or   *)
(* its ready bit), puts the context into the pending queue of the home CPU *)
(* and sends an IPI.  The difficulty is that the context may move to       *)
(* another CPU between any two of these steps.                             *)
(*                                                                         *)
(* Every CPU runs kernel code with interrupts disabled: a step is what the *)
(* code does between two accesses to shared state that another CPU may     *)
(* change.  A critical section under a queue lock that calls nothing is    *)
(* one step, enabled while the lock is free; `qlock' is the holder where   *)
(* the code calls other operations with the lock held.                     *)
(***************************************************************************)
EXTENDS Integers, Sequences, SequencesExt, FiniteSets

CONSTANTS
  Cpus,        \* the CPUs
  Requesters,  \* contexts that issue requests, each on a fixed CPU
  Targets,     \* contexts the requests are for; these migrate
  Systems,     \* the systems to look at
  None         \* no context, no CPU

Contexts == Requesters \cup Targets

\* home: the CPU every context starts on; ready: the targets that are runnable
\* at the beginning; ops: the requests each requester issues: "drq", "wake" or a
\* CPU to migrate to; budget: the number of requests of every requester;
\* hotplug: the CPUs that may go offline; drain: the argument drain_rqq of
\* take_cpu_offline(); replug: whether an offline CPU may come back.
IsSystem(s) ==
  /\ s.home \in [Contexts -> Cpus]
  /\ s.ready \subseteq Targets
  /\ s.ops \in [Requesters -> SUBSET ({"drq", "wake"} \cup Cpus)]
  /\ s.budget \in Nat
  /\ s.hotplug \subseteq Cpus
  /\ \A x \in Requesters : s.home[x] \notin s.hotplug
  /\ s.drain \in BOOLEAN /\ s.replug \in BOOLEAN

ASSUME RemoteAssumption ==
  /\ Requesters \cap Targets = {}
  /\ None \notin Contexts \cup Cpus
  /\ \A s \in Systems : IsSystem(s)

VARIABLES
  sys,     \* the system: chosen once, never changed
  home,    \* home[x]: Context::_home_cpu
  drqs,    \* drqs[x]: Context::_drq_q, a DRQ is named by the context it belongs to
  mig,     \* mig[x]: Context::_migration, the requester whose request it is, or None
  flags,   \* flags[x]: the Thread_* state bits
  inrq,    \* inrq[x]: in the ready list of its home CPU
  cur,     \* cur[c]: current(), None for the idle thread
  pend,    \* pend[c]: Context::_pending_rqq, the contexts with requests for CPU c
  ipi,     \* ipi[c]: an Ipi::Request is pending at c
  qlock,   \* qlock[c]: the CPU holding the lock of pend[c] across calls, or None
  online,  \* online[c]: Cpu::online(c)
  pc,      \* pc[c]: where CPU c is; "idle" outside the kernel, interrupts enabled
  job,     \* job[c]: the local variables of the operation CPU c executes
  stk,     \* stk[c]: the callers to return to
  mq,      \* mq[c]: migration_q of handle_remote_requests_irq
  st,      \* st[x]: what requester x waits for
  left,    \* left[x]: requests x may still issue
  dst,     \* dst[x]: Migration::cpu of x's request
  done,    \* done[x]: Migration::_done of x's request
  ran      \* ran[x]: how often x's current DRQ was executed

ctl  == <<pc, job, stk, mq>>
ctx  == <<home, drqs, mig, flags, inrq>>
que  == <<pend, ipi, qlock, online>>
req  == <<st, left, dst, done, ran>>
vars == <<sys, ctx, cur, que, ctl, req>>

ReadyMask == {"ready", "drq_ready"}

Flags == ReadyMask \cup {"drq_wait", "finish_migration"}

Labels == {"idle", "off", "drq_sleep", "sw_done",
           "eq_enq", "eq_cpu", "eq_lock", "dx_run", "unlock",
           "wk_cpu", "wk_lock", "mg_cpu", "mx_lock", "sm_load", "sm_cas",
           "ma_away", "mt_lock", "mt_deblock", "hd_start", "hd_next", "hd_run",
           "irq_next", "hr_mig", "hr_home", "hr_drq", "irq_end", "irq_cur", "off_check"}

\* t: the context operated on; r: the DRQ; cpu: a CPU number read earlier;
\* inf: the Migration taken; remote: the flag handed to migrate_away
Job == [t : Contexts \cup {None}, r : Contexts \cup {None},
        cpu : Cpus \cup {None}, inf : Requesters \cup {None}, remote : BOOLEAN]

NoJob == [t |-> None, r |-> None, cpu |-> None, inf |-> None, remote |-> FALSE]

------------------------------------------------------------------------------
(* Control: going on, calling and returning *)

Goto(c, l) ==
  /\ pc' = [pc EXCEPT ![c] = l]
  /\ UNCHANGED <<job, stk, mq>>

GotoWith(c, l, j) ==
  /\ pc' = [pc EXCEPT ![c] = l]
  /\ job' = [job EXCEPT ![c] = j]
  /\ UNCHANGED <<stk, mq>>

\* call the operation at l with the arguments j and return to `back'
Call(c, l, j, back) ==
  /\ pc' = [pc EXCEPT ![c] = l]
  /\ job' = [job EXCEPT ![c] = j]
  /\ stk' = [stk EXCEPT ![c] = <<[pc |-> back, job |-> job[c]]>> \o @]
  /\ UNCHANGED mq

Return(c) ==
  /\ pc' = [pc EXCEPT ![c] = Head(stk[c]).pc]
  /\ job' = [job EXCEPT ![c] = Head(stk[c]).job]
  /\ stk' = [stk EXCEPT ![c] = Tail(@)]
  /\ UNCHANGED mq

J(c) == job[c]

For(t) == [NoJob EXCEPT !.t = t]

LockFree(c) == qlock[c] = None

Queued(t) == \E c \in Cpus : Contains(pend[c], t)

Runnable(x) == flags[x] \cap ReadyMask # {}

------------------------------------------------------------------------------
(* Initial states *)

Init ==
  /\ sys \in Systems
  /\ home = sys.home
  /\ drqs = [x \in Contexts |-> <<>>]
  /\ mig = [x \in Contexts |-> None]
  /\ flags = [x \in Contexts |->
                IF x \in Requesters \cup sys.ready THEN {"ready"} ELSE {}]
  /\ inrq = [x \in Contexts |-> x \in Requesters \cup sys.ready]
  /\ cur = [c \in Cpus |-> None]
  /\ pend = [c \in Cpus |-> <<>>]
  /\ ipi = [c \in Cpus |-> FALSE]
  /\ qlock = [c \in Cpus |-> None]
  /\ online = [c \in Cpus |-> TRUE]
  /\ pc = [c \in Cpus |-> "idle"]
  /\ job = [c \in Cpus |-> NoJob]
  /\ stk = [c \in Cpus |-> <<>>]
  /\ mq = [c \in Cpus |-> None]
  /\ st = [x \in Requesters |-> "user"]
  /\ left = [x \in Requesters |-> sys.budget]
  /\ dst = [x \in Requesters |-> None]
  /\ done = [x \in Requesters |-> FALSE]
  /\ ran = [x \in Requesters |-> 0]

------------------------------------------------------------------------------
(* The pending queue of a CPU *)

\* pending_rqq_do_enqueue and the Ipi::send of its callers
PendEnqueue(cpu, t) ==
  IF Queued(t)
    THEN UNCHANGED <<pend, ipi>>
    ELSE /\ pend' = [pend EXCEPT ![cpu] = Append(@, t)]
         /\ ipi' = [ipi EXCEPT ![cpu] = @ \/ pend[cpu] = <<>>]

\* release the queue lock an offline path holds
Unlock(c) ==
  /\ pc[c] = "unlock"
  /\ qlock' = [qlock EXCEPT ![J(c).cpu] = None]
  /\ Return(c)
  /\ UNCHANGED <<ctx, cur, pend, ipi, online, req>>

------------------------------------------------------------------------------
(* Deferred requests *)

\* enqueue_drq(r) at context t: do_enqueue_drq reads the home CPU first
EnqueueDrq(c, t, r, back) ==
  Call(c, IF home[t] = c THEN "dx_run" ELSE "eq_enq", [For(t) EXCEPT !.r = r], back)

\* Context::drq: the current context issues a DRQ for t and waits for it
Drq(c, x, t) ==
  /\ pc[c] = "idle" /\ cur[c] = x
  /\ st[x] = "user" /\ left[x] > 0 /\ "drq" \in sys.ops[x]
  /\ st' = [st EXCEPT ![x] = "drq"]
  /\ left' = [left EXCEPT ![x] = @ - 1]
  /\ ran' = [ran EXCEPT ![x] = 0]
  /\ flags' = [flags EXCEPT ![x] = @ \cup {"drq_wait"}]
  /\ EnqueueDrq(c, t, x, "drq_sleep")
  /\ UNCHANGED <<home, drqs, mig, inrq, cur, que, dst, done>>

\* _drq_q.enq(rq)
EqEnq(c) ==
  /\ pc[c] = "eq_enq"
  /\ drqs' = [drqs EXCEPT ![J(c).t] = Append(@, J(c).r)]
  /\ Goto(c, "eq_cpu")
  /\ UNCHANGED <<home, mig, flags, inrq, cur, que, req>>

\* Mutant: the DRQ stays in the queue of the context.
DeqDrqStays(t, r) ==
  /\ flags' = [flags EXCEPT ![t] = @ \ {"drq_ready"}]
  /\ UNCHANGED <<home, drqs, mig, inrq>>

\* Drq_queue::dequeue and the drq_ready bit, as in _deq_exec_drq
DeqDrq(t, r) ==
  LET rest == SelectSeq(drqs[t], LAMBDA d : d # r)
  IN  /\ drqs' = [drqs EXCEPT ![t] = rest]
      /\ flags' = [flags EXCEPT ![t] = IF rest = <<>> THEN @ \ {"drq_ready"} ELSE @]
      /\ UNCHANGED <<home, mig, inrq>>

\* re-read the home CPU after the DRQ is in the queue; if the context came
\* here meanwhile, _deq_exec_drq executes the DRQ unless it was handled already
EqCpu(c) ==
  /\ pc[c] = "eq_cpu"
  /\ LET t == J(c).t
         r == J(c).r
     IN  IF home[t] # c
           THEN GotoWith(c, "eq_lock", [J(c) EXCEPT !.cpu = home[t]]) /\ UNCHANGED ctx
           ELSE IF ~Contains(drqs[t], r)
                  THEN Return(c) /\ UNCHANGED ctx
                  ELSE DeqDrq(t, r) /\ Goto(c, "dx_run")
  /\ UNCHANGED <<cur, que, req>>

\* under the lock of the CPU read: it moved again, so the new CPU is responsible
EqMoved(c) ==
  /\ pc[c] = "eq_lock" /\ LockFree(J(c).cpu)
  /\ home[J(c).t] # J(c).cpu
  /\ Return(c)
  /\ UNCHANGED <<ctx, cur, que, req>>

\* under the lock: the CPU is offline, the DRQ is executed here on its behalf
EqOffline(c) ==
  /\ pc[c] = "eq_lock" /\ LockFree(J(c).cpu)
  /\ home[J(c).t] = J(c).cpu
  /\ ~online[J(c).cpu]
  /\ IF Contains(drqs[J(c).t], J(c).r)
       THEN /\ DeqDrq(J(c).t, J(c).r)
            /\ qlock' = [qlock EXCEPT ![J(c).cpu] = c]
            /\ Call(c, "dx_run", J(c), "unlock")
       ELSE Return(c) /\ UNCHANGED <<ctx, qlock>>
  /\ UNCHANGED <<cur, pend, ipi, online, req>>

\* under the lock: put the context into the pending queue of its CPU
EqPend(c) ==
  /\ pc[c] = "eq_lock" /\ LockFree(J(c).cpu)
  /\ home[J(c).t] = J(c).cpu
  /\ online[J(c).cpu]
  /\ PendEnqueue(J(c).cpu, J(c).t)
  /\ Return(c)
  /\ UNCHANGED <<ctx, cur, qlock, online, req>>

Answered(f) == (f \ {"drq_wait"}) \cup {"ready"}

\* do_drq: execute_drq(rq, local) and update_ready_list_drq.  A reply and the
\* answer of a local request both end the wait of the DRQ's owner.
DxRun(c) ==
  /\ pc[c] = "dx_run"
  /\ LET t == J(c).t
         r == J(c).r
     IN  /\ flags' = [flags EXCEPT ![r] = Answered(@)]
         /\ ran' = IF r = t THEN ran ELSE [ran EXCEPT ![r] = @ + 1]
         /\ inrq' = [inrq EXCEPT ![t] = @ \/ flags'[t] \cap ReadyMask # {}]
  /\ Return(c)
  /\ UNCHANGED <<home, drqs, mig, cur, que, st, left, dst, done>>

\* handle_drq: a pending finish_migration is done first
HdStart(c) ==
  /\ pc[c] = "hd_start"
  /\ flags' = [flags EXCEPT ![J(c).t] = @ \ {"finish_migration"}]
  /\ IF drqs[J(c).t] = <<>> THEN Return(c) ELSE Goto(c, "hd_next")
  /\ UNCHANGED <<home, drqs, mig, inrq, cur, que, req>>

\* Drq_queue::handle_requests takes the first DRQ; with the queue empty
\* handle_drq clears drq_ready
HdNext(c) ==
  /\ pc[c] = "hd_next"
  /\ LET t == J(c).t
     IN  IF drqs[t] = <<>>
           THEN /\ flags' = [flags EXCEPT ![t] = @ \ {"drq_ready"}]
                /\ Return(c)
                /\ UNCHANGED drqs
           ELSE /\ drqs' = [drqs EXCEPT ![t] = Tail(@)]
                /\ GotoWith(c, "hd_run", [J(c) EXCEPT !.r = Head(drqs[t])])
                /\ UNCHANGED flags
  /\ UNCHANGED <<home, mig, inrq, cur, que, req>>

\* execute_drq(r, false): a reply ends the wait; a request is executed and its
\* answer is enqueued at the requester
HdRun(c) ==
  /\ pc[c] = "hd_run"
  /\ LET t == J(c).t
         r == J(c).r
     IN  IF r = t
           THEN /\ flags' = [flags EXCEPT ![t] = Answered(@)]
                /\ Goto(c, "hd_next")
                /\ UNCHANGED ran
           ELSE /\ ran' = [ran EXCEPT ![r] = @ + 1]
                /\ EnqueueDrq(c, r, r, "hd_next")
                /\ UNCHANGED flags
  /\ UNCHANGED <<home, drqs, mig, inrq, cur, que, st, left, dst, done>>

\* Context::drq after the enqueue and after every wake-up: wait for the answer
DrqSleep(c) ==
  /\ pc[c] = "drq_sleep"
  /\ LET x == cur[c]
     IN  IF "drq_wait" \in flags[x]
           THEN /\ flags' = [flags EXCEPT ![x] = @ \ ReadyMask]
                /\ inrq' = [inrq EXCEPT ![x] = FALSE]
                /\ cur' = [cur EXCEPT ![c] = None]
                /\ UNCHANGED st
           ELSE /\ st' = [st EXCEPT ![x] = "user"]
                /\ UNCHANGED <<flags, inrq, cur>>
  /\ GotoWith(c, "idle", NoJob)
  /\ UNCHANGED <<home, drqs, mig, que, left, dst, done, ran>>

------------------------------------------------------------------------------
(* Remote wake-up *)

\* make t ready and xcpu_ready_enqueue it
Wake(c, x, t) ==
  /\ pc[c] = "idle" /\ cur[c] = x
  /\ st[x] = "user" /\ left[x] > 0 /\ "wake" \in sys.ops[x]
  /\ left' = [left EXCEPT ![x] = @ - 1]
  /\ flags' = [flags EXCEPT ![t] = @ \cup {"ready"}]
  /\ IF home[t] = c
       THEN /\ inrq' = [inrq EXCEPT ![t] = TRUE]
            /\ UNCHANGED ctl
       ELSE /\ Call(c, "wk_cpu", For(t), "idle")
            /\ UNCHANGED inrq
  /\ UNCHANGED <<home, drqs, mig, cur, que, st, dst, done, ran>>

\* pending_rqq_enqueue reads the home CPU
WkCpu(c) ==
  /\ pc[c] = "wk_cpu"
  /\ GotoWith(c, "wk_lock", [J(c) EXCEPT !.cpu = home[J(c).t]])
  /\ UNCHANGED <<ctx, cur, que, req>>

\* and looks at it again under the lock.  For an offline CPU there is only the
\* remote state change to handle, which is not modelled.
WkLock(c) ==
  /\ pc[c] = "wk_lock" /\ LockFree(J(c).cpu)
  /\ IF home[J(c).t] = J(c).cpu /\ online[J(c).cpu]
       THEN PendEnqueue(J(c).cpu, J(c).t)
       ELSE UNCHANGED <<pend, ipi>>
  /\ Return(c)
  /\ UNCHANGED <<ctx, cur, qlock, online, req>>

------------------------------------------------------------------------------
(* Migration *)

\* Sched::migrate: publish the request, mark the one it replaces as done
Migrate(c, x, t) ==
  /\ pc[c] = "idle" /\ cur[c] = x
  /\ st[x] = "user" /\ left[x] > 0
  /\ \E d \in sys.ops[x] \cap Cpus : dst' = [dst EXCEPT ![x] = d]
  /\ st' = [st EXCEPT ![x] = "mig"]
  /\ left' = [left EXCEPT ![x] = @ - 1]
  /\ done' = [y \in Requesters |-> IF y = x THEN FALSE ELSE done[y] \/ y = mig[t]]
  /\ mig' = [mig EXCEPT ![t] = x]
  /\ Call(c, "mg_cpu", For(t), "idle")
  /\ UNCHANGED <<home, drqs, flags, inrq, cur, que, ran>>

\* do the migration here, or ask the home CPU
MgCpu(c) ==
  /\ pc[c] = "mg_cpu"
  /\ IF home[J(c).t] = c
       THEN Goto(c, "sm_load")
       ELSE GotoWith(c, "mx_lock", [J(c) EXCEPT !.cpu = home[J(c).t]])
  /\ UNCHANGED <<ctx, cur, que, req>>

\* migrate_xcpu, under the lock of the CPU read: already migrated
MxMoved(c) ==
  /\ pc[c] = "mx_lock" /\ LockFree(J(c).cpu)
  /\ home[J(c).t] # J(c).cpu
  /\ Return(c)
  /\ UNCHANGED <<ctx, cur, que, req>>

\* migrate_xcpu: the CPU is offline, migrate on its behalf with its lock held
MxOffline(c) ==
  /\ pc[c] = "mx_lock" /\ LockFree(J(c).cpu)
  /\ home[J(c).t] = J(c).cpu
  /\ ~online[J(c).cpu]
  /\ qlock' = [qlock EXCEPT ![J(c).cpu] = c]
  /\ Call(c, "sm_load", [J(c) EXCEPT !.remote = TRUE], "unlock")
  /\ UNCHANGED <<ctx, cur, pend, ipi, online, req>>

\* migrate_xcpu: the home CPU shall do it
MxPend(c) ==
  /\ pc[c] = "mx_lock" /\ LockFree(J(c).cpu)
  /\ home[J(c).t] = J(c).cpu
  /\ online[J(c).cpu]
  /\ PendEnqueue(J(c).cpu, J(c).t)
  /\ Return(c)
  /\ UNCHANGED <<ctx, cur, qlock, online, req>>

\* start_migration: the load of Migration_ptr::get_and_clear
SmLoad(c) ==
  /\ pc[c] = "sm_load"
  /\ IF mig[J(c).t] = None
       THEN Return(c)
       ELSE GotoWith(c, "sm_cas", [J(c) EXCEPT !.inf = mig[J(c).t]])
  /\ UNCHANGED <<ctx, cur, que, req>>

\* start_migration: the request was replaced after the load, nothing to do
SmReplaced(c) ==
  /\ pc[c] = "sm_cas"
  /\ mig[J(c).t] # J(c).inf
  /\ Return(c)
  /\ UNCHANGED <<ctx, cur, que, req>>

\* start_migration: the request is for the CPU the context is on, so
\* set_sched_params and set_done are all there is to do
SmSame(c) ==
  /\ pc[c] = "sm_cas"
  /\ mig[J(c).t] = J(c).inf
  /\ dst[J(c).inf] = home[J(c).t]
  /\ mig' = [mig EXCEPT ![J(c).t] = None]
  /\ done' = [done EXCEPT ![J(c).inf] = TRUE]
  /\ inrq' = [inrq EXCEPT ![J(c).t] = Runnable(J(c).t)]
  /\ Return(c)
  /\ UNCHANGED <<home, drqs, flags, cur, que, st, left, dst, ran>>

\* start_migration: take the request
SmTake(c) ==
  /\ pc[c] = "sm_cas"
  /\ mig[J(c).t] = J(c).inf
  /\ dst[J(c).inf] # home[J(c).t]
  /\ mig' = [mig EXCEPT ![J(c).t] = None]
  /\ Goto(c, "ma_away")
  /\ UNCHANGED <<home, drqs, flags, inrq, cur, que, req>>

\* Mutant: the context stays in the pending queue it was in.
MaAwayStaysPending(c) ==
  /\ pc[c] = "ma_away"
  /\ LET t == J(c).t
         d == dst[J(c).inf]
     IN  /\ J(c).remote \/ LockFree(c)
         /\ UNCHANGED pend
         /\ qlock' = IF J(c).remote THEN [qlock EXCEPT ![J(c).cpu] = None] ELSE qlock
         /\ flags' = [flags EXCEPT ![t] = @ \cup {"finish_migration"}]
         /\ inrq' = [inrq EXCEPT ![t] = FALSE]
         /\ home' = [home EXCEPT ![t] = d]
         /\ done' = [done EXCEPT ![J(c).inf] = TRUE]
         /\ cur' = IF cur[c] = t THEN [cur EXCEPT ![c] = None] ELSE cur
         /\ pc' = [pc EXCEPT ![c] = "mt_lock"]
         /\ job' = [job EXCEPT ![c] = [For(t) EXCEPT !.cpu = d]]
         /\ stk' = IF J(c).remote THEN [stk EXCEPT ![c] = Tail(@)] ELSE stk
  /\ UNCHANGED <<drqs, mig, ipi, online, mq, st, left, dst, ran>>

\* migrate_away: out of the ready list and, under the queue lock, out of the
\* pending queue of the current CPU; migrate_finish_sched moves the context.
\* A remote migration holds the lock of the offline CPU already and drops it
\* here.  A context that is current leaves the CPU (handle_migration_helper).
MaAway(c) ==
  /\ pc[c] = "ma_away"
  /\ LET t == J(c).t
         d == dst[J(c).inf]
     IN  /\ J(c).remote \/ LockFree(c)
         /\ pend' = [pend EXCEPT ![c] = SelectSeq(@, LAMBDA y : y # t)]
         /\ qlock' = IF J(c).remote THEN [qlock EXCEPT ![J(c).cpu] = None] ELSE qlock
         /\ flags' = [flags EXCEPT ![t] = @ \cup {"finish_migration"}]
         /\ inrq' = [inrq EXCEPT ![t] = FALSE]
         /\ home' = [home EXCEPT ![t] = d]
         /\ done' = [done EXCEPT ![J(c).inf] = TRUE]
         /\ cur' = IF cur[c] = t THEN [cur EXCEPT ![c] = None] ELSE cur
         /\ pc' = [pc EXCEPT ![c] = "mt_lock"]
         /\ job' = [job EXCEPT ![c] = [For(t) EXCEPT !.cpu = d]]
         /\ stk' = IF J(c).remote THEN [stk EXCEPT ![c] = Tail(@)] ELSE stk
  /\ UNCHANGED <<drqs, mig, ipi, online, mq, st, left, dst, ran>>

\* migrate_to an offline CPU: handle its requests here, with the lock held
MtOffline(c) ==
  /\ pc[c] = "mt_lock" /\ LockFree(J(c).cpu)
  /\ home[J(c).t] = J(c).cpu
  /\ ~online[J(c).cpu]
  /\ qlock' = [qlock EXCEPT ![J(c).cpu] = c]
  /\ Call(c, "hd_start", J(c), "unlock")
  /\ UNCHANGED <<ctx, cur, pend, ipi, online, req>>

\* migrate_to: it moved on or somebody queued it already
MtDone(c) ==
  /\ pc[c] = "mt_lock" /\ LockFree(J(c).cpu)
  /\ \/ home[J(c).t] # J(c).cpu
     \/ online[J(c).cpu] /\ Queued(J(c).t)
  /\ Return(c)
  /\ UNCHANGED <<ctx, cur, que, req>>

\* migrate_to the current CPU: handle_drq and deblock
MtHere(c) ==
  /\ pc[c] = "mt_lock" /\ LockFree(c)
  /\ J(c).cpu = c /\ home[J(c).t] = c
  /\ ~Queued(J(c).t)
  /\ Call(c, "hd_start", J(c), "mt_deblock")
  /\ UNCHANGED <<ctx, cur, que, req>>

MtDeblock(c) ==
  /\ pc[c] = "mt_deblock"
  /\ inrq' = [inrq EXCEPT ![J(c).t] = TRUE]
  /\ Return(c)
  /\ UNCHANGED <<home, drqs, mig, flags, cur, que, req>>

\* migrate_to another CPU: tell it
MtPend(c) ==
  /\ pc[c] = "mt_lock" /\ LockFree(J(c).cpu)
  /\ home[J(c).t] = J(c).cpu
  /\ online[J(c).cpu] /\ J(c).cpu # c
  /\ ~Queued(J(c).t)
  /\ PendEnqueue(J(c).cpu, J(c).t)
  /\ Return(c)
  /\ UNCHANGED <<ctx, cur, qlock, online, req>>

\* Migration::wait ends
MigrateDone(c, x) ==
  /\ pc[c] = "idle" /\ cur[c] = x
  /\ st[x] = "mig" /\ done[x]
  /\ st' = [st EXCEPT ![x] = "user"]
  /\ UNCHANGED <<ctx, cur, que, ctl, left, dst, done, ran>>

------------------------------------------------------------------------------
(* The IPI: handle_remote_requests_irq *)

Irq(c) ==
  /\ pc[c] = "idle" /\ ipi[c]
  /\ ipi' = [ipi EXCEPT ![c] = FALSE]
  /\ mq' = [mq EXCEPT ![c] = None]
  /\ pc' = [pc EXCEPT ![c] = "irq_next"]
  /\ UNCHANGED <<ctx, cur, pend, qlock, online, job, stk, req>>

\* Remote_ready_queue::dequeue_first
IrqNext(c) ==
  /\ pc[c] = "irq_next" /\ LockFree(c)
  /\ IF pend[c] = <<>>
       THEN Goto(c, "irq_end") /\ UNCHANGED pend
       ELSE /\ pend' = [pend EXCEPT ![c] = Tail(@)]
            /\ GotoWith(c, "hr_mig", For(Head(pend[c])))
  /\ UNCHANGED <<ctx, cur, ipi, qlock, online, req>>

\* Mutant: a migration request for the current context is not deferred but dropped.
HrMigNotCurrent(c) ==
  /\ pc[c] = "hr_mig"
  /\ LET t == J(c).t
     IN  IF mig[t] = None
           THEN /\ flags' = [flags EXCEPT ![t] = @ \ {"finish_migration"}]
                /\ Goto(c, "hr_drq")
           ELSE /\ UNCHANGED flags
                /\ IF t = cur[c]
                     THEN /\ UNCHANGED mq
                          /\ pc' = [pc EXCEPT ![c] = "hr_drq"]
                          /\ UNCHANGED <<job, stk>>
                     ELSE Call(c, "sm_load", For(t), "hr_home")
  /\ UNCHANGED <<home, drqs, mig, inrq, cur, que, req>>

\* handle_remote_request: a migration request is served first, deferred if it
\* is for the current context; otherwise a migration to this CPU is finished
HrMig(c) ==
  /\ pc[c] = "hr_mig"
  /\ LET t == J(c).t
     IN  IF mig[t] = None
           THEN /\ flags' = [flags EXCEPT ![t] = @ \ {"finish_migration"}]
                /\ Goto(c, "hr_drq")
           ELSE /\ UNCHANGED flags
                /\ IF t = cur[c]
                     THEN /\ mq' = [mq EXCEPT ![c] = t]
                          /\ pc' = [pc EXCEPT ![c] = "hr_drq"]
                          /\ UNCHANGED <<job, stk>>
                     ELSE Call(c, "sm_load", For(t), "hr_home")
  /\ UNCHANGED <<home, drqs, mig, inrq, cur, que, req>>

\* Mutant: after a migration request the DRQs of the context are skipped.
HrHomeNext(c) ==
  /\ pc[c] = "hr_home"
  /\ Goto(c, "irq_next")
  /\ UNCHANGED <<ctx, cur, que, req>>

\* migrated away: on to the next request
HrHome(c) ==
  /\ pc[c] = "hr_home"
  /\ Goto(c, IF home[J(c).t] = c THEN "hr_drq" ELSE "irq_next")
  /\ UNCHANGED <<ctx, cur, que, req>>

\* pending DRQs are executed at once for the current context; another one
\* becomes drq_ready and, if it is ready now, enters the ready list
HrDrq(c) ==
  /\ pc[c] = "hr_drq"
  /\ LET t == J(c).t
         f == IF drqs[t] # <<>> /\ t # cur[c] THEN flags[t] \cup {"drq_ready"} ELSE flags[t]
     IN  /\ flags' = [flags EXCEPT ![t] = f]
         /\ inrq' = [inrq EXCEPT ![t] = @ \/ (t # cur[c] /\ f \cap ReadyMask # {})]
         /\ IF drqs[t] # <<>> /\ t = cur[c]
              THEN Call(c, "hd_start", For(t), "irq_next")
              ELSE Goto(c, "irq_next")
  /\ UNCHANGED <<home, drqs, mig, cur, que, req>>

\* the deferred migration of the current context
IrqEnd(c) ==
  /\ pc[c] = "irq_end"
  /\ IF mq[c] # None
       THEN Call(c, "sm_load", For(mq[c]), "irq_cur")
       ELSE Goto(c, "irq_cur")
  /\ UNCHANGED <<ctx, cur, que, req>>

\* and the DRQs of the current context, unless it just left; take_cpu_offline
\* drains the queue from the idle thread and goes on
IrqCur(c) ==
  /\ pc[c] = "irq_cur"
  /\ IF cur[c] # None
       THEN Call(c, "hd_start", For(cur[c]), "sw_done")
       ELSE IF stk[c] # <<>> THEN Return(c) ELSE GotoWith(c, "idle", NoJob)
  /\ UNCHANGED <<ctx, cur, que, req>>

------------------------------------------------------------------------------
(* Scheduling and CPU hotplug *)

\* the scheduler switches to x, switch_handle_drq follows
SwitchTo(c, x) ==
  /\ pc[c] = "idle" /\ cur[c] # x
  /\ home[x] = c /\ inrq[x] /\ Runnable(x)
  /\ cur' = [cur EXCEPT ![c] = x]
  /\ inrq' = IF cur[c] # None /\ Runnable(cur[c])
               THEN [inrq EXCEPT ![cur[c]] = TRUE] ELSE inrq
  /\ Call(c, "hd_start", For(x), "sw_done")
  /\ UNCHANGED <<home, drqs, mig, flags, que, req>>

\* the scheduler drops a context that is not ready from the ready list
Drop(c, x) ==
  /\ pc[c] = "idle" /\ cur[c] # x
  /\ home[x] = c /\ inrq[x] /\ ~Runnable(x)
  /\ inrq' = [inrq EXCEPT ![x] = FALSE]
  /\ UNCHANGED <<home, drqs, mig, flags, cur, que, ctl, req>>

\* after handle_drq: a context that is not ready leaves the CPU again, one that
\* waits for its DRQ looks at the answer
SwDone(c) ==
  /\ pc[c] = "sw_done"
  /\ LET x == cur[c]
     IN  IF ~Runnable(x)
           THEN /\ inrq' = [inrq EXCEPT ![x] = FALSE]
                /\ cur' = [cur EXCEPT ![c] = None]
                /\ GotoWith(c, "idle", NoJob)
           ELSE /\ GotoWith(c, IF x \in Requesters /\ st[x] = "drq" THEN "drq_sleep" ELSE "idle", NoJob)
                /\ UNCHANGED <<inrq, cur>>
  /\ UNCHANGED <<home, drqs, mig, flags, que, req>>

\* the idle thread, so with nothing else to run, starts take_cpu_offline
TakeOffline(c) ==
  /\ c \in sys.hotplug /\ pc[c] = "idle" /\ cur[c] = None
  /\ \A x \in Contexts : home[x] = c /\ inrq[x] => ~Runnable(x)
  /\ Goto(c, "off_check")
  /\ UNCHANGED <<ctx, cur, que, req>>

\* take_cpu_offline, under the queue lock: offline if the pending queue is
\* empty; if it is not, drain it and look again, or give up
OffCheck(c) ==
  /\ pc[c] = "off_check" /\ LockFree(c)
  /\ IF pend[c] = <<>>
       THEN /\ online' = [online EXCEPT ![c] = FALSE]
            /\ Goto(c, "off")
       ELSE /\ UNCHANGED online
            /\ IF sys.drain THEN Call(c, "irq_next", NoJob, "off_check") ELSE Goto(c, "idle")
  /\ UNCHANGED <<ctx, cur, pend, ipi, qlock, req>>

\* take_cpu_online does not take the queue lock
TakeOnline(c) ==
  /\ sys.replug /\ pc[c] = "off"
  /\ online' = [online EXCEPT ![c] = TRUE]
  /\ pc' = [pc EXCEPT ![c] = "idle"]
  /\ UNCHANGED <<ctx, cur, pend, ipi, qlock, job, stk, mq, req>>

------------------------------------------------------------------------------
(* Specification *)

\* what CPU c does once it is in the kernel
Kernel(c) ==
  \/ Unlock(c) \/ DrqSleep(c) \/ SwDone(c)
  \/ EqEnq(c) \/ EqCpu(c) \/ EqMoved(c) \/ EqOffline(c) \/ EqPend(c) \/ DxRun(c)
  \/ HdStart(c) \/ HdNext(c) \/ HdRun(c)
  \/ WkCpu(c) \/ WkLock(c)
  \/ MgCpu(c) \/ MxMoved(c) \/ MxOffline(c) \/ MxPend(c)
  \/ SmLoad(c) \/ SmReplaced(c) \/ SmSame(c) \/ SmTake(c) \/ MaAway(c)
  \/ MtOffline(c) \/ MtDone(c) \/ MtHere(c) \/ MtDeblock(c) \/ MtPend(c)
  \/ IrqNext(c) \/ HrMig(c) \/ HrHome(c) \/ HrDrq(c) \/ IrqEnd(c) \/ IrqCur(c) \/ OffCheck(c)

\* what takes CPU c into the kernel
Enter(c) ==
  \/ Irq(c)
  \/ \E x \in Contexts : SwitchTo(c, x) \/ Drop(c, x)
  \/ \E x \in Requesters :
       \/ MigrateDone(c, x)
       \/ \E t \in Targets : Drq(c, x, t) \/ Wake(c, x, t) \/ Migrate(c, x, t)
  \/ TakeOffline(c)
  \/ TakeOnline(c)

Next == (\E c \in Cpus : Kernel(c) \/ Enter(c)) /\ UNCHANGED sys

Spec == Init /\ [][Next]_vars

------------------------------------------------------------------------------
(* Properties *)

\* Queues, pointers and flags of contexts and CPUs hold values of their types; in
\* particular a migration pointer names a request that exists.
TypeOK ==
  /\ sys \in Systems
  /\ home \in [Contexts -> Cpus]
  /\ drqs \in [Contexts -> Seq(Contexts)]
  /\ mig \in [Contexts -> Requesters \cup {None}]
  /\ flags \in [Contexts -> SUBSET Flags]
  /\ inrq \in [Contexts -> BOOLEAN]
  /\ cur \in [Cpus -> Contexts \cup {None}]
  /\ pend \in [Cpus -> Seq(Contexts)]
  /\ ipi \in [Cpus -> BOOLEAN]
  /\ qlock \in [Cpus -> Cpus \cup {None}]
  /\ online \in [Cpus -> BOOLEAN]
  /\ pc \in [Cpus -> Labels]
  /\ job \in [Cpus -> Job]
  /\ stk \in [Cpus -> Seq([pc : Labels, job : Job])]
  /\ mq \in [Cpus -> Contexts \cup {None}]
  /\ st \in [Requesters -> {"user", "drq", "mig"}]
  /\ left \in [Requesters -> 0 .. sys.budget]
  /\ dst \in [Requesters -> Cpus \cup {None}]
  /\ done \in [Requesters -> BOOLEAN]
  /\ ran \in [Requesters -> Nat]

\* The DRQ that CPU c executes is for a context of this CPU, or for one of an
\* offline CPU whose queue lock c holds.
RunsDrqFor(c, t) == pc[c] \in {"dx_run", "hd_run"} /\ J(c).t = t

\* Whatever concerns a context is at its home CPU.  It runs there.  It is at most once
\* in a pending queue, the one of its home CPU, and never in the queue of an
\* offline CPU: a migration takes the entry along.  A DRQ is executed by the home CPU
\* or, while that is offline, by a CPU that holds its queue lock, and never by two
\* CPUs at a time (the preconditions of _deq_exec_drq and the assertion
\* check_for_current_cpu() of handle_drq); this holds if no CPU comes back.  And "the
\* migration must be finished on the new CPU core before executing any userland code"
\* (sched.cc, migrate_finish_sched).
AllAtHome ==
  /\ \A c \in Cpus : cur[c] # None => home[cur[c]] = c
  /\ \A c \in Cpus :
       /\ IsInjective(pend[c]) /\ \A t \in ToSet(pend[c]) : home[t] = c
       /\ pend[c] # <<>> => online[c]
  /\ ~sys.replug => \A c \in Cpus, t \in Contexts :
       RunsDrqFor(c, t) =>
         /\ home[t] = c \/ (~online[home[t]] /\ qlock[home[t]] = c)
         /\ \A d \in Cpus \ {c} : ~RunsDrqFor(d, t)
  /\ \A c \in Cpus :
       pc[c] = "idle" /\ cur[c] # None => "finish_migration" \notin flags[cur[c]]

\* When drq() returns, the request was executed exactly once.
DrqExactlyOnce ==
  \A x \in Requesters :
    /\ ran[x] <= 1
    /\ st[x] = "drq" /\ "drq_wait" \notin flags[x] => ran[x] = 1

\* no CPU is in the kernel and no IPI is on its way
Settled ==
  \A c \in Cpus : pc[c] \in {"idle", "off"} /\ (online[c] => ~ipi[c])

\* When everything is settled, a DRQ that is still queued belongs to a context
\* that is going to be scheduled: "the new CPU is responsible for executing our
\* request" (context_mp.h) holds wherever the context moved.
NoForgottenDrq ==
  Settled =>
    \A x \in Contexts :
      drqs[x] # <<>> => "drq_ready" \in flags[x] /\ inrq[x]

\* When everything is settled, no migration request is left in a context, and
\* everybody who waits for one, served or replaced by a later one, has been told:
\* a requester that is not told spins for ever.  "Ready queue a context on another
\* CPU" (context.h): a context that is ready, wherever it was moved to, is in the ready
\* list of its CPU or runs there.  It holds as long as no CPU goes offline.
NoForgottenMigration ==
  Settled /\ sys.hotplug = {} =>
    /\ \A t \in Targets : mig[t] = None
    /\ \A x \in Requesters : st[x] = "mig" => done[x]
    /\ \A x \in Contexts :
         Runnable(x) /\ online[home[x]] => inrq[x] \/ cur[home[x]] = x

\* lock_and_dequeue_rqq asserts that the lock of the queue it dequeues from,
\* the one of the current CPU, is held.
QueueLockHeld ==
  \A c \in Cpus : pc[c] = "ma_away" /\ J(c).remote => qlock[c] # None

==============================================================================
