------------------------------- MODULE MCIpc --------------------------------
(***************************************************************************)
(* Instances of ThreadIpc, IrqSender and Semaphore for TLC: who waits for  *)
(* a thread, for an interrupt or at a semaphore is served.  TLC explores   *)
(* them in one run: `part' names the module whose instance takes steps,    *)
(* and never changes.                                                      *)
(***************************************************************************)
EXTENDS ThreadIpc, TLC

CONSTANTS c1, c2, srv,            \* ThreadIpc: two clients and a server
          t1, t2, irq, wq, busy,  \* IrqSender: two receivers
          p1, p2, p3              \* Semaphore: the CPUs, where t1 and t2 wait

VARIABLES
  part,
  i_sys, i_queued, target, i_enabled, i_masked, i_list, wait_q, has_senders, i_state,
  i_poi, i_pc, rcv, old, i_got, hits, ctls,                         \* IrqSender
  s_sys, s_queued, waiting, valid, s_enabled, s_masked, cpu, hpc, wake, s_pc, ready,
  rwait, abort, to, error, result, granted, ups, downs              \* Semaphore

irq_vars == <<i_sys, i_queued, target, i_enabled, i_masked, i_list, wait_q,
              has_senders, i_state, i_poi, i_pc, rcv, old, i_got, hits, ctls>>
sem_vars == <<s_sys, s_queued, waiting, valid, s_enabled, s_masked, cpu, hpc, wake,
              s_pc, ready, rwait, abort, to, error, result, granted, ups, downs>>
all == <<part, vars, irq_vars, sem_vars>>

-----------------------------------------------------------------------------
(* Threads                                                                 *)

\* Every thread on a CPU of its own, or all on one.
OwnCpus == c1 :> 1 @@ c2 :> 2 @@ srv :> 3
Shared == c1 :> 1 @@ c2 :> 1 @@ srv :> 1

IpcOp(partner, recv, from, snd, rto) ==
  [to |-> partner, recv |-> recv, from |-> from, snd |-> snd, rcv |-> rto]
Call(partner, snd, rto) == IpcOp(partner, TRUE, partner, snd, rto)
Send(partner, snd) == IpcOp(partner, FALSE, None, snd, "never")
Wait(from, rto) == IpcOp(None, TRUE, from, "never", rto)
ReplyAndWait(snd, rto) == IpcOp(LastSender, TRUE, None, snd, rto)

Plain == [home |-> Shared, oneshot |-> {}, mortal |-> {}, cancelled |-> {},
          fails |-> FALSE, items |-> FALSE]

Ops(client, server) ==
  [ops |-> [t \in {c1, c2} |-> client] @@ srv :> server]

\* Sends, calls, open and closed waits with every kind of timeout, a server
\* that is cancelled and killed.
Mixed == Ops({Call(srv, "never", "finite"), Send(srv, "finite")},
             {Wait(c1, "finite"), ReplyAndWait("zero", "zero")})
           @@ [mortal |-> {srv}, cancelled |-> {srv}] @@ Plain

\* Sends that are aborted by a timeout, with preemption inside the copy.
Aborts == Ops({Send(srv, "finite"), Call(srv, "never", "never")},
              {ReplyAndWait("zero", "never")})
            @@ [items |-> TRUE] @@ Plain

\* Senders on different CPUs that meet one receiver.
Rendezvous == Ops({Send(srv, "never"), Send(srv, "zero"),
                   Call(srv, "never", "zero")}, {Wait(None, "never")})
                @@ [home |-> OwnCpus, oneshot |-> Threads, fails |-> TRUE,
                    items |-> TRUE] @@ Plain

Encounters == {Mixed, Aborts, Rendezvous}

-----------------------------------------------------------------------------
(* Interrupts                                                              *)

\* the CPUs of the interrupt, the trigger, the control thread, t1 and t2
CpuOf(h, g, k, a, b) ==
  "hit" :> h @@ "trigger" :> g @@ "ctl" :> k @@ t1 :> a @@ t2 :> b

PlainIrq ==
  [cpu |-> CpuOf(0, 0, 0, 0, 0), edge |-> FALSE, soft |-> FALSE,
   wait |-> [t \in {t1, t2} |-> t], first |-> t1, sources |-> {"hit", "trigger"},
   binds |-> {}, detach |-> FALSE, timeouts |-> {}, maxhits |-> 3, maxctl |-> 0]

AtQueue == [wait |-> [t \in {t1, t2} |-> wq], first |-> wq]
Remote(h) == [cpu |-> CpuOf(0, h, 0, 1, 1)]

\* A software interrupt triggered on two CPUs, a level triggered one on another CPU
\* than its receiver, also while it is bound to another thread or detached; and on one
\* CPU edge and level triggered ones that are bound to threads and a wait queue in turn.
Interrupts ==
  {[soft |-> TRUE] @@ Remote(1) @@ PlainIrq,
   [sources |-> {"hit"}] @@ Remote(0) @@ PlainIrq,
   [cpu |-> CpuOf(0, 0, 0, 0, 1), sources |-> {"hit"}, binds |-> {t2}, maxctl |-> 1]
     @@ PlainIrq,
   [sources |-> {"hit"}, detach |-> TRUE, maxctl |-> 1] @@ Remote(0) @@ PlainIrq,
   [edge |-> TRUE, binds |-> {t1, t2}, timeouts |-> {t1, t2}, maxhits |-> 4, maxctl |-> 2]
     @@ PlainIrq,
   [edge |-> TRUE, timeouts |-> {t1, t2}, maxhits |-> 4] @@ AtQueue @@ PlainIrq,
   [wait |-> t1 :> t1 @@ t2 :> wq, binds |-> {t1, wq}, timeouts |-> {t1}, maxctl |-> 2]
     @@ PlainIrq}

I == INSTANCE IrqSender WITH
       Threads <- {t1, t2}, Systems <- Interrupts, Irq <- irq, Wq <- wq,
       Detaching <- busy, sys <- i_sys, queued <- i_queued, enabled <- i_enabled,
       masked <- i_masked, list <- i_list, state <- i_state, poi <- i_poi, pc <- i_pc,
       got <- i_got

ASSUME IrqAssumption == \A s \in Interrupts : I!IsSystem(s)

-----------------------------------------------------------------------------
(* Semaphores                                                              *)

Spread == t1 :> p1 @@ t2 :> p2

\* one CPU, where nothing interleaves inside the kernel; everything may happen
OneCpu ==
  [home |-> [t \in {t1, t2} |-> p1], hits |-> {p1}, edge |-> TRUE, soft |-> TRUE,
   timeouts |-> {"never", "zero", "finite"}, cancels |-> TRUE, destroyer |-> p1,
   longmax |-> 3, maxups |-> 5, maxdowns |-> 2]

\* interrupts, software triggers and the destruction of the semaphore race with waiters
\* on other CPUs
Destroyed ==
  [home |-> Spread, hits |-> {p1, p3}, edge |-> FALSE, soft |-> TRUE,
   timeouts |-> {"never"}, cancels |-> FALSE, destroyer |-> p2,
   longmax |-> 9, maxups |-> 3, maxdowns |-> 2]

\* timeouts and cancellations race with an interrupt and with the destruction of the
\* semaphore on other CPUs
Racing ==
  [home |-> Spread, hits |-> {p2}, edge |-> FALSE, soft |-> FALSE,
   timeouts |-> {"never", "finite"}, cancels |-> TRUE, destroyer |-> p3,
   longmax |-> 2, maxups |-> 3, maxdowns |-> 1]

Semaphores == {OneCpu, Destroyed, Racing}

S == INSTANCE Semaphore WITH
       Cpus <- {p1, p2, p3}, Threads <- {t1, t2}, Systems <- Semaphores,
       sys <- s_sys, queued <- s_queued, enabled <- s_enabled, masked <- s_masked,
       pc <- s_pc

ASSUME SemaphoreAssumption == \A s \in Semaphores : S!IsSystem(s)

-----------------------------------------------------------------------------
(* The run                                                                 *)

AllInit ==
  /\ part \in {"ipc", "irq", "sem"}
  /\ Init /\ (part # "ipc" => sys = Mixed)
  /\ I!Init /\ (part # "irq" => i_sys = [soft |-> TRUE] @@ Remote(1) @@ PlainIrq)
  /\ S!Init /\ (part # "sem" => s_sys = OneCpu)

AllNext ==
  /\ UNCHANGED part
  /\ \/ part = "ipc" /\ Next /\ UNCHANGED <<irq_vars, sem_vars>>
     \/ part = "irq" /\ I!Next /\ UNCHANGED <<vars, sem_vars>>
     \/ part = "sem" /\ S!Next /\ UNCHANGED <<vars, irq_vars>>

AllSpec == AllInit /\ [][AllNext]_all

-----------------------------------------------------------------------------
(* The properties of IrqSender and Semaphore, which explain them           *)

\* Nobody sleeps at an interrupt's target while interrupts are queued, and nobody
\* gets a message of Irq_sender without one.
NoForgottenIrq == part = "irq" => I!NoForgottenIrq

\* An interrupt that stays masked has a message queued that leads to its being
\* unmasked by consume() or the EOI.
MaskedMeansQueued == part = "irq" => I!MaskedMeansQueued

\* sys_down() of a semaphore reports what has happened: a count is never lost, and
\* never made up while the semaphore exists.
ReportsGrant == part = "sem" => S!ReportsGrant

\* The list of waiters is right, and no thread waits while there is a count to take.
NoForgottenWaiter == part = "sem" => S!NoForgottenWaiter

\* An edge triggered interrupt of a semaphore that stays masked has two interrupts
\* pending.
MaskedMeansPending == part = "sem" => S!MaskedMeansPending
=============================================================================
