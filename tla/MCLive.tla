------------------------------- MODULE MCLive -------------------------------
(***************************************************************************)
(* Waiting for others ends: an RCU callback runs, a lock is destroyed, and *)
(* an IPC call is answered.  TLC explores instances of Rcu, SwitchLock and *)
(* ThreadIpc in one run: `part' names the module whose instance takes      *)
(* steps, and never changes.                                               *)
(***************************************************************************)
EXTENDS Rcu, TLC

CONSTANTS r1, r2,          \* Rcu: the CPUs
          i1,              \* Rcu: one of the items, which are interchangeable
          t1, t2, c1, c2,  \* SwitchLock: threads and CPUs
          srv, LastSender  \* ThreadIpc: the server of t1 and t2

VARIABLES
  part,
  owner, invalid, destroyed, lock_cnt, rul, helper, home, cur, prev, in_sched, l_pc,
  l_ret, via, lk, freeing, tgt,                                     \* SwitchLock
  sys, state, list, poi, op, timer, next, act, ipc_pc, res, got, sent   \* ThreadIpc

lock_vars == <<owner, invalid, destroyed, lock_cnt, rul, helper, home, cur, prev,
               in_sched, l_pc, l_ret, via, lk, freeing, tgt>>
ipc_vars == <<sys, state, list, poi, op, timer, next, act, ipc_pc, res, got, sent>>
all == <<part, vars, lock_vars, ipc_vars>>

-----------------------------------------------------------------------------
\* Two threads, two CPUs and a lock.  The switches that other modules' wakeups and
\* requests cause (SwitchTo, ResumeResched) and migration are left out.
L == INSTANCE SwitchLock WITH
       Threads <- {t1, t2}, Cpus <- {c1, c2}, Movable <- {}, Locks <- {1},
       freed <- destroyed, pc <- l_pc, ret <- l_ret

LockNext ==
  \E k \in {c1, c2} :
    \/ L!SwitchIn(k)
    \/ \E t \in L!Ctx : L!Exec(k, t) /\
        (\/ L!Work(k, t) \/ L!Sched(k, t) \/ L!Preempt(k, t)
         \/ L!LockStart(k, t, 1) \/ L!Invalidate(k, t, 1)
         \/ \E o \in L!Ctx : L!PickOther(k, t, o))

\* Two clients that call a server on their CPU, which has a loop of reply and open
\* wait; messages carry items, and copying may fail.
ReplyLoop ==
  LET Ipc(to, from) == [to |-> to, recv |-> TRUE, from |-> from, snd |-> "never",
                        rcv |-> "never"]
  IN [home |-> [t \in {t1, t2, srv} |-> 1],
      ops |-> [t \in {t1, t2} |-> {Ipc(srv, srv)}] @@ srv :> {Ipc(LastSender, None)},
      oneshot |-> {}, mortal |-> {}, cancelled |-> {}, fails |-> TRUE, items |-> TRUE]

I == INSTANCE ThreadIpc WITH
       Threads <- {t1, t2, srv}, Cpus <- {1}, Systems <- {ReplyLoop}, pc <- ipc_pc

ASSUME ReplyLoopAssumption == I!IsSystem(ReplyLoop)

-----------------------------------------------------------------------------
RcuPart == part = "rcu" /\ UNCHANGED <<part, lock_vars, ipc_vars>>
LockPart == part = "lock" /\ UNCHANGED <<part, vars, ipc_vars>>
IpcPart == part = "ipc" /\ UNCHANGED <<part, vars, lock_vars>>

\* The CPUs of SwitchLock are interchangeable: t1 is at home on the first one.
LiveInit ==
  /\ part \in {"rcu", "lock", "ipc"}
  /\ Init
  /\ L!Init /\ home[t1] = c1 /\ (part # "lock" => home[t2] = c1)
  /\ I!Init

LiveNext ==
  \/ RcuPart /\ Next
  \/ LockPart /\ LockNext
  \/ IpcPart /\ I!Next

\* The fairness of the modules, and the server goes on serving.  Only one instance
\* takes steps, so that fairness of a disjunction of steps of different instances is
\* fairness of each of them.
Preempted(k) == LockPart /\ \E t \in L!Ctx : L!Exec(k, t) /\ L!Preempt(k, t)
Works(t) == LockPart /\ \E k \in {c1, c2} : L!Exec(k, t) /\ L!Work(k, t)
Picked(o) == LockPart /\ \E k \in {c1, c2}, t \in L!Ctx :
                           L!Exec(k, t) /\ L!PickOther(k, t, o)

LiveFairness ==
  /\ WF_all((LockPart /\ L!SwitchIn(c1)) \/ (RcuPart /\ ReadUnlock(r1)))
  /\ WF_all((LockPart /\ L!SwitchIn(c2)) \/ (RcuPart /\ ReadUnlock(r2)))
  /\ \A k \in {c1, c2} : WF_all(LockPart /\ \E t \in L!Ctx : L!Exec(k, t) /\ L!Sched(k, t))
  /\ SF_all(Works(t1) \/ (IpcPart /\ I!Step(t1)) \/ (RcuPart /\ Rcu(r1)))
  /\ SF_all(Works(t2) \/ (IpcPart /\ I!Step(t2)) \/ (RcuPart /\ Rcu(r2)))
  /\ SF_all(Preempted(c1) \/ (IpcPart /\ I!Step(srv)) \/ (RcuPart /\ Work(r1)))
  /\ SF_all(Preempted(c2) \/ (IpcPart /\ I!Ask(srv)) \/ (RcuPart /\ Work(r2)))
  /\ \A t \in {t1, t2} : SF_all(Picked(t))

LiveSpec == LiveInit /\ [][LiveNext]_all /\ LiveFairness

-----------------------------------------------------------------------------
\* Every item handed over to Rcu::call() is freed in the end.
ItemFreed == HandedOver(i1) ~> i1 \in freed

\* A destroyer waiting in wait_free() gets through: the holders it helps, here or
\* elsewhere, release the lock, and no late locker takes it again.
DestroyerGetsThrough == invalid[1] ~> destroyed[1]

\* An IPC call returns, as long as its partner goes on serving.
CallAnswered == ipc_pc[t1] = "first" ~> ipc_pc[t1] = "user"
=============================================================================
