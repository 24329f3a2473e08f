--------------------------------- MODULE Rcu ---------------------------------
(***************************************************************************)
(* Read-copy update (rcupdate.h, rcupdate.cc), with which the kernel       *)
(* delays the release of kernel objects and capability tables until no CPU *)
(* can be using them any more.                                             *)
(*                                                                         *)
(* A CPU is inside a read section while it holds its CPU lock              *)
(* (Rcu::lock()).  Rcu::call() hands over an item whose callback must not  *)
(* run before every CPU that was inside a read section at that time has    *)
(* left it.  Items wait for a grace period, named by a batch number: each  *)
(* active CPU reports one quiescent state per batch, and the last one      *)
(* completes the batch.  A CPU that goes to sleep stops participating.     *)
(*                                                                         *)
(* A CPU does its RCU work with interrupts disabled, so that only other    *)
(* CPUs interleave with it.  The global data is written under a spin lock  *)
(* and read without it, hence every access that another CPU can observe is *)
(* a step of its own.                                                      *)
(***************************************************************************)
EXTENDS Integers, FiniteSets

CONSTANTS
  Cpus,    \* the CPUs
  Items,   \* Rcu_items, each handed over at most once
  None     \* no CPU

ASSUME RcuAssumption == None \notin Cpus

VARIABLES
  current,       \* Rcu_glbl::_current
  completed,     \* Rcu_glbl::_completed
  next_pending,  \* Rcu_glbl::_next_pending
  lock,          \* Rcu_glbl::_lock: the CPU holding it, or None
  cpus,          \* Rcu_glbl::_cpus: CPUs the current batch waits for
  active,        \* Rcu_glbl::_active_cpus
  q_batch,       \* Rcu_data::_q_batch
  q_passed,      \* Rcu_data::_q_passed
  pending,       \* Rcu_data::_pending
  batch,         \* Rcu_data::_batch
  n,             \* Rcu_data::_n: items without a batch
  c,             \* Rcu_data::_c: items waiting for batch[p]
  d,             \* Rcu_data::_d: items whose grace period is over
  pc,            \* where CPU p is; "run" outside the RCU code, "sleep" in deep idle
  ret,           \* where start_batch() and cpu_quiet() return to
  rd,            \* rd[p]: CPU p is inside a read section
  ref,           \* ref[i]: the CPUs that were inside a read section when item i was
                 \* handed over and have not left it since
  freed          \* the items whose callbacks have run

glbl  == <<current, completed, next_pending, lock, cpus, active>>
qs    == <<q_batch, q_passed, pending>>
lists == <<batch, n, c, d>>
ghost == <<rd, ref, freed>>
vars  == <<glbl, qs, lists, pc, ret, ghost>>

\* the labels at which a CPU holds the lock of the global data
Locked == {"np_set", "sb_clear", "sb_inc", "sb_cpus", "q_check", "q_quiet",
           "ei_clear", "ei_quiet", "ei_assert"}

Labels == Locked \cup {"run", "done", "next", "np", "np_lock", "quiesce", "q_lock",
                       "batch", "ei_lock", "sleep", "li_lock"}

Goto(p, l) == pc' = [pc EXCEPT ![p] = l]

Init ==
  /\ current = -300 /\ completed = -300
  /\ next_pending = FALSE
  /\ lock = None
  /\ cpus = {} /\ active = Cpus
  /\ q_batch = [p \in Cpus |-> -300]
  /\ q_passed = [p \in Cpus |-> FALSE]
  /\ pending = [p \in Cpus |-> FALSE]
  /\ batch = [p \in Cpus |-> -300]
  /\ n = [p \in Cpus |-> {}]
  /\ c = [p \in Cpus |-> {}]
  /\ d = [p \in Cpus |-> {}]
  /\ pc = [p \in Cpus |-> "run"]
  /\ ret = [p \in Cpus |-> "run"]
  /\ rd = [p \in Cpus |-> FALSE]
  /\ ref = [i \in Items |-> {}]
  /\ freed = {}

------------------------------------------------------------------------------
(* Users of RCU *)

ReadLock(p) ==
  /\ pc[p] = "run" /\ ~rd[p]
  /\ rd' = [rd EXCEPT ![p] = TRUE]
  /\ UNCHANGED <<glbl, qs, lists, pc, ret, ref, freed>>

ReadUnlock(p) ==
  /\ pc[p] = "run" /\ rd[p]
  /\ rd' = [rd EXCEPT ![p] = FALSE]
  /\ ref' = [i \in Items |-> ref[i] \ {p}]
  /\ UNCHANGED <<glbl, qs, lists, pc, ret, freed>>

HandedOver(i) == i \in freed \/ \E p \in Cpus : i \in n[p] \cup c[p] \cup d[p]

\* Rcu::call
Call(p, i) ==
  /\ pc[p] = "run" /\ ~HandedOver(i)
  /\ n' = [n EXCEPT ![p] = @ \cup {i}]
  /\ ref' = [ref EXCEPT ![i] = {r \in Cpus : rd[r]}]
  /\ UNCHANGED <<glbl, qs, batch, c, d, pc, ret, rd, freed>>

------------------------------------------------------------------------------
(* Rcu_data::process_callbacks *)

\* Rcu_data::pending
Pending(p) ==
  \/ c[p] # {} /\ completed >= batch[p]
  \/ c[p] = {} /\ n[p] # {}
  \/ d[p] # {}
  \/ q_batch[p] # current
  \/ pending[p]

\* Rcu::do_pending_work, from an interrupt: the CPU lock was not held
Work(p) ==
  /\ pc[p] = "run" /\ ~rd[p]
  /\ Pending(p)
  /\ q_passed' = [q_passed EXCEPT ![p] = TRUE]
  /\ Goto(p, "done")
  /\ UNCHANGED <<glbl, q_batch, pending, lists, ret, ghost>>

\* items whose batch is completed are done
ProcDone(p) ==
  /\ pc[p] = "done"
  /\ IF completed >= batch[p]
       THEN /\ d' = [d EXCEPT ![p] = @ \cup c[p]]
            /\ c' = [c EXCEPT ![p] = {}]
       ELSE UNCHANGED <<c, d>>
  /\ Goto(p, "next")
  /\ UNCHANGED <<glbl, qs, batch, n, ret, ghost>>

\* Mutant: new items get the current batch.
ProcNextNow(p) ==
  /\ pc[p] = "next" /\ n[p] # {} /\ c[p] = {}
  /\ c' = [c EXCEPT ![p] = n[p]]
  /\ n' = [n EXCEPT ![p] = {}]
  /\ batch' = [batch EXCEPT ![p] = current]
  /\ Goto(p, "np")
  /\ UNCHANGED <<glbl, qs, d, ret, ghost>>

\* new items get the batch after the current one
ProcNext(p) ==
  /\ pc[p] = "next" /\ n[p] # {} /\ c[p] = {}
  /\ c' = [c EXCEPT ![p] = n[p]]
  /\ n' = [n EXCEPT ![p] = {}]
  /\ batch' = [batch EXCEPT ![p] = current + 1]
  /\ Goto(p, "np")
  /\ UNCHANGED <<glbl, qs, d, ret, ghost>>

ProcNoNext(p) ==
  /\ pc[p] = "next" /\ (n[p] = {} \/ c[p] # {})
  /\ Goto(p, "quiesce")
  /\ UNCHANGED <<glbl, qs, lists, ret, ghost>>

\* somebody else may have asked for the next batch already
ProcAsk(p) ==
  /\ pc[p] = "np"
  /\ Goto(p, IF next_pending THEN "quiesce" ELSE "np_lock")
  /\ UNCHANGED <<glbl, qs, lists, ret, ghost>>

\* acquire the spin lock at label l and go on at m
Acquire(p, l, m) ==
  /\ pc[p] = l /\ lock = None
  /\ lock' = p
  /\ Goto(p, m)
  /\ UNCHANGED <<current, completed, next_pending, cpus, active, qs, lists, ret, ghost>>

\* start_batch() after the caller has seen to it that next_pending is TRUE iff np:
\* returns to r, releasing the lock if nothing is left to do under it
StartBatch(p, np, r) ==
  /\ ret' = [ret EXCEPT ![p] = r]
  /\ IF np /\ completed' = current
       THEN Goto(p, "sb_clear") /\ UNCHANGED lock
       ELSE Goto(p, r) /\ lock' = IF r \in Locked THEN lock ELSE None

NpSet(p) ==
  /\ pc[p] = "np_set"
  /\ next_pending' = TRUE
  /\ UNCHANGED <<current, completed, cpus, active, qs, lists, ghost>>
  /\ StartBatch(p, TRUE, "quiesce")

SbClear(p) ==
  /\ pc[p] = "sb_clear"
  /\ next_pending' = FALSE
  /\ Goto(p, "sb_inc")
  /\ UNCHANGED <<current, completed, lock, cpus, active, qs, lists, ret, ghost>>

SbInc(p) ==
  /\ pc[p] = "sb_inc"
  /\ current' = current + 1
  /\ Goto(p, "sb_cpus")
  /\ UNCHANGED <<completed, next_pending, lock, cpus, active, qs, lists, ret, ghost>>

SbCpus(p) ==
  /\ pc[p] = "sb_cpus"
  /\ cpus' = active
  /\ Goto(p, ret[p])
  /\ lock' = IF ret[p] \in Locked THEN lock ELSE None
  /\ UNCHANGED <<current, completed, next_pending, active, qs, lists, ret, ghost>>

\* check_quiescent_state: a new batch, the quiescent state must come after it
QNewBatch(p) ==
  /\ pc[p] = "quiesce" /\ q_batch[p] # current
  /\ pending' = [pending EXCEPT ![p] = TRUE]
  /\ q_passed' = [q_passed EXCEPT ![p] = FALSE]
  /\ q_batch' = [q_batch EXCEPT ![p] = current]
  /\ Goto(p, "batch")
  /\ UNCHANGED <<glbl, lists, ret, ghost>>

QNothing(p) ==
  /\ pc[p] = "quiesce" /\ q_batch[p] = current
  /\ ~(pending[p] /\ q_passed[p])
  /\ Goto(p, "batch")
  /\ UNCHANGED <<glbl, qs, lists, ret, ghost>>

QReport(p) ==
  /\ pc[p] = "quiesce" /\ q_batch[p] = current
  /\ pending[p] /\ q_passed[p]
  /\ pending' = [pending EXCEPT ![p] = FALSE]
  /\ Goto(p, "q_lock")
  /\ UNCHANGED <<glbl, q_batch, q_passed, lists, ret, ghost>>

\* the batch is looked at again under the lock
QCheck(p) ==
  /\ pc[p] = "q_check"
  /\ IF q_batch[p] = current
       THEN Goto(p, "q_quiet") /\ UNCHANGED lock
       ELSE Goto(p, "batch") /\ lock' = None
  /\ UNCHANGED <<current, completed, next_pending, cpus, active, qs, lists, ret, ghost>>

\* Rcu_glbl::cpu_quiet: the last CPU completes the batch and starts the next one
CpuQuiet(p, r) ==
  /\ cpus' = cpus \ {p}
  /\ completed' = IF cpus' = {} THEN current ELSE completed
  /\ UNCHANGED <<current, next_pending, active, qs, lists, ghost>>
  /\ StartBatch(p, cpus' = {} /\ next_pending, r)

QQuiet(p) == pc[p] = "q_quiet" /\ CpuQuiet(p, "batch")

\* do_batch: call the callbacks
DoBatch(p) ==
  /\ pc[p] = "batch"
  /\ freed' = freed \cup d[p]
  /\ d' = [d EXCEPT ![p] = {}]
  /\ Goto(p, "run")
  /\ UNCHANGED <<glbl, qs, batch, n, c, ret, rd, ref>>

------------------------------------------------------------------------------
(* Deep idle: Cpu_tickless_idle::idle *)

\* Rcu::idle holds, start Rcu_data::enter_idle
EnterIdle(p) ==
  /\ pc[p] = "run" /\ ~rd[p]
  /\ c[p] = {} /\ ~Pending(p)
  /\ Goto(p, "ei_lock")
  /\ UNCHANGED <<glbl, qs, lists, ret, ghost>>

\* Mutant: a batch the CPU has not noticed yet is not reported.
EiClearPendingOnly(p) ==
  /\ pc[p] = "ei_clear"
  /\ active' = active \ {p}
  /\ IF pending[p]
       THEN /\ q_batch' = [q_batch EXCEPT ![p] = current]
            /\ pending' = [pending EXCEPT ![p] = FALSE]
            /\ Goto(p, "ei_quiet")
            /\ UNCHANGED lock
       ELSE /\ Goto(p, "sleep")
            /\ lock' = None
            /\ UNCHANGED <<q_batch, pending>>
  /\ UNCHANGED <<current, completed, next_pending, cpus, q_passed, lists, ret, ghost>>

\* leave the active CPUs; nothing more to do unless a batch waits for this CPU
EiClear(p) ==
  /\ pc[p] = "ei_clear"
  /\ active' = active \ {p}
  /\ IF q_batch[p] # current \/ pending[p]
       THEN /\ q_batch' = [q_batch EXCEPT ![p] = current]
            /\ pending' = [pending EXCEPT ![p] = FALSE]
            /\ Goto(p, "ei_quiet")
            /\ UNCHANGED lock
       ELSE /\ Goto(p, "sleep")
            /\ lock' = None
            /\ UNCHANGED <<q_batch, pending>>
  /\ UNCHANGED <<current, completed, next_pending, cpus, q_passed, lists, ret, ghost>>

EiQuiet(p) == pc[p] = "ei_quiet" /\ CpuQuiet(p, "ei_assert")

\* assert (!pending(rgp)) and the end of the locked section
EiAssert(p) ==
  /\ pc[p] = "ei_assert"
  /\ lock' = None
  /\ Goto(p, "sleep")
  /\ UNCHANGED <<current, completed, next_pending, cpus, active, qs, lists, ret, ghost>>

\* Rcu::leave_idle
LeaveIdle(p) ==
  /\ pc[p] = "sleep"
  /\ Goto(p, "li_lock")
  /\ UNCHANGED <<glbl, qs, lists, ret, ghost>>

LiSet(p) ==
  /\ pc[p] = "li_lock" /\ lock = None
  /\ active' = active \cup {p}
  /\ q_batch' = [q_batch EXCEPT ![p] = current]
  /\ Goto(p, "run")
  /\ UNCHANGED <<current, completed, next_pending, lock, cpus, q_passed, pending, lists, ret, ghost>>

------------------------------------------------------------------------------
(* Specification *)

\* the RCU code, which a CPU finishes once it has started
Rcu(p) ==
  \/ ProcDone(p) \/ ProcNext(p) \/ ProcNoNext(p) \/ ProcAsk(p)
  \/ Acquire(p, "np_lock", "np_set") \/ NpSet(p)
  \/ SbClear(p) \/ SbInc(p) \/ SbCpus(p)
  \/ QNewBatch(p) \/ QNothing(p) \/ QReport(p)
  \/ Acquire(p, "q_lock", "q_check") \/ QCheck(p) \/ QQuiet(p)
  \/ DoBatch(p)
  \/ Acquire(p, "ei_lock", "ei_clear") \/ EiClear(p) \/ EiQuiet(p) \/ EiAssert(p)
  \/ LiSet(p)

Next ==
  \E p \in Cpus :
    \/ Rcu(p)
    \/ ReadLock(p) \/ ReadUnlock(p) \/ Work(p) \/ EnterIdle(p) \/ LeaveIdle(p)
    \/ \E i \in Items : Call(p, i)

Spec == Init /\ [][Next]_vars

\* A CPU finishes its RCU code and its read sections, and the timer tick finds
\* it outside of a read section again and again.  The spin lock is fair.
FairSpec ==
  /\ Spec
  /\ \A p \in Cpus :
       SF_vars(Rcu(p)) /\ WF_vars(ReadUnlock(p)) /\ SF_vars(Work(p))

------------------------------------------------------------------------------
(* Properties *)

\* Every variable of Rcu_glbl and Rcu_data holds a value of its type, and every CPU
\* is at a label of the code.
TypeOK ==
  /\ current \in Int /\ completed \in Int
  /\ next_pending \in BOOLEAN
  /\ lock \in Cpus \cup {None}
  /\ cpus \subseteq Cpus /\ active \subseteq Cpus
  /\ q_batch \in [Cpus -> Int]
  /\ q_passed \in [Cpus -> BOOLEAN]
  /\ pending \in [Cpus -> BOOLEAN]
  /\ batch \in [Cpus -> Int]
  /\ n \in [Cpus -> SUBSET Items]
  /\ c \in [Cpus -> SUBSET Items]
  /\ d \in [Cpus -> SUBSET Items]
  /\ pc \in [Cpus -> Labels]
  /\ ret \in [Cpus -> {"run", "quiesce", "batch", "ei_assert"}]
  /\ rd \in [Cpus -> BOOLEAN]
  /\ ref \in [Items -> SUBSET Cpus]
  /\ freed \subseteq Items

\* The promise of RCU: when the callback of an item runs, every CPU that was
\* inside a read section when Rcu::call() got the item has left that section.
GracePeriod == \A i \in freed : ref[i] = {}

\* enter_idle() asserts that the CPU has no RCU work left.
EnterIdleAssert == \A p \in Cpus : pc[p] = "ei_assert" => ~Pending(p)

==============================================================================
