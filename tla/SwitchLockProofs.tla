-------------------------- MODULE SwitchLockProofs --------------------------
(***************************************************************************)
(* TLAPS proofs about SwitchLock, for every number of CPUs, threads and    *)
(* locks.                                                                  *)
(***************************************************************************)
EXTENDS SwitchLock, TLAPS

(***************************************************************************)
(* The locals of a context have a value wherever its code uses them.       *)
(***************************************************************************)
ReturnPoints == {"user", "load", "help_failed", "recheck", "dirty_back"}

RdLabels == {"rd_cnt", "rd_rul", "rd_dispatch", "rd_recheck", "rd_reset"}

RetLabels == RdLabels \cup {"schedule", "pick", "pick_pp", "switch", "resumed"}

ViaLabels == RdLabels \cup {"switch", "resumed"}

TgtLabels == RdLabels \cup {"try_to_help", "check_cnt", "check_lock", "not_helping",
                            "help", "help_switch", "pick_pp", "switch", "migrate"}

LkLabels == LockLabels \cup HelpLabels \cup {"clear_owner"}

LocalsOf(t) ==
  /\ pc[t] \in RetLabels => ret[t] \in ReturnPoints
  /\ pc[t] \in ViaLabels => via[t] \in {"switch_dirty", "switch_to", "schedule"}
  /\ pc[t] \in TgtLabels => tgt[t] \in Ctx
  /\ pc[t] \in LkLabels => lk[t] \in Locks
  /\ pc[t] \in RetLabels /\ ret[t] \in LkLabels => lk[t] \in Locks

LocalsOK == \A t \in Ctx : LocalsOf(t)

TypeInv == TypeOK /\ LocalsOK

\* The initial states have the types, and nothing to say about locals.
LEMMA TypeInit == ASSUME ConstAssumption, Init PROVE TypeInv
BY DEF Init, TypeInv, TypeOK, LocalsOK, LocalsOf, ConstAssumption, Ctx, RulStates, Labels,
       RetLabels, ViaLabels, TgtLabels, LkLabels, RdLabels, LockLabels, HelpLabels

\* The step leaves the locals of every context but t alone.
Locally(t) ==
  \A u \in Ctx \ {t} : /\ pc'[u] = pc[u] /\ ret'[u] = ret[u] /\ via'[u] = via[u]
                       /\ tgt'[u] = tgt[u] /\ lk'[u] = lk[u]

\* The step keeps the types, and t the values that its new label needs.
TypedStep(t) == TypeOK' /\ Locally(t) /\ LocalsOf(t)'

\* The steps of lock() and wait_free().
LEMMA LockTypes ==
  ASSUME TypeInv, NEW c \in Cpus, NEW t \in Ctx, LockStep(c, t) PROVE TypedStep(t)
<1> USE DEF TypeOK, LocalsOf, Locally, At, Exec, Goto, lockVars, schedVars, locals,
            Labels, SchedLabels, ClearLabels, HelpLabels, LockLabels, RetLabels, ViaLabels,
            TgtLabels, LkLabels, RdLabels, ReturnPoints, RulStates
<1>1. CASE LoadInvalid(c, t) BY <1>1 DEF LoadInvalid, TypedStep, TypeInv, LocalsOK
<1>2. CASE LoadFree(c, t) BY Zenon, <1>2 DEF LoadFree, TypedStep, TypeInv, LocalsOK
<1>3. CASE LoadOwned(c, t)
  <2>1. lk[t] \in Locks /\ owner[lk[t]] # None BY Zenon, <1>3 DEF LoadOwned, TypeInv, LocalsOK
  <2>2. owner[lk[t]] \in Ctx BY <2>1 DEF TypeInv
  <2> QED BY Zenon, <1>3, <2>1, <2>2 DEF LoadOwned, TypedStep, TypeInv
<1>4. CASE WaitFreeDone(c, t) BY <1>4 DEF WaitFreeDone, TypedStep, TypeInv, LocalsOK
<1>5. CASE Dispatch(c, t) BY <1>5 DEF Dispatch, TypedStep, TypeInv, LocalsOK
<1>6. CASE CasOk(c, t) BY Zenon, <1>6 DEF CasOk, TypedStep, TypeInv, LocalsOK
<1>7. CASE CasFail(c, t) BY Zenon, <1>7 DEF CasFail, TypedStep, TypeInv, LocalsOK
<1>8. CASE CasReset(c, t) BY Zenon, <1>8 DEF CasReset, TypedStep, TypeInv, LocalsOK
<1>9. CASE IncLockCnt(c, t) BY <1>9 DEF IncLockCnt, TypedStep, TypeInv, LocalsOK
<1> HIDE DEF TypeOK, LocalsOf, Locally
<1> QED BY Zenon, <1>1, <1>2, <1>3, <1>4, <1>5, <1>6, <1>7, <1>8, <1>9 DEF LockStep

\* The steps of help().
LEMMA HelpTypes ==
  ASSUME TypeInv, NEW c \in Cpus, NEW t \in Ctx, HelpStep(c, t) PROVE TypedStep(t)
<1> USE DEF TypeOK, LocalsOf, Locally, At, Exec, Goto, lockVars, schedVars, locals,
            Labels, SchedLabels, ClearLabels, HelpLabels, LockLabels, RetLabels, ViaLabels,
            TgtLabels, LkLabels, RdLabels, ReturnPoints, RulStates
<1>1. CASE TryToHelp(c, t) BY Zenon, <1>1 DEF TryToHelp, TypedStep, TypeInv, LocalsOK
<1>2. CASE CannotHelp(c, t) BY <1>2 DEF CannotHelp, TypedStep, TypeInv, LocalsOK
<1>3. CASE CheckCnt(c, t) BY Zenon, <1>3 DEF CheckCnt, TypedStep, TypeInv, LocalsOK
<1>4. CASE CheckLock(c, t) BY Zenon, <1>4 DEF CheckLock, TypedStep, TypeInv, LocalsOK
<1>5. CASE NotHelping(c, t) BY <1>5 DEF NotHelping, TypedStep, TypeInv, LocalsOK
<1>6. CASE Help(c, t) BY Zenon, <1>6 DEF Help, TypedStep, TypeInv, LocalsOK
<1>7. CASE HelpSwitch(c, t) BY <1>7 DEF HelpSwitch, TypedStep, TypeInv, LocalsOK
<1>8. CASE HelpFailed(c, t) BY Zenon, <1>8 DEF HelpFailed, TypedStep, TypeInv, LocalsOK
<1>9. CASE HelpHome(c, t) BY Zenon, <1>9 DEF HelpHome, TypedStep, TypeInv, LocalsOK
<1>10. CASE HelpAway(c, t) BY <1>10 DEF HelpAway, TypedStep, TypeInv, LocalsOK
<1> HIDE DEF TypeOK, LocalsOf, Locally
<1> QED BY Zenon, <1>1, <1>2, <1>3, <1>4, <1>5, <1>6, <1>7, <1>8, <1>9, <1>10 DEF HelpStep

\* The steps of clear().
LEMMA ClearTypes ==
  ASSUME TypeInv, NEW c \in Cpus, NEW t \in Ctx, ClearStep(c, t) PROVE TypedStep(t)
<1> USE DEF TypeOK, LocalsOf, Locally, At, Exec, Goto, lockVars, schedVars, locals,
            Labels, SchedLabels, ClearLabels, HelpLabels, LockLabels, RetLabels, ViaLabels,
            TgtLabels, LkLabels, RdLabels, ReturnPoints, RulStates
<1>1. CASE \E l \in Locks : ClearStart(c, t, l) BY <1>1 DEF ClearStart, TypedStep, TypeInv, LocalsOK
<1>2. CASE ClearOwner(c, t) BY <1>2 DEF ClearOwner, TypedStep, TypeInv, LocalsOK
<1>3. CASE DecLockCnt(c, t) BY <1>3 DEF DecLockCnt, TypedStep, TypeInv, LocalsOK
<1>4. CASE CntReset(c, t) BY Zenon, <1>4 DEF CntReset, TypedStep, TypeInv, LocalsOK
<1>5. CASE SwitchDirty(c, t) BY <1>5 DEF SwitchDirty, TypedStep, TypeInv, LocalsOK
<1>6. CASE NoSwitchDirty(c, t) BY Zenon, <1>6 DEF NoSwitchDirty, TypedStep, TypeInv, LocalsOK
<1>7. CASE DirtyBack(c, t) BY <1>7 DEF DirtyBack, TypedStep, TypeInv, LocalsOK
<1>8. CASE LockSchedule(c, t) BY <1>8 DEF LockSchedule, TypedStep, TypeInv, LocalsOK
<1>9. CASE Recheck(c, t) BY Zenon, <1>9 DEF Recheck, TypedStep, TypeInv, LocalsOK, Preempted
<1> HIDE DEF TypeOK, LocalsOf, Locally
<1> QED BY Zenon, <1>1, <1>2, <1>3, <1>4, <1>5, <1>6, <1>7, <1>8, <1>9 DEF ClearStep

\* The steps of schedule().
LEMMA ScheduleTypes ==
  ASSUME TypeInv, NEW c \in Cpus, NEW t \in Ctx, ScheduleStep(c, t) PROVE TypedStep(t)
<1> USE DEF TypeOK, LocalsOf, Locally, At, Exec, Goto, lockVars, schedVars, locals,
            Labels, SchedLabels, ClearLabels, HelpLabels, LockLabels, RetLabels, ViaLabels,
            TgtLabels, LkLabels, RdLabels, ReturnPoints, RulStates
<1>1. CASE ScheduleHome(c, t) BY Zenon, <1>1 DEF ScheduleHome, TypedStep, TypeInv, LocalsOK
<1>2. CASE PickSelf(c, t)
  <2>1. ret[t] \in ReturnPoints /\ (ret[t] \in LkLabels => lk[t] \in Locks)
    BY Zenon, <1>2 DEF PickSelf, TypeInv, LocalsOK
  <2>2. TypeOK' BY Zenon, <1>2, <2>1 DEF PickSelf, TypeInv
  <2>3. Locally(t) /\ LocalsOf(t)' BY Zenon, <1>2, <2>1 DEF PickSelf, TypeInv
  <2> QED BY Zenon, <2>2, <2>3 DEF TypedStep
<1>3. CASE PickAgain(c, t) BY <1>3 DEF PickAgain, TypedStep, TypeInv, LocalsOK
<1>4. CASE PickMigrated(c, t)
  <2>1. ret[t] \in ReturnPoints /\ (ret[t] \in LkLabels => lk[t] \in Locks)
    BY Zenon, <1>4 DEF PickMigrated, TypeInv, LocalsOK
  <2>2. TypeOK' BY Zenon, <1>4, <2>1 DEF PickMigrated, TypeInv
  <2>3. Locally(t) /\ LocalsOf(t)' BY Zenon, <1>4, <2>1 DEF PickMigrated, TypeInv
  <2> QED BY Zenon, <2>2, <2>3 DEF TypedStep
<1>5. CASE RdFail(c, t) BY <1>5 DEF RdFail, TypedStep, TypeInv, LocalsOK
<1>6. CASE PickFail(c, t) BY Zenon, <1>6 DEF PickFail, TypedStep, TypeInv, LocalsOK, Ctx
<1> HIDE DEF TypeOK, LocalsOf, Locally
<1> QED BY Zenon, <1>1, <1>2, <1>3, <1>4, <1>5, <1>6 DEF ScheduleStep

\* The steps of a context switch.
LEMMA SwitchTypes ==
  ASSUME TypeInv, NEW c \in Cpus, NEW t \in Ctx, SwitchStep(c, t) PROVE TypedStep(t)
<1> USE DEF TypeOK, LocalsOf, Locally, At, Exec, Goto, lockVars, schedVars, locals,
            Labels, SchedLabels, ClearLabels, HelpLabels, LockLabels, RetLabels, ViaLabels,
            TgtLabels, LkLabels, RdLabels, ReturnPoints, RulStates
<1>1. CASE RdCnt(c, t) BY Zenon, <1>1 DEF RdCnt, TypedStep, TypeInv, LocalsOK
<1>2. CASE RdRul(c, t) BY Zenon, <1>2 DEF RdRul, TypedStep, TypeInv, LocalsOK
<1>3. CASE RdDispatch(c, t) BY Zenon, <1>3 DEF RdDispatch, TypedStep, TypeInv, LocalsOK
<1>4. CASE RdRecheck(c, t) BY Zenon, <1>4 DEF RdRecheck, TypedStep, TypeInv, LocalsOK
<1>5. CASE RdReset(c, t) BY Zenon, <1>5 DEF RdReset, TypedStep, TypeInv, LocalsOK
<1>6. CASE Switch(c, t) BY <1>6 DEF Switch, TypedStep, TypeInv, LocalsOK
<1>7. CASE ResumeOk(c, t)
  <2>1. ret[t] \in ReturnPoints /\ (ret[t] \in LkLabels => lk[t] \in Locks)
    BY Zenon, <1>7 DEF ResumeOk, TypeInv, LocalsOK
  <2>2. TypeOK' BY Zenon, <1>7, <2>1 DEF ResumeOk, TypeInv
  <2>3. Locally(t) /\ LocalsOf(t)' BY Zenon, <1>7, <2>1 DEF ResumeOk, TypeInv
  <2> QED BY Zenon, <2>2, <2>3 DEF TypedStep
<1> HIDE DEF TypeOK, LocalsOf, Locally
<1> QED BY Zenon, <1>1, <1>2, <1>3, <1>4, <1>5, <1>6, <1>7 DEF SwitchStep

\* The steps that start an operation, preempt or choose.
LEMMA StartTypes ==
  ASSUME TypeInv, NEW c \in Cpus, NEW t \in Ctx, StartStep(c, t) PROVE TypedStep(t)
<1> USE DEF TypeOK, LocalsOf, Locally, At, Exec, Goto, lockVars, schedVars, locals,
            Labels, SchedLabels, ClearLabels, HelpLabels, LockLabels, RetLabels, ViaLabels,
            TgtLabels, LkLabels, RdLabels, ReturnPoints, RulStates
<1>1. CASE \E l \in Locks : LockStart(c, t, l) BY <1>1 DEF LockStart, TypedStep, TypeInv, LocalsOK
<1>2. CASE \E l \in Locks : Invalidate(c, t, l) BY <1>2 DEF Invalidate, TypedStep, TypeInv, LocalsOK
<1>3. CASE Preempt(c, t) BY <1>3 DEF Preempt, TypedStep, TypeInv, LocalsOK, Interruptible
<1>4. CASE \E n \in Ctx : PickOther(c, t, n) BY <1>4 DEF PickOther, TypedStep, TypeInv, LocalsOK
<1>5. CASE \E n \in Ctx : SwitchTo(c, t, n) BY <1>5 DEF SwitchTo, TypedStep, TypeInv, LocalsOK
<1>6. CASE ResumeResched(c, t) BY <1>6 DEF ResumeResched, TypedStep, TypeInv, LocalsOK
<1> HIDE DEF TypeOK, LocalsOf, Locally
<1> QED BY Zenon, <1>1, <1>2, <1>3, <1>4, <1>5, <1>6 DEF StartStep

\* A context that leaves a foreign CPU also sets the kernel context of that CPU going.
LEMMA ScheduleForeignTypes ==
  ASSUME TypeInv, NEW c \in Cpus, NEW t \in Ctx, ScheduleForeign(c, t) PROVE TypeInv'
<1> USE DEF At, Exec, lockVars, locals
<1>1. TypeOK /\ LocalsOK /\ c \in Ctx BY Zenon DEF TypeInv, Ctx
<1>2. TypeOK'
  <2>1. pc' \in [Ctx -> Labels]
    BY Zenon, <1>1 DEF TypeOK, ScheduleForeign, Labels, SchedLabels
  <2>2. /\ via' \in [Ctx -> {None, "switch_dirty", "switch_to", "schedule"}]
        /\ ret' \in [Ctx -> Labels \cup {None}]
    BY Zenon, <1>1 DEF TypeOK, ScheduleForeign, Labels
  <2>3. /\ cur' \in [Cpus -> Ctx] /\ prev' \in [Cpus -> Ctx \cup {None}]
        /\ helper' \in [Ctx -> Ctx]
    BY Zenon, <1>1 DEF TypeOK, ScheduleForeign
  <2> QED BY Zenon, <1>1, <2>1, <2>2, <2>3 DEF TypeOK, ScheduleForeign
<1>3. ASSUME NEW u \in Ctx PROVE LocalsOf(u)'
  <2>1. LocalsOf(u) BY Zenon, <1>1 DEF LocalsOK
  <2>2. CASE u = c
    BY Zenon, <1>1, <2>2 DEF TypeOK, ScheduleForeign, LocalsOf, RetLabels, ViaLabels, TgtLabels,
                      LkLabels, LockLabels, HelpLabels, RdLabels, ReturnPoints
  <2>3. CASE u = t /\ u # c
    BY <1>1, <2>1, <2>3 DEF TypeOK, ScheduleForeign, LocalsOf, RetLabels, ViaLabels, TgtLabels,
                      LkLabels, LockLabels, HelpLabels, RdLabels, ReturnPoints
  <2>4. CASE u # t /\ u # c
    BY Zenon, <1>1, <2>1, <2>4 DEF TypeOK, ScheduleForeign, LocalsOf
  <2> QED BY Zenon, <2>2, <2>3, <2>4
<1> QED BY Zenon, <1>2, <1>3 DEF TypeInv, LocalsOK

\* LeaveSched() keeps the type of in_sched.
LEMMA LeaveSchedType ==
  ASSUME TypeOK, NEW c \in Cpus, NEW v, LeaveSched(c, v)
  PROVE  in_sched' \in [Cpus -> Ctx \cup {None}]
<1>1. in_sched \in [Cpus -> Ctx \cup {None}] BY Zenon DEF TypeOK
<1>2. CASE in_sched[c] = v BY Zenon, <1>1, <1>2 DEF LeaveSched
<1>3. CASE in_sched[c] # v BY Zenon, <1>1, <1>3 DEF LeaveSched
<1> QED BY Zenon, <1>2, <1>3

\* Migration changes the home CPU, and lets the kernel context run.
LEMMA MigrateTypes ==
  ASSUME TypeInv, NEW c \in Cpus,
         \/ \E d \in Cpus : MigrateHelper(c, d)
         \/ \E t \in Ctx : MigrateCurrent(c, t)
  PROVE  TypedStep(c)
<1> USE DEF At, Exec, Goto, lockVars, locals, RetLabels, ViaLabels, TgtLabels, LkLabels,
            LockLabels, HelpLabels, RdLabels, ReturnPoints, Labels, SchedLabels
<1>1. TypeOK /\ c \in Ctx BY Zenon DEF TypeInv, Ctx
<1>2. ASSUME NEW d \in Cpus, MigrateHelper(c, d) PROVE TypedStep(c)
  <2>0. in_sched' \in [Cpus -> Ctx \cup {None}]
    BY Zenon, <1>1, <1>2, LeaveSchedType DEF MigrateHelper
  <2>1. TypeOK' BY <1>1, <1>2, <2>0, Zenon DEF TypeOK, MigrateHelper
  <2>2. Locally(c) /\ LocalsOf(c)' BY Zenon, <1>1, <1>2 DEF TypeOK, MigrateHelper, Locally, LocalsOf
  <2> QED BY Zenon, <2>1, <2>2 DEF TypedStep
<1>3. ASSUME NEW t \in Ctx, MigrateCurrent(c, t) PROVE TypedStep(c)
  <2>1. TypeOK' BY Zenon, <1>1, <1>3 DEF TypeOK, MigrateCurrent
  <2>2. Locally(c) /\ LocalsOf(c)' BY <1>1, <1>3 DEF TypeOK, MigrateCurrent, Locally, LocalsOf
  <2> QED BY Zenon, <2>1, <2>2 DEF TypedStep
<1> QED BY Zenon, <1>2, <1>3

\* Steps that leave the locals of every context alone.
LEMMA OtherTypes ==
  ASSUME TypeInv, NEW c \in Cpus,
         \/ SwitchIn(c)
         \/ \E t \in Ctx, v \in Movable, d \in Cpus : MigrateOther(c, t, v, d)
  PROVE  TypeInv'
<1>1. TypeOK /\ LocalsOK BY Zenon DEF TypeInv
<1>2. UNCHANGED <<pc, ret, via, tgt, lk>>
  BY Zenon DEF SwitchIn, MigrateOther, locals
<1>3. LocalsOK' BY Zenon, <1>1, <1>2 DEF LocalsOK, LocalsOf
<1>4. CASE SwitchIn(c)
  <2>1. TypeOK' BY Zenon, <1>1, <1>4 DEF TypeOK, SwitchIn, Preempted, lockVars, locals, RulStates
  <2> QED BY Zenon, <1>3, <2>1 DEF TypeInv
<1>5. ASSUME NEW t \in Ctx, NEW v \in Movable, NEW d \in Cpus, MigrateOther(c, t, v, d)
      PROVE  TypeInv'
  <2>0. in_sched' \in [Cpus -> Ctx \cup {None}]
    BY Zenon, <1>1, <1>5, LeaveSchedType DEF MigrateOther
  <2>1. TypeOK' BY <1>1, <1>5, <2>0, Zenon DEF TypeOK, MigrateOther, lockVars, locals
  <2> QED BY Zenon, <1>3, <2>1 DEF TypeInv
<1> QED BY Zenon, <1>4, <1>5

\* What a context does to its own locals decides.
LEMMA LocalStep == ASSUME TypeInv, NEW t \in Ctx, TypedStep(t) PROVE TypeInv'
BY Zenon DEF TypeInv, LocalsOK, LocalsOf, Locally, TypedStep

\* Every step preserves the types and the locals.
LEMMA TypeStep == ASSUME TypeInv, [Next]_vars PROVE TypeInv'
<1>1. CASE UNCHANGED vars
  BY Zenon, <1>1 DEF vars, TypeInv, TypeOK, LocalsOK, LocalsOf
<1>2. ASSUME NEW c \in Cpus, NEW t \in Ctx,
             \/ LockStep(c, t) \/ HelpStep(c, t) \/ ClearStep(c, t)
             \/ ScheduleStep(c, t) \/ SwitchStep(c, t) \/ StartStep(c, t)
      PROVE  TypeInv'
  BY Zenon, <1>2, LockTypes, HelpTypes, ClearTypes, ScheduleTypes, SwitchTypes, StartTypes, LocalStep
<1>3. \A c \in Cpus : c \in Ctx BY Zenon DEF Ctx
<1> QED
  BY Zenon, <1>1, <1>2, <1>3, ScheduleForeignTypes, MigrateTypes, OtherTypes, LocalStep
  DEF Next, Work, Sched, Environment

\* Every variable keeps its type, and no context ever continues at a label, or
\* works on a lock or a target, that its code has not set.
THEOREM TypeCorrect == Spec => []TypeOK
<1>1. Init => TypeInv BY Zenon, ConstAssumption, TypeInit
<1>2. TypeInv /\ [Next]_vars => TypeInv' BY Zenon, TypeStep
<1>3. TypeInv => TypeOK BY Zenon DEF TypeInv
<1> QED BY <1>1, <1>2, <1>3, PTL DEF Spec

-----------------------------------------------------------------------------
(***************************************************************************)
(* Why _running_under_lock keeps a context on one CPU at a time: the       *)
(* inductive invariant SafeInv, and the proof that the steps which only    *)
(* look at or change flags preserve it.  SwitchLockSwitching goes on with  *)
(* the steps that change a lock count, a current context or a home CPU.    *)
(*                                                                         *)
(* The proof goes through moves: a move says of a step only what the       *)
(* invariant can see of it.  One lemma shows that each of a group of       *)
(* actions is such a move, another that the move is safe.                  *)
(***************************************************************************)

\* A helper has set the flag of its target to Trying.
TryLabels == {"check_cnt", "check_lock", "not_helping", "help"}

\* A CPU is about to switch to its target.
TakeLabels == {"rd_recheck", "rd_reset", "switch", "help_switch"}

\* A context has its own flag, whatever its lock count.
FlagLabels == {"cas", "cas_failed", "inc", "cnt_reset"}

\* Code that runs without preemption, so on a CPU.
BusyLabels == RdLabels \cup TryLabels \cup FlagLabels \cup {"switch", "help_switch"}

\* CPU c runs n, or has not finished switching away from it.
Occupies(c, n) == cur[c] = n \/ prev[c] = n

\* A kernel context stays on its CPU.
KernelHome ==
  \A k \in Cpus : home[k] = k /\ \A c \in Cpus : Occupies(c, k) => c = k

\* A context on a CPU has the flag if it holds locks or is not at home.
FlagOf(n) ==
  /\ \A c \in Cpus : Occupies(c, n) /\ (home[n] # c \/ lock_cnt[n] # 0) => rul[n] = "Running"
  /\ pc[n] \in FlagLabels => rul[n] = "Running"
  /\ pc[n] = "cnt_reset" => lock_cnt[n] = 0

\* The way from the release of the last lock to schedule().
LeaveLabels == {"switch_dirty", "dirty_back", "lock_schedule", "schedule"}

\* Away from home without locks a context is on its way home.
AwayOf(n) ==
  \A c \in Cpus : cur[c] = n /\ home[n] # c /\ lock_cnt[n] = 0 =>
    \/ pc[n] \in LeaveLabels
    \/ pc[n] \in RdLabels \cup {"switch"} /\ via[n] = "switch_dirty"

\* Where the code of t runs, and what may be its target.
TargetOf(t) ==
  /\ pc[t] \in BusyLabels => \E c \in Cpus : Exec(c, t)
  /\ pc[t] \in RdLabels \cup {"switch"} => cur[home[tgt[t]]] = t /\ tgt[t] # t
  /\ pc[t] \in TryLabels \cup {"try_to_help", "help_switch"} => tgt[t] \in Threads
  /\ pc[t] = "migrate" => t \in Cpus /\ cur[t] = t /\ tgt[t] \in Threads /\ home[tgt[t]] = t

\* What t has found out about its target, or arranged, still holds.
ClaimOf(t) ==
  /\ pc[t] \in TryLabels => rul[tgt[t]] = "Trying"
  /\ pc[t] \in {"check_lock", "help", "help_switch"} => lock_cnt[tgt[t]] # 0
  /\ pc[t] \in {"rd_rul", "rd_reset"} => lock_cnt[tgt[t]] = 0
  /\ pc[t] \in {"rd_recheck", "rd_reset", "help_switch"} => rul[tgt[t]] = "Running"
  /\ pc[t] = "switch" => lock_cnt[tgt[t]] = 0 \/ rul[tgt[t]] = "Running"
  /\ pc[t] \in TakeLabels => \A c \in Cpus : ~Occupies(c, tgt[t])

\* Two contexts have the same target at a time when only one may.
Conflict(t, u) ==
  /\ tgt[t] = tgt[u]
  /\ \/ pc[t] \in TryLabels /\ pc[u] \in TryLabels
     \/ pc[t] \in TakeLabels /\ pc[u] \in TakeLabels

DistinctClaims == \A t, u \in Ctx : Conflict(t, u) => t = u

\* No context is on two CPUs.
DisjointCpus ==
  /\ \A c \in Cpus : prev[c] # cur[c]
  /\ \A c, d \in Cpus, n \in Ctx : Occupies(c, n) /\ Occupies(d, n) => c = d

\* The invariant of one context, and of all.
SafeOf(n) == FlagOf(n) /\ AwayOf(n) /\ TargetOf(n) /\ ClaimOf(n)

SafeInv == (\A n \in Ctx : SafeOf(n)) /\ DistinctClaims /\ DisjointCpus /\ KernelHome

\* A step of t on CPU c that leaves every other context, and all CPUs, alone.
StepOf(c, t) ==
  /\ Exec(c, t)
  /\ UNCHANGED <<cur, prev, home>>
  /\ \A u \in Ctx \ {t} : /\ pc'[u] = pc[u] /\ tgt'[u] = tgt[u]
                          /\ via'[u] = via[u] /\ lock_cnt'[u] = lock_cnt[u]

QuietStep(c, t) == StepOf(c, t) /\ lock_cnt'[t] = lock_cnt[t]

\* The labels at which nothing is claimed.
PlainLabels == {"user", "load", "dispatch", "help_failed", "help_home", "clear_owner",
                "recheck", "pick", "pick_pp", "resumed", "dec_cnt"} \cup LeaveLabels

TgtTyped == \A n \in Ctx : pc[n] \in TgtLabels => tgt[n] \in Ctx

\* A step that changes no flag and claims nothing that another context claims.
LEMMA QuietSafe ==
  ASSUME SafeInv, NEW c \in Cpus, NEW t \in Ctx, QuietStep(c, t), UNCHANGED rul,
         TgtTyped,
         SafeOf(t)', \A u \in Ctx \ {t} : ~Conflict(t, u)' /\ ~Conflict(u, t)'
  PROVE  SafeInv'
<1>1. ASSUME NEW u \in Ctx \ {t} PROVE SafeOf(u)'
  <2>0. SafeOf(u) /\ pc'[u] = pc[u] /\ tgt'[u] = tgt[u] /\ via'[u] = via[u]
         /\ \A n \in Ctx : lock_cnt'[n] = lock_cnt[n]
    BY Zenon DEF SafeInv, QuietStep, StepOf
  <2>1. FlagOf(u)' BY Zenon, <2>0 DEF SafeOf, FlagOf, QuietStep, StepOf, Occupies
  <2>2. AwayOf(u)' BY Zenon, <2>0 DEF SafeOf, AwayOf, QuietStep, StepOf
  <2>3. TargetOf(u)' BY Zenon, <2>0 DEF SafeOf, TargetOf, QuietStep, StepOf, Exec
  <2>4. pc[u] \in TgtLabels => tgt[u] \in Ctx BY Zenon DEF TgtTyped
  <2>5. ClaimOf(u)'
    BY <2>0, <2>4 DEF SafeOf, ClaimOf, QuietStep, StepOf, Occupies, TgtLabels, RdLabels, TryLabels, TakeLabels
  <2> QED BY Zenon, <2>1, <2>2, <2>3, <2>5 DEF SafeOf
<1>2. DistinctClaims'
  BY DEF SafeInv, DistinctClaims, Conflict, QuietStep, StepOf
<1>3. DisjointCpus' /\ KernelHome'
  BY DEF SafeInv, DisjointCpus, KernelHome, QuietStep, StepOf, Occupies
<1> QED BY Zenon, <1>1, <1>2, <1>3 DEF SafeInv

\* ... and goes to a label where nothing is claimed.
LEMMA PlainSafe ==
  ASSUME SafeInv, NEW c \in Cpus, NEW t \in Ctx, QuietStep(c, t), UNCHANGED rul,
         TgtTyped,
         pc'[t] \in PlainLabels,
         \/ pc[t] \notin LeaveLabels \cup RdLabels \cup {"switch"}
         \/ pc'[t] \in LeaveLabels
         \/ home[t] = c \/ lock_cnt[t] # 0
         \/ pc[t] \in RdLabels /\ via[t] # "switch_dirty"
  PROVE  SafeInv'
<1>1. SafeOf(t) /\ cur[c] = t /\ \A d \in Cpus : cur[d] = t => d = c
  BY Zenon DEF SafeInv, QuietStep, StepOf, Exec, DisjointCpus, Occupies
<1>2. FlagOf(t)'
  BY Zenon, <1>1 DEF SafeOf, FlagOf, QuietStep, StepOf, Occupies, PlainLabels, LeaveLabels, FlagLabels
<1>3. AwayOf(t)'
  BY Zenon, <1>1 DEF SafeOf, AwayOf, QuietStep, StepOf, PlainLabels, LeaveLabels, RdLabels
<1>4. TargetOf(t)' /\ ClaimOf(t)'
  BY Zenon, <1>1 DEF TargetOf, ClaimOf, PlainLabels, LeaveLabels, RdLabels, TryLabels, TakeLabels, BusyLabels, FlagLabels
<1>5. \A u \in Ctx \ {t} : ~Conflict(t, u)' /\ ~Conflict(u, t)'
  BY Zenon DEF Conflict, PlainLabels, LeaveLabels, TryLabels, TakeLabels
<1> QED BY Zenon, <1>1, <1>2, <1>3, <1>4, <1>5, QuietSafe DEF SafeOf

\* Targets are contexts.
LEMMA TypedTargets == ASSUME TypeInv PROVE TgtTyped
BY Zenon DEF TypeInv, LocalsOK, LocalsOf, TgtTyped

\* The flag of n changes, and nothing else that another context relies on.
LEMMA FlagSafe ==
  ASSUME SafeInv, NEW c \in Cpus, NEW t \in Ctx, NEW n \in Ctx, QuietStep(c, t), TgtTyped,
         \A m \in Ctx \ {n} : rul'[m] = rul[m],
         FlagOf(n)', SafeOf(t)',
         \A u \in Ctx \ {t} : tgt[u] = n => ClaimOf(u)',
         \A u \in Ctx \ {t} : ~Conflict(t, u)' /\ ~Conflict(u, t)'
  PROVE  SafeInv'
<1>1. ASSUME NEW u \in Ctx \ {t} PROVE SafeOf(u)'
  <2>0. SafeOf(u) /\ pc'[u] = pc[u] /\ tgt'[u] = tgt[u] /\ via'[u] = via[u]
         /\ \A m \in Ctx : lock_cnt'[m] = lock_cnt[m]
    BY Zenon DEF SafeInv, QuietStep, StepOf
  <2>1. FlagOf(u)'
    <3>1. CASE u = n BY Zenon, <3>1
    <3>2. CASE u # n BY Zenon, <2>0, <3>2 DEF SafeOf, FlagOf, QuietStep, StepOf, Occupies
    <3> QED BY Zenon, <3>1, <3>2
  <2>2. AwayOf(u)' BY Zenon, <2>0 DEF SafeOf, AwayOf, QuietStep, StepOf
  <2>3. TargetOf(u)' BY Zenon, <2>0 DEF SafeOf, TargetOf, QuietStep, StepOf, Exec
  <2>4. pc[u] \in TgtLabels => tgt[u] \in Ctx BY Zenon DEF TgtTyped
  <2>5. ClaimOf(u)'
    <3>1. CASE tgt[u] = n BY Zenon, <3>1
    <3>2. CASE tgt[u] # n
      BY <2>0, <2>4, <3>2 DEF SafeOf, ClaimOf, QuietStep, StepOf, Occupies, TgtLabels,
                              RdLabels, TryLabels, TakeLabels
    <3> QED BY Zenon, <3>1, <3>2
  <2> QED BY Zenon, <2>1, <2>2, <2>3, <2>5 DEF SafeOf
<1>2. DistinctClaims'
  BY DEF SafeInv, DistinctClaims, Conflict, QuietStep, StepOf
<1>3. DisjointCpus' /\ KernelHome'
  BY DEF SafeInv, DisjointCpus, KernelHome, QuietStep, StepOf, Occupies
<1> QED BY Zenon, <1>1, <1>2, <1>3 DEF SafeInv



\* What the following lemmas take from the types: of the state, and of the step of t.
Typed(t) == TypeOK /\ LocalsOf(t) /\ Locally(t)

\* A step to a label where nothing is claimed; a context away from home without locks
\* stays on its way home.
PlainMove(c, t) ==
  /\ QuietStep(c, t) /\ UNCHANGED rul /\ pc'[t] \in PlainLabels
  /\ \/ pc[t] \notin LeaveLabels \cup RdLabels \cup {"switch"}
     \/ pc'[t] \in LeaveLabels
     \/ home[t] = c \/ lock_cnt[t] # 0
     \/ pc[t] \in RdLabels /\ via[t] # "switch_dirty"

\* lock() and help() ...
LEMMA PlainLock ==
  ASSUME NEW c \in Cpus, NEW t \in Ctx, Typed(t),
         \/ LoadInvalid(c, t) \/ LoadFree(c, t) \/ WaitFreeDone(c, t)
         \/ CannotHelp(c, t) \/ HelpFailed(c, t) \/ HelpHome(c, t)
         \/ HelpAway(c, t)
  PROVE  PlainMove(c, t)
<1> USE DEF Typed, TypeOK, LocalsOf, Locally, QuietStep, StepOf, PlainMove, At, Goto, lockVars,
            schedVars, locals, PlainLabels, LeaveLabels, RdLabels, RetLabels, ViaLabels, ReturnPoints
<1>1. CASE LoadInvalid(c, t) BY Zenon, <1>1 DEF LoadInvalid
<1>2. CASE LoadFree(c, t) BY <1>2 DEF LoadFree
<1>3. CASE WaitFreeDone(c, t) BY <1>3 DEF WaitFreeDone
<1>4. CASE CannotHelp(c, t) BY Zenon, <1>4 DEF CannotHelp
<1>5. CASE HelpFailed(c, t) BY Zenon, <1>5 DEF HelpFailed
<1>6. CASE HelpHome(c, t) BY Zenon, <1>6 DEF HelpHome
<1>7. CASE HelpAway(c, t) BY Zenon, <1>7 DEF HelpAway
<1> HIDE DEF Typed, PlainMove
<1> QED BY Zenon, <1>1, <1>2, <1>3, <1>4, <1>5, <1>6, <1>7

\* ... clear() ...
LEMMA PlainClear ==
  ASSUME NEW c \in Cpus, NEW t \in Ctx, Typed(t),
         \/ (\E l \in Locks : ClearStart(c, t, l))
         \/ ClearOwner(c, t) \/ NoSwitchDirty(c, t) \/ DirtyBack(c, t)
         \/ LockSchedule(c, t)
  PROVE  PlainMove(c, t)
<1> USE DEF Typed, TypeOK, LocalsOf, Locally, QuietStep, StepOf, PlainMove, At, Goto, lockVars,
            schedVars, locals, PlainLabels, LeaveLabels, RdLabels, RetLabels, ViaLabels, ReturnPoints
<1>1. CASE \E l \in Locks : ClearStart(c, t, l) BY Zenon, <1>1 DEF ClearStart
<1>2. CASE ClearOwner(c, t) BY Zenon, <1>2 DEF ClearOwner
<1>3. CASE NoSwitchDirty(c, t) BY Zenon, <1>3 DEF NoSwitchDirty
<1>4. CASE DirtyBack(c, t) BY Zenon, <1>4 DEF DirtyBack
<1>5. CASE LockSchedule(c, t) BY Zenon, <1>5 DEF LockSchedule
<1> HIDE DEF Typed, PlainMove
<1> QED BY Zenon, <1>1, <1>2, <1>3, <1>4, <1>5

\* ... schedule() ...
LEMMA PlainSchedule ==
  ASSUME NEW c \in Cpus, NEW t \in Ctx, Typed(t),
         \/ ScheduleHome(c, t) \/ PickSelf(c, t) \/ PickAgain(c, t)
         \/ PickMigrated(c, t) \/ RdFail(c, t) \/ PickFail(c, t)
         \/ ResumeOk(c, t)
  PROVE  PlainMove(c, t)
<1> USE DEF Typed, TypeOK, LocalsOf, Locally, QuietStep, StepOf, PlainMove, At, Goto, lockVars,
            schedVars, locals, PlainLabels, LeaveLabels, RdLabels, RetLabels, ViaLabels, ReturnPoints
<1>1. CASE ScheduleHome(c, t) BY Zenon, <1>1 DEF ScheduleHome
<1>2. CASE PickSelf(c, t) BY Zenon, <1>2 DEF PickSelf
<1>3. CASE PickAgain(c, t) BY Zenon, <1>3 DEF PickAgain
<1>4. CASE PickMigrated(c, t) BY Zenon, <1>4 DEF PickMigrated
<1>5. CASE RdFail(c, t) BY Zenon, <1>5 DEF RdFail
<1>6. CASE PickFail(c, t) BY Zenon, <1>6 DEF PickFail
<1>7. CASE ResumeOk(c, t) BY Zenon, <1>7 DEF ResumeOk
<1> HIDE DEF Typed, PlainMove
<1> QED BY Zenon, <1>1, <1>2, <1>3, <1>4, <1>5, <1>6, <1>7

\* ... and the steps that start something.
LEMMA PlainStart ==
  ASSUME NEW c \in Cpus, NEW t \in Ctx, Typed(t),
         \/ (\E l \in Locks : LockStart(c, t, l))
         \/ (\E l \in Locks : Invalidate(c, t, l))
         \/ Preempt(c, t) \/ ResumeResched(c, t)
  PROVE  PlainMove(c, t)
<1> USE DEF Typed, TypeOK, LocalsOf, Locally, QuietStep, StepOf, PlainMove, At, Goto, lockVars,
            schedVars, locals, PlainLabels, LeaveLabels, RdLabels, RetLabels, ViaLabels, ReturnPoints
<1>1. CASE \E l \in Locks : LockStart(c, t, l) BY Zenon, <1>1 DEF LockStart
<1>2. CASE \E l \in Locks : Invalidate(c, t, l) BY Zenon, <1>2 DEF Invalidate
<1>3. CASE Preempt(c, t) BY Zenon, <1>3 DEF Preempt, Interruptible
<1>4. CASE ResumeResched(c, t) BY Zenon, <1>4 DEF ResumeResched
<1> HIDE DEF Typed, PlainMove
<1> QED BY Zenon, <1>1, <1>2, <1>3, <1>4

\* What is known of a context that executes on c.
LEMMA Here ==
  ASSUME TypeInv, SafeInv, NEW c \in Cpus, NEW t \in Ctx, Exec(c, t)
  PROVE  /\ SafeOf(t) /\ cur[c] = t /\ prev[c] = None /\ TgtTyped
         /\ \A d \in Cpus : Occupies(d, t) => d = c
BY Zenon, TypedTargets DEF SafeInv, DisjointCpus, Exec, Occupies

\* A context whose home CPU finds its flag clear is nowhere, and nobody else is
\* about to switch to it.
LEMMA FreeToTake ==
  ASSUME TypeInv, SafeInv, NEW c \in Cpus, NEW t \in Ctx, Exec(c, t),
         pc[t] \in {"rd_rul", "rd_dispatch"}, rul[tgt[t]] = "Not_running"
  PROVE  /\ \A d \in Cpus : ~Occupies(d, tgt[t])
         /\ \A u \in Ctx \ {t} : tgt[u] = tgt[t] => pc[u] \notin TakeLabels
<1> DEFINE n == tgt[t]
<1>1. SafeOf(t) /\ cur[c] = t /\ prev[c] = None /\ \A d \in Cpus : Occupies(d, t) => d = c
  BY Zenon, Here
<1>2. n \in Ctx /\ n # t /\ home[n] \in Cpus
  BY Zenon, <1>1 DEF TypeInv, TypeOK, LocalsOK, LocalsOf, TgtLabels, RdLabels, SafeOf, TargetOf
<1>3. home[n] = c
  BY Zenon, <1>1, <1>2 DEF SafeOf, TargetOf, RdLabels, Occupies
<1>4. SafeOf(n) BY Zenon, <1>2 DEF SafeInv
<1>5. \A d \in Cpus : ~Occupies(d, n)
  BY Zenon, <1>1, <1>2, <1>3, <1>4, ConstAssumption DEF SafeOf, FlagOf, Occupies, Ctx
<1>6. ASSUME NEW u \in Ctx \ {t}, tgt[u] = n PROVE pc[u] \notin TakeLabels
  <2>1. SafeOf(u) BY Zenon DEF SafeInv
  <2>2. CASE pc[u] = "switch" BY Zenon, <1>1, <1>3, <1>6, <2>1, <2>2 DEF SafeOf, TargetOf, RdLabels
  <2>3. CASE pc[u] \in {"rd_recheck", "rd_reset", "help_switch"}
    BY Zenon, <1>6, <2>1, <2>3 DEF SafeOf, ClaimOf
  <2> QED BY Zenon, <2>2, <2>3 DEF TakeLabels
<1> QED BY Zenon, <1>5, <1>6


\* A waiter sees an owner, the compare-and-swap succeeds or fails, a helper checks that
\* the holder still needs help.
LookMove(c, t) ==
  /\ QuietStep(c, t) /\ UNCHANGED rul
  /\ \/ pc[t] = "load" /\ pc'[t] = "try_to_help" /\ tgt'[t] \in Threads
     \/ pc[t] = "cas" /\ pc'[t] \in {"inc", "cas_failed"}
     \/ /\ pc[t] = "check_cnt" /\ pc'[t] \in {"check_lock", "not_helping"}
        /\ tgt'[t] = tgt[t] /\ tgt[t] \in Ctx
        /\ pc'[t] = "check_lock" => lock_cnt[tgt[t]] # 0
     \/ /\ pc[t] = "check_lock" /\ pc'[t] \in {"help", "not_helping"}
        /\ tgt'[t] = tgt[t] /\ tgt[t] \in Ctx

\* Nothing is claimed that was not claimed before.
LEMMA LookMoveSafe ==
  ASSUME TypeInv, SafeInv, NEW c \in Cpus, NEW t \in Ctx, LookMove(c, t)
  PROVE  SafeInv'
<1>1. QuietStep(c, t) /\ UNCHANGED rul /\ Exec(c, t) BY Zenon DEF LookMove, QuietStep, StepOf
<1>2. /\ SafeOf(t) /\ cur[c] = t /\ prev[c] = None /\ TgtTyped
      /\ \A d \in Cpus : Occupies(d, t) => d = c
  BY Zenon, <1>1, Here
<1>3. FlagOf(t)' BY Zenon, <1>1, <1>2 DEF LookMove, SafeOf, FlagOf, QuietStep, StepOf, Occupies, FlagLabels, RdLabels
<1>4. AwayOf(t)' BY Zenon, <1>1, <1>2 DEF LookMove, SafeOf, AwayOf, QuietStep, StepOf, RdLabels, LeaveLabels
<1>5. TargetOf(t)'
  BY Zenon, <1>1, <1>2 DEF LookMove, SafeOf, TargetOf, QuietStep, StepOf, Exec, RdLabels, TryLabels,
                     FlagLabels, BusyLabels
<1>6. ClaimOf(t)'
  BY <1>1, <1>2 DEF LookMove, SafeOf, ClaimOf, QuietStep, StepOf, Occupies, RdLabels, TryLabels,
                     TakeLabels
<1>7. \A u \in Ctx \ {t} : ~Conflict(t, u)' /\ ~Conflict(u, t)'
  BY <1>1 DEF LookMove, SafeInv, DistinctClaims, Conflict, QuietStep, StepOf, RdLabels, TryLabels,
               TakeLabels
<1> QED BY Zenon, <1>1, <1>2, <1>3, <1>4, <1>5, <1>6, <1>7, QuietSafe DEF SafeOf

\* The steps of lock() and help() that only look.
LEMMA LookSteps ==
  ASSUME NEW c \in Cpus, NEW t \in Ctx, Typed(t),
         \A l \in Locks : owner[l] \in Threads \cup {None},
         \/ LoadOwned(c, t) \/ CasOk(c, t) \/ CasFail(c, t)
         \/ CheckCnt(c, t) \/ CheckLock(c, t)
  PROVE  LookMove(c, t)
<1> USE DEF Typed, TypeOK, LocalsOf, Locally, QuietStep, StepOf, At, Goto, lockVars, schedVars, locals,
            RdLabels, TgtLabels, LkLabels, LockLabels, LookMove
<1>1. CASE LoadOwned(c, t) BY <1>1 DEF LoadOwned
<1>2. CASE CasOk(c, t) BY Zenon, <1>2 DEF CasOk
<1>3. CASE CasFail(c, t) BY <1>3 DEF CasFail
<1>4. CASE CheckCnt(c, t) BY <1>4 DEF CheckCnt
<1>5. CASE CheckLock(c, t) BY <1>5 DEF CheckLock
<1> HIDE DEF Typed, LookMove
<1> QED BY Zenon, <1>1, <1>2, <1>3, <1>4, <1>5

\* A context is chosen to switch to, which is at home on this CPU.
AimMove(c, t) ==
  /\ QuietStep(c, t) /\ UNCHANGED rul
  /\ pc[t] \in {"switch_dirty", "pick", "user", "help_failed"} /\ pc'[t] = "rd_cnt"
  /\ tgt'[t] \in Ctx \ {t} /\ home[tgt'[t]] = c
  /\ pc[t] = "switch_dirty" => via'[t] = "switch_dirty"

\* It need not be free yet.
LEMMA AimMoveSafe ==
  ASSUME TypeInv, SafeInv, NEW c \in Cpus, NEW t \in Ctx, AimMove(c, t)
  PROVE  SafeInv'
<1>1. QuietStep(c, t) /\ UNCHANGED rul /\ Exec(c, t) BY Zenon DEF AimMove, QuietStep, StepOf
<1>2. /\ SafeOf(t) /\ cur[c] = t /\ prev[c] = None /\ TgtTyped
      /\ \A d \in Cpus : Occupies(d, t) => d = c
  BY Zenon, <1>1, Here
<1>3. FlagOf(t)' BY Zenon, <1>1, <1>2 DEF AimMove, SafeOf, FlagOf, QuietStep, StepOf, Occupies, FlagLabels, RdLabels
<1>4. AwayOf(t)' BY Zenon, <1>1, <1>2 DEF AimMove, SafeOf, AwayOf, QuietStep, StepOf, RdLabels, LeaveLabels
<1>5. TargetOf(t)'
  BY <1>1, <1>2 DEF AimMove, SafeOf, TargetOf, QuietStep, StepOf, Exec, RdLabels, TryLabels,
                     FlagLabels, BusyLabels
<1>6. ClaimOf(t)'
  BY Zenon, <1>1, <1>2 DEF AimMove, SafeOf, ClaimOf, QuietStep, StepOf, Occupies, RdLabels, TryLabels,
                     TakeLabels
<1>7. \A u \in Ctx \ {t} : ~Conflict(t, u)' /\ ~Conflict(u, t)'
  BY Zenon, <1>1 DEF AimMove, SafeInv, DistinctClaims, Conflict, QuietStep, StepOf, RdLabels, TryLabels,
               TakeLabels
<1> QED BY Zenon, <1>1, <1>2, <1>3, <1>4, <1>5, <1>6, <1>7, QuietSafe DEF SafeOf

\* The helper, a context that the scheduler picks, or one that wakes up.
LEMMA AimSteps ==
  ASSUME NEW c \in Cpus, NEW t \in Ctx, Typed(t),
         \/ (\E n \in Ctx : PickOther(c, t, n))
         \/ (\E m \in Ctx : SwitchTo(c, t, m))
         \/ SwitchDirty(c, t)
  PROVE  AimMove(c, t)
<1> USE DEF Typed, TypeOK, LocalsOf, Locally, QuietStep, StepOf, At, Goto, lockVars, schedVars, locals,
            RdLabels, TgtLabels, LkLabels, LockLabels, AimMove
<1>1. CASE \E n \in Ctx : PickOther(c, t, n) BY <1>1 DEF PickOther
<1>2. CASE \E m \in Ctx : SwitchTo(c, t, m) BY <1>2 DEF SwitchTo
<1>3. CASE SwitchDirty(c, t) BY Zenon, <1>3 DEF SwitchDirty
<1> HIDE DEF Typed, AimMove
<1> QED BY Zenon, <1>1, <1>2, <1>3

\* running_on_different_cpu() looks at the count, at the flag, and at the count again.
RdMove(c, t) ==
  /\ QuietStep(c, t) /\ UNCHANGED rul
  /\ tgt'[t] = tgt[t] /\ via'[t] = via[t] /\ tgt[t] \in Ctx
  /\ \/ pc[t] = "rd_cnt" /\ pc'[t] = "rd_rul" /\ lock_cnt[tgt[t]] = 0
     \/ pc[t] \in {"rd_cnt", "rd_rul"} /\ pc'[t] = "rd_dispatch"
     \/ pc[t] = "rd_rul" /\ pc'[t] = "switch" /\ rul[tgt[t]] = "Not_running"
     \/ pc[t] = "rd_recheck" /\ pc'[t] = "rd_reset" /\ lock_cnt[tgt[t]] = 0
     \/ pc[t] = "rd_recheck" /\ pc'[t] = "switch"

\* Who goes on to the switch has found the target free.
LEMMA RdMoveSafe ==
  ASSUME TypeInv, SafeInv, NEW c \in Cpus, NEW t \in Ctx, RdMove(c, t)
  PROVE  SafeInv'
<1>1. QuietStep(c, t) /\ UNCHANGED rul /\ Exec(c, t) BY Zenon DEF RdMove, QuietStep, StepOf
<1>2. /\ SafeOf(t) /\ cur[c] = t /\ prev[c] = None /\ TgtTyped
      /\ \A d \in Cpus : Occupies(d, t) => d = c
  BY Zenon, <1>1, Here
<1>f. pc'[t] = "switch" /\ pc[t] = "rd_rul" =>
        /\ \A d \in Cpus : ~Occupies(d, tgt[t])
        /\ \A u \in Ctx \ {t} : tgt[u] = tgt[t] => pc[u] \notin TakeLabels
  BY Zenon, <1>1, FreeToTake DEF RdMove
<1>3. FlagOf(t)' BY Zenon, <1>1, <1>2 DEF RdMove, SafeOf, FlagOf, QuietStep, StepOf, Occupies, FlagLabels, RdLabels
<1>4. AwayOf(t)' BY Zenon, <1>1, <1>2 DEF RdMove, SafeOf, AwayOf, QuietStep, StepOf, RdLabels, LeaveLabels
<1>5. TargetOf(t)'
  BY Zenon, <1>1, <1>2 DEF RdMove, SafeOf, TargetOf, QuietStep, StepOf, Exec, RdLabels, TryLabels,
                     FlagLabels, BusyLabels
<1>6. /\ tgt'[t] = tgt[t] /\ tgt[t] \in Ctx /\ lock_cnt'[tgt[t]] = lock_cnt[tgt[t]]
      /\ UNCHANGED <<rul, cur, prev>>
      /\ \A u \in Ctx \ {t} : pc'[u] = pc[u] /\ tgt'[u] = tgt[u]
  BY Zenon, <1>1 DEF RdMove, QuietStep, StepOf
<1>7. /\ pc[t] = "rd_rul" => lock_cnt[tgt[t]] = 0
      /\ pc[t] = "rd_recheck" => rul[tgt[t]] = "Running" /\ \A d \in Cpus : ~Occupies(d, tgt[t])
  BY Zenon, <1>2 DEF SafeOf, ClaimOf, TakeLabels
<1>8. ClaimOf(t)'
  BY Zenon, <1>6, <1>7, <1>f DEF RdMove, ClaimOf, Occupies, TryLabels, TakeLabels
<1>9. /\ pc'[t] \notin TryLabels
      /\ pc'[t] \in TakeLabels => pc[t] \in TakeLabels \/ (pc'[t] = "switch" /\ pc[t] = "rd_rul")
  BY Zenon DEF RdMove, TryLabels, TakeLabels
<1>10. \A u \in Ctx \ {t} : ~Conflict(t, u)' /\ ~Conflict(u, t)'
  BY Zenon, <1>6, <1>9, <1>f DEF SafeInv, DistinctClaims, Conflict
<1> QED BY Zenon, <1>1, <1>2, <1>3, <1>4, <1>5, <1>8, <1>10, QuietSafe DEF SafeOf

\* The steps of running_on_different_cpu() that only look.
LEMMA RdSteps ==
  ASSUME NEW c \in Cpus, NEW t \in Ctx, Typed(t),
         \/ RdCnt(c, t) \/ RdRul(c, t) \/ RdRecheck(c, t)
  PROVE  RdMove(c, t)
<1> USE DEF Typed, TypeOK, LocalsOf, Locally, QuietStep, StepOf, At, Goto, lockVars, schedVars, locals,
            RdLabels, TgtLabels, LkLabels, LockLabels, RdMove
<1>1. CASE RdCnt(c, t) BY Zenon, <1>1 DEF RdCnt
<1>2. CASE RdRul(c, t) BY Zenon, <1>2 DEF RdRul
<1>3. CASE RdRecheck(c, t) BY Zenon, <1>3 DEF RdRecheck
<1> HIDE DEF Typed, RdMove
<1> QED BY Zenon, <1>1, <1>2, <1>3

\* Another context u after a step of t: only the flag of its target may differ.
LEMMA Claimant ==
  ASSUME SafeInv, NEW c \in Cpus, NEW t \in Ctx, QuietStep(c, t), NEW n \in Ctx,
         NEW u \in Ctx \ {t}, tgt[u] = n,
         pc[u] \in TryLabels => rul'[n] = "Trying",
         pc[u] \in {"rd_recheck", "rd_reset", "help_switch"} => rul'[n] = "Running",
         pc[u] = "switch" /\ lock_cnt[n] # 0 => rul'[n] = "Running"
  PROVE  ClaimOf(u)'
<1>1. /\ SafeOf(u) /\ pc'[u] = pc[u] /\ tgt'[u] = n /\ lock_cnt'[n] = lock_cnt[n]
      /\ UNCHANGED <<cur, prev>>
  BY Zenon DEF SafeInv, QuietStep, StepOf
<1> QED BY Zenon, <1>1 DEF SafeOf, ClaimOf, Occupies

\* A context changes its own flag: set_lock_owner() takes it for the first lock and gives
\* it back when the lock is gone; it is dropped with the last lock at home, or back at home.
OwnMove(c, t) ==
  /\ QuietStep(c, t) /\ \A m \in Ctx \ {t} : rul'[m] = rul[m]
  /\ \/ /\ pc[t] = "dispatch" /\ pc'[t] = "cas"
        /\ \/ lock_cnt[t] >= 1 /\ rul'[t] = rul[t]
           \/ rul[t] = "Not_running" /\ rul'[t] = "Running"
     \/ /\ pc[t] = "cas_failed" /\ pc'[t] = "load"
        /\ rul'[t] = rul[t] \/ lock_cnt[t] = 0
     \/ pc[t] = "cnt_reset" /\ pc'[t] = "switch_dirty"
     \/ /\ pc[t] = "recheck" /\ pc'[t] = "user"
        /\ rul'[t] = rul[t] \/ (home[t] = c /\ lock_cnt[t] = 0 /\ rul[t] = "Running")

\* The flag is kept where the context needs it.
LEMMA OwnMoveSafe ==
  ASSUME TypeInv, SafeInv, NEW c \in Cpus, NEW t \in Ctx, lock_cnt[t] \in Nat, OwnMove(c, t)
  PROVE  SafeInv'
<1>1. /\ QuietStep(c, t) /\ Exec(c, t) /\ \A m \in Ctx \ {t} : rul'[m] = rul[m]
      /\ pc'[t] \in {"cas", "load", "switch_dirty", "user"}
  BY Zenon DEF OwnMove, QuietStep, StepOf
<1>2. /\ SafeOf(t) /\ cur[c] = t /\ prev[c] = None /\ TgtTyped
      /\ \A d \in Cpus : Occupies(d, t) => d = c
  BY Zenon, <1>1, Here
<1>3. /\ pc[t] \in FlagLabels => rul[t] = "Running"
      /\ pc[t] = "cnt_reset" => lock_cnt[t] = 0
      /\ lock_cnt[t] # 0 => rul[t] = "Running"
      /\ home[t] # c /\ lock_cnt[t] = 0 => pc[t] \notin {"dispatch", "cas_failed", "cnt_reset"}
  BY Zenon, <1>2 DEF SafeOf, FlagOf, AwayOf, Occupies, FlagLabels, LeaveLabels, RdLabels
<1>4. FlagOf(t)'
  <2>1. /\ pc'[t] = "cas" => rul'[t] = "Running"
        /\ lock_cnt[t] # 0 \/ home[t] # c => rul[t] = "Running" /\ rul'[t] = "Running"
    BY <1>2, <1>3 DEF OwnMove, FlagLabels, SafeOf, FlagOf, Occupies
  <2> QED BY Zenon, <1>1, <1>2, <2>1 DEF FlagOf, QuietStep, StepOf, Occupies, FlagLabels
<1>5. AwayOf(t)'
  BY Zenon, <1>1, <1>2, <1>3 DEF OwnMove, SafeOf, AwayOf, QuietStep, StepOf, RdLabels, LeaveLabels
<1>6. TargetOf(t)' /\ ClaimOf(t)'
  BY Zenon, <1>1 DEF TargetOf, ClaimOf, QuietStep, StepOf, Exec, RdLabels, TryLabels, TakeLabels,
              FlagLabels, BusyLabels
<1>7. ASSUME NEW u \in Ctx \ {t}, tgt[u] = t PROVE ClaimOf(u)'
  <2>1. SafeOf(u) BY Zenon DEF SafeInv
  <2>2. pc[u] \notin TakeLabels BY Zenon, <1>2, <1>7, <2>1 DEF SafeOf, ClaimOf, Occupies
  <2>3. pc[u] \in TryLabels => rul[t] = "Trying" BY Zenon, <1>7, <2>1 DEF SafeOf, ClaimOf
  <2>4. pc[u] \in TryLabels => rul'[t] = "Trying" BY Zenon, <1>3, <2>3 DEF OwnMove, FlagLabels
  <2> QED BY Zenon, <1>1, <1>7, <2>2, <2>4, Claimant DEF TakeLabels
<1>8. \A u \in Ctx \ {t} : ~Conflict(t, u)' /\ ~Conflict(u, t)'
  BY Zenon, <1>1 DEF Conflict, TryLabels, TakeLabels
<1> QED BY Zenon, <1>1, <1>2, <1>4, <1>5, <1>6, <1>7, <1>8, FlagSafe DEF SafeOf

\* These are the steps that do it.
LEMMA OwnSteps ==
  ASSUME NEW c \in Cpus, NEW t \in Ctx, Typed(t),
         lock_cnt[t] \in Nat,
         \/ Dispatch(c, t) \/ CasReset(c, t) \/ CntReset(c, t)
         \/ Recheck(c, t)
  PROVE  OwnMove(c, t)
<1> USE DEF Typed, TypeOK, LocalsOf, Locally, QuietStep, StepOf, At, Goto, lockVars, schedVars, locals,
            RdLabels, TgtLabels, LkLabels, LockLabels, OwnMove, Preempted, RulStates
<1>1. CASE Dispatch(c, t) BY <1>1 DEF Dispatch
<1>2. CASE CasReset(c, t) BY <1>2 DEF CasReset
<1>3. CASE CntReset(c, t) BY Zenon, <1>3 DEF CntReset
<1>4. CASE Recheck(c, t) BY Zenon, <1>4 DEF Recheck
<1> HIDE DEF Typed, OwnMove
<1> QED BY Zenon, <1>1, <1>2, <1>3, <1>4

\* A helper tries to get the flag of the holder, gives it back, or keeps it.
TryMove(c, t) ==
  /\ QuietStep(c, t) /\ tgt[t] \in Ctx /\ \A m \in Ctx \ {tgt[t]} : rul'[m] = rul[m]
  /\ \/ /\ pc[t] = "try_to_help" /\ pc'[t] = "check_cnt" /\ tgt'[t] = tgt[t]
        /\ rul[tgt[t]] = "Not_running" /\ rul'[tgt[t]] = "Trying"
     \/ pc[t] = "not_helping" /\ pc'[t] = "help_failed" /\ rul'[tgt[t]] = "Not_running"
     \/ pc[t] = "help" /\ pc'[t] = "help_switch" /\ tgt'[t] = tgt[t] /\ rul'[tgt[t]] = "Running"

\* Two helpers cannot both have it, and it is not taken from a CPU.
LEMMA TryMoveSafe ==
  ASSUME TypeInv, SafeInv, NEW c \in Cpus, NEW t \in Ctx, TryMove(c, t)
  PROVE  SafeInv'
<1> PICK n \in Ctx : n = tgt[t] BY Zenon DEF TryMove
<1>1. QuietStep(c, t) /\ Exec(c, t) /\ \A m \in Ctx \ {n} : rul'[m] = rul[m]
  BY Zenon DEF TryMove, QuietStep, StepOf
<1>2. /\ SafeOf(t) /\ cur[c] = t /\ prev[c] = None /\ TgtTyped
      /\ \A d \in Cpus : Occupies(d, t) => d = c
  BY Zenon, <1>1, Here
<1>3. /\ SafeOf(n) /\ lock_cnt'[n] = lock_cnt[n] /\ UNCHANGED <<cur, prev, home>>
      /\ pc'[n] = pc[n] \/ pc'[n] \notin FlagLabels
  BY Zenon, <1>1 DEF SafeInv, QuietStep, StepOf, FlagLabels, TryMove
<1>a. /\ pc[t] \in {"not_helping", "help"} => rul[n] = "Trying"
      /\ pc[t] = "help" => lock_cnt[n] # 0
  BY Zenon, <1>2 DEF SafeOf, ClaimOf, TryLabels, TakeLabels
<1>b. rul[n] # "Running" /\ lock_cnt[n] # 0 => \A d \in Cpus : ~Occupies(d, n)
  BY Zenon, <1>3 DEF SafeOf, FlagOf
<1>c. pc[n] \in FlagLabels => rul[n] = "Running" /\ \E d \in Cpus : Occupies(d, n)
  BY Zenon, <1>3 DEF SafeOf, FlagOf, TargetOf, Exec, Occupies, BusyLabels
<1>4. FlagOf(n)' BY Zenon, <1>3, <1>a, <1>b, <1>c DEF TryMove, SafeOf, FlagOf, Occupies, FlagLabels
<1>5. FlagOf(t)'
  <2>1. CASE t = n BY Zenon, <1>4, <2>1
  <2>2. CASE t # n
    BY <1>1, <1>2, <2>2 DEF TryMove, SafeOf, FlagOf, QuietStep, StepOf, Occupies, FlagLabels
  <2> QED BY Zenon, <2>1, <2>2
<1>6. AwayOf(t)' BY <1>1, <1>2 DEF TryMove, SafeOf, AwayOf, QuietStep, StepOf, RdLabels, LeaveLabels
<1>7. TargetOf(t)'
  BY Zenon, <1>1, <1>2 DEF TryMove, SafeOf, TargetOf, QuietStep, StepOf, Exec, RdLabels, TryLabels, FlagLabels,
                     BusyLabels
<1>8. ClaimOf(t)'
  BY Zenon, <1>1, <1>3, <1>a, <1>b DEF TryMove, ClaimOf, Occupies, RdLabels, TryLabels, TakeLabels
<1>9. ASSUME NEW u \in Ctx \ {t}, tgt[u] = n
      PROVE  /\ ClaimOf(u)' /\ (pc'[t] \in TryLabels => pc[u] \notin TryLabels)
             /\ (pc'[t] \in TakeLabels => pc[u] \notin TakeLabels)
  <2>1. SafeOf(u) /\ ~Conflict(t, u) BY Zenon DEF SafeInv, DistinctClaims
  <2>2. /\ pc[u] \in TryLabels => rul[n] = "Trying"
        /\ pc[u] \in {"rd_recheck", "rd_reset", "help_switch"} => rul[n] = "Running"
        /\ pc[u] = "switch" => lock_cnt[n] = 0 \/ rul[n] = "Running"
    BY Zenon, <1>9, <2>1 DEF SafeOf, ClaimOf
  <2>3. pc[t] \in {"not_helping", "help"} => pc[u] \notin TryLabels
    BY Zenon, <1>9, <2>1 DEF TryMove, Conflict, TryLabels, TakeLabels
  <2>4. ClaimOf(u)'
    <3>1. /\ pc[u] \in TryLabels => rul'[n] = "Trying"
          /\ pc[u] \in {"rd_recheck", "rd_reset", "help_switch"} => rul'[n] = "Running"
          /\ pc[u] = "switch" /\ lock_cnt[n] # 0 => rul'[n] = "Running"
      BY Zenon, <1>a, <2>2, <2>3 DEF TryMove, TakeLabels
    <3> QED BY Zenon, <1>1, <1>9, <3>1, Claimant
  <2> QED BY Zenon, <1>9, <1>a, <1>b, <2>2, <2>3, <2>4 DEF TryMove, TryLabels, TakeLabels
<1>10. \A u \in Ctx \ {t} : ~Conflict(t, u)' /\ ~Conflict(u, t)'
  BY Zenon, <1>1, <1>9 DEF TryMove, Conflict, QuietStep, StepOf, TryLabels, TakeLabels
<1> QED BY Zenon, <1>1, <1>2, <1>4, <1>5, <1>6, <1>7, <1>8, <1>9, <1>10, FlagSafe DEF SafeOf

\* The steps of Running_under_lock that a helper takes.
LEMMA TrySteps ==
  ASSUME NEW c \in Cpus, NEW t \in Ctx, Typed(t),
         \/ TryToHelp(c, t) \/ NotHelping(c, t) \/ Help(c, t)
  PROVE  TryMove(c, t)
<1> USE DEF Typed, TypeOK, LocalsOf, Locally, QuietStep, StepOf, At, Goto, lockVars, schedVars, locals,
            RdLabels, TgtLabels, LkLabels, LockLabels, TryMove
<1>1. CASE TryToHelp(c, t) BY <1>1 DEF TryToHelp
<1>2. CASE NotHelping(c, t) BY <1>2 DEF NotHelping
<1>3. CASE Help(c, t) BY <1>3 DEF Help
<1> HIDE DEF Typed, TryMove
<1> QED BY Zenon, <1>1, <1>2, <1>3

\* The home CPU takes the flag of the context it switches to, and gives it back if the
\* context holds no lock.
TakeMove(c, t) ==
  /\ QuietStep(c, t) /\ tgt[t] \in Ctx /\ \A m \in Ctx \ {tgt[t]} : rul'[m] = rul[m]
  /\ tgt'[t] = tgt[t] /\ via'[t] = via[t]
  /\ \/ /\ pc[t] = "rd_dispatch" /\ pc'[t] = "rd_recheck"
        /\ rul[tgt[t]] = "Not_running" /\ rul'[tgt[t]] = "Running"
     \/ pc[t] = "rd_reset" /\ pc'[t] = "switch" /\ rul'[tgt[t]] = "Not_running"

\* No other CPU has the context or is about to take it.
LEMMA TakeMoveSafe ==
  ASSUME TypeInv, SafeInv, NEW c \in Cpus, NEW t \in Ctx, TakeMove(c, t)
  PROVE  SafeInv'
<1> PICK n \in Ctx : n = tgt[t] BY Zenon DEF TakeMove
<1>1. QuietStep(c, t) /\ Exec(c, t) /\ \A m \in Ctx \ {n} : rul'[m] = rul[m]
  BY Zenon DEF TakeMove, QuietStep, StepOf
<1>2. /\ SafeOf(t) /\ cur[c] = t /\ prev[c] = None /\ TgtTyped
      /\ \A d \in Cpus : Occupies(d, t) => d = c
  BY Zenon, <1>1, Here
<1>3. /\ SafeOf(n) /\ lock_cnt'[n] = lock_cnt[n] /\ UNCHANGED <<cur, prev, home>>
      /\ pc'[n] = pc[n] \/ pc'[n] \notin FlagLabels
  BY Zenon, <1>1 DEF SafeInv, QuietStep, StepOf, FlagLabels, TakeMove
<1>a. pc[t] = "rd_reset" => /\ rul[n] = "Running" /\ lock_cnt[n] = 0
                             /\ \A d \in Cpus : ~Occupies(d, n)
  BY Zenon, <1>2 DEF SafeOf, ClaimOf, TryLabels, TakeLabels
<1>b. pc[t] = "rd_dispatch" =>
        /\ \A d \in Cpus : ~Occupies(d, n)
        /\ \A u \in Ctx \ {t} : tgt[u] = n => pc[u] \notin TakeLabels
  BY Zenon, <1>1, FreeToTake DEF TakeMove
<1>c. pc[n] \in FlagLabels => rul[n] = "Running" /\ \E d \in Cpus : Occupies(d, n)
  BY Zenon, <1>3 DEF SafeOf, FlagOf, TargetOf, Exec, Occupies, BusyLabels
<1>4. FlagOf(n)' BY Zenon, <1>3, <1>a, <1>b, <1>c DEF TakeMove, SafeOf, FlagOf, Occupies, FlagLabels
<1>5. FlagOf(t)'
  <2>1. CASE t = n BY Zenon, <1>4, <2>1
  <2>2. CASE t # n
    BY SMTT(30), <1>1, <1>2, <2>2 DEF TakeMove, SafeOf, FlagOf, QuietStep, StepOf, Occupies, FlagLabels
  <2> QED BY Zenon, <2>1, <2>2
<1>6. AwayOf(t)' BY <1>1, <1>2 DEF TakeMove, SafeOf, AwayOf, QuietStep, StepOf, RdLabels, LeaveLabels
<1>7. TargetOf(t)'
  BY Zenon, <1>1, <1>2 DEF TakeMove, SafeOf, TargetOf, QuietStep, StepOf, Exec, RdLabels, TryLabels, FlagLabels,
                     BusyLabels
<1>8. ClaimOf(t)'
  BY Zenon, <1>1, <1>3, <1>a, <1>b DEF TakeMove, ClaimOf, Occupies, RdLabels, TryLabels, TakeLabels
<1>9. ASSUME NEW u \in Ctx \ {t}, tgt[u] = n
      PROVE  /\ ClaimOf(u)' /\ (pc'[t] \in TryLabels => pc[u] \notin TryLabels)
             /\ (pc'[t] \in TakeLabels => pc[u] \notin TakeLabels)
  <2>1. SafeOf(u) /\ ~Conflict(t, u) BY Zenon DEF SafeInv, DistinctClaims
  <2>2. /\ pc[u] \in TryLabels => rul[n] = "Trying"
        /\ pc[u] \in {"rd_recheck", "rd_reset", "help_switch"} => rul[n] = "Running"
        /\ pc[u] = "switch" => lock_cnt[n] = 0 \/ rul[n] = "Running"
    BY Zenon, <1>9, <2>1 DEF SafeOf, ClaimOf
  <2>3. pc[t] = "rd_reset" => pc[u] \notin TakeLabels
    BY Zenon, <1>9, <2>1 DEF TakeMove, Conflict, TryLabels, TakeLabels
  <2>4. ClaimOf(u)'
    <3>1. /\ pc[u] \in TryLabels => rul'[n] = "Trying"
          /\ pc[u] \in {"rd_recheck", "rd_reset", "help_switch"} => rul'[n] = "Running"
          /\ pc[u] = "switch" /\ lock_cnt[n] # 0 => rul'[n] = "Running"
      BY Zenon, <1>a, <2>2, <2>3 DEF TakeMove, TakeLabels
    <3> QED BY Zenon, <1>1, <1>9, <3>1, Claimant
  <2> QED BY Zenon, <1>9, <1>a, <1>b, <2>2, <2>3, <2>4 DEF TakeMove, TryLabels, TakeLabels
<1>10. \A u \in Ctx \ {t} : ~Conflict(t, u)' /\ ~Conflict(u, t)'
  BY Zenon, <1>1, <1>9 DEF TakeMove, Conflict, QuietStep, StepOf, TryLabels, TakeLabels
<1> QED BY Zenon, <1>1, <1>2, <1>4, <1>5, <1>6, <1>7, <1>8, <1>9, <1>10, FlagSafe DEF SafeOf

\* The steps of running_on_different_cpu() that change the flag.
LEMMA TakeSteps ==
  ASSUME NEW c \in Cpus, NEW t \in Ctx, Typed(t),
         \/ RdDispatch(c, t) \/ RdReset(c, t)
  PROVE  TakeMove(c, t)
<1> USE DEF Typed, TypeOK, LocalsOf, Locally, QuietStep, StepOf, At, Goto, lockVars, schedVars, locals,
            RdLabels, TgtLabels, LkLabels, LockLabels, TakeMove
<1>1. CASE RdDispatch(c, t) BY <1>1 DEF RdDispatch
<1>2. CASE RdReset(c, t) BY <1>2 DEF RdReset
<1> HIDE DEF Typed, TakeMove
<1> QED BY Zenon, <1>1, <1>2

=============================================================================
