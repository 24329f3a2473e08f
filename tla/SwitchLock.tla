----------------------------- MODULE SwitchLock -----------------------------
(***************************************************************************)
(* Switch_lock (switch_lock.h) with multi-processor helping: the           *)
(* Running_under_lock state machine and its users in Context_mp_x          *)
(* (context_mp.h), the context switch and schedule() (context.cc), and the *)
(* two ways in which the home CPU of a context changes (sched.cc).         *)
(*                                                                         *)
(* A context executes on the CPU c with cur[c] = t.  Kernel code runs with *)
(* the CPU lock held (interrupts off), so a context is interrupted only at *)
(* the labels of Interruptible; between two of those labels every access   *)
(* to memory that another CPU may touch is a step of its own.  The kernel  *)
(* context of CPU c is c itself.                                           *)
(*                                                                         *)
(* Every context is always ready: blocking is the subject of other         *)
(* modules, and a lock holder does not block.  Which ready context the     *)
(* scheduler picks is left open.                                           *)
(***************************************************************************)
EXTENDS Integers, FiniteSets

CONSTANTS Threads,  \* contexts that use the locks
          Movable,  \* the threads somebody asks to migrate
          Cpus,
          Locks,    \* a set of naturals: the order in which locks nest
          None

ASSUME ConstAssumption ==
  /\ Threads \cap Cpus = {}
  /\ Movable \subseteq Threads
  /\ None \notin Threads \cup Cpus
  /\ Locks \subseteq Nat
  /\ IsFiniteSet(Locks)

VARIABLES
  owner,    \* Switch_lock::_lock_owner without bit 0
  invalid,  \* bit 0 of Switch_lock::_lock_owner
  freed,    \* wait_free() of the destroyer has returned
  lock_cnt, \* Context::_lock_cnt
  rul,      \* Context::_running_under_lock
  helper,   \* Context::_helper
  home,     \* Context::_home_cpu
  cur,      \* current() of each CPU
  prev,     \* `from' of a switch whose handle_lock_holder_preemption() is due
  pc,       \* where the kernel stack of a context continues
  in_sched, \* Ready_queue::schedule_in_progress of each CPU
  ret,      \* where schedule() or a switch returns to
  via,      \* the caller of switch_exec_locked()
  lk,       \* the lock lock(), clear() or wait_free() works on
  freeing,  \* the helping loop is the one of wait_free(), not of lock()
  tgt       \* the context to help or to switch to

vars == <<owner, invalid, freed, lock_cnt, rul, helper, home, cur, prev,
          in_sched, pc, ret, via, lk, freeing, tgt>>

lockVars == <<owner, invalid, freed>>
schedVars == <<home, cur, prev, in_sched>>
locals == <<ret, via>>

Ctx == Threads \cup Cpus

RulStates == {"Not_running", "Trying", "Running"}

Interruptible == {"user", "help_failed", "pick_pp"}

LockLabels == {"load", "dispatch", "cas", "cas_failed", "inc"}
HelpLabels == {"try_to_help", "check_cnt", "check_lock", "not_helping", "help",
               "help_switch", "help_failed", "help_home"}
ClearLabels == {"clear_owner", "dec_cnt", "cnt_reset", "switch_dirty",
                "dirty_back", "lock_schedule", "recheck"}
SchedLabels == {"schedule", "pick", "pick_pp", "rd_cnt", "rd_rul",
                "rd_dispatch", "rd_recheck", "rd_reset", "switch", "resumed",
                "migrate"}

Labels == {"user"} \cup LockLabels \cup HelpLabels \cup ClearLabels
            \cup SchedLabels

Holds(t) == {l \in DOMAIN owner : owner[l] = t}

\* Context t executes on CPU c and has completed its last switch.
Exec(c, t) == cur[c] = t /\ prev[c] = None

At(c, t, l) == Exec(c, t) /\ pc[t] = l

Goto(t, l) == pc' = [pc EXCEPT ![t] = l]

Init ==
  /\ owner = [l \in Locks |-> None]
  /\ invalid = [l \in Locks |-> FALSE]
  /\ freed = [l \in Locks |-> FALSE]
  /\ lock_cnt = [t \in Ctx |-> 0]
  /\ rul = [t \in Ctx |-> "Not_running"]
  /\ helper = [t \in Ctx |-> t]
  /\ home \in {h \in [Ctx -> Cpus] : \A c \in Cpus : h[c] = c}
  /\ cur = [c \in Cpus |-> c]
  /\ prev = [c \in Cpus |-> None]
  /\ in_sched = [c \in Cpus |-> None]
  /\ pc = [t \in Ctx |-> "user"]
  /\ ret = [t \in Ctx |-> None]
  /\ via = [t \in Ctx |-> None]
  /\ lk = [t \in Ctx |-> None]
  /\ freeing = [t \in Ctx |-> FALSE]
  /\ tgt = [t \in Ctx |-> None]

-----------------------------------------------------------------------------
(* lock(), and the loop of wait_free() that shares help()                  *)

\* A context takes a lock it does not hold, in the nesting order: for one it holds
\* lock() returns Locked and changes nothing.
LockStart(c, t, l) ==
  /\ At(c, t, "user") /\ t \in Threads
  /\ ~freed[l]
  /\ \A k \in Holds(t) : k < l
  /\ Goto(t, "load")
  /\ lk' = [lk EXCEPT ![t] = l]
  /\ UNCHANGED <<lockVars, lock_cnt, rul, helper, schedVars, locals, freeing, tgt>>

\* Kobject::initiate_deletion() invalidates, Kobject::destroy() waits.
Invalidate(c, t, l) ==
  /\ At(c, t, "user") /\ t \in Threads
  /\ ~invalid[l] /\ Holds(t) = {}
  /\ invalid' = [invalid EXCEPT ![l] = TRUE]
  /\ Goto(t, "load")
  /\ lk' = [lk EXCEPT ![t] = l]
  /\ freeing' = [freeing EXCEPT ![t] = TRUE]
  /\ UNCHANGED <<owner, freed, lock_cnt, rul, helper, schedVars, locals, tgt>>

\* The load at the head of both loops: invalid, free, or owned.
LoadInvalid(c, t) ==
  /\ At(c, t, "load") /\ ~freeing[t] /\ invalid[lk[t]]
  /\ Goto(t, "user")
  /\ lk' = [lk EXCEPT ![t] = None]
  /\ UNCHANGED <<lockVars, lock_cnt, rul, helper, schedVars, locals, freeing, tgt>>

LoadFree(c, t) ==
  /\ At(c, t, "load") /\ ~freeing[t]
  /\ ~invalid[lk[t]] /\ owner[lk[t]] = None
  /\ Goto(t, "dispatch")
  /\ UNCHANGED <<lockVars, lock_cnt, rul, helper, schedVars, locals, lk, freeing, tgt>>

LoadOwned(c, t) ==
  /\ At(c, t, "load") /\ (freeing[t] \/ ~invalid[lk[t]])
  /\ owner[lk[t]] # None
  /\ Goto(t, "try_to_help")
  /\ tgt' = [tgt EXCEPT ![t] = owner[lk[t]]]
  /\ UNCHANGED <<lockVars, lock_cnt, rul, helper, schedVars, locals, lk, freeing>>

WaitFreeDone(c, t) ==
  /\ At(c, t, "load") /\ freeing[t] /\ owner[lk[t]] = None
  /\ freed' = [freed EXCEPT ![lk[t]] = TRUE]
  /\ Goto(t, "user")
  /\ lk' = [lk EXCEPT ![t] = None]
  /\ freeing' = [freeing EXCEPT ![t] = FALSE]
  /\ UNCHANGED <<owner, invalid, lock_cnt, rul, helper, schedVars, locals, tgt>>

\* set_lock_owner(): a context without locks must dispatch itself first; the
\* spin on try_dispatch() is the guard.
Dispatch(c, t) ==
  /\ At(c, t, "dispatch")
  /\ IF lock_cnt[t] < 1
     THEN rul[t] = "Not_running" /\ rul' = [rul EXCEPT ![t] = "Running"]
     ELSE UNCHANGED rul
  /\ Goto(t, "cas")
  /\ UNCHANGED <<lockVars, lock_cnt, helper, schedVars, locals, lk, freeing, tgt>>

\* Mutant: the compare ignores bit 0.
CasOkOnInvalid(c, t) ==
  /\ At(c, t, "cas")
  /\ owner[lk[t]] = None
  /\ owner' = [owner EXCEPT ![lk[t]] = t]
  /\ Goto(t, "inc")
  /\ UNCHANGED <<invalid, freed, lock_cnt, rul, helper, schedVars, locals, lk, freeing, tgt>>

CasOk(c, t) ==
  /\ At(c, t, "cas")
  /\ owner[lk[t]] = None /\ ~invalid[lk[t]]
  /\ owner' = [owner EXCEPT ![lk[t]] = t]
  /\ Goto(t, "inc")
  /\ UNCHANGED <<invalid, freed, lock_cnt, rul, helper, schedVars, locals, lk, freeing, tgt>>

CasFail(c, t) ==
  /\ At(c, t, "cas")
  /\ owner[lk[t]] # None \/ invalid[lk[t]]
  /\ Goto(t, "cas_failed")
  /\ UNCHANGED <<lockVars, lock_cnt, rul, helper, schedVars, locals, lk, freeing, tgt>>

CasReset(c, t) ==
  /\ At(c, t, "cas_failed")
  /\ rul' = IF lock_cnt[t] < 1 THEN [rul EXCEPT ![t] = "Not_running"] ELSE rul
  /\ Goto(t, "load")
  /\ UNCHANGED <<lockVars, lock_cnt, helper, schedVars, locals, lk, freeing, tgt>>

IncLockCnt(c, t) ==
  /\ At(c, t, "inc")
  /\ lock_cnt' = [lock_cnt EXCEPT ![t] = @ + 1]
  /\ Goto(t, "user")
  /\ lk' = [lk EXCEPT ![t] = None]
  /\ UNCHANGED <<lockVars, rul, helper, schedVars, locals, freeing, tgt>>

-----------------------------------------------------------------------------
(* help(): need_help(), switch_exec_helping(), preemption point            *)

TryToHelp(c, t) ==
  /\ At(c, t, "try_to_help") /\ rul[tgt[t]] = "Not_running"
  /\ rul' = [rul EXCEPT ![tgt[t]] = "Trying"]
  /\ Goto(t, "check_cnt")
  /\ UNCHANGED <<lockVars, lock_cnt, helper, schedVars, locals, lk, freeing, tgt>>

CannotHelp(c, t) ==
  /\ At(c, t, "try_to_help") /\ rul[tgt[t]] # "Not_running"
  /\ Goto(t, "help_failed")
  /\ tgt' = [tgt EXCEPT ![t] = None]
  /\ UNCHANGED <<lockVars, lock_cnt, rul, helper, schedVars, locals, lk, freeing>>

CheckCnt(c, t) ==
  /\ At(c, t, "check_cnt")
  /\ Goto(t, IF lock_cnt[tgt[t]] # 0 THEN "check_lock" ELSE "not_helping")
  /\ UNCHANGED <<lockVars, lock_cnt, rul, helper, schedVars, locals, lk, freeing, tgt>>

\* The word compared is the one loaded: bit 0 was clear in lock() and set in
\* wait_free().
CheckLock(c, t) ==
  /\ At(c, t, "check_lock")
  /\ Goto(t, IF owner[lk[t]] = tgt[t] /\ invalid[lk[t]] = freeing[t]
             THEN "help" ELSE "not_helping")
  /\ UNCHANGED <<lockVars, lock_cnt, rul, helper, schedVars, locals, lk, freeing, tgt>>

NotHelping(c, t) ==
  /\ At(c, t, "not_helping")
  /\ rul' = [rul EXCEPT ![tgt[t]] = "Not_running"]
  /\ Goto(t, "help_failed")
  /\ tgt' = [tgt EXCEPT ![t] = None]
  /\ UNCHANGED <<lockVars, lock_cnt, helper, schedVars, locals, lk, freeing>>

Help(c, t) ==
  /\ At(c, t, "help")
  /\ rul' = [rul EXCEPT ![tgt[t]] = "Running"]
  /\ Goto(t, "help_switch")
  /\ UNCHANGED <<lockVars, lock_cnt, helper, schedVars, locals, lk, freeing, tgt>>

HelpSwitch(c, t) ==
  /\ At(c, t, "help_switch")
  /\ helper' = [helper EXCEPT ![tgt[t]] = t]
  /\ cur' = [cur EXCEPT ![c] = tgt[t]]
  /\ prev' = [prev EXCEPT ![c] = t]
  /\ Goto(t, "load")
  /\ tgt' = [tgt EXCEPT ![t] = None]
  /\ UNCHANGED <<lockVars, lock_cnt, rul, home, in_sched, locals, lk, freeing>>

\* After the preemption point a context that is helped itself gives up the
\* foreign CPU.
HelpFailed(c, t) ==
  /\ At(c, t, "help_failed")
  /\ Goto(t, "help_home")
  /\ UNCHANGED <<lockVars, lock_cnt, rul, helper, schedVars, locals, lk, freeing, tgt>>

HelpHome(c, t) ==
  /\ At(c, t, "help_home") /\ home[t] = c
  /\ Goto(t, "load")
  /\ UNCHANGED <<lockVars, lock_cnt, rul, helper, schedVars, locals, lk, freeing, tgt>>

HelpAway(c, t) ==
  /\ At(c, t, "help_home") /\ home[t] # c
  /\ Goto(t, "schedule")
  /\ ret' = [ret EXCEPT ![t] = "load"]
  /\ UNCHANGED <<lockVars, lock_cnt, rul, helper, schedVars, via, lk, freeing, tgt>>

-----------------------------------------------------------------------------
(* clear(): clear_no_switch_dirty(), dec_lock_cnt(), switch_dirty()        *)

ClearStart(c, t, l) ==
  /\ At(c, t, "user") /\ t \in Threads
  /\ owner[l] = t
  /\ Goto(t, "clear_owner")
  /\ lk' = [lk EXCEPT ![t] = l]
  /\ UNCHANGED <<lockVars, lock_cnt, rul, helper, schedVars, locals, freeing, tgt>>

ClearOwner(c, t) ==
  /\ At(c, t, "clear_owner")
  /\ owner' = [owner EXCEPT ![lk[t]] = None]
  /\ Goto(t, "dec_cnt")
  /\ lk' = [lk EXCEPT ![t] = None]
  /\ UNCHANGED <<invalid, freed, lock_cnt, rul, helper, schedVars, locals, freeing, tgt>>

\* Mutant: the flag is reset although locks remain.
DecLockCntResets(c, t) ==
  /\ At(c, t, "dec_cnt")
  /\ lock_cnt' = [lock_cnt EXCEPT ![t] = @ - 1]
  /\ Goto(t, IF home[t] = c THEN "cnt_reset" ELSE "switch_dirty")
  /\ UNCHANGED <<lockVars, rul, helper, schedVars, locals, lk, freeing, tgt>>

DecLockCnt(c, t) ==
  /\ At(c, t, "dec_cnt")
  /\ lock_cnt' = [lock_cnt EXCEPT ![t] = @ - 1]
  /\ Goto(t, IF lock_cnt'[t] = 0 /\ home[t] = c THEN "cnt_reset" ELSE "switch_dirty")
  /\ UNCHANGED <<lockVars, rul, helper, schedVars, locals, lk, freeing, tgt>>

CntReset(c, t) ==
  /\ At(c, t, "cnt_reset")
  /\ rul' = [rul EXCEPT ![t] = "Not_running"]
  /\ Goto(t, "switch_dirty")
  /\ UNCHANGED <<lockVars, lock_cnt, helper, schedVars, locals, lk, freeing, tgt>>

\* Switch back to the helper if it is at home here ...
SwitchDirty(c, t) ==
  /\ At(c, t, "switch_dirty") /\ helper[t] # t /\ home[helper[t]] = c
  /\ Goto(t, "rd_cnt")
  /\ tgt' = [tgt EXCEPT ![t] = helper[t]]
  /\ via' = [via EXCEPT ![t] = "switch_dirty"]
  /\ ret' = [ret EXCEPT ![t] = "dirty_back"]
  /\ UNCHANGED <<lockVars, lock_cnt, rul, helper, schedVars, lk, freeing>>

\* ... a helper elsewhere, like a switch that fails, makes us schedule.
NoSwitchDirty(c, t) ==
  /\ At(c, t, "switch_dirty") /\ (helper[t] = t \/ home[helper[t]] # c)
  /\ Goto(t, IF helper[t] = t THEN "dirty_back" ELSE "lock_schedule")
  /\ UNCHANGED <<lockVars, lock_cnt, rul, helper, schedVars, locals, lk, freeing, tgt>>

DirtyBack(c, t) ==
  /\ At(c, t, "dirty_back")
  /\ Goto(t, IF lock_cnt[t] = 0 /\ home[t] # c THEN "lock_schedule" ELSE "user")
  /\ UNCHANGED <<lockVars, lock_cnt, rul, helper, schedVars, locals, lk, freeing, tgt>>

LockSchedule(c, t) ==
  /\ At(c, t, "lock_schedule")
  /\ Goto(t, "schedule")
  /\ ret' = [ret EXCEPT ![t] = "recheck"]
  /\ UNCHANGED <<lockVars, lock_cnt, rul, helper, schedVars, via, lk, freeing, tgt>>

\* Running_under_lock::preempt()
Preempted(r) == IF r = "Running" THEN "Not_running" ELSE r

Recheck(c, t) ==
  /\ At(c, t, "recheck")
  /\ rul' = IF home[t] = c /\ lock_cnt[t] = 0
            THEN [rul EXCEPT ![t] = Preempted(@)] ELSE rul
  /\ Goto(t, "user")
  /\ UNCHANGED <<lockVars, lock_cnt, helper, schedVars, locals, lk, freeing, tgt>>

-----------------------------------------------------------------------------
(* Context::schedule(), switch_to_locked() and switch_exec_locked()        *)

\* An interrupt makes the current context call schedule(), unless schedule()
\* itself was interrupted (schedule_in_progress).
Preempt(c, t) ==
  /\ Exec(c, t) /\ pc[t] \in Interruptible /\ in_sched[c] = None
  /\ Goto(t, "schedule")
  /\ ret' = [ret EXCEPT ![t] = IF pc[t] = "pick_pp" THEN @ ELSE pc[t]]
  /\ tgt' = [tgt EXCEPT ![t] = None]
  /\ UNCHANGED <<lockVars, lock_cnt, rul, helper, schedVars, via, lk, freeing>>

\* A wakeup of n, which is at home here, switches to it directly.
SwitchTo(c, t, n) ==
  /\ Exec(c, t) /\ pc[t] \in {"user", "help_failed"} /\ in_sched[c] = None
  /\ n # t /\ home[n] = c
  /\ tgt' = [tgt EXCEPT ![t] = n]
  /\ via' = [via EXCEPT ![t] = "switch_to"]
  /\ ret' = [ret EXCEPT ![t] = pc[t]]
  /\ Goto(t, "rd_cnt")
  /\ UNCHANGED <<lockVars, lock_cnt, rul, helper, schedVars, lk, freeing>>

\* On a foreign CPU the kernel context schedules for us: Thread_need_resched
\* makes it resume in the loop of its own schedule().
ScheduleForeign(c, t) ==
  /\ At(c, t, "schedule") /\ home[t] # c
  /\ helper' = [helper EXCEPT ![t] = t]
  /\ cur' = [cur EXCEPT ![c] = c]
  /\ prev' = [prev EXCEPT ![c] = t]
  /\ pc' = [pc EXCEPT ![t] = "resumed", ![c] = "pick"]
  /\ via' = [via EXCEPT ![t] = "schedule", ![c] = None]
  /\ ret' = [ret EXCEPT ![c] = "user"]
  /\ UNCHANGED <<lockVars, lock_cnt, rul, home, in_sched, lk, freeing, tgt>>

ScheduleHome(c, t) ==
  /\ At(c, t, "schedule") /\ home[t] = c
  /\ helper' = [helper EXCEPT ![t] = t]
  /\ Goto(t, "pick")
  /\ UNCHANGED <<lockVars, lock_cnt, rul, schedVars, locals, lk, freeing, tgt>>

PickSelf(c, t) ==
  /\ At(c, t, "pick") /\ home[t] = c
  /\ Goto(t, ret[t])
  /\ ret' = [ret EXCEPT ![t] = None]
  /\ UNCHANGED <<lockVars, lock_cnt, rul, helper, schedVars, via, lk, freeing, tgt>>

PickOther(c, t, n) ==
  /\ At(c, t, "pick") /\ n # t /\ home[n] = c
  /\ tgt' = [tgt EXCEPT ![t] = n]
  /\ via' = [via EXCEPT ![t] = "schedule"]
  /\ Goto(t, "rd_cnt")
  /\ UNCHANGED <<lockVars, lock_cnt, rul, helper, schedVars, ret, lk, freeing>>

\* After the preemption point of the loop; tgt is the CPU it was entered on.
PickAgain(c, t) ==
  /\ At(c, t, "pick_pp") /\ tgt[t] = c
  /\ Goto(t, "pick")
  /\ in_sched' = [in_sched EXCEPT ![c] = None]
  /\ tgt' = [tgt EXCEPT ![t] = None]
  /\ UNCHANGED <<lockVars, lock_cnt, rul, helper, home, cur, prev, locals, lk, freeing>>

PickMigrated(c, t) ==
  /\ At(c, t, "pick_pp") /\ tgt[t] # c
  /\ Goto(t, ret[t])
  /\ ret' = [ret EXCEPT ![t] = None]
  /\ tgt' = [tgt EXCEPT ![t] = None]
  /\ UNCHANGED <<lockVars, lock_cnt, rul, helper, schedVars, via, lk, freeing>>

\* Mutant: no try_dispatch().
RdCntNoDispatch(c, t) ==
  /\ At(c, t, "rd_cnt")
  /\ Goto(t, "switch")
  /\ UNCHANGED <<lockVars, lock_cnt, rul, helper, schedVars, locals, lk, freeing, tgt>>

\* running_on_different_cpu(), four accesses
RdCnt(c, t) ==
  /\ At(c, t, "rd_cnt")
  /\ Goto(t, IF lock_cnt[tgt[t]] = 0 THEN "rd_rul" ELSE "rd_dispatch")
  /\ UNCHANGED <<lockVars, lock_cnt, rul, helper, schedVars, locals, lk, freeing, tgt>>

RdRul(c, t) ==
  /\ At(c, t, "rd_rul")
  /\ Goto(t, IF rul[tgt[t]] = "Not_running" THEN "switch" ELSE "rd_dispatch")
  /\ UNCHANGED <<lockVars, lock_cnt, rul, helper, schedVars, locals, lk, freeing, tgt>>

RdDispatch(c, t) ==
  /\ At(c, t, "rd_dispatch") /\ rul[tgt[t]] = "Not_running"
  /\ rul' = [rul EXCEPT ![tgt[t]] = "Running"]
  /\ Goto(t, "rd_recheck")
  /\ UNCHANGED <<lockVars, lock_cnt, helper, schedVars, locals, lk, freeing, tgt>>

\* Switch::Failed: switch_dirty() and switch_to_locked() call schedule() ...
RdFail(c, t) ==
  /\ At(c, t, "rd_dispatch") /\ rul[tgt[t]] # "Not_running" /\ via[t] # "schedule"
  /\ Goto(t, IF via[t] = "switch_dirty" THEN "lock_schedule" ELSE "schedule")
  /\ tgt' = [tgt EXCEPT ![t] = None]
  /\ via' = [via EXCEPT ![t] = None]
  /\ UNCHANGED <<lockVars, lock_cnt, rul, helper, schedVars, ret, lk, freeing>>

\* ... and schedule() itself reaches its preemption point.
PickFail(c, t) ==
  /\ At(c, t, "rd_dispatch") /\ rul[tgt[t]] # "Not_running" /\ via[t] = "schedule"
  /\ Goto(t, "pick_pp")
  /\ tgt' = [tgt EXCEPT ![t] = c]
  /\ in_sched' = [in_sched EXCEPT ![c] = t]
  /\ via' = [via EXCEPT ![t] = None]
  /\ UNCHANGED <<lockVars, lock_cnt, rul, helper, home, cur, prev, ret, lk, freeing>>

RdRecheck(c, t) ==
  /\ At(c, t, "rd_recheck")
  /\ Goto(t, IF lock_cnt[tgt[t]] = 0 THEN "rd_reset" ELSE "switch")
  /\ UNCHANGED <<lockVars, lock_cnt, rul, helper, schedVars, locals, lk, freeing, tgt>>

RdReset(c, t) ==
  /\ At(c, t, "rd_reset")
  /\ rul' = [rul EXCEPT ![tgt[t]] = "Not_running"]
  /\ Goto(t, "switch")
  /\ UNCHANGED <<lockVars, lock_cnt, helper, schedVars, locals, lk, freeing, tgt>>

\* The switch itself: Ignore_Helping from switch_dirty(), Not_Helping else.
Switch(c, t) ==
  /\ At(c, t, "switch")
  /\ helper' = IF via[t] = "switch_dirty" THEN helper
               ELSE [helper EXCEPT ![tgt[t]] = tgt[t]]
  /\ cur' = [cur EXCEPT ![c] = tgt[t]]
  /\ prev' = [prev EXCEPT ![c] = t]
  /\ Goto(t, "resumed")
  /\ tgt' = [tgt EXCEPT ![t] = None]
  /\ UNCHANGED <<lockVars, lock_cnt, rul, home, in_sched, locals, lk, freeing>>

\* Mutant: no handle_lock_holder_preemption().
SwitchInKeepsFlag(c) ==
  /\ prev[c] # None
  /\ prev' = [prev EXCEPT ![c] = None]
  /\ UNCHANGED <<lockVars, lock_cnt, rul, helper, home, cur, in_sched, pc, locals, lk, freeing, tgt>>

\* switchin_context(): the new context marks the old one as not running.
SwitchIn(c) ==
  /\ prev[c] # None
  /\ rul' = [rul EXCEPT ![prev[c]] = Preempted(@)]
  /\ prev' = [prev EXCEPT ![c] = None]
  /\ UNCHANGED <<lockVars, lock_cnt, helper, home, cur, in_sched, pc, locals, lk, freeing, tgt>>

\* Back in switch_exec_locked(), switch_handle_drq() answers Ok ...
ResumeOk(c, t) ==
  /\ At(c, t, "resumed")
  /\ Goto(t, ret[t])
  /\ ret' = [ret EXCEPT ![t] = None]
  /\ via' = [via EXCEPT ![t] = None]
  /\ UNCHANGED <<lockVars, lock_cnt, rul, helper, schedVars, lk, freeing, tgt>>

\* ... or, on the home CPU only, Resched.
ResumeResched(c, t) ==
  /\ At(c, t, "resumed") /\ home[t] = c
  /\ Goto(t, CASE via[t] = "switch_dirty" -> "lock_schedule"
               [] via[t] = "switch_to" -> "schedule"
               [] via[t] = "schedule" -> "pick")
  /\ via' = [via EXCEPT ![t] = None]
  /\ ret' = [ret EXCEPT ![t] = IF via[t] = "switch_dirty" THEN None ELSE @]
  /\ UNCHANGED <<lockVars, lock_cnt, rul, helper, schedVars, lk, freeing, tgt>>

-----------------------------------------------------------------------------
(* Migration: set_home_cpu() by the home CPU                               *)

LeaveSched(c, v) ==
  in_sched' = IF in_sched[c] = v THEN [in_sched EXCEPT ![c] = None] ELSE in_sched

\* do_migration_not_current() in an interrupt on the home CPU of v; v may be
\* executing on another CPU, helped by a context there.
MigrateOther(c, t, v, d) ==
  /\ Exec(c, t) /\ pc[t] \in Interruptible
  /\ v # t /\ home[v] = c /\ d # c
  /\ home' = [home EXCEPT ![v] = d]
  /\ LeaveSched(c, v)
  /\ UNCHANGED <<lockVars, lock_cnt, rul, helper, cur, prev, pc, locals, lk, freeing, tgt>>

\* do_migration() of the current context: kernel_context_drq() switches to the
\* kernel context, which then runs handle_migration_helper().
MigrateCurrent(c, t) ==
  /\ Exec(c, t) /\ pc[t] \in Interruptible
  /\ t \in Movable /\ home[t] = c
  /\ cur' = [cur EXCEPT ![c] = c]
  /\ prev' = [prev EXCEPT ![c] = t]
  /\ helper' = [helper EXCEPT ![c] = c]
  /\ Goto(c, "migrate")
  /\ tgt' = [tgt EXCEPT ![c] = t]
  /\ UNCHANGED <<lockVars, lock_cnt, rul, home, in_sched, locals, lk, freeing>>

\* no_answer_resched(): the kernel context goes on in its schedule() loop.
MigrateHelper(c, d) ==
  /\ At(c, c, "migrate") /\ d # c
  /\ home' = [home EXCEPT ![tgt[c]] = d]
  /\ LeaveSched(c, tgt[c])
  /\ Goto(c, "pick")
  /\ ret' = [ret EXCEPT ![c] = "user"]
  /\ tgt' = [tgt EXCEPT ![c] = None]
  /\ via' = [via EXCEPT ![c] = None]
  /\ UNCHANGED <<lockVars, lock_cnt, rul, helper, cur, prev, lk, freeing>>

-----------------------------------------------------------------------------
\* The steps of a context, by the operation they belong to.
LockStep(c, t) ==
  \/ LoadInvalid(c, t) \/ LoadFree(c, t) \/ LoadOwned(c, t) \/ WaitFreeDone(c, t)
  \/ Dispatch(c, t) \/ CasOk(c, t) \/ CasFail(c, t) \/ CasReset(c, t)
  \/ IncLockCnt(c, t)

HelpStep(c, t) ==
  \/ TryToHelp(c, t) \/ CannotHelp(c, t) \/ CheckCnt(c, t) \/ CheckLock(c, t)
  \/ NotHelping(c, t) \/ Help(c, t) \/ HelpSwitch(c, t) \/ HelpFailed(c, t)
  \/ HelpHome(c, t) \/ HelpAway(c, t)

ClearStep(c, t) ==
  \/ \E l \in Locks : ClearStart(c, t, l)
  \/ ClearOwner(c, t) \/ DecLockCnt(c, t) \/ CntReset(c, t) \/ SwitchDirty(c, t)
  \/ NoSwitchDirty(c, t) \/ DirtyBack(c, t) \/ LockSchedule(c, t) \/ Recheck(c, t)

ScheduleStep(c, t) ==
  \/ ScheduleHome(c, t) \/ PickSelf(c, t) \/ PickAgain(c, t) \/ PickMigrated(c, t)
  \/ RdFail(c, t) \/ PickFail(c, t)

SwitchStep(c, t) ==
  \/ RdCnt(c, t) \/ RdRul(c, t) \/ RdDispatch(c, t) \/ RdRecheck(c, t) \/ RdReset(c, t)
  \/ Switch(c, t) \/ ResumeOk(c, t)

StartStep(c, t) ==
  \/ \E l \in Locks : LockStart(c, t, l)
  \/ \E l \in Locks : Invalidate(c, t, l)
  \/ Preempt(c, t)
  \/ \E n \in Ctx : PickOther(c, t, n)
  \/ \E n \in Ctx : SwitchTo(c, t, n)
  \/ ResumeResched(c, t)

\* What a context does of its own accord while it executes; a holder releases
\* its lock, but nobody has to start an operation.
Work(c, t) == LockStep(c, t) \/ HelpStep(c, t) \/ ClearStep(c, t)

\* The steps of the scheduler and of a switch that leave it no choice.
Sched(c, t) == ScheduleForeign(c, t) \/ ScheduleStep(c, t) \/ SwitchStep(c, t)

Environment(c, t) ==
  \/ StartStep(c, t)
  \/ \E v \in Movable, d \in Cpus : MigrateOther(c, t, v, d)
  \/ MigrateCurrent(c, t)

Next ==
  \E c \in Cpus :
    \/ SwitchIn(c)
    \/ \E d \in Cpus : MigrateHelper(c, d)
    \/ \E t \in Ctx : Exec(c, t) /\ (Work(c, t) \/ Sched(c, t) \/ Environment(c, t))

Spec == Init /\ [][Next]_vars

(***************************************************************************)
(* A CPU completes the switches it started, a context that is given the    *)
(* CPU again and again goes on, the timer preempts, and no ready context   *)
(* is passed over for ever by the scheduler of its home CPU.               *)
(***************************************************************************)
Fairness ==
  /\ \A c \in Cpus : WF_vars(SwitchIn(c))
  /\ \A t \in Threads : SF_vars(\E c \in Cpus : Work(c, t))
  /\ \A c \in Cpus : WF_vars(\E t \in Ctx : Sched(c, t))
  /\ \A c \in Cpus : SF_vars(\E t \in Ctx : Preempt(c, t))
  /\ \A n \in Threads : SF_vars(\E c \in Cpus, t \in Ctx : PickOther(c, t, n))

-----------------------------------------------------------------------------
\* The words of locks and contexts (_lock_owner, _lock_cnt, _running_under_lock,
\* _helper, _home_cpu) hold values of their C++ types, a lock is owned by a
\* context, and every context is at a label of the code.
TypeOK ==
  /\ owner \in [Locks -> Ctx \cup {None}]
  /\ invalid \in [Locks -> BOOLEAN]
  /\ freed \in [Locks -> BOOLEAN]
  /\ lock_cnt \in [Ctx -> Int]
  /\ rul \in [Ctx -> RulStates]
  /\ helper \in [Ctx -> Ctx]
  /\ home \in [Ctx -> Cpus]
  /\ cur \in [Cpus -> Ctx]
  /\ prev \in [Cpus -> Ctx \cup {None}]
  /\ in_sched \in [Cpus -> Ctx \cup {None}]
  /\ pc \in [Ctx -> Labels]
  /\ ret \in [Ctx -> Labels \cup {None}]
  /\ via \in [Ctx -> {None, "switch_dirty", "switch_to", "schedule"}]
  /\ lk \in [Ctx -> Locks \cup {None}]
  /\ freeing \in [Ctx -> BOOLEAN]
  /\ tgt \in [Ctx -> Ctx \cup {None}]

\* No context ever executes on two CPUs, nor on one while another has not yet
\* finished switching away from it: what _running_under_lock is there for.
OneCpu ==
  \A c, d \in DOMAIN cur : c # d => cur[c] # cur[d] /\ cur[c] # prev[d]

\* The invariant that the comment in Switch_lock::schedule() states: an executing
\* context with locks, or away from home, has _running_under_lock.  Its other half: a
\* context that goes on at home without locks has not kept the flag, or its next
\* try_dispatch() would spin forever.  And the assertions of set_lock_owner(): the
\* first lock is taken at home, a further one under the flag.
RunningUnderLock ==
  \A c \in DOMAIN cur :
    LET t == cur[c] IN
    /\ lock_cnt[t] # 0 \/ home[t] # c => rul[t] = "Running"
    /\ At(c, t, "user") /\ home[t] = c /\ lock_cnt[t] = 0 => rul[t] # "Running"
    /\ At(c, t, "dispatch") =>
         IF lock_cnt[t] < 1 THEN home[t] = c ELSE rul[t] # "Not_running"

\* What others read about the owner of a lock is right.  _lock_cnt is the number of
\* locks held whenever the holder can be interrupted: helpers trust it to tell a lock
\* holder.  Once wait_free() has returned, nobody owns the lock, however late a locker
\* that saw it valid performs its compare-and-swap.
OwnersExact ==
  /\ \A t \in DOMAIN pc : pc[t] = "user" => lock_cnt[t] = Cardinality(Holds(t))
  /\ \A l \in DOMAIN owner : freed[l] => owner[l] = None

\* A destroyer waiting in wait_free() gets through: the holders it helps, here
\* or elsewhere, release the lock, and no late locker takes it again.
DestroyerGetsThrough == \A l \in Locks : invalid[l] ~> freed[l]

=============================================================================
