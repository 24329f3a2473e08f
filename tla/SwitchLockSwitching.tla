------------------------ MODULE SwitchLockSwitching -------------------------
(***************************************************************************)
(* The steps of SwitchLock that change a lock count, a current context or  *)
(* a home CPU preserve SafeInv of SwitchLockProofs, hence all steps do.    *)
(* A context without locks does not keep _running_under_lock, or its next  *)
(* try_dispatch() would spin forever: the invariant LeftInv, which all     *)
(* steps preserve too.                                                     *)
(***************************************************************************)
EXTENDS SwitchLockProofs

\* The step of t changes its lock count; whoever claims t must still be right.
LEMMA CountSafe ==
  ASSUME SafeInv, NEW c \in Cpus, NEW t \in Ctx, StepOf(c, t), UNCHANGED rul, TgtTyped,
         SafeOf(t)', pc'[t] \notin TryLabels \cup TakeLabels,
         \A u \in Ctx \ {t} : tgt[u] = t => ClaimOf(u)'
  PROVE  SafeInv'
<1>1. ASSUME NEW u \in Ctx \ {t} PROVE SafeOf(u)'
  <2>0. /\ SafeOf(u) /\ pc'[u] = pc[u] /\ tgt'[u] = tgt[u] /\ via'[u] = via[u]
        /\ lock_cnt'[u] = lock_cnt[u]
    BY Zenon DEF SafeInv, StepOf
  <2>1. FlagOf(u)' BY Zenon, <2>0 DEF SafeOf, FlagOf, StepOf, Occupies
  <2>2. AwayOf(u)' BY Zenon, <2>0 DEF SafeOf, AwayOf, StepOf
  <2>3. TargetOf(u)' BY Zenon, <2>0 DEF SafeOf, TargetOf, StepOf, Exec
  <2>4. pc[u] \in TgtLabels => tgt[u] \in Ctx BY Zenon DEF TgtTyped
  <2>5. ClaimOf(u)'
    <3>1. CASE tgt[u] = t BY Zenon, <3>1
    <3>2. CASE tgt[u] # t
      <4>1. pc[u] \in TgtLabels => lock_cnt'[tgt[u]] = lock_cnt[tgt[u]] BY Zenon, <2>4, <3>2 DEF StepOf
      <4>2. UNCHANGED <<rul, cur, prev>> /\ ClaimOf(u) BY Zenon, <2>0 DEF StepOf, SafeOf
      <4> QED BY Zenon, <2>0, <4>1, <4>2 DEF ClaimOf, Occupies, TgtLabels, RdLabels, TryLabels, TakeLabels
    <3> QED BY Zenon, <3>1, <3>2
  <2> QED BY Zenon, <2>1, <2>2, <2>3, <2>5 DEF SafeOf
<1>2. DistinctClaims' BY DEF SafeInv, DistinctClaims, Conflict, StepOf
<1>3. DisjointCpus' /\ KernelHome'
  BY DEF SafeInv, DisjointCpus, KernelHome, StepOf, Occupies
<1> QED BY Zenon, <1>1, <1>2, <1>3 DEF SafeInv

\* Nobody has a claim on an executing context that has the flag and is not at home
\* without locks, so its count may change.
LEMMA NoClaim ==
  ASSUME SafeInv, NEW c \in Cpus, NEW t \in Ctx, Exec(c, t), rul[t] = "Running",
         pc[t] \in {"inc", "dec_cnt"}, NEW u \in Ctx \ {t}, tgt[u] = t
  PROVE  pc[u] \notin TryLabels \cup TakeLabels /\ pc[u] # "rd_rul"
<1>1. SafeOf(u) /\ SafeOf(t) /\ cur[c] = t BY Zenon DEF SafeInv, Exec
<1>2. pc[u] \notin TryLabels BY Zenon, <1>1 DEF SafeOf, ClaimOf
<1>3. pc[u] \notin TakeLabels BY Zenon, <1>1 DEF SafeOf, ClaimOf, Occupies
<1>4. ASSUME pc[u] = "rd_rul" PROVE FALSE
  <2>1. lock_cnt[t] = 0 /\ cur[home[t]] = u BY Zenon, <1>1, <1>4 DEF SafeOf, ClaimOf, TargetOf, RdLabels
  <2>2. home[t] # c BY Zenon, <1>1, <2>1
  <2> QED BY Zenon, <1>1, <2>1, <2>2 DEF SafeOf, AwayOf, LeaveLabels, RdLabels
<1> QED BY Zenon, <1>2, <1>3, <1>4

\* inc_lock_cnt() and dec_lock_cnt()
LEMMA CountStepSafe ==
  ASSUME TypeInv, SafeInv, NEW c \in Cpus, NEW t \in Ctx, Typed(t), lock_cnt[t] \in Nat,
         \/ IncLockCnt(c, t)
         \/ DecLockCnt(c, t) /\ lock_cnt[t] # 0
  PROVE  SafeInv'
<1>1. /\ StepOf(c, t) /\ UNCHANGED rul /\ Exec(c, t) /\ pc[t] \in {"inc", "dec_cnt"}
      /\ \/ pc[t] = "inc" /\ pc'[t] = "user" /\ lock_cnt'[t] = lock_cnt[t] + 1
         \/ pc[t] = "dec_cnt" /\ pc'[t] = "switch_dirty"
         \/ pc[t] = "dec_cnt" /\ pc'[t] = "cnt_reset" /\ lock_cnt'[t] = 0 /\ home[t] = c
  BY Zenon DEF IncLockCnt, DecLockCnt, Typed, TypeOK, Locally, StepOf, At, Goto, lockVars, schedVars, locals
<1>2. /\ SafeOf(t) /\ cur[c] = t /\ prev[c] = None /\ TgtTyped
      /\ \A d \in Cpus : Occupies(d, t) => d = c
  BY Zenon, <1>1, Here
<1>3. rul[t] = "Running"
  <2>1. CASE pc[t] = "inc" BY Zenon, <1>2, <2>1 DEF SafeOf, FlagOf, FlagLabels
  <2>2. CASE pc[t] = "dec_cnt"
    <3>1. lock_cnt[t] # 0 BY Zenon, <2>2 DEF IncLockCnt, At
    <3> QED BY Zenon, <1>2, <3>1 DEF SafeOf, FlagOf, Occupies
  <2> QED BY Zenon, <1>1, <2>1, <2>2
<1>4. FlagOf(t)' BY Zenon, <1>1, <1>3 DEF FlagOf
<1>5. AwayOf(t)' BY <1>1, <1>2 DEF AwayOf, StepOf, LeaveLabels, Occupies
<1>6. TargetOf(t)' /\ ClaimOf(t)'
  BY Zenon, <1>1, <1>2 DEF TargetOf, ClaimOf, StepOf, Exec, RdLabels, TryLabels, TakeLabels, FlagLabels,
                     BusyLabels
<1>7. ASSUME NEW u \in Ctx \ {t}, tgt[u] = t PROVE ClaimOf(u)'
  <2>1. pc[u] \notin TryLabels \cup TakeLabels /\ pc[u] # "rd_rul"
    BY Zenon, <1>1, <1>3, <1>7, NoClaim
  <2>2. pc'[u] = pc[u] BY Zenon, <1>1 DEF StepOf
  <2> QED BY Zenon, <2>1, <2>2 DEF ClaimOf, TryLabels, TakeLabels
<1> QED BY Zenon, <1>1, <1>2, <1>4, <1>5, <1>6, <1>7, CountSafe DEF SafeOf, TryLabels, TakeLabels

\* CPU c goes from t to n, which is nowhere and in the middle of nothing.
Goes(c, t, n) ==
  /\ Exec(c, t)
  /\ cur' = [cur EXCEPT ![c] = n] /\ prev' = [prev EXCEPT ![c] = t]
  /\ UNCHANGED <<rul, home, lock_cnt>>
  /\ \A u \in Ctx \ {t, n} : pc'[u] = pc[u] /\ tgt'[u] = tgt[u] /\ via'[u] = via[u]

\* n is free: it occupies no CPU, and nobody but t is about to switch to it.
FreeFor(t, n) ==
  /\ n # t
  /\ \A d \in Cpus : ~Occupies(d, n)
  /\ \A u \in Ctx \ {t} : tgt[u] = n => pc[u] \notin TakeLabels

\* Then the contexts other than t and n are as safe as before, and CPUs and claims
\* stay disjoint.
LEMMA GoesSafe ==
  ASSUME TypeInv, SafeInv, NEW c \in Cpus, NEW t \in Ctx, NEW n \in Ctx, Goes(c, t, n),
         FreeFor(t, n), n \in Cpus => n = c,
         pc'[t] \notin BusyLabels \cup {"migrate", "try_to_help"},
         pc'[n] \notin BusyLabels,
         pc'[n] = "try_to_help" => tgt'[n] \in Threads,
         pc'[n] = "migrate" => n \in Cpus /\ tgt'[n] \in Threads /\ home[tgt'[n]] = n,
         lock_cnt[n] # 0 \/ home[n] # c => rul[n] = "Running",
         home[n] # c => lock_cnt[n] # 0
  PROVE  SafeInv'
<1>1. /\ SafeOf(t) /\ cur[c] = t /\ prev[c] = None /\ TgtTyped /\ n # t
      /\ \A d \in Cpus : Occupies(d, t) => d = c
  BY Zenon, Here DEF Goes, FreeFor
<1>2. /\ cur'[c] = n /\ prev'[c] = t
      /\ \A d \in Cpus \ {c} : cur'[d] = cur[d] /\ prev'[d] = prev[d]
  BY Zenon DEF Goes, TypeInv, TypeOK
<1>3. /\ \A d \in Cpus : Occupies(d, n)' <=> d = c
      /\ \A d \in Cpus : Occupies(d, t)' <=> d = c
      /\ \A d \in Cpus, u \in Ctx \ {t, n} : Occupies(d, u)' <=> Occupies(d, u)
  BY <1>1, <1>2, ConstAssumption DEF Occupies, FreeFor, Ctx
<1>4. FlagOf(t)' /\ AwayOf(t)'
  BY <1>1, <1>2, <1>3 DEF SafeOf, FlagOf, AwayOf, Goes, BusyLabels, FlagLabels, Occupies
<1>5. FlagOf(n)' /\ AwayOf(n)'
  BY Zenon, <1>1, <1>2, <1>3 DEF FlagOf, AwayOf, Goes, BusyLabels, FlagLabels, Occupies
<1>6. TargetOf(t)' /\ ClaimOf(t)'
  BY Zenon DEF TargetOf, ClaimOf, BusyLabels, RdLabels, TryLabels, TakeLabels
<1>7. TargetOf(n)' /\ ClaimOf(n)'
  BY Zenon, <1>2 DEF TargetOf, ClaimOf, BusyLabels, RdLabels, TryLabels, TakeLabels, Goes
<1>8. ASSUME NEW u \in Ctx \ {t, n} PROVE SafeOf(u)'
  <2>0. /\ SafeOf(u) /\ pc'[u] = pc[u] /\ tgt'[u] = tgt[u] /\ via'[u] = via[u]
        /\ UNCHANGED <<rul, home, lock_cnt>>
    BY Zenon DEF SafeInv, Goes
  <2>1. FlagOf(u)' BY Zenon, <1>3, <2>0 DEF SafeOf, FlagOf
  <2>2. AwayOf(u)' BY Zenon, <1>2, <2>0 DEF SafeOf, AwayOf
  <2>3. TargetOf(u)'
    <3>1. pc[u] \in TgtLabels => tgt[u] \in Ctx BY Zenon, <1>1 DEF TgtTyped
    <3>2. \A m \in Ctx : home[m] \in Cpus BY Zenon DEF TypeInv, TypeOK
    <3>3. \A d \in Cpus : cur[d] = u => d # c BY Zenon, <1>1
    <3> QED BY <1>2, <2>0, <3>1, <3>2, <3>3 DEF SafeOf, TargetOf, Exec, TgtLabels, RdLabels
  <2>4. ClaimOf(u)'
    <3>1. pc[u] \in TakeLabels => tgt[u] # n BY Zenon DEF FreeFor
    <3>2. pc[u] \in TakeLabels => tgt[u] # t BY Zenon, <1>1, <2>0 DEF SafeOf, ClaimOf, Occupies
    <3>3. pc[u] \in TakeLabels => tgt[u] \in Ctx BY Zenon, <1>1 DEF TgtTyped, TakeLabels, TgtLabels, RdLabels
    <3> QED BY Zenon, <1>3, <2>0, <3>1, <3>2, <3>3 DEF SafeOf, ClaimOf
  <2> QED BY Zenon, <2>1, <2>2, <2>3, <2>4 DEF SafeOf
<1>9. DistinctClaims'
  BY DEF SafeInv, DistinctClaims, Conflict, Goes, BusyLabels, RdLabels, TryLabels, TakeLabels
<1>10. DisjointCpus'
  <2>1. \A d \in Cpus : prev'[d] # cur'[d] BY Zenon, <1>1, <1>2 DEF SafeInv, DisjointCpus
  <2>2. ASSUME NEW d \in Cpus, NEW f \in Cpus, NEW m \in Ctx, Occupies(d, m)', Occupies(f, m)'
        PROVE  d = f
    BY <1>3, <2>2 DEF SafeInv, DisjointCpus
  <2> QED BY Zenon, <2>1, <2>2 DEF DisjointCpus
<1>11. KernelHome'
  BY <1>1, <1>3 DEF SafeInv, KernelHome, Goes, Occupies, Ctx
<1> QED BY Zenon, <1>4, <1>5, <1>6, <1>7, <1>8, <1>9, <1>10, <1>11 DEF SafeInv, SafeOf

\* A context that occupies no CPU is in the middle of nothing.
LEMMA Idle ==
  ASSUME SafeInv, NEW n \in Ctx, \A d \in Cpus : ~Occupies(d, n)
  PROVE  pc[n] \notin BusyLabels /\ pc[n] # "migrate"
BY Zenon DEF SafeInv, SafeOf, TargetOf, Exec, Occupies

\* A switch to the holder that is helped, or to a context at home here, goes to a free context.
LEMMA SwitchGoes ==
  ASSUME TypeInv, SafeInv, NEW c \in Cpus, NEW t \in Ctx, Typed(t),
         HelpSwitch(c, t) \/ Switch(c, t), NEW n \in Ctx, n = tgt[t]
  PROVE  /\ Exec(c, t) /\ pc[t] \in {"help_switch", "switch"} /\ pc'[t] \in {"load", "resumed"}
         /\ FreeFor(t, n) /\ Goes(c, t, n) /\ (pc[t] = "switch" => home[n] = c)
<1>1. /\ Exec(c, t) /\ pc[t] \in {"help_switch", "switch"} /\ pc'[t] \in {"load", "resumed"}
      /\ cur' = [cur EXCEPT ![c] = n] /\ prev' = [prev EXCEPT ![c] = t]
      /\ UNCHANGED <<rul, home, lock_cnt>>
  BY DEF HelpSwitch, Switch, Typed, TypeOK, At, Goto
<1>2. /\ SafeOf(t) /\ cur[c] = t /\ prev[c] = None /\ TgtTyped
      /\ \A d \in Cpus : Occupies(d, t) => d = c
  BY Zenon, <1>1, Here
<1>3. FreeFor(t, n)
  <2>1. \A d \in Cpus : ~Occupies(d, n) BY Zenon, <1>1, <1>2 DEF SafeOf, ClaimOf, TakeLabels
  <2>2. ASSUME NEW u \in Ctx \ {t}, tgt[u] = n PROVE pc[u] \notin TakeLabels
    BY Zenon, <1>1, <2>2 DEF SafeInv, DistinctClaims, Conflict, TakeLabels
  <2> QED BY Zenon, <1>2, <2>1, <2>2 DEF FreeFor, Occupies
<1>4. Goes(c, t, n) BY Zenon, <1>1 DEF Goes, Typed, Locally
<1>5. ASSUME pc[t] = "switch" PROVE home[n] = c
  <2>1. cur[home[n]] = t /\ home[n] \in Cpus BY Zenon, <1>2, <1>5 DEF SafeOf, TargetOf, TypeInv, TypeOK
  <2> QED BY Zenon, <1>2, <2>1 DEF Occupies
<1> QED BY Zenon, <1>1, <1>3, <1>4, <1>5

\* So it is safe.
LEMMA SwitchSafe ==
  ASSUME TypeInv, SafeInv, NEW c \in Cpus, NEW t \in Ctx, Typed(t),
         HelpSwitch(c, t) \/ Switch(c, t)
  PROVE  SafeInv'
<1>0. tgt[t] \in Ctx BY Zenon DEF Typed, LocalsOf, TgtLabels, RdLabels, HelpSwitch, Switch, At
<1> PICK n \in Ctx : n = tgt[t] BY Zenon, <1>0
<1>1. /\ Exec(c, t) /\ pc[t] \in {"help_switch", "switch"} /\ pc'[t] \in {"load", "resumed"}
      /\ FreeFor(t, n) /\ Goes(c, t, n) /\ (pc[t] = "switch" => home[n] = c)
  BY SwitchGoes
<1>2. SafeOf(t) BY Zenon DEF SafeInv
<1>3. pc'[n] = pc[n] /\ tgt'[n] = tgt[n] /\ pc[n] \notin BusyLabels \cup {"migrate"}
  BY Zenon, <1>1, Idle DEF FreeFor, Typed, Locally
<1>4. pc[n] = "try_to_help" => tgt[n] \in Threads BY Zenon DEF SafeInv, SafeOf, TargetOf
<1>5. /\ n \in Cpus => n = c
      /\ lock_cnt[n] # 0 \/ home[n] # c => rul[n] = "Running"
      /\ home[n] # c => lock_cnt[n] # 0
  <2>1. CASE pc[t] = "help_switch"
    BY Zenon, <1>2, <2>1, ConstAssumption DEF SafeOf, TargetOf, ClaimOf
  <2>2. CASE pc[t] = "switch"
    BY Zenon, <1>1, <1>2, <2>2 DEF SafeOf, ClaimOf, SafeInv, KernelHome
  <2> QED BY Zenon, <1>1, <2>1, <2>2
<1>6. pc'[t] \notin BusyLabels \cup {"migrate", "try_to_help"}
  BY Zenon, <1>1 DEF BusyLabels, RdLabels, TryLabels, FlagLabels
<1> QED BY Zenon, <1>1, <1>3, <1>4, <1>5, <1>6, GoesSafe

\* The kernel context of c is free when another context executes there.
LEMMA KernelFree ==
  ASSUME TypeInv, SafeInv, NEW c \in Cpus, NEW t \in Ctx, Exec(c, t), t # c,
         pc[t] \notin TakeLabels
  PROVE  FreeFor(t, c)
<1>1. cur[c] = t /\ prev[c] = None /\ home[c] = c BY Zenon DEF Exec, SafeInv, KernelHome
<1>2. \A d \in Cpus : ~Occupies(d, c)
  BY Zenon, <1>1, ConstAssumption DEF SafeInv, KernelHome, Occupies
<1>3. ASSUME NEW u \in Ctx \ {t}, tgt[u] = c PROVE pc[u] \notin TakeLabels
  <2>1. SafeOf(u) BY Zenon DEF SafeInv
  <2>2. c \notin Threads BY Zenon, ConstAssumption
  <2> QED BY Zenon, <1>1, <1>3, <2>1, <2>2 DEF SafeOf, TargetOf, TakeLabels, RdLabels
<1> QED BY Zenon, <1>2, <1>3 DEF FreeFor

\* The kernel context takes over when the current one is away from home, or migrates.
LEMMA KernelGoes ==
  ASSUME TypeInv, SafeInv, NEW c \in Cpus, NEW t \in Ctx,
         ScheduleForeign(c, t) \/ MigrateCurrent(c, t)
  PROVE  /\ c \in Ctx /\ home[c] = c /\ Exec(c, t) /\ t # c
         /\ pc[t] \in {"schedule"} \cup Interruptible
         /\ FreeFor(t, c) /\ Goes(c, t, c)
<1>1. c \in Ctx /\ home[c] = c /\ TypeOK BY Zenon DEF Ctx, SafeInv, KernelHome, TypeInv
<1>2. Exec(c, t) /\ t # c /\ pc[t] \in {"schedule"} \cup Interruptible
  BY Zenon, <1>1, ConstAssumption DEF ScheduleForeign, MigrateCurrent, At
<1>3. FreeFor(t, c) BY Zenon, <1>2, KernelFree DEF Interruptible, TakeLabels
<1>4. Goes(c, t, c)
  BY <1>1, <1>2 DEF ScheduleForeign, MigrateCurrent, Goes, TypeOK, Goto, locals
<1> QED BY Zenon, <1>1, <1>2, <1>3, <1>4

\* It holds no lock, so this is safe.
LEMMA KernelSafe ==
  ASSUME TypeInv, SafeInv, NEW c \in Cpus, NEW t \in Ctx, lock_cnt[c] = 0,
         ScheduleForeign(c, t) \/ MigrateCurrent(c, t)
  PROVE  SafeInv'
<1>1. /\ c \in Ctx /\ home[c] = c /\ Exec(c, t) /\ t # c
      /\ pc[t] \in {"schedule"} \cup Interruptible
      /\ FreeFor(t, c) /\ Goes(c, t, c)
  BY Zenon, KernelGoes
<1>2. /\ pc'[t] \in {"resumed"} \cup Interruptible
      /\ \/ pc'[c] = "pick"
         \/ pc'[c] = "migrate" /\ tgt'[c] = t /\ t \in Threads /\ home[t] = c
  BY <1>1, ConstAssumption DEF ScheduleForeign, MigrateCurrent, TypeInv, TypeOK, Goto
<1>3. /\ pc'[t] \notin BusyLabels \cup {"migrate", "try_to_help"}
      /\ pc'[c] \notin BusyLabels \cup {"try_to_help"}
  BY Zenon, <1>2 DEF BusyLabels, RdLabels, TryLabels, FlagLabels, Interruptible
<1> QED BY Zenon, <1>1, <1>2, <1>3, GoesSafe

\* handle_lock_holder_preemption() clears the flag of a context that is nowhere any more.
LEMMA SwitchInSafe == ASSUME TypeInv, SafeInv, NEW c \in Cpus, SwitchIn(c) PROVE SafeInv'
<1>0. prev[c] \in Ctx BY Zenon DEF SwitchIn, TypeInv, TypeOK
<1> PICK m \in Ctx : m = prev[c] BY Zenon, <1>0
<1>1. /\ prev' = [prev EXCEPT ![c] = None] /\ rul' = [rul EXCEPT ![m] = Preempted(@)]
      /\ UNCHANGED <<cur, home, lock_cnt, pc, tgt, via>>
  BY Zenon DEF SwitchIn, locals
<1>2. \A d \in Cpus : cur[d] # m
  BY Zenon DEF SafeInv, DisjointCpus, Occupies
<1>3. /\ \A d \in Cpus : ~Occupies(d, m)'
      /\ \A d \in Cpus, u \in Ctx : Occupies(d, u)' => Occupies(d, u)
      /\ \A d \in Cpus, u \in Ctx : Exec(d, u) => Exec(d, u)'
  <2>1. \A d \in Cpus \ {c} : prev[d] # m BY Zenon DEF SafeInv, DisjointCpus, Occupies
  <2>2. prev'[c] = None /\ \A d \in Cpus \ {c} : prev'[d] = prev[d] BY Zenon, <1>1 DEF TypeInv, TypeOK
  <2>3. \A u \in Ctx : u # None BY Zenon, ConstAssumption DEF Ctx
  <2> QED BY Zenon, <1>1, <1>2, <2>1, <2>2, <2>3 DEF Occupies, Exec
<1>4. /\ \A u \in Ctx \ {m} : rul'[u] = rul[u]
      /\ rul[m] = "Trying" => rul'[m] = "Trying"
  BY Zenon, <1>1 DEF Preempted, TypeInv, TypeOK
<1>5. ASSUME NEW u \in Ctx PROVE SafeOf(u)'
  <2>0. SafeOf(u) BY Zenon DEF SafeInv
  <2>1. FlagOf(u)'
    <3>1. CASE u = m BY Zenon, <1>1, <1>2, <1>3, <2>0, <3>1 DEF SafeOf, FlagOf, TargetOf, BusyLabels, Exec
    <3>2. CASE u # m BY Zenon, <1>1, <1>3, <1>4, <2>0, <3>2 DEF SafeOf, FlagOf
    <3> QED BY Zenon, <3>1, <3>2
  <2>2. AwayOf(u)' BY Zenon, <1>1, <2>0 DEF SafeOf, AwayOf
  <2>3. TargetOf(u)' BY Zenon, <1>1, <1>3, <2>0 DEF SafeOf, TargetOf
  <2>4. ClaimOf(u)'
    <3>1. pc[u] \in TgtLabels => tgt[u] \in Ctx BY Zenon DEF TypeInv, LocalsOK, LocalsOf
    <3>2. pc[u] \in TakeLabels => tgt[u] # m BY Zenon, <2>0 DEF SafeOf, ClaimOf, Occupies
    <3> QED BY Zenon, <1>1, <1>3, <1>4, <2>0, <3>1, <3>2
            DEF SafeOf, ClaimOf, TgtLabels, RdLabels, TryLabels, TakeLabels
  <2> QED BY Zenon, <2>1, <2>2, <2>3, <2>4 DEF SafeOf
<1>6. DistinctClaims' BY Zenon, <1>1 DEF SafeInv, DistinctClaims, Conflict
<1>7. DisjointCpus' /\ KernelHome'
  <2>1. \A d \in Cpus : cur[d] \in Ctx BY Zenon DEF TypeInv, TypeOK
  <2>2. \A d \in Cpus : d \in Ctx BY Zenon DEF Ctx
  <2>3. \A d \in Cpus : prev'[d] # cur'[d]
    BY <1>1, <2>1, ConstAssumption DEF SafeInv, DisjointCpus, Ctx, TypeInv, TypeOK
  <2> QED BY Zenon, <1>1, <1>3, <2>2, <2>3 DEF SafeInv, DisjointCpus, KernelHome
<1> QED BY Zenon, <1>5, <1>6, <1>7 DEF SafeInv

\* The home of v changes while v is elsewhere and the old home CPU is not switching.  The
\* kernel context there may be the one that does it.
LEMMA HomeSafe ==
  ASSUME TypeInv, SafeInv, NEW c \in Cpus, NEW d \in Cpus, NEW v \in Threads, home[v] = c,
         ~Occupies(c, v), home' = [home EXCEPT ![v] = d],
         UNCHANGED <<cur, prev, rul, lock_cnt>>,
         \A u \in Ctx \ {c} : pc'[u] = pc[u] /\ tgt'[u] = tgt[u] /\ via'[u] = via[u],
         \/ pc'[c] = pc[c] /\ tgt'[c] = tgt[c] /\ via'[c] = via[c] /\ pc[c] # "migrate"
         \/ pc'[c] = "pick",
         pc[cur[c]] \notin RdLabels \cup {"switch"}
  PROVE  SafeInv'
<1>0. v \in Ctx /\ c \in Ctx /\ v # c /\ home[c] = c
  BY Zenon, ConstAssumption DEF Ctx, SafeInv, KernelHome
<1>1. /\ home'[v] = d /\ v \in Ctx /\ c \in Ctx /\ v # c /\ home[c] = c
      /\ \A u \in Ctx \ {v} : home'[u] = home[u]
  BY Zenon, <1>0 DEF TypeInv, TypeOK
<1>2. ASSUME NEW u \in Ctx, pc'[u] = pc[u], tgt'[u] = tgt[u], via'[u] = via[u],
             u = c => pc[u] # "migrate"
      PROVE  SafeOf(u)'
  <2>0. SafeOf(u) BY Zenon DEF SafeInv
  <2>1. FlagOf(u)'
    <3>1. CASE u = v BY Zenon, <1>1, <1>2, <2>0, <3>1 DEF SafeOf, FlagOf, Occupies
    <3>2. CASE u # v BY <1>1, <1>2, <2>0, <3>2 DEF SafeOf, FlagOf, Occupies
    <3> QED BY Zenon, <3>1, <3>2
  <2>2. AwayOf(u)'
    <3>1. CASE u = v BY Zenon, <1>1, <1>2, <2>0, <3>1 DEF SafeOf, AwayOf, Occupies
    <3>2. CASE u # v BY <1>1, <1>2, <2>0, <3>2 DEF SafeOf, AwayOf
    <3> QED BY Zenon, <3>1, <3>2
  <2>3. TargetOf(u)'
    <3>1. pc[u] \in TgtLabels => tgt[u] \in Ctx BY Zenon DEF TypeInv, LocalsOK, LocalsOf
    <3>2. pc[u] \in RdLabels \cup {"switch"} => tgt[u] # v
      BY Zenon, <2>0 DEF SafeOf, TargetOf
    <3>3. pc[u] = "migrate" => tgt[u] # v BY Zenon, <1>2, <2>0 DEF SafeOf, TargetOf
    <3>4. pc[u] \in RdLabels \cup {"switch", "migrate"} => home'[tgt[u]] = home[tgt[u]]
      BY Zenon, <1>1, <3>1, <3>2, <3>3 DEF TgtLabels
    <3>5. (pc[u] \in BusyLabels => \E e \in Cpus : Exec(e, u)) => (pc[u] \in BusyLabels => \E e \in Cpus : Exec(e, u)')
      BY Zenon DEF Exec
    <3> QED BY Zenon, <1>2, <2>0, <3>4, <3>5 DEF SafeOf, TargetOf
  <2>4. ClaimOf(u)' BY Zenon, <1>2, <2>0 DEF SafeOf, ClaimOf, Occupies
  <2> QED BY Zenon, <2>1, <2>2, <2>3, <2>4 DEF SafeOf
<1>3. ASSUME pc'[c] = "pick" PROVE SafeOf(c)'
  <2>0. SafeOf(c) /\ \A e \in Cpus : cur[e] = c => e = c
    BY Zenon, <1>1 DEF SafeInv, KernelHome, Occupies
  <2>1. FlagOf(c)'
    <3>1. home'[c] = home[c] BY Zenon, <1>1
    <3> QED BY Zenon, <1>3, <2>0, <3>1 DEF SafeOf, FlagOf, Occupies, FlagLabels
  <2>2. AwayOf(c)' BY <1>1, <2>0 DEF AwayOf
  <2>3. TargetOf(c)' /\ ClaimOf(c)'
    BY Zenon, <1>3 DEF TargetOf, ClaimOf, BusyLabels, RdLabels, TryLabels, TakeLabels, FlagLabels
  <2> QED BY Zenon, <2>1, <2>2, <2>3 DEF SafeOf
<1>4. \A u \in Ctx : SafeOf(u)' BY Zenon, <1>1, <1>2, <1>3
<1>5. DistinctClaims'
  <2>1. \A a, b \in Ctx : Conflict(a, b)' => Conflict(a, b) BY DEF Conflict, TryLabels, TakeLabels
  <2> QED BY Zenon, <2>1 DEF SafeInv, DistinctClaims
<1>6. DisjointCpus' BY DEF SafeInv, DisjointCpus, Occupies
<1>7. KernelHome'
  <2>1. \A k \in Cpus : k # v /\ k \in Ctx BY Zenon, ConstAssumption DEF Ctx
  <2>2. \A k \in Cpus : home'[k] = home[k] BY Zenon, <1>1, <2>1
  <2> QED BY <2>2 DEF SafeInv, KernelHome, Occupies
<1> QED BY Zenon, <1>4, <1>5, <1>6, <1>7 DEF SafeInv

\* do_migration_not_current() and handle_migration_helper()
LEMMA MigrateSafe ==
  ASSUME TypeInv, SafeInv, NEW c \in Cpus, NEW d \in Cpus,
         \/ MigrateHelper(c, d)
         \/ \E t \in Ctx, v \in Movable : MigrateOther(c, t, v, d)
  PROVE  SafeInv'
<1>1. c \in Ctx /\ TypeOK /\ SafeOf(c) BY Zenon DEF Ctx, TypeInv, SafeInv
<1>2. CASE MigrateHelper(c, d)
  <2> PICK v : v = tgt[c] OBVIOUS
  <2>1. /\ Exec(c, c) /\ pc[c] = "migrate" /\ home' = [home EXCEPT ![v] = d] /\ pc'[c] = "pick"
        /\ UNCHANGED <<cur, prev, rul, lock_cnt>>
        /\ \A u \in Ctx \ {c} : pc'[u] = pc[u] /\ tgt'[u] = tgt[u] /\ via'[u] = via[u]
    BY Zenon, <1>1, <1>2 DEF MigrateHelper, At, Goto, TypeOK
  <2>2. v \in Threads /\ home[v] = c BY Zenon, <1>1, <2>1 DEF SafeOf, TargetOf
  <2>3. ~Occupies(c, v) /\ pc[cur[c]] \notin RdLabels \cup {"switch"}
    BY Zenon, <2>1, <2>2, ConstAssumption DEF Exec, Occupies, RdLabels
  <2> QED BY Zenon, <2>1, <2>2, <2>3, HomeSafe
<1>3. ASSUME NEW t \in Ctx, NEW v \in Movable, MigrateOther(c, t, v, d) PROVE SafeInv'
  <2>1. /\ Exec(c, t) /\ pc[t] \in Interruptible /\ v # t /\ v \in Threads /\ home[v] = c
        /\ home' = [home EXCEPT ![v] = d]
        /\ UNCHANGED <<cur, prev, rul, lock_cnt, pc, tgt, via>>
    BY Zenon, <1>3, ConstAssumption DEF MigrateOther, locals
  <2>2. ~Occupies(c, v) /\ pc[cur[c]] \notin RdLabels \cup {"switch"}
    BY Zenon, <2>1, ConstAssumption DEF Exec, Occupies, RdLabels, Interruptible
  <2>3. pc[c] # "migrate" BY Zenon, <1>1, <2>1 DEF SafeOf, TargetOf, Exec, Interruptible
  <2> QED BY Zenon, <2>1, <2>2, <2>3, HomeSafe
<1> QED BY Zenon, <1>2, <1>3

(***************************************************************************)
(* All steps.  What they need of the lock counts is CountFacts; it follows *)
(* from the invariant of the owner words.                                  *)
(***************************************************************************)
CountFacts ==
  /\ \A l \in Locks : owner[l] \in Threads \cup {None}
  /\ \A t \in Ctx : lock_cnt[t] \in Nat /\ (pc[t] = "dec_cnt" => lock_cnt[t] # 0)
  /\ \A k \in Cpus : lock_cnt[k] = 0

\* Initially every CPU runs its kernel context and no flag is needed.
LEMMA SafeInit == ASSUME Init PROVE SafeInv
<1>1. /\ pc = [t \in Ctx |-> "user"] /\ cur = [c \in Cpus |-> c] /\ prev = [c \in Cpus |-> None]
      /\ lock_cnt = [t \in Ctx |-> 0]
      /\ home \in [Ctx -> Cpus] /\ \A c \in Cpus : home[c] = c
  BY Zenon DEF Init
<1>2. ASSUME NEW n \in Ctx PROVE SafeOf(n)
  <2>1. pc[n] = "user" /\ lock_cnt[n] = 0 /\ n # None BY Zenon, <1>1, ConstAssumption DEF Ctx
  <2>2. FlagOf(n) /\ AwayOf(n) BY Zenon, <1>1, <2>1 DEF FlagOf, AwayOf, Occupies, FlagLabels
  <2>3. TargetOf(n) /\ ClaimOf(n)
    BY Zenon, <2>1 DEF TargetOf, ClaimOf, BusyLabels, RdLabels, TryLabels, TakeLabels, FlagLabels
  <2> QED BY Zenon, <2>2, <2>3 DEF SafeOf
<1>3. DistinctClaims BY Zenon, <1>1 DEF DistinctClaims, Conflict, TryLabels, TakeLabels
<1>4. DisjointCpus /\ KernelHome
  BY Zenon, <1>1, ConstAssumption DEF DisjointCpus, KernelHome, Occupies, Ctx
<1> QED BY Zenon, <1>2, <1>3, <1>4 DEF SafeInv

\* A plain move is safe.
LEMMA MoveSafe ==
  ASSUME TypeInv, SafeInv, NEW c \in Cpus, NEW t \in Ctx, PlainMove(c, t) PROVE SafeInv'
BY Zenon, PlainSafe, TypedTargets DEF PlainMove

\* lock()
LEMMA LockSafe ==
  ASSUME TypeInv, SafeInv, CountFacts, NEW c \in Cpus, NEW t \in Ctx, Typed(t), LockStep(c, t)
  PROVE  SafeInv'
<1>1. lock_cnt[t] \in Nat /\ \A l \in Locks : owner[l] \in Threads \cup {None} BY Zenon DEF CountFacts
<1>2. CASE LoadInvalid(c, t) \/ LoadFree(c, t) \/ WaitFreeDone(c, t) BY Zenon, <1>2, PlainLock, MoveSafe
<1>3. CASE LoadOwned(c, t) \/ CasOk(c, t) \/ CasFail(c, t) BY Zenon, <1>1, <1>3, LookSteps, LookMoveSafe
<1>4. CASE Dispatch(c, t) \/ CasReset(c, t) BY Zenon, <1>1, <1>4, OwnSteps, OwnMoveSafe
<1>5. CASE IncLockCnt(c, t) BY Zenon, <1>1, <1>5, CountStepSafe
<1> QED BY Zenon, <1>2, <1>3, <1>4, <1>5 DEF LockStep

\* help()
LEMMA HelpingSafe ==
  ASSUME TypeInv, SafeInv, CountFacts, NEW c \in Cpus, NEW t \in Ctx, Typed(t), HelpStep(c, t)
  PROVE  SafeInv'
<1>1. CASE TryToHelp(c, t) \/ NotHelping(c, t) \/ Help(c, t) BY Zenon, <1>1, TrySteps, TryMoveSafe
<1>2. CASE CannotHelp(c, t) \/ HelpFailed(c, t) \/ HelpHome(c, t) \/ HelpAway(c, t)
  BY Zenon, <1>2, PlainLock, MoveSafe
<1>3. CASE CheckCnt(c, t) \/ CheckLock(c, t) BY Zenon, <1>3, LookSteps, LookMoveSafe DEF CountFacts
<1>4. CASE HelpSwitch(c, t) BY Zenon, <1>4, SwitchSafe
<1> QED BY Zenon, <1>1, <1>2, <1>3, <1>4 DEF HelpStep

\* clear()
LEMMA ClearSafe ==
  ASSUME TypeInv, SafeInv, CountFacts, NEW c \in Cpus, NEW t \in Ctx, Typed(t), ClearStep(c, t)
  PROVE  SafeInv'
<1>0. lock_cnt[t] \in Nat BY Zenon DEF CountFacts
<1>1. CASE \E l \in Locks : ClearStart(c, t, l) BY Zenon, <1>1, PlainClear, MoveSafe
<1>2. CASE ClearOwner(c, t) \/ NoSwitchDirty(c, t) \/ DirtyBack(c, t) \/ LockSchedule(c, t)
  BY Zenon, <1>2, PlainClear, MoveSafe
<1>3. CASE DecLockCnt(c, t)
  <2>1. lock_cnt[t] # 0 BY Zenon, <1>3 DEF CountFacts, DecLockCnt, At
  <2> QED BY Zenon, <1>0, <1>3, <2>1, CountStepSafe
<1>4. CASE CntReset(c, t) \/ Recheck(c, t) BY Zenon, <1>0, <1>4, OwnSteps, OwnMoveSafe
<1>5. CASE SwitchDirty(c, t) BY Zenon, <1>5, AimSteps, AimMoveSafe
<1> QED BY Zenon, <1>1, <1>2, <1>3, <1>4, <1>5 DEF ClearStep

\* schedule() and the context switch
LEMMA SchedulingSafe ==
  ASSUME TypeInv, SafeInv, NEW c \in Cpus, NEW t \in Ctx, Typed(t),
         ScheduleStep(c, t) \/ SwitchStep(c, t)
  PROVE  SafeInv'
<1>1. CASE ScheduleStep(c, t) BY Zenon, <1>1, PlainSchedule, MoveSafe DEF ScheduleStep
<1>2. CASE ResumeOk(c, t) BY Zenon, <1>2, PlainSchedule, MoveSafe
<1>3. CASE RdCnt(c, t) \/ RdRul(c, t) \/ RdRecheck(c, t) BY Zenon, <1>3, RdSteps, RdMoveSafe
<1>4. CASE RdDispatch(c, t) \/ RdReset(c, t) BY Zenon, <1>4, TakeSteps, TakeMoveSafe
<1>5. CASE Switch(c, t) BY Zenon, <1>5, SwitchSafe
<1> QED BY Zenon, <1>1, <1>2, <1>3, <1>4, <1>5 DEF SwitchStep

\* The steps that start something.
LEMMA StartSafe ==
  ASSUME TypeInv, SafeInv, NEW c \in Cpus, NEW t \in Ctx, Typed(t), StartStep(c, t) PROVE SafeInv'
<1>1. CASE (\E l \in Locks : LockStart(c, t, l)) \/ (\E l \in Locks : Invalidate(c, t, l))
  BY Zenon, <1>1, PlainStart, MoveSafe
<1>2. CASE Preempt(c, t) \/ ResumeResched(c, t) BY Zenon, <1>2, PlainStart, MoveSafe
<1>3. CASE \E n \in Ctx : PickOther(c, t, n) BY Zenon, <1>3, AimSteps, AimMoveSafe
<1>4. CASE \E m \in Ctx : SwitchTo(c, t, m) BY Zenon, <1>4, AimSteps, AimMoveSafe
<1> QED BY Zenon, <1>1, <1>2, <1>3, <1>4 DEF StartStep

\* Every step preserves SafeInv.
LEMMA SafeStep == ASSUME TypeInv, CountFacts, SafeInv, [Next]_vars PROVE SafeInv'
<1>1. CASE UNCHANGED vars
  <2>1. UNCHANGED <<cur, prev, home, lock_cnt, rul, pc, tgt, via>> BY Zenon, <1>1 DEF vars
  <2>2. ASSUME NEW n \in Ctx PROVE SafeOf(n)'
    <3>0. SafeOf(n) BY Zenon DEF SafeInv
    <3>1. FlagOf(n)' /\ AwayOf(n)' BY Zenon, <2>1, <3>0 DEF SafeOf, FlagOf, AwayOf, Occupies
    <3>2. TargetOf(n)' BY Zenon, <2>1, <3>0 DEF SafeOf, TargetOf, Exec
    <3>3. ClaimOf(n)' BY Zenon, <2>1, <3>0 DEF SafeOf, ClaimOf, Occupies
    <3> QED BY Zenon, <3>1, <3>2, <3>3 DEF SafeOf
  <2>3. DistinctClaims' BY Zenon, <2>1 DEF SafeInv, DistinctClaims, Conflict
  <2>4. DisjointCpus' /\ KernelHome' BY <2>1 DEF SafeInv, DisjointCpus, KernelHome, Occupies
  <2> QED BY Zenon, <2>2, <2>3, <2>4 DEF SafeInv
<1>2. ASSUME NEW c \in Cpus, NEW t \in Ctx,
             \/ LockStep(c, t) \/ HelpStep(c, t) \/ ClearStep(c, t)
             \/ ScheduleStep(c, t) \/ SwitchStep(c, t) \/ StartStep(c, t)
      PROVE  SafeInv'
  <2>1. TypedStep(t)
    BY Zenon, <1>2, LockTypes, HelpTypes, ClearTypes, ScheduleTypes, SwitchTypes, StartTypes
  <2>2. Typed(t) BY Zenon, <2>1 DEF Typed, TypedStep, TypeInv, LocalsOK
  <2> QED BY Zenon, <1>2, <2>2, LockSafe, HelpingSafe, ClearSafe, SchedulingSafe, StartSafe
<1>3. ASSUME NEW c \in Cpus, NEW t \in Ctx, ScheduleForeign(c, t) \/ MigrateCurrent(c, t)
      PROVE  SafeInv'
  <2>1. lock_cnt[c] = 0 BY Zenon DEF CountFacts
  <2> QED BY Zenon, <1>3, <2>1, KernelSafe
<1> QED BY Zenon, <1>1, <1>2, <1>3, SwitchInSafe, MigrateSafe DEF Next, Work, Sched, Environment

-----------------------------------------------------------------------------
(* Giving the flag up *)

\* A context that has released its last lock away from home goes to schedule(), and
\* drops the flag when it is switched away or comes back.
Leaving(n) ==
  \/ pc[n] = "switch_dirty" /\ helper[n] # n
  \/ pc[n] \in RdLabels \cup {"switch"} /\ via[n] = "switch_dirty"
  \/ pc[n] \in {"lock_schedule", "recheck"}
  \/ pc[n] \in RetLabels /\ ret[n] = "recheck"

\* Who has the flag without locks is in set_lock_owner() or dec_lock_cnt(), or about to be
\* switched to by a CPU that will look at the count again, or just switched away from, or
\* leaving.
LeftOf(n) ==
  rul[n] = "Running" /\ lock_cnt[n] = 0 =>
    \/ pc[n] \in FlagLabels
    \/ \E u \in Ctx : pc[u] \in {"rd_recheck", "rd_reset"} /\ tgt[u] = n
    \/ \E c \in Cpus : prev[c] = n
    \/ \E c \in Cpus : cur[c] = n /\ Leaving(n)

\* A context away from home has a helper.
HelperOf(n) == \A c \in Cpus : cur[c] = n /\ home[n] # c => helper[n] # n

LeftInv == \A n \in Ctx : LeftOf(n) /\ HelperOf(n)

\* What a step of t on its CPU does to the flags of contexts without locks.
LeftMove(c, t) ==
  /\ Exec(c, t) /\ UNCHANGED <<cur, prev, home>>
  /\ \A u \in Ctx \ {t} : /\ pc'[u] = pc[u] /\ tgt'[u] = tgt[u] /\ via'[u] = via[u]
                          /\ ret'[u] = ret[u] /\ helper'[u] = helper[u]
                          /\ lock_cnt'[u] = lock_cnt[u]
  /\ helper'[t] = helper[t] \/ home[t] = c
  /\ \A n \in Ctx \ {t} :
       rul'[n] = "Running" /\ rul[n] # "Running" =>
         lock_cnt[n] # 0 \/ (pc'[t] = "rd_recheck" /\ tgt'[t] = n)
  /\ pc[t] \in {"rd_recheck", "rd_reset"} =>
       \/ lock_cnt[tgt[t]] # 0 \/ rul'[tgt[t]] # "Running"
       \/ pc'[t] = "rd_reset" /\ tgt'[t] = tgt[t]
  /\ rul'[t] = "Running" /\ lock_cnt'[t] = 0 =>
       \/ pc'[t] \in FlagLabels \/ Leaving(t)'
       \/ rul[t] = "Running" /\ lock_cnt[t] = 0 /\ pc[t] \notin FlagLabels /\ ~Leaving(t)

\* An executing context that has the flag without locks and neither needs it nor is
\* leaving: there is none.
LEMMA NotKept ==
  ASSUME TypeInv, SafeInv, LeftInv, NEW c \in Cpus, NEW t \in Ctx, Exec(c, t),
         pc[t] \notin FlagLabels, ~Leaving(t), rul[t] = "Running"
  PROVE  lock_cnt[t] # 0
<1>1. LeftOf(t) /\ cur[c] = t /\ prev[c] = None /\ \A d \in Cpus : Occupies(d, t) => d = c
  BY Zenon, Here DEF LeftInv
<1>2. ASSUME NEW u \in Ctx, tgt[u] = t PROVE pc[u] \notin {"rd_recheck", "rd_reset"}
  BY Zenon, <1>1, <1>2 DEF SafeInv, SafeOf, ClaimOf, TakeLabels, Occupies
<1>3. \A d \in Cpus : prev[d] # t BY Zenon, <1>1, ConstAssumption DEF Occupies, Ctx
<1> QED BY Zenon, <1>1, <1>2, <1>3 DEF LeftOf

\* The moves preserve LeftInv.
LEMMA LeftMoveSafe ==
  ASSUME TypeInv, SafeInv, LeftInv, NEW c \in Cpus, NEW t \in Ctx, LeftMove(c, t) PROVE LeftInv'
<1>1. Exec(c, t) /\ cur[c] = t /\ UNCHANGED <<cur, prev, home>> BY Zenon DEF LeftMove, Exec
<1>2. LeftOf(t)'
  <2>1. ASSUME rul'[t] = "Running", lock_cnt'[t] = 0 PROVE pc'[t] \in FlagLabels \/ Leaving(t)'
    BY Zenon, <1>1, <2>1, NotKept DEF LeftMove
  <2> QED BY Zenon, <1>1, <2>1 DEF LeftOf
<1>3. ASSUME NEW n \in Ctx \ {t} PROVE LeftOf(n)'
  <2>0. /\ pc'[n] = pc[n] /\ via'[n] = via[n] /\ ret'[n] = ret[n] /\ helper'[n] = helper[n]
        /\ lock_cnt'[n] = lock_cnt[n]
    BY Zenon DEF LeftMove
  <2> SUFFICES ASSUME rul'[n] = "Running", lock_cnt[n] = 0 PROVE LeftOf(n)' BY Zenon, <2>0 DEF LeftOf
  <2>1. CASE rul[n] # "Running" BY Zenon, <2>1 DEF LeftMove, LeftOf
  <2>2. CASE rul[n] = "Running"
    <3>1. CASE pc[n] \in FlagLabels BY Zenon, <2>0, <3>1 DEF LeftOf
    <3>2. ASSUME NEW u \in Ctx, pc[u] \in {"rd_recheck", "rd_reset"}, tgt[u] = n
          PROVE  LeftOf(n)'
      <4>1. CASE u = t BY Zenon, <3>2, <4>1 DEF LeftMove, LeftOf
      <4>2. CASE u # t BY Zenon, <3>2, <4>2 DEF LeftMove, LeftOf
      <4> QED BY Zenon, <4>1, <4>2
    <3>3. CASE \E d \in Cpus : prev[d] = n BY Zenon, <1>1, <3>3 DEF LeftOf
    <3>4. CASE \E d \in Cpus : cur[d] = n /\ Leaving(n)
      <4>1. Leaving(n)' BY Zenon, <2>0, <3>4 DEF Leaving
      <4> QED BY Zenon, <1>1, <3>4, <4>1 DEF LeftOf
    <3> QED BY Zenon, <2>2, <3>1, <3>2, <3>3, <3>4 DEF LeftInv, LeftOf
  <2> QED BY Zenon, <2>1, <2>2
<1>4. ASSUME NEW n \in Ctx PROVE HelperOf(n)'
  <2>1. CASE n = t
    <3>1. \A d \in Cpus : cur[d] = t => d = c BY Zenon, <1>1, Here DEF Occupies
    <3> QED BY <1>1, <2>1, <3>1 DEF LeftInv, HelperOf, LeftMove
  <2>2. CASE n # t BY <1>1, <2>2 DEF LeftInv, HelperOf, LeftMove
  <2> QED BY Zenon, <2>1, <2>2
<1> QED BY Zenon, <1>2, <1>3, <1>4 DEF LeftInv

\* lock() ...
LEMMA LockLeft ==
  ASSUME NEW c \in Cpus, NEW t \in Ctx, Typed(t), lock_cnt[t] \in Nat,
         \/ LoadInvalid(c, t) \/ LoadFree(c, t) \/ LoadOwned(c, t)
         \/ WaitFreeDone(c, t) \/ Dispatch(c, t) \/ CasOk(c, t)
         \/ CasFail(c, t) \/ CasReset(c, t) \/ IncLockCnt(c, t)
  PROVE  LeftMove(c, t)
<1> USE DEF Typed, TypeOK, LocalsOf, Locally, LeftMove, Leaving, At, Goto, lockVars, schedVars, locals,
            FlagLabels, RdLabels, RetLabels, ViaLabels, TgtLabels, RulStates
<1>1. CASE LoadInvalid(c, t) BY Zenon, <1>1 DEF LoadInvalid
<1>2. CASE LoadFree(c, t) BY Zenon, <1>2 DEF LoadFree
<1>3. CASE LoadOwned(c, t) BY Zenon, <1>3 DEF LoadOwned
<1>4. CASE WaitFreeDone(c, t) BY Zenon, <1>4 DEF WaitFreeDone
<1>5. CASE Dispatch(c, t) BY <1>5 DEF Dispatch
<1>6. CASE CasOk(c, t) BY <1>6 DEF CasOk
<1>7. CASE CasFail(c, t) BY <1>7 DEF CasFail
<1>8. CASE CasReset(c, t) BY <1>8 DEF CasReset
<1>9. CASE IncLockCnt(c, t) BY <1>9 DEF IncLockCnt
<1> HIDE DEF Typed, LeftMove
<1> QED BY Zenon, <1>1, <1>2, <1>3, <1>4, <1>5, <1>6, <1>7, <1>8, <1>9

\* ... help() ...
LEMMA HelpLeft ==
  ASSUME NEW c \in Cpus, NEW t \in Ctx, Typed(t), ClaimOf(t),
         \/ TryToHelp(c, t) \/ CannotHelp(c, t) \/ CheckCnt(c, t)
         \/ CheckLock(c, t) \/ NotHelping(c, t) \/ Help(c, t)
         \/ HelpFailed(c, t) \/ HelpHome(c, t) \/ HelpAway(c, t)
  PROVE  LeftMove(c, t)
<1> USE DEF Typed, TypeOK, LocalsOf, Locally, LeftMove, Leaving, At, Goto, lockVars, schedVars, locals,
            FlagLabels, RdLabels, RetLabels, ViaLabels, TgtLabels, RulStates
<1>1. CASE TryToHelp(c, t) BY <1>1 DEF TryToHelp
<1>2. CASE CannotHelp(c, t) BY Zenon, <1>2 DEF CannotHelp
<1>3. CASE CheckCnt(c, t) BY Zenon, <1>3 DEF CheckCnt
<1>4. CASE CheckLock(c, t) BY Zenon, <1>4 DEF CheckLock
<1>5. CASE NotHelping(c, t) BY <1>5 DEF NotHelping
<1>6. CASE Help(c, t) BY <1>6 DEF Help, ClaimOf
<1>7. CASE HelpFailed(c, t) BY Zenon, <1>7 DEF HelpFailed
<1>8. CASE HelpHome(c, t) BY Zenon, <1>8 DEF HelpHome
<1>9. CASE HelpAway(c, t) BY Zenon, <1>9 DEF HelpAway
<1> HIDE DEF Typed, LeftMove
<1> QED BY Zenon, <1>1, <1>2, <1>3, <1>4, <1>5, <1>6, <1>7, <1>8, <1>9

\* ... clear() ...
LEMMA ClearLeft ==
  ASSUME NEW c \in Cpus, NEW t \in Ctx, Typed(t),
         lock_cnt[t] \in Nat, AwayOf(t), HelperOf(t),
         \/ (\E l \in Locks : ClearStart(c, t, l))
         \/ ClearOwner(c, t) \/ DecLockCnt(c, t) \/ CntReset(c, t)
         \/ SwitchDirty(c, t) \/ NoSwitchDirty(c, t) \/ DirtyBack(c, t)
         \/ LockSchedule(c, t) \/ Recheck(c, t)
  PROVE  LeftMove(c, t)
<1> USE DEF Typed, TypeOK, LocalsOf, Locally, LeftMove, Leaving, At, Goto, lockVars, schedVars, locals,
            FlagLabels, RdLabels, RetLabels, ViaLabels, TgtLabels, RulStates
<1>1. CASE \E l \in Locks : ClearStart(c, t, l) BY Zenon, <1>1 DEF ClearStart
<1>2. CASE ClearOwner(c, t) BY Zenon, <1>2 DEF ClearOwner
<1>3. CASE DecLockCnt(c, t) BY <1>3 DEF DecLockCnt, HelperOf, Exec
<1>4. CASE CntReset(c, t) BY <1>4 DEF CntReset
<1>5. CASE SwitchDirty(c, t) BY <1>5 DEF SwitchDirty
<1>6. CASE NoSwitchDirty(c, t) BY <1>6 DEF NoSwitchDirty
<1>7. CASE DirtyBack(c, t) BY Zenon, <1>7 DEF DirtyBack
<1>8. CASE LockSchedule(c, t) BY <1>8 DEF LockSchedule
<1>9. CASE Recheck(c, t) BY <1>9 DEF Recheck, AwayOf, LeaveLabels, Exec, Preempted
<1> HIDE DEF Typed, LeftMove
<1> QED BY Zenon, <1>1, <1>2, <1>3, <1>4, <1>5, <1>6, <1>7, <1>8, <1>9

\* ... schedule() ...
LEMMA ScheduleLeft ==
  ASSUME NEW c \in Cpus, NEW t \in Ctx, Typed(t),
         \/ ScheduleHome(c, t) \/ PickSelf(c, t) \/ PickAgain(c, t)
         \/ PickMigrated(c, t) \/ RdFail(c, t) \/ PickFail(c, t)
  PROVE  LeftMove(c, t)
<1> USE DEF Typed, TypeOK, LocalsOf, Locally, LeftMove, Leaving, At, Goto, lockVars, schedVars, locals,
            FlagLabels, RdLabels, RetLabels, ViaLabels, TgtLabels, RulStates
<1>1. CASE ScheduleHome(c, t) BY <1>1 DEF ScheduleHome
<1>2. CASE PickSelf(c, t) BY Zenon, <1>2 DEF PickSelf
<1>3. CASE PickAgain(c, t) BY <1>3 DEF PickAgain
<1>4. CASE PickMigrated(c, t) BY <1>4 DEF PickMigrated
<1>5. CASE RdFail(c, t) BY <1>5 DEF RdFail
<1>6. CASE PickFail(c, t) BY <1>6 DEF PickFail
<1> HIDE DEF Typed, LeftMove
<1> QED BY Zenon, <1>1, <1>2, <1>3, <1>4, <1>5, <1>6

\* ... the context switch ...
LEMMA SwitchLeft ==
  ASSUME NEW c \in Cpus, NEW t \in Ctx, Typed(t), TargetOf(t),
         \/ RdCnt(c, t) \/ RdRul(c, t) \/ RdDispatch(c, t)
         \/ RdRecheck(c, t) \/ RdReset(c, t) \/ ResumeOk(c, t)
  PROVE  LeftMove(c, t)
<1> USE DEF Typed, TypeOK, LocalsOf, Locally, LeftMove, Leaving, At, Goto, lockVars, schedVars, locals,
            FlagLabels, RdLabels, RetLabels, ViaLabels, TgtLabels, RulStates
<1>1. CASE RdCnt(c, t) BY <1>1 DEF RdCnt
<1>2. CASE RdRul(c, t) BY <1>2 DEF RdRul
<1>3. CASE RdDispatch(c, t) BY <1>3 DEF RdDispatch, TargetOf
<1>4. CASE RdRecheck(c, t) BY <1>4 DEF RdRecheck
<1>5. CASE RdReset(c, t) BY <1>5 DEF RdReset
<1>6. CASE ResumeOk(c, t) BY <1>6 DEF ResumeOk
<1> HIDE DEF Typed, LeftMove
<1> QED BY Zenon, <1>1, <1>2, <1>3, <1>4, <1>5, <1>6

\* ... and the steps that start something.
LEMMA StartLeft ==
  ASSUME NEW c \in Cpus, NEW t \in Ctx, Typed(t),
         \/ (\E l \in Locks : LockStart(c, t, l))
         \/ (\E l \in Locks : Invalidate(c, t, l))
         \/ (\E n \in Ctx : PickOther(c, t, n))
         \/ (\E m \in Ctx : SwitchTo(c, t, m))
         \/ Preempt(c, t) \/ ResumeResched(c, t)
  PROVE  LeftMove(c, t)
<1> USE DEF Typed, TypeOK, LocalsOf, Locally, LeftMove, Leaving, At, Goto, lockVars, schedVars, locals,
            FlagLabels, RdLabels, RetLabels, ViaLabels, TgtLabels, RulStates
<1>1. CASE \E l \in Locks : LockStart(c, t, l) BY Zenon, <1>1 DEF LockStart
<1>2. CASE \E l \in Locks : Invalidate(c, t, l) BY Zenon, <1>2 DEF Invalidate
<1>3. CASE \E n \in Ctx : PickOther(c, t, n) BY <1>3 DEF PickOther
<1>4. CASE \E m \in Ctx : SwitchTo(c, t, m) BY Zenon, <1>4 DEF SwitchTo
<1>5. CASE Preempt(c, t) BY <1>5 DEF Preempt, Interruptible
<1>6. CASE ResumeResched(c, t) BY <1>6 DEF ResumeResched
<1> HIDE DEF Typed, LeftMove
<1> QED BY Zenon, <1>1, <1>2, <1>3, <1>4, <1>5, <1>6

\* A CPU that goes from t to n leaves t to handle_lock_holder_preemption().
LEMMA GoesLeft ==
  ASSUME TypeInv, SafeInv, LeftInv, NEW c \in Cpus, NEW t \in Ctx, NEW n \in Ctx, Goes(c, t, n),
         FreeFor(t, n), pc[t] \notin {"rd_recheck", "rd_reset"},
         home[n] # c => helper'[n] # n,
         \A u \in Ctx \ {t, n} : ret'[u] = ret[u] /\ helper'[u] = helper[u]
  PROVE  LeftInv'
<1>1. /\ cur[c] = t /\ prev[c] = None /\ n # t /\ \A d \in Cpus : Occupies(d, t) => d = c
      /\ \A d \in Cpus : ~Occupies(d, n)
      /\ UNCHANGED <<rul, home, lock_cnt>>
  BY Zenon, Here DEF Goes, FreeFor
<1>2. /\ cur'[c] = n /\ prev'[c] = t
      /\ \A d \in Cpus \ {c} : cur'[d] = cur[d] /\ prev'[d] = prev[d]
  BY Zenon DEF Goes, TypeInv, TypeOK
<1>3. LeftOf(t)' /\ HelperOf(t)'
  BY Zenon, <1>1, <1>2 DEF LeftOf, HelperOf, Occupies
<1>4. LeftOf(n)' /\ HelperOf(n)'
  <2>1. pc[n] \notin FlagLabels BY Zenon, <1>1, Idle DEF BusyLabels
  <2>2. \A u \in Ctx : tgt[u] = n => pc[u] \notin {"rd_recheck", "rd_reset"}
    BY Zenon DEF FreeFor, TakeLabels
  <2>3. LeftOf(n) BY Zenon DEF LeftInv
  <2>4. rul[n] # "Running" \/ lock_cnt[n] # 0 BY Zenon, <1>1, <2>1, <2>2, <2>3 DEF LeftOf, Occupies
  <2> QED BY Zenon, <1>1, <1>2, <2>4 DEF LeftOf, HelperOf, Occupies
<1>5. ASSUME NEW u \in Ctx \ {t, n} PROVE LeftOf(u)' /\ HelperOf(u)'
  <2>0. /\ LeftOf(u) /\ HelperOf(u) /\ pc'[u] = pc[u] /\ via'[u] = via[u] /\ ret'[u] = ret[u]
        /\ helper'[u] = helper[u] /\ u # None
    BY Zenon, ConstAssumption DEF LeftInv, Goes, Ctx
  <2>1. HelperOf(u)' BY <1>1, <1>2, <2>0 DEF HelperOf
  <2> SUFFICES ASSUME rul[u] = "Running", lock_cnt[u] = 0 PROVE LeftOf(u)'
    BY Zenon, <1>1, <2>1 DEF LeftOf
  <2>2. CASE pc[u] \in FlagLabels BY Zenon, <2>0, <2>2 DEF LeftOf
  <2>3. ASSUME NEW w \in Ctx, pc[w] \in {"rd_recheck", "rd_reset"}, tgt[w] = u PROVE LeftOf(u)'
    <3>1. w # t /\ w # n BY <1>1, <2>3, Idle DEF BusyLabels, RdLabels
    <3> QED BY Zenon, <2>3, <3>1 DEF LeftOf, Goes
  <2>4. CASE \E d \in Cpus : prev[d] = u BY Zenon, <1>1, <1>2, <2>0, <2>4 DEF LeftOf
  <2>5. CASE \E d \in Cpus : cur[d] = u /\ Leaving(u)
    <3>1. Leaving(u)' BY Zenon, <2>0, <2>5 DEF Leaving
    <3> QED BY <1>1, <1>2, <2>5, <3>1 DEF LeftOf
  <2> QED BY Zenon, <2>0, <2>2, <2>3, <2>4, <2>5 DEF LeftOf
<1> QED BY Zenon, <1>3, <1>4, <1>5 DEF LeftInv

\* A switch to the holder that is helped, or to a context at home here ...
LEMMA SwitchToLeft ==
  ASSUME TypeInv, SafeInv, LeftInv, NEW c \in Cpus, NEW t \in Ctx, Typed(t),
         HelpSwitch(c, t) \/ Switch(c, t)
  PROVE  LeftInv'
<1>0. tgt[t] \in Ctx BY Zenon DEF Typed, LocalsOf, TgtLabels, RdLabels, HelpSwitch, Switch, At
<1> PICK n \in Ctx : n = tgt[t] BY Zenon, <1>0
<1>1. /\ Exec(c, t) /\ pc[t] \in {"help_switch", "switch"}
      /\ FreeFor(t, n) /\ Goes(c, t, n) /\ (pc[t] = "switch" => home[n] = c)
  BY SwitchGoes
<1>2. /\ pc[t] = "help_switch" => helper'[n] = t
      /\ \A u \in Ctx \ {t, n} : ret'[u] = ret[u] /\ helper'[u] = helper[u]
  BY DEF HelpSwitch, Switch, Typed, TypeOK, locals, At
<1>3. n # t BY Zenon, <1>1 DEF FreeFor
<1> QED BY Zenon, <1>1, <1>2, <1>3, GoesLeft

\* ... or to the kernel context.
LEMMA KernelLeft ==
  ASSUME TypeInv, SafeInv, LeftInv, NEW c \in Cpus, NEW t \in Ctx,
         ScheduleForeign(c, t) \/ MigrateCurrent(c, t)
  PROVE  LeftInv'
<1>1. /\ c \in Ctx /\ home[c] = c /\ Exec(c, t) /\ pc[t] \in {"schedule"} \cup Interruptible
      /\ FreeFor(t, c) /\ Goes(c, t, c)
  BY Zenon, KernelGoes
<1>2. \A u \in Ctx \ {t, c} : ret'[u] = ret[u] /\ helper'[u] = helper[u]
  BY <1>1 DEF ScheduleForeign, MigrateCurrent, TypeInv, TypeOK, locals
<1> QED BY Zenon, <1>1, <1>2, GoesLeft DEF Interruptible

\* handle_lock_holder_preemption() takes the flag from the context that was switched away.
LEMMA SwitchInLeft ==
  ASSUME TypeInv, SafeInv, LeftInv, NEW c \in Cpus, SwitchIn(c) PROVE LeftInv'
<1>0. prev[c] \in Ctx BY Zenon DEF SwitchIn, TypeInv, TypeOK
<1> PICK m \in Ctx : m = prev[c] BY Zenon, <1>0
<1>1. /\ prev' = [prev EXCEPT ![c] = None] /\ rul' = [rul EXCEPT ![m] = Preempted(@)]
      /\ UNCHANGED <<cur, home, lock_cnt, helper, pc, tgt, via, ret>>
  BY Zenon DEF SwitchIn, locals
<1>2. /\ rul'[m] # "Running" /\ \A u \in Ctx \ {m} : rul'[u] = rul[u]
      /\ \A d \in Cpus \ {c} : prev'[d] = prev[d]
  BY Zenon, <1>1 DEF Preempted, TypeInv, TypeOK
<1>3. ASSUME NEW u \in Ctx \ {m} PROVE LeftOf(u)'
  <2>1. LeftOf(u) BY Zenon DEF LeftInv
  <2>2. Leaving(u) => Leaving(u)' BY Zenon, <1>1 DEF Leaving
  <2>3. (\E d \in Cpus : prev[d] = u) => \E d \in Cpus : prev'[d] = u BY Zenon, <1>2
  <2> QED BY Zenon, <1>1, <1>2, <2>1, <2>2, <2>3 DEF LeftOf
<1>4. LeftOf(m)' BY Zenon, <1>2 DEF LeftOf
<1>5. \A u \in Ctx : HelperOf(u)' BY Zenon, <1>1 DEF LeftInv, HelperOf
<1> QED BY Zenon, <1>3, <1>4, <1>5 DEF LeftInv

\* Migration moves the home of a context that is not on its home CPU.
LEMMA HomeLeft ==
  ASSUME TypeInv, SafeInv, LeftInv, NEW c \in Cpus, NEW d \in Cpus, NEW v \in Threads, home[v] = c,
         ~Occupies(c, v), home' = [home EXCEPT ![v] = d],
         UNCHANGED <<cur, prev, rul, lock_cnt, helper>>,
         \A u \in Ctx \ {c} : /\ pc'[u] = pc[u] /\ tgt'[u] = tgt[u] /\ via'[u] = via[u]
                              /\ ret'[u] = ret[u],
         \/ pc'[c] = pc[c] /\ tgt'[c] = tgt[c] /\ via'[c] = via[c] /\ ret'[c] = ret[c]
         \/ pc[c] = "migrate"
  PROVE  LeftInv'
<1>1. /\ v \in Ctx /\ c \in Ctx /\ home'[v] = d /\ \A u \in Ctx \ {v} : home'[u] = home[u]
  BY Zenon DEF Ctx, TypeInv, TypeOK
<1>2. ASSUME NEW u \in Ctx PROVE HelperOf(u)'
  <2>1. HelperOf(u) BY Zenon DEF LeftInv
  <2>2. CASE u = v BY Zenon, <1>1, <2>1, <2>2 DEF HelperOf, Occupies
  <2>3. CASE u # v BY Zenon, <1>1, <2>1, <2>3 DEF HelperOf
  <2> QED BY Zenon, <2>2, <2>3
<1>3. ASSUME NEW u \in Ctx PROVE LeftOf(u)'
  <2>1. LeftOf(u) BY Zenon DEF LeftInv
  <2>2. pc[u] \in FlagLabels => pc'[u] \in FlagLabels BY Zenon, <1>1 DEF FlagLabels
  <2>3. Leaving(u) => Leaving(u)' BY <1>1 DEF Leaving, RdLabels, RetLabels
  <2>4. \A w \in Ctx : pc[w] \in {"rd_recheck", "rd_reset"} => pc'[w] = pc[w] /\ tgt'[w] = tgt[w]
    BY Zenon, <1>1
  <2> QED BY <2>1, <2>2, <2>3, <2>4 DEF LeftOf
<1> QED BY Zenon, <1>2, <1>3 DEF LeftInv

\* do_migration_not_current() and handle_migration_helper()
LEMMA MigrateLeft ==
  ASSUME TypeInv, SafeInv, LeftInv, NEW c \in Cpus, NEW d \in Cpus,
         \/ MigrateHelper(c, d)
         \/ \E t \in Ctx, v \in Movable : MigrateOther(c, t, v, d)
  PROVE  LeftInv'
<1>1. c \in Ctx /\ TypeOK /\ SafeOf(c) BY Zenon DEF Ctx, TypeInv, SafeInv
<1>2. CASE MigrateHelper(c, d)
  <2> PICK v : v = tgt[c] OBVIOUS
  <2>1. /\ Exec(c, c) /\ pc[c] = "migrate" /\ home' = [home EXCEPT ![v] = d]
        /\ UNCHANGED <<cur, prev, rul, lock_cnt, helper>>
        /\ \A u \in Ctx \ {c} : /\ pc'[u] = pc[u] /\ tgt'[u] = tgt[u] /\ via'[u] = via[u]
                                /\ ret'[u] = ret[u]
    BY Zenon, <1>1, <1>2 DEF MigrateHelper, At, Goto, TypeOK
  <2>2. v \in Threads /\ home[v] = c BY Zenon, <1>1, <2>1 DEF SafeOf, TargetOf
  <2>3. ~Occupies(c, v) BY Zenon, <2>1, <2>2, ConstAssumption DEF Exec, Occupies
  <2> QED BY Zenon, <2>1, <2>2, <2>3, HomeLeft
<1>3. ASSUME NEW t \in Ctx, NEW v \in Movable, MigrateOther(c, t, v, d) PROVE LeftInv'
  <2>1. /\ Exec(c, t) /\ v # t /\ v \in Threads /\ home[v] = c
        /\ home' = [home EXCEPT ![v] = d]
        /\ UNCHANGED <<cur, prev, rul, lock_cnt, helper, pc, tgt, via, ret>>
    BY Zenon, <1>3, ConstAssumption DEF MigrateOther, locals
  <2>2. ~Occupies(c, v) BY Zenon, <2>1, ConstAssumption DEF Exec, Occupies
  <2> QED BY Zenon, <2>1, <2>2, HomeLeft
<1> QED BY Zenon, <1>2, <1>3

\* Initially no flag is set.
LEMMA LeftInit == ASSUME Init PROVE LeftInv
<1>1. /\ rul = [t \in Ctx |-> "Not_running"] /\ cur = [c \in Cpus |-> c]
      /\ \A c \in Cpus : home[c] = c
  BY Zenon DEF Init
<1> QED BY Zenon, <1>1 DEF LeftInv, LeftOf, HelperOf

\* Every step preserves LeftInv.
LEMMA LeftStep == ASSUME TypeInv, CountFacts, SafeInv, LeftInv, [Next]_vars PROVE LeftInv'
<1>1. CASE UNCHANGED vars
  <2>1. UNCHANGED <<cur, prev, home, lock_cnt, rul, helper, pc, tgt, via, ret>> BY Zenon, <1>1 DEF vars
  <2>2. ASSUME NEW n \in Ctx PROVE LeftOf(n)' /\ HelperOf(n)'
    <3>1. Leaving(n) <=> Leaving(n)' BY Zenon, <2>1 DEF Leaving
    <3> QED BY Zenon, <2>1, <3>1 DEF LeftInv, LeftOf, HelperOf
  <2> QED BY Zenon, <2>2 DEF LeftInv
<1>2. ASSUME NEW c \in Cpus, NEW t \in Ctx, Exec(c, t),
             \/ LockStep(c, t) \/ HelpStep(c, t) \/ ClearStep(c, t)
             \/ ScheduleStep(c, t) \/ SwitchStep(c, t) \/ StartStep(c, t)
      PROVE  LeftInv'
  <2>1. TypedStep(t)
    BY Zenon, <1>2, LockTypes, HelpTypes, ClearTypes, ScheduleTypes, SwitchTypes, StartTypes
  <2>2. Typed(t) BY Zenon, <2>1 DEF Typed, TypedStep, TypeInv, LocalsOK
  <2>3. lock_cnt[t] \in Nat /\ AwayOf(t) /\ TargetOf(t) /\ ClaimOf(t) /\ HelperOf(t)
    BY Zenon DEF CountFacts, SafeInv, SafeOf, LeftInv
  <2>4. CASE HelpSwitch(c, t) \/ Switch(c, t) BY Zenon, <2>2, <2>4, SwitchToLeft
  <2>5. CASE LockStep(c, t)
    BY Zenon, <2>2, <2>3, <2>5, LockLeft, LeftMoveSafe DEF LockStep
  <2>6. CASE HelpStep(c, t) /\ ~HelpSwitch(c, t)
    BY Zenon, <2>2, <2>3, <2>6, HelpLeft, LeftMoveSafe DEF HelpStep
  <2>7. CASE ClearStep(c, t)
    BY Zenon, <2>2, <2>3, <2>7, ClearLeft, LeftMoveSafe DEF ClearStep
  <2>8. CASE ScheduleStep(c, t)
    BY Zenon, <2>2, <2>8, ScheduleLeft, LeftMoveSafe DEF ScheduleStep
  <2>9. CASE SwitchStep(c, t) /\ ~Switch(c, t)
    BY Zenon, <2>2, <2>3, <2>9, SwitchLeft, LeftMoveSafe DEF SwitchStep
  <2>10. CASE StartStep(c, t)
    <3>1. LeftMove(c, t) BY Zenon, <2>2, <2>10, StartLeft DEF StartStep
    <3> QED BY Zenon, <3>1, LeftMoveSafe
  <2> QED BY Zenon, <1>2, <2>4, <2>5, <2>6, <2>7, <2>8, <2>9, <2>10
<1> QED BY Zenon, <1>1, <1>2, KernelLeft, SwitchInLeft, MigrateLeft DEF Next, Work, Sched, Environment

=============================================================================
