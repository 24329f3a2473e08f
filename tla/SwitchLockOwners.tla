-------------------------- MODULE SwitchLockOwners --------------------------
(***************************************************************************)
(* TLAPS proofs about the owner word and the lock count of SwitchLock.     *)
(***************************************************************************)
EXTENDS SwitchLockProofs, FiniteSetTheorems

(***************************************************************************)
(* What the code of a context knows about itself.  A kernel context        *)
(* (member of Cpus) takes no lock; a lock is released and counted by its   *)
(* owner; the count differs from the number of locks held only between the *)
(* store to one word and the store to the other; and a destroyer stays in  *)
(* the loop of wait_free() with the lock that it has invalidated.          *)
(***************************************************************************)
KernelCode(t) ==
  /\ pc[t] \in {"user"} \cup SchedLabels
  /\ pc[t] \in RetLabels => ret[t] = "user"
  /\ pc[t] \in ViaLabels => via[t] # "switch_dirty"

WaitFreeCode(t) ==
  /\ lk[t] \in Locks /\ invalid[lk[t]]
  /\ pc[t] \in {"load"} \cup HelpLabels \cup RetLabels
  /\ pc[t] \in RetLabels => ret[t] \in {"load", "help_failed"}
  /\ pc[t] \in ViaLabels => via[t] # "switch_dirty"

Uncounted(t) == IF pc[t] = "dec_cnt" THEN 1 ELSE IF pc[t] = "inc" THEN -1 ELSE 0

CodeOf(t) ==
  /\ t \in Cpus => KernelCode(t)
  /\ pc[t] \in {"clear_owner", "inc"} => owner[lk[t]] = t
  /\ lock_cnt[t] = Cardinality(Holds(t)) + Uncounted(t)
  /\ freeing[t] => WaitFreeCode(t)

OwnerInv ==
  \A l \in Locks : /\ owner[l] \in Threads \cup {None}
                   /\ freed[l] => invalid[l] /\ owner[l] = None

CodeInv == OwnerInv /\ \A t \in Ctx : CodeOf(t)

\* Initially nothing is locked.
LEMMA CodeInit == ASSUME Init PROVE CodeInv
<1>1. ASSUME NEW t \in Ctx PROVE Cardinality(Holds(t)) = 0
  <2>1. Holds(t) = {} BY Zenon, ConstAssumption DEF Init, Holds, Ctx
  <2> QED BY Zenon, <2>1, FS_EmptySet
<1>2. OwnerInv BY Zenon DEF Init, OwnerInv
<1>3. ASSUME NEW t \in Ctx PROVE CodeOf(t)
  <2>1. pc[t] = "user" /\ lock_cnt[t] = 0 /\ ~freeing[t] BY Zenon DEF Init
  <2> QED BY <1>1, <2>1 DEF CodeOf, KernelCode, Uncounted, RetLabels, ViaLabels, RdLabels
<1> QED BY Zenon, <1>2, <1>3 DEF CodeInv

\* A step of t that changes no lock, no count and no freeing, and whose new label has
\* what that label promises.
CalmStep(t) ==
  /\ Locally(t)
  /\ UNCHANGED <<owner, invalid, freed, lock_cnt, freeing>>
  /\ pc[t] \notin {"dec_cnt", "inc"} /\ pc'[t] \notin {"dec_cnt", "inc"}
  /\ pc'[t] = "clear_owner" => owner[lk'[t]] = t
  /\ t \in Cpus => KernelCode(t)'
  /\ freeing[t] => WaitFreeCode(t)'

\* Such a step preserves CodeInv.
LEMMA Calm == ASSUME CodeInv, NEW t \in Ctx, CalmStep(t) PROVE CodeInv'
<1>1. OwnerInv' BY Zenon DEF CodeInv, OwnerInv, CalmStep
<1>2. ASSUME NEW u \in Ctx PROVE CodeOf(u)'
  <2>1. CodeOf(u) /\ Holds(u)' = Holds(u) BY Zenon DEF CodeInv, CalmStep, Holds
  <2>2. CASE u = t BY Zenon, <2>1, <2>2 DEF CodeOf, CalmStep, Uncounted
  <2>3. CASE u # t
    <3>1. /\ pc'[u] = pc[u] /\ ret'[u] = ret[u] /\ via'[u] = via[u] /\ lk'[u] = lk[u]
          /\ UNCHANGED <<owner, invalid, lock_cnt, freeing>>
      BY Zenon, <2>3 DEF CalmStep, Locally
    <3> QED BY Zenon, <2>1, <3>1 DEF CodeOf, KernelCode, WaitFreeCode, Uncounted
  <2> QED BY Zenon, <2>2, <2>3
<1> QED BY Zenon, <1>1, <1>2 DEF CodeInv

\* What the code of t knows, as the following lemmas use it.
CodeFacts(t) ==
  /\ TypeOK /\ LocalsOf(t)
  /\ t \in Cpus => KernelCode(t) /\ t \notin Threads
  /\ freeing[t] => WaitFreeCode(t)

\* They hold.
LEMMA CodeFactsHold == ASSUME TypeInv, CodeInv, NEW t \in Ctx PROVE CodeFacts(t)
BY Zenon, ConstAssumption DEF TypeInv, LocalsOK, CodeInv, CodeOf, CodeFacts

\* The steps that are calm, group by group: lock() and wait_free() ...
LEMMA LockCalm ==
  ASSUME NEW c \in Cpus, NEW t \in Ctx, CodeFacts(t), Locally(t), LockStep(c, t),
         ~WaitFreeDone(c, t),
         ~CasOk(c, t),
         ~IncLockCnt(c, t)
  PROVE  CalmStep(t)
<1> USE DEF TypeOK, LocalsOf, KernelCode, WaitFreeCode, At, Exec, Goto, lockVars, schedVars, locals,
            SchedLabels, ClearLabels, HelpLabels, LockLabels, RetLabels, ViaLabels, TgtLabels,
            LkLabels, RdLabels, ReturnPoints
<1>1. CASE LoadInvalid(c, t) BY Zenon, <1>1 DEF LoadInvalid, CalmStep, CodeFacts
<1>2. CASE LoadFree(c, t) BY Zenon, <1>2 DEF LoadFree, CalmStep, CodeFacts
<1>3. CASE LoadOwned(c, t) BY <1>3 DEF LoadOwned, CalmStep, CodeFacts
<1>4. CASE Dispatch(c, t) BY Zenon, <1>4 DEF Dispatch, CalmStep, CodeFacts
<1>5. CASE CasFail(c, t) BY Zenon, <1>5 DEF CasFail, CalmStep, CodeFacts
<1>6. CASE CasReset(c, t) BY Zenon, <1>6 DEF CasReset, CalmStep, CodeFacts
<1> HIDE DEF TypeOK, LocalsOf, KernelCode, WaitFreeCode
<1> QED BY Zenon, <1>1, <1>2, <1>3, <1>4, <1>5, <1>6 DEF LockStep

\* ... help() ...
LEMMA HelpCalm ==
  ASSUME NEW c \in Cpus, NEW t \in Ctx, CodeFacts(t), Locally(t), HelpStep(c, t)
  PROVE  CalmStep(t)
<1> USE DEF TypeOK, LocalsOf, KernelCode, WaitFreeCode, At, Exec, Goto, lockVars, schedVars, locals,
            SchedLabels, ClearLabels, HelpLabels, LockLabels, RetLabels, ViaLabels, TgtLabels,
            LkLabels, RdLabels, ReturnPoints
<1>1. CASE TryToHelp(c, t) BY <1>1 DEF TryToHelp, CalmStep, CodeFacts
<1>2. CASE CannotHelp(c, t) BY <1>2 DEF CannotHelp, CalmStep, CodeFacts
<1>3. CASE CheckCnt(c, t) BY <1>3 DEF CheckCnt, CalmStep, CodeFacts
<1>4. CASE CheckLock(c, t) BY <1>4 DEF CheckLock, CalmStep, CodeFacts
<1>5. CASE NotHelping(c, t) BY <1>5 DEF NotHelping, CalmStep, CodeFacts
<1>6. CASE Help(c, t) BY <1>6 DEF Help, CalmStep, CodeFacts
<1>7. CASE HelpSwitch(c, t) BY <1>7 DEF HelpSwitch, CalmStep, CodeFacts
<1>8. CASE HelpFailed(c, t) BY <1>8 DEF HelpFailed, CalmStep, CodeFacts
<1>9. CASE HelpHome(c, t) BY <1>9 DEF HelpHome, CalmStep, CodeFacts
<1>10. CASE HelpAway(c, t) BY <1>10 DEF HelpAway, CalmStep, CodeFacts
<1> HIDE DEF TypeOK, LocalsOf, KernelCode, WaitFreeCode
<1> QED BY <1>1, <1>2, <1>3, <1>4, <1>5, <1>6, <1>7, <1>8, <1>9, <1>10 DEF HelpStep

\* ... clear() ...
LEMMA ClearCalm ==
  ASSUME NEW c \in Cpus, NEW t \in Ctx, CodeFacts(t), Locally(t), ClearStep(c, t),
         ~ClearOwner(c, t),
         ~DecLockCnt(c, t)
  PROVE  CalmStep(t)
<1> USE DEF TypeOK, LocalsOf, KernelCode, WaitFreeCode, At, Exec, Goto, lockVars, schedVars, locals,
            SchedLabels, ClearLabels, HelpLabels, LockLabels, RetLabels, ViaLabels, TgtLabels,
            LkLabels, RdLabels, ReturnPoints
<1>1. CASE \E l \in Locks : ClearStart(c, t, l) BY <1>1 DEF ClearStart, CalmStep, CodeFacts
<1>2. CASE CntReset(c, t) BY Zenon, <1>2 DEF CntReset, CalmStep, CodeFacts
<1>3. CASE SwitchDirty(c, t) BY Zenon, <1>3 DEF SwitchDirty, CalmStep, CodeFacts
<1>4. CASE NoSwitchDirty(c, t) BY Zenon, <1>4 DEF NoSwitchDirty, CalmStep, CodeFacts
<1>5. CASE DirtyBack(c, t) BY Zenon, <1>5 DEF DirtyBack, CalmStep, CodeFacts
<1>6. CASE LockSchedule(c, t) BY Zenon, <1>6 DEF LockSchedule, CalmStep, CodeFacts
<1>7. CASE Recheck(c, t) BY Zenon, <1>7 DEF Recheck, CalmStep, CodeFacts
<1> HIDE DEF TypeOK, LocalsOf, KernelCode, WaitFreeCode
<1> QED BY Zenon, <1>1, <1>2, <1>3, <1>4, <1>5, <1>6, <1>7 DEF ClearStep

\* ... schedule() ...
LEMMA ScheduleCalm ==
  ASSUME NEW c \in Cpus, NEW t \in Ctx, CodeFacts(t), Locally(t), ScheduleStep(c, t)
  PROVE  CalmStep(t)
<1> USE DEF TypeOK, LocalsOf, KernelCode, WaitFreeCode, At, Exec, Goto, lockVars, schedVars, locals,
            SchedLabels, ClearLabels, HelpLabels, LockLabels, RetLabels, ViaLabels, TgtLabels,
            LkLabels, RdLabels, ReturnPoints
<1>1. CASE ScheduleHome(c, t) BY Zenon, <1>1 DEF ScheduleHome, CalmStep, CodeFacts
<1>2. CASE PickSelf(c, t) BY <1>2 DEF PickSelf, CalmStep, CodeFacts
<1>3. CASE PickAgain(c, t) BY <1>3 DEF PickAgain, CalmStep, CodeFacts
<1>4. CASE PickMigrated(c, t) BY <1>4 DEF PickMigrated, CalmStep, CodeFacts
<1>5. CASE RdFail(c, t) BY <1>5 DEF RdFail, CalmStep, CodeFacts
<1>6. CASE PickFail(c, t) BY Zenon, <1>6 DEF PickFail, CalmStep, CodeFacts
<1> HIDE DEF TypeOK, LocalsOf, KernelCode, WaitFreeCode
<1> QED BY Zenon, <1>1, <1>2, <1>3, <1>4, <1>5, <1>6 DEF ScheduleStep

\* ... a context switch ...
LEMMA SwitchCalm ==
  ASSUME NEW c \in Cpus, NEW t \in Ctx, CodeFacts(t), Locally(t), SwitchStep(c, t)
  PROVE  CalmStep(t)
<1> USE DEF TypeOK, LocalsOf, KernelCode, WaitFreeCode, At, Exec, Goto, lockVars, schedVars, locals,
            SchedLabels, ClearLabels, HelpLabels, LockLabels, RetLabels, ViaLabels, TgtLabels,
            LkLabels, RdLabels, ReturnPoints
<1>1. CASE RdCnt(c, t) BY Zenon, <1>1 DEF RdCnt, CalmStep, CodeFacts
<1>2. CASE RdRul(c, t) BY Zenon, <1>2 DEF RdRul, CalmStep, CodeFacts
<1>3. CASE RdDispatch(c, t) BY Zenon, <1>3 DEF RdDispatch, CalmStep, CodeFacts
<1>4. CASE RdRecheck(c, t) BY Zenon, <1>4 DEF RdRecheck, CalmStep, CodeFacts
<1>5. CASE RdReset(c, t) BY Zenon, <1>5 DEF RdReset, CalmStep, CodeFacts
<1>6. CASE Switch(c, t) BY Zenon, <1>6 DEF Switch, CalmStep, CodeFacts
<1>7. CASE ResumeOk(c, t) BY <1>7 DEF ResumeOk, CalmStep, CodeFacts
<1> HIDE DEF TypeOK, LocalsOf, KernelCode, WaitFreeCode
<1> QED BY Zenon, <1>1, <1>2, <1>3, <1>4, <1>5, <1>6, <1>7 DEF SwitchStep

\* ... and the steps that start something.
LEMMA StartCalm ==
  ASSUME NEW c \in Cpus, NEW t \in Ctx, CodeFacts(t), Locally(t), StartStep(c, t),
         ~(\E l \in Locks : Invalidate(c, t, l))
  PROVE  CalmStep(t)
<1> USE DEF TypeOK, LocalsOf, KernelCode, WaitFreeCode, At, Exec, Goto, lockVars, schedVars, locals,
            SchedLabels, ClearLabels, HelpLabels, LockLabels, RetLabels, ViaLabels, TgtLabels,
            LkLabels, RdLabels, ReturnPoints
<1>1. CASE \E l \in Locks : LockStart(c, t, l) BY <1>1 DEF LockStart, CalmStep, CodeFacts
<1>2. CASE Preempt(c, t) BY <1>2 DEF Preempt, CalmStep, CodeFacts, Interruptible
<1>3. CASE \E n \in Ctx : PickOther(c, t, n) BY <1>3 DEF PickOther, CalmStep, CodeFacts
<1>4. CASE \E n \in Ctx : SwitchTo(c, t, n) BY <1>4 DEF SwitchTo, CalmStep, CodeFacts
<1>5. CASE ResumeResched(c, t) BY <1>5 DEF ResumeResched, CalmStep, CodeFacts
<1> HIDE DEF TypeOK, LocalsOf, KernelCode, WaitFreeCode
<1> QED BY <1>1, <1>2, <1>3, <1>4, <1>5 DEF StartStep


\* The locks a context holds are finitely many, and the owner words are a function on Locks.
LEMMA HoldsFinite ==
  ASSUME TypeOK, NEW t PROVE IsFiniteSet(Holds(t)) /\ Holds(t) = {l \in Locks : owner[l] = t}
<1>1. DOMAIN owner = Locks BY Zenon DEF TypeOK
<1> QED BY Zenon, <1>1, ConstAssumption, FS_Subset DEF Holds

\* The step of t concerns no other context: it changes neither the locks another one holds
\* nor its count.
CountStep(t) ==
  /\ Locally(t)
  /\ \A u \in Ctx \ {t} : lock_cnt'[u] = lock_cnt[u] /\ freeing'[u] = freeing[u]
  /\ \A l \in Locks : owner'[l] # owner[l] => owner[l] \in {t, None} /\ owner'[l] \in {t, None}
  /\ \A l \in Locks : invalid[l] => invalid'[l]

\* Then only t itself has to be looked at.
LEMMA CountOf ==
  ASSUME TypeInv, TypeOK', CodeInv, NEW t \in Ctx, CountStep(t), OwnerInv', CodeOf(t)'
  PROVE  CodeInv'
<1>1. ASSUME NEW u \in Ctx, u # t PROVE CodeOf(u)'
  <2>1. CodeOf(u) /\ LocalsOf(u) /\ TypeOK BY Zenon DEF CodeInv, TypeInv, LocalsOK
  <2>2. u # None BY Zenon, ConstAssumption DEF Ctx
  <2>3. \A l \in Locks : owner'[l] = u <=> owner[l] = u BY Zenon, <1>1, <2>2 DEF CountStep
  <2>4. Holds(u)' = Holds(u)
    <3>1. DOMAIN owner = Locks /\ DOMAIN owner' = Locks BY Zenon, <2>1 DEF TypeOK
    <3> QED BY Zenon, <2>3, <3>1 DEF Holds
  <2>5. /\ pc'[u] = pc[u] /\ ret'[u] = ret[u] /\ via'[u] = via[u] /\ lk'[u] = lk[u]
        /\ lock_cnt'[u] = lock_cnt[u] /\ freeing'[u] = freeing[u]
    BY Zenon, <1>1 DEF CountStep, Locally
  <2>6. pc[u] \in {"clear_owner", "inc"} => owner'[lk[u]] = u
    BY Zenon, <2>1, <2>3 DEF CodeOf, LocalsOf, LkLabels, LockLabels
  <2>7. WaitFreeCode(u) => WaitFreeCode(u)' BY Zenon, <2>5 DEF WaitFreeCode, CountStep
  <2>8. KernelCode(u) => KernelCode(u)' BY Zenon, <2>5 DEF KernelCode
  <2> QED BY Zenon, <2>1, <2>4, <2>5, <2>6, <2>7, <2>8 DEF CodeOf, Uncounted
<1> QED BY Zenon, <1>1 DEF CodeInv

\* What the following lemmas know about t.
LEMMA OwnFacts ==
  ASSUME TypeInv, CodeInv, NEW t \in Ctx
  PROVE  /\ OwnerInv /\ CodeOf(t) /\ LocalsOf(t) /\ TypeOK
         /\ IsFiniteSet(Holds(t)) /\ Cardinality(Holds(t)) \in Nat
         /\ pc[t] \notin {"user"} \cup SchedLabels => t \in Threads
         /\ t # None
<1>1. OwnerInv /\ CodeOf(t) /\ LocalsOf(t) /\ TypeOK BY Zenon DEF CodeInv, TypeInv, LocalsOK
<1>2. IsFiniteSet(Holds(t)) BY Zenon, <1>1, HoldsFinite
<1> QED BY Zenon, <1>1, <1>2, FS_CardinalityType, ConstAssumption DEF CodeOf, KernelCode, Ctx

\* lock() takes the lock: one more lock, still to be counted.
LEMMA CasOkCode ==
  ASSUME TypeInv, CodeInv, NEW c \in Cpus, NEW t \in Ctx, CasOk(c, t), TypedStep(t) PROVE CodeInv'
<1> DEFINE l == lk[t]
<1>0. /\ OwnerInv /\ CodeOf(t) /\ LocalsOf(t) /\ TypeOK /\ IsFiniteSet(Holds(t)) /\ t # None
      /\ pc[t] \notin {"user"} \cup SchedLabels => t \in Threads
  BY Zenon, OwnFacts
<1>1. /\ pc[t] = "cas" /\ owner[l] = None /\ ~invalid[l] /\ owner' = [owner EXCEPT ![l] = t]
      /\ pc'[t] = "inc" /\ lk' = lk /\ UNCHANGED <<invalid, freed, lock_cnt, freeing>>
  BY Zenon, <1>0 DEF CasOk, At, Exec, Goto, TypeOK
<1>2. l \in Locks /\ t \in Threads
  BY Zenon, <1>0, <1>1 DEF LocalsOf, LkLabels, LockLabels, SchedLabels
<1>3. ~freeing[t]
  BY Zenon, <1>0, <1>1 DEF CodeOf, WaitFreeCode, HelpLabels, RetLabels, RdLabels
<1>4. Holds(t)' = Holds(t) \cup {l} /\ l \notin Holds(t)
  BY <1>0, <1>1, <1>2 DEF TypeOK, Holds
<1>5. Cardinality(Holds(t)') = Cardinality(Holds(t)) + 1
  BY <1>0, <1>4, FS_AddElement, Zenon
<1>6. OwnerInv' BY <1>0, <1>1, <1>2 DEF OwnerInv, TypeOK
<1>7. CodeOf(t)'
  <2>1. t \notin Cpus BY Zenon, <1>2, ConstAssumption
  <2>2. owner'[l] = t BY Zenon, <1>0, <1>1, <1>2 DEF TypeOK
  <2>3. lock_cnt[t] = Cardinality(Holds(t)) BY <1>0, <1>1, OwnFacts DEF CodeOf, Uncounted
  <2>4. lock_cnt'[t] = Cardinality(Holds(t)') + (-1) BY <1>1, <1>5, <2>3, OwnFacts
  <2> QED BY Zenon, <1>1, <1>3, <2>1, <2>2, <2>4 DEF CodeOf, Uncounted
<1>8. CountStep(t) BY Zenon, <1>0, <1>1, <1>2 DEF TypedStep, CountStep, TypeOK
<1> QED BY Zenon, <1>6, <1>7, <1>8, CountOf DEF TypedStep

\* clear() gives it back: one lock less, still counted.
LEMMA ClearOwnerCode ==
  ASSUME TypeInv, CodeInv, NEW c \in Cpus, NEW t \in Ctx, ClearOwner(c, t), TypedStep(t)
  PROVE  CodeInv'
<1> DEFINE l == lk[t]
<1>0. /\ OwnerInv /\ CodeOf(t) /\ LocalsOf(t) /\ TypeOK /\ IsFiniteSet(Holds(t)) /\ t # None
      /\ pc[t] \notin {"user"} \cup SchedLabels => t \in Threads
      /\ Cardinality(Holds(t)) \in Nat
  BY Zenon, OwnFacts
<1>1. /\ pc[t] = "clear_owner" /\ owner' = [owner EXCEPT ![l] = None]
      /\ pc'[t] = "dec_cnt" /\ UNCHANGED <<invalid, freed, lock_cnt, freeing>>
  BY Zenon, <1>0 DEF ClearOwner, At, Exec, Goto, TypeOK
<1>2. l \in Locks /\ t \in Threads
  BY Zenon, <1>0, <1>1 DEF LocalsOf, LkLabels, SchedLabels
<1>3. ~freeing[t] /\ owner[l] = t
  BY Zenon, <1>0, <1>1 DEF CodeOf, WaitFreeCode, HelpLabels, RetLabels, RdLabels
<1>4. Holds(t)' = Holds(t) \ {l} /\ l \in Holds(t)
  BY Zenon, <1>0, <1>1, <1>2, <1>3 DEF TypeOK, Holds
<1>5. Cardinality(Holds(t)') = Cardinality(Holds(t)) - 1
  BY <1>0, <1>4, FS_RemoveElement, Zenon
<1>6. OwnerInv' BY Zenon, <1>0, <1>1, <1>2 DEF OwnerInv, TypeOK
<1>7. CodeOf(t)'
  <2>1. t \notin Cpus BY Zenon, <1>2, ConstAssumption
  <2>2. lock_cnt'[t] = Cardinality(Holds(t)) + 0 BY Zenon, <1>0, <1>1 DEF CodeOf, Uncounted
  <2>3. Cardinality(Holds(t)) \in Nat BY Zenon, <1>0
  <2>4. lock_cnt'[t] = Cardinality(Holds(t)') + 1 BY <1>5, <2>2, <2>3
  <2> QED BY Zenon, <1>1, <1>3, <2>1, <2>4 DEF CodeOf, Uncounted
<1>8. CountStep(t) BY Zenon, <1>0, <1>1, <1>2, <1>3 DEF TypedStep, CountStep, TypeOK
<1> QED BY Zenon, <1>6, <1>7, <1>8, CountOf DEF TypedStep

\* The stores to the count, once the owner word is written.
LEMMA CountCode ==
  ASSUME TypeInv, CodeInv, NEW c \in Cpus, NEW t \in Ctx, TypedStep(t),
         IncLockCnt(c, t) \/ DecLockCnt(c, t)
  PROVE  CodeInv'
<1>0. /\ OwnerInv /\ CodeOf(t) /\ TypeOK /\ Cardinality(Holds(t)) \in Nat
      /\ pc[t] \notin {"user"} \cup SchedLabels => t \in Threads
  BY Zenon, OwnFacts
<1>1. UNCHANGED <<owner, invalid, freed, freeing>>
  BY Zenon DEF IncLockCnt, DecLockCnt, lockVars
<1>2. /\ pc[t] \in {"inc", "dec_cnt"}
      /\ lock_cnt' = [lock_cnt EXCEPT ![t] = IF pc[t] = "inc" THEN @ + 1 ELSE @ - 1]
      /\ pc'[t] \in {"user", "cnt_reset", "switch_dirty"}
  BY <1>0 DEF IncLockCnt, DecLockCnt, At, Exec, Goto, TypeOK
<1>3. t \in Threads /\ t \notin Cpus
  BY Zenon, <1>0, <1>2, ConstAssumption DEF SchedLabels
<1>4. ~freeing[t]
  BY Zenon, <1>0, <1>2 DEF CodeOf, WaitFreeCode, HelpLabels, RetLabels, RdLabels
<1>5. OwnerInv' BY Zenon, <1>0, <1>1 DEF OwnerInv
<1>6. CodeOf(t)'
  <2>1. Holds(t)' = Holds(t) BY Zenon, <1>1 DEF Holds
  <2>2. lock_cnt'[t] = Cardinality(Holds(t))
    <3>1. lock_cnt[t] = Cardinality(Holds(t)) + IF pc[t] = "inc" THEN -1 ELSE 1
      BY Zenon, <1>0, <1>2 DEF CodeOf, Uncounted
    <3>2. lock_cnt'[t] = IF pc[t] = "inc" THEN lock_cnt[t] + 1 ELSE lock_cnt[t] - 1
      BY Zenon, <1>0, <1>2 DEF TypeOK
    <3>3. Cardinality(Holds(t)) \in Nat BY Zenon, <1>0
    <3> QED BY <3>1, <3>2, <3>3
  <2> QED BY <1>1, <1>2, <1>3, <1>4, <2>1, <2>2, <1>0 DEF CodeOf, Uncounted
<1>7. CountStep(t) BY Zenon, <1>0, <1>1, <1>2 DEF TypedStep, CountStep, TypeOK
<1> QED BY Zenon, <1>5, <1>6, <1>7, CountOf DEF TypedStep

\* A destroyer invalidates the lock, and leaves when it is free.
LEMMA FreeCode ==
  ASSUME TypeInv, CodeInv, NEW c \in Cpus, NEW t \in Ctx, TypedStep(t),
         WaitFreeDone(c, t) \/ \E l \in Locks : Invalidate(c, t, l)
  PROVE  CodeInv'
<1>0. /\ OwnerInv /\ CodeOf(t) /\ TypeOK /\ LocalsOf(t) /\ Cardinality(Holds(t)) \in Nat
      /\ pc[t] \notin {"user"} \cup SchedLabels => t \in Threads
  BY Zenon, OwnFacts
<1>1. UNCHANGED <<owner, lock_cnt>>
  BY Zenon DEF WaitFreeDone, Invalidate
<1>2. /\ pc[t] \notin {"inc", "dec_cnt"} /\ pc'[t] \in {"user", "load"} /\ t \in Threads
      /\ \A u \in Ctx \ {t} : freeing'[u] = freeing[u]
      /\ freeing'[t] => lk'[t] \in Locks /\ invalid'[lk'[t]] /\ pc'[t] = "load"
      /\ \A l \in Locks : invalid[l] => invalid'[l]
  <2>1. CASE WaitFreeDone(c, t)
    <3>1. pc[t] = "load" /\ pc'[t] = "user" /\ invalid' = invalid
      BY Zenon, <1>0, <2>1 DEF WaitFreeDone, At, Goto, TypeOK
    <3>2. ~freeing'[t] /\ \A u \in Ctx \ {t} : freeing'[u] = freeing[u]
      BY <1>0, <2>1 DEF WaitFreeDone, TypeOK
    <3> QED BY Zenon, <1>0, <3>1, <3>2 DEF SchedLabels
  <2>2. ASSUME NEW l \in Locks, Invalidate(c, t, l)
        PROVE  /\ pc[t] = "user" /\ pc'[t] = "load" /\ t \in Threads /\ lk'[t] = l /\ invalid'[l]
               /\ \A u \in Ctx \ {t} : freeing'[u] = freeing[u]
               /\ \A k \in Locks : invalid[k] => invalid'[k]
    BY <1>0, <2>2 DEF Invalidate, At, Goto, TypeOK
  <2> QED BY Zenon, <2>1, <2>2
<1>3. OwnerInv'
  <2>1. CASE WaitFreeDone(c, t)
    <3>1. lk[t] \in Locks /\ invalid[lk[t]] /\ owner[lk[t]] = None
      BY Zenon, <1>0, <2>1 DEF WaitFreeDone, CodeOf, WaitFreeCode
    <3> QED BY Zenon, <1>0, <2>1, <3>1 DEF WaitFreeDone, OwnerInv, TypeOK
  <2>2. CASE \E l \in Locks : Invalidate(c, t, l)
    BY <1>0, <2>2 DEF Invalidate, OwnerInv, TypeOK
  <2> QED BY Zenon, <2>1, <2>2
<1>4. CodeOf(t)'
  <2>1. Holds(t)' = Holds(t) BY Zenon, <1>1 DEF Holds
  <2>2. t \notin Cpus BY Zenon, <1>2, ConstAssumption
  <2>3. lock_cnt[t] = Cardinality(Holds(t)) BY <1>0, <1>2 DEF CodeOf, Uncounted
  <2>4. freeing'[t] => WaitFreeCode(t)'
    BY Zenon, <1>2 DEF WaitFreeCode, RetLabels, ViaLabels, RdLabels
  <2> QED BY Zenon, <1>0, <1>1, <1>2, <2>1, <2>2, <2>3, <2>4 DEF CodeOf, Uncounted
<1>5. CountStep(t) BY Zenon, <1>0, <1>1, <1>2 DEF TypedStep, CountStep
<1> QED BY Zenon, <1>3, <1>4, <1>5, CountOf DEF TypedStep

\* The kernel context takes no lock, so whoever sets it going finds it outside the lock code.
LEMMA KernelFacts ==
  ASSUME TypeInv, CodeInv, NEW c \in Cpus
  PROVE  c \in Ctx /\ KernelCode(c) /\ ~freeing[c] /\ CodeOf(c) /\ TypeOK
<1>1. c \in Ctx /\ CodeOf(c) /\ KernelCode(c) /\ TypeOK BY Zenon DEF Ctx, CodeInv, CodeOf, TypeInv
<1>2. ~freeing[c]
  BY Zenon, <1>1 DEF CodeOf, KernelCode, WaitFreeCode, SchedLabels, HelpLabels, RetLabels, RdLabels
<1> QED BY Zenon, <1>1, <1>2

\* Migration sets the kernel context of the home CPU going.
LEMMA MigrateCode ==
  ASSUME TypeInv, CodeInv, NEW c \in Cpus, TypedStep(c),
         \/ \E d \in Cpus : MigrateHelper(c, d)
         \/ \E t \in Ctx : MigrateCurrent(c, t)
  PROVE  CodeInv'
<1>1. c \in Ctx /\ KernelCode(c) /\ ~freeing[c] /\ CodeOf(c) /\ TypeOK BY Zenon, KernelFacts
<1>2. /\ UNCHANGED <<owner, invalid, freed, lock_cnt, freeing>>
      /\ \/ pc'[c] = "pick" /\ ret'[c] = "user"
         \/ pc'[c] = "migrate"
  BY <1>1 DEF MigrateHelper, MigrateCurrent, lockVars, Goto, TypeOK
<1>3. pc[c] \notin {"dec_cnt", "inc"} BY Zenon, <1>1 DEF KernelCode, SchedLabels
<1>4. KernelCode(c)' BY Zenon, <1>2 DEF KernelCode, SchedLabels, RetLabels, ViaLabels, RdLabels
<1>5. CalmStep(c) BY Zenon, <1>1, <1>2, <1>3, <1>4 DEF CalmStep, TypedStep
<1> QED BY Zenon, <1>1, <1>5, Calm

\* A context that leaves a foreign CPU does the same there.
LEMMA ScheduleForeignCode ==
  ASSUME TypeInv, CodeInv, NEW c \in Cpus, NEW t \in Ctx, ScheduleForeign(c, t) PROVE CodeInv'
<1>1. c \in Ctx /\ KernelCode(c) /\ ~freeing[c] /\ CodeOf(c) /\ TypeOK BY Zenon, KernelFacts
<1>2. /\ UNCHANGED <<owner, invalid, freed, lock_cnt, freeing, lk>>
      /\ pc[t] = "schedule"
      /\ pc' = [pc EXCEPT ![t] = "resumed", ![c] = "pick"]
      /\ via' = [via EXCEPT ![t] = "schedule", ![c] = None]
      /\ ret' = [ret EXCEPT ![c] = "user"]
  BY Zenon DEF ScheduleForeign, lockVars, At
<1>3. OwnerInv' BY Zenon, <1>2 DEF CodeInv, OwnerInv
<1>4. ASSUME NEW u \in Ctx PROVE CodeOf(u)'
  <2>1. CodeOf(u) /\ Holds(u)' = Holds(u) BY Zenon, <1>2 DEF CodeInv, Holds
  <2>2. CASE u = c
    <3>1. pc'[c] = "pick" /\ ret'[c] = "user" BY Zenon, <1>1, <1>2 DEF TypeOK
    <3>2. KernelCode(c)' BY Zenon, <3>1 DEF KernelCode, SchedLabels, ViaLabels, RdLabels
    <3>3. pc[c] \notin {"dec_cnt", "inc"} BY Zenon, <1>1 DEF KernelCode, SchedLabels
    <3> QED BY Zenon, <1>1, <1>2, <2>1, <2>2, <3>1, <3>2, <3>3 DEF CodeOf, Uncounted
  <2>3. CASE u # c /\ u = t
    <3>1. pc'[t] = "resumed" /\ via'[t] = "schedule" /\ ret'[t] = ret[t]
      BY Zenon, <1>1, <1>2, <2>3 DEF TypeOK
    <3>2. KernelCode(t) => KernelCode(t)'
      BY Zenon, <1>2, <3>1 DEF KernelCode, SchedLabels, RetLabels
    <3>3. WaitFreeCode(t) => WaitFreeCode(t)' BY Zenon, <1>2, <3>1 DEF WaitFreeCode, RetLabels
    <3> QED BY Zenon, <1>2, <2>1, <2>3, <3>1, <3>2, <3>3 DEF CodeOf, Uncounted
  <2>4. CASE u # c /\ u # t
    <3>1. pc'[u] = pc[u] /\ via'[u] = via[u] /\ ret'[u] = ret[u]
      BY Zenon, <1>1, <1>2, <2>4 DEF TypeOK
    <3> QED BY Zenon, <1>2, <2>1, <3>1 DEF CodeOf, Uncounted, KernelCode, WaitFreeCode
  <2> QED BY Zenon, <2>2, <2>3, <2>4
<1> QED BY Zenon, <1>3, <1>4 DEF CodeInv

\* A step of a context of its own.
LEMMA StepCode ==
  ASSUME TypeInv, CodeInv, NEW c \in Cpus, NEW t \in Ctx, TypedStep(t),
         \/ LockStep(c, t) \/ HelpStep(c, t) \/ ClearStep(c, t)
         \/ ScheduleStep(c, t) \/ SwitchStep(c, t) \/ StartStep(c, t)
  PROVE  CodeInv'
<1>1. CodeFacts(t) /\ Locally(t) BY Zenon, CodeFactsHold DEF TypedStep
<1>2. CASE CasOk(c, t) BY Zenon, <1>2, CasOkCode
<1>3. CASE ClearOwner(c, t) BY Zenon, <1>3, ClearOwnerCode
<1>4. CASE IncLockCnt(c, t) \/ DecLockCnt(c, t) BY Zenon, <1>4, CountCode
<1>5. CASE WaitFreeDone(c, t) \/ \E l \in Locks : Invalidate(c, t, l) BY Zenon, <1>5, FreeCode
<1>6. ASSUME ~CasOk(c, t), ~ClearOwner(c, t), ~IncLockCnt(c, t), ~DecLockCnt(c, t),
             ~WaitFreeDone(c, t), ~\E l \in Locks : Invalidate(c, t, l)
      PROVE  CalmStep(t)
  BY Zenon, <1>1, <1>6, LockCalm, HelpCalm, ClearCalm, ScheduleCalm, SwitchCalm, StartCalm
<1> QED BY Zenon, <1>2, <1>3, <1>4, <1>5, <1>6, Calm

\* Every step preserves CodeInv.
LEMMA CodeStep == ASSUME TypeInv, CodeInv, [Next]_vars PROVE CodeInv'
<1>1. CASE UNCHANGED vars
  BY <1>1 DEF vars, CodeInv, OwnerInv, CodeOf, KernelCode, WaitFreeCode, Uncounted, Holds
<1>2. ASSUME NEW c \in Cpus, NEW t \in Ctx,
             \/ LockStep(c, t) \/ HelpStep(c, t) \/ ClearStep(c, t)
             \/ ScheduleStep(c, t) \/ SwitchStep(c, t) \/ StartStep(c, t)
      PROVE  CodeInv'
  <2>1. TypedStep(t)
    BY Zenon, <1>2, LockTypes, HelpTypes, ClearTypes, ScheduleTypes, SwitchTypes, StartTypes
  <2> QED BY Zenon, <1>2, <2>1, StepCode
<1>3. ASSUME NEW c \in Cpus, \/ \E d \in Cpus : MigrateHelper(c, d)
                             \/ \E t \in Ctx : MigrateCurrent(c, t)
      PROVE  CodeInv'
  BY Zenon, <1>3, MigrateTypes, MigrateCode
<1>4. ASSUME NEW c \in Cpus, \/ SwitchIn(c)
                             \/ \E t \in Ctx, v \in Movable, d \in Cpus : MigrateOther(c, t, v, d)
      PROVE  CodeInv'
  <2>1. UNCHANGED <<owner, invalid, freed, lock_cnt, freeing, pc, ret, via, lk>>
    BY Zenon, <1>4 DEF SwitchIn, MigrateOther, lockVars, locals
  <2> QED BY <2>1 DEF CodeInv, OwnerInv, CodeOf, KernelCode, WaitFreeCode, Uncounted, Holds
<1> QED BY Zenon, <1>1, <1>2, <1>3, <1>4, ScheduleForeignCode DEF Next, Work, Sched, Environment

\* Outside the code of lock() and clear() the lock count of a context is the number of
\* locks it owns, and a lock whose destroyer has left wait_free() is never owned again.
THEOREM OwnersAreExact == Spec => []OwnersExact
<1> DEFINE Inv == TypeInv /\ CodeInv
<1>1. Init => Inv BY Zenon, ConstAssumption, TypeInit, CodeInit
<1>2. Inv /\ [Next]_vars => Inv' BY Zenon, TypeStep, CodeStep
<1>3. Inv => OwnersExact
  <2> SUFFICES ASSUME TypeInv, CodeInv PROVE OwnersExact OBVIOUS
  <2>1. DOMAIN pc = Ctx /\ DOMAIN owner = Locks BY Zenon DEF TypeInv, TypeOK
  <2>2. ASSUME NEW t \in Ctx, pc[t] = "user" PROVE lock_cnt[t] = Cardinality(Holds(t))
    <3>1. lock_cnt[t] = Cardinality(Holds(t)) + 0 BY Zenon, <2>2 DEF CodeInv, CodeOf, Uncounted
    <3> QED BY <3>1, OwnFacts
  <2> QED BY Zenon, <2>1, <2>2 DEF OwnersExact, CodeInv, OwnerInv
<1> QED BY <1>1, <1>2, <1>3, PTL DEF Spec

====
