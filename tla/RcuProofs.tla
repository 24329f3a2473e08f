------------------------------ MODULE RcuProofs ------------------------------
(***************************************************************************)
(* Proof that RCU keeps its promise for any number of CPUs and items:      *)
(* Spec => []GracePeriod.                                                  *)
(*                                                                         *)
(* GracePeriod speaks of callbacks that have run; the inductive invariant  *)
(* follows an item from Rcu::call() to its callback.  The heart is         *)
(* WaitInv: as long as some CPU may still use an item, the batch of the    *)
(* item is not completed, because either it has not started or it waits    *)
(* for that CPU.                                                           *)
(***************************************************************************)
EXTENDS Rcu, TLAPS

\* the lock of the global data excludes
LockInv == \A p \in Cpus : pc[p] \in Locked => lock = p

\* between the decision to start a batch and the increment the last one is complete
StartInv ==
  /\ completed <= current
  /\ \A p \in Cpus : pc[p] \in {"sb_clear", "sb_inc"} => completed = current

\* on its way to sleep, or asleep: no longer an active CPU
Sleeping(p) ==
  \/ pc[p] \in {"ei_quiet", "ei_assert", "sleep", "li_lock"}
  \/ pc[p] \in {"sb_clear", "sb_inc", "sb_cpus"} /\ ret[p] = "ei_assert"

\* a reading CPU is outside the RCU code, and every other CPU is active
ActiveInv ==
  \A p \in Cpus : (rd[p] => pc[p] = "run") /\ (~Sleeping(p) => p \in active)

\* a CPU that may use an item is still in its read section
RefInv == \A i \in Items : \A p \in ref[i] : rd[p]

\* the batch of an item in use waits for the user of the item
WaitInv ==
  \A q \in Cpus : \A i \in c[q] : \A p \in ref[i] :
    /\ completed < batch[q] /\ current <= batch[q]
    /\ current = batch[q] => p \in cpus \/ \E s \in Cpus : pc[s] = "sb_cpus"

\* an item whose grace period is over has no user
DoneInv == \A q \in Cpus : \A i \in d[q] : ref[i] = {}

RcuInv ==
  /\ TypeOK /\ LockInv /\ StartInv /\ ActiveInv
  /\ RefInv /\ WaitInv /\ DoneInv /\ GracePeriod

LEMMA InitInv == Init => RcuInv
<1> SUFFICES ASSUME Init PROVE RcuInv
  OBVIOUS
<1>1. TypeOK
  <2>1. -300 \in Int
    OBVIOUS
  <2>2. q_passed \in [Cpus -> BOOLEAN] /\ pending \in [Cpus -> BOOLEAN] /\ rd \in [Cpus -> BOOLEAN]
    BY Zenon DEF Init
  <2>3. q_batch \in [Cpus -> Int] /\ batch \in [Cpus -> Int]
    BY <2>1, Zenon DEF Init
  <2> QED BY Zenon, <2>1, <2>2, <2>3 DEF Init, TypeOK, Labels
<1>2. LockInv /\ StartInv /\ ActiveInv
  BY DEF Init, LockInv, StartInv, ActiveInv, Sleeping, Locked
<1>3. RefInv /\ WaitInv /\ DoneInv /\ GracePeriod
  BY Zenon DEF Init, RefInv, WaitInv, DoneInv, GracePeriod
<1> QED BY Zenon, <1>1, <1>2, <1>3 DEF RcuInv

\* CpuQuiet, the body of QQuiet and EiQuiet, preserves the invariant when the
\* CPU holds the lock.
LEMMA CpuQuietInv ==
  ASSUME RcuInv, NEW p \in Cpus, NEW l \in {"q_quiet", "ei_quiet"}, pc[p] = l,
         CpuQuiet(p, IF l = "q_quiet" THEN "batch" ELSE "ei_assert")
  PROVE  RcuInv'
<1>1. TypeOK'
  BY DEF RcuInv, TypeOK, CpuQuiet, StartBatch, Goto, Locked, Labels, qs, lists, ghost
<1>2. LockInv'
  BY RcuAssumption DEF RcuInv, TypeOK, LockInv, CpuQuiet, StartBatch, Goto, Locked
<1>3. StartInv'
  BY DEF RcuInv, TypeOK, LockInv, StartInv, CpuQuiet, StartBatch, Goto, Locked
<1>4. ActiveInv'
  BY DEF RcuInv, TypeOK, ActiveInv, Sleeping, CpuQuiet, StartBatch, Goto, Locked, ghost
<1>5. WaitInv'
  <2> SUFFICES ASSUME NEW q \in Cpus, NEW i \in c[q], NEW r \in ref[i]
               PROVE  /\ completed' < batch[q] /\ current <= batch[q]
                      /\ current = batch[q] => r \in cpus' \/ \E s \in Cpus : pc'[s] = "sb_cpus"
    BY Zenon DEF WaitInv, CpuQuiet, lists, ghost
  <2>1. r # p
    BY Zenon DEF RcuInv, TypeOK, RefInv, ActiveInv
  <2>2. \A s \in Cpus : pc[s] # "sb_cpus"
    BY Zenon DEF RcuInv, TypeOK, LockInv, Locked
  <2>3. completed < batch[q] /\ current <= batch[q] /\ (current = batch[q] => r \in cpus)
    BY Zenon, <2>2 DEF RcuInv, WaitInv
  <2>4. current = batch[q] => r \in cpus'
    BY Zenon, <2>1, <2>3 DEF CpuQuiet
  <2>5. completed' < batch[q]
    BY <2>3, <2>4 DEF CpuQuiet, RcuInv, TypeOK
  <2> QED BY Zenon, <2>3, <2>4, <2>5
<1>6. RefInv' /\ DoneInv' /\ GracePeriod'
  BY Zenon DEF RcuInv, RefInv, DoneInv, GracePeriod, CpuQuiet, lists, ghost
<1> QED BY Zenon, <1>1, <1>2, <1>3, <1>4, <1>5, <1>6 DEF RcuInv

\* the users of RCU
LEMMA UsersInv ==
  ASSUME RcuInv, NEW p \in Cpus,
         ReadLock(p) \/ ReadUnlock(p) \/ (\E i \in Items : Call(p, i))
  PROVE  RcuInv'
<1>1. CASE ReadLock(p)
  <2>1. TypeOK'
    BY Zenon, <1>1 DEF RcuInv, TypeOK, ReadLock, glbl, qs, lists
  <2>2. LockInv' /\ StartInv'
    BY Zenon, <1>1 DEF RcuInv, LockInv, StartInv, ReadLock, glbl
  <2>3. ActiveInv'
    BY Zenon, <1>1 DEF RcuInv, TypeOK, ActiveInv, Sleeping, ReadLock, glbl
  <2>4. RefInv'
    BY Zenon, <1>1 DEF RcuInv, TypeOK, RefInv, ReadLock
  <2>5. WaitInv' /\ DoneInv' /\ GracePeriod'
    BY Zenon, <1>1 DEF RcuInv, WaitInv, DoneInv, GracePeriod, ReadLock, glbl, lists
  <2> QED BY Zenon, <2>1, <2>2, <2>3, <2>4, <2>5 DEF RcuInv
<1>2. CASE ReadUnlock(p)
  <2>1. TypeOK'
    BY Zenon, <1>2 DEF RcuInv, TypeOK, ReadUnlock, glbl, qs, lists
  <2>2. LockInv' /\ StartInv'
    BY Zenon, <1>2 DEF RcuInv, LockInv, StartInv, ReadUnlock, glbl
  <2>3. ActiveInv'
    BY Zenon, <1>2 DEF RcuInv, TypeOK, ActiveInv, Sleeping, ReadUnlock, glbl
  <2>4. \A i \in Items : ref'[i] = ref[i] \ {p}
    BY Zenon, <1>2 DEF ReadUnlock
  <2>5. RefInv'
    BY Zenon, <1>2, <2>4 DEF RcuInv, TypeOK, RefInv, ReadUnlock
  <2>6. WaitInv'
    BY Zenon, <1>2, <2>4 DEF RcuInv, TypeOK, WaitInv, ReadUnlock, glbl, lists
  <2>7. DoneInv' /\ GracePeriod'
    BY Zenon, <1>2, <2>4 DEF RcuInv, TypeOK, DoneInv, GracePeriod, ReadUnlock, lists
  <2> QED BY Zenon, <2>1, <2>2, <2>3, <2>5, <2>6, <2>7 DEF RcuInv
<1>3. ASSUME NEW i \in Items, Call(p, i) PROVE RcuInv'
  <2>1. TypeOK'
    BY <1>3 DEF RcuInv, TypeOK, Call, glbl, qs
  <2>2. LockInv' /\ StartInv'
    BY Zenon, <1>3 DEF RcuInv, LockInv, StartInv, Call, glbl
  <2>3. ActiveInv'
    BY Zenon, <1>3 DEF RcuInv, ActiveInv, Sleeping, Call, glbl
  <2>4. RefInv'
    BY <1>3 DEF RcuInv, TypeOK, RefInv, Call
  <2>5. /\ \A j \in Items : j # i => ref'[j] = ref[j]
        /\ i \notin freed /\ \A q \in Cpus : i \notin c[q] /\ i \notin d[q]
    BY <1>3 DEF RcuInv, TypeOK, Call, HandedOver
  <2>6. WaitInv'
    BY <1>3, <2>5 DEF RcuInv, TypeOK, WaitInv, Call, glbl
  <2>7. DoneInv' /\ GracePeriod'
    BY <1>3, <2>5 DEF RcuInv, TypeOK, DoneInv, GracePeriod, Call
  <2> QED BY Zenon, <2>1, <2>2, <2>3, <2>4, <2>6, <2>7 DEF RcuInv
<1> QED BY Zenon, <1>1, <1>2, <1>3

\* the steps that move items between the lists of a CPU
LEMMA ItemsInv ==
  ASSUME RcuInv, NEW p \in Cpus, ProcDone(p) \/ ProcNext(p) \/ DoBatch(p)
  PROVE  RcuInv'
<1>1. CASE ProcDone(p)
  <2>1. TypeOK'
    BY <1>1 DEF RcuInv, TypeOK, ProcDone, Goto, glbl, qs, ghost, Labels
  <2>2. LockInv' /\ StartInv'
    BY Zenon, <1>1 DEF RcuInv, TypeOK, LockInv, StartInv, ProcDone, Goto, glbl, Locked
  <2>3. ActiveInv' /\ RefInv'
    BY Zenon, <1>1 DEF RcuInv, TypeOK, ActiveInv, RefInv, Sleeping, ProcDone, Goto, glbl, ghost
  <2>4. \A s \in Cpus : pc[s] = "sb_cpus" => pc'[s] = "sb_cpus"
    BY Zenon, <1>1 DEF RcuInv, TypeOK, ProcDone, Goto
  <2>5. WaitInv'
    BY <1>1, <2>4 DEF RcuInv, TypeOK, WaitInv, ProcDone, glbl, ghost
  <2>6. completed >= batch[p] => \A i \in c[p] : ref[i] = {}
    BY DEF RcuInv, TypeOK, WaitInv
  <2>7. DoneInv' /\ GracePeriod'
    BY <1>1, <2>6 DEF RcuInv, TypeOK, DoneInv, GracePeriod, ProcDone, ghost
  <2> QED BY Zenon, <2>1, <2>2, <2>3, <2>5, <2>7 DEF RcuInv
<1>2. CASE ProcNext(p)
  <2>1. TypeOK'
    BY <1>2 DEF RcuInv, TypeOK, ProcNext, Goto, glbl, qs, ghost, Labels
  <2>2. LockInv' /\ StartInv'
    BY Zenon, <1>2 DEF RcuInv, TypeOK, LockInv, StartInv, ProcNext, Goto, glbl, Locked
  <2>3. ActiveInv' /\ RefInv'
    BY Zenon, <1>2 DEF RcuInv, TypeOK, ActiveInv, RefInv, Sleeping, ProcNext, Goto, glbl, ghost
  <2>4. \A s \in Cpus : pc[s] = "sb_cpus" => pc'[s] = "sb_cpus"
    BY Zenon, <1>2 DEF RcuInv, TypeOK, ProcNext, Goto
  <2>5. WaitInv'
    <3> SUFFICES ASSUME NEW q \in Cpus, NEW i \in c'[q], NEW r \in ref[i]
                 PROVE  /\ completed < batch'[q] /\ current <= batch'[q]
                        /\ current = batch'[q] => r \in cpus \/ \E s \in Cpus : pc'[s] = "sb_cpus"
      BY Zenon, <1>2 DEF WaitInv, ProcNext, glbl, ghost
    <3>1. CASE q = p
      BY <1>2, <3>1 DEF RcuInv, TypeOK, StartInv, ProcNext
    <3>2. CASE q # p
      BY <1>2, <2>4, <3>2 DEF RcuInv, TypeOK, WaitInv, ProcNext
    <3> QED BY Zenon, <3>1, <3>2
  <2>6. DoneInv' /\ GracePeriod'
    BY Zenon, <1>2 DEF RcuInv, DoneInv, GracePeriod, ProcNext, ghost
  <2> QED BY Zenon, <2>1, <2>2, <2>3, <2>5, <2>6 DEF RcuInv
<1>3. CASE DoBatch(p)
  <2>1. TypeOK'
    BY Zenon, <1>3 DEF RcuInv, TypeOK, DoBatch, Goto, glbl, qs, Labels
  <2>2. LockInv' /\ StartInv'
    BY Zenon, <1>3 DEF RcuInv, TypeOK, LockInv, StartInv, DoBatch, Goto, glbl, Locked
  <2>3. ActiveInv' /\ RefInv'
    BY Zenon, <1>3 DEF RcuInv, TypeOK, ActiveInv, RefInv, Sleeping, DoBatch, Goto, glbl
  <2>4. \A s \in Cpus : pc[s] = "sb_cpus" => pc'[s] = "sb_cpus"
    BY Zenon, <1>3 DEF RcuInv, TypeOK, DoBatch, Goto
  <2>5. WaitInv'
    BY Zenon, <1>3, <2>4 DEF RcuInv, WaitInv, DoBatch, glbl
  <2>6. DoneInv' /\ GracePeriod'
    BY Zenon, <1>3 DEF RcuInv, TypeOK, DoneInv, GracePeriod, DoBatch
  <2> QED BY Zenon, <2>1, <2>2, <2>3, <2>5, <2>6 DEF RcuInv
<1> QED BY Zenon, <1>1, <1>2, <1>3

\* the start of a batch
LEMMA BatchInv ==
  ASSUME RcuInv, NEW p \in Cpus, NpSet(p) \/ SbClear(p) \/ SbInc(p) \/ SbCpus(p)
  PROVE  RcuInv'
<1>1. CASE NpSet(p)
  <2>1. TypeOK'
    BY Zenon, <1>1 DEF RcuInv, TypeOK, NpSet, StartBatch, Goto, Locked, Labels, qs, lists, ghost
  <2>2. LockInv' /\ StartInv'
    BY <1>1, RcuAssumption
    DEF RcuInv, TypeOK, LockInv, StartInv, NpSet, StartBatch, Goto, Locked
  <2>3. ActiveInv' /\ RefInv'
    BY <1>1 DEF RcuInv, TypeOK, ActiveInv, RefInv, Sleeping, NpSet, StartBatch, Goto, ghost
  <2>4. \A s \in Cpus : pc[s] = "sb_cpus" => pc'[s] = "sb_cpus"
    BY Zenon, <1>1 DEF RcuInv, TypeOK, NpSet, StartBatch, Goto
  <2>5. WaitInv'
    BY Zenon, <1>1, <2>4 DEF RcuInv, WaitInv, NpSet, lists, ghost
  <2>6. DoneInv' /\ GracePeriod'
    BY Zenon, <1>1 DEF RcuInv, DoneInv, GracePeriod, NpSet, lists, ghost
  <2> QED BY Zenon, <2>1, <2>2, <2>3, <2>5, <2>6 DEF RcuInv
<1>2. CASE SbClear(p)
  <2>1. TypeOK'
    BY Zenon, <1>2 DEF RcuInv, TypeOK, SbClear, Goto, Locked, Labels, qs, lists, ghost
  <2>2. LockInv' /\ StartInv'
    BY Zenon, <1>2 DEF RcuInv, TypeOK, LockInv, StartInv, SbClear, Goto, Locked
  <2>3. ActiveInv' /\ RefInv'
    BY Zenon, <1>2 DEF RcuInv, TypeOK, ActiveInv, RefInv, Sleeping, SbClear, Goto, ghost
  <2>4. \A s \in Cpus : pc[s] = "sb_cpus" => pc'[s] = "sb_cpus"
    BY Zenon, <1>2 DEF RcuInv, TypeOK, SbClear, Goto
  <2>5. WaitInv'
    BY Zenon, <1>2, <2>4 DEF RcuInv, WaitInv, SbClear, lists, ghost
  <2>6. DoneInv' /\ GracePeriod'
    BY Zenon, <1>2 DEF RcuInv, DoneInv, GracePeriod, SbClear, lists, ghost
  <2> QED BY Zenon, <2>1, <2>2, <2>3, <2>5, <2>6 DEF RcuInv
<1>3. CASE SbInc(p)
  <2>1. TypeOK'
    BY <1>3 DEF RcuInv, TypeOK, SbInc, Goto, Locked, Labels, qs, lists, ghost
  <2>2. LockInv' /\ StartInv'
    BY <1>3 DEF RcuInv, TypeOK, LockInv, StartInv, SbInc, Goto, Locked
  <2>3. ActiveInv' /\ RefInv'
    BY Zenon, <1>3 DEF RcuInv, TypeOK, ActiveInv, RefInv, Sleeping, SbInc, Goto, ghost
  <2>4. pc'[p] = "sb_cpus" /\ completed = current
    BY Zenon, <1>3 DEF RcuInv, TypeOK, StartInv, SbInc, Goto
  <2>5. WaitInv'
    BY <1>3, <2>4 DEF RcuInv, TypeOK, WaitInv, SbInc, lists, ghost
  <2>6. DoneInv' /\ GracePeriod'
    BY Zenon, <1>3 DEF RcuInv, DoneInv, GracePeriod, SbInc, lists, ghost
  <2> QED BY Zenon, <2>1, <2>2, <2>3, <2>5, <2>6 DEF RcuInv
<1>4. CASE SbCpus(p)
  <2>1. TypeOK'
    BY Zenon, <1>4 DEF RcuInv, TypeOK, SbCpus, Goto, Locked, Labels, qs, lists, ghost
  <2>2. LockInv' /\ StartInv'
    BY Zenon, <1>4, RcuAssumption DEF RcuInv, TypeOK, LockInv, StartInv, SbCpus, Goto, Locked
  <2>3. ActiveInv' /\ RefInv'
    BY Zenon, <1>4 DEF RcuInv, TypeOK, ActiveInv, RefInv, Sleeping, SbCpus, Goto, ghost
  <2>4. \A i \in Items : ref[i] \subseteq active
    BY Zenon DEF RcuInv, TypeOK, RefInv, ActiveInv, Sleeping
  <2>5. WaitInv'
    BY Zenon, <1>4, <2>4 DEF RcuInv, TypeOK, WaitInv, SbCpus, lists, ghost
  <2>6. DoneInv' /\ GracePeriod'
    BY Zenon, <1>4 DEF RcuInv, DoneInv, GracePeriod, SbCpus, lists, ghost
  <2> QED BY Zenon, <2>1, <2>2, <2>3, <2>5, <2>6 DEF RcuInv
<1> QED BY Zenon, <1>1, <1>2, <1>3, <1>4

\* What the other steps have in common: they touch neither the batch numbers, nor
\* the lists, nor the readers.
Elsewhere(p) ==
  /\ UNCHANGED <<current, completed, cpus, lists, ghost>>
  /\ \E l \in Labels : Goto(p, l)
  /\ pc[p] \notin {"sb_clear", "sb_inc", "sb_cpus"}
  /\ pc'[p] \notin {"sb_clear", "sb_inc", "sb_cpus"}

LEMMA ElsewhereInv ==
  ASSUME RcuInv, NEW p \in Cpus, Elsewhere(p),
         TypeOK', LockInv', ActiveInv'
  PROVE  RcuInv'
<1>1. \A s \in Cpus : pc'[s] \in {"sb_clear", "sb_inc", "sb_cpus"} => pc'[s] = pc[s]
  BY Zenon DEF RcuInv, TypeOK, Elsewhere, Goto
<1>2. \A s \in Cpus : pc[s] = "sb_cpus" => pc'[s] = "sb_cpus"
  BY Zenon DEF RcuInv, TypeOK, Elsewhere, Goto
<1>3. StartInv'
  BY Zenon, <1>1 DEF RcuInv, StartInv, Elsewhere
<1>4. WaitInv'
  BY Zenon, <1>2 DEF RcuInv, WaitInv, Elsewhere, lists, ghost
<1>5. RefInv' /\ DoneInv' /\ GracePeriod'
  BY Zenon DEF RcuInv, RefInv, DoneInv, GracePeriod, Elsewhere, lists, ghost
<1> QED BY Zenon, <1>3, <1>4, <1>5 DEF RcuInv

\* the steps without the lock
LEMMA PlainInv ==
  ASSUME RcuInv, NEW p \in Cpus,
         ProcNoNext(p) \/ ProcAsk(p) \/ QNewBatch(p) \/ QNothing(p) \/ QReport(p)
         \/ Work(p) \/ EnterIdle(p) \/ LeaveIdle(p)
  PROVE  RcuInv'
<1>1. CASE ProcNoNext(p)
  <2>1. Elsewhere(p)
    BY Zenon, <1>1 DEF RcuInv, TypeOK, Elsewhere, ProcNoNext, Goto, Labels, Locked, glbl, lists, ghost
  <2>2. TypeOK'
    BY Zenon, <1>1 DEF RcuInv, TypeOK, ProcNoNext, Goto, Labels, Locked, glbl, qs, lists, ghost
  <2>3. LockInv'
    BY Zenon, <1>1, RcuAssumption DEF RcuInv, TypeOK, LockInv, ProcNoNext, Goto, Locked, glbl
  <2>4. ActiveInv'
    BY Zenon, <1>1 DEF RcuInv, TypeOK, ActiveInv, Sleeping, ProcNoNext, Goto, glbl, ghost
  <2> QED BY Zenon, <2>1, <2>2, <2>3, <2>4, ElsewhereInv
<1>2. CASE ProcAsk(p)
  <2>1. Elsewhere(p)
    BY Zenon, <1>2 DEF RcuInv, TypeOK, Elsewhere, ProcAsk, Goto, Labels, Locked, glbl, lists, ghost
  <2>2. TypeOK'
    BY Zenon, <1>2 DEF RcuInv, TypeOK, ProcAsk, Goto, Labels, Locked, glbl, qs, lists, ghost
  <2>3. LockInv'
    BY Zenon, <1>2, RcuAssumption DEF RcuInv, TypeOK, LockInv, ProcAsk, Goto, Locked, glbl
  <2>4. ActiveInv'
    BY Zenon, <1>2 DEF RcuInv, TypeOK, ActiveInv, Sleeping, ProcAsk, Goto, glbl, ghost
  <2> QED BY Zenon, <2>1, <2>2, <2>3, <2>4, ElsewhereInv
<1>3. CASE QNewBatch(p)
  <2>1. Elsewhere(p)
    BY Zenon, <1>3 DEF RcuInv, TypeOK, Elsewhere, QNewBatch, Goto, Labels, Locked, glbl, lists, ghost
  <2>2. TypeOK'
    BY Zenon, <1>3 DEF RcuInv, TypeOK, QNewBatch, Goto, Labels, Locked, glbl, qs, lists, ghost
  <2>3. LockInv'
    BY Zenon, <1>3, RcuAssumption DEF RcuInv, TypeOK, LockInv, QNewBatch, Goto, Locked, glbl
  <2>4. ActiveInv'
    BY Zenon, <1>3 DEF RcuInv, TypeOK, ActiveInv, Sleeping, QNewBatch, Goto, glbl, ghost
  <2> QED BY Zenon, <2>1, <2>2, <2>3, <2>4, ElsewhereInv
<1>4. CASE QNothing(p)
  <2>1. Elsewhere(p)
    BY Zenon, <1>4 DEF RcuInv, TypeOK, Elsewhere, QNothing, Goto, Labels, Locked, glbl, lists, ghost
  <2>2. TypeOK'
    BY Zenon, <1>4 DEF RcuInv, TypeOK, QNothing, Goto, Labels, Locked, glbl, qs, lists, ghost
  <2>3. LockInv'
    BY Zenon, <1>4, RcuAssumption DEF RcuInv, TypeOK, LockInv, QNothing, Goto, Locked, glbl
  <2>4. ActiveInv'
    BY Zenon, <1>4 DEF RcuInv, TypeOK, ActiveInv, Sleeping, QNothing, Goto, glbl, ghost
  <2> QED BY Zenon, <2>1, <2>2, <2>3, <2>4, ElsewhereInv
<1>5. CASE QReport(p)
  <2>1. Elsewhere(p)
    BY Zenon, <1>5 DEF RcuInv, TypeOK, Elsewhere, QReport, Goto, Labels, Locked, glbl, lists, ghost
  <2>2. TypeOK'
    BY Zenon, <1>5 DEF RcuInv, TypeOK, QReport, Goto, Labels, Locked, glbl, qs, lists, ghost
  <2>3. LockInv'
    BY Zenon, <1>5, RcuAssumption DEF RcuInv, TypeOK, LockInv, QReport, Goto, Locked, glbl
  <2>4. ActiveInv'
    BY Zenon, <1>5 DEF RcuInv, TypeOK, ActiveInv, Sleeping, QReport, Goto, glbl, ghost
  <2> QED BY Zenon, <2>1, <2>2, <2>3, <2>4, ElsewhereInv
<1>6. CASE Work(p)
  <2>1. Elsewhere(p)
    BY Zenon, <1>6 DEF RcuInv, TypeOK, Elsewhere, Work, Goto, Labels, Locked, glbl, lists, ghost
  <2>2. TypeOK'
    BY Zenon, <1>6 DEF RcuInv, TypeOK, Work, Goto, Labels, Locked, glbl, qs, lists, ghost
  <2>3. LockInv'
    BY Zenon, <1>6, RcuAssumption DEF RcuInv, TypeOK, LockInv, Work, Goto, Locked, glbl
  <2>4. ActiveInv'
    BY Zenon, <1>6 DEF RcuInv, TypeOK, ActiveInv, Sleeping, Work, Goto, glbl, ghost
  <2> QED BY Zenon, <2>1, <2>2, <2>3, <2>4, ElsewhereInv
<1>7. CASE EnterIdle(p)
  <2>1. Elsewhere(p)
    BY Zenon, <1>7 DEF RcuInv, TypeOK, Elsewhere, EnterIdle, Goto, Labels, Locked, glbl, lists, ghost
  <2>2. TypeOK'
    BY Zenon, <1>7 DEF RcuInv, TypeOK, EnterIdle, Goto, Labels, Locked, glbl, qs, lists, ghost
  <2>3. LockInv'
    BY Zenon, <1>7, RcuAssumption DEF RcuInv, TypeOK, LockInv, EnterIdle, Goto, Locked, glbl
  <2>4. ActiveInv'
    BY Zenon, <1>7 DEF RcuInv, TypeOK, ActiveInv, Sleeping, EnterIdle, Goto, glbl, ghost
  <2> QED BY Zenon, <2>1, <2>2, <2>3, <2>4, ElsewhereInv
<1>8. CASE LeaveIdle(p)
  <2>1. Elsewhere(p)
    BY Zenon, <1>8 DEF RcuInv, TypeOK, Elsewhere, LeaveIdle, Goto, Labels, Locked, glbl, lists, ghost
  <2>2. TypeOK'
    BY Zenon, <1>8 DEF RcuInv, TypeOK, LeaveIdle, Goto, Labels, Locked, glbl, qs, lists, ghost
  <2>3. LockInv'
    BY Zenon, <1>8, RcuAssumption DEF RcuInv, TypeOK, LockInv, LeaveIdle, Goto, Locked, glbl
  <2>4. ActiveInv'
    BY Zenon, <1>8 DEF RcuInv, TypeOK, ActiveInv, Sleeping, LeaveIdle, Goto, glbl, ghost
  <2> QED BY Zenon, <2>1, <2>2, <2>3, <2>4, ElsewhereInv
<1> QED BY Zenon, <1>1, <1>2, <1>3, <1>4, <1>5, <1>6, <1>7, <1>8

\* acquiring the lock, and the other steps under it
LEMMA LockedInv ==
  ASSUME RcuInv, NEW p \in Cpus,
         Acquire(p, "np_lock", "np_set") \/ Acquire(p, "q_lock", "q_check")
         \/ Acquire(p, "ei_lock", "ei_clear") \/ QCheck(p) \/ EiClear(p)
         \/ EiAssert(p) \/ LiSet(p)
  PROVE  RcuInv'
<1>1. CASE Acquire(p, "np_lock", "np_set")
  <2>1. Elsewhere(p)
    BY Zenon, <1>1 DEF RcuInv, TypeOK, Elsewhere, Acquire, Goto, Labels, Locked, glbl, lists, ghost
  <2>2. TypeOK'
    BY Zenon, <1>1 DEF RcuInv, TypeOK, Acquire, Goto, Labels, Locked, glbl, qs, lists, ghost
  <2>3. LockInv'
    BY Zenon, <1>1, RcuAssumption DEF RcuInv, TypeOK, LockInv, Acquire, Goto, Locked, glbl
  <2>4. ActiveInv'
    BY Zenon, <1>1 DEF RcuInv, TypeOK, ActiveInv, Sleeping, Acquire, Goto, glbl, ghost
  <2> QED BY Zenon, <2>1, <2>2, <2>3, <2>4, ElsewhereInv
<1>2. CASE Acquire(p, "q_lock", "q_check")
  <2>1. Elsewhere(p)
    BY Zenon, <1>2 DEF RcuInv, TypeOK, Elsewhere, Acquire, Goto, Labels, Locked, glbl, lists, ghost
  <2>2. TypeOK'
    BY Zenon, <1>2 DEF RcuInv, TypeOK, Acquire, Goto, Labels, Locked, glbl, qs, lists, ghost
  <2>3. LockInv'
    BY Zenon, <1>2, RcuAssumption DEF RcuInv, TypeOK, LockInv, Acquire, Goto, Locked, glbl
  <2>4. ActiveInv'
    BY Zenon, <1>2 DEF RcuInv, TypeOK, ActiveInv, Sleeping, Acquire, Goto, glbl, ghost
  <2> QED BY Zenon, <2>1, <2>2, <2>3, <2>4, ElsewhereInv
<1>3. CASE Acquire(p, "ei_lock", "ei_clear")
  <2>1. Elsewhere(p)
    BY Zenon, <1>3 DEF RcuInv, TypeOK, Elsewhere, Acquire, Goto, Labels, Locked, glbl, lists, ghost
  <2>2. TypeOK'
    BY Zenon, <1>3 DEF RcuInv, TypeOK, Acquire, Goto, Labels, Locked, glbl, qs, lists, ghost
  <2>3. LockInv'
    BY Zenon, <1>3, RcuAssumption DEF RcuInv, TypeOK, LockInv, Acquire, Goto, Locked, glbl
  <2>4. ActiveInv'
    BY Zenon, <1>3 DEF RcuInv, TypeOK, ActiveInv, Sleeping, Acquire, Goto, glbl, ghost
  <2> QED BY Zenon, <2>1, <2>2, <2>3, <2>4, ElsewhereInv
<1>4. CASE QCheck(p)
  <2>1. Elsewhere(p)
    BY Zenon, <1>4 DEF RcuInv, TypeOK, Elsewhere, QCheck, Goto, Labels, Locked, glbl, lists, ghost
  <2>2. TypeOK'
    BY Zenon, <1>4 DEF RcuInv, TypeOK, QCheck, Goto, Labels, Locked, glbl, qs, lists, ghost
  <2>3. LockInv'
    BY <1>4, RcuAssumption DEF RcuInv, TypeOK, LockInv, QCheck, Goto, Locked, glbl
  <2>4. ActiveInv'
    BY Zenon, <1>4 DEF RcuInv, TypeOK, ActiveInv, Sleeping, QCheck, Goto, glbl, ghost
  <2> QED BY Zenon, <2>1, <2>2, <2>3, <2>4, ElsewhereInv
<1>5. CASE EiClear(p)
  <2>1. Elsewhere(p)
    BY Zenon, <1>5 DEF RcuInv, TypeOK, Elsewhere, EiClear, Goto, Labels, Locked, glbl, lists, ghost
  <2>2. TypeOK'
    <3>1. CASE q_batch[p] # current \/ pending[p]
      <4>1. pending' \in [Cpus -> BOOLEAN] /\ q_passed' \in [Cpus -> BOOLEAN]
        BY <1>5, <3>1, Zenon DEF RcuInv, TypeOK, EiClear
      <4>2. pc' \in [Cpus -> Labels] /\ q_batch' \in [Cpus -> Int]
        <5>1. pc' = [pc EXCEPT ![p] = "ei_quiet"] /\ q_batch' = [q_batch EXCEPT ![p] = current]
          BY Zenon, <1>5, <3>1 DEF EiClear, Goto
        <5>2. pc \in [Cpus -> Labels] /\ q_batch \in [Cpus -> Int] /\ current \in Int
          BY Zenon DEF RcuInv, TypeOK
        <5>3. "ei_quiet" \in Labels BY Zenon DEF Labels, Locked
        <5> QED BY Zenon, <5>1, <5>2, <5>3
      <4>3. lock' \in Cpus \cup {None} /\ active' \subseteq Cpus
        BY Zenon, <1>5, <3>1 DEF RcuInv, TypeOK, EiClear
      <4>4. UNCHANGED <<current, completed, next_pending, cpus, lists, ret, ghost>>
        BY Zenon, <1>5 DEF EiClear
      <4> QED
        BY Zenon, <4>1, <4>2, <4>3, <4>4 DEF RcuInv, TypeOK, lists, ghost
    <3>2. CASE ~(q_batch[p] # current \/ pending[p])
      BY Zenon, <1>5, <3>2 DEF RcuInv, TypeOK, EiClear, Goto, Labels, Locked, lists, ghost
    <3> QED BY Zenon, <3>1, <3>2
  <2>3. LockInv'
    BY <1>5, RcuAssumption DEF RcuInv, TypeOK, LockInv, EiClear, Goto, Locked, glbl
  <2>4. ActiveInv'
    BY <1>5 DEF RcuInv, TypeOK, ActiveInv, Sleeping, EiClear, Goto, glbl, ghost
  <2> QED BY Zenon, <2>1, <2>2, <2>3, <2>4, ElsewhereInv
<1>6. CASE EiAssert(p)
  <2>1. Elsewhere(p)
    BY Zenon, <1>6 DEF RcuInv, TypeOK, Elsewhere, EiAssert, Goto, Labels, Locked, glbl, lists, ghost
  <2>2. TypeOK'
    BY Zenon, <1>6 DEF RcuInv, TypeOK, EiAssert, Goto, Labels, Locked, glbl, qs, lists, ghost
  <2>3. LockInv'
    BY Zenon, <1>6, RcuAssumption DEF RcuInv, TypeOK, LockInv, EiAssert, Goto, Locked, glbl
  <2>4. ActiveInv'
    BY Zenon, <1>6 DEF RcuInv, TypeOK, ActiveInv, Sleeping, EiAssert, Goto, glbl, ghost
  <2> QED BY Zenon, <2>1, <2>2, <2>3, <2>4, ElsewhereInv
<1>7. CASE LiSet(p)
  <2>1. Elsewhere(p)
    BY Zenon, <1>7 DEF RcuInv, TypeOK, Elsewhere, LiSet, Goto, Labels, Locked, glbl, lists, ghost
  <2>2. TypeOK'
    BY Zenon, <1>7 DEF RcuInv, TypeOK, LiSet, Goto, Labels, Locked, glbl, qs, lists, ghost
  <2>3. LockInv'
    BY Zenon, <1>7, RcuAssumption DEF RcuInv, TypeOK, LockInv, LiSet, Goto, Locked, glbl
  <2>4. ActiveInv'
    BY Zenon, <1>7 DEF RcuInv, TypeOK, ActiveInv, Sleeping, LiSet, Goto, glbl, ghost
  <2> QED BY Zenon, <2>1, <2>2, <2>3, <2>4, ElsewhereInv
<1> QED BY Zenon, <1>1, <1>2, <1>3, <1>4, <1>5, <1>6, <1>7

LEMMA NextInv == RcuInv /\ [Next]_vars => RcuInv'
<1> SUFFICES ASSUME RcuInv, [Next]_vars PROVE RcuInv'
  OBVIOUS
<1>1. ASSUME NEW p \in Cpus, Rcu(p) PROVE RcuInv'
  <2>1. CASE QQuiet(p)
    BY Zenon, <2>1, CpuQuietInv DEF QQuiet
  <2>2. CASE EiQuiet(p)
    BY Zenon, <2>2, CpuQuietInv DEF EiQuiet
  <2> QED BY Zenon, <1>1, <2>1, <2>2, ItemsInv, BatchInv, PlainInv, LockedInv DEF Rcu
<1>2. ASSUME NEW p \in Cpus, ReadLock(p) \/ ReadUnlock(p) \/ \E i \in Items : Call(p, i)
      PROVE  RcuInv'
  BY Zenon, <1>2, UsersInv
<1>3. ASSUME NEW p \in Cpus, Work(p) \/ EnterIdle(p) \/ LeaveIdle(p) PROVE RcuInv'
  BY Zenon, <1>3, PlainInv
<1>4. CASE UNCHANGED vars
  BY Zenon, <1>4 DEF vars, glbl, qs, lists, ghost, RcuInv, TypeOK, LockInv, StartInv,
              ActiveInv, Sleeping, RefInv, WaitInv, DoneInv, GracePeriod
<1> QED BY Zenon, <1>1, <1>2, <1>3, <1>4 DEF Next

\* The promise of RCU, for any number of CPUs and items: when the callback of an
\* item runs (do_batch), every CPU that was inside a read section when
\* Rcu::call() got the item has left that section.
THEOREM GracePeriodHolds == Spec => []GracePeriod
<1>1. RcuInv => GracePeriod
  BY Zenon DEF RcuInv
<1> QED BY <1>1, InitInv, NextInv, PTL DEF Spec

\* The variables of the RCU keep their types.
THEOREM TypeCorrect == Spec => []TypeOK
<1>1. RcuInv => TypeOK
  BY Zenon DEF RcuInv
<1> QED BY <1>1, InitInv, NextInv, PTL DEF Spec

==============================================================================
