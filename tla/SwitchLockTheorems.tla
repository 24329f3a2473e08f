------------------------- MODULE SwitchLockTheorems -------------------------
(***************************************************************************)
(* OneCpu and RunningUnderLock for any number of CPUs, threads and locks:  *)
(* the invariants of the types, the owner words and the flags together.    *)
(***************************************************************************)
EXTENDS SwitchLockSwitching, SwitchLockOwners

\* What the steps need of the lock counts follows from the owner words.
LEMMA CountsKnown == ASSUME TypeInv, CodeInv PROVE CountFacts
<1>1. ASSUME NEW t \in Ctx PROVE lock_cnt[t] \in Nat /\ (pc[t] = "dec_cnt" => lock_cnt[t] # 0)
  <2>1. /\ CodeOf(t) /\ LocalsOf(t) /\ TypeOK
        /\ IsFiniteSet(Holds(t)) /\ Cardinality(Holds(t)) \in Nat
    BY Zenon, OwnFacts
  <2>2. ASSUME pc[t] = "inc" PROVE Cardinality(Holds(t)) # 0
    <3>1. lk[t] \in Locks /\ owner[lk[t]] = t
      BY Zenon, <2>1, <2>2 DEF LocalsOf, LkLabels, LockLabels, CodeOf
    <3>2. Holds(t) # {} BY Zenon, <2>1, <3>1, HoldsFinite
    <3> QED BY Zenon, <2>1, <3>2, FS_EmptySet
  <2>3. lock_cnt[t] = Cardinality(Holds(t)) + Uncounted(t) BY Zenon, <2>1 DEF CodeOf
  <2> QED BY <2>1, <2>2, <2>3 DEF Uncounted
<1>2. ASSUME NEW k \in Cpus PROVE lock_cnt[k] = 0
  <2>1. /\ CodeOf(k) /\ KernelCode(k) /\ OwnerInv /\ TypeOK /\ k \notin Threads \cup {None}
    BY Zenon, KernelFacts, ConstAssumption DEF CodeInv
  <2>2. Holds(k) = {} BY <2>1, HoldsFinite DEF OwnerInv
  <2>3. Uncounted(k) = 0 BY Zenon, <2>1 DEF KernelCode, SchedLabels, Uncounted
  <2>4. Cardinality(Holds(k)) = 0 BY Zenon, <2>2, FS_EmptySet
  <2> QED BY <2>1, <2>3, <2>4 DEF CodeOf
<1> QED BY Zenon, <1>1, <1>2 DEF CountFacts, CodeInv, OwnerInv

\* The invariants of the types, the owner words and the flags together.
FlagInv == TypeInv /\ CodeInv /\ SafeInv /\ LeftInv

\* They hold in every reachable state.
LEMMA FlagInvHolds == Spec => []FlagInv
<1>1. Init => FlagInv BY Zenon, ConstAssumption, TypeInit, CodeInit, SafeInit, LeftInit DEF FlagInv
<1>2. FlagInv /\ [Next]_vars => FlagInv'
  BY Zenon, TypeStep, CodeStep, SafeStep, LeftStep, CountsKnown DEF FlagInv
<1> QED BY <1>1, <1>2, PTL DEF Spec

\* No context executes on two CPUs, nor on one while another has not finished switching
\* away from it, for any number of CPUs, threads and locks: the CPU that helps a lock
\* holder, its home CPU and the CPU it is migrated to never run it at the same time.
THEOREM ContextsOnOneCpu == Spec => []OneCpu
<1>1. FlagInv => OneCpu
  BY Zenon DEF FlagInv, OneCpu, SafeInv, DisjointCpus, Occupies, TypeInv, TypeOK
<1> QED BY <1>1, FlagInvHolds, PTL

\* An executing context with locks, or away from home, has _running_under_lock, as the
\* comment in Switch_lock::schedule() says; one that goes on at home without locks has
\* not kept it; and the assertions of set_lock_owner() hold: the first lock is taken at
\* home, a further one under the flag.
THEOREM FlagFollowsLocks == Spec => []RunningUnderLock
<1>1. ASSUME FlagInv, NEW c \in Cpus, NEW t \in Ctx, cur[c] = t
      PROVE  /\ lock_cnt[t] # 0 \/ home[t] # c => rul[t] = "Running"
             /\ At(c, t, "user") /\ home[t] = c /\ lock_cnt[t] = 0 => rul[t] # "Running"
             /\ At(c, t, "dispatch") =>
                  IF lock_cnt[t] < 1 THEN home[t] = c ELSE rul[t] # "Not_running"
  <2>1. /\ TypeInv /\ SafeInv /\ LeftInv /\ SafeOf(t) /\ lock_cnt[t] \in Nat
    BY Zenon, <1>1, CountsKnown DEF FlagInv, SafeInv, CountFacts
  <2>2. lock_cnt[t] # 0 \/ home[t] # c => rul[t] = "Running"
    BY Zenon, <1>1, <2>1 DEF SafeOf, FlagOf, Occupies
  <2>3. At(c, t, "user") /\ lock_cnt[t] = 0 => rul[t] # "Running"
    <3>1. pc[t] = "user" => pc[t] \notin FlagLabels /\ ~Leaving(t)
      BY Zenon DEF FlagLabels, Leaving, RdLabels, RetLabels
    <3> QED BY Zenon, <2>1, <3>1, NotKept DEF At
  <2>4. At(c, t, "dispatch") /\ lock_cnt[t] = 0 => home[t] = c
    BY Zenon, <1>1, <2>1 DEF At, SafeOf, AwayOf, LeaveLabels, RdLabels
  <2> QED BY <2>1, <2>2, <2>3, <2>4
<1>2. FlagInv => RunningUnderLock
  <2> SUFFICES ASSUME FlagInv PROVE RunningUnderLock OBVIOUS
  <2>1. DOMAIN cur = Cpus /\ \A c \in Cpus : cur[c] \in Ctx BY Zenon DEF FlagInv, TypeInv, TypeOK
  <2> QED BY Zenon, <1>1, <2>1 DEF RunningUnderLock
<1> QED BY <1>2, FlagInvHolds, PTL

=============================================================================
