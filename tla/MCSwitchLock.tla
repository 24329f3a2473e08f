---------------------------- MODULE MCSwitchLock ----------------------------
(***************************************************************************)
(* Two instances of SwitchLock that TLC explores in one run: two threads   *)
(* that may migrate and one lock, and two locks that nest.  The invariants *)
(* of SwitchLock quantify over the domains of its variables and so are     *)
(* those of either instance.                                               *)
(***************************************************************************)
EXTENDS SwitchLock, TLC

CONSTANTS n1, n2, n3, d1, d2   \* the contexts of the second instance

VARIABLE nested   \* the instance: chosen once, never changed

Symmetry == Permutations(Threads) \cup Permutations(Cpus)

N == INSTANCE SwitchLock WITH
       Threads <- {n1, n2, n3}, Cpus <- {d1, d2}, Movable <- {}, Locks <- {1, 2}

\* n1 takes both locks, and waits for the inner one, which n2 holds, while n3 helps it
\* on another CPU.
Uses == {<<n1, 1>>, <<n1, 2>>, <<n2, 2>>, <<n3, 1>>}

NestedInit == N!Init /\ home[n1] = d1 /\ home[n2] = d1 /\ home[n3] = d2

NestedNext ==
  \E c \in {d1, d2} :
    \/ N!SwitchIn(c)
    \/ \E t \in N!Ctx : N!Exec(c, t) /\
        (\/ N!Work(c, t) \/ N!Sched(c, t) \/ N!Preempt(c, t)
         \/ \E l \in {1, 2} : <<t, l>> \in Uses /\ N!LockStart(c, t, l)
         \/ \E n \in N!Ctx : N!PickOther(c, t, n))

LocksInit == nested \in BOOLEAN /\ IF nested THEN NestedInit ELSE Init

LocksNext == UNCHANGED nested /\ IF nested THEN NestedNext ELSE Next

LocksSpec == LocksInit /\ [][LocksNext]_<<vars, nested>>
=============================================================================
