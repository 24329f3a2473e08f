------------------------------ MODULE PrioQueue ------------------------------
(***************************************************************************)
(* What Prio_list (prio_list.h) promises its users: a queue that is sorted *)
(* by descending priority and first-in first-out within a priority, and    *)
(* from which any element can be taken at any time.                        *)
(***************************************************************************)
EXTENDS Naturals, Sequences

CONSTANTS Elems, Prios

VARIABLE q   \* a sequence of records [e |-> element, p |-> its priority]

Queued == {q[i].e : i \in DOMAIN q}

PQInit == q = <<>>

\* An element goes behind everything of its own or a higher priority.
PQInsert(e, p) ==
  /\ e \notin Queued
  /\ q' = SelectSeq(q, LAMBDA x : x.p >= p)
            \o <<[e |-> e, p |-> p]>>
            \o SelectSeq(q, LAMBDA x : x.p < p)

PQRemove(e) ==
  /\ e \in Queued
  /\ q' = SelectSeq(q, LAMBDA x : x.e # e)

PQNext ==
  /\ q' # q   \* implied, and quick to refute
  /\ \E e \in Elems : PQRemove(e) \/ \E p \in Prios : PQInsert(e, p)

PQSpec == PQInit /\ [][PQNext]_q
=============================================================================
