------------------------------ MODULE MCLists -------------------------------
(***************************************************************************)
(* Instances of PrioList and Kmem for TLC: lists that many parties change. *)
(* TLC explores them in one run: `part' tells which of the two takes       *)
(* steps, and never changes.                                               *)
(***************************************************************************)
EXTENDS PrioList, Kmem, TLC

VARIABLE part

Symmetry == Permutations(Elems) \cup Permutations(MemCpus)

\* two senders on CPUs of their own
Remote == {[elems |-> s, local |-> FALSE, walks |-> FALSE] : s \in kSubset(2, Elems)}

\* senders on the CPU of a receiver that walks its list
Walked == [elems |-> Elems, local |-> TRUE, walks |-> TRUE]

Both == Remote \cup {Walked}

ListsInit ==
  /\ part \in {"senders", "memory"}
  /\ Init /\ (part # "senders" => sys = Walked)
  /\ MemInit

ListsNext ==
  /\ UNCHANGED part
  /\ \/ part = "senders" /\ Next /\ UNCHANGED mem_vars
     \/ part = "memory" /\ MemNext /\ UNCHANGED vars

ListsSpec == ListsInit /\ [][ListsNext]_<<part, vars, mem_vars>>
=============================================================================
