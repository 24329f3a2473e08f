----------------------------- MODULE MCObjects ------------------------------
(***************************************************************************)
(* Instances of KobjectCaps for TLC, explored in one run: `counted' tells  *)
(* which of the two it is, and never changes.                              *)
(***************************************************************************)
EXTENDS KobjectCaps, TLC

VARIABLE counted

Symmetry == Permutations(Threads)

\* A task that is itself an object and can hold capabilities, also
\* its own, and a space that stays; nobody lowers a reference count
MCTasks == {0, 2}
MCSlots == {<<0, 1>>, <<0, 2>>, <<2, 1>>}
MCFirst == <<0, 1>> :> 2
MCAttrs == {[del |-> TRUE, ref |-> TRUE], [del |-> FALSE, ref |-> FALSE]}

\* One object whose reference count its users lower
C == INSTANCE KobjectCaps WITH
  Objs <- {1}, Tasks <- {0}, Slots <- {<<0, 1>>, <<0, 2>>, <<0, 3>>},
  FirstCaps <- <<0, 1>> :> 1, MaxDec <- 1

ObjectsInit ==
  /\ counted \in BOOLEAN
  /\ IF counted THEN C!CapInit ELSE CapInit

ObjectsNext ==
  /\ UNCHANGED counted
  /\ \/ ~counted /\ CapNext
     \/ counted /\ C!CapNext

ObjectsSpec == ObjectsInit /\ [][ObjectsNext]_<<counted, cap_vars>>

\* The first instance on several CPUs.
ObjectsMPSpec ==
  counted = FALSE /\ CapInit /\ [][MPNext /\ UNCHANGED counted]_<<counted, cap_vars>>

\* DestroyedOnce of the instance at hand.
ReapedOnce == IF counted THEN C!DestroyedOnce ELSE DestroyedOnce

\* CapsExact of the instance at hand.
DatabaseExact == IF counted THEN C!CapsExact ELSE CapsExact

\* UsedExists of the instance at hand.
InUseExists == IF counted THEN C!UsedExists ELSE UsedExists
=============================================================================
