----------------------------- MODULE MCAsidAlloc ----------------------------
(***************************************************************************)
(* An instance of AsidAlloc for TLC.  With three ASIDs, of which two CPUs  *)
(* can keep two across a roll-over, four spaces are enough for one roll-   *)
(* over after the other.                                                   *)
(***************************************************************************)
EXTENDS AsidAlloc, TLC

Symmetry == Permutations(Spaces)
=============================================================================
