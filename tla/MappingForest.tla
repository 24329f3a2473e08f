--------------------------- MODULE MappingForest ---------------------------
(***************************************************************************)
(* What the mapping database promises, without its representation: a       *)
(* forest of pages.  A page is a range of physical memory mapped at an     *)
(* address of a space; it was mapped from another page, or from sigma0     *)
(* (Root).  Taking a page away takes away everything mapped from it.       *)
(*                                                                         *)
(* Map and Grant are relations between the forest before, F, and after, G. *)
(***************************************************************************)
EXTENDS Integers

CONSTANT Root   \* sigma0, which owns all of the memory

VARIABLES
  forest,     \* the pages: [at, phys, from]
  requests    \* what is about to be unmapped: [page, window, me_too]

forest_vars == <<forest, requests>>

Places(F) == {n.at : n \in F}

\* The pages of F mapped from the page at p, directly or through others.
RECURSIVE Below(_, _)
Below(F, p) ==
  LET kids == {n \in F : n.from = p}
  IN  kids \cup UNION {Below(F \ kids, n.at) : n \in kids}

\* Map a part of a page (of all memory for Root) to a free place.
Map(F, G) ==
  \E n \in G :
    /\ n.at \notin Places(F)
    /\ n.from = Root \/ \E m \in F : m.at = n.from /\ n.phys \subseteq m.phys
    /\ G = F \cup {n}

\* The pages of F that request r is about: what was mapped from its page and
\* holds a frame of its window, with everything mapped from that; the page
\* itself too if me_too.
Gone(F, r) ==
  LET hit == {n \in Below(F, r.page) : n.phys \cap r.window # {}}
  IN  hit \cup UNION {Below(F, n.at) : n \in hit}
      \cup (IF r.me_too THEN {n \in F : n.at = r.page} ELSE {})

\* Hand the page at p over: the page moves, its place in the forest stays.
Grant(F, G) ==
  \E p \in Places(F), at \in Places(G) \ Places(F) :
    G = {[n EXCEPT !.at = IF @ = p THEN at ELSE @,
                   !.from = IF @ = p THEN at ELSE @] : n \in F}

\* An unmap is requested for a page ...
Ask ==
  /\ \E r \in requests' \ requests :
       /\ r.page \in Places(forest) \cup {Root}
       /\ requests' = requests \cup {r}
  /\ UNCHANGED forest

\* ... and done, whatever became of the forest meanwhile.
Unmap ==
  \E r \in requests :
    /\ forest' = forest \ Gone(forest, r)
    /\ requests' = requests \ {r}

ForestNext ==
  \/ Ask
  \/ Unmap
  \/ (Map(forest, forest') \/ Grant(forest, forest')) /\ UNCHANGED requests

ForestSpec == forest = {} /\ requests = {} /\ [][ForestNext]_forest_vars
=============================================================================
