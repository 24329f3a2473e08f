------------------------------ MODULE MCMemory ------------------------------
(***************************************************************************)
(* Instances of Mapdb and RamQuota for TLC: the memory of the spaces and   *)
(* the account of what the kernel needs for them.  TLC explores them in    *)
(* one run: `part' tells which takes steps, and never changes.             *)
(***************************************************************************)
EXTENDS Mapdb, RamQuota, TLC

CONSTANTS t1, t2   \* threads

VARIABLE part

Symmetry == Permutations(Spaces) \cup Permutations({t1, t2})

System(threads, shifts, phys, va) ==
  [threads |-> threads, shifts |-> shifts, phys |-> phys, va |-> va,
   overmap |-> FALSE, rights |-> FALSE, mmu |-> FALSE]

\* pages of two sizes, and with them submaps
TwoSizes == System({t1}, <<1, 0>>, 1, 1)

\* two frames, and with them pages mapped over pages of another frame
TwoFrames == System({t1}, <<0>>, 1, 1)

\* two threads, and a CPU that uses the pages
Racing == [System({t1, t2}, <<0>>, 0, 0) EXCEPT !.mmu = TRUE]

\* the right to write comes and goes, and a CPU uses the pages
Rights == [System({t1}, <<0>>, 0, 0) EXCEPT !.mmu = TRUE, !.rights = TRUE]

\* no thread, while the quotas are explored
Still == System({}, <<0>>, 0, 0)

All == {TwoSizes, TwoFrames, Racing, Rights, Still}

MemoryInit ==
  /\ part \in {"pages", "quota"}
  /\ MapInit /\ (part = "quota" <=> sys = Still)
  /\ QuotaInit

\* All quotas are gone, and the threads rest.
QuotaRest == \A p \in Procs : JobAt(p, "idle")

MemoryNext ==
  /\ UNCHANGED part
  /\ \/ part = "pages" /\ MapNext /\ UNCHANGED quota_vars
     \/ part = "quota" /\ QuotaNext /\ UNCHANGED map_vars
     \/ part = "quota" /\ QuotaRest /\ UNCHANGED <<map_vars, quota_vars>>

MemorySpec == MemoryInit /\ [][MemoryNext]_<<part, map_vars, quota_vars>>
=============================================================================
