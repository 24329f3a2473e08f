------------------------------ MODULE AsidAlloc ------------------------------
(***************************************************************************)
(* The global allocator of address-space ids of the ARM ports              *)
(* (asid_alloc.h) and its use on a switch of the address space             *)
(* (arm/mem_space-arm-asid.h): the lock-free test for a valid ASID, the    *)
(* allocation under the lock, the roll-over of the generation that keeps   *)
(* the ASIDs in use on other CPUs, and the TLB flushes it defers.          *)
(***************************************************************************)
EXTENDS Integers, FiniteSets

CONSTANTS
  Cpus,       \* the CPUs that are online
  Watched,    \* the CPU whose TLB is observed
  Spaces,     \* address spaces
  AsidBase,   \* Asid_base: the first ASID that is handed out
  AsidNum,    \* asid_num(): ASIDs are below this number
  Gens,       \* generations are counted modulo this number
  MaxRolls,   \* bound on the number of roll-overs
  Invalid     \* Asid::Invalid, and "no space"

Numbers == AsidBase .. AsidNum - 1
Asids == [g : 0 .. Gens - 1, n : Numbers]

\* Every CPU can keep an ASID across a roll-over, and one is left to hand out.
ASSUME AsidAssumption ==
  /\ AsidBase \in Nat /\ AsidNum \in Nat /\ Gens \in Nat /\ MaxRolls \in Nat
  /\ Cardinality(Cpus) \in Nat /\ AsidNum > AsidBase + Cardinality(Cpus)
  /\ Watched \in Cpus
  /\ Invalid \notin Cpus \cup Spaces \cup Asids \cup (Numbers \X Spaces)

VARIABLES
  gen,        \* _gen
  bitmap,     \* the bits set in _reserved
  next_idx,   \* _reserved._current_idx
  flush,      \* _tlb_flush_pending
  active,     \* Asids_per_cpu::active
  reserved,   \* Asids_per_cpu::reserved
  asid,       \* Mem_space::_asid
  lock,       \* the CPU that holds _lock, or Invalid
  a,          \* the ASID a CPU works with
  to,         \* the space a CPU switches to
  hw,         \* space and ASID number in the translation base register
  tlb,        \* TLB entries of the watched CPU, by number and space
  rolls,      \* number of roll-overs so far
  asid_pc,    \* where in asid() a CPU is; "run": not in it
  stale       \* history: a roll-over has met an ASID older than it can be; see Stale

asid_vars == <<gen, bitmap, next_idx, flush, active, reserved, asid, lock, a, to, hw,
          tlb, rolls, asid_pc, stale>>
shared == <<gen, bitmap, next_idx, flush, reserved, lock, rolls>>

Goto(c, l) == asid_pc' = [asid_pc EXCEPT ![c] = l]

is_valid(x) == x # Invalid
is_same_generation(x, g) == is_valid(x) /\ x.g = g

\* The generation after g; the one that Asid::Invalid would have is skipped.
NextGen(g) == IF (g + 1) % Gens = Gens - 1 THEN (g + 2) % Gens
              ELSE (g + 1) % Gens

\* Mutant: the reserved ASIDs are not spared.
FreeAsidsBlind(i) == i .. AsidNum - 1

FreeAsids(i) == {n \in i .. AsidNum - 1 : n \notin bitmap}

\* find_next(): the first free ASID
FirstFree == {n \in FreeAsids(next_idx) : \A m \in FreeAsids(next_idx) : n <= m}

AsidInit ==
  /\ gen = 1 /\ bitmap = {} /\ next_idx = AsidBase /\ flush = {}
  /\ active = [c \in Cpus |-> Invalid] /\ reserved = [c \in Cpus |-> Invalid]
  /\ asid = [s \in Spaces |-> Invalid]
  /\ lock = Invalid
  /\ a = [c \in Cpus |-> Invalid] /\ to = [c \in Cpus |-> Invalid]
  /\ hw = [c \in Cpus |-> Invalid] /\ tlb = {}
  /\ rolls = 0
  /\ asid_pc = [c \in Cpus |-> "run"] /\ stale = FALSE

-------------------------------------------------------------------------------
(* get_or_alloc_asid(), without the lock *)

\* The CPU switches to another space and compares the generation of its ASID,
\* which changes under the lock only, with the current one (can_use_asid).
GetAsid(c, s) ==
  /\ asid_pc[c] = "run" /\ (hw[c] # Invalid => hw[c][2] # s)
  /\ to' = [to EXCEPT ![c] = s]
  /\ \/ /\ is_same_generation(asid[s], gen)
        /\ a' = [a EXCEPT ![c] = asid[s]]
        /\ Goto(c, "set_active")
     \/ /\ ~is_same_generation(asid[s], gen)
        /\ Goto(c, "alloc")
        /\ UNCHANGED a
  /\ UNCHANGED <<shared, active, asid, hw, tlb>>

\* The exchange tells whether a roll-over has taken the active ASID away.
set_active_asid(c) ==
  /\ asid_pc[c] = "set_active"
  /\ active' = [active EXCEPT ![c] = a[c]]
  /\ Goto(c, IF is_valid(active[c]) THEN "load" ELSE "realloc")
  /\ a' = [a EXCEPT ![c] = Invalid]
  /\ UNCHANGED <<shared, asid, to, hw, tlb>>

-------------------------------------------------------------------------------
(* alloc_asid(), under the lock *)

\* The end of alloc_asid(): the space has ASID x, which becomes active.
Finish(c, x, pending) ==
  /\ asid' = [asid EXCEPT ![to[c]] = x]
  /\ active' = [active EXCEPT ![c] = x]
  /\ flush' = pending \ {c}
  /\ Goto(c, IF c \in pending THEN "tlb_flush" ELSE "load")

\* check_and_update_reserved(): a roll-over has reserved the ASID.
IsReserved(x) == is_valid(x) /\ x.n \in bitmap /\ \E d \in Cpus : reserved[d] = x

\* Other CPUs have rolled over, and this CPU's ASID has survived; new_asid():
\* or it was active during the roll-over and gets the new generation; or the
\* bitmap has a free one.
alloc_asid(c) ==
  LET x == asid[to[c]]
      update == [g |-> gen, n |-> x.n]
  IN
  /\ asid_pc[c] \in {"alloc", "realloc"} /\ lock = Invalid
  /\ \/ /\ is_same_generation(x, gen)
        /\ Finish(c, x, flush)
        /\ UNCHANGED <<reserved, next_idx>>
     \/ /\ ~is_same_generation(x, gen) /\ IsReserved(x)
        /\ reserved' = [d \in Cpus |-> IF reserved[d] = x THEN update
                                       ELSE reserved[d]]
        /\ Finish(c, update, flush)
        /\ UNCHANGED next_idx
     \/ \E n \in FirstFree :
          /\ ~is_same_generation(x, gen) /\ ~IsReserved(x)
          /\ Finish(c, [g |-> gen, n |-> n], flush)
          /\ next_idx' = n + 1
          /\ UNCHANGED reserved
  /\ UNCHANGED <<gen, bitmap, lock, a, to, hw, tlb, rolls>>

\* No ASID is left: the next generation begins.  MaxRolls bounds the model.
StartRollOver(c) ==
  LET x == asid[to[c]] IN
  /\ asid_pc[c] \in {"alloc", "realloc"} /\ lock = Invalid /\ rolls < MaxRolls
  /\ ~is_same_generation(x, gen)
  /\ ~IsReserved(x)
  /\ FreeAsids(next_idx) = {}
  /\ lock' = c /\ gen' = NextGen(gen) /\ rolls' = rolls + 1
  /\ bitmap' = {} /\ next_idx' = AsidBase
  /\ Goto(c, "roll_over")
  /\ flush' = {}
  /\ UNCHANGED <<active, reserved, asid, a, to, hw, tlb>>

\* One round of the loop of roll_over(): take CPU d's active ASID away and
\* reserve it, or keep the one that an earlier roll-over has reserved.  While
\* the loop runs, flush holds the CPUs that it is through with.
roll_over(c, d) ==
  LET x == IF is_valid(active[d]) THEN active[d] ELSE reserved[d] IN
  /\ asid_pc[c] = "roll_over" /\ d \notin flush
  /\ active' = [active EXCEPT ![d] = Invalid]
  /\ reserved' = [reserved EXCEPT ![d] = x]
  /\ bitmap' = IF is_valid(x) THEN bitmap \cup {x.n} ELSE bitmap
  /\ flush' = flush \cup {d}
  /\ UNCHANGED <<gen, next_idx, asid, lock, a, to, hw, tlb, rolls, asid_pc>>

\* Mutant: only the CPU that rolls over has to flush.
EndRollOverOwn(c) ==
  /\ asid_pc[c] = "roll_over" /\ flush = Cpus
  /\ \E n \in FirstFree :
       /\ Finish(c, [g |-> gen, n |-> n], {c})
       /\ next_idx' = n + 1
  /\ lock' = Invalid
  /\ UNCHANGED <<gen, bitmap, reserved, a, to, hw, tlb, rolls>>

\* Every CPU has to flush; the space gets the first free ASID.
EndRollOver(c) ==
  /\ asid_pc[c] = "roll_over" /\ flush = Cpus
  /\ \E n \in FirstFree :
       /\ Finish(c, [g |-> gen, n |-> n], Cpus)
       /\ next_idx' = n + 1
  /\ lock' = Invalid
  /\ UNCHANGED <<gen, bitmap, reserved, a, to, hw, tlb, rolls>>

-------------------------------------------------------------------------------
(* Mem_space_arm_asid::asid() and the switch *)

\* asid() flushes the TLB if alloc_asid() said so, reads the ASID of the space once
\* more and loads the number.  From now on the CPU may cache translations of the
\* space under it: the worst case is that it does so at once.
LoadSpace(c) ==
  /\ asid_pc[c] \in {"load", "tlb_flush"}
  /\ hw' = [hw EXCEPT ![c] = <<asid[to[c]].n, to[c]>>]
  /\ tlb' = IF c # Watched THEN tlb
            ELSE (IF asid_pc[c] = "tlb_flush" THEN {} ELSE tlb) \cup {hw'[c]}
  /\ to' = [to EXCEPT ![c] = Invalid]
  /\ Goto(c, "run")
  /\ UNCHANGED <<shared, active, asid, a>>

AsidStep ==
  \E c \in Cpus :
    \/ \E s \in Spaces : GetAsid(c, s)
    \/ set_active_asid(c)
    \/ alloc_asid(c) \/ StartRollOver(c) \/ EndRollOver(c)
    \/ \E d \in Cpus : roll_over(c, d)
    \/ LoadSpace(c)

\* The roll-over under way will find on another CPU an active ASID that is not of the
\* generation it ends: an earlier roll-over has taken the ASID of that CPU away, and
\* the exchange in set_active_asid() has put an outdated one in its place, which the
\* CPU is about to replace.  roll_over() reserves it in place of the one in use.
Stale ==
  lock # Invalid /\ \E d \in Cpus \ (flush \cup {lock}) :
    is_valid(active[d]) /\ NextGen(active[d].g) # gen

\* Nothing reads the history.
AsidNext == AsidStep /\ stale' = (stale \/ Stale')

AsidSpec == AsidInit /\ [][AsidNext]_asid_vars

-------------------------------------------------------------------------------
(* Properties *)

\* A CPU that runs in a space finds no translation of another space under the
\* number of the ASID it has loaded, however roll-overs on other CPUs fall
\* between its test of the generation, its exchange of the active ASID, its
\* deferred flush and its reading of the ASID.
NoForeignTlbHit ==
  asid_pc[Watched] = "run" =>
    \A e \in tlb : e[1] = hw[Watched][1] => e[2] = hw[Watched][2]

\* No two address spaces have the same pair of generation and ASID: asid_alloc.h
\* names the overflow of the generation as what "may lead to two address spaces
\* having the same <generation, asid> tuple".
UniqueAsid ==
  \A s, t \in Spaces : s # t /\ is_valid(asid[s]) => asid[s] # asid[t]

\* Both hold until a roll-over meets an outdated active ASID on another CPU, and what
\* it reserves is then not the "ASID currently used on cpu x" that roll_over() promises.
\* One roll-over after the other, the ASIDs kept over several of them, and any number
\* of CPUs between their test and the lock do no harm.
UniqueUnlessStale == stale \/ UniqueAsid
NoForeignTlbHitUnlessStale == stale \/ NoForeignTlbHit

===============================================================================
