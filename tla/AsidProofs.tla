----------------------------- MODULE AsidProofs ------------------------------
(***************************************************************************)
(* TLAPS proofs about AsidAlloc: no two address spaces have one ASID, and  *)
(* no CPU meets translations of another space under its number, for any    *)
(* number of CPUs, spaces and ASIDs, and for any number of roll-overs      *)
(* before the generation counter overflows, until a roll-over meets an     *)
(* outdated active ASID (Stale).                                           *)
(***************************************************************************)
EXTENDS AsidAlloc, TLAPS

Labels == {"run", "set_active", "alloc", "realloc", "roll_over", "load", "tlb_flush"}
Maybe(S) == S \cup {Invalid}

TypeInv ==
  /\ rolls \in 0 .. MaxRolls /\ gen = rolls + 1
  /\ bitmap \subseteq Numbers /\ next_idx \in AsidBase .. AsidNum /\ flush \subseteq Cpus
  /\ active \in [Cpus -> Maybe(Asids)] /\ reserved \in [Cpus -> Maybe(Asids)]
  /\ asid \in [Spaces -> Maybe(Asids)] /\ a \in [Cpus -> Maybe(Asids)]
  /\ lock \in Maybe(Cpus) /\ to \in [Cpus -> Maybe(Spaces)]
  /\ hw \in [Cpus -> Maybe(Numbers \X Spaces)] /\ tlb \subseteq Numbers \X Spaces
  /\ asid_pc \in [Cpus -> Labels]
  /\ \A c \in Cpus : /\ lock = c <=> asid_pc[c] = "roll_over"
                     /\ asid_pc[c] # "run" => to[c] \in Spaces
                     /\ asid_pc[c] = "set_active" => a[c] \in Asids
                     /\ asid_pc[c] \in {"set_active", "realloc", "load", "tlb_flush"} =>
                          asid[to[c]] \in Asids

\* The generation counter stays below the value that Asid::Invalid has.
NoOverflow == MaxRolls + 3 <= Gens

\* The generations that NextGen() counts through before it wraps are consecutive.
LEMMA NextGenIs == ASSUME NEW g \in Nat, g + 3 <= Gens PROVE NextGen(g) = g + 1
<1>1. Gens \in Nat /\ g + 1 \in Nat BY AsidAssumption
<1>2. (g + 1) % Gens = g + 1 BY <1>1
<1> QED BY <1>1, <1>2 DEF NextGen

\* A generation that is over, and is followed by the current one, is the one before it.
LEMMA NextGenBack ==
  ASSUME NoOverflow, NEW g \in Nat, NEW h \in Nat, h <= MaxRolls + 1, g <= h - 1, NextGen(g) = h
  PROVE g = h - 1
<1>1. g + 3 <= Gens BY AsidAssumption DEF NoOverflow
<1> QED BY <1>1, NextGenIs

\* Every variable has its type, the lock is held by the CPU that rolls over, and a
\* CPU that works with an ASID or a space has one: at the start, and after each step.
LEMMA TypeInit == AsidInit => TypeInv
BY AsidAssumption DEF AsidInit, TypeInv, Maybe, Labels, Asids, Numbers

LEMMA GetAsidTypes == ASSUME TypeInv, NEW c \in Cpus, NEW s \in Spaces, GetAsid(c, s) PROVE TypeInv'
BY AsidAssumption DEF GetAsid, Goto, shared, TypeInv, Maybe, Labels, is_same_generation, is_valid

LEMMA SetActiveTypes == ASSUME TypeInv, NEW c \in Cpus, set_active_asid(c) PROVE TypeInv'
BY AsidAssumption DEF set_active_asid, Goto, shared, TypeInv, Maybe, Labels

\* The three ways of alloc_asid().
Update(c) == [g |-> gen, n |-> asid[to[c]].n]
Fresh(n) == [g |-> gen, n |-> n]
AtLock(c) ==
  /\ asid_pc[c] \in {"alloc", "realloc"} /\ lock = Invalid
  /\ UNCHANGED <<gen, bitmap, lock, a, to, hw, tlb, rolls>>
Keep(c) ==
  /\ AtLock(c) /\ UNCHANGED <<reserved, next_idx>>
  /\ is_same_generation(asid[to[c]], gen) /\ Finish(c, asid[to[c]], flush)
Renew(c) ==
  /\ AtLock(c) /\ UNCHANGED next_idx
  /\ ~is_same_generation(asid[to[c]], gen) /\ IsReserved(asid[to[c]])
  /\ reserved' = [d \in Cpus |-> IF reserved[d] = asid[to[c]] THEN Update(c) ELSE reserved[d]]
  /\ Finish(c, Update(c), flush)
Take(c, n) ==
  /\ AtLock(c) /\ UNCHANGED reserved
  /\ ~is_same_generation(asid[to[c]], gen) /\ ~IsReserved(asid[to[c]])
  /\ Finish(c, Fresh(n), flush) /\ next_idx' = n + 1

\* alloc_asid() finds the ASID current, finds it reserved, or takes a free one.
LEMMA AllocCases ==
  ASSUME NEW c \in Cpus, alloc_asid(c)
  PROVE Keep(c) \/ Renew(c) \/ \E n \in FirstFree : Take(c, n)
BY Zenon DEF alloc_asid, Keep, Renew, Take, AtLock, Update, Fresh

LEMMA KeepTypes == ASSUME TypeInv, NEW c \in Cpus, Keep(c) PROVE TypeInv'
BY AsidAssumption DEF Keep, AtLock, Finish, Goto, TypeInv, Maybe, Labels,
  is_same_generation, is_valid

\* Without an overflow the generation is one that an ASID can have.
LEMMA GenType == ASSUME TypeInv, NoOverflow PROVE gen \in 0 .. Gens - 1 /\ gen \in Nat /\ gen >= 1
BY AsidAssumption DEF TypeInv, NoOverflow

LEMMA RenewTypes == ASSUME TypeInv, NoOverflow, NEW c \in Cpus, Renew(c) PROVE TypeInv'
<1>1. Update(c) \in Asids
  BY Zenon, AsidAssumption, GenType DEF Update, Renew, AtLock, IsReserved, is_valid, TypeInv, Maybe, Asids
<1> QED BY <1>1, AsidAssumption DEF Renew, AtLock, Finish, Goto, TypeInv, Maybe, Labels

\* find_next() finds a number that is not reserved and was not handed out before.
LEMMA FirstFreeIs ==
  ASSUME TypeInv, NoOverflow, NEW n \in FirstFree
  PROVE /\ n \in Numbers /\ n >= next_idx /\ n \notin bitmap /\ n + 1 \in AsidBase .. AsidNum
        /\ Fresh(n) \in Asids
<1>1. /\ n \in Numbers /\ n >= next_idx /\ n \notin bitmap /\ n + 1 \in AsidBase .. AsidNum
  BY AsidAssumption DEF FirstFree, FreeAsids, TypeInv, Numbers
<1> QED BY Zenon, <1>1, GenType DEF Fresh, Asids

LEMMA TakeTypes ==
  ASSUME TypeInv, NoOverflow, NEW c \in Cpus, NEW n \in FirstFree, Take(c, n) PROVE TypeInv'
BY FirstFreeIs, AsidAssumption DEF Take, AtLock, Finish, Goto, TypeInv, Maybe, Labels

LEMMA LoadTypes == ASSUME TypeInv, NEW c \in Cpus, LoadSpace(c) PROVE TypeInv'
BY AsidAssumption DEF LoadSpace, shared, Goto, TypeInv, Maybe, Labels, Asids

LEMMA StartTypes == ASSUME TypeInv, NoOverflow, NEW c \in Cpus, StartRollOver(c) PROVE TypeInv'
BY AsidAssumption, NextGenIs DEF StartRollOver, Goto, TypeInv, Maybe, Labels, NoOverflow

LEMMA RollTypes == ASSUME TypeInv, NEW c \in Cpus, NEW d \in Cpus, roll_over(c, d) PROVE TypeInv'
BY AsidAssumption DEF roll_over, TypeInv, Maybe, Labels, is_valid, Asids

End(c, n) ==
  /\ asid_pc[c] = "roll_over" /\ flush = Cpus
  /\ Finish(c, Fresh(n), Cpus)
  /\ next_idx' = n + 1 /\ lock' = Invalid
  /\ UNCHANGED <<gen, bitmap, reserved, a, to, hw, tlb, rolls>>

\* The end of a roll-over hands out one free number.
LEMMA EndCases == ASSUME NEW c \in Cpus, EndRollOver(c) PROVE \E n \in FirstFree : End(c, n)
BY Zenon DEF EndRollOver, End, Fresh

LEMMA EndTypes ==
  ASSUME TypeInv, NoOverflow, NEW c \in Cpus, NEW n \in FirstFree, End(c, n) PROVE TypeInv'
BY FirstFreeIs, AsidAssumption DEF End, Finish, Goto, TypeInv, Maybe, Labels

\* The generation of the newest ASIDs: a roll-over begins a generation, and hands out
\* its first ASID when it ends.
Newest == IF lock = Invalid THEN gen ELSE gen - 1

\* x is the ASID of a space, other than the one that a roll-over is for.
Live(x) == \E s \in Spaces : asid[s] = x /\ (lock = Invalid \/ s # to[lock])

\* The ASID that is reserved for CPU d, or will be by the roll-over under way.
Held(d) == IF lock # Invalid /\ d \notin flush /\ is_valid(active[d]) THEN active[d]
           ELSE reserved[d]

\* Nobody but the space c switches to has ASID x, and it has if x is of the newest generation.
OnlyFor(c, x) ==
  /\ \A s \in Spaces : asid[s] = x => s = to[c]
  /\ x.g = Newest => asid[to[c]] = x

\* No ASID is newer than the newest, and the space of a roll-over is without one of those.
GenInv ==
  /\ \A s \in Spaces : is_valid(asid[s]) => asid[s].g <= Newest
  /\ lock # Invalid => ~is_same_generation(asid[to[lock]], Newest)

\* A CPU that has found its ASID current may be late by any number of generations, but
\* while its exchange of the active ASID can still succeed, it is not late.  A CPU on its
\* way to the lock, or rolling over, may have an old ASID active, but no other space has it.
SwitchOf(c) ==
  /\ asid_pc[c] = "set_active" =>
       /\ OnlyFor(c, a[c]) /\ a[c].g <= Newest
       /\ is_valid(active[c]) => a[c].g = Newest /\ (lock = Invalid \/ c \notin flush)
  /\ asid_pc[c] = "realloc" /\ is_valid(active[c]) => OnlyFor(c, active[c])
  /\ lock = c /\ c \notin flush /\ is_valid(active[c]) =>
       OnlyFor(c, active[c]) \/ active[c].g = Newest

\* The active ASIDs are of the newest generation, but for those of SwitchOf: a roll-over
\* reserves them and takes them away.
ActiveOf(c) ==
  is_valid(active[c]) =>
    /\ active[c].g <= Newest
    /\ lock = Invalid \/ (c \notin flush /\ c # lock) =>
         active[c].g = Newest \/ (asid_pc[c] = "realloc" /\ lock = Invalid)
    /\ lock # Invalid /\ c \in flush => asid_pc[c] = "realloc"

\* What is reserved or in use in this generation is not handed out again.
BitmapInv ==
  /\ \A d \in Cpus : is_valid(reserved[d]) /\ (lock = Invalid \/ d \in flush) =>
       reserved[d].n \in bitmap
  /\ lock = Invalid => \A s \in Spaces : is_same_generation(asid[s], gen) =>
       asid[s].n \in bitmap \/ asid[s].n < next_idx

\* The heart: ASIDs of several generations are held over a roll-over, yet those that are
\* still the ASID of a space differ in their numbers, from each other and from the
\* newest ones.  alloc_asid() may therefore bring a reserved number up to date.
HeldInv ==
  /\ \A d, e \in Cpus :
       /\ is_valid(Held(d)) /\ is_valid(Held(e)) /\ Held(d).n = Held(e).n
       /\ Live(Held(d)) /\ Live(Held(e))
       => Held(d) = Held(e)
  /\ \A s \in Spaces, e \in Cpus :
       /\ is_same_generation(asid[s], Newest) /\ is_valid(Held(e)) /\ Live(Held(e))
       /\ asid[s].n = Held(e).n
       => asid[s] = Held(e)

\* CPU c has, or is about to have, space s in its translation base register.
Loads(c, s) == asid_pc[c] \in {"load", "tlb_flush"} /\ to[c] = s
Runs(c, s) == asid_pc[c] = "run" /\ hw[c] # Invalid /\ hw[c][2] = s
Uses(c, s) == Loads(c, s) \/ Runs(c, s)
InUse(c) == IF is_valid(active[c]) THEN active[c] ELSE reserved[c]

\* A space in use has the ASID that is active on its CPU or reserved for it, and keeps
\* its number; no roll-over is for such a space.
UseOf(c) ==
  /\ \A s \in Spaces : Uses(c, s) =>
       /\ is_valid(asid[s]) /\ asid[s] = InUse(c)
       /\ Runs(c, s) => asid[s].n = hw[c][1]
       /\ lock # Invalid => s # to[lock]
  /\ asid_pc[c] \in {"load", "tlb_flush"} /\ lock = Invalid /\ c \notin flush =>
       is_valid(active[c])

\* The TLB of the watched CPU holds the spaces under their ASIDs of the newest generation
\* unless it has to be flushed before the next space is loaded.
TlbInv ==
  LET w == Watched IN
  /\ lock = Invalid /\ w \notin flush /\ (~is_valid(active[w]) \/ asid_pc[w] = "realloc") =>
       tlb = {}
  /\ /\ is_valid(active[w]) /\ asid_pc[w] \notin {"realloc", "tlb_flush"}
     /\ lock = Invalid \/ (w \notin flush /\ w # lock)
     => \A e \in tlb : asid[e[2]] = [g |-> Newest, n |-> e[1]]
  /\ asid_pc[w] = "load" => \A e \in tlb : e[1] = asid[to[w]].n => e[2] = to[w]

\* The inductive invariant behind UniqueAsid, and the one behind NoForeignTlbHit.
AsidInv ==
  /\ UniqueAsid /\ GenInv /\ BitmapInv /\ HeldInv
  /\ \A c \in Cpus : SwitchOf(c) /\ ActiveOf(c)

LoadInv == (\A c \in Cpus : UseOf(c)) /\ TlbInv /\ NoForeignTlbHit

\* Nothing that the reserved ASIDs depend on changes.
LEMMA HeldFrame ==
  ASSUME HeldInv, UNCHANGED asid, Newest' = Newest, \A x : Live(x)' <=> Live(x),
         \A e \in Cpus : Held(e)' = Held(e)
  PROVE HeldInv'
BY DEF HeldInv, is_valid, is_same_generation

\* Nothing that a CPU on its way to an ASID depends on changes.
LEMMA SwitchFrame ==
  ASSUME NEW e \in Cpus, SwitchOf(e), UNCHANGED <<asid, lock>>, Newest' = Newest,
         to'[e] = to[e], a'[e] = a[e], asid_pc'[e] = asid_pc[e], active'[e] = active[e],
         e \in flush' <=> e \in flush
  PROVE SwitchOf(e)'
<1>1. OnlyFor(e, a[e])' <=> OnlyFor(e, a[e]) BY Zenon DEF OnlyFor
<1>2. OnlyFor(e, active[e])' <=> OnlyFor(e, active[e]) BY Zenon DEF OnlyFor
<1> QED BY Zenon, <1>1, <1>2 DEF SwitchOf, is_valid

\* A space gets an ASID that no space has.
LEMMA UniqueFresh ==
  ASSUME UniqueAsid, NEW c \in Cpus, NEW x, \A s \in Spaces : asid[s] # x, x # Invalid,
         \A s \in Spaces : asid'[s] = IF s = to[c] THEN x ELSE asid[s]
  PROVE UniqueAsid'
<1> SUFFICES ASSUME NEW s \in Spaces, NEW t \in Spaces, s # t, is_valid(asid'[s])
             PROVE asid'[s] # asid'[t]
  BY Zenon DEF UniqueAsid, is_valid
<1> QED BY Zenon DEF UniqueAsid, is_valid

\* AsidInv is preserved by each step of asid(), alloc_asid() and roll_over().  Each
\* proof begins with what the step does to the variables that the invariant reads.
LEMMA GetInv ==
  ASSUME TypeInv, NoOverflow, AsidInv, NEW c \in Cpus, NEW s \in Spaces, GetAsid(c, s)
  PROVE AsidInv'
<1>0. TypeInv' BY Zenon, GetAsidTypes
<1>g. gen \in Nat /\ gen >= 1 BY Zenon, GenType
<1>a. /\ UNCHANGED <<gen, bitmap, next_idx, flush, active, reserved, lock, rolls, asid>>
      /\ \A e \in Cpus \ {c} : to'[e] = to[e] /\ a'[e] = a[e] /\ asid_pc'[e] = asid_pc[e]
      /\ to'[c] = s /\ c # lock /\ asid_pc[c] = "run"
      /\ asid_pc'[c] \in {"set_active", "alloc"}
      /\ lock # Invalid => lock \in Cpus /\ to'[lock] = to[lock]
      /\ asid_pc'[c] = "set_active" =>
           a'[c] = asid[s] /\ asid[s] # Invalid /\ asid[s].g = gen
  BY DEF GetAsid, Goto, shared, TypeInv, Maybe, is_same_generation, is_valid
<1>n. Newest' = Newest BY Zenon, <1>a DEF Newest
<1>l. \A x : Live(x)' <=> Live(x) BY Zenon, <1>a DEF Live
<1>h. \A e \in Cpus : Held(e)' = Held(e) BY Zenon, <1>a DEF Held
<1>1. UniqueAsid' BY Zenon, <1>a DEF AsidInv, UniqueAsid, is_valid
<1>2. GenInv' BY Zenon, <1>a, <1>n DEF AsidInv, GenInv, is_valid, is_same_generation
<1>3. BitmapInv' BY Zenon, <1>a DEF AsidInv, BitmapInv, is_valid, is_same_generation
<1>4. HeldInv' BY Zenon, <1>a, <1>n, <1>l, <1>h, HeldFrame DEF AsidInv
<1>5. \A e \in Cpus : SwitchOf(e)'
  <2>1. asid_pc'[c] = "set_active" => lock = Invalid /\ Newest = gen
    BY <1>a, <1>g DEF AsidInv, GenInv, Newest, is_valid, TypeInv
  <2>2. SwitchOf(c)'
    BY <2>1, <1>a, <1>n, <1>g DEF AsidInv, SwitchOf, ActiveOf, OnlyFor, UniqueAsid, is_valid
  <2>3. \A e \in Cpus \ {c} : SwitchOf(e)'
    BY Zenon, <1>a, <1>n, SwitchFrame DEF AsidInv
  <2> QED BY Zenon, <2>2, <2>3
<1>6. \A e \in Cpus : ActiveOf(e)'
  BY Zenon, <1>a, <1>n, <1>g DEF AsidInv, ActiveOf, is_valid
<1> QED BY Zenon, <1>1, <1>2, <1>3, <1>4, <1>5, <1>6 DEF AsidInv

LEMMA SetActiveInv ==
  ASSUME TypeInv, NoOverflow, AsidInv, ~Stale', NEW c \in Cpus, set_active_asid(c)
  PROVE AsidInv'
<1>0. TypeInv' BY Zenon, SetActiveTypes
<1>g. gen \in Nat /\ gen >= 1 BY Zenon, GenType
<1>a. /\ UNCHANGED <<gen, bitmap, next_idx, flush, reserved, lock, rolls, asid, to>>
      /\ asid_pc[c] = "set_active" /\ a[c] \in Asids /\ a[c] # Invalid /\ c # lock
      /\ \A e \in Cpus : active'[e] = IF e = c THEN a[c] ELSE active[e]
  BY Zenon, AsidAssumption DEF set_active_asid, shared, TypeInv
<1>n. Newest' = Newest BY Zenon, <1>a DEF Newest
<1>l. \A x : Live(x)' <=> Live(x) BY Zenon, <1>a DEF Live
<1>1. UniqueAsid' BY Zenon, <1>a DEF AsidInv, UniqueAsid, is_valid
<1>2. GenInv' BY Zenon, <1>a, <1>n DEF AsidInv, GenInv, is_valid, is_same_generation
<1>3. BitmapInv' BY Zenon, <1>a DEF AsidInv, BitmapInv, is_valid, is_same_generation
<1>s. lock # Invalid /\ c \notin flush => a[c].g = Newest
  <2> SUFFICES ASSUME lock # Invalid, c \notin flush PROVE a[c].g = Newest OBVIOUS
  <2>1. NextGen(a[c].g) = gen BY Zenon, <1>a DEF Stale, is_valid
  <2>2. Newest = gen - 1 /\ a[c].g <= gen - 1 BY Zenon, <1>a DEF Newest, AsidInv, SwitchOf
  <2>3. a[c].g \in Nat /\ gen <= MaxRolls + 1 BY <1>a, AsidAssumption DEF Asids, TypeInv
  <2> QED BY <2>1, <2>2, <2>3, <1>g, NextGenBack
<1>h. \A e \in Cpus : Held(e)' = Held(e) \/ (e = c /\ Held(e)' = a[c] /\ a[c].g = Newest)
  BY Zenon, <1>a, <1>s DEF Held, is_valid
<1>4. HeldInv'
  <2>1. \A s \in Spaces, y \in Asids :
          /\ asid[s] # Invalid /\ asid[s].g = Newest /\ y.g = Newest /\ asid[s].n = y.n
          => asid[s] = y
    BY DEF TypeInv, Maybe, Asids
  <2>2. \A x : Live(x) => \E s \in Spaces : asid[s] = x
    BY Zenon DEF Live
  <2>3. ASSUME NEW d \in Cpus, NEW e \in Cpus,
               is_valid(Held(d)'), is_valid(Held(e)'), Held(d)'.n = Held(e)'.n,
               Live(Held(d)'), Live(Held(e)')
        PROVE Held(d)' = Held(e)'
    BY <2>3, <2>1, <2>2, <1>h, <1>a DEF AsidInv, HeldInv, is_valid, is_same_generation
  <2>4. ASSUME NEW s \in Spaces, NEW e \in Cpus,
               is_same_generation(asid[s], Newest), is_valid(Held(e)'), Live(Held(e)'),
               asid[s].n = Held(e)'.n
        PROVE asid[s] = Held(e)'
    BY <2>4, <2>1, <1>h, <1>a DEF AsidInv, HeldInv, is_valid, is_same_generation
  <2> QED BY Zenon, <2>3, <2>4, <1>a, <1>n, <1>l DEF HeldInv, is_valid, is_same_generation
<1>p. /\ \A e \in Cpus \ {c} : asid_pc'[e] = asid_pc[e] /\ a'[e] = a[e]
      /\ asid_pc'[c] \in {"load", "realloc"}
      /\ a[c].g <= Newest /\ OnlyFor(c, a[c])
      /\ asid_pc'[c] = "load" => a[c].g = Newest /\ (lock = Invalid \/ c \notin flush)
  BY Zenon, <1>a DEF set_active_asid, Goto, TypeInv, AsidInv, SwitchOf
<1>5. \A e \in Cpus : SwitchOf(e)'
  <2>1. \A e \in Cpus \ {c} : SwitchOf(e)' BY Zenon, <1>a, <1>n, <1>p, SwitchFrame DEF AsidInv
  <2>2. OnlyFor(c, active[c])'
    <3>1. active'[c] = a[c] BY Zenon, <1>a
    <3>2. OnlyFor(c, a[c]) BY Zenon, <1>p
    <3> QED BY Zenon, <3>1, <3>2, <1>a, <1>n DEF OnlyFor
  <2>3. SwitchOf(c)' BY Zenon, <1>a, <1>p, <2>2 DEF SwitchOf
  <2> QED BY Zenon, <2>1, <2>3
<1>6. \A e \in Cpus : ActiveOf(e)'
  <2>1. \A e \in Cpus \ {c} : ActiveOf(e)'
    BY <1>a, <1>n, <1>p DEF AsidInv, ActiveOf, is_valid
  <2>2. ActiveOf(c)'
    <3>1. a[c].g <= Newest BY Zenon, <1>p
    <3> QED BY Zenon, <3>1, <1>a, <1>n, <1>p, <1>s DEF ActiveOf, is_valid
  <2> QED BY Zenon, <2>1, <2>2
<1> QED BY Zenon, <1>1, <1>2, <1>3, <1>4, <1>5, <1>6 DEF AsidInv

LEMMA KeepInv ==
  ASSUME TypeInv, NoOverflow, AsidInv, NEW c \in Cpus, Keep(c)
  PROVE AsidInv'
<1>0. TypeInv' BY Zenon, KeepTypes
<1>g. gen \in Nat /\ gen >= 1 BY Zenon, GenType
<1>a. /\ UNCHANGED <<gen, bitmap, next_idx, reserved, lock, rolls, asid, to, a>> /\ lock = Invalid
      /\ to[c] \in Spaces /\ asid[to[c]] \in Asids /\ asid[to[c]].g = gen
      /\ \A e \in Cpus : active'[e] = IF e = c THEN asid[to[c]] ELSE active[e]
      /\ flush' = flush \ {c}
      /\ \A e \in Cpus \ {c} : asid_pc'[e] = asid_pc[e]
      /\ asid_pc'[c] \in {"load", "tlb_flush"}
  <2>1. UNCHANGED asid BY Zenon DEF Keep, AtLock, Finish, TypeInv
  <2> QED BY <2>1 DEF Keep, AtLock, Finish, Goto, TypeInv, is_same_generation, is_valid, Maybe
<1>n. Newest' = Newest /\ Newest = gen BY Zenon, <1>a DEF Newest
<1>l. \A x : Live(x)' <=> Live(x) BY Zenon, <1>a DEF Live
<1>h. \A e \in Cpus : Held(e)' = Held(e) BY Zenon, <1>a DEF Held
<1>1. UniqueAsid' BY Zenon, <1>a DEF AsidInv, UniqueAsid, is_valid
<1>2. GenInv' BY Zenon, <1>a, <1>n DEF AsidInv, GenInv, is_valid, is_same_generation
<1>3. BitmapInv' BY Zenon, <1>a DEF AsidInv, BitmapInv, is_valid, is_same_generation
<1>4. HeldInv' BY Zenon, <1>a, <1>n, <1>l, <1>h, HeldFrame DEF AsidInv
<1>5. \A e \in Cpus : SwitchOf(e)'
  BY <1>a, <1>n, <1>g, AsidAssumption DEF AsidInv, SwitchOf, OnlyFor, is_valid
<1>6. \A e \in Cpus : ActiveOf(e)'
  BY <1>a, <1>n, <1>g DEF AsidInv, ActiveOf, is_valid
<1> QED BY Zenon, <1>1, <1>2, <1>3, <1>4, <1>5, <1>6 DEF AsidInv

\* A space gets an ASID of the current generation that no space has.
LEMMA OnlyForKept ==
  ASSUME TypeInv, AsidInv, NEW c \in Cpus, lock = Invalid, to[c] \in Spaces,
         UNCHANGED <<gen, lock, to>>, ~is_same_generation(asid[to[c]], gen),
         NEW x \in Asids, x.g = gen, \A s \in Spaces : asid[s] # x,
         \A s \in Spaces : asid'[s] = IF s = to[c] THEN x ELSE asid[s],
         NEW e \in Cpus, NEW y \in Asids, to[e] \in Spaces, OnlyFor(e, y)
  PROVE OnlyFor(e, y)'
<1>1. Newest = gen /\ Newest' = gen BY Zenon DEF Newest
<1>2. y # Invalid BY Zenon, AsidAssumption
<1>3. \A s \in Spaces : asid'[s] = y => s = to[e] BY Zenon, <1>1 DEF OnlyFor
<1>4. y.g = gen => asid[to[e]] = y BY Zenon, <1>1 DEF OnlyFor
<1>5. y.g = gen => to[e] # to[c] BY Zenon, <1>4, <1>2 DEF is_same_generation, is_valid
<1> QED BY Zenon, <1>1, <1>3, <1>4, <1>5 DEF OnlyFor

LEMMA TakeInv ==
  ASSUME TypeInv, NoOverflow, AsidInv, NEW c \in Cpus, NEW n \in FirstFree, Take(c, n)
  PROVE AsidInv'
<1> DEFINE x == Fresh(n)
<1>g. gen \in Nat /\ gen >= 1 BY Zenon, GenType
<1>f. n \in Numbers /\ n \in Int /\ next_idx \in Int /\ n >= next_idx /\ n \notin bitmap /\ x \in Asids
  <2>1. n \in Numbers /\ n >= next_idx /\ n \notin bitmap /\ x \in Asids BY Zenon, FirstFreeIs
  <2> QED BY <2>1, AsidAssumption DEF Numbers, TypeInv
<1>a. /\ UNCHANGED <<gen, bitmap, reserved, lock, rolls, to, a>> /\ lock = Invalid
      /\ to[c] \in Spaces /\ x # Invalid /\ x.g = gen /\ x.n = n /\ next_idx' = n + 1
      /\ ~is_same_generation(asid[to[c]], gen)
      /\ \A s \in Spaces : asid'[s] = IF s = to[c] THEN x ELSE asid[s]
      /\ \A e \in Cpus : active'[e] = IF e = c THEN x ELSE active[e]
      /\ flush' = flush \ {c}
      /\ \A e \in Cpus \ {c} : asid_pc'[e] = asid_pc[e]
      /\ asid_pc'[c] \in {"load", "tlb_flush"}
  BY Zenon, <1>f, AsidAssumption DEF Take, AtLock, Finish, Goto, TypeInv, Fresh
<1>n. Newest' = gen /\ Newest = gen BY Zenon, <1>a DEF Newest
<1>b. \A s \in Spaces : asid[s] # x
  BY <1>a, <1>f DEF AsidInv, BitmapInv, is_same_generation, is_valid
<1>h. \A e \in Cpus : Held(e)' = reserved[e] /\ Held(e) = reserved[e]
  BY Zenon, <1>a DEF Held
<1>r. \A e \in Cpus : is_valid(reserved[e]) => reserved[e].n # n /\ reserved[e] # x
  BY <1>a, <1>f DEF AsidInv, BitmapInv, is_valid
<1>l. \A y : Live(y)' /\ y # x => Live(y) BY Zenon, <1>a DEF Live
<1>1. UniqueAsid'
  <2>1. UniqueAsid BY Zenon DEF AsidInv
  <2>2. x # Invalid /\ \A s \in Spaces : asid'[s] = IF s = to[c] THEN x ELSE asid[s] BY Zenon, <1>a
  <2> QED BY Zenon, <2>1, <2>2, <1>b, UniqueFresh
<1>2. GenInv' BY <1>a, <1>n, <1>g DEF AsidInv, GenInv, is_valid, is_same_generation
<1>3. BitmapInv'
  <2>1. \A s \in Spaces : is_same_generation(asid[s], gen) => asid[s].n \in Int
    BY AsidAssumption DEF is_same_generation, is_valid, TypeInv, Maybe, Asids, Numbers
  <2> QED BY <2>1, <1>a, <1>f DEF AsidInv, BitmapInv, is_valid, is_same_generation
<1>4. HeldInv'
  BY <1>a, <1>n, <1>l, <1>h, <1>r DEF AsidInv, HeldInv, is_valid, is_same_generation
<1>o. \A e \in Cpus, y \in Asids : to[e] \in Spaces /\ OnlyFor(e, y) => OnlyFor(e, y)'
  BY Zenon, <1>a, <1>b, <1>f, OnlyForKept
<1>5. \A e \in Cpus : SwitchOf(e)'
  <2>1. \A e \in Cpus \ {c} : SwitchOf(e)'
    BY SMTT(30), <1>a, <1>n, <1>o, AsidAssumption DEF AsidInv, SwitchOf, is_valid, TypeInv, Maybe
  <2>2. SwitchOf(c)' BY Zenon, <1>a, AsidAssumption DEF SwitchOf
  <2> QED BY Zenon, <2>1, <2>2
<1>6. \A e \in Cpus : ActiveOf(e)'
  BY SMTT(30), <1>a, <1>n, <1>g DEF AsidInv, ActiveOf, is_valid
<1> QED BY Zenon, <1>1, <1>2, <1>3, <1>4, <1>5, <1>6 DEF AsidInv

LEMMA RenewInv ==
  ASSUME TypeInv, NoOverflow, AsidInv, NEW c \in Cpus, Renew(c)
  PROVE AsidInv'
<1> DEFINE x == asid[to[c]]
           u == Update(c)
<1>g. gen \in Nat /\ gen >= 1 /\ gen \in 0 .. Gens - 1 BY Zenon, GenType
<1>a. /\ UNCHANGED <<gen, bitmap, next_idx, lock, rolls, to, a>> /\ lock = Invalid
      /\ to[c] \in Spaces /\ x \in Asids /\ u \in Asids /\ u # Invalid /\ x # Invalid
      /\ u.g = gen /\ u.n = x.n /\ x.g # gen /\ x.n \in bitmap
      /\ ~is_same_generation(asid[to[c]], gen)
      /\ \E d \in Cpus : reserved[d] = x
      /\ \A s \in Spaces : asid'[s] = IF s = to[c] THEN u ELSE asid[s]
      /\ \A e \in Cpus : active'[e] = IF e = c THEN u ELSE active[e]
      /\ \A e \in Cpus : reserved'[e] = IF reserved[e] = x THEN u ELSE reserved[e]
      /\ flush' = flush \ {c}
      /\ \A e \in Cpus \ {c} : asid_pc'[e] = asid_pc[e]
      /\ asid_pc'[c] \in {"load", "tlb_flush"}
  <2>1. to[c] \in Spaces /\ x # Invalid BY Zenon DEF Renew, AtLock, IsReserved, is_valid, TypeInv
  <2>2. x \in Asids BY Zenon, <2>1 DEF TypeInv, Maybe
  <2>3. u \in Asids /\ u.g = gen /\ u.n = x.n BY Zenon, <2>2, <1>g DEF Asids, Update
  <2> QED BY Zenon, <2>1, <2>2, <2>3, AsidAssumption
          DEF Renew, AtLock, Finish, Goto, TypeInv, is_same_generation, is_valid, IsReserved
<1> HIDE DEF x, u
<1>n. Newest' = gen /\ Newest = gen BY Zenon, <1>a DEF Newest
<1>h. \A e \in Cpus : Held(e)' = reserved'[e] /\ Held(e) = reserved[e]
  BY Zenon, <1>a DEF Held
<1>v. \A y : Live(y) <=> \E s \in Spaces : asid[s] = y BY Zenon, <1>a DEF Live
<1>x. Live(x) BY Zenon, <1>v, <1>a DEF x
<1>k. \A e \in Cpus : is_valid(reserved[e]) /\ Live(reserved[e]) /\ reserved[e].n = x.n => reserved[e] = x
  BY <1>a, <1>h, <1>x DEF AsidInv, HeldInv, is_valid
<1>j. \A s \in Spaces : is_same_generation(asid[s], gen) => asid[s].n # x.n
  BY <1>a, <1>h, <1>x, <1>n DEF AsidInv, HeldInv, is_valid, is_same_generation
<1>b. \A s \in Spaces : asid[s] # u
  BY <1>a, <1>j DEF is_same_generation, is_valid
<1>l. \A y : Live(y)' /\ y # u => Live(y) /\ y # x
  <2>1. \A y : Live(y)' <=> \E s \in Spaces : asid'[s] = y BY Zenon, <1>a DEF Live
  <2>2. \A s \in Spaces : s # to[c] => asid[s] # x
    BY Zenon, <1>a DEF AsidInv, UniqueAsid, is_valid, x
  <2> QED BY Zenon, <2>1, <2>2, <1>v, <1>a
<1>1. UniqueAsid'
  <2>1. UniqueAsid BY Zenon DEF AsidInv
  <2>2. u # Invalid /\ \A s \in Spaces : asid'[s] = IF s = to[c] THEN u ELSE asid[s] BY Zenon, <1>a
  <2> QED BY Zenon, <2>1, <2>2, <1>b, UniqueFresh
<1>2. GenInv' BY <1>a, <1>n, <1>g DEF AsidInv, GenInv, is_valid, is_same_generation
<1>3. BitmapInv'
  BY <1>a DEF AsidInv, BitmapInv, is_valid, is_same_generation
<1>4. HeldInv'
  <2> DEFINE Now(e) == reserved'[e] # Invalid /\ \E s \in Spaces : asid'[s] = reserved'[e]
  <2>1. \A e \in Cpus : Now(e) => \/ reserved'[e] = u
                                  \/ /\ reserved'[e] = reserved[e] /\ Live(reserved[e])
                                     /\ reserved[e].n # x.n
    <3> SUFFICES ASSUME NEW e \in Cpus, Now(e), reserved'[e] # u
                 PROVE reserved'[e] = reserved[e] /\ Live(reserved[e]) /\ reserved[e].n # x.n
      OBVIOUS
    <3>1. reserved'[e] = reserved[e] /\ reserved[e] # x BY Zenon, <1>a
    <3>2. Live(reserved[e]) BY Zenon, <3>1, <1>v, <1>a
    <3> QED BY Zenon, <3>1, <3>2, <1>k DEF is_valid
  <2>2. ASSUME NEW d \in Cpus, NEW e \in Cpus, Now(d), Now(e), reserved'[d].n = reserved'[e].n
        PROVE reserved'[d] = reserved'[e]
    BY <2>1, <2>2, <1>a, <1>h DEF AsidInv, HeldInv, is_valid
  <2>3. ASSUME NEW s \in Spaces, NEW e \in Cpus, is_same_generation(asid'[s], gen), Now(e),
               asid'[s].n = reserved'[e].n
        PROVE asid'[s] = reserved'[e]
    BY SMTT(30), <2>1, <2>3, <1>a, <1>h, <1>n, <1>j DEF AsidInv, HeldInv, is_valid, is_same_generation
  <2>4. \A e \in Cpus : is_valid(Held(e))' /\ Live(Held(e))' => Now(e)
    BY Zenon, <1>a, <1>h DEF is_valid, Live
  <2> HIDE DEF Now
  <2> QED BY <2>2, <2>3, <2>4, <1>a, <1>n, <1>h DEF HeldInv, is_same_generation
<1>o. \A e \in Cpus, y \in Asids : to[e] \in Spaces /\ OnlyFor(e, y) => OnlyFor(e, y)'
  BY Zenon, <1>a, <1>b, OnlyForKept
<1>5. \A e \in Cpus : SwitchOf(e)'
  <2>1. \A e \in Cpus \ {c} : SwitchOf(e)'
    BY SMTT(30), <1>a, <1>n, <1>o, AsidAssumption DEF AsidInv, SwitchOf, is_valid, TypeInv, Maybe
  <2>2. SwitchOf(c)' BY Zenon, <1>a, AsidAssumption DEF SwitchOf
  <2> QED BY Zenon, <2>1, <2>2
<1>6. \A e \in Cpus : ActiveOf(e)'
  BY <1>a, <1>n, <1>g DEF AsidInv, ActiveOf, is_valid
<1> QED BY Zenon, <1>1, <1>2, <1>3, <1>4, <1>5, <1>6 DEF AsidInv

LEMMA StartInv ==
  ASSUME TypeInv, NoOverflow, AsidInv, ~Stale', NEW c \in Cpus, StartRollOver(c)
  PROVE AsidInv'
<1>g. gen \in Nat /\ gen >= 1 BY Zenon, GenType
<1>a. /\ UNCHANGED <<active, reserved, asid, to, a>> /\ lock = Invalid /\ lock' = c /\ c # Invalid
      /\ gen' = gen + 1 /\ bitmap' = {} /\ flush' = {} /\ to[c] \in Spaces
      /\ ~is_same_generation(asid[to[c]], gen)
      /\ \A e \in Cpus \ {c} : asid_pc'[e] = asid_pc[e]
      /\ asid_pc[c] \in {"alloc", "realloc"} /\ asid_pc'[c] = "roll_over"
  <2>1. gen' = gen + 1
    <3>1. gen + 3 <= Gens BY AsidAssumption DEF StartRollOver, TypeInv, NoOverflow
    <3> QED BY Zenon, <3>1, <1>g, NextGenIs DEF StartRollOver
  <2> QED BY Zenon, <2>1, AsidAssumption DEF StartRollOver, Goto, TypeInv
<1>n. Newest' = gen /\ Newest = gen BY <1>a, <1>g DEF Newest
<1>o. \A e \in Cpus, y \in Asids : OnlyFor(e, y)' <=> OnlyFor(e, y)
  BY Zenon, <1>a, <1>n DEF OnlyFor
<1>v. \A e \in Cpus : active[e] # Invalid => active[e] \in Asids BY Zenon DEF TypeInv, Maybe
<1>c. \A e \in Cpus : active[e] # Invalid =>
        active[e].g = gen \/ (e = c /\ OnlyFor(c, active[c]))
  <2>1. ASSUME NEW e \in Cpus \ {c}, active[e] # Invalid PROVE active[e].g = gen
    <3>1. NextGen(active[e].g) = gen' BY Zenon, <2>1, <1>a DEF Stale, is_valid
    <3>2. active[e].g <= gen BY Zenon, <2>1, <1>n DEF AsidInv, ActiveOf, is_valid
    <3>3. active[e].g \in Nat BY <2>1, <1>v, AsidAssumption DEF Asids
    <3>4. gen + 3 <= Gens BY AsidAssumption DEF StartRollOver, TypeInv, NoOverflow
    <3>5. active[e].g + 3 <= Gens BY <3>2, <3>3, <3>4, <1>g, AsidAssumption
    <3> QED BY <3>1, <3>2, <3>3, <3>5, <1>a, <1>g, NextGenIs
  <2>2. active[c] # Invalid => active[c].g = gen \/ OnlyFor(c, active[c])
    BY Zenon, <1>a, <1>n DEF AsidInv, ActiveOf, SwitchOf, is_valid
  <2> QED BY Zenon, <2>1, <2>2
<1>1. UniqueAsid' BY Zenon, <1>a DEF AsidInv, UniqueAsid, is_valid
<1>2. GenInv' BY Zenon, <1>a, <1>n DEF AsidInv, GenInv, is_valid, is_same_generation
<1>3. BitmapInv' BY Zenon, <1>a DEF AsidInv, BitmapInv, is_valid, is_same_generation
<1>4. HeldInv'
  <2> DEFINE H(e) == IF active[e] # Invalid THEN active[e] ELSE reserved[e]
             Now(e) == H(e) # Invalid /\ \E s \in Spaces : asid[s] = H(e) /\ s # to[c]
  <2>1. \A e \in Cpus : Held(e)' = H(e) BY Zenon, <1>a DEF Held, is_valid
  <2>2. \A e \in Cpus : is_valid(Held(e))' /\ Live(Held(e))' => Now(e)
    BY Zenon, <2>1, <1>a DEF Live, is_valid
  <2>3. \A e \in Cpus : Now(e) => \/ H(e) \in Asids /\ H(e).g = gen
                                  \/ H(e) = reserved[e] /\ Live(reserved[e])
    BY Zenon, <1>c, <1>v, <1>a DEF OnlyFor, Live
  <2>4. \A s \in Spaces, y \in Asids :
          /\ asid[s] # Invalid /\ asid[s].g = gen /\ y.g = gen /\ asid[s].n = y.n
          => asid[s] = y
    BY DEF TypeInv, Maybe, Asids
  <2>5. \A e \in Cpus : Held(e) = reserved[e] BY Zenon, <1>a DEF Held
  <2>6. \A e \in Cpus : Now(e) => \E s \in Spaces : asid[s] = H(e) OBVIOUS
  <2>9. \A e \in Cpus : Now(e) => H(e) # Invalid OBVIOUS
  <2> HIDE DEF Now, H
  <2>7. ASSUME NEW s \in Spaces, NEW e \in Cpus, is_same_generation(asid[s], gen), Now(e), asid[s].n = H(e).n
        PROVE asid[s] = H(e)
    BY SMTT(30), <2>3, <2>4, <2>5, <2>9, <2>7, <1>n DEF AsidInv, HeldInv, is_same_generation, is_valid
  <2>8. ASSUME NEW d \in Cpus, NEW e \in Cpus, Now(d), Now(e), H(d).n = H(e).n
        PROVE H(d) = H(e)
    BY <2>3, <2>5, <2>6, <2>7, <2>8, <2>9 DEF AsidInv, HeldInv, is_same_generation, is_valid
  <2> QED BY <2>1, <2>2, <2>7, <2>8, <1>a, <1>n DEF HeldInv, is_same_generation, is_valid
<1>5. \A e \in Cpus : SwitchOf(e)'
  <2>1. ASSUME NEW e \in Cpus \ {c} PROVE SwitchOf(e)'
    <3>1. asid_pc[e] = "set_active" => OnlyFor(e, a[e])'
      BY Zenon, <1>a, <1>o DEF AsidInv, SwitchOf, TypeInv
    <3>2. asid_pc[e] = "realloc" /\ is_valid(active[e]) => OnlyFor(e, active[e])'
      BY Zenon, <1>a, <1>o, <1>v DEF AsidInv, SwitchOf, is_valid
    <3> QED BY Zenon, <3>1, <3>2, <1>a, <1>n DEF AsidInv, SwitchOf, is_valid
  <2>2. SwitchOf(c)' BY Zenon, <1>a, <1>n, <1>o, <1>c, <1>v DEF SwitchOf, is_valid
  <2> QED BY Zenon, <2>1, <2>2
<1>6. \A e \in Cpus : ActiveOf(e)'
  BY Zenon, <1>a, <1>n, <1>g, <1>c DEF AsidInv, ActiveOf, is_valid
<1> QED BY Zenon, <1>1, <1>2, <1>3, <1>4, <1>5, <1>6 DEF AsidInv

LEMMA RollInv ==
  ASSUME TypeInv, NoOverflow, AsidInv, NEW c \in Cpus, NEW d \in Cpus, roll_over(c, d)
  PROVE AsidInv'
<1> DEFINE x == IF is_valid(active[d]) THEN active[d] ELSE reserved[d]
<1>a. /\ UNCHANGED <<gen, next_idx, asid, lock, a, to, rolls, asid_pc>> /\ lock = c /\ c # Invalid
      /\ d \notin flush /\ flush' = flush \cup {d}
      /\ bitmap' = IF is_valid(x) THEN bitmap \cup {x.n} ELSE bitmap
      /\ \A e \in Cpus : active'[e] = IF e = d THEN Invalid ELSE active[e]
      /\ \A e \in Cpus : reserved'[e] = IF e = d THEN x ELSE reserved[e]
  BY Zenon, AsidAssumption DEF roll_over, TypeInv
<1>n. Newest' = Newest BY Zenon, <1>a DEF Newest
<1>l. \A y : Live(y)' <=> Live(y) BY Zenon, <1>a DEF Live
<1>h. \A e \in Cpus : Held(e)' = Held(e) BY Zenon, <1>a DEF Held, is_valid
<1>1. UniqueAsid' BY Zenon, <1>a DEF AsidInv, UniqueAsid, is_valid
<1>2. GenInv' BY Zenon, <1>a, <1>n DEF AsidInv, GenInv, is_valid, is_same_generation
<1>3. BitmapInv' BY Zenon, <1>a DEF AsidInv, BitmapInv, is_valid
<1>4. HeldInv' BY Zenon, <1>a, <1>n, <1>l, <1>h, HeldFrame DEF AsidInv
<1>5. \A e \in Cpus : SwitchOf(e)'
  <2>1. \A e \in Cpus \ {d} : SwitchOf(e)' BY Zenon, <1>a, <1>n, SwitchFrame DEF AsidInv
  <2>2. SwitchOf(d)'
    <3>1. OnlyFor(d, a[d])' <=> OnlyFor(d, a[d]) BY Zenon, <1>a, <1>n DEF OnlyFor
    <3> QED BY Zenon, <3>1, <1>a, <1>n DEF AsidInv, SwitchOf, is_valid
  <2> QED BY Zenon, <2>1, <2>2
<1>6. \A e \in Cpus : ActiveOf(e)'
  BY Zenon, <1>a, <1>n DEF AsidInv, ActiveOf, is_valid
<1> QED BY Zenon, <1>1, <1>2, <1>3, <1>4, <1>5, <1>6 DEF AsidInv

LEMMA EndInv ==
  ASSUME TypeInv, NoOverflow, AsidInv, NEW c \in Cpus, NEW n \in FirstFree, End(c, n)
  PROVE AsidInv'
<1> DEFINE x == Fresh(n)
<1>g. gen \in Nat /\ gen >= 1 BY Zenon, GenType
<1>f. n \in Numbers /\ n \in Int /\ n \notin bitmap /\ x \in Asids
  <2>1. n \in Numbers /\ n \notin bitmap /\ x \in Asids BY Zenon, FirstFreeIs
  <2> QED BY <2>1, AsidAssumption DEF Numbers
<1>a. /\ UNCHANGED <<gen, bitmap, reserved, rolls, to, a>> /\ lock = c /\ c # Invalid /\ lock' = Invalid
      /\ to[c] \in Spaces /\ x # Invalid /\ x.g = gen /\ x.n = n /\ next_idx' = n + 1
      /\ \A s \in Spaces : asid'[s] = IF s = to[c] THEN x ELSE asid[s]
      /\ \A e \in Cpus : active'[e] = IF e = c THEN x ELSE active[e]
      /\ flush = Cpus /\ flush' = Cpus \ {c}
      /\ \A e \in Cpus \ {c} : asid_pc'[e] = asid_pc[e]
      /\ asid_pc'[c] = "tlb_flush"
  BY Zenon, <1>f, AsidAssumption DEF End, Finish, Goto, TypeInv, Fresh
<1>n. Newest' = gen /\ Newest = gen - 1 BY Zenon, <1>a DEF Newest
<1>i. \A s \in Spaces : asid[s] # Invalid => asid[s] \in Asids /\ asid[s].g \in Int /\ asid[s].g < gen
  BY <1>n, <1>g, AsidAssumption DEF AsidInv, GenInv, is_valid, TypeInv, Maybe, Asids
<1>b. \A s \in Spaces : asid[s] # x
  <2>1. ~(gen < gen) BY <1>g
  <2> QED BY Zenon, <2>1, <1>a, <1>i
<1>h. \A e \in Cpus : Held(e)' = reserved[e] /\ Held(e) = reserved[e]
  BY Zenon, <1>a DEF Held
<1>r. \A e \in Cpus : is_valid(reserved[e]) => reserved[e].n # n /\ reserved[e] # x
  <2>1. \A e \in Cpus : is_valid(reserved[e]) => reserved[e].n \in bitmap
    BY Zenon, <1>a DEF AsidInv, BitmapInv
  <2>2. \A y : y \in bitmap => y # n BY Zenon, <1>f
  <2>3. x.n = n BY Zenon, <1>a
  <2> HIDE DEF x
  <2> QED BY Zenon, <2>1, <2>2, <2>3
<1>l. \A y : Live(y)' /\ y # x => Live(y)
  <2> SUFFICES ASSUME NEW y, Live(y)', y # x PROVE Live(y) OBVIOUS
  <2>1. PICK s \in Spaces : asid'[s] = y BY Zenon DEF Live
  <2>2. s # to[c] /\ asid[s] = y BY Zenon, <2>1, <1>a
  <2> QED BY Zenon, <2>2, <1>a DEF Live
<1>1. UniqueAsid'
  <2>1. UniqueAsid BY Zenon DEF AsidInv
  <2>2. x # Invalid /\ \A s \in Spaces : asid'[s] = IF s = to[c] THEN x ELSE asid[s] BY Zenon, <1>a
  <2> QED BY Zenon, <2>1, <2>2, <1>b, UniqueFresh
<1>2. GenInv' BY <1>a, <1>n, <1>g, <1>i DEF AsidInv, GenInv, is_valid, is_same_generation
<1>3. BitmapInv'
  BY <1>a, <1>f, <1>i, <1>g DEF AsidInv, BitmapInv, is_valid, is_same_generation
<1>4. HeldInv'
  BY SMTT(30), <1>a, <1>n, <1>l, <1>h, <1>r, <1>i, <1>g DEF AsidInv, HeldInv, is_valid, is_same_generation
<1>o. \A e \in Cpus, y \in Asids : OnlyFor(e, y) /\ y.g <= gen - 1 => OnlyFor(e, y)'
  <2> SUFFICES ASSUME NEW e \in Cpus, NEW y \in Asids, OnlyFor(e, y), y.g <= gen - 1
               PROVE OnlyFor(e, y)'
    OBVIOUS
  <2>1. y.g \in Int BY AsidAssumption DEF Asids
  <2>2. y.g # gen BY <2>1, <1>g
  <2> QED BY Zenon, <2>2, <1>a, <1>n DEF OnlyFor
<1>5. \A e \in Cpus : SwitchOf(e)'
  <2>1. ASSUME NEW e \in Cpus \ {c} PROVE SwitchOf(e)'
    <3>1. asid_pc[e] = "set_active" => a[e] \in Asids /\ a[e].g <= gen - 1 /\ ~is_valid(active[e])
      BY Zenon, <1>a, <1>n DEF AsidInv, SwitchOf, TypeInv
    <3>2. is_valid(active[e]) => active[e] \in Asids /\ active[e].g <= gen - 1
      BY Zenon, <1>n DEF AsidInv, ActiveOf, is_valid, TypeInv, Maybe
    <3>3. \A y \in Asids : y.g <= gen - 1 => y.g <= gen BY <1>g, AsidAssumption DEF Asids
    <3>4. asid_pc[e] = "set_active" => OnlyFor(e, a[e]) BY Zenon DEF AsidInv, SwitchOf
    <3>5. asid_pc[e] = "realloc" /\ is_valid(active[e]) => OnlyFor(e, active[e]) BY Zenon DEF AsidInv, SwitchOf
    <3> QED BY Zenon, <3>1, <3>2, <3>3, <3>4, <3>5, <1>a, <1>n, <1>o, AsidAssumption DEF SwitchOf, is_valid
  <2>2. SwitchOf(c)' BY Zenon, <1>a, AsidAssumption DEF SwitchOf
  <2> QED BY Zenon, <2>1, <2>2
<1>6. \A e \in Cpus : ActiveOf(e)'
  BY SMTT(30), <1>a, <1>n, <1>g DEF AsidInv, ActiveOf, is_valid, TypeInv, Maybe, Asids
<1> QED BY Zenon, <1>1, <1>2, <1>3, <1>4, <1>5, <1>6 DEF AsidInv

LEMMA LoadKeeps ==
  ASSUME TypeInv, NoOverflow, AsidInv, NEW c \in Cpus, LoadSpace(c)
  PROVE AsidInv'
<1>a. /\ UNCHANGED <<gen, bitmap, next_idx, flush, active, reserved, lock, rolls, asid, a>>
      /\ \A e \in Cpus \ {c} : to'[e] = to[e] /\ asid_pc'[e] = asid_pc[e]
      /\ c # lock /\ asid_pc[c] \in {"load", "tlb_flush"} /\ asid_pc'[c] = "run"
      /\ lock # Invalid => lock \in Cpus /\ to'[lock] = to[lock]
  BY Zenon DEF LoadSpace, Goto, shared, TypeInv, Maybe
<1>n. Newest' = Newest BY Zenon, <1>a DEF Newest
<1>l. \A x : Live(x)' <=> Live(x) BY Zenon, <1>a DEF Live
<1>h. \A e \in Cpus : Held(e)' = Held(e) BY Zenon, <1>a DEF Held
<1>1. UniqueAsid' BY Zenon, <1>a DEF AsidInv, UniqueAsid, is_valid
<1>2. GenInv' BY Zenon, <1>a, <1>n DEF AsidInv, GenInv, is_valid, is_same_generation
<1>3. BitmapInv' BY Zenon, <1>a DEF AsidInv, BitmapInv, is_valid, is_same_generation
<1>4. HeldInv' BY Zenon, <1>a, <1>n, <1>l, <1>h, HeldFrame DEF AsidInv
<1>5. \A e \in Cpus : SwitchOf(e)'
  <2>1. \A e \in Cpus \ {c} : SwitchOf(e)' BY Zenon, <1>a, <1>n, SwitchFrame DEF AsidInv
  <2>2. SwitchOf(c)' BY Zenon, <1>a DEF SwitchOf
  <2> QED BY Zenon, <2>1, <2>2
<1>6. \A e \in Cpus : ActiveOf(e)'
  BY Zenon, <1>a, <1>n DEF AsidInv, ActiveOf, is_valid
<1> QED BY Zenon, <1>1, <1>2, <1>3, <1>4, <1>5, <1>6 DEF AsidInv

\* An ASID that its CPU holds is not active but for the newest generation, and is not
\* reserved but in the bitmap: a space in use keeps its number.
LEMMA UsersKeep ==
  ASSUME TypeInv, AsidInv, LoadInv, lock = Invalid, NEW e \in Cpus, NEW s \in Spaces, Uses(e, s),
         ~is_same_generation(asid[s], gen)
  PROVE ~is_valid(active[e]) /\ reserved[e] = asid[s] /\ IsReserved(asid[s])
<1>1. asid_pc[e] # "realloc" BY Zenon DEF Uses, Loads, Runs
<1>2. Newest = gen BY Zenon DEF Newest
<1>3. is_valid(asid[s]) /\ asid[s] = InUse(e) BY Zenon DEF LoadInv, UseOf
<1>4. ~is_valid(active[e])
  BY Zenon, <1>1, <1>2, <1>3 DEF AsidInv, ActiveOf, InUse, is_same_generation, is_valid
<1>5. reserved[e] = asid[s] BY Zenon, <1>3, <1>4 DEF InUse
<1>6. asid[s].n \in bitmap BY Zenon, <1>3, <1>5 DEF AsidInv, BitmapInv
<1> QED BY Zenon, <1>3, <1>4, <1>5, <1>6 DEF IsReserved

\* LoadInv is preserved by each of these steps.
LEMMA GetUse ==
  ASSUME TypeInv, NoOverflow, AsidInv, LoadInv, NEW c \in Cpus, NEW s \in Spaces, GetAsid(c, s)
  PROVE LoadInv'
<1>a. /\ UNCHANGED <<gen, flush, active, reserved, lock, asid, hw, tlb>>
      /\ \A e \in Cpus \ {c} : to'[e] = to[e] /\ asid_pc'[e] = asid_pc[e]
      /\ asid_pc[c] = "run" /\ asid_pc'[c] \in {"set_active", "alloc"}
      /\ lock # Invalid => to'[lock] = to[lock]
  BY DEF GetAsid, Goto, shared, TypeInv, Maybe
<1>n. Newest' = Newest BY Zenon, <1>a DEF Newest
<1>1. \A e \in Cpus : UseOf(e)'
  BY <1>a DEF LoadInv, UseOf, Uses, Loads, Runs, InUse, is_valid
<1>2. TlbInv' BY Zenon, <1>a, <1>n, AsidAssumption DEF LoadInv, TlbInv, is_valid
<1>3. NoForeignTlbHit' BY Zenon, <1>a, AsidAssumption DEF LoadInv, NoForeignTlbHit
<1> QED BY Zenon, <1>1, <1>2, <1>3 DEF LoadInv

\* The ASIDs of the newest generation differ in their numbers.
LEMMA NewestDiffer ==
  ASSUME TypeInv, AsidInv, NEW s \in Spaces, NEW g \in Int, asid[s] # Invalid, asid[s].g = g,
         \A e \in tlb : asid[e[2]] = [g |-> g, n |-> e[1]]
  PROVE \A e \in tlb : e[1] = asid[s].n => e[2] = s
<1> SUFFICES ASSUME NEW e \in tlb, e[1] = asid[s].n PROVE e[2] = s OBVIOUS
<1>1. e[2] \in Spaces BY Zenon DEF TypeInv
<1>2. asid[s] \in Asids BY Zenon DEF TypeInv, Maybe
<1>3. asid[s] = [g |-> g, n |-> e[1]] BY Zenon, <1>2 DEF Asids
<1> QED BY Zenon, <1>1, <1>3 DEF AsidInv, UniqueAsid, is_valid

LEMMA SetActiveUse ==
  ASSUME TypeInv, NoOverflow, AsidInv, LoadInv, NEW c \in Cpus, set_active_asid(c)
  PROVE LoadInv'
<1>a. /\ UNCHANGED <<gen, flush, reserved, lock, asid, to, hw, tlb>>
      /\ asid_pc[c] = "set_active" /\ a[c] \in Asids /\ a[c] # Invalid /\ c # lock
      /\ to[c] \in Spaces
      /\ \A e \in Cpus : active'[e] = IF e = c THEN a[c] ELSE active[e]
      /\ \A e \in Cpus \ {c} : asid_pc'[e] = asid_pc[e]
      /\ asid_pc'[c] = IF is_valid(active[c]) THEN "load" ELSE "realloc"
  BY Zenon, AsidAssumption DEF set_active_asid, Goto, shared, TypeInv
<1>n. Newest' = Newest BY Zenon, <1>a DEF Newest
<1>i. Newest \in Int BY GenType DEF Newest
<1>b. is_valid(active[c]) => /\ asid[to[c]] = a[c] /\ a[c].g = Newest
                             /\ lock = Invalid \/ (c \notin flush /\ to[c] # to[lock])
  BY <1>a DEF AsidInv, SwitchOf, OnlyFor, GenInv, is_same_generation, is_valid
<1>1. \A e \in Cpus : UseOf(e)'
  <2>1. ASSUME NEW e \in Cpus \ {c} PROVE UseOf(e)'
    <3>1. \A s \in Spaces : (Uses(e, s)' <=> Uses(e, s)) /\ (Runs(e, s)' <=> Runs(e, s))
      BY Zenon, <1>a DEF Uses, Loads, Runs
    <3>2. InUse(e)' = InUse(e) BY Zenon, <1>a DEF InUse, is_valid
    <3>3. UseOf(e) BY Zenon DEF LoadInv
    <3> QED BY Zenon, <3>1, <3>2, <3>3, <1>a DEF UseOf, is_valid
  <2>2. UseOf(c)' BY Zenon, <1>a, <1>b DEF UseOf, Uses, Loads, Runs, InUse, is_valid
  <2> QED BY Zenon, <2>1, <2>2
<1>2. TlbInv'
  <2>1. CASE c # Watched BY Zenon, <2>1, <1>a, <1>n, AsidAssumption DEF LoadInv, TlbInv, is_valid
  <2>2. CASE c = Watched /\ ~is_valid(active[c])
    BY Zenon, <2>2, <1>a, <1>n DEF LoadInv, TlbInv, is_valid
  <2>3. CASE c = Watched /\ is_valid(active[c])
    <3>1. \A e \in tlb : asid[e[2]] = [g |-> Newest, n |-> e[1]]
      BY Zenon, <2>3, <1>a, <1>b DEF LoadInv, TlbInv
    <3>2. \A e \in tlb : e[1] = asid[to[c]].n => e[2] = to[c]
      BY <3>1, <2>3, <1>a, <1>b, <1>i, NewestDiffer
    <3> QED BY Zenon, <3>1, <3>2, <2>3, <1>a, <1>n DEF TlbInv, is_valid
  <2> QED BY Zenon, <2>1, <2>2, <2>3
<1>3. NoForeignTlbHit' BY Zenon, <1>a, AsidAssumption DEF LoadInv, NoForeignTlbHit
<1> QED BY Zenon, <1>1, <1>2, <1>3 DEF LoadInv

\* The end of alloc_asid() without a roll-over: the space gets ASID x of the current
\* generation, the spaces in use keep their numbers, and those of the newest
\* generation their ASIDs.
LEMMA AllocUse ==
  ASSUME TypeInv, NoOverflow, AsidInv, AsidInv', TypeInv', LoadInv, NEW c \in Cpus, NEW x \in Asids,
         AtLock(c), x.g = gen, Finish(c, x, flush),
         \A e \in Cpus \ {c}, s \in Spaces : Uses(e, s) =>
            /\ asid'[s] = InUse(e)' /\ asid'[s].n = asid[s].n,
         \A s \in Spaces : is_same_generation(asid[s], gen) => asid'[s] = asid[s]
  PROVE LoadInv'
<1>g. gen \in Int BY GenType
<1>a. /\ UNCHANGED <<gen, lock, to, hw, tlb>> /\ lock = Invalid
      /\ asid_pc[c] \in {"alloc", "realloc"} /\ to[c] \in Spaces /\ x # Invalid
      /\ \A s \in Spaces : asid'[s] = IF s = to[c] THEN x ELSE asid[s]
      /\ \A e \in Cpus : active'[e] = IF e = c THEN x ELSE active[e]
      /\ flush' = flush \ {c}
      /\ \A e \in Cpus \ {c} : asid_pc'[e] = asid_pc[e]
      /\ asid_pc'[c] = IF c \in flush THEN "tlb_flush" ELSE "load"
  BY SMTT(30), AsidAssumption DEF AtLock, Finish, Goto, TypeInv
<1>n. Newest' = gen /\ Newest = gen BY Zenon, <1>a DEF Newest
<1>1. \A e \in Cpus : UseOf(e)'
  <2>1. ASSUME NEW e \in Cpus \ {c} PROVE UseOf(e)'
    <3>1. \A s \in Spaces : (Uses(e, s)' <=> Uses(e, s)) /\ (Runs(e, s)' <=> Runs(e, s))
      BY Zenon, <1>a DEF Uses, Loads, Runs
    <3>2. \A s \in Spaces : Uses(e, s) => is_valid(asid[s])
      BY Zenon DEF LoadInv, UseOf
    <3>3. \A s \in Spaces : Uses(e, s) => is_valid(asid'[s])
      BY Zenon, <3>2, <1>a DEF is_valid
    <3>4. \A s \in Spaces : Uses(e, s) /\ Runs(e, s) => asid[s].n = hw[e][1]
      BY Zenon DEF LoadInv, UseOf
    <3>5. asid_pc[e] \in {"load", "tlb_flush"} /\ e \notin flush => is_valid(active[e])
      BY Zenon, <1>a DEF LoadInv, UseOf
    <3> QED BY <3>1, <3>3, <3>4, <3>5, <1>a DEF UseOf, is_valid
  <2>2. UseOf(c)' BY Zenon, <1>a DEF UseOf, Uses, Loads, Runs, InUse, is_valid
  <2> QED BY Zenon, <2>1, <2>2
<1>2. TlbInv'
  <2>0. \A e \in tlb : e[2] \in Spaces BY DEF TypeInv
  <2>k. ASSUME \A e \in tlb : asid[e[2]] = [g |-> gen, n |-> e[1]]
        PROVE \A e \in tlb : asid'[e[2]] = [g |-> gen, n |-> e[1]]
    <3> SUFFICES ASSUME NEW e \in tlb PROVE asid'[e[2]] = [g |-> gen, n |-> e[1]] OBVIOUS
    <3> DEFINE y == [g |-> gen, n |-> e[1]]
    <3>1. asid[e[2]] = y /\ y.g = gen BY Zenon, <2>k
    <3>2. y # Invalid
      <4>1. e[1] \in Numbers BY Zenon DEF TypeInv
      <4>2. gen \in 0 .. Gens - 1 BY Zenon, GenType
      <4>3. y \in Asids BY Zenon, <4>1, <4>2 DEF Asids
      <4> QED BY Zenon, <4>3, AsidAssumption
    <3> HIDE DEF y
    <3>3. is_same_generation(asid[e[2]], gen) BY Zenon, <3>1, <3>2 DEF is_same_generation, is_valid
    <3> QED BY Zenon, <3>1, <3>3, <2>0 DEF y
  <2>1. CASE c # Watched
    <3>1. asid_pc[Watched] = "load" => asid'[to[Watched]].n = asid[to[Watched]].n
      BY Zenon, <2>1, AsidAssumption DEF TypeInv, Uses, Loads
    <3>2. Watched \in Cpus \ {c} BY Zenon, <2>1, AsidAssumption
    <3> QED BY SMTT(30), <3>1, <3>2, <2>k, <1>a, <1>n DEF LoadInv, TlbInv, is_valid
  <2>2. CASE c = Watched /\ c \in flush
    BY Zenon, <2>2, <1>a DEF TlbInv, is_valid
  <2>3. CASE c = Watched /\ c \notin flush
    <3>1. \A e \in tlb : asid'[e[2]] = [g |-> gen, n |-> e[1]]
      BY Zenon, <2>3, <2>k, <1>a, <1>n DEF LoadInv, TlbInv
    <3>2. \A e \in tlb : e[1] = x.n => e[2] = to[c]
      <4> SUFFICES ASSUME NEW e \in tlb, e[1] = x.n, e[2] # to[c] PROVE FALSE OBVIOUS
      <4>1. x = [g |-> gen, n |-> e[1]] BY Zenon DEF Asids
      <4>2. asid'[e[2]] = x /\ asid'[to[c]] = x BY Zenon, <4>1, <3>1, <1>a
      <4>3. UniqueAsid' BY Zenon DEF AsidInv
      <4>4. e[2] \in Spaces /\ to[c] \in Spaces /\ x # Invalid BY Zenon, <2>0, <1>a
      <4>5. \A s, t \in Spaces : s # t /\ asid'[s] # Invalid => asid'[s] # asid'[t]
        BY Zenon, <4>3 DEF UniqueAsid, is_valid
      <4>6. asid'[e[2]] # Invalid BY Zenon, <4>2, <4>4
      <4>7. asid'[e[2]] # asid'[to[c]] BY Zenon, <4>4, <4>5, <4>6
      <4> QED BY Zenon, <4>2, <4>7
    <3> QED BY Zenon, <3>1, <3>2, <2>3, <1>a, <1>n DEF TlbInv, is_valid
  <2> QED BY Zenon, <2>1, <2>2, <2>3
<1>3. NoForeignTlbHit' BY Zenon, <1>a, AsidAssumption DEF LoadInv, NoForeignTlbHit
<1> QED BY Zenon, <1>1, <1>2, <1>3 DEF LoadInv

LEMMA KeepUse ==
  ASSUME TypeInv, NoOverflow, AsidInv, LoadInv, NEW c \in Cpus, Keep(c)
  PROVE LoadInv'
<1>0. TypeInv' /\ AsidInv' BY Zenon, KeepTypes, KeepInv
<1>1. AtLock(c) /\ Finish(c, asid[to[c]], flush) /\ UNCHANGED reserved BY Zenon DEF Keep
<1>2. asid[to[c]] \in Asids /\ asid[to[c]].g = gen
  BY Zenon DEF Keep, AtLock, is_same_generation, is_valid, TypeInv, Maybe
<1>3. UNCHANGED asid BY Zenon, <1>1 DEF Finish, TypeInv
<1>4. \A e \in Cpus \ {c}, s \in Spaces : Uses(e, s) => asid'[s] = InUse(e)' /\ asid'[s].n = asid[s].n
  BY SMTT(30), <1>1, <1>3 DEF LoadInv, UseOf, InUse, Finish, is_valid, TypeInv
<1> QED BY Zenon, <1>0, <1>1, <1>2, <1>3, <1>4, AllocUse

LEMMA RenewUse ==
  ASSUME TypeInv, NoOverflow, AsidInv, LoadInv, NEW c \in Cpus, Renew(c)
  PROVE LoadInv'
<1> DEFINE x == asid[to[c]]
           u == Update(c)
<1>0. TypeInv' /\ AsidInv' BY Zenon, RenewTypes, RenewInv
<1>1. AtLock(c) /\ Finish(c, u, flush) BY Zenon DEF Renew
<1>2. u \in Asids /\ u.g = gen /\ u.n = x.n
  <2>1. x \in Asids BY Zenon DEF Renew, AtLock, IsReserved, is_valid, TypeInv, Maybe
  <2>2. gen \in 0 .. Gens - 1 BY Zenon, GenType
  <2> QED BY Zenon, <2>1, <2>2 DEF Asids, Update
<1>a. /\ lock = Invalid /\ to[c] \in Spaces /\ x # Invalid /\ ~is_same_generation(x, gen)
      /\ \A s \in Spaces : asid'[s] = IF s = to[c] THEN u ELSE asid[s]
      /\ \A e \in Cpus : active'[e] = IF e = c THEN u ELSE active[e]
      /\ \A e \in Cpus : reserved'[e] = IF reserved[e] = x THEN u ELSE reserved[e]
  BY Zenon DEF Renew, AtLock, Finish, IsReserved, is_valid, TypeInv
<1>3. \A s \in Spaces : is_same_generation(asid[s], gen) => asid'[s] = asid[s] BY Zenon, <1>a
<1>4. ASSUME NEW e \in Cpus \ {c}, NEW s \in Spaces, Uses(e, s)
      PROVE asid'[s] = InUse(e)' /\ asid'[s].n = asid[s].n
  <2>1. asid[s] = InUse(e) /\ is_valid(asid[s]) BY Zenon, <1>4 DEF LoadInv, UseOf
  <2>2. CASE s = to[c]
    <3>1. ~is_valid(active[e]) /\ reserved[e] = x BY Zenon, <2>2, <1>4, <1>a, UsersKeep
    <3> QED BY Zenon, <3>1, <2>2, <1>a, <1>2 DEF InUse, is_valid
  <2>3. CASE s # to[c]
    <3>1. asid[s] # x BY Zenon, <2>3, <2>1, <1>a DEF AsidInv, UniqueAsid
    <3> QED BY Zenon, <3>1, <2>1, <2>3, <1>a DEF InUse, is_valid
  <2> QED BY Zenon, <2>2, <2>3
<1> HIDE DEF u
<1> QED BY Zenon, <1>0, <1>1, <1>2, <1>3, <1>4, AllocUse

LEMMA TakeUse ==
  ASSUME TypeInv, NoOverflow, AsidInv, LoadInv, NEW c \in Cpus, NEW n \in FirstFree, Take(c, n)
  PROVE LoadInv'
<1> DEFINE x == Fresh(n)
<1>0. TypeInv' /\ AsidInv' BY Zenon, TakeTypes, TakeInv
<1>1. AtLock(c) /\ Finish(c, x, flush) BY Zenon DEF Take
<1>2. x \in Asids /\ x.g = gen BY Zenon, FirstFreeIs DEF Fresh
<1>a. /\ lock = Invalid /\ to[c] \in Spaces /\ UNCHANGED reserved
      /\ ~is_same_generation(asid[to[c]], gen) /\ ~IsReserved(asid[to[c]])
      /\ \A s \in Spaces : asid'[s] = IF s = to[c] THEN x ELSE asid[s]
      /\ \A e \in Cpus : active'[e] = IF e = c THEN x ELSE active[e]
  BY Zenon DEF Take, AtLock, Finish, TypeInv
<1>3. \A s \in Spaces : is_same_generation(asid[s], gen) => asid'[s] = asid[s] BY Zenon, <1>a
<1>4. ASSUME NEW e \in Cpus \ {c}, NEW s \in Spaces, Uses(e, s)
      PROVE asid'[s] = InUse(e)' /\ asid'[s].n = asid[s].n
  <2>1. asid[s] = InUse(e) BY Zenon, <1>4 DEF LoadInv, UseOf
  <2>2. s # to[c] BY Zenon, <1>4, <1>a, UsersKeep
  <2> QED BY Zenon, <2>1, <2>2, <1>a DEF InUse, is_valid
<1> HIDE DEF x
<1> QED BY Zenon, <1>0, <1>1, <1>2, <1>3, <1>4, AllocUse

LEMMA StartUse ==
  ASSUME TypeInv, NoOverflow, AsidInv, LoadInv, NEW c \in Cpus, StartRollOver(c)
  PROVE LoadInv'
<1>g. gen \in Nat /\ gen >= 1 BY Zenon, GenType
<1>a. /\ UNCHANGED <<active, reserved, asid, to, hw, tlb>> /\ lock = Invalid /\ lock' = c
      /\ c # Invalid /\ gen' = gen + 1 /\ flush' = {} /\ to[c] \in Spaces
      /\ ~is_same_generation(asid[to[c]], gen) /\ ~IsReserved(asid[to[c]])
      /\ \A e \in Cpus \ {c} : asid_pc'[e] = asid_pc[e]
      /\ asid_pc'[c] = "roll_over"
  <2>1. gen' = gen + 1
    <3>1. gen + 3 <= Gens BY SMTT(30), AsidAssumption DEF StartRollOver, TypeInv, NoOverflow
    <3> QED BY Zenon, <3>1, <1>g, NextGenIs DEF StartRollOver
  <2> QED BY Zenon, <2>1, AsidAssumption DEF StartRollOver, Goto, TypeInv
<1>n. Newest' = gen /\ Newest = gen BY SMTT(30), <1>a, <1>g DEF Newest
<1>u. \A e \in Cpus, s \in Spaces : Uses(e, s) => s # to[c] BY Zenon, <1>a, UsersKeep
<1>1. \A e \in Cpus : UseOf(e)'
  <2>1. ASSUME NEW e \in Cpus \ {c} PROVE UseOf(e)'
    <3>1. \A s \in Spaces : (Uses(e, s)' <=> Uses(e, s)) /\ (Runs(e, s)' <=> Runs(e, s))
      BY Zenon, <1>a DEF Uses, Loads, Runs
    <3>2. InUse(e)' = InUse(e) BY Zenon, <1>a DEF InUse, is_valid
    <3>3. UseOf(e) BY Zenon DEF LoadInv
    <3> QED BY Zenon, <3>1, <3>2, <3>3, <1>a, <1>u DEF UseOf, is_valid
  <2>2. UseOf(c)' BY Zenon, <1>a DEF UseOf, Uses, Loads, Runs
  <2> QED BY Zenon, <2>1, <2>2
<1>2. TlbInv' BY Zenon, <1>a, <1>n, AsidAssumption DEF LoadInv, TlbInv, is_valid
<1>3. NoForeignTlbHit' BY Zenon, <1>a, AsidAssumption DEF LoadInv, NoForeignTlbHit
<1> QED BY Zenon, <1>1, <1>2, <1>3 DEF LoadInv

LEMMA RollUse ==
  ASSUME TypeInv, AsidInv, LoadInv, NEW c \in Cpus, NEW d \in Cpus, roll_over(c, d)
  PROVE LoadInv'
<1>a. /\ UNCHANGED <<gen, asid, lock, to, hw, tlb, asid_pc>> /\ lock = c /\ c # Invalid
      /\ flush' = flush \cup {d}
      /\ \A e \in Cpus : active'[e] = IF e = d THEN Invalid ELSE active[e]
      /\ \A e \in Cpus : reserved'[e] = IF e = d THEN InUse(d) ELSE reserved[e]
  BY Zenon, AsidAssumption DEF roll_over, TypeInv, InUse
<1>n. Newest' = Newest BY Zenon, <1>a DEF Newest
<1>1. \A e \in Cpus : UseOf(e)'
  <2>1. \A e \in Cpus : InUse(e)' = InUse(e) BY Zenon, <1>a DEF InUse, is_valid
  <2>2. \A e \in Cpus, s \in Spaces : (Uses(e, s)' <=> Uses(e, s)) /\ (Runs(e, s)' <=> Runs(e, s))
    BY Zenon, <1>a DEF Uses, Loads, Runs
  <2>3. ASSUME NEW e \in Cpus PROVE UseOf(e)'
    <3>1. UseOf(e) BY Zenon DEF LoadInv
    <3> QED BY Zenon, <3>1, <2>1, <2>2, <1>a DEF UseOf, is_valid
  <2> QED BY Zenon, <2>3
<1>2. TlbInv' BY Zenon, <1>a, <1>n, AsidAssumption DEF LoadInv, TlbInv, is_valid
<1>3. NoForeignTlbHit' BY Zenon, <1>a DEF LoadInv, NoForeignTlbHit
<1> QED BY Zenon, <1>1, <1>2, <1>3 DEF LoadInv

LEMMA EndUse ==
  ASSUME TypeInv, NoOverflow, AsidInv, LoadInv, NEW c \in Cpus, NEW n \in FirstFree, End(c, n)
  PROVE LoadInv'
<1> DEFINE x == Fresh(n)
<1>a. /\ UNCHANGED <<gen, reserved, to, hw, tlb>> /\ lock = c /\ c # Invalid /\ lock' = Invalid
      /\ to[c] \in Spaces /\ x # Invalid
      /\ \A s \in Spaces : asid'[s] = IF s = to[c] THEN x ELSE asid[s]
      /\ \A e \in Cpus : active'[e] = IF e = c THEN x ELSE active[e]
      /\ flush = Cpus /\ flush' = Cpus \ {c}
      /\ \A e \in Cpus \ {c} : asid_pc'[e] = asid_pc[e]
      /\ asid_pc'[c] = "tlb_flush"
  <2>1. x \in Asids BY Zenon, FirstFreeIs
  <2> QED BY Zenon, <2>1, AsidAssumption DEF End, Finish, Goto, TypeInv
<1>u. \A e \in Cpus, s \in Spaces : Uses(e, s) => s # to[c]
  BY Zenon, <1>a DEF LoadInv, UseOf
<1>1. \A e \in Cpus : UseOf(e)'
  <2>1. ASSUME NEW e \in Cpus \ {c} PROVE UseOf(e)'
    <3>1. \A s \in Spaces : (Uses(e, s)' <=> Uses(e, s)) /\ (Runs(e, s)' <=> Runs(e, s))
      BY Zenon, <1>a DEF Uses, Loads, Runs
    <3>2. InUse(e)' = InUse(e) BY Zenon, <1>a DEF InUse, is_valid
    <3>3. \A s \in Spaces : Uses(e, s) => asid'[s] = asid[s] BY Zenon, <1>a, <1>u
    <3>4. UseOf(e) /\ e # c BY Zenon DEF LoadInv
    <3> QED BY Zenon, <3>1, <3>2, <3>3, <3>4, <1>a DEF UseOf, is_valid
  <2>2. UseOf(c)' BY Zenon, <1>a DEF UseOf, Uses, Loads, Runs, InUse, is_valid
  <2> QED BY Zenon, <2>1, <2>2
<1>2. TlbInv'
  <2>1. CASE c = Watched BY Zenon, <2>1, <1>a DEF TlbInv, is_valid
  <2>2. CASE c # Watched
    <3>1. is_valid(active[Watched]) => asid_pc[Watched] = "realloc"
      BY Zenon, <1>a, AsidAssumption DEF AsidInv, ActiveOf
    <3>2. asid_pc[Watched] = "load" => to[Watched] \in Spaces /\ to[Watched] # to[c]
      BY Zenon, <1>u, AsidAssumption DEF Uses, Loads, TypeInv
    <3>3. Watched \in Cpus \ {c} BY Zenon, <2>2, AsidAssumption
    <3> QED BY Zenon, <3>1, <3>2, <3>3, <1>a DEF LoadInv, TlbInv, is_valid
  <2> QED BY Zenon, <2>1, <2>2
<1>3. NoForeignTlbHit' BY Zenon, <1>a, AsidAssumption DEF LoadInv, NoForeignTlbHit
<1> QED BY Zenon, <1>1, <1>2, <1>3 DEF LoadInv

LEMMA LoadUse ==
  ASSUME TypeInv, AsidInv, LoadInv, NEW c \in Cpus, LoadSpace(c)
  PROVE LoadInv'
<1> DEFINE h == <<asid[to[c]].n, to[c]>>
<1>a. /\ UNCHANGED <<gen, flush, active, reserved, lock, asid>>
      /\ \A e \in Cpus \ {c} : to'[e] = to[e] /\ asid_pc'[e] = asid_pc[e] /\ hw'[e] = hw[e]
      /\ asid_pc[c] \in {"load", "tlb_flush"} /\ asid_pc'[c] = "run"
      /\ to[c] \in Spaces /\ asid[to[c]] \in Asids
      /\ hw'[c] = h /\ h \in Numbers \X Spaces /\ h[1] = asid[to[c]].n /\ h[2] = to[c]
      /\ tlb' = IF c # Watched THEN tlb
                ELSE (IF asid_pc[c] = "tlb_flush" THEN {} ELSE tlb) \cup {h}
      /\ c # lock /\ (lock # Invalid => to'[lock] = to[lock])
  BY Zenon DEF LoadSpace, Goto, shared, TypeInv, Maybe, Asids
<1> HIDE DEF h
<1>n. Newest' = Newest BY Zenon, <1>a DEF Newest
<1>u. /\ asid[to[c]] = InUse(c) /\ asid[to[c]] # Invalid /\ (lock # Invalid => to[c] # to[lock])
      /\ lock = Invalid /\ c \notin flush => is_valid(active[c])
  BY Zenon, <1>a DEF LoadInv, UseOf, Uses, Loads, is_valid
<1>1. \A e \in Cpus : UseOf(e)'
  <2>1. ASSUME NEW e \in Cpus \ {c} PROVE UseOf(e)'
    <3>1. \A s \in Spaces : (Uses(e, s)' <=> Uses(e, s)) /\ (Runs(e, s)' <=> Runs(e, s))
      BY Zenon, <1>a DEF Uses, Loads, Runs
    <3>2. InUse(e)' = InUse(e) BY Zenon, <1>a DEF InUse, is_valid
    <3>3. UseOf(e) BY Zenon DEF LoadInv
    <3>4. /\ asid_pc'[e] = asid_pc[e] /\ hw'[e] = hw[e] /\ UNCHANGED <<asid, active, lock, flush>>
          /\ lock # Invalid => to'[lock] = to[lock]
      BY Zenon, <1>a
    <3> QED BY Zenon, <3>1, <3>2, <3>3, <3>4 DEF UseOf, is_valid
  <2>2. UseOf(c)'
    <3>1. \A s \in Spaces : Uses(c, s)' => s = to[c] BY Zenon, <1>a DEF Uses, Loads, Runs
    <3>2. InUse(c)' = InUse(c) BY Zenon, <1>a DEF InUse, is_valid
    <3> QED BY Zenon, <3>1, <3>2, <1>a, <1>u DEF UseOf, is_valid
  <2> QED BY Zenon, <2>1, <2>2
<1>2. TlbInv'
  <2>1. CASE c # Watched BY <2>1, <1>a, <1>n, AsidAssumption DEF LoadInv, TlbInv, is_valid
  <2>2. CASE c = Watched
    <3>1. ASSUME is_valid(active[c]), lock = Invalid \/ c \notin flush
          PROVE asid[to[c]] = [g |-> Newest, n |-> h[1]]
      <4>1. asid[to[c]] = active[c] BY Zenon, <3>1, <1>u DEF InUse
      <4>2. active[c].g = Newest BY Zenon, <3>1, <1>a DEF AsidInv, ActiveOf
      <4> QED BY Zenon, <4>1, <4>2, <1>a DEF Asids
    <3>2. ASSUME is_valid(active[c]), lock = Invalid \/ c \notin flush
          PROVE \A e \in tlb' : asid[e[2]] = [g |-> Newest, n |-> e[1]]
      <4>1. \A e \in tlb' : e = h \/ (e \in tlb /\ asid_pc[c] = "load") BY Zenon, <2>2, <1>a
      <4>2. asid_pc[c] = "load" => \A e \in tlb : asid[e[2]] = [g |-> Newest, n |-> e[1]]
        BY Zenon, <3>2, <2>2, <1>a DEF LoadInv, TlbInv
      <4>3. asid[h[2]] = [g |-> Newest, n |-> h[1]] BY Zenon, <3>1, <3>2, <1>a
      <4> QED BY Zenon, <4>1, <4>2, <4>3
    <3> QED BY Zenon, <3>2, <2>2, <1>a, <1>n, <1>u DEF TlbInv, is_valid
  <2> QED BY Zenon, <2>1, <2>2
<1>3. NoForeignTlbHit'
  <2>1. CASE c # Watched BY <2>1, <1>a, AsidAssumption DEF LoadInv, NoForeignTlbHit
  <2>2. CASE c = Watched BY <2>2, <1>a DEF LoadInv, TlbInv, NoForeignTlbHit
  <2> QED BY Zenon, <2>1, <2>2
<1> QED BY Zenon, <1>1, <1>2, <1>3 DEF LoadInv

-------------------------------------------------------------------------------
(* The theorems *)

\* The invariants hold when the first CPU comes up, and after each step.
LEMMA AsidStart == AsidInit => TypeInv /\ AsidInv /\ LoadInv
<1> SUFFICES ASSUME AsidInit PROVE TypeInv /\ AsidInv /\ LoadInv OBVIOUS
<1>1. TypeInv BY Zenon, TypeInit
<1>2. UniqueAsid BY Zenon DEF AsidInit, UniqueAsid, is_valid
<1>3. GenInv BY Zenon DEF AsidInit, GenInv, is_valid
<1>4. BitmapInv BY Zenon DEF AsidInit, BitmapInv, is_valid, is_same_generation
<1>5. HeldInv BY Zenon DEF AsidInit, HeldInv, Held, is_valid
<1>6. \A c \in Cpus : SwitchOf(c) /\ ActiveOf(c)
  BY Zenon, AsidAssumption DEF AsidInit, SwitchOf, ActiveOf, is_valid
<1>7. \A c \in Cpus : UseOf(c) BY Zenon DEF AsidInit, UseOf, Uses, Loads, Runs
<1>8. TlbInv BY Zenon, AsidAssumption DEF AsidInit, TlbInv, is_valid
<1>9. NoForeignTlbHit BY Zenon DEF AsidInit, NoForeignTlbHit
<1> QED BY Zenon, <1>1, <1>2, <1>3, <1>4, <1>5, <1>6, <1>7, <1>8, <1>9 DEF AsidInv, LoadInv

LEMMA StepTypes ==
  ASSUME NoOverflow, TypeInv, [AsidNext]_asid_vars
  PROVE TypeInv'
<1>1. CASE AsidNext
  <2>1. PICK c \in Cpus :
          \/ \E s \in Spaces : GetAsid(c, s)
          \/ set_active_asid(c)
          \/ alloc_asid(c) \/ StartRollOver(c) \/ EndRollOver(c)
          \/ \E d \in Cpus : roll_over(c, d)
          \/ LoadSpace(c)
    BY Zenon, <1>1 DEF AsidNext, AsidStep
  <2>2. CASE alloc_asid(c) BY Zenon, <2>2, AllocCases, KeepTypes, RenewTypes, TakeTypes
  <2>3. CASE EndRollOver(c) BY Zenon, <2>3, EndCases, EndTypes
  <2> QED
    BY Zenon, <2>1, <2>2, <2>3, GetAsidTypes, SetActiveTypes, StartTypes, RollTypes, LoadTypes
<1>2. CASE UNCHANGED asid_vars BY Zenon, <1>2 DEF asid_vars, TypeInv
<1> QED BY Zenon, <1>1, <1>2

LEMMA StepKeeps ==
  ASSUME NoOverflow, TypeInv, AsidInv, LoadInv, ~Stale', AsidNext
  PROVE AsidInv' /\ LoadInv'
<1>1. PICK c \in Cpus :
        \/ \E s \in Spaces : GetAsid(c, s)
        \/ set_active_asid(c)
        \/ alloc_asid(c) \/ StartRollOver(c) \/ EndRollOver(c)
        \/ \E d \in Cpus : roll_over(c, d)
        \/ LoadSpace(c)
  BY Zenon DEF AsidNext, AsidStep
<1>2. CASE \E s \in Spaces : GetAsid(c, s) BY Zenon, <1>2, GetInv, GetUse
<1>3. CASE set_active_asid(c) BY Zenon, <1>3, SetActiveInv, SetActiveUse
<1>4. CASE Keep(c) BY Zenon, <1>4, KeepInv, KeepUse
<1>5. CASE Renew(c) BY Zenon, <1>5, RenewInv, RenewUse
<1>6. CASE \E n \in FirstFree : Take(c, n) BY Zenon, <1>6, TakeInv, TakeUse
<1>7. CASE StartRollOver(c) BY Zenon, <1>7, StartInv, StartUse
<1>8. CASE \E n \in FirstFree : End(c, n) BY Zenon, <1>8, EndInv, EndUse
<1>9. CASE \E d \in Cpus : roll_over(c, d) BY Zenon, <1>9, RollInv, RollUse
<1>10. CASE LoadSpace(c) BY Zenon, <1>10, LoadKeeps, LoadUse
<1> QED
  BY Zenon, <1>1, <1>2, <1>3, <1>4, <1>5, <1>6, <1>7, <1>8, <1>9, <1>10, AllocCases, EndCases

LEMMA StutterKeeps ==
  ASSUME AsidInv, LoadInv, UNCHANGED asid_vars
  PROVE AsidInv' /\ LoadInv'
<1>0. UNCHANGED <<gen, bitmap, next_idx, flush, active, reserved, asid, lock, a, to, hw,
                  tlb, rolls, asid_pc>>
  BY Zenon DEF asid_vars
<1>1. AsidInv'
  <2>1. Newest' = Newest /\ (\A x : Live(x)' <=> Live(x)) BY Zenon, <1>0 DEF Newest, Live
  <2>2. \A e \in Cpus : Held(e)' = Held(e) BY Zenon, <1>0 DEF Held
  <2>3. (UniqueAsid /\ GenInv /\ BitmapInv)'
    BY Zenon, <1>0, <2>1 DEF AsidInv, UniqueAsid, GenInv, BitmapInv, is_valid, is_same_generation
  <2>4. HeldInv' BY Zenon, <1>0, <2>1, <2>2, HeldFrame DEF AsidInv
  <2>5. \A e \in Cpus : SwitchOf(e)' BY Zenon, <1>0, <2>1, SwitchFrame DEF AsidInv
  <2>6. \A e \in Cpus : ActiveOf(e)' BY Zenon, <1>0, <2>1 DEF AsidInv, ActiveOf, is_valid
  <2> QED BY Zenon, <2>3, <2>4, <2>5, <2>6 DEF AsidInv
<1>2. LoadInv'
  <2>1. ASSUME NEW e \in Cpus PROVE UseOf(e)'
    <3>1. \A s \in Spaces : (Uses(e, s)' <=> Uses(e, s)) /\ (Runs(e, s)' <=> Runs(e, s))
      BY Zenon, <1>0 DEF Uses, Loads, Runs
    <3>2. InUse(e)' = InUse(e) BY Zenon, <1>0 DEF InUse, is_valid
    <3>3. UseOf(e) BY Zenon DEF LoadInv
    <3> QED BY Zenon, <3>1, <3>2, <3>3, <1>0 DEF UseOf, is_valid
  <2>2. TlbInv' BY Zenon, <1>0 DEF LoadInv, TlbInv, Newest, is_valid
  <2>3. NoForeignTlbHit' BY Zenon, <1>0 DEF LoadInv, NoForeignTlbHit
  <2> QED BY Zenon, <2>1, <2>2, <2>3 DEF LoadInv
<1> QED BY Zenon, <1>1, <1>2

\* A CPU that runs in a space runs under the number that the space has: a flush by
\* the number of the space (c_asid(), tlb_flush_asid) reaches its translations.
FlushReaches ==
  \A c \in Cpus : asid_pc[c] = "run" /\ hw[c] # Invalid => asid[hw[c][2]].n = hw[c][1]

\* Like the other two, it holds until a roll-over meets an outdated active ASID.
FlushReachesUnlessStale == stale \/ FlushReaches

\* The invariants hold until then.
Kept == TypeInv /\ (stale \/ (AsidInv /\ LoadInv))

LEMMA KeptAlways ==
  ASSUME NoOverflow
  PROVE AsidSpec => []Kept
<1>1. AsidInit => Kept BY Zenon, AsidStart DEF Kept
<1>2. Kept /\ [AsidNext]_asid_vars => Kept'
  <2> SUFFICES ASSUME Kept, [AsidNext]_asid_vars PROVE Kept' OBVIOUS
  <2>1. TypeInv' BY Zenon, StepTypes DEF Kept
  <2>2. CASE stale' BY Zenon, <2>1, <2>2 DEF Kept
  <2>3. CASE ~stale' /\ AsidNext
    <3>1. ~stale /\ ~Stale' BY Zenon, <2>3 DEF AsidNext
    <3>2. AsidNext /\ TypeInv /\ AsidInv /\ LoadInv BY Zenon, <3>1, <2>3 DEF Kept
    <3>3. AsidInv' /\ LoadInv' BY Zenon, <3>1, <3>2, StepKeeps
    <3> QED BY Zenon, <3>3, <2>1 DEF Kept
  <2>4. CASE ~stale' /\ UNCHANGED asid_vars
    <3>0. ~stale BY Zenon, <2>4 DEF asid_vars
    <3> QED BY Zenon, <3>0, <2>1, <2>4, StutterKeeps DEF Kept
  <2> QED BY Zenon, <2>2, <2>3, <2>4
<1> QED BY <1>1, <1>2, PTL DEF AsidSpec

\* No two address spaces ever have the same generation and number (alloc_asid,
\* roll_over), before an overflow and unless a roll-over has met an outdated ASID.
THEOREM AsidsUnique ==
  ASSUME NoOverflow
  PROVE AsidSpec => []UniqueUnlessStale
<1>1. Kept => UniqueUnlessStale BY Zenon DEF Kept, AsidInv, UniqueUnlessStale
<1> QED BY <1>1, KeptAlways, PTL

\* A CPU never finds a translation of another space under the number it runs with: the
\* flush that a roll-over has asked of it comes before the next space is loaded.
THEOREM AsidsSafe ==
  ASSUME NoOverflow
  PROVE AsidSpec => []NoForeignTlbHitUnlessStale
<1>1. Kept => NoForeignTlbHitUnlessStale BY Zenon DEF Kept, LoadInv, NoForeignTlbHitUnlessStale
<1> QED BY <1>1, KeptAlways, PTL

\* A flush of the number of a space reaches every CPU that runs in it, however long ago
\* the CPU has loaded the number (Mem_space::tlb_flush() on c_asid()).
THEOREM AsidsFlushed ==
  ASSUME NoOverflow
  PROVE AsidSpec => []FlushReachesUnlessStale
<1>1. Kept => FlushReachesUnlessStale
  BY DEF Kept, LoadInv, UseOf, Uses, Runs, FlushReaches, FlushReachesUnlessStale, TypeInv, Maybe
<1> QED BY <1>1, KeptAlways, PTL
==============================================================================
