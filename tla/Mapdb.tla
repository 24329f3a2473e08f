------------------------------- MODULE Mapdb -------------------------------
(***************************************************************************)
(* Memory mappings: map() and unmap() on address spaces, the page tables,  *)
(* the mapping database (a treemap of frames per page size, each frame     *)
(* with a pre-order list of mappings and depths), and the TLB flush at the *)
(* end of an operation.                                                    *)
(*                                                                         *)
(* Memory is counted in smallest pages.  An operation runs with the CPU    *)
(* lock open: it can be preempted between its unlocked look at the page    *)
(* tables, the lookup that takes a frame's lock, and the work under it.    *)
(* The work under the lock is one step, as others see it only by taking    *)
(* the lock or by looking at page tables they must check again.            *)
(***************************************************************************)
EXTENDS Integers, Sequences, FiniteSets, SequencesExt, FiniteSetsExt

CONSTANTS
  Systems,   \* the instances, see sys
  Spaces,    \* the address spaces other than sigma0
  Sigma0,    \* the space all memory comes from
  MaxDepth,  \* the deepest mapping a frame's list can hold (0xff in the code)
  Treemaps,  \* the numbers of treemaps, from 0
  N_spaces,  \* the spaces a TLB flush can list before it becomes a full one
  None

VARIABLES
  sys,       \* [threads, shifts, phys, va, overmap, rights, mmu]: page sizes as
             \* orders, largest first, and the orders of physical memory and spaces
  tm,        \* the treemaps by number: [owner, off, level, frames]; 0 is the root
  held,      \* the locks of frames <<treemap, key>> and who holds them
  pt,        \* the page of each space at each address: [phys, order, w]
  tables,    \* the slots <<space, order, address>> of page tables split further
  tlb,       \* a translation some CPU holds: [space, va, phys, w]
  op         \* what each thread is doing, see Idle

map_vars == <<sys, tm, held, pt, tables, tlb, op>>

Threads == sys.threads
Orders == Range(sys.shifts)
Top == sys.shifts[1]
PhysSize == 2^sys.phys
Vas == 0 .. 2^sys.va - 1
mask(a, o) == a - (a % 2^o)

NoFrame == [tm |-> None, key |-> None, pos |-> 0]
NoTlb == [all |-> FALSE, spaces |-> {}]

Idle == [at |-> "idle", kind |-> None, from |-> None, to |-> None, snd |-> 0,
         rcv |-> 0, left |-> 0, grant |-> FALSE, w |-> FALSE, me_too |-> FALSE,
         locks |-> {}, s |-> None, r |-> None, order |-> 0, iw |-> FALSE, res |-> 0,
         src |-> NoFrame, dst |-> NoFrame, flush |-> NoTlb]

-----------------------------------------------------------------------------
(* Page tables                                                             *)

\* Mem_space::v_lookup: the page that covers an address, and the size of the
\* slot.  A hole is as large as the largest slot that was never split.
v_lookup(s, va) ==
  LET hit == {o \in Orders : /\ pt[s][mask(va, o)] # None
                             /\ pt[s][mask(va, o)].order = o}
      hole == {o \in Orders : <<s, o, mask(va, o)>> \notin tables}
  IN  IF hit # {}
      THEN LET o == Max(hit)
           IN  [found |-> TRUE, order |-> o, phys |-> pt[s][mask(va, o)].phys,
                w |-> pt[s][mask(va, o)].w]
      ELSE [found |-> FALSE, order |-> Max(hole), phys |-> 0, w |-> FALSE]

\* v_fabricate: sigma0 has a page of the largest size at every address.
v_fabricate(s, va) ==
  IF s = Sigma0
  THEN [found |-> TRUE, order |-> Top, phys |-> mask(va, Top), w |-> TRUE]
  ELSE v_lookup(s, va)

\* v_delete on a set of places <<space, va>>: the whole entry, or the right
\* to write.
v_delete(places, full) ==
  [s \in Spaces |-> [va \in Vas |->
     IF <<s, va>> \notin places \/ pt[s][va] = None THEN pt[s][va]
     ELSE IF full THEN None ELSE [pt[s][va] EXCEPT !.w = FALSE]]]

\* Mutant: the flush has no room for the space.
add_page_drops(f, s) ==
  IF f.all \/ s \in f.spaces \/ Cardinality(f.spaces) >= N_spaces THEN f
  ELSE [f EXCEPT !.spaces = @ \cup {s}]

\* Auto_tlb_flush::add_page
add_page(f, s) ==
  IF f.all \/ s \in f.spaces THEN f
  ELSE IF Cardinality(f.spaces) < N_spaces THEN [f EXCEPT !.spaces = @ \cup {s}]
  ELSE [f EXCEPT !.all = TRUE]

add_pages(f, spaces) == FoldSet(LAMBDA s, g : add_page(g, s), f, spaces)

-----------------------------------------------------------------------------
(* The treemaps                                                            *)

order(id) == sys.shifts[tm[id].level]
list(f) == tm[f.tm].frames[f.key]
FrameOf(f) == <<f.tm, f.key>>
Keys(level) == 0 .. (IF level = 1 THEN 2^(sys.phys - Top)
                     ELSE 2^(sys.shifts[level - 1] - sys.shifts[level])) - 1

Mapping(space, va, depth) == [space |-> space, va |-> va, depth |-> depth, sub |-> None]
Submap(id) == [space |-> None, va |-> 0, depth |-> 0, sub |-> id]
NewTreemap(owner, off, level) ==
  [owner |-> owner, off |-> off, level |-> level, frames |-> [k \in Keys(level) |-> <<>>]]

match(id, m, s, va) == m.space = s /\ m.va = mask(va, order(id))

\* find_submap: a submap is always the first child.
find_submap(l, pos) ==
  IF pos < Len(l) /\ l[pos + 1].sub # None THEN l[pos + 1].sub ELSE None

\* The frame of a submap that holds the frame with this key.
SubKey(id, sub, key) == (key % 2^order(id)) \div 2^order(sub)

\* Treemap::_lookup from position i of a frame's list, with the depths of the
\* subtree root and of the current mapping that lookup_src_dst() follows.
RECURSIVE Lookup(_, _, _, _, _, _, _)
Lookup(id, k, i, s, key, va, d) ==
  LET l == tm[id].frames[k]
      m == l[i]
  IN  IF i > Len(l) THEN [m |-> 0, res |-> NoFrame, d |-> d]
      ELSE IF m.sub # None
      THEN LET k2 == SubKey(id, m.sub, key)
               sub == Lookup(m.sub, k2, 1, s, key % 2^order(id), va, d)
           IN  IF s = Sigma0
               THEN [m |-> i, res |-> [tm |-> m.sub, key |-> k2, pos |-> 0], d |-> d]
               ELSE IF sub.m # 0 THEN [m |-> i, res |-> sub.res, d |-> sub.d]
               ELSE Lookup(id, k, i + 1, s, key, va, sub.d)
      ELSE LET d2 == [root |-> IF d.root >= m.depth THEN -3 ELSE d.root, cur |-> m.depth]
           IN  IF match(id, m, s, va)
               THEN [m |-> i, res |-> [tm |-> id, key |-> k, pos |-> i], d |-> d2]
               ELSE Lookup(id, k, i + 1, s, key, va, d2)

\* Treemap::lookup
lookup(id, key, s, va) ==
  LET k == key \div 2^order(id)
  IN  IF s = Sigma0 THEN [tm |-> id, key |-> k, pos |-> 0]
      ELSE Lookup(id, k, 1, s, key, va, [root |-> 0, cur |-> 0]).res

Found(f) == f.tm # None
Neither == [r |-> -1, src |-> NoFrame, dst |-> NoFrame]

\* Treemap::lookup_src_dst, with r = 0: an upgrade, 1: unmap dst, then map,
\* 2: unmap dst and with it src, -1: nothing found.
RECURSIVE lookup_src_dst(_, _, _, _, _, _, _), First(_, _, _, _, _, _, _, _)
lookup_src_dst(id, src, skey, sva, dst, dkey, dva) ==
  LET sk == skey \div 2^order(id)
      k == dkey \div 2^order(id)
      l == tm[id].frames[k]
      d == lookup(id, dkey, dst, dva)
      s == lookup(id, skey, src, sva)
      f == IF l # <<>> /\ src = Sigma0
           THEN [m |-> 1, cur |-> -1, r |-> -1, dst |-> NoFrame,
                 src |-> [tm |-> id, key |-> k, pos |-> 0]]
           ELSE First(id, k, 1, src, <<skey, sva>>, dst, <<dkey, dva>>, -1)
      depth == [root |-> f.cur, cur |-> f.cur]
      ld == Lookup(id, k, f.m, dst, dkey, dva, depth)
      ls == Lookup(id, k, f.m, src, skey, sva, depth)
      InSub(n) == l[n].sub # None
  IN  IF sk # k
      THEN IF Found(d) /\ Found(s) THEN [r |-> 1, src |-> s, dst |-> d] ELSE Neither
      ELSE IF f.r >= 0 THEN [r |-> f.r, src |-> f.src, dst |-> f.dst]
      ELSE IF ~Found(f.src) /\ ~Found(f.dst) THEN Neither
      ELSE IF Found(f.src) /\ Found(f.dst) THEN [r |-> 2, src |-> f.src, dst |-> f.dst]
      ELSE IF Found(f.src)
      THEN IF ld.m = 0 THEN Neither
           ELSE [r |-> IF \/ ~InSub(ld.m) /\ ld.d.root + 1 = ld.d.cur
                          \/ /\ InSub(ld.m) /\ ld.d.root = ld.d.cur
                             /\ tm[ld.res.tm].frames[ld.res.key][ld.res.pos].depth = 0
                       THEN 0 ELSE 1,
                 src |-> f.src, dst |-> ld.res]
      ELSE IF ls.m = 0 THEN Neither
      ELSE IF ~InSub(ls.m)
      THEN [r |-> IF ls.d.root < -1 THEN 1 ELSE 2, src |-> ls.res, dst |-> f.dst]
      ELSE IF ls.d.root = ls.d.cur
      THEN [r |-> 2, src |-> NoFrame, dst |-> f.dst]
      ELSE [r |-> 1, src |-> ls.res, dst |-> f.dst]

\* The loop of lookup_src_dst: up to the first of the two, or into a submap
\* that holds both.
First(id, k, i, src, sa, dst, da, cur) ==
  LET l == tm[id].frames[k]
      m == l[i]
      here == [tm |-> id, key |-> k, pos |-> i]
      sub == lookup_src_dst(m.sub, src, sa[1] % 2^order(id), sa[2],
                            dst, da[1] % 2^order(id), da[2])
      hs == match(id, m, src, sa[2])
      hd == match(id, m, dst, da[2])
  IN  IF i > Len(l)
      THEN [m |-> i, cur |-> cur, r |-> -1, src |-> NoFrame, dst |-> NoFrame]
      ELSE IF m.sub # None
      THEN IF sub.r >= 0
           THEN [m |-> i, cur |-> cur, r |-> sub.r, src |-> sub.src, dst |-> sub.dst]
           ELSE First(id, k, i + 1, src, sa, dst, da, cur)
      ELSE IF hs \/ hd
      THEN [m |-> i + 1, cur |-> m.depth, r |-> -1,
            src |-> IF hs THEN here ELSE NoFrame, dst |-> IF hd THEN here ELSE NoFrame]
      ELSE First(id, k, i + 1, src, sa, dst, da, m.depth)

-----------------------------------------------------------------------------
(* Changes to the treemaps, as functions of their value T                  *)

Submaps(T, id, k, I) == {T[id].frames[k][i].sub : i \in I} \ {None}

\* A treemap and all below it.
RECURSIVE Tree(_, _)
Tree(T, id) ==
  {id} \cup UNION {Tree(T, sub) : sub \in
    UNION {Submaps(T, id, k, DOMAIN T[id].frames[k]) : k \in DOMAIN T[id].frames}}

\* Mapping_tree::flush from position i on, below depth p; c is the depth of the
\* last mapping taken out, b .. e - 1 the pages of the frame to flush.  A submap
\* that belongs to the root of the flush loses only those pages, others are
\* deleted.  flush_submap is Treemap_ops::flush.
RECURSIVE flush(_, _, _, _, _, _, _, _, _), flush_submap(_, _, _, _, _, _)
flush(T, id, k, i, p, c, me_too, b, e) ==
  LET l == T[id].frames[k]
      m == l[i]
      size == 2^sys.shifts[T[id].level]
      out == [n \in DOMAIN T |->
                IF n = id THEN [T[id] EXCEPT !.frames[k] = RemoveAt(l, i)]
                ELSE IF m.sub # None /\ n \in Tree(T, m.sub) THEN None ELSE T[n]]
  IN  IF i > Len(l) THEN T
      ELSE IF m.sub = None /\ m.depth <= p THEN T
      ELSE IF m.sub # None /\ ~me_too /\ c = p /\ (b > 0 \/ e < size)
      THEN flush(flush_submap(T, m.sub, 0, size, b, e), id, k, i + 1, p, c, me_too, b, e)
      ELSE flush(out, id, k, i, p, IF m.sub = None THEN m.depth ELSE c, me_too, b, e)

flush_submap(T, sub, n, size, b, e) ==
  LET ps == 2^sys.shifts[T[sub].level]
      pb == n * ps
      pe == pb + ps
      rest(T2) == flush_submap(T2, sub, n + 1, size, b, e)
  IN  IF n \notin DOMAIN T[sub].frames THEN T
      ELSE IF T[sub].frames[n] = <<>> \/ pe <= b \/ pb >= e THEN rest(T)
      ELSE IF b <= pb /\ e >= pe THEN rest([T EXCEPT ![sub].frames[n] = <<>>])
      ELSE rest(flush(T, sub, n, 1, -1, -1, FALSE,
                      IF pb > b THEN 0 ELSE b - pb, IF pe < e THEN size ELSE e - pb))

pvaddr(f) == IF f.pos = 0 THEN tm[f.tm].off + f.key * 2^order(f.tm) ELSE list(f)[f.pos].va
pspace(f) == IF f.pos = 0 THEN tm[f.tm].owner ELSE list(f)[f.pos].space

\* Mutant: a mapping goes, and what was mapped from it stays.
FlushKeepsBelow(f, me_too, vb, ve) ==
  LET size == 2^order(f.tm)
      b == IF vb > pvaddr(f) THEN vb - pvaddr(f) ELSE 0
      e == IF ve > pvaddr(f) + size THEN size ELSE ve - pvaddr(f)
      depth == list(f)[f.pos].depth
  IN  IF f.pos = 0 THEN flush(tm, f.tm, f.key, 1, -1, -1, FALSE, b, e)
      ELSE IF me_too THEN [tm EXCEPT ![f.tm].frames[f.key] = RemoveAt(@, f.pos)]
      ELSE flush(tm, f.tm, f.key, f.pos + 1, depth, depth, FALSE, b, e)

\* Mapdb::flush: what is left of the treemaps.
Flush(f, me_too, vb, ve) ==
  LET size == 2^order(f.tm)
      b == IF vb > pvaddr(f) THEN vb - pvaddr(f) ELSE 0
      e == IF ve > pvaddr(f) + size THEN size ELSE ve - pvaddr(f)
      depth == list(f)[f.pos].depth
  IN  IF f.pos = 0 THEN flush(tm, f.tm, f.key, 1, -1, -1, FALSE, b, e)
      ELSE IF me_too
      THEN flush([tm EXCEPT ![f.tm].frames[f.key] = RemoveAt(@, f.pos)],
                 f.tm, f.key, f.pos, depth, depth, TRUE, b, e)
      ELSE flush(tm, f.tm, f.key, f.pos + 1, depth, depth, FALSE, b, e)

\* Mapdb::foreach_mapping: the places it visits.
RECURSIVE full_subtree(_, _, _, _), foreach(_, _, _, _, _, _)
full_subtree(id, k, i, min) ==
  LET l == tm[id].frames[k]
      m == l[i]
  IN  IF i > Len(l) THEN {}
      ELSE IF m.sub # None
      THEN UNION {full_subtree(m.sub, n, 1, 0) : n \in DOMAIN tm[m.sub].frames}
             \cup full_subtree(id, k, i + 1, min)
      ELSE IF m.depth >= min THEN {<<m.space, m.va>>} \cup full_subtree(id, k, i + 1, min)
      ELSE {}

foreach(id, k, i, min, vb, ve) ==
  LET l == tm[id].frames[k]
      sub == l[i].sub
      ps == 2^order(sub)
      off == tm[sub].off
      start == IF vb > off THEN (vb - off) \div ps ELSE 0
      end == IF ve < off + 2^order(id) THEN (ve - off + ps - 1) \div ps
             ELSE Cardinality(DOMAIN tm[sub].frames)
  IN  IF i > Len(l) THEN {}
      ELSE IF sub = None THEN full_subtree(id, k, i, min)
      ELSE UNION {foreach(sub, n, 1, 0, vb, ve) : n \in start .. end - 1}
             \cup full_subtree(id, k, i + 1, min)

\* Mutant: the mappings directly below are not visited.
foreach_mapping_deep(f, vb, ve) ==
  foreach(f.tm, f.key, f.pos + 1, IF f.pos = 0 THEN 0 ELSE list(f)[f.pos].depth + 2, vb, ve)

foreach_mapping(f, vb, ve) ==
  foreach(f.tm, f.key, f.pos + 1, IF f.pos = 0 THEN 0 ELSE list(f)[f.pos].depth + 1, vb, ve)

\* Treemap::insert of a page of order o below position pos.  fail says which
\* allocation fails, the node (or submap) or the node in a submap.
RECURSIVE insert(_, _, _, _, _, _, _, _, _, _, _)
insert(T, id, k, pos, pspc, pva, s, va, phys, o, fail) ==
  LET l == T[id].frames[k]
      sub == find_submap(l, pos)
      ord == sys.shifts[T[id].level]
      free == {n \in Treemaps : T[n] = None}
      new == Min(free)
      so == sys.shifts[T[id].level + 1]
      offset == mask(phys % 2^ord, so)
      Below(T2, n) == insert(T2, n, offset \div 2^so, 0, pspc, pva + offset, s, va, phys, o,
                             IF fail = "inner" THEN "node" ELSE fail)
  IN  IF ord = o
      THEN IF fail = "node" \/ (pos # 0 /\ l[pos].depth = MaxDepth)
           THEN [ok |-> FALSE, T |-> T]
           ELSE [ok |-> TRUE,
                 T |-> [T EXCEPT ![id].frames[k] =
                          InsertAt(l, (IF sub # None THEN pos + 1 ELSE pos) + 1,
                                   Mapping(s, va, IF pos = 0 THEN 0 ELSE l[pos].depth + 1))]]
      ELSE IF sub # None THEN Below(T, sub)
      ELSE IF fail = "node" \/ free = {} THEN [ok |-> FALSE, T |-> T]
      ELSE Below([T EXCEPT ![id].frames[k] = InsertAt(l, pos + 1, Submap(new)),
                           ![new] = NewTreemap(pspc, pva, T[id].level + 1)], new)

\* Treemap_ops::grant: a submap and all below it follow their mapping.
RECURSIVE grant_submap(_, _, _, _)
grant_submap(T, sub, s, va) ==
  LET below == {n \in DOMAIN T[sub].frames : find_submap(T[sub].frames[n], 0) # None}
  IN  FoldSet(LAMBDA n, T2 : grant_submap(T2, find_submap(T[sub].frames[n], 0), s,
                                          va + n * 2^sys.shifts[T[sub].level]),
              [T EXCEPT ![sub].owner = s, ![sub].off = va], below)

\* Mapping_tree::grant
Grant(f, s, va) ==
  LET T == [tm EXCEPT ![f.tm].frames[f.key][f.pos].space = s,
                      ![f.tm].frames[f.key][f.pos].va = va]
      sub == find_submap(list(f), f.pos)
  IN  IF sub = None THEN T ELSE grant_submap(T, sub, s, va)

-----------------------------------------------------------------------------
(* The operations                                                          *)

Stay(t, f) == op' = [op EXCEPT ![t] = f]

HeldBy(t) == {h \in held : h.by = t}
Lock(t, fs) == held' = held \cup {[frame |-> FrameOf(f), by |-> t] : f \in fs}
Unlock(f) == held' = {h \in held : h.frame # FrameOf(f)}
Free(t, frames) == \A h \in held : h.frame \in frames => h.by = t

\* The locks a walk takes on a frame's list up to position n.
RECURSIVE Walk(_, _, _, _)
Walk(id, k, key, n) ==
  {<<id, k>>} \cup UNION {Walk(sub, SubKey(id, sub, key), key % 2^order(id),
                               Len(tm[sub].frames[SubKey(id, sub, key)]))
                          : sub \in Submaps(tm, id, k, 1 .. n)}

\* Lookup of a page, with the lock on the frame that holds its mapping.
CanLookup(t, key, s, va) ==
  LET k == key \div 2^Top
      l == Lookup(0, k, 1, s, key, va, [root |-> 0, cur |-> 0])
  IN  Free(t, Walk(0, k, key, IF s = Sigma0 THEN 0 ELSE IF l.m # 0 THEN l.m
                              ELSE Len(tm[0].frames[k])))

\* The frames of the submaps below a mapping that hold mappings: foreach and
\* flush take their locks.
SubFrames(f) ==
  LET lower == UNION {Tree(tm, n) : n \in
                        Submaps(tm, f.tm, f.key, f.pos + 1 .. Len(list(f)))}
  IN  {<<id, k>> \in lower \X (0 .. PhysSize - 1) :
         k \in DOMAIN tm[id].frames /\ tm[id].frames[k] # <<>>}

\* No other operation holds the existence lock of one of these spaces.
Unlocked(t, spaces) == \A u \in Threads \ {t} : spaces \cap op[u].locks = {}

\* The next page of the loop in map(), n pages on.
Skip(o, n) == [Idle EXCEPT !.at = "lookup", !.kind = "map", !.from = o.from, !.to = o.to,
                 !.locks = o.locks, !.snd = o.snd + n, !.rcv = o.rcv + n, !.left = o.left - n,
                 !.grant = o.grant, !.w = o.w, !.flush = o.flush]

\* The mappings below a position of a list.
Subtree(l, i) ==
  {j \in i + 1 .. Len(l) : \A n \in i + 1 .. j : l[n].sub # None \/ l[n].depth > l[i].depth}

\* Unless the instance allows it, a map over a page of the same frame is one
\* over a page mapped from the source.
OvermapAllowed(from, to, snd, rcv, n) ==
  ~sys.overmap => \A i \in 0 .. n - 1 :
    LET s == v_fabricate(from, snd + i)
        r == v_lookup(to, rcv + i)
        sf == lookup(0, s.phys, from, mask(snd + i, s.order))
        df == lookup(0, r.phys, to, mask(rcv + i, r.order))
    IN  s.found /\ r.found /\ s.phys \div 2^Top = r.phys \div 2^Top =>
          IF from = Sigma0 THEN r.order = Top
          ELSE FrameOf(sf) = FrameOf(df) /\ df.pos \in Subtree(list(sf), sf.pos)

\* The existence locks of a map.
Locks(from, to, ipc) == IF ipc THEN {to} ELSE {from, to}

\* Task::sys_map, with both tasks locked, or a flexpage in a message (ipc),
\* with the receiver locked only.  The CPU lock is opened.
StartMap(t) ==
  /\ op[t].at = "idle"
  /\ \E from \in Spaces \cup {Sigma0}, to \in Spaces, o \in Orders, ipc \in BOOLEAN,
        w \in IF sys.rights THEN BOOLEAN ELSE {TRUE}, snd, rcv \in Vas, grant \in BOOLEAN :
       /\ snd % 2^o = 0 /\ rcv % 2^o = 0
       /\ from = Sigma0 => ~grant /\ snd + 2^o <= PhysSize
       /\ ipc => Cardinality(Threads) > 1   \* alone, the locks make no difference
       /\ Unlocked(t, Locks(from, to, ipc))
       /\ OvermapAllowed(from, to, snd, rcv, 2^o)
       /\ Stay(t, [Idle EXCEPT !.at = "lookup", !.kind = "map", !.from = from, !.to = to,
                     !.locks = Locks(from, to, ipc), !.snd = snd, !.rcv = rcv, !.left = 2^o, !.grant = grant, !.w = w])
  /\ UNCHANGED <<sys, tm, held, pt, tables, tlb>>

\* Task::sys_unmap and the unmap of Task::destroy.
StartUnmap(t) ==
  /\ op[t].at = "idle"
  /\ \E s \in Spaces \cup {Sigma0}, o \in Orders, va \in Vas, me_too \in BOOLEAN,
        full \in BOOLEAN :
       /\ va % 2^o = 0
       /\ s = Sigma0 => va + 2^o <= PhysSize
       /\ full \/ sys.rights
       /\ Unlocked(t, {s})
       /\ Stay(t, [Idle EXCEPT !.at = "lookup", !.kind = "unmap", !.from = s, !.snd = va,
                     !.locks = {s}, !.rcv = va + 2^o, !.me_too = me_too, !.w = full])
  /\ UNCHANGED <<sys, tm, held, pt, tables, tlb>>

\* map(): look at the page tables, without a lock.
LookupMap(t) ==
  LET o == op[t]
      s == v_fabricate(o.from, o.snd)
      r == v_lookup(o.to, o.rcv)
      fits == {n \in Orders : /\ n <= s.order /\ n <= r.order /\ 2^n <= o.left
                              /\ o.snd % 2^n = 0 /\ o.rcv % 2^n = 0}
      hole == 2^s.order - (o.snd % 2^s.order)
  IN  /\ o.at = "lookup" /\ o.kind = "map" /\ o.left > 0
      /\ IF ~s.found
         THEN Stay(t, IF hole >= o.left THEN [o EXCEPT !.left = 0] ELSE Skip(o, hole))
         ELSE Stay(t, [o EXCEPT !.at = "find", !.s = s, !.r = r, !.order = Max(fits),
                                !.iw = s.w /\ o.w, !.grant = @ /\ Max(fits) = s.order])
      /\ UNCHANGED <<sys, tm, held, pt, tables, tlb>>

\* The place of the source page that was looked up, and the frame to insert.
SrcVa(o) == mask(o.snd, o.s.order)
Frame(o) == o.s.phys + (o.snd % 2^o.s.order)

Set(o, r, src, dst) == [o EXCEPT !.at = "over", !.res = r, !.src = src, !.dst = dst]

\* map() to a free address: Mapdb::lookup of the source.
FindSrc(t) ==
  LET o == op[t]
      f == lookup(0, o.s.phys, o.from, SrcVa(o))
  IN  /\ o.at = "find" /\ o.kind = "map" /\ ~o.r.found
      /\ CanLookup(t, o.s.phys, o.from, SrcVa(o))
      /\ IF Found(f)
         THEN Lock(t, {f}) /\ Stay(t, [o EXCEPT !.at = "insert", !.src = f])
         ELSE Stay(t, Skip(o, 2^o.order)) /\ UNCHANGED held
      /\ UNCHANGED <<sys, tm, pt, tables, tlb>>

\* map() over a page, both in one root frame: Treemap::lookup_src_dst.
FindBoth(t) ==
  LET o == op[t]
      k == o.s.phys \div 2^Top
      b == lookup_src_dst(0, o.from, o.s.phys, SrcVa(o), o.to, o.r.phys, o.rcv)
  IN  /\ o.at = "find" /\ o.kind = "map" /\ o.r.found
      /\ k = o.r.phys \div 2^Top
      /\ Free(t, Walk(0, k, o.s.phys, Len(tm[0].frames[k]))
                 \cup Walk(0, k, o.r.phys, Len(tm[0].frames[k])))
      /\ IF b.r < 0
         THEN Stay(t, Skip(o, 2^o.order)) /\ UNCHANGED held
         ELSE /\ Lock(t, {f \in {b.src, b.dst} : Found(f)})
              /\ Stay(t, Set(o, b.r, b.src, b.dst))
      /\ UNCHANGED <<sys, tm, pt, tables, tlb>>

\* map() over a page in another root frame: the destination is locked first ...
FindDst(t) ==
  LET o == op[t]
      f == lookup(0, o.r.phys, o.to, o.rcv)
  IN  /\ o.at = "find" /\ o.kind = "map" /\ o.r.found
      /\ o.s.phys \div 2^Top # o.r.phys \div 2^Top
      /\ CanLookup(t, o.r.phys, o.to, o.rcv)
      /\ IF Found(f)
         THEN Lock(t, {f}) /\ Stay(t, [o EXCEPT !.at = "second", !.dst = f])
         ELSE Stay(t, Skip(o, 2^o.order)) /\ UNCHANGED held
      /\ UNCHANGED <<sys, tm, pt, tables, tlb>>

\* ... then the source, waiting for it with the destination locked.
FindSecond(t) ==
  LET o == op[t]
      f == lookup(0, o.s.phys, o.from, SrcVa(o))
  IN  /\ o.at = "second"
      /\ CanLookup(t, o.s.phys, o.from, SrcVa(o))
      /\ IF Found(f)
         THEN Lock(t, {f}) /\ Stay(t, Set(o, 1, f, o.dst))
         ELSE Unlock(o.dst) /\ Stay(t, Skip(o, 2^o.order))
      /\ UNCHANGED <<sys, tm, pt, tables, tlb>>

\* Where the iterator of a frame's mapping points after a flush of its own
\* list: it is the link of the element before, gone if that was flushed.
Moved(f, dst, T) ==
  LET cut == Len(tm[f.tm].frames[f.key]) - Len(T[f.tm].frames[f.key])
      last == dst.pos + cut - 1
  IN  IF ~Found(f) THEN f
      ELSE IF T[f.tm] = None THEN [f EXCEPT !.pos = -1]
      ELSE IF FrameOf(f) # FrameOf(dst) \/ f.pos < dst.pos THEN f
      ELSE IF f.pos <= last + 1 THEN [f EXCEPT !.pos = -1]
      ELSE [f EXCEPT !.pos = @ - cut]

\* map() replaces the page it found, rather than giving it more rights.
Replaces(o) ==
  o.res > 0 \/ o.grant \/ mask(o.r.phys, o.order) # Frame(o) \/ o.r.order > o.order

\* map(): take the destination out of the way, with all mapped from it, or
\* go on with it when it only gains rights.
Over(t) ==
  LET o == op[t]
      va == mask(o.rcv, o.r.order)
      ve == va + 2^o.r.order
      out == {<<o.to, va>>} \cup foreach_mapping(o.dst, va, ve)
      T == Flush(o.dst, TRUE, va, ve)
      src == Moved(o.src, o.dst, T)
      same == Found(o.src) /\ FrameOf(o.src) = FrameOf(o.dst)
  IN  /\ o.at = "over"
      /\ IF Replaces(o)
         THEN /\ Free(t, SubFrames(o.dst))
              /\ tm' = T
              /\ pt' = v_delete(out, TRUE)
              /\ LET n == [o EXCEPT !.src = src, !.dst = IF same THEN NoFrame ELSE @,
                                    !.flush = add_pages(@, {x[1] : x \in out})]
                 IN  Stay(t, IF same THEN (IF o.res = 2 THEN Skip(n, 2^o.order)
                                           ELSE [n EXCEPT !.at = "insert"])
                             ELSE [n EXCEPT !.at = "clear_dst"])
              /\ UNCHANGED held
         ELSE /\ IF same THEN UNCHANGED held ELSE Unlock(o.src)
              /\ Stay(t, [o EXCEPT !.at = "insert", !.iw = @ \/ o.r.w,
                                   !.src = o.dst, !.dst = NoFrame])
              /\ UNCHANGED <<tm, pt>>
      /\ UNCHANGED <<sys, tables, tlb>>

\* map(): unlock the frame of the page that was mapped over.
ClearDst(t) ==
  LET o == op[t]
  IN  /\ o.at = "clear_dst"
      /\ Unlock(o.dst)
      /\ Stay(t, IF o.res = 2 THEN Skip(o, 2^o.order)
                 ELSE [o EXCEPT !.at = "insert", !.dst = NoFrame])
      /\ UNCHANGED <<sys, tm, pt, tables, tlb>>

\* How map() goes on.
Mapped(o, f) == [o EXCEPT !.at = "clear", !.flush = f]
Failed(o, f) == [o EXCEPT !.at = "clear", !.left = 0, !.flush = f]

\* map(): v_insert.  The lock of the receiver keeps everybody else from mapping
\* at its addresses, so that what v_insert() finds is the page map() found and
\* Insert_err_exists does not happen.
VInsert(t) ==
  LET o == op[t]
      old == v_lookup(o.to, o.rcv)
      same == old.found /\ old.phys = Frame(o) /\ old.order = o.order
  IN  /\ o.at = "insert"
      /\ \/ /\ same /\ ~o.grant         \* Insert_warn_*
            /\ pt' = [pt EXCEPT ![o.to][o.rcv].w = @ \/ o.iw]
            /\ Stay(t, Mapped(o, o.flush))
            /\ UNCHANGED tables
         \/ /\ ~old.found               \* Insert_err_nomem
            /\ Stay(t, Failed(o, o.flush))
            /\ UNCHANGED <<pt, tables>>
         \/ /\ ~old.found               \* Insert_ok
            /\ tables' = tables \cup {<<o.to, n, mask(o.rcv, n)>>
                                        : n \in {n \in Orders : n > o.order}}
            /\ pt' = [pt EXCEPT ![o.to][o.rcv] =
                        [phys |-> Frame(o), order |-> o.order, w |-> o.iw]]
            /\ Stay(t, [o EXCEPT !.at = "db"])
      /\ UNCHANGED <<sys, tm, held, tlb>>

\* map(): insert() or grant() in the mapping database.  When that fails the
\* page is taken back, which others may have used meanwhile.
DbInsert(t) ==
  LET o == op[t]
      TakeBack == /\ pt' = v_delete({<<o.to, o.rcv>>}, TRUE)
                  /\ Stay(t, Failed(o, add_page(o.flush, o.to)))
  IN  /\ o.at = "db"
      /\ \/ /\ ~o.grant
            /\ \E fail \in {"no", "node", "inner"} :
                 LET r == insert(tm, o.src.tm, o.src.key, o.src.pos, pspace(o.src),
                                 pvaddr(o.src), o.to, o.rcv, Frame(o), o.order, fail)
                 IN  /\ tm' = r.T
                     /\ IF r.ok THEN Stay(t, Mapped(o, o.flush)) /\ UNCHANGED pt
                        ELSE TakeBack
         \/ /\ o.grant /\ pspace(o.src) # o.to
            /\ TakeBack
            /\ UNCHANGED tm
         \/ /\ o.grant
            /\ tm' = Grant(o.src, o.to, o.rcv)
            /\ pt' = v_delete({<<o.from, SrcVa(o)>>}, TRUE)
            /\ Stay(t, Mapped(o, add_page(o.flush, o.from)))
      /\ UNCHANGED <<sys, held, tables, tlb>>

\* map(): unlock the frame of the source, and go on with the next page.
Clear(t) ==
  LET o == op[t]
  IN  /\ o.at = "clear" /\ o.kind = "map"
      /\ Unlock(o.src)
      /\ Stay(t, IF o.left = 0 THEN [o EXCEPT !.at = "lookup"] ELSE Skip(o, 2^o.order))
      /\ UNCHANGED <<sys, tm, pt, tables, tlb>>

\* unmap(): look at the page table, without a lock.
LookupUnmap(t) ==
  LET o == op[t]
      p == v_fabricate(o.from, o.snd)
      va == mask(o.snd, p.order)
      end == va + 2^p.order
  IN  /\ o.at = "lookup" /\ o.kind = "unmap" /\ o.snd < o.rcv
      /\ Stay(t, IF ~p.found THEN [o EXCEPT !.snd = end]
                 ELSE [o EXCEPT !.at = "find", !.s = p,
                         !.snd = IF o.me_too THEN va ELSE @,
                         !.rcv = IF o.me_too THEN Max({@, end}) ELSE @])
      /\ UNCHANGED <<sys, tm, held, pt, tables, tlb>>

NextPage(o) == [o EXCEPT !.at = "lookup", !.snd = mask(@, o.s.order) + 2^o.s.order,
                         !.s = None, !.src = NoFrame]

\* unmap(): Mapdb::lookup.
FindUnmap(t) ==
  LET o == op[t]
      f == lookup(0, o.s.phys, o.from, mask(o.snd, o.s.order))
  IN  /\ o.at = "find" /\ o.kind = "unmap"
      /\ CanLookup(t, o.s.phys, o.from, mask(o.snd, o.s.order))
      /\ IF Found(f)
         THEN Lock(t, {f}) /\ Stay(t, [o EXCEPT !.at = "flush", !.src = f])
         ELSE Stay(t, NextPage(o)) /\ UNCHANGED held
      /\ UNCHANGED <<sys, tm, pt, tables, tlb>>

\* unmap(): the page tables of all mapped from the page, then their mappings.
FlushUnmap(t) ==
  LET o == op[t]
      out == foreach_mapping(o.src, o.snd, o.rcv)
             \cup (IF o.me_too THEN {<<o.from, o.snd>>} ELSE {})
  IN  /\ o.at = "flush"
      /\ Free(t, SubFrames(o.src))
      /\ pt' = v_delete(out, o.w)
      /\ tm' = IF o.w THEN Flush(o.src, o.me_too, o.snd, o.rcv) ELSE tm
      /\ Stay(t, [o EXCEPT !.at = "clear", !.flush = add_pages(@, {x[1] : x \in out})])
      /\ UNCHANGED <<sys, held, tables, tlb>>

ClearUnmap(t) ==
  LET o == op[t]
  IN  /\ o.at = "clear" /\ o.kind = "unmap"
      /\ Unlock(o.src)
      /\ Stay(t, NextPage(o))
      /\ UNCHANGED <<sys, tm, pt, tables, tlb>>

\* ~Auto_tlb_flush: flush the spaces listed on all CPUs, the existence locks go.
Finish(t) ==
  LET o == op[t]
  IN  /\ o.at = "lookup"
      /\ IF o.kind = "map" THEN o.left = 0 ELSE o.snd >= o.rcv
      /\ Stay(t, Idle)
      /\ tlb' = IF tlb # None /\ (o.flush.all \/ tlb.space \in o.flush.spaces)
                THEN None ELSE tlb
      /\ UNCHANGED <<sys, tm, held, pt, tables>>

\* A CPU uses a translation and keeps it.
Access ==
  /\ sys.mmu
  /\ \E s \in Spaces, va \in Vas :
       LET p == v_lookup(s, va)
       IN  /\ p.found
           /\ tlb' = [space |-> s, va |-> va, phys |-> p.phys + (va % 2^p.order), w |-> p.w]
  /\ UNCHANGED <<sys, tm, held, pt, tables, op>>

MapInit ==
  /\ sys \in Systems
  /\ tm = [id \in Treemaps |-> IF id = 0 THEN NewTreemap(Sigma0, 0, 1) ELSE None]
  /\ held = {}
  /\ pt = [s \in Spaces |-> [va \in Vas |-> None]]
  /\ tables = {}
  /\ tlb = None
  /\ op = [t \in Threads |-> Idle]

MapNext ==
  \/ \E t \in Threads :
       \/ StartMap(t) \/ StartUnmap(t) \/ LookupMap(t) \/ FindSrc(t) \/ FindBoth(t)
       \/ FindDst(t) \/ FindSecond(t) \/ Over(t) \/ ClearDst(t) \/ VInsert(t) \/ DbInsert(t) \/ Clear(t)
       \/ LookupUnmap(t) \/ FindUnmap(t) \/ FlushUnmap(t) \/ ClearUnmap(t) \/ Finish(t)
  \/ Access

MapSpec == MapInit /\ [][MapNext]_map_vars

-----------------------------------------------------------------------------
(* Properties                                                              *)

\* The pages of the mapping database: where they are, their frames, and the
\* place they were mapped from, read off the order and the depths of the lists.
RECURSIVE Pages(_, _, _, _)
Pages(id, k, base, root) ==
  LET l == tm[id].frames[k]
      size == 2^order(id)
      Place(i) == <<l[i].space, l[i].va>>
      Up(i) == LET above == {j \in 1 .. i - 1 : l[j].sub = None /\ l[j].depth < l[i].depth}
               IN  IF above = {} THEN root ELSE Place(Max(above))
      Owner(i) == IF i = 1 THEN root ELSE Place(i - 1)
  IN  {[at |-> Place(i), phys |-> base .. base + size - 1, from |-> Up(i)]
         : i \in {i \in DOMAIN l : l[i].sub = None}}
      \cup UNION {UNION {Pages(l[i].sub, n, base + n * 2^order(l[i].sub), Owner(i))
                           : n \in DOMAIN tm[l[i].sub].frames}
                    : i \in {i \in DOMAIN l : l[i].sub # None}}

AllPages == UNION {Pages(0, k, k * 2^Top, Sigma0) : k \in DOMAIN tm[0].frames}

\* What a thread that holds the lock of a frame is about to take away: the
\* pages that unmap() was called for, or the page that map() replaces.
Window(phys, va, first, end, ord) ==
  phys + (first - va) .. phys + (Min({end, va + 2^ord}) - va) - 1

Request(o) ==
  IF o.at = "flush"
  THEN LET va == mask(o.snd, o.s.order)
       IN  [page |-> IF o.from = Sigma0 THEN Sigma0 ELSE <<o.from, va>>,
            window |-> Window(o.s.phys, va, o.snd, o.rcv, o.s.order),
            me_too |-> o.me_too]
  ELSE [page |-> <<o.to, mask(o.rcv, o.r.order)>>,
        window |-> o.r.phys .. o.r.phys + 2^o.r.order - 1, me_too |-> TRUE]

TakesAway(o) == (o.at = "flush" /\ o.w) \/ (o.at = "over" /\ Replaces(o))

Requests == {Request(op[t]) : t \in {t \in Threads : TakesAway(op[t])}}

Forest == INSTANCE MappingForest WITH
  forest <- AllPages, requests <- Requests, Root <- Sigma0

\* The mapping database is the forest of MappingForest: whatever sizes the
\* pages have, an unmap takes away all that was mapped from the pages it was
\* called for and nothing else, and a grant keeps what was mapped from it.
ImplementsForest == Forest!ForestSpec

\* The page tables hold the pages of the mapping database, and the pages map()
\* is about to enter there: no page can stay that no unmap would find, and
\* foreach_mapping() visits what flush() drops.
PageTablesMatch ==
  {[at |-> p.at, phys |-> p.phys] : p \in AllPages} =
  {[at |-> <<s, va>>, phys |-> pt[s][va].phys .. pt[s][va].phys + 2^pt[s][va].order - 1]
     : <<s, va>> \in {x \in Spaces \X Vas : /\ pt[x[1]][x[2]] # None
                                            /\ \A t \in Threads : op[t].at = "db" =>
                                                 x # <<op[t].to, op[t].rcv>>}}

\* A translation that a CPU holds and the page table no longer gives is about
\* to be flushed by an operation under way.
NoStaleTlb ==
  tlb # None =>
    LET p == v_lookup(tlb.space, tlb.va)
    IN  \/ p.found /\ p.phys + (tlb.va % 2^p.order) = tlb.phys /\ (tlb.w => p.w)
        \/ \E t \in Threads : op[t].flush.all \/ tlb.space \in op[t].flush.spaces

\* A frame is locked for a thread in an operation only.
LocksReleased == \A t \in Threads : op[t].at = "lookup" => HeldBy(t) = {}

\* The mapping a new one is to be inserted below is still there.
SenderFrameValid == \A t \in Threads : op[t].at = "insert" => op[t].src.pos >= 0

\* A locked frame exists.
LockedFrameExists == \A h \in held : tm[h.frame[1]] # None

\* Every treemap can be reached from the root.
NoLostTreemap == \A id \in Treemaps : tm[id] # None => id \in Tree(tm, 0)
=============================================================================
