-------------------------------- MODULE Kmem --------------------------------
(***************************************************************************)
(* Kernel memory: the buddy allocator (buddy_alloc.h) behind the lock of   *)
(* Kmem_alloc (kmem_alloc.cc), a slab cache on top of it (slab_cache.h,    *)
(* slab_cache.cc, kmem_slab.cc) and the reaper that takes empty slabs back *)
(* when memory runs out.  Each critical section of a spin lock is one      *)
(* step; between two of them other CPUs run.                               *)
(***************************************************************************)
EXTENDS Integers, Sequences, FiniteSets, SequencesExt

CONSTANTS
  MemCpus,      \* CPUs that allocate and free
  Units,        \* memory of the buddy allocator, in blocks of Min_size
  NumSizes,     \* Num_sizes: the block sizes are 2^0 .. 2^(NumSizes-1) units
  SlabIndex,    \* size index of the blocks the slab cache uses
  SlabElems,    \* _elem_num: objects in a slab
  BlockIndices, \* size indices of the blocks allocated directly
  MaxEmpty,     \* empty slabs a cache keeps (2 in the code)
  Null

ASSUME KmemAssumption ==
  /\ Units \in Nat \ {0} /\ NumSizes \in Nat \ {0} /\ SlabElems \in Nat \ {0, 1}
  /\ SlabIndex \in 0 .. NumSizes - 1 /\ BlockIndices \subseteq 0 .. NumSizes - 1
  /\ MaxEmpty \in Nat

VARIABLES
  free_list,    \* Buddy: _free, the addresses of the free blocks by size index
  free_map,     \* Buddy: the units whose bit is set in _free_map
  index,        \* Buddy: Head::index as found in the memory of a unit
  full, partial, empty, num_empty,   \* Slab_cache: the lists of slabs
  slab,         \* the free list of the Slab in a block
  objs,         \* objects handed out by the cache: <<slab, entry>>
  blocks,       \* blocks handed out directly: <<address, size index>>
  want,         \* what a CPU allocates: the size index of a block, or Null: an object
  m,            \* the block a CPU holds in a local variable, or Null
  sz,           \* reap(): has it freed something
  mem_pc

buddy_vars == <<free_list, free_map, index>>
slab_vars == <<full, partial, empty, num_empty, slab, objs>>
mem_vars == <<buddy_vars, slab_vars, blocks, want, m, sz, mem_pc>>

Addrs == 0 .. Units - 1
AnyWord == NumSizes   \* the word at the start of memory in use: any value

MemGoto(c, l) == mem_pc' = [mem_pc EXCEPT ![c] = l]

-------------------------------------------------------------------------------
(* Buddy_t_base, as functions on heaps *)

heap == [free |-> free_list, map |-> free_map, index |-> index]
SetHeap(h) == free_list' = h.free /\ free_map' = h.map /\ index' = h.index

\* Head::link() and the bit that is set after it.
link(h, b, i) == [free |-> [h.free EXCEPT ![i] = <<b>> \o @],
                  map |-> h.map \cup {b},
                  index |-> [h.index EXCEPT ![b] = i]]

\* The block of twice the size that b is a half of, and its other half.
NewBlock(b, i) == b - (b % 2^(i + 1))
Buddy(b, i) == IF NewBlock(b, i) = b THEN b + 2^i ELSE NewBlock(b, i)

\* buddy(): the bit of the other half is set and its head has the right index.
\* There is a bit behind the last unit, which is never set.
HasBuddy(h, b, i) ==
  LET o == Buddy(b, i) IN o \in h.map /\ h.index[o] \in {i, AnyWord}

\* free(): merge with the other half as long as that is free.
BuddyFree(h, b, i) ==
  LET Merge(s, k) ==
        IF s.i = k /\ HasBuddy(s.h, s.b, k)
        THEN [h |-> [s.h EXCEPT !.free[k] = Remove(@, Buddy(s.b, k))],
              b |-> NewBlock(s.b, k), i |-> k + 1]
        ELSE s
      end == FoldLeft(Merge, [h |-> h, b |-> b, i |-> i],
                      [k \in 1 .. NumSizes - 1 |-> k - 1])
  IN link(end.h, end.b, end.i)

\* Mutant: alloc() does not clear the bit.
BuddyAllocKeepsBit(h, i) ==
  LET fit == {k \in i .. NumSizes - 1 : h.free[k] # <<>>}
      k == CHOOSE x \in fit : \A y \in fit : x <= y
      f == Head(h.free[k])
      Split(g, j) == link(g, f + 2^j, j)
      g == FoldLeft(Split, [h EXCEPT !.free[k] = Tail(@)],
                    [j \in 1 .. k - i |-> i + j - 1])
  IN IF fit = {} THEN [h |-> h, b |-> Null]
     ELSE [h |-> [g EXCEPT !.index = [u \in Addrs |->
                              IF u \in f .. f + 2^i - 1 THEN AnyWord ELSE @[u]]],
           b |-> f]

\* Mutant: split() does not set the bit of the block it gives back.
BuddyAllocNoBit(h, i) ==
  LET fit == {k \in i .. NumSizes - 1 : h.free[k] # <<>>}
      k == CHOOSE x \in fit : \A y \in fit : x <= y
      f == Head(h.free[k])
      Split(g, j) == [link(g, f + 2^j, j) EXCEPT !.map = g.map]
      g == FoldLeft(Split, [h EXCEPT !.free[k] = Tail(@)],
                    [j \in 1 .. k - i |-> i + j - 1])
  IN IF fit = {} THEN [h |-> h, b |-> Null]
     ELSE [h |-> [g EXCEPT !.map = @ \ {f},
                           !.index = [u \in Addrs |->
                              IF u \in f .. f + 2^i - 1 THEN AnyWord ELSE @[u]]],
           b |-> f]

\* alloc(): the first block of the first list that has one, split down to
\* size index i.  Null when all lists from i on are empty.
BuddyAlloc(h, i) ==
  LET fit == {k \in i .. NumSizes - 1 : h.free[k] # <<>>}
      k == CHOOSE x \in fit : \A y \in fit : x <= y
      f == Head(h.free[k])
      Split(g, j) == link(g, f + 2^j, j)
      g == FoldLeft(Split, [h EXCEPT !.free[k] = Tail(@)],
                    [j \in 1 .. k - i |-> i + j - 1])
  IN IF fit = {} THEN [h |-> h, b |-> Null]
     ELSE [h |-> [g EXCEPT !.map = @ \ {f},
                           !.index = [u \in Addrs |->
                              IF u \in f .. f + 2^i - 1 THEN AnyWord ELSE @[u]]],
           b |-> f]

\* add_mem() at boot: the units are freed one after the other.
BootHeap ==
  FoldLeft(LAMBDA h, u : BuddyFree(h, u, 0),
           [free |-> [i \in 0 .. NumSizes - 1 |-> <<>>], map |-> {},
            index |-> [u \in Addrs |-> AnyWord]],
           [u \in 1 .. Units |-> u - 1])

MemInit ==
  /\ free_list = BootHeap.free /\ free_map = BootHeap.map /\ index = BootHeap.index
  /\ full = <<>> /\ partial = <<>> /\ empty = <<>> /\ num_empty = 0
  /\ slab = [a \in Addrs |-> <<>>]
  /\ objs = {} /\ blocks = {}
  /\ want = [c \in MemCpus |-> Null] /\ m = [c \in MemCpus |-> Null]
  /\ sz = [c \in MemCpus |-> FALSE]
  /\ mem_pc = [c \in MemCpus |-> "idle"]

-------------------------------------------------------------------------------
(* Slab_cache *)

\* The constructor pushes the entries to the front one after the other.
NewSlab == [k \in 1 .. SlabElems |-> SlabElems + 1 - k]
\* Mutant: free() does not notice that the slab was full.
is_full_never(s) == FALSE

is_full(s) == slab[s] = <<>>

available == partial # <<>> \/ empty # <<>>

\* get_available_locked() found a slab: alloc() takes an entry of it, and the
\* slab moves to the list of full ones with its last entry.
TakeObj ==
  LET s == IF partial # <<>> THEN Head(partial) ELSE Head(empty)
      last == Len(slab[s]) = 1
  IN /\ objs' = objs \cup {<<s, Head(slab[s])>>}
     /\ slab' = [slab EXCEPT ![s] = Tail(@)]
     /\ partial' = IF partial # <<>> THEN (IF last THEN Tail(partial) ELSE partial)
                   ELSE (IF last THEN <<>> ELSE <<s>>)
     /\ full' = IF last THEN <<s>> \o full ELSE full
     /\ empty' = IF partial # <<>> THEN empty ELSE Tail(empty)
     /\ num_empty' = IF partial # <<>> THEN num_empty ELSE num_empty - 1

\* A CPU starts an allocation.
Request(c, w) ==
  /\ mem_pc[c] = "idle"
  /\ want' = [want EXCEPT ![c] = w]
  /\ MemGoto(c, IF w = Null THEN "get" ELSE "buddy")
  /\ UNCHANGED <<buddy_vars, slab_vars, blocks, m, sz>>

\* Slab_cache::alloc(), first critical section.
SlabAlloc(c) ==
  /\ mem_pc[c] = "get"
  /\ \/ available /\ TakeObj /\ MemGoto(c, "idle")
     \/ ~available /\ MemGoto(c, "buddy") /\ UNCHANGED slab_vars
  /\ UNCHANGED <<buddy_vars, blocks, want, m, sz>>

\* The return of Kmem_alloc::alloc() with block b, or with Null: block_alloc()
\* gives it to the slab cache, other callers keep it.
KmemReturn(c, b) ==
  \/ /\ want[c] = Null
     /\ m' = [m EXCEPT ![c] = b]
     /\ slab' = IF b = Null THEN slab ELSE [slab EXCEPT ![b] = NewSlab]
     /\ MemGoto(c, "retry")
     /\ UNCHANGED blocks
  \/ /\ want[c] # Null
     /\ blocks' = IF b = Null THEN blocks ELSE blocks \cup {<<b, want[c]>>}
     /\ MemGoto(c, "idle")
     /\ UNCHANGED <<m, slab>>

SizeIndex(c) == IF want[c] = Null THEN SlabIndex ELSE want[c]

\* Kmem_alloc::alloc(), first try.
KmemAlloc(c) ==
  LET r == BuddyAlloc(heap, SizeIndex(c))
  IN /\ mem_pc[c] = "buddy"
     /\ SetHeap(r.h)
     /\ \/ r.b # Null /\ KmemReturn(c, r.b)
        \/ r.b = Null /\ MemGoto(c, "reap") /\ UNCHANGED <<blocks, m, slab>>
     /\ UNCHANGED <<full, partial, empty, num_empty, objs, want, sz>>

\* morecore(desperate): reap() takes the empty slabs one by one and is called
\* until it finds none.
Reap(c) ==
  /\ mem_pc[c] = "reap"
  /\ \/ /\ empty # <<>>
        /\ m' = [m EXCEPT ![c] = Head(empty)] /\ empty' = Tail(empty)
        /\ MemGoto(c, "reap_free") /\ UNCHANGED sz
     \/ /\ empty = <<>> /\ sz[c]
        /\ sz' = [sz EXCEPT ![c] = FALSE] /\ UNCHANGED <<m, empty, mem_pc>>
     \/ /\ empty = <<>> /\ ~sz[c]
        /\ MemGoto(c, "again") /\ UNCHANGED <<m, empty, sz>>
  /\ UNCHANGED <<buddy_vars, full, partial, num_empty, slab, objs, blocks, want>>

\* Slab::~Slab() leaves nothing behind; Kmem_alloc::free() under its lock.
block_free(c) ==
  /\ SetHeap(BuddyFree(heap, m[c], SlabIndex))
  /\ slab' = [slab EXCEPT ![m[c]] = <<>>]
  /\ m' = [m EXCEPT ![c] = Null]
  /\ UNCHANGED <<full, partial, empty, num_empty, objs, blocks, want>>

ReapFree(c) ==
  /\ mem_pc[c] = "reap_free"
  /\ block_free(c)
  /\ sz' = [sz EXCEPT ![c] = TRUE]
  /\ MemGoto(c, "reap")

\* Kmem_alloc::alloc(), second try.
KmemRetry(c) ==
  LET r == BuddyAlloc(heap, SizeIndex(c))
  IN /\ mem_pc[c] = "again"
     /\ SetHeap(r.h) /\ KmemReturn(c, r.b)
     /\ UNCHANGED <<full, partial, empty, num_empty, objs, want, sz>>

\* Slab_cache::alloc(), second critical section: another CPU may have made a
\* slab available meanwhile, then the new block is given back.
SlabRetry(c) ==
  /\ mem_pc[c] = "retry"
  /\ \/ /\ available /\ TakeObj
        /\ MemGoto(c, IF m[c] = Null THEN "idle" ELSE "block_free")
        /\ UNCHANGED m
     \/ /\ ~available /\ m[c] = Null
        /\ MemGoto(c, "idle") /\ UNCHANGED <<slab_vars, m>>
     \/ /\ ~available /\ m[c] # Null
        /\ objs' = objs \cup {<<m[c], Head(slab[m[c]])>>}
        /\ slab' = [slab EXCEPT ![m[c]] = Tail(@)]
        /\ partial' = <<m[c]>>
        /\ m' = [m EXCEPT ![c] = Null]
        /\ MemGoto(c, "idle")
        /\ UNCHANGED <<full, empty, num_empty>>
  /\ UNCHANGED <<buddy_vars, blocks, want, sz>>

\* Slab_cache::free(): a slab that was full becomes partial, one that gets
\* empty is kept or handed to block_free() after the critical section.
SlabFree(c, o) ==
  LET s == o[1]
      empties == ~is_full(s) /\ Len(slab[s]) + 1 = SlabElems
      keep == empties /\ num_empty < MaxEmpty
  IN /\ mem_pc[c] = "idle" /\ o \in objs
     /\ objs' = objs \ {o}
     /\ slab' = [slab EXCEPT ![s] = <<o[2]>> \o @]
     /\ full' = IF is_full(s) THEN Remove(full, s) ELSE full
     /\ partial' = IF is_full(s) THEN <<s>> \o partial
                   ELSE IF empties THEN Remove(partial, s) ELSE partial
     /\ empty' = IF keep THEN <<s>> \o empty ELSE empty
     /\ num_empty' = IF keep THEN num_empty + 1 ELSE num_empty
     /\ \/ /\ empties /\ ~keep
           /\ m' = [m EXCEPT ![c] = s] /\ MemGoto(c, "block_free")
        \/ /\ ~empties \/ keep
           /\ UNCHANGED <<m, mem_pc>>
     /\ UNCHANGED <<buddy_vars, blocks, want, sz>>

BlockFree(c) ==
  /\ mem_pc[c] = "block_free"
  /\ block_free(c)
  /\ MemGoto(c, "idle")
  /\ UNCHANGED sz

\* Kmem_alloc::free() by the owner of a block.
KmemFree(c, b) ==
  /\ mem_pc[c] = "idle" /\ b \in blocks
  /\ SetHeap(BuddyFree(heap, b[1], b[2]))
  /\ blocks' = blocks \ {b}
  /\ UNCHANGED <<slab_vars, want, m, sz, mem_pc>>

MemNext ==
  \E c \in MemCpus :
    \/ \E w \in BlockIndices \cup {Null} : Request(c, w)
    \/ SlabAlloc(c) \/ KmemAlloc(c) \/ Reap(c) \/ ReapFree(c)
    \/ KmemRetry(c) \/ SlabRetry(c) \/ BlockFree(c)
    \/ \E o \in objs : SlabFree(c, o)
    \/ \E b \in blocks : KmemFree(c, b)

MemSpec == MemInit /\ [][MemNext]_mem_vars

-------------------------------------------------------------------------------
(* Properties *)

Block(b, i) == b .. b + 2^i - 1

\* The blocks that exist, each with the one place that knows it: a free list
\* of the buddy allocator, a list of the slab cache, the hand of a CPU, or
\* the owner of a block.
Places ==
  UNION {{<<"free", i, k, free_list[i][k], i>> : k \in DOMAIN free_list[i]}
           : i \in 0 .. NumSizes - 1}
  \cup {<<"full", 0, k, full[k], SlabIndex>> : k \in DOMAIN full}
  \cup {<<"partial", 0, k, partial[k], SlabIndex>> : k \in DOMAIN partial}
  \cup {<<"empty", 0, k, empty[k], SlabIndex>> : k \in DOMAIN empty}
  \cup {<<"cpu", 0, c, m[c], SlabIndex>> : c \in {d \in MemCpus : m[d] # Null}}
  \cup {<<"owner", 0, 0, b[1], b[2]>> : b \in blocks}

\* Every unit of memory is in exactly one block, whatever CPUs allocate, free
\* and reap at the same time: Buddy_alloc::free() never merges with a block
\* in use although the bits of blocks it absorbed stay set and the index is
\* read from memory others may have written, and no slab is lost or freed twice.
\* The bit of a block in use is clear, which free() asserts.
MemoryOwned ==
  /\ \A u \in Addrs :
       Cardinality({p \in Places : u \in Block(p[4], p[5])}) = 1
  /\ \A p \in Places : p[1] # "free" => p[4] \notin free_map

\* Free halves never stay apart: Buddy_alloc::free() finds the buddy whenever
\* it is free as a whole, so memory that is free is available in blocks as
\* large as possible.
FreeBlocksMerged ==
  \A i \in 0 .. NumSizes - 2 : \A b \in ToSet(free_list[i]) :
    Buddy(b, i) \notin ToSet(free_list[i])

\* Each slab is in the list that fits its entries in use, which is what
\* debug_dump() looks for; the objects handed out are the entries not free,
\* and the count of empty slabs never gets below their number.
SlabsSorted ==
  /\ \A s \in ToSet(full) : slab[s] = <<>>
  /\ \A s \in ToSet(partial) : Len(slab[s]) \in 1 .. SlabElems - 1
  /\ \A s \in ToSet(empty) : Len(slab[s]) = SlabElems
  /\ num_empty >= Len(empty)
  /\ \A s \in ToSet(full) \cup ToSet(partial) \cup ToSet(empty) :
       /\ ToSet(slab[s]) \cap {o[2] : o \in {x \in objs : x[1] = s}} = {}
       /\ Len(slab[s]) + Cardinality({x \in objs : x[1] = s}) = SlabElems
  /\ \A o \in objs : o[1] \in ToSet(full) \cup ToSet(partial)
=============================================================================
