----------------------------- MODULE KobjectCaps -----------------------------
(***************************************************************************)
(* Capabilities and the life cycle of kernel objects: map() and unmap() on *)
(* object spaces (map_util_helper.h, map_util_objs.cc), the flat mapping   *)
(* database of an object (kobject_mapdb.h, kobject.h), and the two-phase   *)
(* destruction of objects that lost their last capability (Reap_list).     *)
(* Some objects are tasks; a task is an object space with slots for        *)
(* capabilities, which destroy() empties.                                  *)
(***************************************************************************)
EXTENDS Integers, Sequences, FiniteSets, SequencesExt

CONSTANTS
  Threads,     \* threads that map, unmap, create and invoke objects
  Objs,        \* kernel objects, numbered in the order of their addresses
  Tasks,       \* the object spaces: tasks of Objs and others that stay
  Slots,       \* the slots: pairs of a task and a number
  FirstCaps,   \* slots with the first capability of an object, initially
  Attrs,       \* attributes a sender may give a capability
  SelfOvermap, \* map() may replace a strong capability without Delete by
               \* another one for the same object
  MaxDec,      \* how often O_dec_refcnt is invoked
  None

ASSUME KobjectAssumption ==
  /\ Objs \subseteq Nat /\ \A x \in Slots : x[1] \in Tasks
  /\ SelfOvermap \in BOOLEAN /\ MaxDec \in Nat

VARIABLES
  caps,     \* Obj::Entry of each slot: object, Delete and Ref_cnt flag
  root,     \* Kobject_mappable::_root: the slots in the list of an object
  cnt,      \* Kobject_mappable::_cnt
  maplock,  \* Kobject_mappable::_lock: its owner
  exlock,   \* Kobject::existence_lock: its owner
  inits,    \* how often initiate_deletion() was called for an object
  deleted,  \* the objects deleted
  decs,     \* decrements by O_dec_refcnt so far
  use,      \* object a thread uses with the CPU lock held, or None
  op        \* the operation of a thread

cap_vars == <<caps, root, cnt, maplock, exlock, inits, deleted, decs, use, op>>

Void == [obj |-> None, del |-> FALSE, ref |-> FALSE]

\* An operation: the step it is at, what it is ("map", "unmap", "create" or
\* "reap"), source and destination slot and the objects found in them, the
\* attributes of the new capability, grant, the slots still to unmap, whether
\* to delete, the space whose existence lock is held, the objects on the reap
\* list, how many of them destroy() was called for, and the threads the grace
\* period waits for.
Idle == [at |-> "idle", kind |-> "", s |-> None, d |-> None, o |-> None,
         r |-> None, a |-> Void, grant |-> FALSE, todo |-> <<>>, del |-> FALSE,
         to |-> None, reap |-> <<>>, n |-> 0, wait |-> {}]

At(p, l) == op[p].at = l
Step(p, new) == op' = [op EXCEPT ![p] = new]
Goto(p, l) == op' = [op EXCEPT ![p].at = l]

valid(x) == IF x \in Objs THEN inits[x] = 0 ELSE TRUE   \* existence_lock.valid()
SlotsOf(t) == SetToSortSeq({x \in Slots : x[1] = t}, LAMBDA x, y : x[2] < y[2])

CapInit ==
  /\ caps = [x \in Slots |-> IF x \in DOMAIN FirstCaps
             THEN [obj |-> FirstCaps[x], del |-> TRUE, ref |-> TRUE] ELSE Void]
  /\ root = [o \in Objs |-> {x \in DOMAIN FirstCaps : FirstCaps[x] = o}]
  /\ cnt = [o \in Objs |-> Cardinality(root[o])]
  /\ maplock = [o \in Objs |-> None]
  /\ exlock = [o \in Objs \cup Tasks |-> None]
  /\ inits = [o \in Objs |-> 0] /\ deleted = {} /\ decs = [o \in Objs |-> 0]
  /\ use = [p \in Threads |-> None] /\ op = [p \in Threads |-> Idle]

-------------------------------------------------------------------------------
(* Kobject_mapdb and Obj_space, as functions on the state of the database   *)

db == [caps |-> caps, root |-> root, cnt |-> cnt, reap |-> <<>>]
Commit(b) ==
  /\ caps' = b.caps /\ root' = b.root /\ cnt' = b.cnt
  /\ inits' = [o \in Objs |-> inits[o]
                + Cardinality({i \in DOMAIN b.reap : b.reap[i] = o})]

RefCounted(b, S) == Cardinality({x \in S : b.caps[x].ref})

\* v_delete() with all rights.
v_delete(b, x) == [b EXCEPT !.caps[x].obj = None]

\* Kobject_mappable::invalidate_mappings().
invalidate_mappings(b, o) ==
  [b EXCEPT !.cnt[o] = @ - RefCounted(b, b.root[o]),
            !.caps = [x \in Slots |-> IF x \in b.root[o]
                      THEN [b.caps[x] EXCEPT !.obj = None] ELSE b.caps[x]],
            !.root[o] = {}]

\* Mutant: a strong capability that goes is still counted.
flush_uncounted(b, o, x, del) ==
  IF (del /\ b.caps[x].del) \/ (b.caps[x].ref /\ b.cnt[o] <= 1)
  THEN invalidate_mappings(b, o)
  ELSE [b EXCEPT !.root[o] = @ \ {x}]

\* Kobject_mapdb::flush() of slot x in the list of object o.
flush(b, o, x, del) ==
  IF (del /\ b.caps[x].del) \/ (b.caps[x].ref /\ b.cnt[o] <= 1)
  THEN invalidate_mappings(b, o)
  ELSE [b EXCEPT !.root[o] = @ \ {x}, !.cnt[o] = IF b.caps[x].ref THEN @ - 1 ELSE @]

\* free_object(): initiate_deletion() appends the object to the reap list.
free_object(b, o) ==
  IF b.root[o] = {} THEN [b EXCEPT !.reap = Append(@, o)] ELSE b

\* Take slot x, which held object o, out of its space and out of the database.
UnmapSlot(b, o, x, del) == free_object(flush(v_delete(b, x), o, x, del), o)

\* v_insert() into an empty slot.
v_insert(b, o, x, a) == [b EXCEPT !.caps[x] = [obj |-> o, del |-> a.del, ref |-> a.ref]]

\* Kobject_mapdb::insert().
insert(b, o, x) ==
  [b EXCEPT !.root[o] = @ \cup {x}, !.cnt[o] = @ + RefCounted(b, {x})]

\* Kobject_mapdb::grant() from slot s to slot d, the removal of s from its
\* space and free_object() after it.
grant(b, o, s, d) ==
  LET weaker == b.caps[s].ref /\ ~b.caps[d].ref
      moved == [b EXCEPT !.root[o] = (@ \ {s}) \cup {d},
                         !.cnt[o] = IF weaker THEN @ - 1 ELSE @]
      kept == IF weaker /\ moved.cnt[o] <= 0 THEN invalidate_mappings(moved, o)
              ELSE moved
  IN free_object(v_delete(kept, s), o)

-------------------------------------------------------------------------------
(* map(), unmap() and the creation of objects *)

\* map(): the existence lock of the destination space is taken, and the source
\* slot looked up without a lock.  The copy has at most the flags of the source.
StartMap(p, s, d, a, g) ==
  /\ At(p, "idle") /\ use[p] = None /\ s # d
  /\ valid(d[1]) /\ exlock[d[1]] = None
  /\ caps[s].obj # None
  /\ SelfOvermap \/ caps[d].obj # caps[s].obj \/ caps[d].del \/ ~caps[d].ref
  /\ exlock' = [exlock EXCEPT ![d[1]] = p]
  /\ Step(p, [Idle EXCEPT !.at = "dst", !.kind = "map", !.s = s, !.d = d,
                          !.o = caps[s].obj, !.grant = g, !.to = d[1],
                          !.a = [del |-> a.del /\ caps[s].del,
                                 ref |-> a.ref /\ caps[s].ref]])
  /\ UNCHANGED <<caps, root, cnt, maplock, inits, deleted, decs, use>>

\* The lookup of the destination slot.
LookupDst(p) ==
  /\ At(p, "dst")
  /\ Step(p, [op[p] EXCEPT !.r = caps[op[p].d].obj, !.at = "lock"])
  /\ UNCHANGED <<caps, root, cnt, maplock, exlock, inits, deleted, decs, use>>

\* unmap() of some slots of a space, in their order.
StartUnmap(p, t, S, del) ==
  /\ At(p, "idle") /\ use[p] = None
  /\ valid(t) /\ exlock[t] = None
  /\ exlock' = [exlock EXCEPT ![t] = p]
  /\ Step(p, [Idle EXCEPT !.at = "next", !.kind = "unmap", !.del = del, !.to = t,
                          !.todo = SelectSeq(SlotsOf(t), LAMBDA x : x \in S)])
  /\ UNCHANGED <<caps, root, cnt, maplock, inits, deleted, decs, use>>

\* map() of a new object: an object in the slot is unmapped first.
StartCreate(p, o, d) ==
  /\ At(p, "idle") /\ use[p] = None
  /\ root[o] = {} /\ inits[o] = 0 /\ \A q \in Threads : ~(op[q].kind = "create" /\ op[q].o = o)
  /\ valid(d[1]) /\ exlock[d[1]] = None
  /\ exlock' = [exlock EXCEPT ![d[1]] = p]
  /\ Step(p, [Idle EXCEPT !.at = "next", !.kind = "create", !.del = TRUE,
                          !.o = o, !.d = d, !.to = d[1], !.todo = <<d>>])
  /\ UNCHANGED <<caps, root, cnt, maplock, inits, deleted, decs, use>>

\* The loop of unmap(): the lookup of the next slot.
NextSlot(p) ==
  LET x == Head(op[p].todo)
  IN /\ At(p, "next") /\ op[p].todo # <<>>
     /\ Step(p, IF caps[x].obj = None THEN [op[p] EXCEPT !.todo = Tail(@)]
                ELSE [op[p] EXCEPT !.s = x, !.r = caps[x].obj, !.at = "lock"])
     /\ UNCHANGED <<caps, root, cnt, maplock, exlock, inits, deleted, decs, use>>

\* The locks an operation takes, in order, each with the slot it is checked by:
\* lookup() and lookup_src_dst() with lock2_safely().
Locks(q) ==
  IF q.kind # "map" THEN << <<q.s, q.r>> >>
  ELSE IF q.r \in {None, q.o} THEN << <<q.s, q.o>> >>
  ELSE IF q.o > q.r THEN << <<q.s, q.o>>, <<q.d, q.r>> >>
  ELSE << <<q.d, q.r>>, <<q.s, q.o>> >>

Held(p) == {o \in Objs : maplock[o] = p}
NextLock(p) ==
  SelectSeq(Locks(op[p]), LAMBDA l : maplock[l[2]] # p)[1]

\* The end of one round: the locks are released, and the reap list has grown.
Round(p, reap) ==
  /\ maplock' = [o \in Objs |-> IF maplock[o] = p THEN None ELSE maplock[o]]
  /\ Step(p, [Idle EXCEPT
       !.at = "next", !.kind = op[p].kind, !.to = op[p].to, !.n = op[p].n,
       !.del = op[p].del, !.reap = op[p].reap \o reap,
       !.todo = IF op[p].kind = "map" THEN <<>> ELSE Tail(op[p].todo),
       !.o = IF op[p].kind = "create" THEN op[p].o ELSE None,
       !.d = IF op[p].kind = "create" THEN op[p].d ELSE None])

\* The thread has got lock l: it goes on to the next one or to its work.
Acquire(p, l) ==
  /\ maplock[l[2]] = None
  /\ maplock' = [maplock EXCEPT ![l[2]] = p]
  /\ Goto(p, IF l = Last(Locks(op[p])) THEN "work" ELSE "lock")

\* Mutant: the lock is taken whatever the slot has.
TryLockUnchecked(p) ==
  /\ At(p, "lock")
  /\ Acquire(p, NextLock(p))
  /\ UNCHANGED <<caps, root, cnt, exlock, inits, deleted, decs, use>>

\* Lock::try_lock() with a Kobject_mapdb::Ref: the slot must still have the
\* object.  The CPU lock makes test and acquisition one step on one CPU.
TryLock(p) ==
  LET l == NextLock(p)
  IN /\ At(p, "lock")
     /\ \/ caps[l[1]].obj # l[2] /\ Round(p, <<>>)
        \/ caps[l[1]].obj = l[2] /\ Acquire(p, l)
     /\ UNCHANGED <<caps, root, cnt, exlock, inits, deleted, decs, use>>

\* The same with several CPUs, where the owner is set in a later step.
TryLockMP(p) ==
  LET l == NextLock(p)
  IN /\ At(p, "lock")
     /\ \/ caps[l[1]].obj # l[2] /\ Round(p, <<>>)
        \/ /\ caps[l[1]].obj = l[2] /\ maplock[l[2]] = None
           /\ Goto(p, "owner") /\ UNCHANGED maplock
     /\ UNCHANGED <<caps, root, cnt, exlock, inits, deleted, decs, use>>

\* set_lock_owner().  When the lock was taken meanwhile, and is not free again by the
\* time it is looked at, help() follows and the slot is tested again.
SetLockOwner(p) ==
  LET l == NextLock(p)
  IN /\ At(p, "owner")
     /\ \/ Acquire(p, l)
        \/ maplock[l[2]] # None /\ Goto(p, "lock") /\ UNCHANGED maplock
     /\ UNCHANGED <<caps, root, cnt, exlock, inits, deleted, decs, use>>

\* The database after the work of a map(): the old destination is unmapped,
\* then the new capability inserted; there may be no memory for its slot.
Mapped(q, nomem) ==
  LET same == q.r = q.o /\ caps[q.d].del
      clear == IF q.r = None THEN db ELSE UnmapSlot(db, q.r, q.d, TRUE)
      new == v_insert(clear, q.o, q.d, q.a)
  IN IF same \/ nomem THEN clear
     ELSE IF q.grant THEN grant(new, q.o, q.s, q.d) ELSE insert(new, q.o, q.d)

\* The work under the locks, and their release.
Work(p) ==
  LET q == op[p]
      Done(b) == Commit(b) /\ Round(p, b.reap)
  IN /\ At(p, "work")
     /\ \/ q.kind = "map" /\ \E nomem \in BOOLEAN : Done(Mapped(q, nomem))
        \/ q.kind # "map" /\ Done(UnmapSlot(db, q.r, q.s, q.del))
     /\ UNCHANGED <<exlock, deleted, decs, use>>

\* The end of an operation: a new object gets its first capability, the
\* existence lock is released, and the reap list is processed.
Finish(p) ==
  LET q == op[p]
  IN /\ At(p, "next") /\ q.todo = <<>> /\ q.kind # "reap"
     /\ \/ /\ q.kind = "create"
           /\ caps' = v_insert(db, q.o, q.d, [del |-> TRUE, ref |-> TRUE]).caps
           /\ root' = [root EXCEPT ![q.o] = {q.d}]
           /\ cnt' = [cnt EXCEPT ![q.o] = 1]
        \/ q.kind # "create" /\ UNCHANGED <<caps, root, cnt>>
     /\ exlock' = [exlock EXCEPT ![q.to] = None]
     /\ Step(p, IF q.reap = <<>> THEN Idle
                ELSE [Idle EXCEPT !.at = "next", !.kind = "reap", !.reap = q.reap])
     /\ UNCHANGED <<maplock, inits, deleted, decs, use>>

-------------------------------------------------------------------------------
(* Reap_list::del() *)

\* del_1(): destroy() of the next object waits until its existence lock is free;
\* a task unmaps everything then, which may add to the list.
Destroy(p) ==
  LET q == op[p]
      x == q.reap[q.n + 1]
  IN /\ At(p, "next") /\ q.kind = "reap" /\ q.todo = <<>> /\ q.n < Len(q.reap)
     /\ exlock[x] = None
     /\ Step(p, [q EXCEPT !.n = @ + 1, !.del = TRUE,
                          !.todo = IF x \in Tasks THEN SlotsOf(x) ELSE <<>>])
     /\ UNCHANGED <<caps, root, cnt, maplock, exlock, inits, deleted, decs, use>>

\* Mutant: nobody is waited for.
RcuWaitNot(p) ==
  LET q == op[p]
  IN /\ At(p, "next") /\ q.kind = "reap" /\ q.todo = <<>> /\ q.n = Len(q.reap)
     /\ Step(p, [q EXCEPT !.at = "grace"])
     /\ UNCHANGED <<caps, root, cnt, maplock, exlock, inits, deleted, decs, use>>

\* rcu_wait(): every thread that uses an object now must come to an end of it.
RcuWait(p) ==
  LET q == op[p]
  IN /\ At(p, "next") /\ q.kind = "reap" /\ q.todo = <<>> /\ q.n = Len(q.reap)
     /\ Step(p, [q EXCEPT !.at = "grace", !.wait = {t \in Threads : use[t] # None}])
     /\ UNCHANGED <<caps, root, cnt, maplock, exlock, inits, deleted, decs, use>>

\* del_2(): put() and deletion of the objects.
Put(p) ==
  /\ At(p, "grace") /\ op[p].wait = {}
  /\ deleted' = deleted \cup ToSet(op[p].reap)
  /\ Step(p, Idle)
  /\ UNCHANGED <<caps, root, cnt, maplock, exlock, inits, decs, use>>

-------------------------------------------------------------------------------
(* Invocation of an object *)

\* A thread finds an object through a capability, with the CPU lock held.
Deref(p, x) ==
  /\ At(p, "idle") /\ use[p] = None /\ caps[x].obj # None
  /\ use' = [use EXCEPT ![p] = caps[x].obj]
  /\ UNCHANGED <<caps, root, cnt, maplock, exlock, inits, deleted, decs, op>>

LeaveCpuLock(p) ==
  op' = [t \in Threads |-> [op[t] EXCEPT !.wait = @ \ {p}]]

\* The invocation ends ...
EndUse(p) ==
  /\ At(p, "idle") /\ use[p] # None
  /\ use' = [use EXCEPT ![p] = None] /\ LeaveCpuLock(p)
  /\ UNCHANGED <<caps, root, cnt, maplock, exlock, inits, deleted, decs>>

\* ... or takes the existence lock of the object, if that is still valid, and
\* works on without the CPU lock until it releases it.
LockObject(p) ==
  /\ At(p, "idle") /\ use[p] # None /\ valid(use[p]) /\ exlock[use[p]] = None
  /\ exlock' = [exlock EXCEPT ![use[p]] = p]
  /\ use' = [use EXCEPT ![p] = None]
  /\ op' = [t \in Threads |-> IF t = p THEN [Idle EXCEPT !.at = "locked", !.o = use[p]]
                              ELSE [op[t] EXCEPT !.wait = @ \ {p}]]
  /\ UNCHANGED <<caps, root, cnt, maplock, inits, deleted, decs>>

UnlockObject(p) ==
  /\ At(p, "locked")
  /\ exlock' = [exlock EXCEPT ![op[p].o] = None] /\ Step(p, Idle)
  /\ UNCHANGED <<caps, root, cnt, maplock, inits, deleted, decs, use>>

\* sys_dec_refcnt(): the count is lowered by the invoker.
DecRefcnt(p) ==
  /\ At(p, "idle") /\ use[p] # None /\ maplock[use[p]] = None
  /\ decs[use[p]] < MaxDec
  /\ cnt' = [cnt EXCEPT ![use[p]] = @ - 1]
  /\ decs' = [decs EXCEPT ![use[p]] = @ + 1]
  /\ UNCHANGED <<caps, root, maplock, exlock, inits, deleted, use, op>>

CapStep(p) ==
  \/ \E s, d \in Slots, a \in Attrs, g \in BOOLEAN : StartMap(p, s, d, a, g)
  \/ \E t \in Tasks, S \in SUBSET Slots, del \in BOOLEAN :
       S # {} /\ (\A x \in S : x[1] = t) /\ StartUnmap(p, t, S, del)
  \/ \E o \in Objs, d \in Slots : StartCreate(p, o, d)
  \/ LookupDst(p) \/ NextSlot(p) \/ Work(p)
  \/ Finish(p) \/ Destroy(p) \/ RcuWait(p) \/ Put(p)
  \/ \E x \in Slots : Deref(p, x)
  \/ EndUse(p) \/ LockObject(p) \/ UnlockObject(p) \/ DecRefcnt(p)

CapNext == \E p \in Threads : CapStep(p) \/ TryLock(p)

CapSpec == CapInit /\ [][CapNext]_cap_vars

\* The same on several CPUs.
MPNext == \E p \in Threads : CapStep(p) \/ TryLockMP(p) \/ SetLockOwner(p)

MPSpec == CapInit /\ [][MPNext]_cap_vars

-------------------------------------------------------------------------------
(* Properties *)

\* Kobject::destroy() and Kobject::put() are called exactly once as a direct
\* consequence of unmapping: no two operations both find that an object lost
\* its last capability.
DestroyedOnce == \A o \in Objs : inits[o] <= 1

\* The database of an object has exactly the slots with a capability for it.
\* It never counts more strong ones than there are (it can count fewer: a grant
\* uses the attributes that map() has read before it had the lock), weak
\* capabilities alone never keep an object, and an object that is being deleted
\* has no capability left.
CapsExact ==
  \A o \in Objs :
    /\ root[o] = {x \in Slots : caps[x].obj = o}
    /\ cnt[o] + decs[o] <= RefCounted(db, root[o])
    /\ root[o] # {} => RefCounted(db, root[o]) > 0
    /\ inits[o] > 0 => root[o] = {}

\* What a thread works on is not deleted: an object found through a capability
\* until the CPU lock is released, and an object whose existence lock it holds.
UsedExists ==
  \A p \in Threads :
    /\ use[p] \notin deleted
    /\ \A o \in deleted : exlock[o] # p /\ maplock[o] # p
=============================================================================
