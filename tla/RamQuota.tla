------------------------------ MODULE RamQuota ------------------------------
(***************************************************************************)
(* Memory quotas: the lock-free account of a Ram_quota (ram_quota.h,       *)
(* ram_quota.cc), its reservation by an Auto_quota (auto_quota.h), and the *)
(* factories that own one (factory.h, factory.cc).  A factory can be       *)
(* destroyed while objects charged to it exist; the quota then lives on    *)
(* until the last byte comes back.  The quota of a new factory is charged  *)
(* to its parent.                                                          *)
(***************************************************************************)
EXTENDS Integers, FiniteSets, FiniteSetsExt

CONSTANTS
  Procs,        \* threads that create and delete objects
  Quotas,       \* quotas, the one of the root factory included
  Root,         \* the root quota, which is unlimited
  Limits,       \* limits a new factory may be given
  Sizes,        \* sizes of objects charged to a quota
  FactorySize,  \* sizeof(Factory)
  QInvalid,     \* Invalid: the top bit of _current
  NoParent      \* _parent of a quota that does not exist

\* check_max() accepts the limits, and Invalid is more than any sum of them.
ASSUME QuotaAssumption ==
  /\ Root \in Quotas /\ QInvalid \in Nat
  /\ Limits \subseteq 1 .. QInvalid - 2 /\ Sizes \subseteq 1 .. QInvalid - 1
  /\ FactorySize \in 1 .. QInvalid - 1

VARIABLES
  cur,          \* _current
  max,          \* _max, 0: unlimited
  parent,       \* _parent
  life,         \* "unborn", "live", "destroyed", "put" or "deleted"
  charged,      \* number of objects of each size charged to a quota
  job           \* what a thread does; see NoJob

quota_vars == <<cur, max, parent, life, charged, job>>

\* An operation of a thread: the step it is at, the quota, the bytes allocated
\* or freed, the value of _current it has loaded, the size of the object on
\* whose behalf it allocates (0: the factory) and the limit of the factory
\* it creates (0: another object).
NoJob == [at |-> "idle", q |-> Root, b |-> 0, o |-> 0, pin |-> 0, kid |-> 0]
JobAt(p, l) == job[p].at = l
Become(p, r) == job' = [job EXCEPT ![p] = r]
JobGoto(p, l) == job' = [job EXCEPT ![p].at = l]

unlimited(x) == max[x] = 0
IsInvalid(w) == w >= QInvalid

QuotaInit ==
  /\ cur = [x \in Quotas |-> 0] /\ max = [x \in Quotas |-> 0]
  /\ parent = [x \in Quotas |-> NoParent]
  /\ life = [x \in Quotas |-> IF x = Root THEN "live" ELSE "unborn"]
  /\ charged = [x \in Quotas |-> [s \in Sizes |-> 0]]
  /\ job = [p \in Procs |-> NoJob]

-------------------------------------------------------------------------------
(* Ram_quota *)

\* The constructor of Auto_quota, and alloc() up to its loop: nothing happens
\* when the sum of the bytes could overflow.
Alloc(p, x, b, pin, kid) ==
  /\ JobAt(p, "idle") /\ ~IsInvalid(b)
  /\ Become(p, [at |-> IF unlimited(x) THEN "create" ELSE "alloc", q |-> x,
                b |-> b, o |-> cur[x], pin |-> pin, kid |-> kid])
  /\ UNCHANGED <<cur, max, parent, life>>

\* Through the capability of the factory: a new object of size s.  The root
\* quota keeps no account of it.
NewObject(p, x, s) ==
  /\ life[x] = "live" /\ ~unlimited(x)
  /\ Alloc(p, x, s, 0, 0)
  /\ UNCHANGED charged

\* An object charged to the quota, such as a task, allocates from it; it
\* stays for that long.
Grow(p, x, by, s) ==
  /\ charged[x][by] > 0
  /\ charged' = [charged EXCEPT ![x][by] = @ - 1]
  /\ Alloc(p, x, s, by, 0)

\* Factory::create_factory(limit): its size and its limit are charged.
create_factory(p, x, limit) ==
  /\ life[x] = "live" /\ \E y \in Quotas : life[y] = "unborn"
  /\ Alloc(p, x, FactorySize + limit, 0, limit)
  /\ UNCHANGED charged

\* The object a thread allocates for is released again.
Unpin(p, h) ==
  IF job[p].pin = 0 THEN h ELSE [h EXCEPT ![job[p].q][job[p].pin] = @ + 1]

\* Mutant: the account is stored without a comparison.
alloc_blind(p) ==
  LET x == job[p].q
      n == job[p].o + job[p].b
      fails == IsInvalid(job[p].o) \/ n > max[x]
  IN /\ JobAt(p, "alloc")
     /\ \/ /\ fails
           /\ charged' = Unpin(p, charged) /\ Become(p, NoJob) /\ UNCHANGED cur
        \/ /\ ~fails
           /\ cur' = [cur EXCEPT ![x] = n] /\ JobGoto(p, "create") /\ UNCHANGED charged
     /\ UNCHANGED <<max, parent, life>>

\* One round of the loop in alloc().  An invocation of a factory, which holds nothing
\* that keeps it, may come here when the quota is deleted: what it meets in memory that
\* others may have by now is not followed, but as the end of the invocation.
alloc(p) ==
  LET x == job[p].q
      n == job[p].o + job[p].b
      fails == IsInvalid(job[p].o) \/ n > max[x] \/ life[x] = "deleted"
  IN /\ JobAt(p, "alloc")
     /\ \/ /\ fails
           /\ charged' = Unpin(p, charged) /\ Become(p, NoJob) /\ UNCHANGED cur
        \/ /\ ~fails /\ cur[x] = job[p].o
           /\ cur' = [cur EXCEPT ![x] = n] /\ JobGoto(p, "create") /\ UNCHANGED charged
        \/ /\ ~fails /\ cur[x] # job[p].o
           /\ job' = [job EXCEPT ![p].o = cur[x]] /\ UNCHANGED <<cur, charged>>
     /\ UNCHANGED <<max, parent, life>>

\* The bytes are reserved: the object is created, and the reservation kept
\* (release()), or memory or the capability slot is not available and the
\* reservation goes back: ~Auto_quota() or the deletion of the object.
Create(p) ==
  LET x == job[p].q
  IN /\ JobAt(p, "create")
     /\ \/ /\ job[p].kid = 0
           /\ charged' = Unpin(p, [charged EXCEPT ![x][job[p].b] = @ + 1])
           /\ Become(p, NoJob) /\ UNCHANGED <<max, parent, life>>
        \/ \E y \in Quotas :
             /\ job[p].kid # 0 /\ life[y] = "unborn"
             /\ life' = [life EXCEPT ![y] = "live"]
             /\ max' = [max EXCEPT ![y] = job[p].kid]
             /\ parent' = [parent EXCEPT ![y] = x]
             /\ Become(p, NoJob) /\ UNCHANGED charged
        \/ /\ charged' = Unpin(p, charged)
           /\ Become(p, [NoJob EXCEPT !.at = "free", !.q = x, !.b = job[p].b])
           /\ UNCHANGED <<max, parent, life>>
     /\ UNCHANGED cur

\* An object is deleted: its memory first, then its bytes go to the quota.
DeleteObject(p, x, s) ==
  /\ JobAt(p, "idle") /\ charged[x][s] > 0
  /\ charged' = [charged EXCEPT ![x][s] = @ - 1]
  /\ Become(p, [NoJob EXCEPT !.at = "free", !.q = x, !.b = s])
  /\ UNCHANGED <<cur, max, parent, life>>

\* free(), and put() with the deletion its caller does: the account is
\* decremented in one atomic step, and the one who finds just the Invalid bit
\* left deletes the quota.  Factory::operator delete frees what the factory
\* was charged with at the parent.
free(p) ==
  LET x == job[p].q
      r == (cur[x] - job[p].b) % (2 * QInvalid)
  IN /\ JobAt(p, "free")
     /\ \/ unlimited(x) /\ Become(p, NoJob) /\ UNCHANGED <<cur, life>>
        \/ /\ ~unlimited(x) /\ r # QInvalid
           /\ cur' = [cur EXCEPT ![x] = r]
           /\ Become(p, NoJob) /\ UNCHANGED life
        \/ /\ ~unlimited(x) /\ r = QInvalid
           /\ cur' = [cur EXCEPT ![x] = r]
           /\ life' = [life EXCEPT ![x] = "deleted"]
           /\ Become(p, [job[p] EXCEPT !.q = parent[x], !.b = FactorySize + max[x]])
     /\ UNCHANGED <<max, parent, charged>>

\* Factory::destroy(): take_and_invalidate() up to its loop.
destroy(p, x) ==
  /\ JobAt(p, "idle") /\ life[x] = "live"
  /\ life' = [life EXCEPT ![x] = "destroyed"]
  /\ Become(p, [NoJob EXCEPT !.at = IF unlimited(x) THEN "grace" ELSE "invalidate",
                            !.q = x, !.o = cur[x]])
  /\ UNCHANGED <<cur, max, parent, charged>>

\* Mutant: the destroyer takes no byte.
take_nothing(p) ==
  LET x == job[p].q
      n == job[p].o + (IF IsInvalid(job[p].o) THEN 0 ELSE QInvalid)
  IN /\ JobAt(p, "invalidate")
     /\ \/ /\ cur[x] = job[p].o
           /\ cur' = [cur EXCEPT ![x] = n]
           /\ Become(p, [NoJob EXCEPT !.at = "grace", !.q = x])
        \/ /\ cur[x] # job[p].o
           /\ job' = [job EXCEPT ![p].o = cur[x]] /\ UNCHANGED cur
     /\ UNCHANGED <<max, parent, life, charged>>

\* One round of the loop in take_and_invalidate().
take_and_invalidate(p) ==
  LET x == job[p].q
      n == job[p].o + 1 + (IF IsInvalid(job[p].o + 1) THEN 0 ELSE QInvalid)
  IN /\ JobAt(p, "invalidate")
     /\ \/ /\ cur[x] = job[p].o
           /\ cur' = [cur EXCEPT ![x] = n]
           /\ Become(p, [NoJob EXCEPT !.at = "grace", !.q = x])
        \/ /\ cur[x] # job[p].o
           /\ job' = [job EXCEPT ![p].o = cur[x]] /\ UNCHANGED cur
     /\ UNCHANGED <<max, parent, life, charged>>

\* After the RCU grace period put() gives back the byte of the destroyer.  The grace
\* period does not wait for invocations of the factory: kinvoke() opens the CPU lock
\* before it allocates.
put(p) ==
  LET x == job[p].q
  IN /\ JobAt(p, "grace")
     /\ life' = [life EXCEPT ![x] = "put"]
     /\ Become(p, [NoJob EXCEPT !.at = "free", !.q = x, !.b = 1])
     /\ UNCHANGED <<cur, max, parent, charged>>

QuotaNext ==
  \E p \in Procs :
    \/ \E x \in Quotas :
         \/ destroy(p, x)
         \/ \E limit \in Limits : create_factory(p, x, limit)
         \/ \E s \in Sizes : NewObject(p, x, s) \/ DeleteObject(p, x, s)
         \/ \E by, s \in Sizes : Grow(p, x, by, s)
    \/ alloc(p) \/ Create(p) \/ free(p) \/ take_and_invalidate(p) \/ put(p)

QuotaSpec == QuotaInit /\ [][QuotaNext]_quota_vars

-------------------------------------------------------------------------------
(* Properties *)

Kids(x) == {y \in Quotas : parent[y] = x /\ life[y] # "deleted"}
Ops(x, steps) == {p \in Procs : job[p].q = x /\ job[p].at \in steps}

\* What is charged to a quota: its objects, the objects threads allocate for,
\* the factories below it, and the reservations that threads hold.
Bytes(x) ==
  MapThenSumSet(LAMBDA s : s * charged[x][s], Sizes)
  + MapThenSumSet(LAMBDA p : job[p].pin, Ops(x, {"alloc", "create"}))
  + MapThenSumSet(LAMBDA y : FactorySize + max[y], Kids(x))
  + MapThenSumSet(LAMBDA p : job[p].b, Ops(x, {"create", "free"}))

\* The account of a limited quota is exact through all races on it: it has
\* the bytes charged, one more and the Invalid bit from take_and_invalidate()
\* to put(), and never exceeds the limit by more than that one byte.
QuotaExact ==
  \A x \in Quotas : life[x] \notin {"unborn", "deleted"} /\ ~unlimited(x) =>
    LET taken == IF Ops(x, {"grace"}) # {} THEN 1 ELSE 0
        invalid == IF life[x] = "put" \/ taken = 1 THEN QInvalid ELSE 0
    IN /\ cur[x] = Bytes(x) + taken + invalid
       /\ cur[x] % QInvalid <= max[x] + 1

\* A quota is deleted when its factory is gone and nothing is charged to it
\* any more, not later: the memory is not leaked.  Nor earlier: a deleted quota has no
\* objects, factories or reservations left, and no thread that frees, invalidates or
\* has reserved bytes is at work on it.  Only an invocation that has not reserved
\* anything yet can be left.
DeletedWhenUnused ==
  \A x \in Quotas : ~unlimited(x) =>
    /\ life[x] = "put" => Bytes(x) > 0
    /\ life[x] = "deleted" =>
         Bytes(x) = 0 /\ \A p \in Procs : job[p].q = x => JobAt(p, "alloc") /\ job[p].pin = 0

\* Not even that: what put() should be able to rely on.  It does not hold.
DeletedWhenUnseen ==
  \A x \in Quotas : life[x] = "deleted" => \A p \in Procs : job[p].q # x
=============================================================================
