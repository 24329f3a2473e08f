------------------------------- MODULE PrioList -------------------------------
(***************************************************************************)
(* Prio_list (prio_list.h): the priority sorted list a receiver keeps its  *)
(* senders in, with its `Poi', the element a receiver in a closed wait is  *)
(* interested in.                                                          *)
(*                                                                         *)
(* Every element is operated on by its own thread (sender_enqueue(),       *)
(* sender_dequeue()) and by the receiver Rcv that owns the list            *)
(* (Thread_ipc::dequeue_next_sender(), the re-enqueue of try_receive(),    *)
(* dequeue_first() of do_kill(), set_partner(), sys_modify_senders()); all *)
(* of them may run on different CPUs.  Every access to _queue, _poi and    *)
(* _lock is a step of its own; the list pointers change in one step, which *)
(* also releases the lock that protects them.                              *)
(*                                                                         *)
(* Pq_lock::invalidate() has no caller, so the lock is never invalid.      *)
(***************************************************************************)
EXTENDS Integers, FiniteSets, SequencesExt

CONSTANTS Elems,   \* the elements, and the threads they belong to
          Prios,   \* the priorities in use
          Systems, \* the systems to look at
          Batch,   \* elements sys_modify_senders() visits in one go: 50
          Rcv, None

\* elems: the elements in use; local: whether their threads share a CPU with the
\* receiver; walks: whether the receiver calls sys_modify_senders(), or receives
ASSUME ListAssumption ==
  /\ Rcv \notin Elems /\ None \notin Elems \cup {Rcv}
  /\ Prios \subseteq Nat /\ Batch \in Nat \ {0}
  /\ Systems \subseteq [elems : SUBSET Elems, local : BOOLEAN, walks : BOOLEAN]

Actors == Elems \cup {Rcv}

VARIABLES
  sys,     \* the system: chosen once, never changed
  queued,  \* Prio_list_elem::_queue == this
  prio,    \* Prio_list_elem::_prio
  plist,   \* the H_list of the first elements of each priority
  nxt,     \* D_list_item::_dli_next, the ring of one priority
  prv,     \* D_list_item::_dli_prev
  poi,     \* Prio_list::_poi: element and the two low bits
  lock,    \* Prio_list::_lock
  cursor,  \* Prio_list::_cursor
  pc, arg,  \* what an actor does, and the element it does it to
  newprio, \* the priority insert() was called with
  taken,   \* the sender the receiver has dequeued
  walk,    \* `c' of sys_modify_senders()
  cnt,     \* `cnt' of sys_modify_senders()
  todo     \* history: queued since the walk began and not yet visited

vars == <<sys, queued, prio, plist, nxt, prv, poi, lock, cursor, pc, arg, newprio,
          taken, walk, cnt, todo>>

links == <<plist, nxt, prv, cursor>>
walker == <<walk, cnt, todo>>

Heads == ToSet(plist)

First == IF plist = <<>> THEN None ELSE plist[1]

\* *++P_list::iter(e) for an element that is the first of its priority
NextHead(e) ==
  LET i == CHOOSE i \in DOMAIN plist : plist[i] = e
  IN  IF i = Len(plist) THEN None ELSE plist[i + 1]

\* Prio_list::next()
NextOf(e) == IF nxt[e] \in Heads THEN NextHead(nxt[e]) ELSE nxt[e]

\* The elements in the order first(), next(), next() ... delivers them.
Order ==
  LET s[i \in 1..Cardinality(Elems)] ==
        IF i = 1 THEN First
        ELSE IF s[i - 1] = None THEN None ELSE NextOf(s[i - 1])
  IN  SelectSeq(s, LAMBDA e : e # None)

NoPoi == [e |-> None, st |-> 0]

\* The two low bits of _poi: not queued, queued, set_poi() is under way.
NotQueued == 0
Queued == 1
Setting == 2

Init ==
  /\ sys \in Systems
  /\ queued = [e \in Elems |-> FALSE]
  /\ prio = [e \in Elems |-> Min(Prios)]   \* set by the first insert()
  /\ plist = <<>>
  /\ nxt = [e \in Elems |-> None]
  /\ prv = [e \in Elems |-> None]
  /\ poi = NoPoi
  /\ lock = None
  /\ cursor = None
  /\ pc = [a \in Actors |-> "idle"]
  /\ arg = [a \in Actors |-> None]
  /\ newprio = [a \in Actors |-> None]
  /\ taken = None
  /\ walk = None
  /\ cnt = 0
  /\ todo = {}

Goto(a, l) == pc' = [pc EXCEPT ![a] = l]

\* An operation returns and leaves nothing of itself behind.
Return(a) ==
  /\ Goto(a, "idle")
  /\ arg' = [arg EXCEPT ![a] = None]
  /\ newprio' = [newprio EXCEPT ![a] = None]

-----------------------------------------------------------------------------
(* Pq_lock::test_and_set() spins; only the successful CAS changes anything. *)

Lock(a, l, next) ==
  /\ pc[a] = l /\ lock = None
  /\ lock' = a
  /\ Goto(a, next)
  /\ UNCHANGED <<queued, prio, links, poi, arg, newprio, taken, walker>>

-----------------------------------------------------------------------------
(* insert(): by the thread itself, or by the receiver that dequeued it.    *)

InsertStart(a, e, p) ==
  /\ pc[a] = "idle"
  /\ a = e \/ (a = Rcv /\ taken = e)
  /\ Goto(a, "ins_lock")
  /\ arg' = [arg EXCEPT ![a] = e]
  /\ newprio' = [newprio EXCEPT ![a] = IF a = Rcv THEN prio[e] ELSE p]
  /\ taken' = IF a = Rcv THEN None ELSE taken
  /\ UNCHANGED <<queued, prio, links, poi, lock, walker>>

\* insert_dirty(): the CAS on _queue, and init().
InsertCas(a) ==
  /\ pc[a] = "ins_cas" /\ ~queued[arg[a]]
  /\ queued' = [queued EXCEPT ![arg[a]] = TRUE]
  /\ prio' = [prio EXCEPT ![arg[a]] = newprio[a]]
  /\ Goto(a, "ins_poi")
  /\ UNCHANGED <<links, poi, lock, arg, newprio, taken, walker>>

InsertFail(a) ==
  /\ pc[a] = "ins_cas" /\ queued[arg[a]]
  /\ Return(a)
  /\ lock' = None
  /\ UNCHANGED <<queued, prio, links, poi, taken, walker>>

\* The load of _poi, in insert_dirty() and in dequeue().
LoadPoi(a, l, cas, link) ==
  /\ pc[a] = l
  /\ Goto(a, IF poi.e = arg[a] THEN cas ELSE link)
  /\ UNCHANGED <<queued, prio, links, poi, lock, arg, newprio, taken, walker>>

\* The compare_exchange of _poi, from the queue status the operation ends.
CasPoi(a, l, old, new, link) ==
  /\ pc[a] = l
  /\ poi' = IF poi = [e |-> arg[a], st |-> old]
            THEN [e |-> arg[a], st |-> new] ELSE poi
  /\ Goto(a, link)
  /\ UNCHANGED <<queued, prio, links, lock, arg, newprio, taken, walker>>

\* Mutant: the priority of the new element is not looked at.
InsertPosLast(p) == Len(plist) + 1

\* The position the loop of insert_dirty() stops at.
InsertPos(p) ==
  LET stop == {i \in DOMAIN plist : prio[plist[i]] <= p}
  IN  IF stop = {} THEN Len(plist) + 1 ELSE Min(stop)

Link(e) ==
  LET i == InsertPos(prio[e])
      joins == i <= Len(plist) /\ prio[plist[i]] = prio[e]
      h == plist[i]
  IN  \/ /\ joins   \* S_list::insert_before(e, *pos)
         /\ nxt' = [nxt EXCEPT ![e] = h, ![prv[h]] = e]
         /\ prv' = [prv EXCEPT ![e] = prv[h], ![h] = e]
         /\ UNCHANGED plist
      \/ /\ ~joins  \* S_list::self_insert(e); insert_before(e, pos)
         /\ nxt' = [nxt EXCEPT ![e] = e]
         /\ prv' = [prv EXCEPT ![e] = e]
         /\ plist' = InsertAt(plist, i, e)

InsertLink(a) ==
  /\ pc[a] = "ins_link"
  /\ Link(arg[a])
  /\ Return(a)
  /\ lock' = None
  /\ UNCHANGED <<queued, prio, poi, cursor, taken, walker>>

Insert(a) ==
  \/ \E e \in Elems, p \in Prios : InsertStart(a, e, p)
  \/ Lock(a, "ins_lock", "ins_cas")
  \/ InsertCas(a) \/ InsertFail(a)
  \/ LoadPoi(a, "ins_poi", "ins_cas_poi", "ins_link")
  \/ CasPoi(a, "ins_cas_poi", NotQueued, Queued, "ins_link")
  \/ InsertLink(a)

-----------------------------------------------------------------------------
(* dequeue(): sender_dequeue() by the thread itself, dequeue_next_sender()  *)
(* by the receiver.                                                        *)

\* Sender::in_sender_list(s, list): the Poi answers for its own element.
InSenderList(e) == IF poi.e = e THEN poi.st = Queued ELSE queued[e]

DequeueStart(a, e) ==
  /\ pc[a] = "idle"
  /\ \/ a = e /\ nxt[e] # None
     \/ a = Rcv /\ InSenderList(e)
  /\ Goto(a, "deq_check")
  /\ arg' = [arg EXCEPT ![a] = e]
  /\ UNCHANGED <<queued, prio, links, poi, lock, newprio, taken, walker>>

DequeueCheck(a) ==
  /\ pc[a] = "deq_check" /\ queued[arg[a]]
  /\ Goto(a, "deq_lock")
  /\ UNCHANGED <<queued, prio, links, poi, lock, arg, newprio, taken, walker>>

DequeueGone(a) ==
  /\ pc[a] = "deq_check" /\ ~queued[arg[a]]
  /\ Return(a)
  /\ UNCHANGED <<queued, prio, links, poi, lock, taken, walker>>

DequeueCas(a) ==
  /\ pc[a] = "deq_cas" /\ queued[arg[a]]
  /\ queued' = [queued EXCEPT ![arg[a]] = FALSE]
  /\ Goto(a, "deq_poi")
  /\ UNCHANGED <<prio, links, poi, lock, arg, newprio, taken, walker>>

DequeueFail(a) ==
  /\ pc[a] = "deq_cas" /\ ~queued[arg[a]]
  /\ Return(a)
  /\ lock' = None
  /\ UNCHANGED <<queued, prio, links, poi, taken, walker>>

\* What _dequeue() stores through its `next' argument.
After(e) ==
  IF e \in Heads
  THEN IF nxt[e] # e THEN nxt[e] ELSE NextHead(e)
  ELSE NextOf(e)

\* Mutant: the first element of a priority is not replaced by its sibling.
UnlinkNoReplace(e) ==
  /\ cursor' = IF cursor = e THEN After(e) ELSE cursor
  /\ plist' = IF nxt[e] = e THEN SelectSeq(plist, LAMBDA x : x # e) ELSE plist
  /\ nxt' = [nxt EXCEPT ![prv[e]] = nxt[e], ![e] = None]
  /\ prv' = [prv EXCEPT ![nxt[e]] = prv[e]]

\* _dequeue(), with the ring operations of S_list::remove().
Unlink(e) ==
  /\ cursor' = IF cursor = e THEN After(e) ELSE cursor
  /\ plist' = IF e \notin Heads THEN plist
              ELSE IF nxt[e] # e
                   THEN [i \in DOMAIN plist |->
                           IF plist[i] = e THEN nxt[e] ELSE plist[i]]
                   ELSE SelectSeq(plist, LAMBDA x : x # e)
  /\ nxt' = [nxt EXCEPT ![prv[e]] = nxt[e], ![e] = None]
  /\ prv' = [prv EXCEPT ![nxt[e]] = prv[e]]

\* The receiver that dequeues a sender makes it its partner.
DequeueLink(a, l, next) ==
  /\ pc[a] = l
  /\ Unlink(arg[a])
  /\ lock' = None
  /\ todo' = todo \ {arg[a]}
  /\ taken' = IF a = Rcv THEN arg[a] ELSE taken
  /\ IF a = Rcv /\ next = "set_start"
     THEN Goto(a, next) /\ UNCHANGED <<arg, newprio>>
     ELSE Return(a)
  /\ UNCHANGED <<queued, prio, poi, walk, cnt>>

Dequeue(a) ==
  \/ \E e \in Elems : DequeueStart(a, e)
  \/ DequeueCheck(a) \/ DequeueGone(a)
  \/ Lock(a, "deq_lock", "deq_cas")
  \/ DequeueCas(a) \/ DequeueFail(a)
  \/ LoadPoi(a, "deq_poi", "deq_cas_poi", "deq_link")
  \/ CasPoi(a, "deq_cas_poi", Queued, NotQueued, "deq_link")
  \/ DequeueLink(a, "deq_link", "set_start")

-----------------------------------------------------------------------------
(* dequeue_first(), as do_kill() and try_vcpu_irq_receive() use it.        *)

FirstStart ==
  /\ pc[Rcv] = "idle"
  /\ Goto(Rcv, "first_lock")
  /\ UNCHANGED <<queued, prio, links, poi, lock, arg, newprio, taken, walker>>

FirstCas ==
  /\ pc[Rcv] = "first_cas" /\ First # None /\ queued[First]
  /\ queued' = [queued EXCEPT ![First] = FALSE]
  /\ arg' = [arg EXCEPT ![Rcv] = First]
  /\ Goto(Rcv, "first_poi")
  /\ UNCHANGED <<prio, links, poi, lock, newprio, taken, walker>>

FirstFail ==
  /\ pc[Rcv] = "first_cas"
  /\ First # None => ~queued[First]
  /\ Return(Rcv)
  /\ lock' = None
  /\ UNCHANGED <<queued, prio, links, poi, taken, walker>>

DequeueFirst ==
  \/ FirstStart
  \/ Lock(Rcv, "first_lock", "first_cas")
  \/ FirstCas \/ FirstFail
  \/ LoadPoi(Rcv, "first_poi", "first_cas_poi", "first_link")
  \/ CasPoi(Rcv, "first_cas_poi", Queued, NotQueued, "first_link")
  \/ DequeueLink(Rcv, "first_link", "idle")

-----------------------------------------------------------------------------
(* set_poi() and reset_poi(), called by the receiver only.                 *)

SetPoiCall(e) ==
  /\ pc[Rcv] = "idle"
  /\ Goto(Rcv, "set_start")
  /\ arg' = [arg EXCEPT ![Rcv] = e]
  /\ UNCHANGED <<queued, prio, links, poi, lock, newprio, taken, walker>>

SetPoiStart ==
  /\ pc[Rcv] = "set_start"
  /\ poi' = [e |-> arg[Rcv], st |-> Setting]
  /\ Goto(Rcv, "set_load")
  /\ UNCHANGED <<queued, prio, links, lock, arg, newprio, taken, walker>>

\* The load of e->_queue decides which value is stored.
SetPoiLoad ==
  /\ pc[Rcv] = "set_load"
  /\ Goto(Rcv, IF queued[arg[Rcv]] THEN "set_queued" ELSE "set_unqueued")
  /\ UNCHANGED <<queued, prio, links, poi, lock, arg, newprio, taken, walker>>

SetPoiStore(l, st) ==
  /\ pc[Rcv] = l
  /\ poi' = [e |-> arg[Rcv], st |-> st]
  /\ Return(Rcv)
  /\ UNCHANGED <<queued, prio, links, lock, taken, walker>>

ResetPoi ==
  /\ pc[Rcv] = "idle"
  /\ poi' = NoPoi
  /\ UNCHANGED <<queued, prio, links, lock, pc, arg, newprio, taken, walker>>

SetPoi ==
  \/ \E e \in sys.elems : SetPoiCall(e)
  \/ SetPoiStart \/ SetPoiLoad
  \/ SetPoiStore("set_queued", Queued) \/ SetPoiStore("set_unqueued", NotQueued)
  \/ ResetPoi

-----------------------------------------------------------------------------
(* sys_modify_senders(): the receiver walks its own list without the lock  *)
(* and parks the cursor on the next element at a preemption point.         *)

WalkStart ==
  /\ pc[Rcv] = "idle"
  /\ cursor = None /\ First # None
  /\ walk' = First
  /\ cnt' = Batch
  /\ todo' = {e \in Elems : nxt[e] # None}
  /\ Goto(Rcv, "walk")
  /\ UNCHANGED <<queued, prio, links, poi, lock, arg, newprio, taken>>

\* modify_label() on c, and c = next(c).  next() follows the ring pointer
\* of c; it is null when c has been removed, and the walk ends in a fault.
WalkNext ==
  /\ pc[Rcv] = "walk" /\ cnt > 0
  /\ walk # None /\ nxt[walk] # None
  /\ walk' = NextOf(walk)
  /\ cnt' = cnt - 1
  /\ todo' = todo \ {walk}
  /\ UNCHANGED <<queued, prio, links, poi, lock, pc, arg, newprio, taken>>

WalkPark ==
  /\ pc[Rcv] = "walk" /\ cnt = 0 /\ walk # None
  /\ cursor' = walk
  /\ Goto(Rcv, "walk_pp")
  /\ UNCHANGED <<queued, prio, plist, nxt, prv, poi, lock, arg, newprio, taken,
                 walker>>

\* Mutant: the walk goes on where it stopped, not where the cursor is.
WalkResumeStale ==
  /\ pc[Rcv] = "walk_pp"
  /\ cnt' = Batch
  /\ Goto(Rcv, "walk")
  /\ UNCHANGED <<queued, prio, links, poi, lock, arg, newprio, taken, walk, todo>>


WalkResume ==
  /\ pc[Rcv] = "walk_pp"
  /\ walk' = cursor
  /\ cnt' = Batch
  /\ Goto(Rcv, "walk")
  /\ UNCHANGED <<queued, prio, links, poi, lock, arg, newprio, taken, todo>>

WalkDone ==
  /\ pc[Rcv] = "walk" /\ walk = None
  /\ cnt' = 0
  /\ todo' = {}
  /\ Goto(Rcv, "idle")
  /\ UNCHANGED <<queued, prio, links, poi, lock, arg, newprio, taken, walk>>

ModifySenders == WalkStart \/ WalkNext \/ WalkPark \/ WalkResume \/ WalkDone

-----------------------------------------------------------------------------

\* Kernel code that does not reach a preemption point runs with the CPU lock
\* held, so the actors of one CPU do not interleave within an operation.
HasCpu(a) ==
  sys.local => \A b \in Actors \ {a} : pc[b] \in {"idle", "walk_pp"}

\* The receiver hands the sender it took back to the list, or serves it.
Serve ==
  /\ pc[Rcv] = "idle" /\ taken # None
  /\ taken' = None
  /\ UNCHANGED <<queued, prio, links, poi, lock, pc, arg, newprio, walker>>

Next ==
  /\ \/ \E e \in sys.elems : HasCpu(e) /\ (Insert(e) \/ Dequeue(e))
     \/ /\ ~sys.walks /\ HasCpu(Rcv)
        /\ Insert(Rcv) \/ Dequeue(Rcv) \/ DequeueFirst \/ SetPoi \/ Serve
     \/ sys.walks /\ HasCpu(Rcv) /\ ModifySenders
  /\ UNCHANGED sys

Spec == Init /\ [][Next]_vars

-----------------------------------------------------------------------------
(* Properties                                                              *)

\* Every variable keeps its type.
TypeOK ==
  /\ sys \in Systems
  /\ queued \in [Elems -> BOOLEAN]
  /\ prio \in [Elems -> Prios]
  /\ plist \in Seq(Elems)
  /\ nxt \in [Elems -> Elems \cup {None}]
  /\ prv \in [Elems -> Elems \cup {None}]
  /\ poi \in [e : Elems \cup {None}, st : 0..2]
  /\ lock \in Actors \cup {None}
  /\ cursor \in Elems \cup {None}
  /\ arg \in [Actors -> Elems \cup {None}]
  /\ newprio \in [Actors -> Prios \cup {None}]
  /\ taken \in Elems \cup {None}
  /\ walk \in Elems \cup {None}
  /\ cnt \in 0..Batch
  /\ todo \subseteq Elems

\* Whenever nobody holds the lock, walking the list from first() through
\* next() meets exactly the elements whose _queue names the list: the early
\* tests of dequeue() and in_sender_list(), which look at _queue without the
\* lock, answer for the list itself.
ListMatchesQueue ==
  lock = None => {e \in Elems : queued[e]} = ToSet(Order)

\* The links of the list implement a priority queue: each operation that
\* changes them is one insertion or one removal of PrioQueue, in particular
\* the order is by priority and first-in first-out within a priority.
Ordered == LET o == Order IN [i \in DOMAIN o |-> [e |-> o[i], p |-> prio[o[i]]]]

PQ == INSTANCE PrioQueue WITH q <- Ordered

ImplementsPrioQueue == PQ!PQSpec

\* The walk of sys_modify_senders() is never at an element that has left the list, whose
\* next() would be read through a null pointer; and when it ends it has visited every
\* element that was in the list when it began and has not left it since, whatever
\* happened to the list at the preemption points in between.
WalkComplete ==
  pc[Rcv] = "walk" => IF walk = None THEN todo = {} ELSE nxt[walk] # None

\* `The Poi is used to track a potentially enqueued and dequeued
\* Prio_list_elem that's status gets tracked on enqueue and dequeue':
\* when no operation is under way the Poi tells whether its element is queued.
PoiTracksQueue ==
  (\A a \in Actors : pc[a] = "idle") /\ poi.e # None
    => (poi.st = Queued <=> queued[poi.e])
=============================================================================
