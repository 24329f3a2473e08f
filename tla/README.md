# A TLA+ model of the Fiasco microkernel core

This directory holds TLA+ specifications of the concurrent core of the Fiasco
kernel (`src/src/kern`), the TLC instances that check them, and TLAPS proofs.
`PROJECT.json` maps every definition to the source lines it stands for and lists
components, runs, mutants, hazards and theorems; this file explains them.

## 1. The system

Fiasco is a preemptible multiprocessor kernel.  A *context* (thread) executes on
its *home CPU*; kernel code runs with the CPU lock held (interrupts off) except at
preemption points, so the contexts of one CPU interleave only there, while other
CPUs interleave at every access to shared memory.  Nearly everything a CPU does to
a thread of another CPU goes through a few mechanisms, and these are the core:

| Part | State | Operations | Hard behaviour |
|---|---|---|---|
| Switch lock, helping (`switch_lock.h`, `context_mp.h`, `context.cc`) | owner and flag word, lock count, `_running_under_lock`, helper, current context per CPU | lock, try_lock, clear, clear_dirty + switch_dirty, invalidate, wait_free, switch_exec_locked, schedule, migration | a waiter lends its CPU to the holder: a context may run away from home, but never on two CPUs |
| Sender list (`prio_list.h`, `sender.h`) | list of rings, `_queue` of elements, Poi, cursor, lock | insert, dequeue, dequeue_first, set_poi, walk with cursor | lock-free tests of membership, tracking of one element, iteration across preemption |
| Thread IPC (`thread_ipc.h`, `receiver.h`, `ipc_timeout.cc`) | state word of each thread, partner, sender list, timeouts | send, receive, call, reply and wait; timeout, cancel, kill, failed copy | two-sided handshake where each side first looks for the other and then blocks |
| Remote requests and migration (`context_drq.*`, `context_mp.*`, `sched_mp.h`, `sched.cc`, `drq_queue.h`) | DRQ queues, pending queue and its lock per CPU, IPIs, migration pointer, ready lists, online CPUs | drq, wake-up, migrate, handle_remote_requests, take_cpu_offline/online | the target moves, and its CPU leaves, between any two steps of the requester |
| RCU (`rcupdate.*`) | batch numbers, set of CPUs still to pass, callback lists | call, process_callbacks, do_batch, enter/leave_idle | idle CPUs, batches that start back to back |
| Timeouts (`timeout.*`) | wheel of sorted lists, programmed time, last visit | set, reset, set_again, do_timeouts, have_timeouts | late interrupts, wrap-around, migration, tickless idle |
| Semaphores (`semaphore.cc`) | counter, waiters, mask of the interrupt | down, hit (edge, level), destroy | completion races with timeout, cancellation and destruction |
| Interrupts and wait queues (`irq.*`, `ipc_sender.h`, `irq_chip.h`, `wait_queue.*`) | count of queued interrupts, target, enabled flag, pin, queue of receivers or of senders | hit, trigger, bind, detach, consume, EOI, receive | counting, masking and sending are separate steps, and the target changes meanwhile |
| Capabilities and objects (`map_util_*`, `kobject*.h`, `obj_space_phys_util.h`, `task.cc`) | capability slots, list and count of each object, two locks per object, reap list | map, grant, unmap, create, invoke, delete | the look at a capability comes before the lock; the last capability starts the deletion |
| Memory mappings (`mapdb.*`, `mapping_tree.*`, `map_util_helper.h`, `map_util_mem.cc`) | treemaps, frames with lists of mappings, page tables, TLBs | map, grant, unmap of pages of several sizes | page tables are read before the frame is locked, and TLBs are flushed at the end |
| Kernel memory (`buddy_alloc.h`, `kmem_alloc.cc`, `slab_cache.*`) | free lists and bitmap, slabs in three lists | alloc, free, reap | the slab cache grows outside of its lock; memory runs out |
| Quotas (`ram_quota.*`, `auto_quota.h`, `factory.*`) | one word: bytes and invalid bit | alloc, free, take_and_invalidate, put | compare-and-swap loops race with the death of the factory |
| Address-space ids (`asid_alloc.h`) | generation, bitmap, active and reserved ids per CPU | get_or_alloc_asid, roll_over | the fast path has no lock |
| Cross-CPU calls (`cpu_call.h`) | call queues, `_wait`, a few call objects on the caller's stack | cpu_call_many, handle_requests | reuse of call objects, CPUs that call each other or go offline |

How they interact: IPC keeps its senders in a Prio_list and its timeouts in a
timeout queue; interrupts are senders, and wait queues receivers, of the same
handshake; a partner on another CPU is woken through the pending queue of that
CPU; a thread is changed or killed by a DRQ that it executes itself; a migrating
thread takes its timeouts and, through helping, its locks along; objects die under
their switch lock and after an RCU grace period, when map and unmap operations have
taken their last capability; page-table changes use cross-CPU calls.

Parts that are not modelled, with the reason, are in "components" of
`PROJECT.json` and in section 6.

What should hold of the core: no context on two CPUs; locks, counts and owners that
agree; no lost rendezvous, wake-up, request, callback, timeout or waiter; results
that say what happened; nothing left in a list of a thread that has gone on; freed
memory that nobody refers to; page tables and TLBs that give no more than the mapping
database; accounts that are exact; and everything that was asked for happens in the end.

## 2. Modules

The modules of a component are written from its source, one action per access to
shared memory where other CPUs can interfere, or per operation where the CPU lock
or a list lock makes it atomic.  Labels (`pc`) name the place in the code.

| Module | Models | Correspondence |
|---|---|---|
| `SwitchLock` | Switch_lock, helping, context switch | `owner`, `invalid` the word of the lock, `freed` that wait_free() has returned; `lock_cnt`, `rul`, `helper`, `home` the members of Context; `cur`, `prev`, `tgt` what a CPU executes, leaves and switches to |
| `SwitchLockProofs`, `SwitchLockOwners` | | proofs for any number of threads, CPUs and locks: types, the invariant of `_running_under_lock` and the steps of helpers; owners and counts of locks |
| `SwitchLockSwitching`, `SwitchLockTheorems` | | proofs about `_running_under_lock`: the steps that switch or migrate, and giving the flag up; the theorems |
| `PrioList` | Prio_list | every pointer (`plist`, `nxt`, `prv`), `_queue`, `_poi`, `_cursor`, `_lock` |
| `PrioQueue` | what a Prio_list promises | a sequence of (element, priority) |
| `ThreadIpc` | the IPC handshake | `state` the flags of Thread_state, `list` the sender list (one step per Prio_list operation), `poi`, `partner`, timeouts; the message is the identity of its sender |
| `RemoteRequest` | DRQs, remote wake-ups, migration, hotplug | `drqs`, `pend`, `qlock`, `ipi`, `mig`, `home`, `online`, `inrq` (in the ready list); one step per shared access |
| `Rcu`, `RcuProofs` | RCU, and the proof of its promise | members of Rcu_glbl and Rcu_data; `rd`, `ref` record who may use an item |
| `TimeoutQ`, `TimeoutProofs` | Timeout_q and its users on one CPU; proofs | the wheel with the arithmetic of `int` and of the slots |
| `TimeoutSet` | what a timeout queue promises | a set of armed timeouts |
| `Semaphore` | Semaphore | counter, waiters, flags of the waiting threads, mask |
| `IrqSender` | Irq_sender, Ipc_sender, Irq_base and Wait_queue with receiving threads | `queued`, `target`, `enabled`, `masked`; `list` whose sender list the interrupt is in; `wait_q`, `has_senders` the wait queue; `state`, `poi` of the receivers |
| `KobjectCaps` | map and unmap of capabilities, Kobject_mapdb, Kobject_mappable, Reap_list, existence lock | `caps` the slots, `root`, `cnt`, `maplock` of Kobject_mappable, `exlock`; `op` the operation of a thread with its locals; `use` what it holds under the CPU lock |
| `Mapdb` | map and unmap of pages, Treemap, Physframe, Mapping_tree, Auto_tlb_flush | `tm` the treemaps with the lists of their frames, `held` the frame locks, `pt` the page tables, `tlb` a translation of some CPU |
| `MappingForest` | what the mapping database promises | the pages, each with the place it was mapped from; what is being unmapped |
| `Kmem` | Buddy_alloc, Kmem_alloc, Slab_cache | `free_list`, `free_map`, the word `index` at the start of every block; `full`, `partial`, `empty`, `num_empty` |
| `RamQuota` | Ram_quota, Auto_quota, Factory | `cur` the word, `max`, `parent`, `life` of the factory that owns it; invocations of a factory outlive it |
| `AsidAlloc`, `AsidProofs` | Asid_alloc_t and its use by Mem_space (ARM); proofs | `gen`, `bitmap`, `flush`, `active`, `reserved`, `asid`; `hw`, `tlb` what the hardware holds; `stale` a history of the roll-overs |
| `CpuCall`, `CpuCallProofs` | Cpu_call, Cpu_calls; proofs | queues, `_wait`, the two loops of cpu_call_many() |
| `MC*` | TLC instances | |

Most modules take a constant `Systems`, a set of records that say where threads
live, what they ask for and what may happen to them; the variable `sys` is one of
them, chosen by Init and never changed.  One run then covers all systems of its
`MC` module.  Some runs check several modules: the variable `part` (or `nested`,
`counted`) of their `MC` module says which of them takes steps.

Objects of `KobjectCaps` and threads of `Mapdb` use other components by what they
promise: the switch lock as a lock with an owner (`SwitchLock`), rcu_wait() as a wait
for all that hold the CPU lock now (`GracePeriod` of `Rcu`), the TLB flush as a step
that is done on all CPUs when it returns (`CallFinished` of `CpuCall`).

Memory is sequentially consistent; the barriers of the code are not examined.

## 3. Runs

All bounds are in the `.cfg` files and in the systems of the `MC` modules.

| Run | States | Shows |
|---|---|---|
| `locks` | 461 k | two threads, two CPUs, one lock, migration at any time; and three threads with two nested locks, the chain "helper of a holder that waits itself": `OneCpu`, `_running_under_lock` as the assertions of set_lock_owner() want it (`RunningUnderLock`), lock counts and owner words that agree, and no owner of a freed lock (`OwnersExact`) |
| `live` | 59 k | two CPUs and two items of RCU: `GracePeriod`, every item is freed; a lock and two threads: the destroyer gets through wait_free(); two clients and a server: every call is answered |
| `cpu_call` | 56 k | four CPUs with two call objects, any mask; two callers and a CPU that goes offline and comes back |
| `lists` | 315 k | two senders on other CPUs with a receiver; three senders on the CPU of a receiver that walks its list, one element per batch (50 in the code) so that every step meets a preemption point; two CPUs with five units of memory in blocks of three sizes and slabs of two objects, so that memory runs out, halves merge across the end of an incomplete block, and the reaper meets allocations |
| `timeout` | 449 k | a one-shot wheel of two lists that turns more than twice; a periodic wheel of four lists with an interrupt that is held up for longer than a turn; `int` of 8 and 16 values so that both wrap |
| `ipc` | 830 k | threads: timeouts, cancellation and death on one CPU, aborted sends with preempted copies, senders on different CPUs that meet a receiver; interrupts: software, level and edge triggered, hit on the CPU of the receiver or on another one, bound to threads and a wait queue in turn, detached; semaphores: one CPU with everything, three CPUs with destruction and several down operations, three CPUs with destruction, timeouts and cancellation |
| `remote` | 1.1 M | two requesters and a target on three CPUs: all requests with the CPUs online; a CPU that drains its queue and leaves; a CPU that leaves and comes back |
| `objects` | 557 k | two threads, two objects of which one is a task, three slots: `ReapedOnce`, `DatabaseExact`, `InUseExists`; and one object with three slots whose count is lowered; deadlock is checked |
| `memory` | 482 k | two spaces: pages of two sizes; two frames; two threads on a frame, with maps by system call and by IPC; rights; the last two with a TLB.  Two threads with three quotas: `QuotaExact`, `DeletedWhenUnused`.  Deadlock is checked |
| `asid` | 803 k | two CPUs, four spaces, three ASIDs, five generations, two roll-overs: `NoForeignTlbHitUnlessStale`, `UniqueUnlessStale` |
| `cpu_call_async`, `kobject_mp` | | violated, see section 5 |

Why the bounds are enough.  The protocols are between two parties and a third that
interferes: holder, helper and a migrating home CPU; sender, receiver and a second
sender; requester, target and the CPU it goes to; caller, called CPU and the next
call that uses the same object; an operation that maps, one that unmaps, and the
thread that uses the object or the page; two CPUs at an allocator and the reaper.
Every run has these three, and each action of each next-state relation fires in some
run.  Two call objects and four CPUs make objects run out; a count limit of 2 or 3
stands for LONG_MAX; two priorities and three elements give every shape of a list of
rings that an insertion or removal distinguishes.  Three slots and two objects give
sender, receiver and a third capability, and a task that holds a capability for
itself.  A mapping depth of 1 with two spaces makes insertions fail, and two page
sizes give frames with submaps.  Three ASIDs for two CPUs are the fewest
(one to keep on each, one to hand out), so that each allocation can roll over.
Limits of 1 and 3 with objects of 1 and 2 bytes make a quota exactly full,
overdrawn by one byte and refused.  Every property comes with a mutant, a plausible
mistake in the code it is about, under which TLC finds it violated.

Larger instances that were checked once: quotas with limits 2 and 4 (527 k states);
objects with `MaxDec` 1 in the instance with two objects (1.9 M); memory of four
units with slabs of one unit and two empty slabs kept (639 k); `asid` with five spaces
(2.9 M).

Assumptions of the passing runs that the code does not enforce, each with what
happens otherwise in section 5:

* `objects`: the two threads share a CPU, so that try_lock() is one step; a strong
  capability is not replaced by a weak one for the same object (`SelfOvermap`).
* `memory`: a page is mapped over another one only where lookup_src_dst() releases
  what it locks (`overmap` FALSE); two threads share one frame of one size.
* `ipc`: threads of a wait queue share the CPU of their senders.  The branches of
  EnqueueSender and EnqueueReceiver that find the other side in the queue are for
  several CPUs and are not met there.  No thread has a timeout at the wait queue of a
  level triggered interrupt.

An assumption that is a property of the caller: sigma0 grants nothing.

The two properties of `asid` hold until something happens that `Stale` describes, which
the run does not exclude: a roll-over is about to take over from another CPU an active
ASID that is not of the generation it ends.  Section 5 says how that comes about and
what follows; before it, nothing goes wrong, and that is also proved.  DeletedWhenUnused
does not claim that nobody is left in a deleted quota, but that whoever is left has not
yet reserved anything in it.

Some properties are stated, or systems chosen, so that a known disagreement of
section 5 does not hide everything else; each such restriction is named there.

### Fairness

All in `live`, except for the last:

* Locks: CPUs go on with what they do in the kernel and the scheduler picks every
  runnable context again and again (round robin within a priority).  Wake-ups by
  other modules are left out, so that they cannot be what makes progress.
* IPC: strong fairness of the steps of each thread (a ready thread gets the CPU again
  and again, its CPU-lock sections end), and the server keeps asking for its next
  reply-and-wait.  No client is assumed to call.
* RCU: RCU code is finished, the spin lock is fair, read sections end, and the timer
  tick finds a CPU outside of a read section again and again.
* `cpu_call`: CPUs take their interrupts and go on; a spinning caller is served.

## 4. Proofs

TLAPS checks, for all values of the constants:

* `SwitchLockProofs!TypeCorrect`: `Spec => []TypeOK`, for any number of threads, CPUs
  and locks.  TypeOK alone is not inductive; TypeInv adds LocalsOK: where a context is
  in the code, its local variables are what the next step takes them for (a lock, a
  context to switch to, a holder to help).  Assumption (ConstAssumption): threads,
  CPUs, locks and None are different things.
* `SwitchLockOwners!OwnersAreExact`: `Spec => []OwnersExact`: outside lock() and clear()
  the lock count of a context is the number of locks it owns, and a lock whose destroyer
  has left wait_free() is never owned again.  Inductive with CodeInv: the difference of
  count and locks is one exactly between the two stores (`Uncounted`), the owner word is
  cleared and counted by its owner only, a destroyer stays in the loop of wait_free()
  with the lock it has invalidated, through every switch and preemption
  (`WaitFreeCode`), and the kernel contexts take no lock (`KernelCode`).
* `SwitchLockTheorems!ContextsOnOneCpu`: `Spec => []OneCpu`: no context executes on two
  CPUs, nor on one while another has not finished switching away from it, however many
  helpers, migrations and preemptions interfere.  OneCpu speaks of `cur` and `prev` only.
  The inductive invariant SafeInv (`SwitchLockProofs`) says why the next switch is safe:
    - `FlagOf`: a context on a CPU has `_running_under_lock` if it holds a lock or is not
      at home;
    - `AwayOf`: a context without locks that is not at home is on its way to schedule();
    - `TargetOf`, `ClaimOf`: where a CPU is between its test of the flag, the count or the
      home CPU of a context and the switch to it, what it has found is still so, and
      nobody has taken the context meanwhile;
    - `DistinctClaims`: two CPUs never have claims on one context that both lead to a
      switch;
    - `DisjointCpus`, `KernelHome`: OneCpu itself, and idle contexts never move.

  Its steps need to know that dec_lock_cnt() meets a count above zero, which is CodeInv
  of `SwitchLockOwners` (`CountsKnown`): the three invariants are inductive together.
* `SwitchLockTheorems!FlagFollowsLocks`: `Spec => []RunningUnderLock`: the flag is set
  where a context executes with locks or away from home, it is not kept without locks,
  and both assertions of set_lock_owner() hold.  That the flag is given up is the
  invariant LeftInv (`SwitchLockSwitching`): who has it without locks is inside
  set_lock_owner() or dec_lock_cnt(), about to be switched to by a CPU that looks at the
  count once more, just switched away from, or leaving through schedule().
* `RcuProofs!TypeCorrect` and `RcuProofs!GracePeriodHolds`: `Spec => []GracePeriod`:
  whenever the callback of an item runs, no CPU is in a read section in which it could
  have got hold of the item.  GracePeriod speaks of the end of an item only; the
  inductive invariant RcuInv follows it from Rcu::call() to its callback:
    - `LockInv`: steps under the lock exclude each other;
    - `StartInv`: completed <= current, equal while a batch is being started;
    - `ActiveInv`: a CPU that reads, or runs at all, is counted as active;
    - `WaitInv`, the heart: while some CPU may use an item of batch b, b is not
      completed, and if b is the current batch, it waits for that CPU (or the set of
      CPUs to wait for is just about to be computed from the active ones);
    - `DoneInv`: an item whose batch is completed has no user.
* `CpuCallProofs!TypeCorrect`, `CpuCallProofs!CallsFinish` and
  `CpuCallProofs!CallsFinishOnline`, for any set of CPUs, number of call objects and
  masks: when a synchronous cpu_call_many() returns, every called CPU has run the
  function or was found offline, and no queue or handler still holds one of the call
  objects on the caller's stack.  The inductive invariant is CallInv:
    - `QueueInv`, `OnePlace`: a call object is in one queue or with one handler, once;
    - `WaitInv`: an object that is queued or handled has `_wait` set;
    - `RanInv`: a handler about to clear `_wait` has run the function;
    - `CallerOf`, the heart: every CPU of the mask has run the function, was offline, is
      still to be called, or has its request in its queue or handler (`Served`); only
      objects that next() has handed out wait, none before the call or after it, and the
      one the first loop is going to use does not.

  Hypotheses: callers are synchronous (`~Async`), since CallFinished is false otherwise
  (section 5), and the assertion at the end of the branch for offline CPUs
  (`cpu_call.h:240`) holds.  CallInv is not inductive without the latter: a call object
  that is not done is used for the next CPU, and the old CPU then clears `_wait` for both
  (see the further observations).  CallsFinishOnline discharges it where no CPU goes
  offline (`NoHotplug`).  Assumption (CpuCallAssumption): CPUs are numbers, there is at
  least one call object, and None is neither a CPU nor a call.
* `AsidProofs!AsidsUnique`, `AsidProofs!AsidsSafe` and `AsidProofs!AsidsFlushed`, for any
  number of CPUs, spaces, ASIDs and roll-overs: `AsidSpec => []UniqueUnlessStale`,
  `AsidSpec => []NoForeignTlbHitUnlessStale`, and `AsidSpec => []FlushReachesUnlessStale`:
  a CPU that runs in a space does so under the number the space has now, so that a flush by
  that number (Mem_space::tlb_flush()) reaches it, however many roll-overs lie behind.  All
  behaviours of the code are covered: what is said holds until a roll-over is about to take
  over an outdated active ASID (`Stale`), so that this is the only way in which the
  allocator can go wrong.  ASIDs of many generations are alive at a time, since a roll-over
  keeps what is in use and gives it the new generation only when the space is switched to
  again.  The inductive invariant is TypeInv and, until `stale`, AsidInv with LoadInv:
    - `HeldInv`, the heart: the ASIDs that are held over a roll-over and still belong to a
      space differ in their numbers, from each other and from the newest ones;
    - `SwitchOf`, `ActiveOf`: what a CPU has between its test of the generation and its
      exchange of the active ASID is not newer than the newest generation, and if a
      roll-over came between, however many did, the exchange tells it;
    - `BitmapInv`: what is held or of the newest generation is not handed out again;
    - `UseOf`: a space in use has the ASID that is active on, or reserved for, its CPU;
    - `TlbInv`: a TLB holds spaces under ASIDs of the newest generation, unless the CPU
      has to flush before it loads the next space.

  Hypothesis: `NoOverflow`, that the generation counter does not reach the generation of
  Asid::Invalid, since the code accepts an overflow (`asid_alloc.h:262-266`).  Assumption
  (AsidAssumption): there are more ASIDs than CPUs, and Invalid is none of them.
* `TimeoutProofs!WheelIsTimeoutSet`, `TimeoutProofs!TimerAlwaysComes` and
  `TimeoutProofs!TimeoutsTyped`, for any set of timeouts, number of lists, width of a slot
  and of `int`: `Spec => ImplementsTimeoutSet`: the wheel implements TimeoutSet, so the
  timer interrupt lets expire what is due and nothing else, however late it comes;
  `Spec => []TimerComes`; `Spec => []TypeOK`.  The argument has three layers:
    - arithmetic: a conversion to `int` keeps the index of a list (`IndexToInt`), the
      difference of two clocks that are not too far apart survives it (`ToIntKeeps`), so
      do_timeouts() visits the lists of all slots from `_old_clock` to now, or all lists
      (`VisitedIs`, `VisitsDue`);
    - lists: enqueue(), reset() and the loop of do_timeouts() keep a list sorted, and add
      or take away what they should (`InsertSorted`, `RemoveSorted`, `ExpireSorted`);
    - the inductive invariant WheelInv: every timeout is in the list of its slot, once and
      in order; a thread on its way to another CPU has taken its timeout along; a timeout
      of a thread that is in the wheel has not hit; and the interrupt is not later than
      `maxdelay` (`Punctual`).  TimerInv is TimerComes, said of the members of the lists:
      the first timeout of all is at the front of a list, where update_timer() looks.

  The steps map to those of TimeoutSet: set() to Arm, reset() and migrate_away() to Disarm,
  set_again() to Rearm, do_timeouts() to Expire; the idle steps and the migration of a
  timeout that has hit change nothing there.  Assumption (TimeoutAssumption): `int` has an
  even multiple of the number of lists as its number of values, and two interrupts are
  less than half of these values apart, counted in slots; otherwise `diff`
  (`timeout.h:271`) would be negative.

Only model-checked: all other invariants; liveness (fairness and ENABLED are beyond
the prover); refinements of PrioQueue and MappingForest; what recursive definitions
compute (the treemaps of Mapdb and the forest are recursive).

## 5. Where the code and its documentation disagree

`cpu_call_async` (violated `CallFinished`): `Cpu_call::is_done(true)` asks whether the
request has left the queue, which is before its function has run, while
`cpu_call.h:264-265` says "This function waits until `func` finished execution on all
selected CPUs independent of the `async` parameter."

`kobject_mp` (violated `ReapedOnce`): `Switch_lock::try_lock()` (`switch_lock.h:155-193`)
evaluates the reference, then takes the lock, and when it gets it at once does not
evaluate the reference again.  On several CPUs the capability can be unmapped between
the two, although `Kobject_mapdb::Ref` is there to test "if the object referenced by
capability is still the given object.  Note, this also catches transitions from valid
to invalid." (`kobject_mapdb.h:66-67`).  The operation then works on an object whose
deletion has begun and begins it again: "Kobject::destroy() and Kobject::put() are
called exactly once as a direct consequence of unmapping." (`kobject.h:99-100`).

### Further observations

Met while modelling.  Each statement is a definition of its module and is violated in
the system named; the runs keep out of these systems.  Names in the column System are
those of the `MC` module.

| Statement | System | What happens |
|---|---|---|
| `ThreadIpc!OkMeansDone` (a receive without timeout never times out), "This function blocks until the message can be sent/received, ..." (`thread_ipc.h:1009`) | clients that call a replying server, with `home` OwnCpus | the partner is activated (`thread_ipc.h:457`) with a second change of its state after `Thread_receive_in_progress` was deleted (`:965`); the late change wakes its next receive, reported as R_timeout |
| `ThreadIpc!TransferUnderFlag`, "Actively receiving a message. ..." (`thread_state.h:68-70`) | `Mixed` with `items` TRUE | `sender_ok()` (`receiver.h:88`) accepts a receiver whose timeout has fired; when it runs it deletes `Thread_receive_in_progress` while the sender is still copying |
| `ThreadIpc!OkMeansDone`, "\retval false iff the IPC was already finished" (`thread_ipc.h:581`) | `Aborts` with `home` OwnCpus | the receiver has dequeued the sender and not yet set `Thread_send_in_progress`; `abort_send()` (`:595`) takes the send for finished.  Likewise a call whose send timeout fires after the receiver moved it on skips its receive phase (`:601`) |
| `ThreadIpc!NoLostRendezvous`, "... so that `abort_send` can detect the active-transfer window ..." (`thread_ipc.h:725-727`) | `Aborts` with `fails` TRUE | a failed copy leaves `Thread_send_in_progress` set (`:754`), and the sender in `abort_send()` waits for ever |
| `ThreadIpc!NoSenderAtDead`, "if other threads want to send me IPC messages, abort these operations" (`thread.cc:177-178`) | a mortal server with `home` OwnCpus | the list is emptied before `Thread_dead` is set; a sender that arrives in between stays |
| `PrioList!PoiTracksQueue`, "set the current Poi safely (includes current queue status)" (`prio_list.h:220`) | `Lists.cfg` | set_poi() (`:224`) stores a status it has loaded earlier over what an insert on another CPU has recorded; in ThreadIpc a closed wait then loses its rendezvous (NoLostRendezvous with closed waits and `home` OwnCpus) |
| `PrioList!WalkComplete`, "Only threads running on our CPU are allowed to iterate our sender list." (`thread_object.cc:156`) | a system with `local` FALSE, `walks` TRUE | the walk follows links without the lock while a sender of another CPU dequeues itself |
| `RemoteRequest!NoForgottenMigration` without its restriction, "... so the new CPU is responsible for executing our request" (`context_mp.h:231-232`) | `Returning` | migrate_xcpu() gives up on a context that has left (`sched_mp.h:94`); the CPU that moved it does not look at the migration pointer again |
| `RemoteRequest!QueueLockHeld`, `assert (q.q_lock()->test())` (`sched_mp.h:36`) | `Returning` | the queue of the current CPU is used with the lock of the offline CPU held |
| `RemoteRequest!NoForgottenMigration` (its last conjunct) without its restriction, "Ready queue a context on another CPU." (`context.h:437`) | `Returning` | a context made ready for an offline CPU (`context_mp.h:236`) enters no ready list |
| `RemoteRequest!AllAtHome` without its restriction, "\pre The context must be either on the current CPU or on an offline CPU" (`context_mp.h:312-314`) | `Returning` | the CPU comes back without the lock of its queue, while another one still works for it |
| `Rcu!EnterIdleAssert`, `assert (!pending(rgp))` (`rcupdate.h:214`) | Rcu with three CPUs | cpu_quiet() completes the batch and starts the next one |
| `TimeoutQ!ExpiresAllDue`, "Program reset timeout to expire at the originally set wakeup time" (`timeout.h:357`) | `Timeout.cfg` | a timeout that fell due during the migration is put behind the slot the wheel has reached and waits for the next turn |
| `Semaphore!ReportsGrant`, "the semaphore down operation must be reported as successful!" (`semaphore.cc:141-144`) | `Racing` with `maxdowns` 2 | the activation after the release of the list lock (`:244`) ends the next down operation of the thread |
| `Semaphore!SuccessMeansCount`, "An IPC error might have been set by Semaphore::destroy() to indicate that the reason for unblocking the waiting thread was not the completion of the down operation, ..." (`semaphore.cc:149-151`) | `Racing` | a waiter that destroy() has dequeued (`:164`) times out before the error is written (`:171`), and reports success; so does down() at a semaphore that has become invalid (`:54-55`) |
| `Semaphore!MaskedMeansPending`, "The consume function will unmask the IRQ when the last IRQ is dequeued." (`semaphore.cc:234-236`) | `Racing` with `edge` TRUE | down() on another CPU unmasks between count_up() and mask_and_ack() (`:240`); the interrupt stays masked |
| `CpuCall!ReusableIsDone`, `assert (is_done(async))` (`cpu_call.h:240`) | `CpuCall.cfg` | the CPU went offline and is still executing the request.  If it is not the last of the mask, its call object is used for the next CPU at once, and `CallFinished` fails too (mask {2, 3, 4} of CPU 1, `hotplug` {2}); in `CpuCall.cfg` the CPU that goes offline is the last one |
| `CpuCall!OneByOne`, "executed synchronous one-by-one on the set of selected CPUs" (`cpu_call.h:260-261`) | `CpuCall.cfg` | several CPUs are called at once |
| `IrqSender!NoForgottenIrq`, `MaskedMeansQueued`, "on success, `t` is the new IRQ handler thread" (`irq.cc:31`) | `[binds \|-> {t1, t2}, detach \|-> TRUE, maxctl \|-> 2] @@ PlainIrq` | detach_irq_thread() (`irq.h:235-259`) leaves `_queued` above zero; after a later bind (`irq.cc:74-75`) further hits find the interrupt already queued, nothing is sent and the EOI does not unmask |
| `IrqSender!NoForgottenIrq`, the same | a control thread on a third CPU that binds the interrupt twice | the hit has loaded the old target when bind() (`irq.cc:51`, `:77`) dequeues the interrupt and sends it to the new one |
| `IrqSender!MaskedMeansQueued`, the same | `edge` TRUE with `Remote(0)` | the receiver on another CPU consumes and unmasks (`irq.h:265-275`) between the count and the masking of the hit (`irq.cc:139-144`) |
| `IrqSender!NoForgottenIrq`, "a new arrival always checks first whether the other side is waiting and dispatches immediately if so" (`wait_queue.h:71-72`) | `AtQueue` with `Remote(0)` | do_receive() enters the queue (`wait_queue.cc:104`) before it sets `Thread_receive_wait` (`:125`); a sender on another CPU takes it from the queue, finds it not ready to receive and waits in its own sender list, where nobody looks |
| `IrqSender!MaskedMeansQueued`, "In that case ignore the timeout ... and transfer the message from the pending sender anyway." (`thread_ipc.h:546-549`) | `[timeouts \|-> {t1, t2}] @@ AtQueue @@ PlainIrq` | a message delivered after the timeout has fired and before the receiver runs is taken for a timeout by do_receive() (`wait_queue.cc:134`), other than in _do_ipc() (`thread_ipc.h:1104`): it is lost |
| `KobjectCaps!CapsExact`, "If there are no more capabilities to a kernel object ... the kernel runs the 2-phase destruction protocol" (`kobject.h:82-84`) | `SelfOvermap` TRUE with `[del \|-> FALSE, ref \|-> TRUE]` in `Attrs` | map() unmaps the last strong capability and inserts a weak one for the same object, which nothing keeps any more |
| `KobjectCaps!CapsExact` with `=` for the count | `Objects.cfg` | a grant uses the attributes that map_lookup_src() (`map_util_helper.h:196-224`) has read before the lock, and a strong capability is not counted |
| `AsidAlloc!NoForeignTlbHit`, `UniqueAsid`, "_asids.cpu(x).reserved == ASID currently used on cpu x" (`asid_alloc.h:305`) | `AsidAlloc.cfg` with five spaces (27 states) | a CPU that has found the ASID of a space valid exchanges it into `active` (`asid_alloc.h:410-413`) after a roll-over on another CPU; before it comes to the lock the next roll-over reserves this outdated ASID instead of the one in use, and the number in use is handed out again.  The comment at `:262-264` knows the overflow of the generation only as the way to "two address spaces having the same <generation, asid> tuple" |
| `RamQuota!DeletedWhenUnseen`, "When this function returns, the object cannot be longer referenced." (`kobject.h:86-87`) | `Memory.cfg` | Factory::kinvoke() opens the CPU lock (`factory.cc:98`) before it allocates, with no reference to the factory, and the grace period (`kobject.h:154-156`) waits for closed CPU locks only; the quota can be deleted before alloc() looks at it |
| `Mapdb!LocksReleased`, "The mapping tree is unlocked ... when Mapdb::free is called with any one of its mappings." (`mapping.h:20-22`) | `TwoFrames` with `overmap` TRUE and `MaxDepth` 2 | in some cases of lookup_src_dst() (`mapdb.h:400-402`, `:447-450`) neither frame of the caller releases the lock |
| `Mapdb!SenderFrameValid`, "Do the actual insertion." (`map_util_helper.h`) | the same | the receiver's page is flushed from the list that the sender's iterator points into (`list_basics.h:57-87`, `mapdb.h:617-620`) |
| `Mapdb!LockedFrameExists` | two threads, two sizes | Physframe::del() (`mapdb.h:679-696`) deletes a submap whose frame another thread has found and waits for |
| deadlock, "enforce lock order to prevent deadlocks." (`task.cc:272-273`, for the locks one level up) | two threads, two frames | lookup_src_dst() locks the frame of the destination, then that of the source (`mapdb.h:336-352`) |
| `Mapdb!NoLostTreemap` | three page sizes | erase_tree() (`mapdb.cc:131-132`) drops the entry of a submap in a list it clears |

Two more were found by reading while the modules were written and are not statements
of a module: `Slab_cache::reap()` takes slabs from `_empty` without counting
`_num_empty` down (`slab_cache.cc:110-115`), so that the cache keeps fewer empty slabs
than it might; and Ipc_gate::block() enqueues a sender before its state says so
(`ipc_gate.cc:176-177`), the shape of Wait_queue::do_receive().

## 6. Limits

* The type invariants document the state and are where proofs start; those of
  SwitchLock, Rcu, CpuCall, AsidAlloc and TimeoutQ are proved, and none is among the properties of the runs.
* SwitchLock: which runnable context the scheduler picks is left open.  lock() of a lock
  the context holds, which returns at once (`switch_lock.h:131-133`), and switches to a
  context that is not ready, which fail (`context.cc:160-164`, `:203-207`), are left out:
  the contexts of the model do not block otherwise than in lock() and wait_free().
* ThreadIpc: no vCPUs, reply capabilities or fault IPC; a
  transfer is one step, or two around a preemption point (`items`).
* RemoteRequest: requesters stay on their CPUs, which never go offline, and are not
  targets of requests themselves; DRQ functions
  do not fail; the vCPU flag of handle_remote_state_change() is left out.
* Rcu: batch numbers are integers and do not wrap.
* TimeoutQ: one CPU; `int` and the slot have few values and wrap in the runs, and any
  number in the proofs.
* Semaphore: threads have one priority.
* CpuCall: one call per CPU.
* IrqSender: one interrupt; bind_irq() stores the target and then the hit function
  (`irq.cc:51`, `:65-72`), one step here: an interrupt is bound to a wait queue after a
  thread, or the reverse, only on the CPU where it hits.  At the wait queue no thread senders, zero timeouts,
  generations or destruction.
* KobjectCaps: objects are used under the CPU lock (`use`); invocations
  that open it without a reference (`factory.cc:98`) are in RamQuota only.  Rights other
  than Delete, the memory of slots and I/O ports are left out.
* Mapdb: the work under a frame lock is one step, but for the insertion into the page table
  and into the database, which are two.  Insert_err_exists (`map_util_helper.h:489-499`) has
  no action: TLC would report a deadlock if v_insert() found another page than map() did.
  Rights change in an instance with one thread only.  The size classes of the arrays of
  mappings and their quota, I/O ports, cacheability and the accessed bits are left out.
* Kmem: one slab cache and one size of slab; a critical section is one step.  The count of
  empty slabs is bounded from one side (reap() does not keep it, see above).
* RamQuota: sizes are small numbers; the size of the kernel's own structures is one.  What
  alloc() would read in the memory of a deleted quota is not followed: the invocation ends.
* AsidAlloc: the TLB of one CPU is watched; the overflow of the generation counter
  (`asid_alloc.h:262-266` says that it is accepted) does not happen.

Not modelled at all: ready queues and scheduling contexts (sequential per CPU; the
modules leave open which context is picked), IPC gates and reply capabilities, vCPUs
and FPU (register and memory layout), interrupt controllers, page-table formats, boot,
drivers, console and debugger (register access, tables and output).  Spin locks and
the CPU lock are primitives: a critical section is one step, or has a lock variable
where its inside matters.

## 7. Plan

1. Proofs: QuotaExact; the refinement of PrioQueue; ListMatchesQueue; NoForgottenWaiter.
2. IPC gates and reply capabilities on top of ThreadIpc; thread senders at wait queues.
3. Ready queues and scheduling contexts against an abstract priority queue; timeouts
   of migrating threads (TimeoutQ with RemoteRequest).
