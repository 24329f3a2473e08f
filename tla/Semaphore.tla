------------------------------ MODULE Semaphore ------------------------------
(***************************************************************************)
(* Kernel semaphores (semaphore.cc): threads go down, interrupts and       *)
(* software triggers count up, and the interrupt pin is masked while       *)
(* interrupts queue up.                                                    *)
(*                                                                         *)
(* A CPU inside the kernel holds its CPU lock: whatever runs on it (an     *)
(* interrupt, the system call of a thread, the expiry of a timeout)        *)
(* excludes the rest of that CPU until it ends or blocks, and other CPUs   *)
(* interleave at every access to shared data.  The counter and the list of *)
(* waiting threads change together under the lock of the list.             *)
(***************************************************************************)
EXTENDS Integers, SequencesExt, FiniteSets

CONSTANTS
  Cpus,       \* the CPUs
  Threads,    \* threads that go down, all of one priority
  Systems,    \* the systems to look at
  None

\* home: the CPU of each thread; hits: the CPUs on which the interrupt arrives; edge:
\* edge triggered, or level triggered; soft: triggered by software too; timeouts: those
\* of the threads; cancels: threads are cancelled while they wait; destroyer: the CPU
\* that destroys the semaphore, or None; longmax: LONG_MAX; maxups, maxdowns: bounds on
\* the number of interrupts, and of down operations per thread
IsSystem(s) ==
  /\ s.home \in [Threads -> Cpus] /\ s.hits \subseteq Cpus
  /\ s.destroyer \in Cpus \cup {None}
  /\ {s.edge, s.soft, s.cancels} \subseteq BOOLEAN
  /\ s.timeouts \subseteq {"never", "zero", "finite"}
  /\ s.longmax \in Nat \ {0} /\ s.maxups \in Nat /\ s.maxdowns \in Nat

VARIABLES
  sys,       \* the system: chosen once, never changed
  queued,    \* _queued
  waiting,   \* _waiting, in the order of dequeue_first()
  valid,     \* existence_lock.valid()
  enabled,   \* Irq_base::_flags & F_enabled
  masked,    \* the state of the pin at the chip
  cpu,       \* cpu[c]: what runs in the kernel of CPU c: the interrupt ("irq"), the
             \* destroyer ("del"), a thread, or None
  hpc,       \* where the handler of CPU c is, for "irq" and "del"
  wake,      \* the thread the handler of CPU c has to activate
  pc,        \* where thread t is
  ready,     \* Thread_ready
  rwait,     \* Thread_receive_wait
  abort,     \* Thread_timeout, Thread_cancel
  to,        \* the timeout of the down operation
  error,     \* utcb->error is Not_existent
  result,    \* what the last down operation has returned
  granted,   \* why the last down operation of t was completed by another: history
  ups, downs

irqv == <<enabled, masked>>
thrv == <<pc, ready, rwait, abort, to, error, result>>
hndv == <<cpu, hpc, wake>>
vars == <<sys, queued, waiting, valid, irqv, hndv, thrv, granted, ups, downs>>

Home == sys.home

Init ==
  /\ sys \in Systems
  /\ queued = 0 /\ waiting = <<>> /\ valid = TRUE
  /\ enabled = TRUE /\ masked = FALSE
  /\ cpu = [c \in Cpus |-> None]
  /\ hpc = [c \in Cpus |-> "idle"]
  /\ wake = [c \in Cpus |-> None]
  /\ pc = [t \in Threads |-> "user"]
  /\ ready = [t \in Threads |-> TRUE]
  /\ rwait = [t \in Threads |-> FALSE]
  /\ abort = [t \in Threads |-> {}]
  /\ to = [t \in Threads |-> "never"]
  /\ error = [t \in Threads |-> FALSE]
  /\ result = [t \in Threads |-> "none"]
  /\ granted = [t \in Threads |-> "none"]
  /\ ups = 0
  /\ downs = [t \in Threads |-> 0]

-------------------------------------------------------------------------------
(* The interrupt handlers _hit_edge_irq and _hit_level_irq on CPU c *)

HGoto(c, l) == hpc' = [hpc EXCEPT ![c] = l]

\* the interrupt arrives unless it is masked; software triggers it anyway
Hit(c) ==
  /\ c \in sys.hits /\ cpu[c] = None /\ ups < sys.maxups
  /\ ~masked \/ (sys.soft /\ valid)
  /\ cpu' = [cpu EXCEPT ![c] = "irq"]
  /\ HGoto(c, IF sys.edge THEN "count" ELSE "mask")
  /\ UNCHANGED <<queued, waiting, valid, irqv, wake, thrv, granted, ups, downs>>

\* Mutant: the last waiter is removed, the first one activated.
CountUpWrongEnd(c) ==
  /\ hpc[c] = "count"
  /\ ups' = ups + 1
  /\ IF waiting # <<>>
       THEN /\ wake' = [wake EXCEPT ![c] = Head(waiting)]
            /\ waiting' = Front(waiting)
            /\ granted' = [granted EXCEPT ![Head(waiting)] = "count"]
            /\ UNCHANGED queued
       ELSE /\ queued' = IF queued < sys.longmax THEN queued + 1 ELSE queued
            /\ UNCHANGED <<wake, waiting, granted>>
  /\ HGoto(c, IF sys.edge /\ queued > 0 THEN "mask" ELSE "activate")
  /\ UNCHANGED <<valid, irqv, cpu, thrv, downs>>

\* count_up
CountUp(c) ==
  /\ hpc[c] = "count"
  /\ ups' = ups + 1
  /\ IF waiting # <<>>
       THEN /\ wake' = [wake EXCEPT ![c] = Head(waiting)]
            /\ waiting' = Tail(waiting)
            /\ granted' = [granted EXCEPT ![Head(waiting)] = "count"]
            /\ UNCHANGED queued
       ELSE /\ queued' = IF queued < sys.longmax THEN queued + 1 ELSE queued
            /\ UNCHANGED <<wake, waiting, granted>>
  /\ HGoto(c, IF sys.edge /\ queued > 0 THEN "mask" ELSE "activate")
  /\ UNCHANGED <<valid, irqv, cpu, thrv, downs>>

\* mask_and_ack: the flag, then the chip
HitMask(c) ==
  /\ hpc[c] = "mask"
  /\ enabled' = FALSE
  /\ HGoto(c, IF enabled THEN "chip" ELSE IF sys.edge THEN "activate" ELSE "count")
  /\ UNCHANGED <<queued, waiting, valid, masked, cpu, wake, thrv, granted, ups, downs>>

HitChip(c) ==
  /\ hpc[c] = "chip"
  /\ masked' = (masked \/ valid)
  /\ HGoto(c, IF sys.edge THEN "activate" ELSE "count")
  /\ UNCHANGED <<queued, waiting, valid, enabled, cpu, wake, thrv, granted, ups, downs>>

\* t->activate(), or nothing to activate
HitActivate(c) ==
  /\ hpc[c] = "activate"
  /\ ready' = [t \in Threads |-> ready[t] \/ t = wake[c]]
  /\ wake' = [wake EXCEPT ![c] = None]
  /\ cpu' = [cpu EXCEPT ![c] = None]
  /\ HGoto(c, "idle")
  /\ UNCHANGED <<queued, waiting, valid, irqv, pc, rwait, abort, to, error, result,
                 granted, ups, downs>>

-------------------------------------------------------------------------------
(* Semaphore::destroy on CPU c *)

\* the object is invalid from now on, and unbound from its chip
Destroy(c) ==
  /\ c = sys.destroyer /\ cpu[c] = None /\ valid
  /\ valid' = FALSE /\ masked' = TRUE
  /\ cpu' = [cpu EXCEPT ![c] = "del"]
  /\ HGoto(c, "drain")
  /\ UNCHANGED <<queued, waiting, enabled, wake, thrv, granted, ups, downs>>

DestroyDequeue(c) ==
  /\ hpc[c] = "drain" /\ waiting # <<>>
  /\ wake' = [wake EXCEPT ![c] = Head(waiting)]
  /\ waiting' = Tail(waiting)
  /\ granted' = [granted EXCEPT ![Head(waiting)] = "gone"]
  /\ HGoto(c, "error")
  /\ UNCHANGED <<queued, valid, irqv, cpu, thrv, ups, downs>>

DestroyError(c) ==
  /\ hpc[c] = "error"
  /\ error' = [error EXCEPT ![wake[c]] = TRUE]
  /\ HGoto(c, "wakeup")
  /\ UNCHANGED <<queued, waiting, valid, irqv, cpu, wake, pc, ready, rwait, abort, to,
                 result, granted, ups, downs>>

DestroyActivate(c) ==
  /\ hpc[c] = "wakeup"
  /\ ready' = [ready EXCEPT ![wake[c]] = TRUE]
  /\ wake' = [wake EXCEPT ![c] = None]
  /\ HGoto(c, "drain")
  /\ UNCHANGED <<queued, waiting, valid, irqv, cpu, pc, rwait, abort, to, error, result,
                 granted, ups, downs>>

DestroyDone(c) ==
  /\ hpc[c] = "drain" /\ waiting = <<>>
  /\ cpu' = [cpu EXCEPT ![c] = None]
  /\ HGoto(c, "idle")
  /\ UNCHANGED <<queued, waiting, valid, irqv, wake, thrv, granted, ups, downs>>

-------------------------------------------------------------------------------
(* Threads *)

Goto(t, l) == pc' = [pc EXCEPT ![t] = l]

\* the thread enters the kernel; sys_down resets the error
Down(t) ==
  /\ pc[t] = "user" /\ cpu[Home[t]] = None /\ downs[t] < sys.maxdowns
  /\ valid
  /\ downs' = [downs EXCEPT ![t] = @ + 1]
  /\ cpu' = [cpu EXCEPT ![Home[t]] = t]
  /\ \E x \in sys.timeouts : to' = [to EXCEPT ![t] = x]
  /\ error' = [error EXCEPT ![t] = FALSE]
  /\ granted' = [granted EXCEPT ![t] = "none"]
  /\ result' = [result EXCEPT ![t] = "none"]
  /\ Goto(t, "down")
  /\ UNCHANGED <<queued, waiting, valid, irqv, hpc, wake, ready, rwait, abort, ups>>

\* Mutant: unmasks only when no interrupt is pending any more.
DownTakeLast(t) ==
  /\ pc[t] = "down" /\ queued # 0
  /\ queued' = queued - 1
  /\ granted' = [granted EXCEPT ![t] = "count"]
  /\ Goto(t, IF queued - 1 = 0 /\ sys.edge THEN "unmask" ELSE "finish")
  /\ UNCHANGED <<waiting, valid, irqv, hndv, ready, rwait, abort, to, error, result, ups, downs>>

\* down: there is a count to take
DownTake(t) ==
  /\ pc[t] = "down" /\ queued # 0
  /\ queued' = queued - 1
  /\ granted' = [granted EXCEPT ![t] = "count"]
  /\ Goto(t, IF queued - 1 = 1 /\ sys.edge THEN "unmask" ELSE "finish")
  /\ UNCHANGED <<waiting, valid, irqv, hndv, ready, rwait, abort, to, error, result, ups, downs>>

\* down: the semaphore was destroyed meanwhile
DownGone(t) ==
  /\ pc[t] = "down" /\ queued = 0 /\ ~valid
  /\ granted' = [granted EXCEPT ![t] = "invalid"]
  /\ Goto(t, "finish")
  /\ UNCHANGED <<queued, waiting, valid, irqv, hndv, ready, rwait, abort, to, error, result, ups, downs>>

\* down: wait
DownWait(t) ==
  /\ pc[t] = "down" /\ queued = 0 /\ valid
  /\ waiting' = Append(waiting, t)
  /\ ready' = [ready EXCEPT ![t] = FALSE]
  /\ rwait' = [rwait EXCEPT ![t] = TRUE]
  /\ Goto(t, "timer")
  /\ UNCHANGED <<queued, valid, irqv, hndv, abort, to, error, result, granted, ups, downs>>

\* Irq_base::unmask at label l: the flag, then the chip if the flag has changed
Unmask(t, l, chip, done) ==
  /\ pc[t] = l
  /\ enabled' = TRUE
  /\ Goto(t, IF enabled THEN done ELSE chip)
  /\ UNCHANGED <<queued, waiting, valid, masked, hndv, ready, rwait, abort, to, error,
                 result, granted, ups, downs>>

UnmaskChip(t, l, done) ==
  /\ pc[t] = l
  /\ masked' = (masked /\ ~valid)
  /\ Goto(t, done)
  /\ UNCHANGED <<queued, waiting, valid, enabled, hndv, ready, rwait, abort, to, error,
                 result, granted, ups, downs>>

\* setup_timer, unless the thread was activated already; then sleep
SetupTimer(t) ==
  /\ pc[t] = "timer"
  /\ to' = [to EXCEPT ![t] = IF ready[t] THEN "never" ELSE @]
  /\ IF ~ready[t] /\ to[t] = "zero"
       THEN /\ ready' = [ready EXCEPT ![t] = TRUE]
            /\ abort' = [abort EXCEPT ![t] = @ \cup {"timeout"}]
       ELSE UNCHANGED <<ready, abort>>
  /\ Goto(t, "sleep")
  /\ cpu' = [cpu EXCEPT ![Home[t]] = None]
  /\ UNCHANGED <<queued, waiting, valid, irqv, hpc, wake, rwait, error, result,
                 granted, ups, downs>>

\* IPC_timeout::expired, on the CPU of the thread
Timeout(t) ==
  /\ pc[t] = "sleep" /\ to[t] = "finite" /\ cpu[Home[t]] = None
  /\ rwait[t] /\ "timeout" \notin abort[t]
  /\ ready' = [ready EXCEPT ![t] = TRUE]
  /\ abort' = [abort EXCEPT ![t] = @ \cup {"timeout"}]
  /\ UNCHANGED <<queued, waiting, valid, irqv, hndv, pc, rwait, to, error, result,
                 granted, ups, downs>>

\* the thread is cancelled, on its CPU
Cancel(t) ==
  /\ sys.cancels /\ pc[t] = "sleep" /\ cpu[Home[t]] = None
  /\ "cancel" \notin abort[t]
  /\ ready' = [ready EXCEPT ![t] = TRUE]
  /\ abort' = [abort EXCEPT ![t] = @ \cup {"cancel"}]
  /\ UNCHANGED <<queued, waiting, valid, irqv, hndv, pc, rwait, to, error, result,
                 granted, ups, downs>>

\* the thread runs again
Resume(t) ==
  /\ pc[t] = "sleep" /\ ready[t] /\ cpu[Home[t]] = None
  /\ cpu' = [cpu EXCEPT ![Home[t]] = t]
  /\ Goto(t, "finish")
  /\ UNCHANGED <<queued, waiting, valid, irqv, hpc, wake, ready, rwait, abort, to, error,
                 result, granted, ups, downs>>

\* Mutant: a timeout is reported although the operation was completed.
FinishAborts(t) ==
  /\ pc[t] = "finish"
  /\ rwait' = [rwait EXCEPT ![t] = FALSE]
  /\ abort' = [abort EXCEPT ![t] = {}]
  /\ IF abort[t] # {}
       THEN /\ waiting' = SelectSeq(waiting, LAMBDA u : u # t)
            /\ result' = [result EXCEPT ![t] = "aborted"]
       ELSE /\ result' = [result EXCEPT ![t] = IF error[t] THEN "gone" ELSE "ok"]
            /\ UNCHANGED waiting
  /\ Goto(t, "user")
  /\ cpu' = [cpu EXCEPT ![Home[t]] = None]
  /\ UNCHANGED <<queued, valid, irqv, hpc, wake, ready, to, error, granted, ups, downs>>

\* the end of sys_down: leave the list if a timeout or a cancellation was first, and
\* report
Finish(t) ==
  /\ pc[t] = "finish"
  /\ rwait' = [rwait EXCEPT ![t] = FALSE]
  /\ abort' = [abort EXCEPT ![t] = {}]
  /\ IF abort[t] # {} /\ t \in ToSet(waiting)
       THEN /\ waiting' = SelectSeq(waiting, LAMBDA u : u # t)
            /\ result' = [result EXCEPT ![t] = "aborted"]
       ELSE /\ result' = [result EXCEPT ![t] = IF error[t] THEN "gone" ELSE "ok"]
            /\ UNCHANGED waiting
  /\ Goto(t, "user")
  /\ cpu' = [cpu EXCEPT ![Home[t]] = None]
  /\ UNCHANGED <<queued, valid, irqv, hpc, wake, ready, to, error, granted, ups, downs>>

\* dispatch_irq_proto: the user is done with the interrupt
Eoi(t) ==
  /\ pc[t] = "user" /\ cpu[Home[t]] = None /\ valid
  /\ queued < 1
  /\ cpu' = [cpu EXCEPT ![Home[t]] = t]
  /\ Goto(t, "eoi")
  /\ UNCHANGED <<queued, waiting, valid, irqv, hpc, wake, ready, rwait, abort, to, error,
                 result, granted, ups, downs>>

EoiDone(t) ==
  /\ pc[t] = "eoi_done"
  /\ cpu' = [cpu EXCEPT ![Home[t]] = None]
  /\ Goto(t, "user")
  /\ UNCHANGED <<queued, waiting, valid, irqv, hpc, wake, ready, rwait, abort, to, error,
                 result, granted, ups, downs>>

-------------------------------------------------------------------------------
(* Specification *)

Handler(c) ==
  /\ \/ CountUp(c) \/ HitMask(c) \/ HitChip(c) \/ HitActivate(c)
     \/ DestroyDequeue(c) \/ DestroyError(c) \/ DestroyActivate(c) \/ DestroyDone(c)
  /\ UNCHANGED sys

\* the steps of thread t that follow from a system call
Thread(t) ==
  /\ \/ DownTake(t) \/ DownGone(t) \/ DownWait(t) \/ SetupTimer(t)
     \/ Resume(t) \/ Finish(t)
     \/ Unmask(t, "unmask", "unmask_chip", "finish")
     \/ UnmaskChip(t, "unmask_chip", "finish")
     \/ Unmask(t, "eoi", "eoi_chip", "eoi_done")
     \/ UnmaskChip(t, "eoi_chip", "eoi_done")
     \/ EoiDone(t)
  /\ UNCHANGED sys

\* what comes from outside
Event ==
  /\ \/ \E c \in Cpus : Hit(c) \/ Destroy(c)
     \/ \E t \in Threads : Down(t) \/ Eoi(t) \/ Timeout(t) \/ Cancel(t)
  /\ UNCHANGED sys

Next ==
  \/ Event
  \/ \E c \in Cpus : Handler(c)
  \/ \E t \in Threads : Thread(t)

Spec == Init /\ [][Next]_vars

-------------------------------------------------------------------------------
(* Properties *)

\* The counter stays between 0 and LONG_MAX, a thread is at most once in the list of
\* waiters, and every other variable has the type of the code.
TypeOK ==
  /\ sys \in Systems
  /\ queued \in 0 .. sys.longmax
  /\ ToSet(waiting) \subseteq Threads /\ Cardinality(ToSet(waiting)) = Len(waiting)
  /\ valid \in BOOLEAN /\ enabled \in BOOLEAN /\ masked \in BOOLEAN
  /\ cpu \in [Cpus -> Threads \cup {"irq", "del", None}]
  /\ wake \in [Cpus -> Threads \cup {None}]
  /\ ready \in [Threads -> BOOLEAN] /\ rwait \in [Threads -> BOOLEAN]
  /\ abort \in [Threads -> SUBSET {"timeout", "cancel"}]
  /\ granted \in [Threads -> {"none", "count", "gone", "invalid"}]
  /\ result \in [Threads -> {"none", "ok", "aborted", "gone"}]

\* sys_down reports what has happened.  Success at a semaphore that exists means that
\* an interrupt or the counter has completed the operation, and whoever was given a
\* count reports success, even if a timeout, a cancellation or destroy() came between.
\* A timeout or cancellation is reported if nothing has completed the operation, and
\* Not_existent if destroy() has.
ReportsGrant ==
  \A t \in Threads :
    /\ result[t] = "ok" /\ valid => granted[t] = "count"
    /\ granted[t] = "count" /\ pc[t] = "user" => result[t] = "ok"
    /\ result[t] = "aborted" => granted[t] = "none"
    /\ result[t] = "gone" => granted[t] = "gone"

\* The same of a semaphore that is destroyed: the error set by destroy() tells its end
\* from the completion of the operation.  It does not always: see the README.
SuccessMeansCount ==
  \A t \in Threads : result[t] = "ok" => granted[t] = "count"

\* The list of waiters is right.  A sleeping thread is in the list, or the CPU that has
\* removed it is about to activate it; a thread in the list is in sys_down; and no
\* thread waits while there is a count to take, or at a destroyed semaphore once
\* destroy() is through.
NoForgottenWaiter ==
  /\ \A t \in Threads :
       pc[t] = "sleep" /\ ~ready[t] =>
         t \in ToSet(waiting) \/ \E c \in Cpus : wake[c] = t
  /\ \A t \in ToSet(waiting) : pc[t] \in {"timer", "sleep", "finish"}
  /\ waiting # <<>> => queued = 0 /\ (valid \/ \E c \in Cpus : cpu[c] = "del")

\* An edge triggered interrupt that stays masked has at least two interrupts
\* pending, the consumption of which will unmask it ("The consume function will
\* unmask the IRQ when the last IRQ is dequeued").
MaskedMeansPending ==
  sys.edge /\ valid /\ (\A c \in Cpus : cpu[c] = None) => (masked => queued >= 2)

==============================================================================
