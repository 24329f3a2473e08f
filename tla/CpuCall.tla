------------------------------- MODULE CpuCall -------------------------------
(***************************************************************************)
(* Cross-CPU function calls (cpu_call.h): Cpu_call::cpu_call_many() runs a *)
(* function on a set of CPUs, for example to flush their TLBs, with a few  *)
(* Cpu_call objects on the stack of the caller, which it puts into the     *)
(* queues of the CPUs and uses again once they are done.                   *)
(*                                                                         *)
(* Each CPU makes at most one call.  A CPU handles the requests of others  *)
(* in the interrupt handler of Ipi::Global_request, and once more on its   *)
(* way offline (Sched::take_cpu_offline()).                                *)
(***************************************************************************)
EXTENDS Integers, Sequences, Functions

CONSTANTS
  Cpus,     \* the CPUs, in the order of their numbers
  Systems,  \* the systems to look at
  Async,    \* the argument `async'; asynchronous callers hold the CPU lock
  MaxCalls, \* Cpu_calls::Max
  None

\* masks: the sets of CPUs that each CPU may call; hotplug: the CPUs that may go
\* offline and come back.
ASSUME CpuCallAssumption ==
  /\ Cpus \subseteq Nat /\ Async \in BOOLEAN /\ MaxCalls \in Nat \ {0}
  /\ None \notin Cpus \cup (1 .. MaxCalls) \cup (Cpus \X (1 .. MaxCalls))
  /\ Systems \subseteq [masks : [Cpus -> SUBSET SUBSET Cpus], hotplug : SUBSET Cpus]

VARIABLES
  sys,      \* the system: chosen once, never changed
  online,   \* Cpu::online(c)
  ipi,      \* Ipi::Global_request is pending at c
  q,        \* Cpu_call::_glbl_q: sequences of Cpu_calls <<caller, index>>
  wait,     \* Cpu_call::_wait of call <<c, i>>
  hst,      \* where handle_requests() of CPU c is
  hnd,      \* the Cpu_call it executes
  pc,       \* where cpu_call_many() of CPU c is
  loop,     \* the loop of cpu_call_many() that CPU c is in
  todo,     \* the CPUs it has still to call
  n,        \* `n', the CPU it is calling
  call,     \* `c', the index of a Cpu_call, or None
  used,     \* Cpu_calls::_used
  mask,     \* the CPUs to call
  ran,      \* history: the CPUs that have run the function of caller c
  skipped   \* history: the CPUs that were found offline

hvars == <<hst, hnd>>
cvars == <<pc, loop, todo, n, call, used, mask>>
vars == <<sys, online, ipi, q, wait, hvars, cvars, ran, skipped>>

Calls == Cpus \X (1 .. MaxCalls)

Init ==
  /\ sys \in Systems
  /\ online = [c \in Cpus |-> TRUE]
  /\ ipi = [c \in Cpus |-> FALSE]
  /\ q = [c \in Cpus |-> <<>>]
  /\ wait = [r \in Calls |-> FALSE]
  /\ hst = [c \in Cpus |-> "none"]
  /\ hnd = [c \in Cpus |-> None]
  /\ pc = [c \in Cpus |-> "user"]
  /\ loop = [c \in Cpus |-> "loop1"]
  /\ todo = [c \in Cpus |-> {}]
  /\ n = [c \in Cpus |-> None]
  /\ call = [c \in Cpus |-> None]
  /\ used = [c \in Cpus |-> 0]
  /\ mask = [c \in Cpus |-> {}]
  /\ ran = [c \in Cpus |-> {}]
  /\ skipped = [c \in Cpus |-> {}]

queued(r) == \E c \in Cpus : r \in Range(q[c])

\* Mutant: a synchronous call counts as done once it has left the queue.
is_done_dequeued(r) == ~queued(r)

\* Cpu_call::is_done
is_done(r) == IF Async THEN ~queued(r) ELSE ~wait[r]

\* CPU c is not in its interrupt handler and not offline
Free(c) == hst[c] = "none"

Goto(c, l) == pc' = [pc EXCEPT ![c] = l]

-------------------------------------------------------------------------------
(* The caller: cpu_call_many and remote_call *)

Start(c) ==
  /\ pc[c] = "user" /\ Free(c)
  /\ \E m \in sys.masks[c] \ {{}} : mask' = [mask EXCEPT ![c] = m] /\ todo' = [todo EXCEPT ![c] = m]
  /\ call' = [call EXCEPT ![c] = 1]
  /\ used' = [used EXCEPT ![c] = 1]
  /\ Goto(c, "loop1")
  /\ UNCHANGED <<online, ipi, q, wait, hvars, loop, n, ran, skipped>>

\* the CPUs are called in the order of their numbers
Lowest(S) == {d \in S : \A e \in S : d <= e}

\* remote_call for CPU c itself runs the function directly
CallSelf(c, d, l) ==
  /\ d = c
  /\ ran' = [ran EXCEPT ![c] = @ \cup {c}]
  /\ Goto(c, l)
  /\ UNCHANGED <<wait, n, skipped>>

\* remote_call for another CPU, up to the queue
CallOther(c, d, r) ==
  /\ d # c
  /\ n' = [n EXCEPT ![c] = d]
  /\ wait' = [wait EXCEPT ![r] = @ \/ ~Async]
  /\ Goto(c, "enq")
  /\ UNCHANGED <<ran, skipped>>

\* the first loop, while there are Cpu_calls left
Loop1(c) ==
  /\ pc[c] = "loop1" /\ Free(c) /\ call[c] # None
  /\ \E d \in Lowest(todo[c]) :
       /\ todo' = [todo EXCEPT ![c] = @ \ {d}]
       /\ CallSelf(c, d, "loop1") \/ CallOther(c, d, <<c, call[c]>>)
  /\ UNCHANGED <<online, ipi, q, hvars, loop, call, used, mask>>

Loop1End(c) ==
  /\ pc[c] = "loop1" /\ Free(c) /\ (todo[c] = {} \/ call[c] = None)
  /\ loop' = [loop EXCEPT ![c] = "loop2"]
  /\ Goto(c, "loop2")
  /\ UNCHANGED <<online, ipi, q, wait, hvars, todo, n, call, used, mask, ran, skipped>>

\* the second loop uses the Cpu_calls that are done
Loop2(c) ==
  /\ pc[c] = "loop2" /\ Free(c)
  /\ \E d \in Lowest(todo[c]), i \in 1 .. used[c] :
       /\ todo' = [todo EXCEPT ![c] = @ \ {d}]
       /\ is_done(<<c, i>>)
       /\ call' = [call EXCEPT ![c] = i]
       /\ CallSelf(c, d, "loop2") \/ CallOther(c, d, <<c, i>>)
  /\ UNCHANGED <<online, ipi, q, hvars, loop, used, mask>>

\* wait_all
WaitAll(c) ==
  /\ pc[c] = "loop2" /\ Free(c) /\ todo[c] = {}
  /\ \A i \in 1 .. used[c] : is_done(<<c, i>>)
  /\ Goto(c, "returned")
  /\ UNCHANGED <<online, ipi, q, wait, hvars, loop, todo, n, call, used, mask, ran, skipped>>

Enqueue(c) ==
  /\ pc[c] = "enq"
  /\ q' = [q EXCEPT ![n[c]] = Append(@, <<c, call[c]>>)]
  /\ Goto(c, "test_online")
  /\ UNCHANGED <<online, ipi, wait, hvars, loop, todo, n, call, used, mask, ran, skipped>>

TestOnline(c) ==
  /\ pc[c] = "test_online"
  /\ Goto(c, IF online[n[c]] THEN "test_queued" ELSE "dequeue")
  /\ UNCHANGED <<online, ipi, q, wait, hvars, loop, todo, n, call, used, mask, ran, skipped>>

\* Queue::dequeue of r from the list s
Dequeue(s, r) ==
  LET k == CHOOSE i \in 1 .. Len(s) : s[i] = r
  IN  SubSeq(s, 1, k - 1) \o SubSeq(s, k + 1, Len(s))

\* the CPU is offline: take the Cpu_call back
TakeBack(c) ==
  LET r == <<c, call[c]>>
  IN  /\ pc[c] = "dequeue"
      /\ IF r \in Range(q[n[c]])
           THEN /\ q' = [q EXCEPT ![n[c]] = Dequeue(@, r)]
                /\ wait' = [wait EXCEPT ![r] = FALSE]
                /\ skipped' = [skipped EXCEPT ![c] = @ \cup {n[c]}]
           ELSE UNCHANGED <<q, wait, skipped>>
      /\ Goto(c, "assert_done")
      /\ UNCHANGED <<online, ipi, hvars, loop, todo, n, call, used, mask, ran>>

\* assert (is_done(async)), and the Cpu_call may be used again
AssertDone(c) ==
  /\ pc[c] = "assert_done"
  /\ Goto(c, loop[c])
  /\ UNCHANGED <<online, ipi, q, wait, hvars, loop, todo, n, call, used, mask, ran, skipped>>

\* Cpu_calls::next, if remote_call says that the Cpu_call is busy
NextCall(c, busy) ==
  IF loop[c] = "loop1" /\ busy
    THEN IF used[c] < MaxCalls
           THEN /\ used' = [used EXCEPT ![c] = @ + 1]
                /\ call' = [call EXCEPT ![c] = used[c] + 1]
           ELSE /\ call' = [call EXCEPT ![c] = None]
                /\ UNCHANGED used
    ELSE UNCHANGED <<used, call>>

\* send the IPI unless the request was handled already
SendIpi(c) ==
  LET r == <<c, call[c]>>
  IN  /\ pc[c] = "test_queued"
      /\ ipi' = [ipi EXCEPT ![n[c]] = @ \/ queued(r)]
      /\ NextCall(c, queued(r) \/ ~is_done(r))
      /\ Goto(c, loop[c])
      /\ UNCHANGED <<online, q, wait, hvars, loop, todo, n, mask, ran, skipped>>

-------------------------------------------------------------------------------
(* The CPU that is called: handle_global_requests *)

\* Interrupts are taken outside the kernel and, by a synchronous caller, between
\* its remote calls.
Interruptible(c) ==
  Free(c) /\ (pc[c] \in {"user", "returned"} \/ (~Async /\ pc[c] \in {"loop1", "loop2"}))

HGoto(c, l) == hst' = [hst EXCEPT ![c] = l]

TakeIpi(c) ==
  /\ ipi[c] /\ Interruptible(c)
  /\ ipi' = [ipi EXCEPT ![c] = FALSE]
  /\ HGoto(c, "take")
  /\ UNCHANGED <<online, q, wait, hnd, cvars, ran, skipped>>

TakeFirst(c) ==
  /\ hst[c] = "take" /\ q[c] # <<>>
  /\ hnd' = [hnd EXCEPT ![c] = Head(q[c])]
  /\ q' = [q EXCEPT ![c] = Tail(@)]
  /\ HGoto(c, "run")
  /\ UNCHANGED <<online, ipi, wait, cvars, ran, skipped>>

Run(c) ==
  /\ hst[c] = "run"
  /\ ran' = [ran EXCEPT ![hnd[c][1]] = @ \cup {c}]
  /\ HGoto(c, "done")
  /\ UNCHANGED <<online, ipi, q, wait, hnd, cvars, skipped>>

RunDone(c) ==
  /\ hst[c] = "done"
  /\ wait' = [wait EXCEPT ![hnd[c]] = FALSE]
  /\ hnd' = [hnd EXCEPT ![c] = None]
  /\ HGoto(c, "take")
  /\ UNCHANGED <<online, ipi, q, cvars, ran, skipped>>

HandlerEnd(c) ==
  /\ hst[c] = "take" /\ q[c] = <<>>
  /\ HGoto(c, IF online[c] THEN "none" ELSE "off")
  /\ UNCHANGED <<online, ipi, q, wait, hnd, cvars, ran, skipped>>

\* Mutant: the queue is not drained once more on the way offline.
TakeOfflineNoDrain(c) ==
  /\ c \in sys.hotplug /\ Free(c) /\ pc[c] \in {"user", "returned"}
  /\ online' = [online EXCEPT ![c] = FALSE]
  /\ HGoto(c, "off")
  /\ UNCHANGED <<ipi, q, wait, hnd, cvars, ran, skipped>>

\* take_cpu_offline: the CPU is marked offline and drains its queue once more
TakeOffline(c) ==
  /\ c \in sys.hotplug /\ Free(c) /\ pc[c] \in {"user", "returned"}
  /\ online' = [online EXCEPT ![c] = FALSE]
  /\ HGoto(c, "take")
  /\ UNCHANGED <<ipi, q, wait, hnd, cvars, ran, skipped>>

TakeOnline(c) ==
  /\ hst[c] = "off"
  /\ online' = [online EXCEPT ![c] = TRUE]
  /\ HGoto(c, "none")
  /\ UNCHANGED <<ipi, q, wait, hnd, cvars, ran, skipped>>

-------------------------------------------------------------------------------
(* Specification *)

Caller(c) ==
  /\ \/ Loop1(c) \/ Loop1End(c) \/ Loop2(c) \/ WaitAll(c) \/ Enqueue(c) \/ TestOnline(c)
     \/ TakeBack(c) \/ AssertDone(c) \/ SendIpi(c)
  /\ UNCHANGED sys

Handler(c) ==
  /\ TakeIpi(c) \/ TakeFirst(c) \/ Run(c) \/ RunDone(c) \/ HandlerEnd(c)
  /\ UNCHANGED sys

Enter(c) == (Start(c) \/ TakeOffline(c) \/ TakeOnline(c)) /\ UNCHANGED sys

Next == \E c \in Cpus : Caller(c) \/ Handler(c) \/ Enter(c)

Spec == Init /\ [][Next]_vars

\* A CPU takes its interrupts and goes on, in the handler and after it.
FairSpec ==
  /\ Spec
  /\ \A c \in Cpus : WF_vars(Handler(c)) /\ SF_vars(Caller(c))

-------------------------------------------------------------------------------
(* Properties *)

\* remote_call() is under way.
RemoteLabels == {"enq", "test_online", "test_queued", "dequeue", "assert_done"}

CallerLabels == {"user", "loop1", "loop2", "returned"} \cup RemoteLabels

\* The caller uses at most Max Cpu_calls, queues hold Cpu_calls only, and every
\* other variable has the type of the code.
TypeOK ==
  /\ sys \in Systems
  /\ online \in [Cpus -> BOOLEAN] /\ ipi \in [Cpus -> BOOLEAN]
  /\ q \in [Cpus -> Seq(Calls)]
  /\ wait \in [Calls -> BOOLEAN]
  /\ hst \in [Cpus -> {"none", "take", "run", "done", "off"}]
  /\ hnd \in [Cpus -> Calls \cup {None}]
  /\ pc \in [Cpus -> CallerLabels]
  /\ loop \in [Cpus -> {"loop1", "loop2"}]
  /\ call \in [Cpus -> (1 .. MaxCalls) \cup {None}]
  /\ used \in [Cpus -> 0 .. MaxCalls]
  /\ n \in [Cpus -> Cpus \cup {None}]
  /\ todo \in [Cpus -> SUBSET Cpus] /\ mask \in [Cpus -> SUBSET Cpus]
  /\ ran \in [Cpus -> SUBSET Cpus] /\ skipped \in [Cpus -> SUBSET Cpus]

\* "This function waits until `func` finished execution on all selected CPUs
\* independent of the `async` parameter", except for CPUs that were offline; and the
\* Cpu_calls are on the stack of the caller: none is queued or executed any more when
\* cpu_call_many() has returned, and none is queued while it is executed.
CallFinished ==
  /\ \A c \in Cpus : pc[c] = "returned" => mask[c] \subseteq ran[c] \cup skipped[c]
  /\ \A c \in Cpus, r \in Calls :
       /\ r \in Range(q[c]) \/ hnd[c] = r => pc[r[1]] # "returned"
       /\ hnd[c] = r => ~queued(r) /\ \A d \in Cpus \ {c} : hnd[d] # r

\* A Cpu_call that remote_call() says can be used again is done: the assertion at
\* the end of the branch for CPUs that are offline.
ReusableIsDone ==
  \A c \in Cpus : pc[c] = "assert_done" => is_done(<<c, call[c]>>)

\* On `false`, `func` is executed synchronous one-by-one on the set of selected
\* CPUs.
OneByOne ==
  ~Async => \A c, d \in Cpus : c # d /\ hst[c] = "run" /\ hst[d] = "run" =>
              hnd[c][1] # hnd[d][1]

\* cpu_call_many() returns, whatever the CPUs it calls are doing.
CallReturns == \A c \in Cpus : pc[c] = "loop1" ~> pc[c] = "returned"

==============================================================================
