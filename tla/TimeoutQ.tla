------------------------------- MODULE TimeoutQ -------------------------------
(***************************************************************************)
(* The timeout queue of a CPU (timeout.h): a wheel of sorted lists.  A     *)
(* timeout waits in the list of the time slot of its wake-up time, modulo  *)
(* the number of lists, and the timer interrupt visits the lists of the    *)
(* slots that have begun since the last interrupt.  Everything here runs   *)
(* with the CPU lock held on the CPU of the queue, so that each operation  *)
(* is one step.                                                            *)
(*                                                                         *)
(* Users of the queue: the end of the timeslice (sched_context.cc), IPC    *)
(* and semaphore timeouts (thread.h, thread_ipc.h), thread migration       *)
(* (sched.cc, context.h) and the tickless idle loop (cpu_tickless_idle.h). *)
(***************************************************************************)
EXTENDS Integers, Sequences, FiniteSetsExt, Functions

CONSTANTS
  Timeouts,      \* the IPC timeouts of threads
  Timeslice,     \* the timeslice timeout of the CPU
  Systems,       \* the systems to look at
  MinInterval,   \* Config::One_shot_min_interval_us
  MaxIntervals,  \* {Config::One_shot_max_interval_us, Config::Rcu_grace_period}
  MaxClock       \* bound on all clocks and wake-up times

All == Timeouts \cup {Timeslice}

\* queues: Wakeup_queue_count; slot: 2 ^ Wakeup_queue_distance; ints: the number of
\* values of the C++ type int; oneshot: Config::Scheduler_one_shot; maxclock: bound on
\* the clock; maxdelay: bound on the time between two timer interrupts
IsSystem(s) ==
  /\ s.queues \in Nat \ {0} /\ s.slot \in Nat \ {0}
  /\ s.ints \in Nat \ {0} /\ s.ints % (2 * s.queues) = 0
  /\ s.maxdelay \in Nat /\ s.maxdelay \div s.slot + 1 < s.ints \div 2
  /\ s.maxclock \in 1 .. MaxClock /\ s.oneshot \in BOOLEAN

ASSUME TimeoutAssumption ==
  /\ Timeslice \notin Timeouts
  /\ MinInterval \in Nat /\ MaxIntervals \subseteq Nat /\ MaxClock \in Nat
  /\ \A s \in Systems : IsSystem(s)

Infinite == MaxClock + 1   \* ULLONG_MAX, later than every time

VARIABLES
  sys,         \* the system: chosen once, never changed
  clock,       \* System_clock::clock()
  q,           \* Timeout_q::_q
  current,     \* Timeout_q::_current, the time the timer is programmed to
  old_clock,   \* Timeout_q::_old_clock
  wakeup,      \* Timeout::_wakeup
  hit,         \* Timeout::_flags.hit
  away,        \* timeouts reset by a migration and not yet set again
  asleep       \* the idle thread has disabled the timer tick

vars == <<sys, clock, q, current, old_clock, wakeup, hit, away, asleep>>

Init ==
  /\ sys \in Systems
  /\ clock = 0
  /\ q = [i \in 0 .. sys.queues - 1 |-> <<>>]
  /\ current = Infinite /\ old_clock = 0
  /\ wakeup = [t \in All |-> 0]
  /\ hit = [t \in All |-> FALSE]
  /\ away = {}
  /\ asleep = FALSE

-------------------------------------------------------------------------------
(* Integers: a conversion to int keeps the low bits *)

Slot(time) == time \div sys.slot

ToInt(n) == ((n + sys.ints \div 2) % sys.ints) - sys.ints \div 2

\* n & (Wakeup_queue_count - 1)
Index(n) == n % sys.queues

-------------------------------------------------------------------------------
(* The lists *)

\* H_list::insert_before: list s with t before position p
InsertBefore(s, p, t) == SubSeq(s, 1, p - 1) \o <<t>> \o SubSeq(s, p, Len(s))

\* H_list::remove: list s without t
WithoutItem(s, p) == SubSeq(s, 1, p - 1) \o SubSeq(s, p + 1, Len(s))
Remove(s, t) ==
  IF t \in Range(s) THEN WithoutItem(s, Min({k \in DOMAIN s : s[k] = t})) ELSE s

is_set(t) == \E i \in DOMAIN q : t \in Range(q[i])

\* the lists without t
Removed(t) == [i \in DOMAIN q |-> Remove(q[i], t)]

\* the first position of list s whose timeout is not before (after) time w
NotBefore(s, w, wk) == Min({k \in DOMAIN s : wk[s[k]] >= w} \cup {Len(s) + 1})
After(s, w, wk) == Min({k \in DOMAIN s : wk[s[k]] > w} \cup {Len(s) + 1})

\* lists qs with t inserted for time w
Inserted(qs, t, w) ==
  LET i == Index(Slot(w)) IN
  [qs EXCEPT ![i] = InsertBefore(@, NotBefore(@, w, wakeup), t)]

\* program_timer
Programmed(time, clk) == IF time < clk + MinInterval THEN clk + MinInterval ELSE time

\* Mutant: an earlier timeout does not change the timer.
EnqueueTimerFirst(w) ==
  current' = IF sys.oneshot /\ current = Infinite THEN Programmed(w, old_clock) ELSE current

\* the timer after enqueue
EnqueueTimer(w) ==
  current' = IF sys.oneshot /\ w < current THEN Programmed(w, old_clock) ELSE current

\* update_timer: the next timeout, at most max
UpdateTimer(qs, max, clk) ==
  LET fronts == {wakeup[Head(qs[i])] : i \in {j \in DOMAIN qs : qs[j] # <<>>}} IN
  Programmed(Min(fronts \cup {max}), clk)

-------------------------------------------------------------------------------
(* Users of the queue *)

\* Time passes; the timer interrupt may be held up, but not for ever.
Tick ==
  /\ clock < sys.maxclock /\ clock - old_clock < sys.maxdelay
  /\ clock' = clock + 1
  /\ UNCHANGED <<q, current, old_clock, wakeup, hit, away, asleep>>

\* setup_timer, do_send_wait: a timeout is set for a time in the future only; the
\* object is a new one
Set(t) ==
  /\ ~asleep /\ ~is_set(t) /\ t \notin away
  /\ \E w \in clock + 1 .. sys.maxclock :
       /\ wakeup' = [wakeup EXCEPT ![t] = w]
       /\ q' = Inserted(q, t, w)
       /\ EnqueueTimer(w)
  /\ hit' = [hit EXCEPT ![t] = FALSE]
  /\ UNCHANGED <<clock, old_clock, away, asleep>>

\* reset_timeout: the IPC is over
Reset(t) ==
  /\ ~asleep
  /\ is_set(t)
  /\ q' = Removed(t)
  /\ UNCHANGED <<clock, current, old_clock, wakeup, hit, away, asleep>>

\* set_current_sched: the timeslice of another thread begins
SetTimeslice ==
  /\ ~asleep
  /\ \E w \in clock + 1 .. sys.maxclock :
       /\ wakeup' = [wakeup EXCEPT ![Timeslice] = w]
       /\ q' = Inserted(Removed(Timeslice), Timeslice, w)
       /\ EnqueueTimer(w)
  /\ UNCHANGED <<clock, old_clock, hit, away, asleep>>

\* migrate_away: a thread leaves this CPU; its timeout may have hit already
MigrateAway(t) ==
  /\ ~asleep
  /\ t \notin away /\ (is_set(t) \/ hit[t])
  /\ q' = Removed(t)
  /\ away' = away \cup {t}
  /\ UNCHANGED <<clock, current, old_clock, wakeup, hit, asleep>>

\* finish_migration, set_again: a thread has come to this CPU
SetAgain(t) ==
  /\ ~asleep
  /\ t \in away
  /\ away' = away \ {t}
  /\ IF hit[t] THEN UNCHANGED <<q, current>>
               ELSE q' = Inserted(q, t, wakeup[t]) /\ EnqueueTimer(wakeup[t])
  /\ UNCHANGED <<clock, old_clock, wakeup, hit, asleep>>

-------------------------------------------------------------------------------
(* The timer interrupt *)

\* Mutant: a complete miss is not noticed.
VisitedNoMiss ==
  LET start == ToInt(Slot(old_clock))
      diff  == ToInt(Slot(clock) - start)
      end   == Index(ToInt(start + diff + 1))
      first == Index(start)
  IN {Index(first + k) : k \in 0 .. Index(end - first - 1)}

\* the lists do_timeouts visits at time clock, from start up to but without end;
\* the loop ends where it has begun when all lists are visited
Visited ==
  LET start == ToInt(Slot(old_clock))
      diff  == ToInt(Slot(clock) - start)
      end   == Index(ToInt(start + diff + 1))
      first == IF diff >= sys.queues THEN 0 ELSE Index(start)
      stop  == IF diff >= sys.queues THEN 0 ELSE end
  IN {Index(first + k) : k \in 0 .. Index(stop - first - 1)}

\* the part of the lists that expires
Expired == UNION {{q[i][k] : k \in 1 .. After(q[i], clock, wakeup) - 1} : i \in Visited}

\* do_timeouts
DoTimeouts ==
  /\ ~asleep
  /\ sys.oneshot => clock >= current
  /\ q' = [i \in DOMAIN q |->
             IF i \in Visited
               THEN SubSeq(q[i], After(q[i], clock, wakeup), Len(q[i]))
               ELSE q[i]]
  /\ hit' = [t \in All |-> hit[t] \/ t \in Expired]
  /\ old_clock' = clock
  /\ \E m \in MaxIntervals :
       current' = IF sys.oneshot THEN UpdateTimer(q', clock + m, clock) ELSE current
  /\ UNCHANGED <<clock, wakeup, away, asleep>>

-------------------------------------------------------------------------------
(* Tickless idle *)

\* have_timeouts
HaveTimeouts == \E i \in DOMAIN q : q[i] # <<>> /\ q[i] # <<Timeslice>>

Sleep ==
  /\ ~asleep /\ ~HaveTimeouts
  /\ asleep' = TRUE
  /\ UNCHANGED <<clock, q, current, old_clock, wakeup, hit, away>>

WakeUp ==
  /\ asleep
  /\ asleep' = FALSE
  /\ UNCHANGED <<clock, q, current, old_clock, wakeup, hit, away>>

Next ==
  /\ \/ Tick \/ SetTimeslice \/ DoTimeouts \/ Sleep \/ WakeUp
     \/ \E t \in Timeouts : Set(t) \/ Reset(t) \/ MigrateAway(t) \/ SetAgain(t)
  /\ UNCHANGED sys

Spec == Init /\ [][Next]_vars

-------------------------------------------------------------------------------
(* Properties *)

\* The lists hold timeouts only, _old_clock does not run ahead of the clock, and
\* every other variable has the type of the code.
TypeOK ==
  /\ sys \in Systems
  /\ clock \in 0 .. sys.maxclock /\ old_clock \in 0 .. clock
  /\ current \in Nat
  /\ wakeup \in [All -> 0 .. MaxClock] /\ hit \in [All -> BOOLEAN]
  /\ DOMAIN q = 0 .. sys.queues - 1
  /\ \A i \in DOMAIN q : Range(q[i]) \subseteq All
  /\ away \subseteq Timeouts /\ asleep \in BOOLEAN

\* The wheel behaves like a plain set of timeouts: the timer interrupt
\* (do_timeouts) lets every timeout expire that is due, none that is not, and none
\* twice, however long the interrupt was held up and however often a thread with
\* a timeout migrates.  Only a timeout that comes back from a migration after it
\* was due may have to wait.
Abstract == INSTANCE TimeoutSet WITH
  Timeouts <- All,
  last     <- old_clock,
  due      <- wakeup,
  armed    <- {t \in All : is_set(t)},
  late     <- {t \in All : is_set(t) /\ wakeup[t] <= old_clock},
  expired  <- {t \in All : hit[t] /\ ~is_set(t)}

ImplementsTimeoutSet == Abstract!Spec

\* No timeout waits for a timer that does not come: the idle thread disables the timer
\* tick only when no thread waits for a timeout on this CPU, and in one-shot mode the
\* timer is programmed to the first timeout, or to the minimal interval between two
\* interrupts.
TimerComes ==
  /\ asleep => \A t \in Timeouts : ~is_set(t)
  /\ sys.oneshot => \A t \in All : is_set(t) =>
       current <= wakeup[t] \/ current <= old_clock + MinInterval

\* do_timeouts calls expired() for all expired timeouts.
ExpiresAllDue ==
  [][old_clock' # old_clock =>
       \A t \in All : is_set(t)' => wakeup'[t] > old_clock']_vars

===============================================================================
