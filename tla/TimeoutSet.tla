------------------------------ MODULE TimeoutSet ------------------------------
(***************************************************************************)
(* What a timeout queue promises, without its wheel: timeouts are armed    *)
(* for an absolute time, and the timer interrupt lets exactly those expire *)
(* whose time has come.  A timeout that comes back after the interrupt     *)
(* that should have handled it (it was moved from another CPU meanwhile)   *)
(* is late: it may, but need not, expire with the next interrupt.          *)
(***************************************************************************)
EXTENDS Integers

CONSTANTS
  Timeouts,   \* the timeouts
  MaxClock    \* bound on the clock

VARIABLES
  clock,      \* the system clock
  last,       \* the time of the last timer interrupt
  due,        \* due[t]: when timeout t is to expire
  armed,      \* the timeouts that will expire
  late,       \* the armed timeouts that came back too late
  expired     \* the timeouts that have expired since they were armed

vars == <<clock, last, due, armed, late, expired>>

Init ==
  /\ clock = 0 /\ last = 0
  /\ due = [t \in Timeouts |-> 0]
  /\ armed = {} /\ late = {} /\ expired = {}

Tick ==
  /\ clock' = clock + 1
  /\ UNCHANGED <<last, due, armed, late, expired>>

\* t is armed, or armed anew, for a time in the future
Arm(t) ==
  /\ UNCHANGED <<clock, last>>
  /\ due'[t] \in clock + 1 .. MaxClock /\ due' = [due EXCEPT ![t] = due'[t]]
  /\ armed' = armed \cup {t}
  /\ late' = late \ {t}
  /\ expired' = expired \ {t}

Disarm(t) ==
  /\ UNCHANGED <<clock, last, due, expired>>
  /\ t \in armed
  /\ armed' = armed \ {t}
  /\ late' = late \ {t}

\* t is armed once more for the time it had
Rearm(t) ==
  /\ UNCHANGED <<clock, last, due, expired>>
  /\ t \notin armed \cup expired
  /\ armed' = armed \cup {t}
  /\ late' = IF due[t] <= last THEN late \cup {t} ELSE late

Expire ==
  /\ last' = clock
  /\ UNCHANGED <<clock, due>>
  /\ \E s \in SUBSET {t \in armed : due[t] <= clock} :
       /\ \A t \in armed \ late : due[t] <= clock => t \in s
       /\ armed' = armed \ s
       /\ late' = late \ s
       /\ expired' = expired \cup s

Next ==
  \/ Tick \/ Expire
  \/ \E t \in Timeouts : Arm(t) \/ Disarm(t) \/ Rearm(t)

Spec == Init /\ [][Next]_vars

===============================================================================
