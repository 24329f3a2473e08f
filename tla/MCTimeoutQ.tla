------------------------------ MODULE MCTimeoutQ ------------------------------
(***************************************************************************)
(* Instances of TimeoutQ for TLC.                                          *)
(***************************************************************************)
EXTENDS TimeoutQ

\* a one-shot timer, and a wheel that goes round more than once
OneShot ==
  [queues |-> 2, slot |-> 2, ints |-> 8, oneshot |-> TRUE, maxclock |-> 11,
   maxdelay |-> 5]

\* a periodic timer whose interrupt may be held up for longer than the wheel takes
Periodic ==
  [queues |-> 4, slot |-> 2, ints |-> 16, oneshot |-> FALSE, maxclock |-> 14,
   maxdelay |-> 11]

Both == {OneShot, Periodic}

===============================================================================
