--------------------------- MODULE MCRemoteRequest ---------------------------
(***************************************************************************)
(* Instances of RemoteRequest for TLC: two requesters and one target, each *)
(* on a CPU of its own.                                                    *)
(***************************************************************************)
EXTENDS RemoteRequest

CONSTANTS x1, x2, tgt, p1, p2, p3

Spread == [home |-> x1 :> p1 @@ x2 :> p2 @@ tgt :> p3]

\* Every kind of request to a runnable thread, which may go anywhere.
Online == [ready |-> {tgt}, ops |-> [x \in Requesters |-> {"drq", "wake"} \cup Cpus],
           budget |-> 1, hotplug |-> {}, drain |-> FALSE, replug |-> FALSE] @@ Spread

\* DRQs to a thread that is moved, while its CPU drains its queue and leaves.
Leaving == [ready |-> {}, ops |-> x1 :> {"drq"} @@ x2 :> Cpus,
            budget |-> 2, hotplug |-> {p3}, drain |-> TRUE, replug |-> FALSE] @@ Spread

\* Every kind of request while the CPU of the thread goes and comes back.
Returning == [ready |-> {}, ops |-> [x \in Requesters |-> {"drq", "wake"} \cup Cpus],
              budget |-> 1, hotplug |-> {p3}, drain |-> FALSE, replug |-> TRUE] @@ Spread

All == {Online, Leaving, Returning}

==============================================================================
