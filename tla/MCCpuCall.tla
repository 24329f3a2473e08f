------------------------------ MODULE MCCpuCall ------------------------------
(***************************************************************************)
(* Instances of CpuCall for TLC.                                           *)
(***************************************************************************)
EXTENDS CpuCall, TLC

NoCalls == [c \in Cpus |-> {}]

\* CPU 1 calls any set of CPUs, or CPU 3 calls everybody.
Alone == {[masks |-> m @@ NoCalls, hotplug |-> {}] :
            m \in {1 :> SUBSET Cpus, 3 :> {Cpus}}}

\* CPUs 1 and 2 call each other and CPU 3, which may go offline and come back.
Together == [masks |-> [c \in {1, 2} |-> {{1, 2, 3}}] @@ NoCalls, hotplug |-> {3}]

All == Alone \cup {Together}

\* CPU 1 calls everybody else, as suspend_ap_cpus() does.
Others == {[masks |-> 1 :> {Cpus \ {1}} @@ NoCalls, hotplug |-> {}]}

==============================================================================
