--------------------------- MODULE ExclusiveLease ---------------------------
(***************************************************************************)
(* What the Gateway promises about the ST-Link, whatever its Agent,        *)
(* supervisor and OpenOCD children do: one lease at a time, lease          *)
(* identities that never come back, only the holder's processes on the     *)
(* probe, and no end of a lease while its processes drive the probe        *)
(* (docs/superpowers/specs/2026-09-08-gateway-agent-exclusive-lease-       *)
(* design.md, safety invariants 1, 2, 5 and 6).                            *)
(***************************************************************************)
EXTENDS Naturals

CONSTANTS Nobody, Cli, Orphan

VARIABLES
    holder,  \* the lease that holds the Gateway, or Nobody
    last,    \* the last lease identity handed out
    driver   \* whose OpenOCD may be driving the probe: a lease, Nobody, the
             \* Cli of the host, or an Orphan nobody answers for

vars == <<holder, last, driver>>

Init == holder = Nobody /\ last = 0 /\ driver = Nobody

\* A new identity, to nobody's detriment.
Grant ==
    /\ holder = Nobody
    /\ last' = last + 1
    /\ holder' = last'
    /\ UNCHANGED driver

Drive(who) ==
    /\ driver = Nobody
    /\ who # Nobody
    /\ who \in {holder, Cli}
    /\ driver' = who
    /\ UNCHANGED <<holder, last>>

\* The driver stops, or an operator proves that an orphan is gone.
Rest ==
    /\ driver # Nobody
    /\ driver' = Nobody
    /\ UNCHANGED <<holder, last>>

\* The driver dies without having stopped what it runs.
Abandon ==
    /\ driver \notin {Nobody, Orphan}
    /\ driver' = Orphan
    /\ UNCHANGED <<holder, last>>

End ==
    /\ holder # Nobody
    /\ driver # holder
    /\ holder' = Nobody
    /\ UNCHANGED <<last, driver>>

Next == Grant \/ Drive(holder) \/ Drive(Cli) \/ Rest \/ Abandon \/ End

Spec == Init /\ [][Next]_vars

=============================================================================
