--------------------------- MODULE FlashContract ---------------------------
(***************************************************************************)
(* What a remote programming job promises, whatever happens to the         *)
(* Gateway: the board is changed at most once for a job, only after its    *)
(* client confirmed it, success is claimed only for a board that was       *)
(* changed, and an outcome that was announced is never taken back.         *)
(***************************************************************************)
EXTENDS Naturals

CONSTANT Job

VARIABLES
    outcome,   \* job -> "pending", "running", how it ended, or "removed"
    flashes    \* job -> how often the board was changed for it

Settled == {"SUCCEEDED", "FAILED", "CANCELLED", "RECOVERY_REQUIRED"}

Init ==
    /\ outcome = [j \in Job |-> "pending"]
    /\ flashes = [j \in Job |-> 0]

Start(j) ==
    /\ outcome[j] = "pending"
    /\ outcome' = [outcome EXCEPT ![j] = "running"] /\ UNCHANGED flashes

Flash(j) ==
    /\ outcome[j] = "running" /\ flashes[j] = 0
    /\ flashes' = [flashes EXCEPT ![j] = 1] /\ UNCHANGED outcome

MayEnd(j, o) ==
    \/ o \in {"FAILED", "RECOVERY_REQUIRED"} /\ outcome[j] = "running"
    \/ o = "SUCCEEDED" /\ outcome[j] = "running" /\ flashes[j] = 1
    \/ o \in {"CANCELLED", "RECOVERY_REQUIRED"} /\ outcome[j] = "pending"

Settle(j) ==
    /\ \E o \in Settled : MayEnd(j, o) /\ outcome' = [outcome EXCEPT ![j] = o]
    /\ UNCHANGED flashes

\* Old jobs are removed, several at once, but never one that runs.
Remove ==
    /\ \E old \in SUBSET {j \in Job : outcome[j] # "running"} :
         outcome' = [j \in Job |-> IF j \in old THEN "removed" ELSE outcome[j]]
    /\ UNCHANGED flashes

Next == Remove \/ \E j \in Job : Start(j) \/ Flash(j) \/ Settle(j)

Spec == Init /\ [][Next]_<<outcome, flashes>>
=============================================================================
