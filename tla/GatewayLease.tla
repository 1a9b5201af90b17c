---------------------------- MODULE GatewayLease ----------------------------
(***************************************************************************)
(* The exclusive lease of a Gateway: GatewayLeaseCoordinator               *)
(* (src/b300_core/gateway_lease_coordinator.py), the GatewaySupervisor     *)
(* that runs OpenOCD for a debug lease (gateway_supervisor.py,             *)
(* debug_service.py), and the flash job that adopts a FLASH lease          *)
(* (gateway_program_jobs.py).                                              *)
(*                                                                         *)
(* Every coordinator operation holds the coordinator's lock, so at most    *)
(* one is under way; `pc` says where it stands.  It is cut where an effect *)
(* becomes durable or another party can step in: a crash of the Agent, an  *)
(* OpenOCD that exits, a flash job, a late stop thread, the CLI of the     *)
(* host.  The _recovery_required flag of a coordinator that has a lease is *)
(* the lease state RECOVERY_REQUIRED; _lease equals the lease on disk.     *)
(*                                                                         *)
(* Assumed: a killed OpenOCD is gone before DebugService.stop returns, a   *)
(* write to the lease store succeeds, a PID is not reused.                 *)
(***************************************************************************)
EXTENDS Naturals

CONSTANTS
    None,         \* no lease, no record, no service, the hardware owner idle
    Cli, Orphan,  \* other owners of the probe, in the abstract view
    MaxLease,     \* bound on the leases handed out
    MaxGateway,   \* bound on the OpenOCD processes started for debug leases
    PromptAgent   \* the loop of the Agent ticks within the reconnect grace

ASSUME ConstantAssumption ==
    /\ MaxLease \in Nat /\ MaxGateway \in Nat /\ PromptAgent \in BOOLEAN
    /\ None \notin Nat /\ Cli \notin Nat /\ Orphan \notin Nat
    /\ None # Cli /\ None # Orphan /\ Cli # Orphan

VARIABLES
    lease,      \* gateway_lease_store: the lease, or None
    rec,        \* _owner_store: whose OpenOCD was started, or None
    leases,     \* lease identities handed out so far
    gateways,   \* OpenOCD processes started so far by the supervisor
    pc,         \* where the coordinator operation stands, or free/down/exit
    op,         \* the operation under way, where its continuation needs it
    timer,      \* live before deadline_mono, late within the grace, or dead
    restarted,  \* _restart_attempted_generation is this lease's generation
    adopted,    \* _adopted_flash_lease_id is set
    flashTok,   \* _flash_owner_token is set
    svc,        \* _service: the OpenOCD the supervisor holds, or None
    sess,       \* that DebugService holds its HardwareSession
    stopped,    \* the supervisor's snapshot says STOPPED
    late,       \* a timed-out stop thread still holds the supervisor
    job,        \* the flash job worker
    jobLease,   \* the lease the job was committed under, or None
    ocd,        \* the OpenOCD processes alive on the host
    bound,      \* those that listen on the Gateway's ports
    other       \* hardware owner as others see it: None, cli, stale

store == <<lease, rec, leases>>
timing == <<timer, restarted>>
supervisor == <<svc, sess, stopped, gateways>>
jobs == <<job, jobLease, adopted, flashTok>>
host == <<ocd, bound, other>>
vars == <<store, pc, op, timing, supervisor, late, jobs, host>>

\* The OpenOCD runs of a flash job; the debug ones are numbered from 1.
Burner == 0

Mode == {"DEBUG", "FLASH"}
LeaseState == {"STARTING", "ACTIVE", "GRACE", "CLEANING", "RECOVERY_REQUIRED"}
Gateway == 1 .. gateways
Lease == [id : 1 .. leases, mode : Mode, state : LeaseState,
          gw : Gateway \cup {None}]
OwnerRecord == [lease : 1 .. leases, gw : Gateway]

\* None is told apart from every lease, every record and every other owner.
ASSUME NoneAssumption ==
    /\ None \notin [id : Nat, mode : Mode, state : LeaseState, gw : Nat \cup {None}]
    /\ None \notin [lease : Nat, gw : Nat]
    /\ None \notin {"cli", "stale"}

Idle == {"free", "down", "exit"}
Step == Idle \cup {"flash", "launch", "starting", "ready", "notready", "health",
                   "tick", "stop", "confirm", "clear", "forget",
                   "reconcile", "absence", "reclaimed"}

FlagsTyped ==
    /\ restarted \in BOOLEAN /\ adopted \in BOOLEAN /\ flashTok \in BOOLEAN
    /\ sess \in BOOLEAN /\ stopped \in BOOLEAN /\ late \in BOOLEAN

DataTyped ==
    /\ leases \in 0 .. MaxLease
    /\ gateways \in 0 .. MaxGateway
    /\ lease \in Lease \cup {None}
    /\ rec \in OwnerRecord \cup {None}
    /\ pc \in Step
    /\ op \in {"none", "acquire", "tick", "rescan", "recovery", "shutdown"}
    /\ timer \in {"live", "late", "dead"}
    /\ svc \in Gateway \cup {None}
    /\ job \in {"none", "queued", "flashing", "done"}
    /\ jobLease \in (1 .. leases) \cup {None}
    /\ ocd \in SUBSET (Gateway \cup {Burner})
    /\ bound \in SUBSET Gateway
    /\ other \in {None, "cli", "stale"}
    /\ pc \notin Idle \cup {"forget"} => lease # None
    /\ job = "none" <=> jobLease = None

TypeOK == FlagsTyped /\ DataTyped

Init ==
    /\ lease = None /\ rec = None /\ leases = 0 /\ gateways = 0
    /\ pc = "free" /\ op = "none"
    /\ timer = "live" /\ restarted = FALSE
    /\ adopted = FALSE /\ flashTok = FALSE
    /\ svc = None /\ sess = FALSE /\ stopped = TRUE /\ late = FALSE
    /\ job = "none" /\ jobLease = None
    /\ ocd = {} /\ bound = {} /\ other = None

(***************************************************************************)
(* Shared steps                                                            *)
(***************************************************************************)

InState(states) == lease # None /\ lease.state \in states

SetState(state) == lease' = [lease EXCEPT !.state = state]

\* The Agent process owns the hardware (hardware_owner.py; re-entrant).
Held == sess \/ flashTok \/ job = "flashing"
CanOwn == other = None \/ Held

Goto(step, operation) == pc' = step /\ op' = operation

\* Return from the operation; the Agent exits after its shutdown.
Return == Goto(IF op = "shutdown" THEN "exit" ELSE "free", "none")

\* DebugService.stop: terminate and reap OpenOCD, release the session.
StopService ==
    /\ ocd' = ocd \ {svc}
    /\ bound' = bound \ {svc}
    /\ svc' = None
    /\ sess' = FALSE

\* MUTANT: the cleanup of a flash lease forgets the owner token.
BeginCleanupKeepsToken(operation) ==
    /\ UNCHANGED flashTok
    /\ IF lease.mode = "FLASH"
       THEN UNCHANGED lease /\ Goto("clear", operation)
       ELSE SetState("CLEANING") /\ Goto("stop", operation)

\* The beginning of _cleanup_locked.
BeginCleanup(operation) ==
    IF lease.mode = "FLASH"
    THEN /\ flashTok' = FALSE
         /\ Goto("clear", operation)
         /\ UNCHANGED lease
    ELSE /\ SetState("CLEANING")
         /\ Goto("stop", operation)
         /\ UNCHANGED flashTok

\* _record_matches_lease.
Recorded(gw) == rec # None /\ rec.lease = lease.id /\ rec.gw = gw

\* confirm_lease_owner_stopped: nothing was ever started, or exactly the
\* recorded OpenOCD has gone; and nobody listens on the ports.
Confirmable ==
    /\ bound = {}
    /\ \/ rec = None /\ lease.gw = None /\ svc = None /\ stopped
       \/ lease.gw # None /\ Recorded(lease.gw) /\ lease.gw \notin ocd

(***************************************************************************)
(* acquire                                                                 *)
(***************************************************************************)

\* RESERVED and STARTING are persisted with nothing in between.
Reserve(mode) ==
    /\ pc = "free" /\ lease = None /\ leases < MaxLease
    /\ leases' = leases + 1
    /\ lease' = [id |-> leases', mode |-> mode, state |-> "STARTING", gw |-> None]
    /\ timer' = "live"
    /\ Goto(IF mode = "FLASH" THEN "flash" ELSE "launch", "acquire")
    /\ UNCHANGED <<rec, restarted, supervisor, late, jobs, host>>

FlashGrant ==
    /\ pc = "flash" /\ CanOwn
    /\ flashTok' = TRUE
    /\ SetState("ACTIVE")
    /\ Return
    /\ UNCHANGED <<rec, leases, timing, supervisor, late, job, jobLease, adopted, host>>

Grant ==
    /\ pc = "ready" /\ op = "acquire" /\ Recorded(svc)
    /\ lease' = [lease EXCEPT !.state = "ACTIVE", !.gw = svc]
    /\ restarted' = FALSE
    /\ Return
    /\ UNCHANGED <<rec, leases, timer, supervisor, late, jobs, host>>

\* No probe, a busy owner, a start that failed, no owner record.
AcquireFails ==
    /\ \/ pc = "flash"
       \/ pc = "notready" /\ op = "acquire"
       \/ pc = "ready" /\ op = "acquire" /\ ~Recorded(svc)
    /\ BeginCleanup("none")
    /\ UNCHANGED <<rec, leases, timing, supervisor, late, job, jobLease, adopted, host>>

(***************************************************************************)
(* Expiry: _advance_expiry_locked at the start of acquire, tick and renew. *)
(* Only acquire advances the expiry of an adopted lease.                   *)
(***************************************************************************)

Advances(caller) ==
    /\ pc = "free" \/ (pc = "tick" /\ caller = "tick")
    /\ caller = "acquire" \/ ~adopted

EnterGrace(caller) ==
    /\ Advances(caller)
    /\ InState({"ACTIVE"}) /\ timer = "late"
    /\ SetState("GRACE")
    /\ Return
    /\ UNCHANGED <<rec, leases, timing, supervisor, late, jobs, host>>

Expire(caller) ==
    /\ Advances(caller)
    /\ InState({"ACTIVE", "GRACE"}) /\ timer = "dead"
    /\ BeginCleanup("none")
    /\ UNCHANGED <<rec, leases, timing, supervisor, late, job, jobLease, adopted, host>>

\* By the client, or by the heartbeat thread of the flash job.
Renew ==
    /\ pc = "free" /\ InState({"ACTIVE", "GRACE"})
    /\ adopted \/ timer # "dead"
    /\ SetState("ACTIVE")
    /\ timer' = "live"
    /\ UNCHANGED <<rec, leases, pc, op, restarted, supervisor, late, jobs, host>>

\* MUTANT: the client may release the lease of a running flash job.
ReleaseAdopted ==
    /\ pc = "free" /\ InState({"ACTIVE", "GRACE"})
    /\ BeginCleanup("none")
    /\ UNCHANGED <<rec, leases, timing, supervisor, late, job, jobLease, adopted, host>>

Release ==
    /\ pc = "free" /\ InState({"ACTIVE", "GRACE"}) /\ ~adopted
    /\ BeginCleanup("none")
    /\ UNCHANGED <<rec, leases, timing, supervisor, late, job, jobLease, adopted, host>>

(***************************************************************************)
(* tick and runtime_snapshot on an active debug lease                      *)
(***************************************************************************)

CheckHealth(operation) ==
    /\ pc = "free" \/ (pc = "tick" /\ operation = "tick")
    /\ InState({"ACTIVE"}) /\ lease.mode = "DEBUG" /\ timer = "live"
    /\ Goto(IF svc = None THEN "launch" ELSE "health", operation)
    /\ UNCHANGED <<store, timing, supervisor, late, jobs, host>>

\* observe: the target answers, or it does not and the service is kept.
HealthKept ==
    /\ pc = "health" /\ svc \in bound
    /\ \E answer \in {"ready", "notready"} : Goto(answer, op)
    /\ stopped' = FALSE
    /\ UNCHANGED <<store, timing, svc, sess, gateways, late, jobs, host>>

\* observe found the probe gone or a hardware fault; also after ensure and
\* observe have published READY.
HealthLost ==
    /\ pc \in {"health", "ready"}
    /\ StopService
    /\ stopped' = FALSE
    /\ Goto("notready", op)
    /\ UNCHANGED <<store, timing, gateways, late, jobs, other>>

\* OPENOCD_EXITED: polling the service released its session.  tick restarts
\* OpenOCD once per lease.
HealthExited ==
    /\ pc = "health" /\ svc \notin ocd
    /\ sess' = FALSE
    /\ IF op = "tick" /\ ~restarted
       THEN /\ restarted' = TRUE /\ svc' = None /\ stopped' = TRUE
            /\ Goto("launch", op)
       ELSE /\ Goto("notready", op)
            /\ stopped' = FALSE
            /\ UNCHANGED <<restarted, svc>>
    /\ UNCHANGED <<store, timer, gateways, late, jobs, host>>

\* MUTANT: a healthy OpenOCD renews the lease.
RefreshRenews ==
    /\ pc = "ready" /\ op = "tick"
    /\ lease' = [lease EXCEPT !.gw = svc]
    /\ timer' = "live"
    /\ Return
    /\ UNCHANGED <<rec, leases, restarted, supervisor, late, jobs, host>>

Refresh ==
    /\ pc = "ready" /\ op = "tick"
    /\ lease' = [lease EXCEPT !.gw = svc]
    /\ Return
    /\ UNCHANGED <<rec, leases, timing, supervisor, late, jobs, host>>

\* _enter_grace_locked.
GatewayLost ==
    /\ pc = "notready" /\ op = "tick"
    /\ SetState("GRACE")
    /\ timer' = "late"
    /\ Return
    /\ UNCHANGED <<rec, leases, restarted, supervisor, late, jobs, host>>

\* runtime_snapshot calls tick after rescan, under the same lock.
Rescanned ==
    /\ pc \in {"ready", "notready"} /\ op = "rescan"
    /\ Goto("tick", "none")
    /\ UNCHANGED <<store, timing, supervisor, late, jobs, host>>

(***************************************************************************)
(* GatewaySupervisor.ensure, from acquire, a restart or maintain_once      *)
(***************************************************************************)

Launch ==
    /\ pc = "launch" /\ gateways < MaxGateway
    /\ CanOwn /\ ~sess /\ job # "flashing"
    /\ gateways' = gateways + 1
    /\ svc' = gateways'
    /\ sess' = TRUE
    /\ stopped' = FALSE
    /\ ocd' = ocd \cup {gateways'}
    /\ Goto("starting", op)
    /\ UNCHANGED <<store, timing, late, jobs, bound, other>>

\* No selectable probe, a busy session, an executable that does not start.
LaunchFails ==
    /\ pc = "launch"
    /\ stopped' = FALSE
    /\ Goto("notready", op)
    /\ UNCHANGED <<store, timing, svc, sess, gateways, late, jobs, host>>

\* MUTANT: a start that failed forgets the service without stopping it.
StartForgets ==
    /\ pc = "starting"
    /\ svc' = None
    /\ sess' = FALSE
    /\ Goto("notready", op)
    /\ UNCHANGED <<store, timing, gateways, stopped, late, jobs, host>>

\* OpenOCD did not come up, or reported a fault before it was verified.
StartFails ==
    /\ pc = "starting"
    /\ StopService
    /\ Goto("notready", op)
    /\ UNCHANGED <<store, timing, gateways, stopped, late, jobs, other>>

\* It listened, and may have exited since.
CameUp == pc = "starting" /\ (svc \in bound \/ svc \notin ocd)

\* TARGET_UNVERIFIED: the service is kept, no owner record is written.
StartUnverified ==
    /\ CameUp
    /\ Goto("notready", op)
    /\ UNCHANGED <<store, timing, supervisor, late, jobs, host>>

\* READY, then _persist_lease_owner_locked, which writes the record only if
\* it can identify the process.
StartVerified ==
    /\ CameUp
    /\ rec' \in {rec} \cup (IF svc \in ocd THEN {[lease |-> lease.id, gw |-> svc]} ELSE {})
    /\ Goto("ready", op)
    /\ UNCHANGED <<lease, leases, timing, supervisor, late, jobs, host>>

(***************************************************************************)
(* _cleanup_locked                                                         *)
(***************************************************************************)

\* MUTANT: a stop does not wait for the thread that holds the supervisor.
StopOvertakes ==
    /\ pc = "stop"
    /\ StopService
    /\ stopped' = TRUE
    /\ Goto(IF op = "recovery" THEN "clear" ELSE "confirm", op)
    /\ UNCHANGED <<store, timing, gateways, late, jobs, other>>

\* A cleanup that follows a positive reconciliation asks for no second proof.
StopDone ==
    /\ pc = "stop" /\ ~late
    /\ StopService
    /\ stopped' = TRUE
    /\ Goto(IF op = "recovery" THEN "clear" ELSE "confirm", op)
    /\ UNCHANGED <<store, timing, gateways, late, jobs, other>>

\* MUTANT: a stop that times out is taken for done.
StopSlowCleared ==
    /\ pc = "stop" /\ (svc # None \/ late)
    /\ late' = TRUE
    /\ Goto("clear", op)
    /\ UNCHANGED <<store, timing, supervisor, jobs, host>>

\* MUTANT: the wait for the stop thread has no timeout.
StopSlowUntimed ==
    /\ pc = "stop" /\ svc # None /\ ~late
    /\ late' = TRUE
    /\ SetState("RECOVERY_REQUIRED")
    /\ Return
    /\ UNCHANGED <<rec, leases, timing, supervisor, jobs, host>>

\* The stop thread does not end within cleanup_timeout_seconds.
StopSlow ==
    /\ pc = "stop" /\ (svc # None \/ late)
    /\ late' = TRUE
    /\ SetState("RECOVERY_REQUIRED")
    /\ Return
    /\ UNCHANGED <<rec, leases, timing, supervisor, jobs, host>>

\* The stop thread ends after the coordinator has given up on it.
LateStop ==
    /\ late
    /\ StopService
    /\ stopped' = TRUE
    /\ late' = FALSE
    /\ UNCHANGED <<store, pc, op, timing, gateways, jobs, other>>

\* MUTANT: the cleanup clears the lease without proof.
ConfirmBlindly ==
    /\ pc = "confirm"
    /\ Goto("clear", op)
    /\ UNCHANGED <<store, timing, supervisor, late, jobs, host>>

Confirm ==
    /\ pc = "confirm" /\ Confirmable
    /\ Goto("clear", op)
    /\ UNCHANGED <<store, timing, supervisor, late, jobs, host>>

\* CLEANUP_UNVERIFIED: no proof, or its evidence is not available in time.
Unconfirmed ==
    /\ pc = "confirm"
    /\ SetState("RECOVERY_REQUIRED")
    /\ Return
    /\ UNCHANGED <<rec, leases, timing, supervisor, late, jobs, host>>

\* store.clear_if_generation.
ClearStore ==
    /\ pc = "clear"
    /\ lease' = None
    /\ timer' = "live"
    /\ IF lease.mode = "FLASH"
       THEN adopted' = FALSE /\ Return
       ELSE UNCHANGED adopted /\ Goto("forget", op)
    /\ UNCHANGED <<rec, leases, restarted, supervisor, late, job, jobLease, flashTok, host>>

\* forget_lease_owner; a failure is swallowed.
Forget ==
    /\ pc = "forget"
    /\ rec' \in {None, rec}
    /\ Return
    /\ UNCHANGED <<lease, leases, timing, supervisor, late, jobs, host>>

(***************************************************************************)
(* _reconcile_recovery_locked, from tick and release                       *)
(***************************************************************************)

Reconcile ==
    /\ pc = "free" /\ InState({"RECOVERY_REQUIRED"})
    /\ Goto("reconcile", "recovery")
    /\ UNCHANGED <<store, timing, supervisor, late, jobs, host>>

\* RECOVERY_OWNER_UNPROVEN or RECOVERY_RECONCILE_TIMEOUT: everything stays.
Unproven ==
    /\ pc \in {"reconcile", "absence"}
    /\ Return
    /\ UNCHANGED <<store, timing, supervisor, late, jobs, host>>

\* The hardware owner could be taken and no OpenOCD runs on the host.
FlashReconciled ==
    /\ pc = "reconcile" /\ lease.mode = "FLASH"
    /\ CanOwn /\ ocd = {}
    /\ Goto("clear", op)
    /\ UNCHANGED <<store, timing, supervisor, late, jobs, host>>

\* reconcile_lease_owner: shut the recorded OpenOCD down through its own TCL
\* port, verify that it is gone, erase the record.  With too little time left
\* the record stays and the answer is no.
ShutdownRecorded(inTime) ==
    /\ pc = "reconcile" /\ lease.mode = "DEBUG" /\ ~late
    /\ lease.gw \in bound /\ Recorded(lease.gw)
    /\ ocd' = ocd \ {lease.gw}
    /\ bound' = bound \ {lease.gw}
    /\ IF inTime /\ bound' = {}
       THEN rec' = None /\ Goto("reclaimed", op)
       ELSE UNCHANGED rec /\ Goto("absence", op)
    /\ UNCHANGED <<lease, leases, timing, supervisor, late, jobs, other>>

\* MUTANT: a recorded OpenOCD that refuses the shutdown loses its record.
OwnerErased ==
    /\ pc = "reconcile" /\ lease.mode = "DEBUG" /\ ~late
    /\ rec' = None
    /\ Goto("absence", op)
    /\ UNCHANGED <<lease, leases, timing, supervisor, late, jobs, host>>

\* No record, another's record, a dead process, or one that does not answer.
OwnerNotReclaimed ==
    /\ pc = "reconcile" /\ lease.mode = "DEBUG" /\ ~late
    /\ Goto("absence", op)
    /\ UNCHANGED <<store, timing, supervisor, late, jobs, host>>

AbsenceProven ==
    /\ pc = "absence" /\ Confirmable
    /\ Goto("reclaimed", op)
    /\ UNCHANGED <<store, timing, supervisor, late, jobs, host>>

CleanupReclaimed ==
    /\ pc = "reclaimed"
    /\ BeginCleanup("recovery")
    /\ UNCHANGED <<rec, leases, timing, supervisor, late, job, jobLease, adopted, host>>

(***************************************************************************)
(* The flash job: commit, _run_job, finish_flash_job                       *)
(***************************************************************************)

\* adopt_flash_job looks at the state of the lease, not at its deadline.
Commit ==
    /\ pc = "free" /\ job = "none"
    /\ InState({"ACTIVE"}) /\ lease.mode = "FLASH" /\ flashTok
    /\ adopted' = TRUE
    /\ job' = "queued"
    /\ jobLease' = lease.id
    /\ UNCHANGED <<store, pc, op, timing, supervisor, late, flashTok, host>>

JobStarts ==
    /\ job = "queued" /\ CanOwn /\ ~sess
    /\ job' = "flashing"
    /\ ocd' = ocd \cup {Burner}
    /\ UNCHANGED <<store, pc, op, timing, supervisor, late, jobLease, adopted, flashTok,
                   bound, other>>

JobEnds ==
    /\ job \in {"queued", "flashing"}
    /\ job' = "done"
    /\ ocd' = ocd \ {Burner}
    /\ UNCHANGED <<store, pc, op, timing, supervisor, late, jobLease, adopted, flashTok,
                   bound, other>>

\* MUTANT: the finished job keeps the lease it was committed under.
JobFinishesHalf ==
    /\ pc = "free" /\ job = "done"
    /\ job' = "none"
    /\ adopted' = FALSE
    /\ UNCHANGED <<store, pc, op, timing, supervisor, late, jobLease, flashTok, host>>

\* finish_flash_job cleans up only the lease that the job has adopted.
JobFinishes ==
    /\ pc = "free" /\ job = "done"
    /\ job' = "none" /\ jobLease' = None
    /\ IF lease # None /\ lease.id = jobLease /\ adopted
       THEN adopted' = FALSE /\ BeginCleanup("none")
       ELSE UNCHANGED <<adopted, lease, pc, op, flashTok>>
    /\ UNCHANGED <<rec, leases, timing, supervisor, late, host>>

(***************************************************************************)
(* The Agent process                                                       *)
(***************************************************************************)

\* The shutdown request of a client, before the loop of the Agent ends.
ShutdownRequested ==
    /\ pc = "free" /\ lease # None /\ ~adopted
    /\ BeginCleanup("none")
    /\ UNCHANGED <<rec, leases, timing, supervisor, late, job, jobLease, adopted, host>>

\* The end of GatewayAgent.run: wait_active, then coordinator.shutdown.
Shutdown ==
    /\ pc = "free" /\ job = "none"
    /\ IF lease = None
       THEN Goto("exit", "none") /\ UNCHANGED <<lease, flashTok>>
       ELSE BeginCleanup("shutdown")
    /\ UNCHANGED <<rec, leases, timing, supervisor, late, job, jobLease, adopted, host>>

\* The process ends, after its shutdown or killed.  Its OpenOCD children live
\* on, and a hardware owner record that it leaves ACTIVE blocks everybody.
Die ==
    /\ pc # "down"
    /\ Goto("down", "none")
    /\ timer' = "live" /\ restarted' = FALSE
    /\ adopted' = FALSE /\ flashTok' = FALSE
    /\ svc' = None /\ sess' = FALSE /\ stopped' = TRUE /\ late' = FALSE
    /\ job' = "none" /\ jobLease' = None
    /\ other' = IF Held THEN "stale" ELSE other
    /\ UNCHANGED <<store, gateways, ocd, bound>>

\* The lease store validates what it writes: a lease that keeps the grace
\* deadline it was persisted with cannot be rewritten as RECOVERY_REQUIRED, so
\* the constructor of the next coordinator raises and its Agent ends at once.
Loadable == ~InState({"GRACE"})

\* A persisted lease is not trusted by the next Agent.
Start ==
    /\ pc = "down" /\ Loadable
    /\ IF lease = None THEN UNCHANGED lease ELSE SetState("RECOVERY_REQUIRED")
    /\ Goto("free", "none")
    /\ UNCHANGED <<rec, leases, timing, supervisor, late, jobs, host>>

(***************************************************************************)
(* The rest of the host                                                    *)
(***************************************************************************)

\* The heartbeats of a flash job (5 s) keep its lease live.  With a prompt
\* Agent a lease is seen in its grace (10 s) by a tick (every 0.25 s).
TimePasses ==
    /\ InState({"STARTING", "ACTIVE", "GRACE"}) /\ job = "none"
    /\ \/ timer = "live" /\ timer' = "late"
       \/ timer = "late" /\ timer' = "dead" /\ (PromptAgent => InState({"GRACE"}))
    /\ UNCHANGED <<store, pc, op, restarted, supervisor, late, jobs, host>>

\* The ports are fixed, so one OpenOCD at a time can listen.
OpenOcdBinds(g) ==
    /\ g \in ocd \ {Burner} /\ bound = {}
    /\ bound' = {g}
    /\ UNCHANGED <<store, pc, op, timing, supervisor, late, jobs, ocd, other>>

OpenOcdExits(g) ==
    /\ g \in ocd /\ (g = Burner => job # "flashing")
    /\ ocd' = ocd \ {g}
    /\ bound' = bound \ {g}
    /\ UNCHANGED <<store, pc, op, timing, supervisor, late, jobs, other>>

\* FileHardwareOwner for the other processes of the host (HardwareOwner).
CliTakes ==
    /\ other = None /\ ~Held
    /\ other' = "cli"
    /\ UNCHANGED <<store, pc, op, timing, supervisor, late, jobs, ocd, bound>>

CliEnds ==
    /\ other = "cli"
    /\ other' \in {None, "stale"}
    /\ UNCHANGED <<store, pc, op, timing, supervisor, late, jobs, ocd, bound>>

OperatorRecovers ==
    /\ other = "stale" /\ ocd = {}
    /\ other' = None
    /\ UNCHANGED <<store, pc, op, timing, supervisor, late, jobs, ocd, bound>>

Tick ==
    \/ EnterGrace("tick") \/ Expire("tick") \/ CheckHealth("tick") \/ Reconcile

\* The rest of an operation under way, up to its return.
Continue ==
    \/ FlashGrant \/ Grant \/ AcquireFails
    \/ HealthKept \/ HealthLost \/ HealthExited \/ Refresh \/ GatewayLost \/ Rescanned
    \/ Launch \/ LaunchFails \/ StartFails \/ StartUnverified \/ StartVerified
    \/ StopDone \/ StopSlow \/ Confirm \/ Unconfirmed \/ ClearStore \/ Forget
    \/ Unproven \/ FlashReconciled \/ OwnerNotReclaimed \/ AbsenceProven
    \/ CleanupReclaimed
    \/ \E inTime \in BOOLEAN : ShutdownRecorded(inTime)

Next ==
    \/ \E mode \in Mode : Reserve(mode)
    \/ EnterGrace("acquire") \/ Expire("acquire") \/ CheckHealth("rescan")
    \/ Tick \/ Continue \/ Renew \/ Release \/ LateStop
    \/ Commit \/ JobStarts \/ JobEnds \/ JobFinishes
    \/ ShutdownRequested \/ Shutdown \/ Die \/ Start
    \/ TimePasses
    \/ \E g \in ocd : OpenOcdBinds(g) \/ OpenOcdExits(g)
    \/ CliTakes \/ CliEnds \/ OperatorRecovers

Spec == Init /\ [][Next]_vars

(***************************************************************************)
(* Fairness: the loop of the Agent keeps ticking, an operation goes on     *)
(* (every wait in it is bounded), time passes, a flash job ends, and the   *)
(* service manager starts the Agent again.  Nothing is assumed of clients, *)
(* of OpenOCD or of the operator.                                          *)
(***************************************************************************)
Fairness ==
    /\ WF_vars(Tick) /\ WF_vars(Continue)
    /\ WF_vars(TimePasses)
    /\ WF_vars(JobEnds) /\ WF_vars(JobFinishes)
    /\ WF_vars(Start)

LiveSpec == Spec /\ Fairness

(***************************************************************************)
(* Properties                                                              *)
(***************************************************************************)

\* An OpenOCD alive on the host is the one of the live DebugService or of the
\* running flash job, or else the hardware owner record keeps everybody out.
OpenOcdIsOwned ==
    other # "stale" =>
        \A g \in ocd : IF g = Burner THEN job = "flashing" ELSE g = svc /\ sess

\* Safety invariant 6 and the meaning of IDLE: without a lease the Agent owns
\* no hardware and no OpenOCD of its own is alive, save orphans that the
\* hardware owner record keeps from doing harm.
IdleIsQuiet ==
    lease = None => ~Held /\ (ocd = {} \/ other = "stale")

\* A committed flash job holds the lease it was committed under to its end ("the
\* Gateway job owns and renews the lease internally until terminal completion"):
\* neither time, nor a client, nor another client's request takes it away.  With
\* a loop that may be late (PromptAgent = FALSE) the last of these does, since
\* acquire expires a lease without asking whether a job has adopted it.
FlashKeepsLease ==
    job \in {"queued", "flashing"} => lease # None /\ lease.id = jobLease

\* A stop thread that outlived its cleanup can only stop the OpenOCD of the
\* lease it was started for: no other lease is granted before it has ended.
LateStopIsHarmless ==
    late => InState({"CLEANING", "RECOVERY_REQUIRED"})

\* The private record of an OpenOCD is not erased or replaced as long as the
\* process it identifies is alive: without it nobody could reclaim it.
EvidenceOutlivesProcess ==
    [][rec # None /\ rec' # rec => rec.gw \notin ocd']_vars

\* No lease is ended, by any path, while the OpenOCD it names is alive.
NoLeaseEndsOverItsGateway ==
    [][lease # None /\ lease' = None => lease.gw \notin ocd]_vars

\* The lease, seen from outside.
Driver ==
    IF other = "cli" THEN Cli
    ELSE IF other = "stale" \/ (Held /\ lease = None) THEN Orphan
    ELSE IF Held THEN lease.id ELSE None

Abstract == INSTANCE ExclusiveLease WITH
    Nobody <- None,
    holder <- IF lease = None THEN None ELSE lease.id,
    last <- leases,
    driver <- Driver

ImplementsExclusiveLease == Abstract!Spec

\* A lease that its client no longer renews ends: it is cleaned up, or kept
\* back in RECOVERY_REQUIRED, whatever OpenOCD does and however often the
\* Agent is restarted, if it can be restarted at all (AgentCanRestart).  In
\* particular a healthy OpenOCD does not extend a lease.
EventuallyFree ==
    \/ []<><<Renew>>_vars
    \/ <>[](lease = None \/ lease.state \in {"CLEANING", "RECOVERY_REQUIRED"}
            \/ pc = "down")

\* No cleanup waits for ever: for a stop, a proof or a late thread.
CleaningEnds == InState({"CLEANING"}) ~> ~InState({"CLEANING"})

\* A restarted Agent invalidates the old instance and reconciles it: whatever
\* lease an Agent leaves behind when it dies, the next one can take it over.
AgentCanRestart == pc = "down" => Loadable

=============================================================================
