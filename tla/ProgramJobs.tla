---------------------------- MODULE ProgramJobs ----------------------------
(***************************************************************************)
(* The Application programming jobs of the Gateway Agent                   *)
(* (GatewayProgramJobs): upload, finalize, prepare, commit, the thread     *)
(* that flashes, cancel, cleanup, pruning, and the death and restart of    *)
(* the Agent between any two writes.                                       *)
(*                                                                         *)
(* A job is named by the request that creates it.  Its record (job.json)   *)
(* is replaced atomically; everything in memory is lost when the Agent     *)
(* dies.  The lock of the object is held through an operation, so the      *)
(* operation under way (op) keeps every other one out, but not the thread  *)
(* that flashes nor the end of the process.                                *)
(*                                                                         *)
(* Of the coordinator there is the lease: one at a time, and one that a    *)
(* job has adopted ends with that job, unless another client's acquire     *)
(* finds it past its deadline (GatewayLease has the deadlines).            *)
(***************************************************************************)
EXTENDS Naturals, FiniteSets

CONSTANTS
    Job,        \* the requests for a job that clients send
    MaxActive,  \* MAX_ACTIVE_JOBS
    MaxLease,   \* bound: leases granted
    MaxDeath,   \* bound: deaths of the Agent
    None

ASSUME NoneAssumption == None \notin Job
ASSUME BoundAssumption == MaxActive \in Nat /\ MaxLease \in Nat /\ MaxDeath \in Nat

Open == {"UPLOADING", "STAGED", "AWAITING_CONFIRMATION"}
Terminal == {"SUCCEEDED", "FAILED", "CANCELLED", "RECOVERY_REQUIRED"}
Recorded == Open \cup {"RUNNING"} \cup Terminal

\* A job that was not asked for, a directory without job.json, a removed one.
JobState == Recorded \cup {"NEW", "BARE", "GONE"}

VARIABLES
    state,      \* job -> the state in its job.json
    files,      \* job -> the files beside it: "part", "staged", "log"
    approvals,  \* job -> the approval in memory, or None
    active,     \* _active_job_id
    worker,     \* the thread of _run_job: its job, lease, place and result
    op,         \* the operation that holds the lock, between two of its writes
    up,         \* whether the Agent runs
    lease,      \* the coordinator's lease: number, held, adopted
    deaths,     \* deaths of the Agent so far
    flashes     \* history: how often each job began to change the board

jobs == <<state, files>>
memory == <<approvals, active, worker, op>>
vars == <<jobs, memory, up, lease, deaths, flashes>>

Approval == [lease : 1..MaxLease, fresh : BOOLEAN]
NoWorker == [job |-> None, lease |-> 0, at |-> "none", result |-> "none"]
NoOp == [kind |-> "none", job |-> None, lease |-> 0]

TypeOK ==
    /\ state \in [Job -> JobState]
    /\ files \in [Job -> SUBSET {"part", "staged", "log"}]
    /\ approvals \in [Job -> Approval \cup {None}]
    /\ active \in Job \cup {None}
    /\ worker \in [job : Job \cup {None}, lease : 0..MaxLease,
                   at : {"none", "started", "flashing", "ended", "recorded", "finished"},
                   result : {"none", "verified", "unverified", "raised"}]
    /\ op \in [kind : {"none", "create", "finalize", "prepare", "commit", "adopt"},
               job : Job \cup {None}, lease : 0..MaxLease]
    /\ lease \in [id : 0..MaxLease, held : BOOLEAN, adopted : BOOLEAN]
    /\ up \in BOOLEAN /\ deaths \in 0..MaxDeath
    /\ flashes \in [Job -> 0..2]
    /\ active = worker.job      \* the active job is the one of the live thread

Init ==
    /\ state = [j \in Job |-> "NEW"] /\ files = [j \in Job |-> {}]
    /\ approvals = [j \in Job |-> None] /\ active = None
    /\ worker = NoWorker /\ op = NoOp
    /\ up = TRUE /\ deaths = 0
    /\ lease = [id |-> 0, held |-> FALSE, adopted |-> FALSE]
    /\ flashes = [j \in Job |-> 0]

-----------------------------------------------------------------------------
(* Guards that several operations share.                                   *)

Locked == op # NoOp
LoopFree == up /\ op.kind \in {"none", "prepare"}   \* prepare has its own thread
Enter == up /\ ~Locked                              \* with self._lock
Begin(kind, j, l) == op' = [kind |-> kind, job |-> j, lease |-> l]
Leave == op' = NoOp
SetState(j, s) == state' = [state EXCEPT ![j] = s]

\* _require_lease: the caller's lease is the one the coordinator holds.
Owns(l) == lease.held /\ lease.id = l
\* The flash holds the ST-Link of the Agent, so a preparation cannot inspect.
Driving == worker.at = "flashing"

-----------------------------------------------------------------------------
(* create_upload, finalize_upload.                                         *)

\* Jobs that are past their time to live are whatever time has made of them.
Prunable == {j \in Job : state[j] \in Recorded \ {"RUNNING"} /\ j # active}

CreateUpload(j) ==
    /\ Enter /\ state[j] = "NEW"
    /\ \E old \in SUBSET Prunable :
         LET kept == [k \in Job |-> IF k \in old THEN "GONE" ELSE state[k]]
         IN  /\ \A k \in Job : kept[k] # "BARE"     \* else _read raises JOB_INVALID
             /\ Cardinality({k \in Job : kept[k] \in Open \cup {"RUNNING"}}) < MaxActive
             /\ state' = [kept EXCEPT ![j] = "BARE"]
             /\ files' = [k \in Job |-> IF k \in old THEN {} ELSE files[k]]
    /\ Begin("create", j, 0)
    /\ UNCHANGED <<approvals, active, worker, up, lease, deaths, flashes>>

CreateWritten ==
    /\ up /\ op.kind = "create"
    /\ SetState(op.job, "UPLOADING") /\ Leave
    /\ UNCHANGED <<files, approvals, active, worker, up, lease, deaths, flashes>>

\* The exception leaves the directory where it is.
CreateFailsDirty ==
    /\ up /\ op.kind = "create" /\ Leave
    /\ UNCHANGED <<jobs, approvals, active, worker, up, lease, deaths, flashes>>

\* The slot or the record cannot be written: both directories are removed.
CreateFails ==
    /\ up /\ op.kind = "create"
    /\ SetState(op.job, "GONE") /\ Leave
    /\ UNCHANGED <<files, approvals, active, worker, up, lease, deaths, flashes>>

\* SFTP fills the slot, beside the Agent.  A part that is not whole or does
\* not have the manifest's digest is refused, which changes nothing here.
Upload(j) ==
    /\ state[j] = "UPLOADING" /\ "part" \notin files[j]
    /\ files' = [files EXCEPT ![j] = @ \cup {"part"}]
    /\ UNCHANGED <<state, memory, up, lease, deaths, flashes>>

\* The artifact gets its name first and the record its state second.  A name
\* that is taken, by a finalize that died in between, is never replaced.
FinalizeUpload(j) ==
    /\ Enter /\ state[j] = "UPLOADING"
    /\ "part" \in files[j] /\ "staged" \notin files[j]
    /\ files' = [files EXCEPT ![j] = (@ \ {"part"}) \cup {"staged"}]
    /\ Begin("finalize", j, 0)
    /\ UNCHANGED <<state, approvals, active, worker, up, lease, deaths, flashes>>

FinalizeWritten ==
    /\ up /\ op.kind = "finalize"
    /\ SetState(op.job, "STAGED") /\ Leave
    /\ UNCHANGED <<files, approvals, active, worker, up, lease, deaths, flashes>>

FinalizeFails ==
    /\ up /\ op.kind = "finalize" /\ Leave
    /\ UNCHANGED <<jobs, approvals, active, worker, up, lease, deaths, flashes>>

-----------------------------------------------------------------------------
(* prepare and commit.                                                     *)

Prepare(j, l) ==
    /\ Enter /\ state[j] = "STAGED" /\ "staged" \in files[j]
    /\ Owns(l) /\ ~Driving
    /\ Begin("prepare", j, l)
    /\ UNCHANGED <<jobs, approvals, active, worker, up, lease, deaths, flashes>>

\* The approval is in memory before the record can fail to be written.
PrepareEnds ==
    /\ up /\ op.kind = "prepare"
    /\ approvals' = [approvals EXCEPT ![op.job] = [lease |-> op.lease, fresh |-> TRUE]]
    /\ state' \in {state, [state EXCEPT ![op.job] = "AWAITING_CONFIRMATION"]}
    /\ Leave
    /\ UNCHANGED <<files, active, worker, up, lease, deaths, flashes>>

\* The target cannot be inspected or the plan is refused.
PrepareFails ==
    /\ up /\ op.kind = "prepare" /\ Leave
    /\ UNCHANGED <<jobs, approvals, active, worker, up, lease, deaths, flashes>>

ApprovalExpires(j) ==
    /\ approvals[j] # None /\ approvals[j].fresh
    /\ approvals' = [approvals EXCEPT ![j].fresh = FALSE]
    /\ UNCHANGED <<jobs, active, worker, op, up, lease, deaths, flashes>>

\* The guards of commit, up to the private log that it creates exclusively.
Approved(j, l) == approvals[j] = [lease |-> l, fresh |-> TRUE]
\* Only a job that is still being flashed counts as busy.
NoFlashingWorker == worker.at \notin {"started", "flashing"}

NoLiveWorker == worker.at = "none"

Commit(j, l) ==
    /\ Enter /\ state[j] = "AWAITING_CONFIRMATION"
    /\ Owns(l) /\ Approved(j, l) /\ "staged" \in files[j]
    /\ NoLiveWorker /\ "log" \notin files[j]
    /\ files' = [files EXCEPT ![j] = @ \cup {"log"}]
    /\ Begin("commit", j, l)
    /\ UNCHANGED <<state, approvals, active, worker, up, lease, deaths, flashes>>

CommitWritten ==
    /\ up /\ op.kind = "commit"
    /\ SetState(op.job, "RUNNING") /\ Begin("adopt", op.job, op.lease)
    /\ UNCHANGED <<files, approvals, active, worker, up, lease, deaths, flashes>>

CommitFails ==
    /\ up /\ op.kind = "commit" /\ Leave
    /\ UNCHANGED <<jobs, approvals, active, worker, up, lease, deaths, flashes>>

\* adopt_flash_job raises when the lease has gone or serves another job:
\* the record stays RUNNING and no thread is started.
CommitStarts ==
    /\ up /\ op.kind = "adopt" /\ Leave
    /\ IF Owns(op.lease) /\ ~lease.adopted
       THEN /\ lease' = [lease EXCEPT !.adopted = TRUE]
            /\ active' = op.job
            /\ worker' = [job |-> op.job, lease |-> op.lease,
                          at |-> "started", result |-> "none"]
       ELSE UNCHANGED <<lease, active, worker>>
    /\ UNCHANGED <<jobs, approvals, up, deaths, flashes>>

Cancel(j, l) ==
    /\ Enter /\ state[j] \in Open /\ Owns(l)
    /\ approvals' = [approvals EXCEPT ![j] = None]
    /\ SetState(j, "CANCELLED")
    /\ UNCHANGED <<files, active, worker, op, up, lease, deaths, flashes>>

\* Cleanup of any job that was committed.
CleanupCommitted(j) ==
    /\ Enter /\ state[j] \in Recorded \ Open
    /\ files' = [files EXCEPT ![j] = @ \ {"part", "staged"}]
    /\ UNCHANGED <<state, memory, up, lease, deaths, flashes>>

Cleanup(j) ==
    /\ Enter /\ state[j] \in Terminal
    /\ files' = [files EXCEPT ![j] = @ \ {"part", "staged"}]
    /\ UNCHANGED <<state, memory, up, lease, deaths, flashes>>

\* A job is orphaned only while another one is active.
OrphanedIfBusy(j) == state[j] = "RUNNING" /\ active \notin {j, None}

\* Nobody asks which job is active.
OrphanedBlindly(j) == state[j] \in {"RUNNING", "AWAITING_CONFIRMATION"}

\* status, which a repeated finalize, prepare or commit also returns.
Orphaned(j) ==
    \/ state[j] = "RUNNING" /\ active # j
    \/ state[j] = "AWAITING_CONFIRMATION" /\ approvals[j] = None

Status(j) ==
    /\ Enter /\ Orphaned(j)
    /\ SetState(j, "RECOVERY_REQUIRED")
    /\ UNCHANGED <<files, memory, up, lease, deaths, flashes>>

-----------------------------------------------------------------------------
(* The thread of _run_job.                                                 *)

\* The flash begins, or raises before it touches the board: the file is gone,
\* somebody else has the hardware, the target is not the approved one.
JobFlashes ==
    /\ up /\ worker.at = "started"
    /\ \/ /\ "staged" \in files[worker.job] /\ op.kind # "prepare"
          /\ worker' = [worker EXCEPT !.at = "flashing"]
          /\ flashes' = [flashes EXCEPT ![worker.job] = @ + 1]
       \/ /\ worker' = [worker EXCEPT !.at = "ended", !.result = "raised"]
          /\ UNCHANGED flashes
    /\ UNCHANGED <<jobs, approvals, active, op, up, lease, deaths>>

JobFlashed ==
    /\ up /\ worker.at = "flashing"
    /\ \E r \in {"verified", "unverified", "raised"} :
         worker' = [worker EXCEPT !.at = "ended", !.result = r]
    /\ UNCHANGED <<jobs, approvals, active, op, up, lease, deaths, flashes>>

JobRecords ==
    /\ Enter /\ worker.at = "ended"
    /\ SetState(worker.job, IF worker.result = "verified" THEN "SUCCEEDED" ELSE "FAILED")
    /\ worker' = [worker EXCEPT !.at = "recorded"]
    /\ UNCHANGED <<files, approvals, active, op, up, lease, deaths, flashes>>

\* The result cannot be written: that is an exception, which is recorded as a
\* failure; when that cannot be written either, the thread goes on to its end.
JobCannotRecord ==
    /\ Enter /\ worker.at = "ended"
    /\ worker' = IF worker.result = "raised"
                 THEN [worker EXCEPT !.at = "recorded"]
                 ELSE [worker EXCEPT !.result = "raised"]
    /\ UNCHANGED <<jobs, approvals, active, op, up, lease, deaths, flashes>>

\* coordinator.finish_flash_job gives the lease back.
JobFinishes ==
    /\ up /\ worker.at = "recorded"
    /\ lease' = IF Owns(worker.lease) /\ lease.adopted
                THEN [lease EXCEPT !.held = FALSE, !.adopted = FALSE] ELSE lease
    /\ worker' = [worker EXCEPT !.at = "finished"]
    /\ UNCHANGED <<jobs, approvals, active, op, up, deaths, flashes>>

JobEnds ==
    /\ Enter /\ worker.at = "finished"
    /\ approvals' = [approvals EXCEPT ![worker.job] = None]
    /\ active' = None /\ worker' = NoWorker
    /\ UNCHANGED <<jobs, op, up, lease, deaths, flashes>>

-----------------------------------------------------------------------------
(* The coordinator, and the end of the Agent.                              *)

\* The end of a lease has reset _adopted_flash_lease_id; acquire does not.
LeaseGranted ==
    /\ LoopFree /\ ~lease.held /\ lease.id < MaxLease
    /\ lease' = [lease EXCEPT !.id = @ + 1, !.held = TRUE]
    /\ UNCHANGED <<jobs, memory, up, deaths, flashes>>

\* MUTANT: _cleanup_locked does not reset _adopted_flash_lease_id.
LeaseEndsAdopted ==
    /\ LoopFree /\ lease.held
    /\ lease' = [lease EXCEPT !.held = FALSE]
    /\ UNCHANGED <<jobs, memory, up, deaths, flashes>>

\* release, which leaves an adopted lease alone, and the expiry in acquire,
\* which does not ask whether a job has adopted the lease.
LeaseEnds ==
    /\ LoopFree /\ lease.held
    /\ lease' = [lease EXCEPT !.held = FALSE, !.adopted = FALSE]
    /\ UNCHANGED <<jobs, memory, up, deaths, flashes>>

\* The heartbeat thread of a job whose lease was expired advances the expiry
\* of the lease that came after it, outside the loop.
LeaseExpires ==
    /\ up /\ worker.at \notin {"none", "finished"}
    /\ lease.held /\ ~lease.adopted
    /\ lease' = [lease EXCEPT !.held = FALSE]
    /\ UNCHANGED <<jobs, memory, up, deaths, flashes>>

Forgotten ==
    /\ approvals' = [j \in Job |-> None] /\ active' = None
    /\ worker' = NoWorker /\ op' = NoOp
    /\ up' = FALSE /\ deaths' = deaths + 1
    /\ lease' = [lease EXCEPT !.held = FALSE, !.adopted = FALSE]

Die ==
    /\ up /\ deaths < MaxDeath
    /\ Forgotten /\ UNCHANGED <<jobs, flashes>>

\* Death while an old job is pruned, after its job.json went away.
DieInPrune(j) ==
    /\ Enter /\ deaths < MaxDeath
    /\ j \in Prunable
    /\ Forgotten /\ SetState(j, "BARE") /\ UNCHANGED <<files, flashes>>

\* MUTANT: the new Agent takes interrupted jobs up again.
RestartRetries ==
    /\ ~up /\ up' = TRUE
    /\ state' = [j \in Job |-> IF state[j] = "RUNNING" THEN "STAGED" ELSE state[j]]
    /\ UNCHANGED <<files, memory, lease, deaths, flashes>>

Restart ==
    /\ ~up /\ up' = TRUE
    /\ UNCHANGED <<jobs, memory, lease, deaths, flashes>>

-----------------------------------------------------------------------------

Request ==
    \E j \in Job :
        \/ CreateUpload(j) \/ Upload(j) \/ FinalizeUpload(j)
        \/ Cleanup(j) \/ Status(j)
        \/ \E l \in 1..MaxLease : Prepare(j, l) \/ Commit(j, l) \/ Cancel(j, l)

Continue ==
    \/ CreateWritten \/ CreateFails \/ FinalizeWritten \/ FinalizeFails
    \/ PrepareEnds \/ PrepareFails \/ CommitWritten \/ CommitFails \/ CommitStarts

Run ==
    \/ JobFlashes \/ JobFlashed \/ JobRecords \/ JobCannotRecord
    \/ JobFinishes \/ JobEnds

Environment ==
    \/ \E j \in Job : ApprovalExpires(j) \/ DieInPrune(j)
    \/ LeaseGranted \/ LeaseEnds \/ LeaseExpires \/ Die \/ Restart

Next == Request \/ Continue \/ Run \/ Environment

Spec == Init /\ [][Next]_vars

(***************************************************************************)
(* Fairness: an operation goes on to its end, the thread of a job runs     *)
(* (each command of a flash has a timeout), the service manager restarts   *)
(* the Agent, and the client of job j asks for its status.                 *)
(***************************************************************************)
Fairness(j) ==
    /\ WF_vars(Continue) /\ WF_vars(Restart)
    /\ WF_vars(JobFlashes) /\ WF_vars(JobFlashed) /\ WF_vars(JobFinishes)
    /\ SF_vars(JobRecords \/ JobCannotRecord) /\ SF_vars(JobEnds)
    /\ SF_vars(Status(j))

-----------------------------------------------------------------------------
(* Properties.                                                             *)

\* A lease that counts as adopted is the held one, and the thread of the job
\* that adopted it is still to give it back: release and tick leave such a
\* lease alone, so the mark must not outlive the lease, pass to the next one,
\* or stay behind when the job has ended or has lost its lease to an acquire.
AdoptedLeaseHasItsJob ==
    lease.adopted =>
        /\ Owns(worker.lease)
        /\ worker.at \in {"started", "flashing", "ended", "recorded"}

\* RUNNING is written before adopt_flash_job could refuse; it never does, so
\* a commit that got that far starts its thread unless the Agent dies.
AdoptionIsNeverRefused ==
    op.kind = "adopt" => Owns(op.lease) /\ ~lease.adopted

\* No cleanup, cancellation or pruning takes the artifact away from a job
\* that is about to flash it.
ArtifactOutlivesCommit ==
    /\ op.kind \in {"commit", "adopt"} => "staged" \in files[op.job]
    /\ worker.at \in {"started", "flashing"} => "staged" \in files[worker.job]

\* An upload that fails leaves nothing behind that would make the scan of
\* every later upload fail; only a death in the middle does.
FailedUploadLeavesNothing ==
    deaths = 0 /\ op.kind # "create" => \A j \in Job : state[j] # "BARE"

Contract == INSTANCE FlashContract WITH
    outcome <- [j \in Job |->
        CASE state[j] \in Open \cup {"NEW"} -> "pending"
          [] state[j] = "BARE" ->
               IF op = [kind |-> "create", job |-> j, lease |-> 0]
               THEN "pending" ELSE "removed"
          [] state[j] = "RUNNING" -> "running"
          [] state[j] = "GONE" -> "removed"
          [] OTHER -> state[j]]

\* Across repeated commits, failed writes, deaths and restarts of the Agent, a
\* job changes the board at most once, while its record says RUNNING, and the
\* state in which its record settles is final.
HonoursFlashContract == Contract!Spec

\* A committed job does not stay RUNNING: its thread records the result, or
\* the status that its client asks for after a restart says RECOVERY_REQUIRED.
Settles(j) == state[j] = "RUNNING" ~> state[j] # "RUNNING"
=============================================================================
