------------------------- MODULE RemoteFlashProofs -------------------------
(***************************************************************************)
(* What the programming jobs of the Gateway guarantee for any number of    *)
(* jobs, leases and deaths of the Agent, and what run_remote_flash does on *)
(* top of them: the client with its Gateway is an instance of the jobs, so *)
(* what holds of the jobs holds of it.                                     *)
(***************************************************************************)
EXTENDS RemoteFlash, TLAPS

(***************************************************************************)
(* The inductive invariant of the jobs.                                    *)
(***************************************************************************)

\* The record of the job that an operation works on is what the operation found,
\* because the lock is held through it.
OpOK ==
    /\ op.kind = "none" => op = NoOp
    /\ op.kind # "none" => op.job \in Job
    /\ op.kind = "create" => op.lease = 0 /\ state[op.job] = "BARE"
    /\ op.kind = "finalize" => state[op.job] = "UPLOADING"
    /\ op.kind = "prepare" => state[op.job] = "STAGED" /\ op.lease \in 1..MaxLease
    /\ op.kind = "commit" => state[op.job] = "AWAITING_CONFIRMATION"
    /\ op.kind = "adopt" => state[op.job] = "RUNNING"

\* Only a death leaves a directory without a record behind.
BareOK == deaths = 0 => \A j \in Job :
    state[j] = "BARE" => op.kind = "create" /\ op.job = j

\* The thread drives the board until its result is recorded.
Live == {"started", "flashing", "ended", "recorded"}

\* A lease is adopted by the live thread, and a commit is on its way to one.
LeaseOK ==
    /\ lease.adopted => Owns(worker.lease) /\ worker.at \in Live
    /\ op.kind \in {"commit", "adopt"} => Owns(op.lease) /\ worker.at = "none"

\* The thread has a job, whose record says RUNNING until its result is written.
WorkerOK ==
    /\ worker.at # "none" => worker.job \in Job
    /\ worker.at \in {"started", "flashing", "ended"} => state[worker.job] = "RUNNING"

\* A job flashes after it was committed, and once.
FlashOK ==
    /\ \A j \in Job :
        /\ flashes[j] \in {0, 1}
        /\ state[j] \in Open \cup {"NEW", "CANCELLED"} => flashes[j] = 0
    /\ op.kind \in {"create", "adopt"} => flashes[op.job] = 0
    /\ worker.at = "started" => flashes[worker.job] = 0
    /\ worker.at = "flashing" \/ (worker.at = "ended" /\ worker.result # "raised") =>
           flashes[worker.job] = 1

JobInv ==
    /\ TypeOK /\ OpOK /\ BareOK /\ LeaseOK /\ WorkerOK /\ FlashOK
    /\ ArtifactOutlivesCommit

(***************************************************************************)
(* And of the client.                                                      *)
(***************************************************************************)

\* As long as the commit was not sent, nothing at the Gateway can start the job.
Uncommitted ==
    /\ ~sent /\ flashes[Mine] = 0 /\ worker.job # Mine
    /\ ~(op.kind \in {"commit", "adopt"} /\ op.job = Mine)
    /\ state[Mine] \notin {"RUNNING", "SUCCEEDED", "FAILED"}

\* The client has left and has said how its job ended.
Finished == cli = "exited" /\ (code = "0" \/ told # "none")

ClientInv ==
    /\ ClientTypeOK
    /\ committed \/ cli \notin {"start", "exited"} => grant \in 1..MaxLease
    /\ ~committed => Uncommitted
    /\ cli \notin {"withdrawing", "exited"} => code = "none"
    /\ cli = "withdrawing" => code \in {"0", "nonzero"}
    /\ cli # "exited" => told = "none"
    /\ cli \in {"committing", "asking", "polling"} => committed
    /\ code = "0" /\ told # "ok" => ~committed
    /\ Finished => op = NoOp \/ op.job # Mine
    /\ ToldOutcomeStaysTrue

-----------------------------------------------------------------------------
\* The Gateway begins without jobs.
LEMMA JobInit == Init => JobInv
<1>. SUFFICES ASSUME Init PROVE JobInv
  OBVIOUS
<1>1. TypeOK
  BY BoundAssumption DEF Init, TypeOK, JobState, Recorded, Open, Terminal, NoWorker, NoOp
<1>2. OpOK /\ BareOK /\ WorkerOK /\ FlashOK
  BY DEF Init, OpOK, BareOK, WorkerOK, FlashOK, NoWorker, NoOp
<1>3. LeaseOK /\ ArtifactOutlivesCommit
  BY DEF Init, LeaseOK, Live, ArtifactOutlivesCommit, NoWorker, NoOp
<1>. QED
  BY <1>1, <1>2, <1>3 DEF JobInv

(* The types.                                                              *)

LeaseType == [id : 0..MaxLease, held : BOOLEAN, adopted : BOOLEAN]
WorkerAt == {"none", "started", "flashing", "ended", "recorded", "finished"}
Result == {"none", "verified", "unverified", "raised"}
WorkerType == [job : Job \cup {None}, lease : 0..MaxLease, at : WorkerAt, result : Result]

\* What is done to the lease leaves it a lease.
LEMMA LeaseTyped ==
    ASSUME NEW x \in LeaseType
    PROVE  /\ [x EXCEPT !.held = FALSE] \in LeaseType
           /\ [x EXCEPT !.held = FALSE, !.adopted = FALSE] \in LeaseType
           /\ [x EXCEPT !.adopted = TRUE] \in LeaseType
           /\ x.id < MaxLease => [x EXCEPT !.id = @ + 1, !.held = TRUE] \in LeaseType
<1>1. x.id < MaxLease => x.id + 1 \in 0..MaxLease
  BY BoundAssumption DEF LeaseType
<1>. QED
  BY <1>1 DEF LeaseType

\* An approval that expires is still one.
LEMMA ApprovalTyped ==
    ASSUME NEW f \in [Job -> Approval \cup {None}], NEW j \in Job, f[j] # None
    PROVE  [f EXCEPT ![j].fresh = FALSE] \in [Job -> Approval \cup {None}]
<1>1. f[j] \in Approval /\ [f[j] EXCEPT !.fresh = FALSE] \in Approval
  BY DEF Approval
<1>2. [f EXCEPT ![j].fresh = FALSE] = [f EXCEPT ![j] = [f[j] EXCEPT !.fresh = FALSE]]
  OBVIOUS
<1>. QED
  BY <1>1, <1>2

\* What a client may ask for its job.
RequestTo(j) ==
    \/ CreateUpload(j) \/ Upload(j) \/ FinalizeUpload(j) \/ Cleanup(j) \/ Status(j)
    \/ \E l \in 1..MaxLease : Prepare(j, l) \/ Commit(j, l) \/ Cancel(j, l)

\* Requests keep the types.
LEMMA RequestTyped ==
    ASSUME TypeOK, OpOK, NEW j \in Job, RequestTo(j)
    PROVE  TypeOK'
<1>. USE BoundAssumption, NoneAssumption DEF TypeOK, JobState, Recorded, Open, Terminal, NoOp,
         NoWorker,
         Enter, Locked, Begin, Leave, SetState
<1>1. CASE CreateUpload(j)
  BY <1>1 DEF CreateUpload
<1>2. CASE Upload(j) \/ FinalizeUpload(j)
  BY <1>2 DEF Upload, FinalizeUpload, memory
<1>3. CASE Cleanup(j) \/ Status(j)
  BY <1>3 DEF Cleanup, Status, memory
<1>4. ASSUME NEW l \in 1..MaxLease, Prepare(j, l)
      PROVE  TypeOK'
  BY <1>4 DEF Prepare, jobs
<1>5. ASSUME NEW l \in 1..MaxLease, Commit(j, l)
      PROVE  TypeOK'
  BY <1>5 DEF Commit
<1>6. ASSUME NEW l \in 1..MaxLease, Cancel(j, l)
      PROVE  TypeOK'
  BY <1>6 DEF Cancel
<1>. QED
  BY <1>1, <1>2, <1>3, <1>4, <1>5, <1>6 DEF RequestTo

\* The second half of an operation keeps them.
LEMMA ContinueTyped ==
    ASSUME TypeOK, OpOK, LeaseOK, Continue
    PROVE  TypeOK'
<1>. USE BoundAssumption, NoneAssumption DEF TypeOK, OpOK, JobState, Recorded, Open, Terminal,
         NoOp, NoWorker,
         Enter, Locked, Begin, Leave, SetState
<1>1. CASE CreateWritten \/ FinalizeWritten \/ CreateFails \/ FinalizeFails \/ CommitFails
           \/ PrepareFails
  BY <1>1 DEF CreateWritten, FinalizeWritten, CreateFails, FinalizeFails, CommitFails,
     PrepareFails, jobs
<1>2. CASE PrepareEnds
  BY <1>2 DEF PrepareEnds, Approval
<1>3. CASE CommitWritten
  BY <1>3 DEF CommitWritten
<1>4. CASE CommitStarts
  <2>1. op' \in [kind : {"none", "create", "finalize", "prepare", "commit", "adopt"},
                 job : Job \cup {None}, lease : 0..MaxLease]
    BY <1>4 DEF CommitStarts
  <2>2. lease' \in [id : 0..MaxLease, held : BOOLEAN, adopted : BOOLEAN]
    BY <1>4 DEF CommitStarts
  <2>3. op.kind = "adopt" /\ op.job \in Job /\ op.lease \in 0..MaxLease
    BY <1>4 DEF CommitStarts
  <2>4. /\ worker' \in [job : Job \cup {None}, lease : 0..MaxLease,
                   at : {"none", "started", "flashing", "ended", "recorded", "finished"},
                   result : {"none", "verified", "unverified", "raised"}]
        /\ active' \in Job \cup {None} /\ active' = worker'.job
    BY <1>4, <2>3 DEF CommitStarts
  <2>5. UNCHANGED <<state, files, approvals, up, deaths, flashes>>
    BY <1>4 DEF CommitStarts, jobs
  <2>. QED
    BY <2>1, <2>2, <2>4, <2>5
<1>. QED
  BY <1>1, <1>2, <1>3, <1>4 DEF Continue

\* The thread of a job keeps them: it counts its flash once.
LEMMA RunTyped ==
    ASSUME TypeOK, WorkerOK, FlashOK, Run
    PROVE  TypeOK'
<1>. USE BoundAssumption, NoneAssumption DEF TypeOK, WorkerOK, JobState, Recorded, Open,
         Terminal, NoOp, NoWorker,
         Enter, Locked, SetState
<1>1. CASE JobFlashes
  <2>1. worker.job \in Job /\ flashes[worker.job] \in {0, 1}
    BY <1>1 DEF JobFlashes, FlashOK
  <2>2. flashes' \in [Job -> 0..2]
    BY <1>1, <2>1 DEF JobFlashes
  <2>3. worker' \in WorkerType /\ worker'.job = worker.job
    <3>1. worker \in WorkerType /\ {"flashing", "ended"} \subseteq WorkerAt /\ "raised" \in Result
      BY DEF WorkerType, WorkerAt, Result
    <3>2. \/ worker' = [worker EXCEPT !.at = "flashing"]
          \/ worker' = [worker EXCEPT !.at = "ended", !.result = "raised"]
      BY <1>1 DEF JobFlashes
    <3>. QED
      BY ONLY <3>1, <3>2 DEF WorkerType, WorkerAt, Result
  <2>. QED
    BY <1>1, <2>2, <2>3 DEF JobFlashes, jobs, WorkerType, WorkerAt, Result
<1>2. CASE JobFlashed \/ JobCannotRecord
  <2>1. worker \in WorkerType /\ {"ended", "recorded"} \subseteq WorkerAt
    BY DEF WorkerType, WorkerAt, Result
  <2>2. \/ \E r \in {"verified", "unverified", "raised"} :
             worker' = [worker EXCEPT !.at = "ended", !.result = r]
        \/ worker.at = "ended" /\ worker' = [worker EXCEPT !.at = "recorded"]
        \/ worker.at = "ended" /\ worker' = [worker EXCEPT !.result = "raised"]
    BY <1>2 DEF JobFlashed, JobCannotRecord
  <2>3. worker' \in WorkerType /\ worker'.job = worker.job /\ worker'.at # "none"
    BY ONLY <2>1, <2>2 DEF WorkerType, WorkerAt, Result
  <2>. QED
    BY <1>2, <2>3 DEF JobFlashed, JobCannotRecord, jobs, WorkerType, WorkerAt, Result
<1>3. CASE JobRecords
  BY <1>3 DEF JobRecords
<1>4. CASE JobFinishes
  BY <1>4 DEF JobFinishes, jobs, Owns
<1>5. CASE JobEnds
  BY <1>5 DEF JobEnds, jobs
<1>. QED
  BY <1>1, <1>2, <1>3, <1>4, <1>5 DEF Run

\* The coordinator, time and the end of the Agent keep them.
LEMMA EnvironmentTyped ==
    ASSUME TypeOK, Environment
    PROVE  TypeOK'
<1>. USE BoundAssumption, NoneAssumption DEF TypeOK, JobState, Recorded, Open, Terminal, NoOp,
         NoWorker,
         Enter, Locked, LoopFree, SetState, jobs, memory
<1>1. ASSUME NEW j \in Job, ApprovalExpires(j)
      PROVE  TypeOK'
  <2>1. approvals' \in [Job -> Approval \cup {None}]
    BY <1>1, ApprovalTyped DEF ApprovalExpires
  <2>. QED
    BY <1>1, <2>1 DEF ApprovalExpires
<1>2. CASE LeaseGranted \/ LeaseEnds \/ LeaseExpires
  <2>1. lease' \in LeaseType
    <3>1. lease \in LeaseType
      BY DEF LeaseType
    <3>. QED
      BY ONLY <1>2, <3>1, LeaseTyped DEF LeaseGranted, LeaseEnds, LeaseExpires
  <2>. QED
    BY <1>2, <2>1 DEF LeaseGranted, LeaseEnds, LeaseExpires, LeaseType
<1>3. ASSUME Forgotten, deaths < MaxDeath, state' \in [Job -> JobState],
             UNCHANGED <<files, flashes>>
      PROVE  TypeOK'
  <2>0. lease \in LeaseType
    BY DEF LeaseType
  <2>1. lease' \in LeaseType
    BY ONLY <1>3, <2>0, LeaseTyped DEF Forgotten
  <2>2. deaths' \in 0..MaxDeath
    BY <1>3 DEF Forgotten
  <2>3. /\ approvals' \in [Job -> Approval \cup {None}] /\ active' = None
        /\ worker' = NoWorker /\ op' = NoOp
    BY <1>3 DEF Forgotten
  <2>4. up' \in BOOLEAN
    BY <1>3 DEF Forgotten
  <2>5. active' \in Job \cup {None} /\ active' = worker'.job
    BY <2>3
  <2>6. /\ worker' \in WorkerType
        /\ op' \in [kind : {"none", "create", "finalize", "prepare", "commit", "adopt"},
                    job : Job \cup {None}, lease : 0..MaxLease]
    BY <2>3 DEF WorkerType, WorkerAt, Result
  <2>. QED
    BY <1>3, <2>1, <2>2, <2>3, <2>4, <2>5, <2>6 DEF LeaseType, WorkerType, WorkerAt, Result
<1>4. CASE Die
  BY <1>3, <1>4 DEF Die
<1>5. ASSUME NEW j \in Job, DieInPrune(j)
      PROVE  TypeOK'
  BY <1>3, <1>5 DEF DieInPrune
<1>6. CASE Restart
  BY <1>6 DEF Restart
<1>. QED
  BY <1>1, <1>2, <1>4, <1>5, <1>6 DEF Environment
-----------------------------------------------------------------------------
(* The invariant, in four parts, each kept by four groups of actions.      *)

OpPart == OpOK /\ BareOK
WorkerPart == WorkerOK /\ FlashOK

\* A request begins an operation on what it found, or is done.
LEMMA RequestOp ==
    ASSUME JobInv, NEW j \in Job, RequestTo(j)
    PROVE  OpPart'
<1>. USE NoneAssumption DEF JobInv, TypeOK, JobState, Recorded, Open, Terminal, OpOK, BareOK,
         WorkerOK, Prunable, OpPart, jobs, memory, Enter, Locked, Begin, Leave, SetState, NoOp,
         NoWorker
<1>1. CASE CreateUpload(j)
  BY <1>1 DEF CreateUpload
<1>2. CASE Upload(j)
  BY <1>2 DEF Upload
<1>3. CASE FinalizeUpload(j)
  BY <1>3 DEF FinalizeUpload
<1>4. CASE Cleanup(j) \/ Status(j)
  BY <1>4 DEF Cleanup, Status, Orphaned
<1>5. ASSUME NEW l \in 1..MaxLease, Prepare(j, l) \/ Cancel(j, l)
      PROVE  OpPart'
  BY <1>5 DEF Prepare, Cancel
<1>6. ASSUME NEW l \in 1..MaxLease, Commit(j, l)
      PROVE  OpPart'
  BY <1>6 DEF Commit
<1>. QED
  BY <1>1, <1>2, <1>3, <1>4, <1>5, <1>6 DEF RequestTo

\* An operation goes on from what its first half has left.
LEMMA ContinueOp ==
    ASSUME JobInv, Continue
    PROVE  OpPart'
<1>. USE NoneAssumption DEF JobInv, TypeOK, JobState, Recorded, Open, Terminal, OpOK, BareOK,
         WorkerOK, Prunable, OpPart, jobs, memory, Enter, Locked, Begin, Leave, SetState, NoOp,
         NoWorker
<1>1. CASE CreateWritten \/ CreateFails
  BY <1>1 DEF CreateWritten, CreateFails
<1>2. CASE FinalizeWritten \/ FinalizeFails
  BY <1>2 DEF FinalizeWritten, FinalizeFails
<1>3. CASE PrepareEnds \/ PrepareFails
  BY <1>3 DEF PrepareEnds, PrepareFails
<1>4. CASE CommitWritten \/ CommitFails
  BY <1>4 DEF CommitWritten, CommitFails
<1>5. CASE CommitStarts
  BY <1>5 DEF CommitStarts
<1>. QED
  BY <1>1, <1>2, <1>3, <1>4, <1>5 DEF Continue

\* The thread writes the record of its own job, when no operation is under way.
LEMMA RunOp ==
    ASSUME JobInv, Run
    PROVE  OpPart'
<1>. USE NoneAssumption DEF JobInv, TypeOK, JobState, Recorded, Open, Terminal, OpOK, BareOK,
         WorkerOK, Prunable, OpPart, jobs, memory, Enter, Locked, Begin, Leave, SetState, NoOp,
         NoWorker
<1>1. CASE JobFlashes
  BY <1>1 DEF JobFlashes
<1>2. CASE JobFlashed
  BY <1>2 DEF JobFlashed
<1>3. CASE JobRecords \/ JobCannotRecord
  BY <1>3 DEF JobRecords, JobCannotRecord
<1>4. CASE JobFinishes
  BY <1>4 DEF JobFinishes
<1>5. CASE JobEnds
  BY <1>5 DEF JobEnds
<1>. QED
  BY <1>1, <1>2, <1>3, <1>4, <1>5 DEF Run

\* A death ends the operation under way and may leave a directory without a record.
LEMMA EnvironmentOp ==
    ASSUME JobInv, Environment
    PROVE  OpPart'
<1>. USE NoneAssumption DEF JobInv, TypeOK, JobState, Recorded, Open, Terminal, OpOK, BareOK,
         WorkerOK, Prunable, OpPart, jobs, memory, Enter, Locked, Begin, Leave, SetState, NoOp,
         NoWorker
<1>1. ASSUME NEW j \in Job, ApprovalExpires(j)
      PROVE  OpPart'
  BY <1>1 DEF ApprovalExpires
<1>2. ASSUME NEW j \in Job, DieInPrune(j)
      PROVE  OpPart'
  BY <1>2 DEF DieInPrune, Forgotten
<1>3. CASE LeaseGranted \/ LeaseEnds \/ LeaseExpires
  BY <1>3 DEF LeaseGranted, LeaseEnds, LeaseExpires, LoopFree
<1>4. CASE Die
  BY <1>4 DEF Die, Forgotten
<1>5. CASE Restart
  BY <1>5 DEF Restart
<1>. QED
  BY <1>1, <1>2, <1>3, <1>4, <1>5 DEF Environment

\* A commit is only begun under the lease, with no thread alive.
LEMMA RequestLease ==
    ASSUME JobInv, NEW j \in Job, RequestTo(j)
    PROVE  LeaseOK'
<1>. USE NoneAssumption DEF JobInv, TypeOK, OpOK, LeaseOK, Live, Owns, NoLiveWorker, jobs,
         memory, Enter, Locked, Begin, Leave, SetState, NoOp, NoWorker
<1>1. CASE CreateUpload(j)
  BY <1>1 DEF CreateUpload
<1>2. CASE Upload(j)
  BY <1>2 DEF Upload
<1>3. CASE FinalizeUpload(j)
  BY <1>3 DEF FinalizeUpload
<1>4. CASE Cleanup(j) \/ Status(j)
  BY <1>4 DEF Cleanup, Status, Orphaned
<1>5. ASSUME NEW l \in 1..MaxLease, Prepare(j, l) \/ Cancel(j, l)
      PROVE  LeaseOK'
  BY <1>5 DEF Prepare, Cancel
<1>6. ASSUME NEW l \in 1..MaxLease, Commit(j, l)
      PROVE  LeaseOK'
  BY <1>6 DEF Commit
<1>. QED
  BY <1>1, <1>2, <1>3, <1>4, <1>5, <1>6 DEF RequestTo

\* The lease does not end while a commit is under way, and its thread adopts it.
LEMMA ContinueLease ==
    ASSUME JobInv, Continue
    PROVE  LeaseOK'
<1>. USE NoneAssumption DEF JobInv, TypeOK, OpOK, LeaseOK, Live, Owns, NoLiveWorker, jobs,
         memory, Enter, Locked, Begin, Leave, SetState, NoOp, NoWorker
<1>1. CASE CreateWritten \/ CreateFails
  BY <1>1 DEF CreateWritten, CreateFails
<1>2. CASE FinalizeWritten \/ FinalizeFails
  BY <1>2 DEF FinalizeWritten, FinalizeFails
<1>3. CASE PrepareEnds \/ PrepareFails
  BY <1>3 DEF PrepareEnds, PrepareFails
<1>4. CASE CommitWritten \/ CommitFails
  BY <1>4 DEF CommitWritten, CommitFails
<1>5. CASE CommitStarts
  BY <1>5 DEF CommitStarts
<1>. QED
  BY <1>1, <1>2, <1>3, <1>4, <1>5 DEF Continue

\* The thread gives the lease back after the record, never before.
LEMMA RunLease ==
    ASSUME JobInv, Run
    PROVE  LeaseOK'
<1>. USE NoneAssumption DEF JobInv, TypeOK, OpOK, LeaseOK, Live, Owns, NoLiveWorker, jobs,
         memory, Enter, Locked, Begin, Leave, SetState, NoOp, NoWorker
<1>1. CASE JobFlashes
  BY <1>1 DEF JobFlashes
<1>2. CASE JobFlashed
  BY <1>2 DEF JobFlashed
<1>3. CASE JobRecords \/ JobCannotRecord
  BY <1>3 DEF JobRecords, JobCannotRecord
<1>4. CASE JobFinishes
  BY <1>4 DEF JobFinishes
<1>5. CASE JobEnds
  BY <1>5 DEF JobEnds
<1>. QED
  BY <1>1, <1>2, <1>3, <1>4, <1>5 DEF Run

\* An adopted lease does not end, and a commit under way keeps the loop from ending one.
LEMMA EnvironmentLease ==
    ASSUME JobInv, Environment
    PROVE  LeaseOK'
<1>. USE NoneAssumption DEF JobInv, TypeOK, OpOK, LeaseOK, Live, Owns, NoLiveWorker, jobs,
         memory, Enter, Locked, Begin, Leave, SetState, NoOp, NoWorker
<1>1. ASSUME NEW j \in Job, ApprovalExpires(j)
      PROVE  LeaseOK'
  BY <1>1 DEF ApprovalExpires
<1>2. ASSUME NEW j \in Job, DieInPrune(j)
      PROVE  LeaseOK'
  BY <1>2 DEF DieInPrune, Forgotten
<1>3. CASE LeaseGranted \/ LeaseEnds \/ LeaseExpires
  BY <1>3 DEF LeaseGranted, LeaseEnds, LeaseExpires, LoopFree
<1>4. CASE Die
  BY <1>4 DEF Die, Forgotten
<1>5. CASE Restart
  BY <1>5 DEF Restart
<1>. QED
  BY <1>1, <1>2, <1>3, <1>4, <1>5 DEF Environment

\* No request touches the record of the job that runs.
LEMMA RequestWorker ==
    ASSUME JobInv, NEW j \in Job, RequestTo(j)
    PROVE  WorkerPart'
<1>. USE NoneAssumption DEF JobInv, TypeOK, OpOK, LeaseOK, WorkerOK, FlashOK, Live, WorkerPart,
         Recorded, Open, Terminal, Prunable, jobs, memory, Enter, Locked, Begin, Leave, SetState,
         NoOp, NoWorker
<1>1. CASE CreateUpload(j)
  BY <1>1 DEF CreateUpload
<1>2. CASE Upload(j)
  BY <1>2 DEF Upload
<1>3. CASE FinalizeUpload(j)
  BY <1>3 DEF FinalizeUpload
<1>4. CASE Cleanup(j) \/ Status(j)
  BY <1>4 DEF Cleanup, Status, Orphaned
<1>5. ASSUME NEW l \in 1..MaxLease, Prepare(j, l) \/ Cancel(j, l)
      PROVE  WorkerPart'
  BY <1>5 DEF Prepare, Cancel
<1>6. ASSUME NEW l \in 1..MaxLease, Commit(j, l)
      PROVE  WorkerPart'
  BY <1>6 DEF Commit
<1>. QED
  BY <1>1, <1>2, <1>3, <1>4, <1>5, <1>6 DEF RequestTo

\* The thread of a commit begins with a job that says RUNNING and never flashed.
LEMMA ContinueWorker ==
    ASSUME JobInv, Continue
    PROVE  WorkerPart'
<1>. USE NoneAssumption DEF JobInv, TypeOK, OpOK, LeaseOK, WorkerOK, FlashOK, Live, WorkerPart,
         Recorded, Open, Terminal, Prunable, jobs, memory, Enter, Locked, Begin, Leave, SetState,
         NoOp, NoWorker
<1>1. CASE CreateWritten \/ CreateFails
  BY <1>1 DEF CreateWritten, CreateFails
<1>2. CASE FinalizeWritten \/ FinalizeFails
  BY <1>2 DEF FinalizeWritten, FinalizeFails
<1>3. CASE PrepareEnds \/ PrepareFails
  BY <1>3 DEF PrepareEnds, PrepareFails
<1>4. CASE CommitWritten \/ CommitFails
  BY <1>4 DEF CommitWritten, CommitFails
<1>5. CASE CommitStarts
  BY <1>5 DEF CommitStarts
<1>. QED
  BY <1>1, <1>2, <1>3, <1>4, <1>5 DEF Continue

\* The thread flashes its job once.
LEMMA RunWorker ==
    ASSUME JobInv, Run
    PROVE  WorkerPart'
<1>. USE NoneAssumption DEF JobInv, TypeOK, OpOK, LeaseOK, WorkerOK, FlashOK, Live, WorkerPart,
         Recorded, Open, Terminal, Prunable, jobs, memory, Enter, Locked, Begin, Leave, SetState,
         NoOp, NoWorker
<1>1. CASE JobFlashes
  <2>1. worker.at = "started" /\ worker.job \in Job /\ flashes[worker.job] = 0
    BY <1>1 DEF JobFlashes
  <2>2. CASE /\ worker' = [worker EXCEPT !.at = "flashing"]
             /\ flashes' = [flashes EXCEPT ![worker.job] = @ + 1]
    <3>1. flashes' = [flashes EXCEPT ![worker.job] = 1]
      BY <2>1, <2>2
    <3>2. worker'.at = "flashing" /\ worker'.job = worker.job /\ worker'.result = worker.result
      BY <2>2
    <3>3. state[worker.job] = "RUNNING" /\ UNCHANGED <<state, op>>
      BY <1>1, <2>1 DEF JobFlashes
    <3>4. op.kind \in {"create", "adopt"} => op.job # worker.job
      BY <2>1, <3>3
    <3>. QED
      BY <2>1, <3>1, <3>2, <3>3, <3>4
  <2>3. CASE worker' = [worker EXCEPT !.at = "ended", !.result = "raised"] /\ UNCHANGED flashes
    BY <1>1, <2>1, <2>3 DEF JobFlashes
  <2>. QED
    BY <1>1, <2>2, <2>3 DEF JobFlashes
<1>2. CASE JobFlashed
  <2>1. worker'.at = "ended" /\ worker'.job = worker.job
    BY <1>2 DEF JobFlashed
  <2>2. worker.at = "flashing" /\ worker.job \in Job
    BY <1>2 DEF JobFlashed
  <2>3. flashes[worker.job] = 1
    BY <2>2
  <2>4. UNCHANGED <<state, op, flashes>>
    BY <1>2 DEF JobFlashed
  <2>. QED
    BY <2>1, <2>2, <2>3, <2>4
<1>3. CASE JobRecords \/ JobCannotRecord
  BY <1>3 DEF JobRecords, JobCannotRecord
<1>4. CASE JobFinishes
  BY <1>4 DEF JobFinishes
<1>5. CASE JobEnds
  BY <1>5 DEF JobEnds
<1>. QED
  BY <1>1, <1>2, <1>3, <1>4, <1>5 DEF Run

\* The environment writes no record of a job that runs.
LEMMA EnvironmentWorker ==
    ASSUME JobInv, Environment
    PROVE  WorkerPart'
<1>. USE NoneAssumption DEF JobInv, TypeOK, OpOK, LeaseOK, WorkerOK, FlashOK, Live, WorkerPart,
         Recorded, Open, Terminal, Prunable, jobs, memory, Enter, Locked, Begin, Leave, SetState,
         NoOp, NoWorker
<1>1. ASSUME NEW j \in Job, ApprovalExpires(j)
      PROVE  WorkerPart'
  BY <1>1 DEF ApprovalExpires
<1>2. ASSUME NEW j \in Job, DieInPrune(j)
      PROVE  WorkerPart'
  BY <1>2 DEF DieInPrune, Forgotten
<1>3. CASE LeaseGranted \/ LeaseEnds \/ LeaseExpires
  BY <1>3 DEF LeaseGranted, LeaseEnds, LeaseExpires, LoopFree
<1>4. CASE Die
  BY <1>4 DEF Die, Forgotten
<1>5. CASE Restart
  BY <1>5 DEF Restart
<1>. QED
  BY <1>1, <1>2, <1>3, <1>4, <1>5 DEF Environment

\* No request removes the artifact of a job that is committed.
LEMMA RequestArtifact ==
    ASSUME JobInv, NEW j \in Job, RequestTo(j)
    PROVE  ArtifactOutlivesCommit'
<1>. USE NoneAssumption DEF JobInv, TypeOK, OpOK, LeaseOK, WorkerOK, ArtifactOutlivesCommit,
         Live, Recorded, Open, Terminal, Prunable, jobs, memory, Enter, Locked, Begin, Leave,
         SetState, NoOp, NoWorker
<1>1. CASE CreateUpload(j)
  BY <1>1 DEF CreateUpload
<1>2. CASE Upload(j)
  BY <1>2 DEF Upload
<1>3. CASE FinalizeUpload(j)
  BY <1>3 DEF FinalizeUpload
<1>4. CASE Cleanup(j) \/ Status(j)
  BY <1>4 DEF Cleanup, Status, Orphaned
<1>5. ASSUME NEW l \in 1..MaxLease, Prepare(j, l) \/ Cancel(j, l)
      PROVE  ArtifactOutlivesCommit'
  BY <1>5 DEF Prepare, Cancel
<1>6. ASSUME NEW l \in 1..MaxLease, Commit(j, l)
      PROVE  ArtifactOutlivesCommit'
  BY <1>6 DEF Commit
<1>. QED
  BY <1>1, <1>2, <1>3, <1>4, <1>5, <1>6 DEF RequestTo

\* The commit checked for the artifact, and its second half leaves it.
LEMMA ContinueArtifact ==
    ASSUME JobInv, Continue
    PROVE  ArtifactOutlivesCommit'
<1>. USE NoneAssumption DEF JobInv, TypeOK, OpOK, LeaseOK, WorkerOK, ArtifactOutlivesCommit,
         Live, Recorded, Open, Terminal, Prunable, jobs, memory, Enter, Locked, Begin, Leave,
         SetState, NoOp, NoWorker
<1>1. CASE CreateWritten \/ CreateFails
  BY <1>1 DEF CreateWritten, CreateFails
<1>2. CASE FinalizeWritten \/ FinalizeFails
  BY <1>2 DEF FinalizeWritten, FinalizeFails
<1>3. CASE PrepareEnds \/ PrepareFails
  BY <1>3 DEF PrepareEnds, PrepareFails
<1>4. CASE CommitWritten \/ CommitFails
  BY <1>4 DEF CommitWritten, CommitFails
<1>5. CASE CommitStarts
  BY <1>5 DEF CommitStarts
<1>. QED
  BY <1>1, <1>2, <1>3, <1>4, <1>5 DEF Continue

\* The thread leaves the artifact of its job where it is.
LEMMA RunArtifact ==
    ASSUME JobInv, Run
    PROVE  ArtifactOutlivesCommit'
<1>. USE NoneAssumption DEF JobInv, TypeOK, OpOK, LeaseOK, WorkerOK, ArtifactOutlivesCommit,
         Live, Recorded, Open, Terminal, Prunable, jobs, memory, Enter, Locked, Begin, Leave,
         SetState, NoOp, NoWorker
<1>1. CASE JobFlashes
  BY <1>1 DEF JobFlashes
<1>2. CASE JobFlashed
  BY <1>2 DEF JobFlashed
<1>3. CASE JobRecords \/ JobCannotRecord
  BY <1>3 DEF JobRecords, JobCannotRecord
<1>4. CASE JobFinishes
  BY <1>4 DEF JobFinishes
<1>5. CASE JobEnds
  BY <1>5 DEF JobEnds
<1>. QED
  BY <1>1, <1>2, <1>3, <1>4, <1>5 DEF Run

\* So does the environment.
LEMMA EnvironmentArtifact ==
    ASSUME JobInv, Environment
    PROVE  ArtifactOutlivesCommit'
<1>. USE NoneAssumption DEF JobInv, TypeOK, OpOK, LeaseOK, WorkerOK, ArtifactOutlivesCommit,
         Live, Recorded, Open, Terminal, Prunable, jobs, memory, Enter, Locked, Begin, Leave,
         SetState, NoOp, NoWorker
<1>1. ASSUME NEW j \in Job, ApprovalExpires(j)
      PROVE  ArtifactOutlivesCommit'
  BY <1>1 DEF ApprovalExpires
<1>2. ASSUME NEW j \in Job, DieInPrune(j)
      PROVE  ArtifactOutlivesCommit'
  BY <1>2 DEF DieInPrune, Forgotten
<1>3. CASE LeaseGranted \/ LeaseEnds \/ LeaseExpires
  BY <1>3 DEF LeaseGranted, LeaseEnds, LeaseExpires, LoopFree
<1>4. CASE Die
  BY <1>4 DEF Die, Forgotten
<1>5. CASE Restart
  BY <1>5 DEF Restart
<1>. QED
  BY <1>1, <1>2, <1>3, <1>4, <1>5 DEF Environment

-----------------------------------------------------------------------------
\* A step of the jobs, or none, keeps their invariant.
LEMMA JobStep ==
    ASSUME JobInv, [Next]_vars
    PROVE  JobInv'
<1>1. CASE UNCHANGED vars
  BY <1>1 DEF vars, jobs, memory, JobInv, TypeOK, OpOK, BareOK, LeaseOK, WorkerOK, FlashOK,
     ArtifactOutlivesCommit, Owns
<1>2. ASSUME NEW j \in Job, RequestTo(j)
      PROVE  JobInv'
  BY <1>2, RequestTyped, RequestOp, RequestLease, RequestWorker, RequestArtifact
     DEF JobInv, OpPart, WorkerPart
<1>3. CASE Continue
  BY <1>3, ContinueTyped, ContinueOp, ContinueLease, ContinueWorker, ContinueArtifact
     DEF JobInv, OpPart, WorkerPart
<1>4. CASE Run
  BY <1>4, RunTyped, RunOp, RunLease, RunWorker, RunArtifact DEF JobInv, OpPart, WorkerPart
<1>5. CASE Environment
  BY <1>5, EnvironmentTyped, EnvironmentOp, EnvironmentLease, EnvironmentWorker,
     EnvironmentArtifact
     DEF JobInv, OpPart, WorkerPart
<1>. QED
  BY <1>1, <1>2, <1>3, <1>4, <1>5 DEF Next, Request, RequestTo

\* JobInv holds of every reachable state of the jobs.
THEOREM JobsInductive == Spec => []JobInv
BY JobInit, JobStep, PTL DEF Spec

-----------------------------------------------------------------------------
(* The contract: Seen is the refinement mapping of HonoursFlashContract.   *)

Seen == [j \in Job |->
    CASE state[j] \in Open \cup {"NEW"} -> "pending"
      [] state[j] = "BARE" ->
           IF op = [kind |-> "create", job |-> j, lease |-> 0] THEN "pending" ELSE "removed"
      [] state[j] = "RUNNING" -> "running"
      [] state[j] = "GONE" -> "removed"
      [] OTHER -> state[j]]

\* create_upload is between its directory and its record.
Creating(j) == op.kind = "create" /\ op.job = j

SeenAs == \A j \in Job :
    /\ state[j] \in Open \cup {"NEW"} => Seen[j] = "pending"
    /\ state[j] = "BARE" => Seen[j] = IF Creating(j) THEN "pending" ELSE "removed"
    /\ state[j] = "RUNNING" => Seen[j] = "running"
    /\ state[j] = "GONE" => Seen[j] = "removed"
    /\ state[j] \in Terminal => Seen[j] = state[j]

\* What an operation under way shows of its job is read off its record.
LEMMA SeenIs == TypeOK /\ OpOK => SeenAs
<1>. SUFFICES ASSUME TypeOK, OpOK, NEW j \in Job
              PROVE  /\ state[j] \in Open \cup {"NEW"} => Seen[j] = "pending"
                     /\ state[j] = "BARE" => Seen[j] = IF Creating(j) THEN "pending" ELSE "removed"
                     /\ state[j] = "RUNNING" => Seen[j] = "running"
                     /\ state[j] = "GONE" => Seen[j] = "removed"
                     /\ state[j] \in Terminal => Seen[j] = state[j]
  BY DEF SeenAs
<1>1. op = [kind |-> "create", job |-> j, lease |-> 0] <=> Creating(j)
  BY DEF TypeOK, OpOK, Creating
<1>. QED
  BY <1>1 DEF Seen, Open, Terminal

\* Outcomes are compared job by job.
LEMMA SeenAgree ==
    /\ (\A k \in Job : Seen'[k] = Seen[k]) => UNCHANGED Seen
    /\ \A j \in Job : \A o : Seen'[j] = o /\ (\A k \in Job \ {j} : Seen'[k] = Seen[k])
                           => Seen' = [Seen EXCEPT ![j] = o]
<1>1. DOMAIN Seen = Job /\ DOMAIN Seen' = Job
  BY DEF Seen
<1>2. Seen = [k \in Job |-> Seen[k]] /\ Seen' = [k \in Job |-> Seen'[k]]
  BY DEF Seen
<1>. QED
  BY <1>1, <1>2

\* What the contract does, in terms of Seen.
ContractStep == Contract!Next \/ UNCHANGED <<Seen, flashes>>

\* A start, a flash and an ending of one job are steps of the contract.
LEMMA ContractSteps ==
    ASSUME NEW j \in Job
    PROVE  /\ Seen[j] = "pending" /\ Seen' = [Seen EXCEPT ![j] = "running"] /\ UNCHANGED flashes
                  => ContractStep
           /\ Seen[j] = "running" /\ flashes[j] = 0 /\ flashes' = [flashes EXCEPT ![j] = 1]
              /\ UNCHANGED Seen => ContractStep
           /\ \A o : Contract!MayEnd(j, o) /\ o \in Contract!Settled
                     /\ Seen' = [Seen EXCEPT ![j] = o] /\ UNCHANGED flashes => ContractStep
BY DEF ContractStep, Contract!Next, Contract!Start, Contract!Flash, Contract!Settle, Seen

\* The removal of any jobs that do not run is a step of the contract.
LEMMA ContractRemoves ==
    ASSUME NEW old, \A k \in old : k \in Job /\ Seen[k] # "running",
           \A k \in Job : Seen'[k] = IF k \in old THEN "removed" ELSE Seen[k], UNCHANGED flashes
    PROVE  ContractStep
<1>1. Seen' = [k \in Job |-> IF k \in old THEN "removed" ELSE Seen[k]]
  BY DEF Seen
<1>2. old \in SUBSET {k \in Job : Seen[k] # "running"}
  OBVIOUS
<1>3. Contract!Remove
  BY <1>1, <1>2 DEF Contract!Remove, Seen
<1>. QED
  BY <1>3 DEF ContractStep, Contract!Next

\* Requests are steps of the contract: they remove, cancel, or are not seen.
LEMMA RequestHonours ==
    ASSUME JobInv, JobInv', SeenAs, SeenAs', NEW j \in Job, RequestTo(j)
    PROVE  ContractStep
<1>. USE NoneAssumption DEF JobInv, TypeOK, OpOK, JobState, Recorded, Open, Terminal, Enter,
         Locked, NoOp, Begin, SetState, SeenAs, Creating
<1>1. CASE CreateUpload(j)
  <2>1. PICK old \in SUBSET Prunable :
            LET kept == [k \in Job |-> IF k \in old THEN "GONE" ELSE state[k]]
            IN  (\A k \in Job : kept[k] # "BARE") /\ state' = [kept EXCEPT ![j] = "BARE"]
    BY <1>1 DEF CreateUpload
  <2>2. \A k \in old : k \in Job /\ Seen[k] # "running"
    BY DEF Prunable
  <2>3. \A k \in Job : Seen'[k] = IF k \in old THEN "removed" ELSE Seen[k]
    <3>1. j \notin old /\ op.kind # "create" /\ op'.kind = "create" /\ op'.job = j
      BY <1>1 DEF CreateUpload, Prunable
    <3>2. \A k \in Job \ {j} :
              state'[k] = (IF k \in old THEN "GONE" ELSE state[k]) /\ state'[k] # "BARE"
      BY <2>1
    <3>3. state[j] = "NEW" /\ state'[j] = "BARE"
      BY <1>1, <2>1 DEF CreateUpload
    <3>. QED
      BY <3>1, <3>2, <3>3
  <2>. QED
    <3>1. UNCHANGED flashes
      BY <1>1 DEF CreateUpload
    <3>. QED
      BY ONLY <2>2, <2>3, <3>1, ContractRemoves, Zenon
<1>2. CASE \/ Upload(j) \/ FinalizeUpload(j) \/ Cleanup(j)
           \/ \E l \in 1..MaxLease : Prepare(j, l) \/ Commit(j, l)
  <2>1. UNCHANGED flashes
    BY <1>2 DEF Upload, FinalizeUpload, Cleanup, Prepare, Commit, jobs
  <2>2. \A k \in Job : Seen'[k] = Seen[k]
    BY <1>2 DEF Upload, FinalizeUpload, Cleanup, Prepare, Commit, jobs, memory
  <2>. QED
    BY <2>1, <2>2, SeenAgree DEF ContractStep
<1>3. CASE Status(j)
  <2>1. /\ UNCHANGED flashes /\ Seen'[j] = "RECOVERY_REQUIRED"
        /\ \A k \in Job \ {j} : Seen'[k] = Seen[k]
    BY <1>3 DEF Status, memory
  <2>2. Contract!MayEnd(j, "RECOVERY_REQUIRED") /\ "RECOVERY_REQUIRED" \in Contract!Settled
    BY <1>3 DEF Status, Orphaned, Contract!MayEnd, Contract!Settled, Seen
  <2>. QED
    BY <2>1, <2>2, SeenAgree, ContractSteps
<1>4. ASSUME NEW l \in 1..MaxLease, Cancel(j, l)
      PROVE  ContractStep
  <2>1. UNCHANGED flashes /\ Seen'[j] = "CANCELLED" /\ \A k \in Job \ {j} : Seen'[k] = Seen[k]
    BY <1>4 DEF Cancel
  <2>2. Contract!MayEnd(j, "CANCELLED") /\ "CANCELLED" \in Contract!Settled
    BY <1>4 DEF Cancel, Contract!MayEnd, Contract!Settled, Seen
  <2>. QED
    BY <2>1, <2>2, SeenAgree, ContractSteps
<1>. QED
  BY <1>1, <1>2, <1>3, <1>4 DEF RequestTo

\* The write of RUNNING is a start, and a failed creation a removal.
LEMMA ContinueHonours ==
    ASSUME JobInv, JobInv', SeenAs, SeenAs', Continue
    PROVE  ContractStep
<1>. USE NoneAssumption DEF JobInv, TypeOK, OpOK, FlashOK, JobState, Recorded, Open, Terminal,
         NoOp,
         Begin, Leave, SetState, SeenAs, Creating
<1>1. UNCHANGED flashes
  BY DEF Continue, CreateWritten, CreateFails, FinalizeWritten, FinalizeFails, PrepareEnds,
     PrepareFails, CommitWritten, CommitFails, CommitStarts
<1>2. CASE CreateWritten \/ FinalizeWritten \/ FinalizeFails \/ PrepareEnds \/ PrepareFails
           \/ CommitFails \/ CommitStarts
  <2>1. \A k \in Job : Seen'[k] = Seen[k]
    BY <1>2 DEF CreateWritten, FinalizeWritten, FinalizeFails, PrepareEnds, PrepareFails,
       CommitFails,
       CommitStarts, jobs
  <2>. QED
    BY <1>1, <2>1, SeenAgree DEF ContractStep
<1>3. CASE CreateFails
  <2>1. op.job \in Job /\ Seen[op.job] = "pending"
    BY <1>3 DEF CreateFails
  <2>2. \A k \in Job : Seen'[k] = IF k \in {op.job} THEN "removed" ELSE Seen[k]
    BY <1>3 DEF CreateFails
  <2>. DEFINE old == {op.job}
  <2>3. /\ \A k \in old : k \in Job /\ Seen[k] # "running"
        /\ \A k \in Job : Seen'[k] = IF k \in old THEN "removed" ELSE Seen[k]
    BY <2>1, <2>2
  <2>. HIDE DEF old
  <2>. QED
    BY ONLY <1>1, <2>3, ContractRemoves, Zenon
<1>4. CASE CommitWritten
  <2>1. op.job \in Job /\ Seen[op.job] = "pending" /\ Seen'[op.job] = "running"
    BY <1>4 DEF CommitWritten
  <2>2. \A k \in Job \ {op.job} : Seen'[k] = Seen[k]
    BY <1>4 DEF CommitWritten
  <2>. QED
    BY <1>1, <2>1, <2>2, SeenAgree, ContractSteps
<1>. QED
  BY <1>2, <1>3, <1>4 DEF Continue

\* The thread flashes once, and records a success only of a board that it changed.
LEMMA RunHonours ==
    ASSUME JobInv, JobInv', SeenAs, SeenAs', Run
    PROVE  ContractStep
<1>. USE NoneAssumption DEF JobInv, TypeOK, OpOK, WorkerOK, FlashOK, JobState, Recorded, Open,
         Terminal,
         NoOp, Enter, Locked, SetState, SeenAs, Creating, jobs
<1>1. CASE JobFlashes
  <2>1. UNCHANGED Seen
    BY <1>1, SeenAgree DEF JobFlashes
  <2>2. worker.job \in Job /\ Seen[worker.job] = "running" /\ flashes[worker.job] = 0
    BY <1>1 DEF JobFlashes
  <2>3. UNCHANGED flashes \/ flashes' = [flashes EXCEPT ![worker.job] = @ + 1]
    BY <1>1 DEF JobFlashes
  <2>4. UNCHANGED flashes \/ flashes' = [flashes EXCEPT ![worker.job] = 1]
    BY <2>2, <2>3
  <2>. QED
    BY <2>1, <2>2, <2>4, ContractSteps DEF ContractStep
<1>2. CASE JobFlashed \/ JobCannotRecord \/ JobFinishes \/ JobEnds
  <2>1. UNCHANGED <<state, op, flashes>>
    BY <1>2 DEF JobFlashed, JobCannotRecord, JobFinishes, JobEnds
  <2>2. \A k \in Job : Seen'[k] = Seen[k]
    BY <2>1
  <2>. QED
    BY <2>1, <2>2, SeenAgree DEF ContractStep
<1>3. CASE JobRecords
  <2>1. worker.job \in Job /\ Seen[worker.job] = "running"
    BY <1>3 DEF JobRecords
  <2>2. PICK o \in {"SUCCEEDED", "FAILED"} :
            /\ state' = [state EXCEPT ![worker.job] = o]
            /\ o = "SUCCEEDED" => flashes[worker.job] = 1
    BY <1>3 DEF JobRecords
  <2>3. Seen'[worker.job] = o /\ \A k \in Job \ {worker.job} : Seen'[k] = Seen[k]
    BY <1>3, <2>1, <2>2 DEF JobRecords
  <2>4. Contract!MayEnd(worker.job, o) /\ o \in Contract!Settled
    BY <2>1, <2>2 DEF Contract!MayEnd, Contract!Settled, Seen
  <2>5. UNCHANGED flashes
    BY <1>3 DEF JobRecords
  <2>. QED
    BY <2>1, <2>3, <2>4, <2>5, SeenAgree, ContractSteps
<1>. QED
  BY <1>1, <1>2, <1>3 DEF Run

\* A death in the middle of a creation or a removal is a removal.
LEMMA EnvironmentHonours ==
    ASSUME JobInv, JobInv', SeenAs, SeenAs', Environment
    PROVE  ContractStep
<1>. USE NoneAssumption DEF JobInv, TypeOK, OpOK, JobState, Recorded, Open, Terminal, NoOp,
         Enter, Locked,
         SetState, SeenAs, Creating
<1>1. UNCHANGED flashes
  BY DEF Environment, ApprovalExpires, DieInPrune, LeaseGranted, LeaseEnds, LeaseExpires, Die, Restart
<1>2. CASE LeaseGranted \/ LeaseEnds \/ LeaseExpires \/ Restart \/ \E j \in Job : ApprovalExpires(j)
  <2>1. UNCHANGED <<state, op>>
    BY <1>2 DEF LeaseGranted, LeaseEnds, LeaseExpires, Restart, ApprovalExpires, jobs, memory
  <2>2. \A k \in Job : Seen'[k] = Seen[k]
    BY <2>1
  <2>. QED
    BY <1>1, <2>2, SeenAgree DEF ContractStep
<1>3. CASE Die
  <2>1. op'.kind = "none" /\ UNCHANGED state
    BY <1>3 DEF Die, Forgotten, jobs
  <2>. DEFINE old == {x \in Job : Creating(x)}
  <2>2. \A k \in old : k \in Job /\ Seen[k] # "running"
    OBVIOUS
  <2>3. \A k \in Job : Seen'[k] = IF k \in old THEN "removed" ELSE Seen[k]
    BY <2>1
  <2>. HIDE DEF old
  <2>. QED
    BY ONLY <1>1, <2>2, <2>3, ContractRemoves, Zenon
<1>4. ASSUME NEW j \in Job, DieInPrune(j)
      PROVE  ContractStep
  <2>1. op.kind = "none" /\ op'.kind = "none" /\ state' = [state EXCEPT ![j] = "BARE"]
    BY <1>4 DEF DieInPrune, Forgotten
  <2>2. Seen[j] # "running"
    BY <1>4 DEF DieInPrune, Prunable
  <2>. DEFINE old == {j}
  <2>3. /\ \A k \in old : k \in Job /\ Seen[k] # "running"
        /\ \A k \in Job : Seen'[k] = IF k \in old THEN "removed" ELSE Seen[k]
    BY <2>1, <2>2
  <2>. HIDE DEF old
  <2>. QED
    BY ONLY <1>1, <2>3, ContractRemoves, Zenon
<1>. QED
  BY <1>2, <1>3, <1>4 DEF Environment

\* The jobs implement the contract: the board is changed at most once for a job, after its
\* confirmation, and an outcome is final.
THEOREM JobsHonourContract == Spec => HonoursFlashContract
<1>1. Init => Contract!Init
  BY DEF Init, Contract!Init, Open
<1>2. JobInv => SeenAs
  BY SeenIs DEF JobInv
<1>3. JobInv /\ JobInv' /\ [Next]_vars => [Contract!Next]_<<Seen, flashes>>
  <2>1. JobInv' => SeenAs'
    BY <1>2, PTL
  <2>2. ASSUME JobInv, JobInv', Next
        PROVE  ContractStep
    BY <1>2, <2>1, <2>2, RequestHonours, ContinueHonours, RunHonours, EnvironmentHonours
       DEF Next, Request, RequestTo
  <2>3. UNCHANGED vars => UNCHANGED <<Seen, flashes>>
    BY DEF vars, jobs, memory, Seen
  <2>. QED
    BY <2>2, <2>3 DEF ContractStep
<1>. QED
  BY <1>1, <1>3, JobsInductive, PTL DEF Spec, HonoursFlashContract, Contract!Spec, Seen

-----------------------------------------------------------------------------
(* The client.                                                             *)

\* The steps of the jobs that do not commit Mine.
QuietStep ==
    \/ \E j \in Job \ {Mine} : RequestTo(j)
    \/ CreateUpload(Mine) \/ Upload(Mine) \/ FinalizeUpload(Mine) \/ Cleanup(Mine) \/ Status(Mine)
    \/ \E l \in 1..MaxLease : Prepare(Mine, l) \/ Cancel(Mine, l)
    \/ Continue \/ Run \/ Environment

\* A client with a lease does to the jobs what Next allows.
LEMMA ClientImplements ==
    ASSUME ClientInv, [ClientNext]_allVars
    PROVE  /\ [Next]_vars
           /\ QuietStep \/ ServeCommit \/ UNCHANGED vars
<1>1. CASE UNCHANGED allVars
  BY <1>1 DEF allVars
<1>2. CASE Client
  <2>1. CASE Acquire
    BY <2>1 DEF Acquire, QuietStep, Next, Environment
  <2>2. CASE Preparation
    <3>1. grant \in 1..MaxLease
      BY <2>2 DEF ClientInv, Preparation
    <3>. QED
      BY <2>2, <3>1, MineAssumption DEF Preparation, QuietStep, Next, Request
  <2>3. CASE Withdrawn
    <3>1. grant \in 1..MaxLease
      BY <2>3 DEF ClientInv, Withdrawn, Exits, At
    <3>. QED
      BY <2>3, <3>1, MineAssumption DEF Withdrawn, QuietStep, Next, Request
  <2>4. CASE ServeCommit
    <3>1. grant \in 1..MaxLease
      BY <2>4 DEF ClientInv, ClientTypeOK, ServeCommit
    <3>. QED
      BY <2>4, <3>1, MineAssumption DEF ServeCommit, Next, Request
  <2>5. CASE CommitAnswer \/ OutcomeKnown \/ OutcomeUnknown \/ PollEnds
    <3>1. Status(Mine) \/ UNCHANGED vars
      BY <2>5 DEF CommitAnswer, OutcomeKnown, OutcomeUnknown, PollEnds, Asks
    <3>. QED
      BY <3>1, MineAssumption DEF QuietStep, Next, Request
  <2>6. CASE \/ PreparedAnswer \/ NotWithdrawn \/ SendCommit \/ DropCommit \/ CommitAmbiguous
             \/ PollGivesUp \/ Fails("start") \/ Fails("prepared")
             \/ Withdraw("prepared", "0") \/ Withdraw("prepared", "nonzero")
             \/ Withdraw("preparing", "nonzero")
    BY <2>6 DEF PreparedAnswer, NotWithdrawn, SendCommit, DropCommit, CommitAmbiguous,
       PollGivesUp, Fails, Withdraw
  <2>. QED
    BY <1>2, <2>1, <2>2, <2>3, <2>4, <2>5, <2>6 DEF Client
<1>3. CASE Others
  BY <1>3 DEF Others, QuietStep, RequestTo, Next, Request, Environment
<1>4. CASE Gateway
  BY <1>4 DEF Gateway, QuietStep, Next, Environment
<1>. QED
  BY <1>1, <1>2, <1>3, <1>4 DEF ClientNext

\* A request concerns its own job, and old ones that it removes.
LEMMA RequestEffect ==
    ASSUME JobInv, NEW k \in Job, RequestTo(k)
    PROVE  /\ (op = NoOp /\ (op' = NoOp \/ op'.job = k)) \/ UNCHANGED op
           /\ UNCHANGED <<worker, flashes>>
           /\ \A j \in Job \ {k} : state'[j] \in {state[j], "GONE"}
<1>. USE DEF JobInv, TypeOK, Enter, Locked, jobs, memory, Begin, Leave, SetState
<1>1. CASE CreateUpload(k)
  <2>1. PICK old \in SUBSET Prunable :
            state' = [[x \in Job |-> IF x \in old THEN "GONE" ELSE state[x]] EXCEPT ![k] = "BARE"]
    BY <1>1 DEF CreateUpload
  <2>2. \A j \in Job \ {k} : state'[j] \in {state[j], "GONE"}
    BY <2>1
  <2>. QED
    BY <1>1, <2>2 DEF CreateUpload
<1>2. CASE Upload(k) \/ FinalizeUpload(k) \/ Cleanup(k) \/ Status(k)
  BY <1>2 DEF Upload, FinalizeUpload, Cleanup, Status
<1>3. ASSUME NEW l \in 1..MaxLease, Prepare(k, l) \/ Commit(k, l) \/ Cancel(k, l)
      PROVE  /\ (op = NoOp /\ (op' = NoOp \/ op'.job = k)) \/ UNCHANGED op
             /\ UNCHANGED <<worker, flashes>>
             /\ \A j \in Job \ {k} : state'[j] \in {state[j], "GONE"}
  BY <1>3 DEF Prepare, Commit, Cancel
<1>. QED
  BY <1>1, <1>2, <1>3 DEF RequestTo

\* An outcome is final, but for the removal of the job.
LEMMA OutcomeStays ==
    ASSUME JobInv, NEW j \in Job, op = NoOp \/ op.job # j,
           state[j] \in Terminal \cup Removed, [Next]_vars
    PROVE  state'[j] \in {state[j]} \cup Removed /\ (op' = NoOp \/ op'.job # j)
<1>. USE DEF JobInv, TypeOK, OpOK, WorkerOK, Removed, Terminal, Open, jobs, memory, Begin, Leave,
         SetState
<1>1. CASE UNCHANGED vars
  BY <1>1 DEF vars
<1>2. ASSUME NEW k \in Job, RequestTo(k)
      PROVE  state'[j] \in {state[j]} \cup Removed /\ (op' = NoOp \/ op'.job # j)
  <2>1. CASE k # j
    BY <1>2, <2>1, RequestEffect
  <2>2. CASE k = j
    BY <1>2, <2>2 DEF RequestTo, CreateUpload, Upload, FinalizeUpload, Cleanup, Status, Orphaned,
       Prepare, Commit, Cancel
  <2>. QED
    BY <2>1, <2>2
<1>3. CASE Continue
  BY <1>3 DEF Continue, CreateWritten, CreateFails, FinalizeWritten, FinalizeFails, PrepareEnds,
     PrepareFails, CommitWritten, CommitFails, CommitStarts, NoOp
<1>4. CASE Run
  BY <1>4 DEF Run, JobFlashes, JobFlashed, JobRecords, JobCannotRecord, JobFinishes, JobEnds
<1>5. CASE Environment
  BY <1>5 DEF Environment, ApprovalExpires, DieInPrune, Forgotten, LeaseGranted, LeaseEnds, LeaseExpires, Die,
     Restart
<1>. QED
  BY <1>1, <1>2, <1>3, <1>4, <1>5 DEF Next, Request, RequestTo

\* Without a commit the job of this client does not start.
LEMMA UncommittedStays ==
    ASSUME JobInv, Uncommitted, ~sent', QuietStep \/ UNCHANGED vars
    PROVE  Uncommitted'
<1>. USE MineAssumption, NoneAssumption
     DEF JobInv, TypeOK, OpOK, WorkerOK, Uncommitted, Terminal, Open, jobs, memory, Begin,
         Leave, SetState, Prunable, Recorded
<1>1. CASE UNCHANGED vars
  BY <1>1 DEF vars
<1>2. ASSUME NEW k \in Job \ {Mine}, RequestTo(k)
      PROVE  Uncommitted'
  <2>1. k # Mine /\ k \in Job
    OBVIOUS
  <2>2. state'[Mine] \in {state[Mine], "GONE"} /\ UNCHANGED <<worker, flashes>>
    BY <1>2, <2>1, RequestEffect
  <2>3. ~(op'.kind \in {"commit", "adopt"} /\ op'.job = Mine)
    BY <1>2, <2>1, RequestEffect DEF NoOp
  <2>. QED
    BY <2>2, <2>3
<1>3. CASE CreateUpload(Mine) \/ Upload(Mine) \/ FinalizeUpload(Mine) \/ Cleanup(Mine)
           \/ Status(Mine)
  <2>1. UNCHANGED <<worker, flashes>> /\ (op'.kind \notin {"commit", "adopt"} \/ UNCHANGED op)
    BY <1>3 DEF CreateUpload, Upload, FinalizeUpload, Cleanup, Status
  <2>2. state'[Mine] \in {state[Mine], "BARE", "RECOVERY_REQUIRED"}
    BY <1>3 DEF CreateUpload, Upload, FinalizeUpload, Cleanup, Status
  <2>. QED
    BY <2>1, <2>2
<1>4. ASSUME NEW l \in 1..MaxLease, Prepare(Mine, l) \/ Cancel(Mine, l)
      PROVE  Uncommitted'
  BY <1>4 DEF Prepare, Cancel
<1>5. CASE Continue
  BY <1>5 DEF Continue, CreateWritten, CreateFails, FinalizeWritten, FinalizeFails, PrepareEnds,
     PrepareFails, CommitWritten, CommitFails, CommitStarts, NoOp
<1>6. CASE Run
  <2>1. worker.at # "none" => worker.job \in Job \ {Mine}
    OBVIOUS
  <2>2. UNCHANGED op /\ worker'.job \in {worker.job, None}
    <3>1. CASE JobFlashes \/ JobFlashed
      BY <3>1 DEF JobFlashes, JobFlashed
    <3>2. CASE JobRecords \/ JobCannotRecord \/ JobFinishes
      BY <3>2 DEF JobRecords, JobCannotRecord, JobFinishes
    <3>3. CASE JobEnds
      BY <3>3 DEF JobEnds, NoWorker
    <3>. QED
      BY <1>6, <3>1, <3>2, <3>3 DEF Run
  <2>3. state'[Mine] = state[Mine] /\ flashes'[Mine] = flashes[Mine]
    BY <1>6, <2>1 DEF Run, JobFlashes, JobFlashed, JobRecords, JobCannotRecord, JobFinishes,
       JobEnds
  <2>. QED
    BY <2>2, <2>3
<1>7. CASE Environment
  BY <1>7 DEF Environment, ApprovalExpires, DieInPrune, Forgotten, LeaseGranted, LeaseEnds, LeaseExpires, Die,
     Restart, NoOp, NoWorker
<1>. QED
  BY <1>1, <1>2, <1>3, <1>4, <1>5, <1>6, <1>7 DEF QuietStep

\* The client is where its program has led it.
LEMMA ClientTyped ==
    ASSUME JobInv, JobInv', ClientInv, ClientNext
    PROVE  /\ ClientTypeOK'
           /\ (committed \/ cli \notin {"start", "exited"} => grant \in 1..MaxLease)'
           /\ (cli \notin {"withdrawing", "exited"} => code = "none")'
           /\ (cli = "withdrawing" => code \in {"0", "nonzero"})'
           /\ (cli # "exited" => told = "none")'
           /\ (cli \in {"committing", "asking", "polling"} => committed)'
           /\ (code = "0" /\ told # "ok" => ~committed)'
<1>. USE DEF ClientInv, ClientTypeOK, Places, client, At, Exits
<1>1. TypeOK'
  BY DEF JobInv
<1>2. CASE Client
  <2>1. CASE Acquire
    <3>1. grant' \in 1..MaxLease
      BY <2>1, BoundAssumption DEF Acquire, LeaseGranted, JobInv, TypeOK
    <3>. QED
      BY <1>1, <2>1, <3>1 DEF Acquire
  <2>2. CASE Preparation
    BY <1>1, <2>2 DEF Preparation
  <2>3. CASE PreparedAnswer \/ CommitAmbiguous
    BY <1>1, <2>3 DEF PreparedAnswer, CommitAmbiguous
  <2>4. CASE SendCommit
    <3>1. sent' \in BOOLEAN /\ committed' \in BOOLEAN
      BY <2>4 DEF SendCommit
    <3>. QED
      BY <1>1, <2>4, <3>1 DEF SendCommit
  <2>5. CASE Withdrawn \/ NotWithdrawn
    BY <1>1, <2>5 DEF Withdrawn, NotWithdrawn
  <2>6. CASE ServeCommit \/ DropCommit
    BY <1>1, <2>6 DEF ServeCommit, DropCommit
  <2>7. CASE CommitAnswer \/ OutcomeKnown
    BY <1>1, <2>7 DEF CommitAnswer, OutcomeKnown
  <2>8. CASE OutcomeUnknown \/ PollGivesUp \/ Fails("start") \/ Fails("prepared")
    BY <1>1, <2>8 DEF OutcomeUnknown, PollGivesUp, Fails
  <2>9. CASE \/ Withdraw("prepared", "0") \/ Withdraw("prepared", "nonzero")
             \/ Withdraw("preparing", "nonzero")
    BY <1>1, <2>9 DEF Withdraw
  <2>10. CASE PollEnds
    <3>1. cli = "polling" /\ cli' = "exited" /\ UNCHANGED <<grant, sent, committed>>
      BY <2>10 DEF PollEnds
    <3>2. /\ told' \in {"none", "ok", "error"} /\ code' \in {"0", "nonzero"}
          /\ code' = "0" => told' = "ok"
      BY <2>10 DEF PollEnds
    <3>3. committed
      BY <3>1
    <3>. QED
      BY <1>1, <3>1, <3>2, <3>3
  <2>. QED
    BY ONLY <1>2, <2>1, <2>2, <2>3, <2>4, <2>5, <2>6, <2>7, <2>8, <2>9, <2>10 DEF Client
<1>3. CASE UNCHANGED client
  BY <1>1, <1>3
<1>. QED
  BY <1>2, <1>3 DEF ClientNext

\* Until it sends its commit, and for ever when it left before, no job of this client starts.
LEMMA ClientUncommitted ==
    ASSUME JobInv, ClientInv, ClientNext, ~committed'
    PROVE  Uncommitted'
<1>1. ~committed /\ ~sent'
  <2>. USE DEF ClientInv, ClientTypeOK, Uncommitted, client, At, Exits
  <2>1. CASE UNCHANGED client
    BY <2>1
  <2>2. CASE Acquire \/ Preparation \/ PreparedAnswer \/ SendCommit \/ CommitAmbiguous
    BY <2>2 DEF Acquire, Preparation, PreparedAnswer, SendCommit, CommitAmbiguous
  <2>3. CASE Withdrawn \/ NotWithdrawn \/ Fails("start") \/ Fails("prepared")
    BY <2>3 DEF Withdrawn, NotWithdrawn, Fails
  <2>4. CASE ServeCommit \/ DropCommit \/ CommitAnswer \/ OutcomeKnown
    BY <2>4 DEF ServeCommit, DropCommit, CommitAnswer, OutcomeKnown
  <2>5. CASE OutcomeUnknown \/ PollEnds \/ PollGivesUp
    BY <2>5 DEF OutcomeUnknown, PollEnds, PollGivesUp
  <2>6. CASE \/ Withdraw("prepared", "0") \/ Withdraw("prepared", "nonzero")
             \/ Withdraw("preparing", "nonzero")
    BY <2>6 DEF Withdraw
  <2>. QED
    BY <2>1, <2>2, <2>3, <2>4, <2>5, <2>6 DEF ClientNext, Client
<1>2. Uncommitted /\ ~ServeCommit
  BY <1>1 DEF ClientInv, Uncommitted, ServeCommit
<1>3. QuietStep \/ UNCHANGED vars
  BY <1>2, ClientImplements
<1>. QED
  BY <1>1, <1>2, <1>3, UncommittedStays

\* What the client has said of its job: told before its exit code.
Claim(t) == \/ state[Mine] \in Removed
            \/ t = "ok" /\ state[Mine] = "SUCCEEDED"
            \/ t = "error" /\ state[Mine] \in Terminal \ {"SUCCEEDED"}
            \/ t = "none" /\ ~committed /\ state[Mine] = "CANCELLED"

\* What it has said is so when the client exits, and stays so.
LEMMA ClientExits ==
    ASSUME JobInv, JobInv', ClientInv, ClientNext, Finished'
    PROVE  Claim(told)' /\ (op = NoOp \/ op.job # Mine)'
<1>. USE DEF ClientInv, Finished, Claim
<1>1. ASSUME Finished, UNCHANGED <<told, committed>>
      PROVE  Claim(told)' /\ (op = NoOp \/ op.job # Mine)'
  <2>1. told \in {"none", "ok", "error"} /\ Claim(told)
    BY <1>1 DEF ToldOutcomeStaysTrue, NeverRan, ClientTypeOK
  <2>2. state[Mine] \in Terminal \cup Removed
    BY <2>1 DEF Terminal
  <2>3. state'[Mine] \in {state[Mine]} \cup Removed /\ (op' = NoOp \/ op'.job # Mine)
    BY <1>1, <2>2, OutcomeStays, ClientImplements, MineAssumption
  <2>. QED
    BY <1>1, <2>1, <2>3
<1>2. CASE Withdrawn
  <2>1. state'[Mine] = "CANCELLED" /\ op' = NoOp
    BY <1>2, MineAssumption DEF Withdrawn, Cancel, Enter, Locked, SetState, JobInv, TypeOK
  <2>2. told' = "none" /\ ~committed'
    BY <1>2 DEF Withdrawn, Exits, At, ClientTypeOK
  <2>. QED
    BY <2>1, <2>2
<1>3. CASE PollEnds
  <2>1. op' = NoOp /\ state'[Mine] = Reported /\ Reported \in Terminal
    BY <1>3, MineAssumption DEF PollEnds, Asks, Reported, Status, Enter, Locked, SetState,
       JobInv, TypeOK, vars, jobs, memory
  <2>2. told' \in {IF Reported = "SUCCEEDED" THEN "ok" ELSE "error", "none"}
    BY <1>3 DEF PollEnds
  <2>3. told' # "none"
    BY <1>3, <2>2 DEF PollEnds, Exits
  <2>. QED
    BY <2>1, <2>2, <2>3
<1>4. CASE NotWithdrawn \/ OutcomeUnknown \/ PollGivesUp \/ Fails("start") \/ Fails("prepared")
  BY <1>4 DEF NotWithdrawn, OutcomeUnknown, PollGivesUp, Fails, Exits, At
<1>5. CASE UNCHANGED client \/ ServeCommit \/ DropCommit
  BY <1>1, <1>5 DEF client, ServeCommit, DropCommit
<1>6. CASE \/ Acquire \/ Preparation \/ PreparedAnswer \/ SendCommit \/ CommitAnswer \/ CommitAmbiguous
           \/ OutcomeKnown \/ Withdraw("prepared", "0") \/ Withdraw("prepared", "nonzero")
           \/ Withdraw("preparing", "nonzero")
  BY <1>6, <1>5 DEF Acquire, Preparation, PreparedAnswer, SendCommit, CommitAnswer,
     CommitAmbiguous,
     OutcomeKnown, Withdraw, At, client
<1>. QED
  BY <1>2, <1>3, <1>4, <1>5, <1>6 DEF ClientNext, Client

\* A step of the client and its Gateway, or none, keeps both invariants.
LEMMA ClientStep ==
    ASSUME JobInv, ClientInv, [ClientNext]_allVars
    PROVE  JobInv' /\ ClientInv'
<1>1. JobInv'
  BY ClientImplements, JobStep
<1>2. CASE UNCHANGED allVars
  BY <1>1, <1>2 DEF allVars, client, vars, jobs, memory, ClientInv, ClientTypeOK, Uncommitted,
     Finished, ToldOutcomeStaysTrue, NeverRan, JobInv
<1>3. CASE ClientNext
  <2>1. Finished' => ToldOutcomeStaysTrue'
    <3>. SUFFICES ASSUME Finished' PROVE ToldOutcomeStaysTrue'
      OBVIOUS
    <3>1. Claim(told)'
      BY <1>3, <1>1, ClientExits
    <3>2. (state[Mine] = "CANCELLED" => flashes[Mine] = 0)'
      BY <1>1, MineAssumption DEF JobInv, FlashOK
    <3>3. (code = "0" /\ told # "ok" => ~committed)' /\ ClientTypeOK'
      BY <1>1, <1>3, ClientTyped
    <3>. QED
      BY <3>1, <3>2, <3>3 DEF Claim, ToldOutcomeStaysTrue, NeverRan, ClientTypeOK, Terminal
  <2>2. ToldOutcomeStaysTrue'
    BY <1>1, <1>3, <2>1, ClientTyped DEF Finished, ToldOutcomeStaysTrue
  <2>3. (~committed => Uncommitted)'
    BY <1>1, <1>3, ClientUncommitted
  <2>4. (Finished => op = NoOp \/ op.job # Mine)'
    BY <1>1, <1>3, ClientExits
  <2>. QED
    BY <1>1, <1>3, <2>2, <2>3, <2>4, ClientTyped DEF ClientInv
<1>. QED
  BY <1>1, <1>2, <1>3

-----------------------------------------------------------------------------
(* The theorems on the client, and on the jobs beside it.                  *)

\* The client begins before its request, at a Gateway without jobs.
LEMMA ClientInitInv == ClientInit => JobInv /\ ClientInv
<1>. SUFFICES ASSUME ClientInit PROVE JobInv /\ ClientInv
  OBVIOUS
<1>1. JobInv
  BY JobInit DEF ClientInit
<1>2. ClientTypeOK
  <2>1. sent \in BOOLEAN /\ ~sent /\ committed \in BOOLEAN /\ ~committed
    BY DEF ClientInit
  <2>2. cli \in Places /\ grant \in 0..MaxLease
    BY BoundAssumption DEF ClientInit, Places
  <2>. QED
    BY <1>1, <2>1, <2>2 DEF ClientInit, JobInv, ClientTypeOK
<1>3. Uncommitted
  BY MineAssumption, NoneAssumption DEF ClientInit, Init, Uncommitted, NoOp, NoWorker
<1>. QED
  BY <1>1, <1>2, <1>3 DEF ClientInit, ClientInv, Finished, ToldOutcomeStaysTrue

\* Both invariants hold of every reachable state of a client and its Gateway.
THEOREM ClientInductive == ClientSpec => [](JobInv /\ ClientInv)
BY ClientInitInv, ClientStep, PTL DEF ClientSpec

\* run_remote_flash and its Gateway do nothing that the jobs do not allow to clients in
\* general: what is proved of the jobs holds beside this client.
THEOREM ClientIsSafe == ClientSpec => Spec
<1>1. ClientInit => Init
  BY DEF ClientInit
<1>2. JobInv /\ ClientInv /\ [ClientNext]_allVars => [Next]_vars
  BY ClientImplements
<1>. QED
  BY <1>1, <1>2, ClientInductive, PTL DEF ClientSpec, Spec

\* Every variable has its type, and a commit waits at the Gateway only after it was sent.
THEOREM ClientTypeCorrect == ClientSpec => []ClientTypeOK
<1>1. ClientInv => ClientTypeOK
  BY DEF ClientInv
<1>. QED
  BY <1>1, ClientInductive, PTL

\* A lease counts as adopted as long as the thread that adopted it is there to give it
\* back, and no longer.
THEOREM AdoptionEndsWithJob == Spec => []AdoptedLeaseHasItsJob
<1>1. JobInv => AdoptedLeaseHasItsJob
  BY DEF JobInv, LeaseOK, Live, AdoptedLeaseHasItsJob
<1>. QED
  BY <1>1, JobsInductive, PTL

\* adopt_flash_job, which comes after RUNNING is written, finds the lease free to adopt.
THEOREM AdoptionSucceeds == Spec => []AdoptionIsNeverRefused
<1>1. JobInv => AdoptionIsNeverRefused
  BY DEF JobInv, LeaseOK, Live, AdoptionIsNeverRefused
<1>. QED
  BY <1>1, JobsInductive, PTL

\* From the commit to the flash, nothing removes the staged artifact.
THEOREM ArtifactIsThere == Spec => []ArtifactOutlivesCommit
<1>1. JobInv => ArtifactOutlivesCommit
  BY DEF JobInv
<1>. QED
  BY <1>1, JobsInductive, PTL

\* Without a death, no upload leaves a directory without job.json behind.
THEOREM NothingIsLeft == Spec => []FailedUploadLeavesNothing
<1>1. JobInv => FailedUploadLeavesNothing
  BY DEF JobInv, BareOK, FailedUploadLeavesNothing
<1>. QED
  BY <1>1, JobsInductive, PTL

\* The result that the client has printed, and exit code 0, stay true of its job, whatever
\* the Gateway does later.
THEOREM ToldOutcomeIsTrue == ClientSpec => []ToldOutcomeStaysTrue
<1>1. ClientInv => ToldOutcomeStaysTrue
  BY DEF ClientInv
<1>. QED
  BY <1>1, ClientInductive, PTL

\* A client that left before it confirmed leaves no job that changes the board.
THEOREM OnlyConfirmed == ClientSpec => []OnlyConfirmedJobsFlash
<1>1. ClientInv => OnlyConfirmedJobsFlash
  BY DEF ClientInv, Uncommitted, OnlyConfirmedJobsFlash
<1>. QED
  BY <1>1, ClientInductive, PTL

\* And so they do beside this client.
THEOREM ClientHonoursContract == ClientSpec => HonoursFlashContract
BY ClientIsSafe, JobsHonourContract

=============================================================================
