---------------------------- MODULE RemoteFlash ----------------------------
(***************************************************************************)
(* `b300-stlink flash --gateway` (run_remote_flash) against the jobs of    *)
(* the Gateway: one client that leads its job Mine from the upload to an   *)
(* exit code, beside other clients with jobs of their own.                 *)
(*                                                                         *)
(* Any answer can get lost.  A request that was sent can be served after   *)
(* the client has stopped waiting for it; the commit is the one for which  *)
(* that matters, so it is a message of its own.                            *)
(***************************************************************************)
EXTENDS ProgramJobs

CONSTANT Mine   \* the request for the job of this client

ASSUME MineAssumption == Mine \in Job

VARIABLES
    cli,        \* where run_remote_flash is
    grant,      \* the number of its lease
    sent,       \* its commit request waits at the Gateway
    committed,  \* committed_job_id is set
    told,       \* the terminal result it has printed: "ok", "error", or "none"
    code        \* its exit code: "0", or "nonzero" for 1 (a result, but also
                \* any exception), 2 (outcome unknown) and 130 (Ctrl+C)

client == <<cli, grant, sent, committed, told, code>>
allVars == <<vars, client>>

Places == {"start", "preparing", "prepared", "withdrawing", "committing",
           "asking", "polling", "exited"}

ClientTypeOK ==
    /\ TypeOK /\ cli \in Places /\ grant \in 0..MaxLease
    /\ sent \in BOOLEAN /\ committed \in BOOLEAN
    /\ told \in {"none", "ok", "error"} /\ code \in {"none", "0", "nonzero"}
    /\ sent \/ told # "none" => committed
    /\ committed => cli \in {"committing", "asking", "polling", "exited"}

ClientInit ==
    /\ Init /\ cli = "start" /\ grant = 0
    /\ sent = FALSE /\ committed = FALSE /\ told = "none" /\ code = "none"

At(p, q) == cli = p /\ cli' = q

\* An exit with code c, unless send(), the finally block or Ctrl+C raises on
\* the way out: main() makes exit code 1 of an exception, whatever has become
\* of the job.  The exit closes the lease, and a terminal result is followed by
\* a cleanup of the job, if they succeed; both are steps of Others.
Exits(p, c) ==
    /\ At(p, "exited") /\ code' \in {c, "nonzero"}
    /\ UNCHANGED <<grant, sent, committed>>

\* GatewayLeaseClient.start.
Acquire ==
    /\ At("start", "preparing") /\ LeaseGranted /\ grant' = lease'.id
    /\ UNCHANGED <<sent, committed, told, code>>

\* No connection or no lease, or the plan cannot be printed: nothing is
\* cancelled.
Fails(p) == Exits(p, "nonzero") /\ UNCHANGED told /\ UNCHANGED vars

\* prepare_remote_application: create, upload, finalize and prepare, each
\* repeated at most once with the same request, which the jobs do not notice.
Preparation ==
    /\ cli = "preparing" /\ UNCHANGED client
    /\ \/ CreateUpload(Mine) \/ Upload(Mine) \/ FinalizeUpload(Mine)
       \/ Prepare(Mine, grant)

PreparedAnswer ==
    /\ At("preparing", "prepared") /\ Enter
    /\ state[Mine] = "AWAITING_CONFIRMATION" /\ approvals[Mine] # None
    /\ UNCHANGED <<grant, sent, committed, told, code>> /\ UNCHANGED vars

\* A failure of the preparation, a dry run or Ctrl+C: the job is cancelled, if
\* the Gateway can be reached.  Only a dry run depends on the answer.
Withdraw(from, why) ==
    /\ At(from, "withdrawing") /\ code' = why
    /\ UNCHANGED <<grant, sent, committed, told>> /\ UNCHANGED vars

Withdrawn ==
    Exits("withdrawing", code) /\ Cancel(Mine, grant) /\ UNCHANGED told

NotWithdrawn ==
    /\ Exits("withdrawing", "nonzero")
    /\ UNCHANGED told /\ UNCHANGED vars

\* MUTANT: committed_job_id is set only after the answer to the commit.
SendCommitUnnoted ==
    /\ At("prepared", "committing") /\ sent' = TRUE
    /\ UNCHANGED <<grant, committed, told, code>> /\ UNCHANGED vars

\* commit_remote_application, which is never sent twice.
SendCommit ==
    /\ At("prepared", "committing") /\ sent' = TRUE /\ committed' = TRUE
    /\ UNCHANGED <<grant, told, code>> /\ UNCHANGED vars

ServeCommit ==
    /\ sent /\ sent' = FALSE /\ Commit(Mine, grant)
    /\ UNCHANGED <<cli, grant, committed, told, code>>

DropCommit ==
    /\ sent /\ sent' = FALSE
    /\ UNCHANGED <<cli, grant, committed, told, code>> /\ UNCHANGED vars

\* What status says, with the RECOVERY_REQUIRED that it may write first.
Reported == IF Orphaned(Mine) THEN "RECOVERY_REQUIRED" ELSE state[Mine]
Asks == Enter /\ IF Orphaned(Mine) THEN Status(Mine) ELSE UNCHANGED vars
Started == {"RUNNING", "SUCCEEDED", "FAILED"}

CommitAnswer ==
    /\ At("committing", "polling") /\ ~sent /\ state[Mine] \in Started
    /\ Asks /\ UNCHANGED <<grant, sent, committed, told, code>>

\* A lost or negative answer is ambiguous: the client asks for the job.
CommitAmbiguous ==
    /\ At("committing", "asking")
    /\ UNCHANGED <<grant, sent, committed, told, code>> /\ UNCHANGED vars

OutcomeKnown ==
    /\ At("asking", "polling") /\ Reported \in Started
    /\ Asks /\ UNCHANGED <<grant, sent, committed, told, code>>

OutcomeUnknown ==
    /\ Exits("asking", "nonzero") /\ UNCHANGED told
    /\ (Reported \notin Started /\ Asks) \/ UNCHANGED vars

\* The result is printed before the exit code follows from it; printing can
\* fail, and so can what comes after it.
PollEnds ==
    /\ cli = "polling" /\ Reported \in Terminal
    /\ LET result == IF Reported = "SUCCEEDED" THEN "ok" ELSE "error"
       IN  /\ told' \in {result, "none"}
           /\ Exits("polling", IF told' = "ok" THEN "0" ELSE "nonzero")
    /\ Asks

\* The Gateway cannot be reached, 420 seconds are over, or Ctrl+C.
PollGivesUp ==
    /\ Exits("polling", "nonzero") \/ Exits("committing", "nonzero")
    /\ UNCHANGED told /\ UNCHANGED vars

Client ==
    \/ Acquire \/ Preparation \/ PreparedAnswer \/ Withdrawn \/ NotWithdrawn
    \/ Fails("start") \/ Fails("prepared")
    \/ Withdraw("prepared", "0") \/ Withdraw("prepared", "nonzero")
    \/ Withdraw("preparing", "nonzero")
    \/ SendCommit \/ ServeCommit \/ DropCommit \/ CommitAnswer \/ CommitAmbiguous
    \/ OutcomeKnown \/ OutcomeUnknown \/ PollEnds \/ PollGivesUp

\* Other clients know the approvals of their own jobs only, but may ask about
\* any job; that they could share a lease is more than the code allows them.
Others ==
    \/ \E j \in Job :
         \/ j # Mine /\ (CreateUpload(j) \/ Upload(j) \/ FinalizeUpload(j))
         \/ j # Mine /\ \E l \in 1..MaxLease : Prepare(j, l) \/ Commit(j, l) \/ Cancel(j, l)
         \/ Status(j) \/ Cleanup(j)
    \/ LeaseGranted \/ LeaseEnds \/ LeaseExpires

Gateway ==
    \/ Continue \/ Run \/ Die \/ Restart
    \/ \E j \in Job : ApprovalExpires(j) \/ DieInPrune(j)

ClientNext == Client \/ ((Others \/ Gateway) /\ UNCHANGED client)

ClientSpec == ClientInit /\ [][ClientNext]_allVars

LiveClientSpec == ClientSpec /\ Fairness(Mine)

-----------------------------------------------------------------------------
(* Properties.                                                             *)

Removed == {"BARE", "GONE"}
NeverRan == state[Mine] = "CANCELLED" /\ flashes[Mine] = 0

\* What the client has said of its job is final: nothing that happens to the
\* Gateway later, no late commit, no restart and no other client, makes the
\* printed result another one, and exit code 0 means that it was "ok", or that
\* a dry run has left a job which never runs.  The other codes alone say nothing:
\* an exception after the commit ends in 1 too, while the job goes on.
ToldOutcomeStaysTrue ==
    /\ told = "ok" => state[Mine] \in {"SUCCEEDED"} \cup Removed
    /\ told = "error" => state[Mine] \in (Terminal \ {"SUCCEEDED"}) \cup Removed
    /\ cli = "exited" /\ code = "0" /\ told # "ok" =>
           ~committed /\ (NeverRan \/ state[Mine] \in Removed)

\* "Ctrl+C before commit cancels safely": a client that leaves before it has
\* confirmed, by Ctrl+C or an error, even without reaching the Gateway again
\* or without cancelling at all, leaves no job behind that could still change
\* the board.
OnlyConfirmedJobsFlash == ~committed => flashes[Mine] = 0

\* Once the job of this client is committed its record does not stay RUNNING:
\* the thread of _run_job settles it or, after a death of the Agent, the status
\* that the client asks for does.
CommittedJobSettles == Settles(Mine)
=============================================================================
