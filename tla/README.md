# A TLA+ model of the B300 ST-Link tools

The tools drive one ST-Link: they flash and provision B300 boards, and let
remote clients debug and monitor a board that is attached to a Gateway host.
What makes them hard is who may drive the probe, and when: several processes of
a host, several remote clients, an Agent that may die at any moment, and OpenOCD
children that outlive the process that started them.  This directory holds TLA+
modules translated from the Python code under `src/`, the TLC configurations
that check them, and the proofs that TLAPS checks.

`PROJECT.json` maps every definition to the lines that it models.

## 1. Inventory

### The core: ownership of the probe on a Gateway host

| Component | State | Operations | Interacts with |
|---|---|---|---|
| Hardware owner (`hardware_owner.py`) | an flock and a durable record IDLE/ACTIVE in one file; nesting depth per process | `acquire`, `release` of a token, `recover` | everything that starts an OpenOCD |
| Hardware session (`hardware_session.py`) | mode, owner thread, depth, detached lease | nested and detached acquire, release | hardware owner (below), services (above) |
| Debug service (`debug_service.py`) | an OpenOCD process, the session it holds | `start`, `poll`, `stop` | hardware session |
| Gateway supervisor (`gateway_supervisor.py`) | the service, the last snapshot, a private record of the OpenOCD it started | `ensure`, `observe`, `maintain_once`, `stop`, `reconcile_lease_owner`, `confirm_lease_owner_stopped`, `forget_lease_owner` | coordinator (above), a thread that stops it |
| Lease coordinator (`gateway_lease_coordinator.py`, `gateway_lease.py`) | the lease, in memory and on disk; adoption by a flash job | `acquire`, `renew`, `release`, `tick`, `adopt_flash_job`, `finish_flash_job`, `shutdown` | clients through the Agent, supervisor, program jobs |
| Program jobs (`gateway_program_jobs.py`) | job records, approvals, one worker | upload, finalize, prepare, commit, cancel, status, cleanup | coordinator, flash transaction |
| Agent loop and protocol (`gateway_agent.py`, `gateway_agent_protocol.py`, `gateway_unix_transport.py`) | request, response and marker files; prepare workers | enqueue, pending, respond, complete, acknowledge | clients and every component above |
| Agent owner lock (`gateway_agent.py`) | one file with a PID | `acquire`, `release`, `ensure_running` | launchers, autostart, the Agent |

### Around it

| Component | State | Hard part | In the models |
|---|---|---|---|
| Flash and provisioning (`service.py`, `openocd.py`, metadata) | none of its own; the board | power loss and failures between erase, program, metadata and reset; write protection must be restored | `Provisioning` over `Board` |
| Gateway client (`gateway_client.py`) with the forwards of `remote_session.py` | the binding, a mutation token, the accepted sequence | every call of the session is outside the lock; forwards can leak or go stale | `GatewayBinding` |
| Remote programming client (`remote_flash.py`, `remote_programming.py`) | how far the command has come | lost answers, a commit served late, Ctrl+C | `RemoteFlash` |
| CLI self-update (`cli_update_install.py`) | trees and files on disk | crash points of publish and rollback, several helpers | `CliUpdateInstall` |
| Lease client (`gateway_lease_client.py`) | the grant, a heartbeat thread | heartbeat against close | planned |
| Live monitor, debug session, VS Code guard | a session, threads | cancel and close from another thread | planned in part |
| Images (`hex_image.py`) and other data | none | ranges, overlaps | planned, as operators |
| Setup, profiles, symbols, VS Code files, support bundle, GUI widgets, packaging | files | formats and pure I/O | no |

`PROJECT.json` lists every component with its files, and under `hazards` what a
test of this code would hardly reach, each with its line and the properties that
cover it.

### What makes each component correct

- Hardware owner: at most one process drives the probe; a crash during use is
  visible to everybody after it, also across a power loss; only a proof that no
  OpenOCD runs clears it.
- Lease: one at a time; it ends when its client goes away; it does not end while
  its OpenOCD lives, nor while a committed flash job runs; a cleanup that cannot
  be proven keeps the lease.
- Agent lock: one Agent; a dead owner's file goes away, a live owner's does not.
- Program jobs: a committed job runs at most once and under the lease it was
  approved with; its outcome is final and is recorded; what the client has
  reported stays true.
- Request queue: who waits for an answer is not forgotten; an identity is
  carried out once.
- Flash and provisioning: the Bootloader never finds metadata of an Application
  that is not there; success and refusal mean what they say.
- Gateway client: no forward leaks; a connection that comes back gets its
  forwards back; the forwards lead to the present OpenOCD.
- Self-update: a whole tree survives any failure; `ok` names the installed tree.

## 2. Modules

| Module | Models | Checked by |
|---|---|---|
| `HardwareOwner` | `FileHardwareOwner` | `MCHardwareOwner` |
| `HardwareOwnerProofs` | theorems about `HardwareOwner` | TLAPS |
| `ExclusiveLease` | what a Gateway promises, abstractly | as a property of `GatewayLease` |
| `GatewayLease` | coordinator, supervisor, debug service and flash job, composed | `MCGatewayLease` |
| `GatewayLeaseProofs` | theorems about `GatewayLease`, with a prompt Agent also the refinement of `ExclusiveLease` | TLAPS |
| `AgentOwnerLock` | `GatewayAgentOwnerLock` and its users | `MCAgentOwnerLock` |
| `AgentOwnerLockProofs` | theorems about `AgentOwnerLock`, with any number of reclaimers | TLAPS |
| `FlashContract` | what a remote programming job promises, abstractly | as a property of `ProgramJobs` |
| `ProgramJobs` | `GatewayProgramJobs`: records, approvals, the job thread, deaths | within `RemoteFlash` |
| `RemoteFlash` | one `flash --gateway` command beside other clients, over `ProgramJobs` | `MCRemoteFlash` |
| `RemoteFlashProofs` | theorems about `ProgramJobs` and `RemoteFlash`, the refinement of `FlashContract` | TLAPS |
| `AgentQueue` | `GatewayRequestStore`, `submit_request`, the loop of `GatewayAgent` | `MCAgentQueue` |
| `AgentQueueProofs` | theorems about `AgentQueue` | TLAPS |
| `Board` | the target as OpenOCD shows it (external) | within `Provisioning` |
| `Provisioning` | `B300Service.flash` and `provision_bootloader` on a `Board` | `MCProvisioning` |
| `ProvisioningProofs` | theorems about `Provisioning` on its `Board` | TLAPS |
| `GatewayBinding` | `GatewayClientCoordinator` over the forwards of `RemoteSession` | `MCGatewayBinding` |
| `GatewayBindingProofs` | theorem about `GatewayBinding` | TLAPS |
| `CliUpdateInstall` | `apply_staged_cli_install` run by several helpers | `MCCliUpdateInstall` |
| `CliUpdateInstallProofs` | theorems about `CliUpdateInstall` | TLAPS |

`GatewayLease` composes four components in one module because the coordinator
calls them while it holds its lock: their steps interleave with crashes, late
threads and the rest of the host, not with each other.  The modules meet at the
promises of the one below: `ProgramJobs` takes the lease as `ExclusiveLease` has
it, `Provisioning` relies on `HardwareOwner` for one transaction at a time, and
`GatewayBinding` sees the Gateway as a sequence of routes.  Definitions marked as
a mutant are deliberately broken variants of the definition that follows them.
They are part of no specification; each shows that some property can fail.

### HardwareOwner

`lock` is the flock, which the kernel drops with its holder; `record` what a
reader of the file finds; `disk` the contents a power loss may leave, so a write
adds to it and an fsync reduces it to one.  `_write_record` is cut at its system
calls: the IDLE record is shorter than the ACTIVE one, so between write and
truncate the file is `TORN`.  `depth` and `token` are the nested tokens of each
process, `tool` the OpenOCD children, which survive their owner.  `_release` does not ask for them
and its callers do not always wait (an exception out of `OpenOcdRunner.run`, a
stop that times out): `ReleaseLast` moves a child that is still alive to `left`.
`dirty` is a history variable.  Not modelled: an `OSError` of a write.

### GatewayLease

`pc` and `op` say how far the operation that holds the coordinator's lock has
come; the operation is cut where an effect becomes durable or somebody else can
step in: the Agent dies, an OpenOCD exits or opens its ports, a job makes a step,
the CLI of the host takes the hardware, a stop thread that was given up on ends.

| State | Code |
|---|---|
| `lease`, `timer` | the persisted `GatewayLease`; its deadlines as live, late (in the grace) or dead |
| `rec` | `_GatewayOpenOcdOwnerStore`: which OpenOCD was started for which lease |
| `svc`, `sess`, `stopped` | the supervisor's `_service`, its hardware session, a STOPPED snapshot |
| `late` | the daemon thread of `_cleanup_locked` that did not end in time |
| `job`, `jobLease`, `adopted`, `flashTok` | the job worker, `_adopted_flash_lease_id`, `_flash_owner_token` |
| `ocd`, `bound` | OpenOCD processes alive on the host, and the one on the fixed ports |
| `other` | the hardware owner as seen by others: idle, taken by a CLI, or stale after a crash |

`_recovery_required` of a coordinator that has a lease equals the lease state
`RECOVERY_REQUIRED`.  `acquire` first advances the expiry (`EnterGrace`,
`Expire`) and then, if the lease is gone, reserves (`Reserve`).  Assumed: an
OpenOCD that was killed is gone when `DebugService.stop` returns; writes to the
lease store succeed; PIDs are not reused; discovery, target checks and start
failures are free choices.

`PromptAgent` states that the loop ticks at least once within the reconnect
grace (10 s; the loop's period is 0.25 s).  The heartbeats of a flash job (5 s)
keep its lease within its TTL (20 s).

### AgentOwnerLock

`creator` is the process whose `open(O_CREAT | O_EXCL)` made the present file,
`content` the PID in it, `at` the place of each process in `acquire`, `release`
or `ensure_running`.  The two are kept apart because a creator may write its PID
to a file that was unlinked meanwhile.  The status file of the Agent is a choice
of the environment: a running Agent whose heartbeat is late looks like none.

### ProgramJobs, FlashContract, RemoteFlash

| State | Code |
|---|---|
| `state`, `files` | the state in `job.json`; the part, the staged artifact and `flash.log` beside it |
| `approvals`, `active`, `worker`, `op` | the memory of `GatewayProgramJobs`: `_approvals` with their lease and whether their time is over, `_active_job_id`, the thread of `_run_job`, and the operation that holds the lock |
| `lease` | the coordinator's lease: number, held, adopted |
| `cli`, `grant`, `sent`, `committed` | `run_remote_flash`: where it is, its lease, a commit request under way, whether `committed_job_id` is set |
| `told`, `code` | the terminal result that was printed; the exit code: 0, or any other |
| `flashes` | history: how often a job began to change the board |

A record is replaced atomically, so a death falls between two writes and every
operation is cut there.  A preparation has a thread of its own; all else the loop
runs, so the lease does not change during a commit and GRACE cannot fall between
`commit` and `adopt_flash_job`.  What the model shows along the way: a RUNNING
record without a thread takes up a slot until somebody asks for its status; a
commit whose record cannot be written leaves `flash.log`, and that job cannot be
committed any more; a flash whose SUCCEEDED cannot be written is recorded FAILED;
a death between the link of the artifact and the record makes an upload
impossible to finalize; a death between `mkdir` and the first record blocks later
uploads.  Any answer to the client can be lost, and a commit can be served after
its client has left.  `Exits` has the exceptions of printing and closing, of which
`main` makes exit code 1 whatever has become of the job.  A lease ends by a release
or an expiry, and an `acquire` may let it expire even when it is adopted
(`LeaseEnds`, `LeaseExpires`).  Time to live, the age of a job and a digest that does not
match are free choices.  Not modelled: the quota in bytes, loss of power of the
Gateway (as opposed to the death of the Agent).

### AgentQueue

`request`, `marker` and `response` are the three files of an identity, `pc` the
place of each submitter in `submit_request`, `batch`, `broken`, `serving` and
`loop` the Agent's loop: the snapshot of `pending()`, the files it could not read,
how far `_dispatch_once` has got with each request.  Submitters are processes or
threads of the socket server; several with one identity are a client that repeats
a call.  A fast submitter does adjacent file operations in one step, one in
`Slow` is held up or killed between them: `O_CREAT` and the content, the look for
a response and the unlink of an unreadable one, the replay marker and the end of
the response.  Expiry and the end of a client's patience are free choices.

### Board, Provisioning

`Board` is what the ST-Link reaches: Bootloader, write protection, metadata
record, Application, CPU.  Each step of an OpenOCD command that changes the board
is an action; `CommandFails` ends a command at any of them, its step done, half
done or not done, and `Raises` is an exception of a sink, of the runner, or
Ctrl+C, anywhere.  `seq` counts modulo `Width`, which stands for 2^32.  The
content of an image is a model value or `Broken`.  `verify_boot` that fails may
leave the target halted, as the code does.  Not modelled: an OpenOCD that goes on
after Ctrl+C, the checks of the vector table, plans.

### GatewayBinding

`co` is the coordinator (accepted route, binding, reason), `th` what each thread
is doing in `ensure_ready`, `_apply`, `_recover`, `_ready` or `_stage_bind`,
`link`, `gen` and `fwd` the `RemoteSession`, `gw` and `news` the Gateway and its
snapshots.  A thread's mutation token is reduced to whether it is still the
current one (`valid`), a sequence number to whether it is above the accepted one
(`fresh`, `news`, `later`), a route is a number.  A server is made with the
transport of one connection (`via`, `Open`) and registered under whichever
connection there is later (`Register`); the coordinator sees only the latter.

### CliUpdateInstall

`root`, `backup` and `publish` are the directories, named after the helper whose
bundle is in them, whole or `Partial`; `unit`, `log` and `lock` are the service
unit, `install-result.json` and the flock.  Every step may raise (half done where
a tree is copied or deleted) and a helper may die at each.  `WithUnit` are the
helpers whose bundle is for Linux and brings a service unit, which the code does
not demand; the others leave the unit that is there.

## 3. Runs

| Run | Bounds | Shows |
|---|---|---|
| `hardware_owner` | 3 processes, 2 tokens each, symmetric | one owner of the probe, and that a crash or a power loss is not forgotten |
| `gateway_lease` | 3 leases, 4 OpenOCD processes | safety, refinement of `ExclusiveLease`, liveness |
| `gateway_lease_restart` (violation) | 1 lease, 1 OpenOCD | an Agent that dies in GRACE cannot be started again |
| `agent_lock` | 2 launchers, 2 Agents, 2 of them killed, one reclaimer at a time | the owner keeps its file; a stale file goes away |
| `agent_lock_race` (violation) | 1 launcher, 3 Agents, 1 killed | two reclaimers both become the owner |
| `remote_flash` | 2 jobs, 2 active at most, 2 leases, 1 death of the Agent | the jobs keep `FlashContract`; what the client printed stays true; a committed job does not stay RUNNING |
| `agent_queue` | a preparation submitted twice, a shutdown by a slow submitter, 1 death | nobody waits for nothing, every request is taken up, the loop ends |
| `provisioning` | 2 images, 3 transactions, 3 sequence numbers | the board after every failure, and what success means |
| `provisioning_wrp` (violation) | 2 images, 2 transactions | an exception leaves WRP off without asking for it again |
| `gateway_binding` | 2 threads, 3 routes of 2 instances, 1 recovery attempt, 3 disturbances | no forward leaks and the pair comes back |
| `gateway_binding_route` (violation) | 1 thread, 2 routes, 2 disturbances | READY on a route that the Gateway has left |
| `cli_update` | 3 helpers, 2 of them with a unit, 4 failing steps, 2 deaths | a whole tree remains; a recorded `ok` is true |

The bounds: three processes let one own, one wait and one recover, and two
tokens nest.  With three leases one can be ended while evidence of it remains,
the next can meet that evidence, and a third shows that nothing accumulates;
four OpenOCD processes allow a restart in one lease and an orphan beside it.
With two launchers and two Agents there can be a dead owner, somebody who
reclaims and somebody who has read the same file earlier.  A second job is
enough to compete for the thread, the lease and the slots, a second lease for one
that the client does not know to be over, and one death can fall at every step of
every operation.  Two submitters are a call and its repetition.  In three
transactions a failed one can be followed by another that fails and one that
succeeds, and with three sequence numbers the counter wraps in the middle of
them.  Two threads are the timer of the client and any other caller; three
disturbances are enough to lose a connection, move the Gateway and close.  With
three helpers one can have died, one fail and one succeed.

Deadlock is checked for the hardware owner, the lease, the queue, the board and
the binding.  The processes of `AgentOwnerLock`, `RemoteFlash` (a command, jobs
and deaths) and `CliUpdateInstall` are born once, so those systems may stop.

### Properties

- `HardwareOwner`: `HeldTokenOwnsLock`, `NoOrphanDriver` (whoever becomes the owner
  finds no OpenOCD that a dead owner left behind), `CrashBlocksAcquire`,
  `InUseSurvivesPowerLoss`.
- `GatewayLease`: `OpenOcdIsOwned` (every OpenOCD alive belongs to the live
  service or job, or the hardware owner record keeps everybody out),
  `IdleIsQuiet` (no lease, no hardware), `FlashKeepsLease`,
  `LateStopIsHarmless`, `EvidenceOutlivesProcess`, `NoLeaseEndsOverItsGateway`,
  `ImplementsExclusiveLease`, `EventuallyFree`, `CleaningEnds`.
- `AgentOwnerLock`: `OwnerHasFile`, `StaleRecordReclaimed`.
- `ProgramJobs`: `HonoursFlashContract`, `AdoptedLeaseHasItsJob`,
  `AdoptionIsNeverRefused` (RUNNING is on disk before the lease could refuse),
  `ArtifactOutlivesCommit`, `FailedUploadLeavesNothing`, `CommittedJobSettles`.
- `RemoteFlash`: `ToldOutcomeStaysTrue`, `OnlyConfirmedJobsFlash`.
- `AgentQueue`: `WaiterIsServed`, `RequestsAreTakenUp`, `ShutdownEnds`.
- `Provisioning`: `MetadataDescribesApp`, `BootsOnlyApproved`, `SuccessIsReal`,
  `FailureIsReported`.
- `GatewayBinding`: `ForwardsAreAccountedFor`, `ClosedLeavesNothing`,
  `TunnelComesBack`.
- `CliUpdateInstall`: `AWholeTreeRemains`, `OkMeansInstalled`.

Where the type invariant of a module is not a property of its run, another
invariant has it as a conjunct.

`ExclusiveLease` has one lease at a time, identities that never come back, and
nobody on the probe but the holder's processes or the CLI; it is implemented
under the mapping `Driver`, in which an OpenOCD left behind by a dead Agent is an
orphan.  `FlashContract` has, for each job, an outcome and how often the board was
changed for it; `ProgramJobs` implements it with the outcome read from the
records on disk, so what a death leaves there is all that counts.

Some properties stop where the code does.  `NoOrphanDriver` is about dead owners
only, since a live one may leave its OpenOCD behind too (`NoDriverLeft`).
`ToldOutcomeStaysTrue` is about printed results and exit code 0: the other codes
are also those of an exception after the commit.  `TunnelComesBack` excepts a
binding that crosses two connections (`StaleTunnelsAreReplaced`).  `WaiterIsServed`
excludes identities with a
slow submitter, whose half-written request `pending()` unlinks and whose client
then waits for its timeout.  `OkMeansInstalled` asks for the unit only of a bundle
that brings one, and excepts the unit of a helper that rolled back, which nothing
undoes.

### Fairness

`GatewayLease`: the Agent's loop ticks, an operation that was begun goes on
(each wait in it has a timeout), time passes, a flash job ends (OpenOCD runs
under timeouts) and its end is reported, and systemd starts a failed Agent
again (`Restart=on-failure` in `packaging/linux`).  Nothing is assumed of
clients, of OpenOCD, of a late stop thread or of an operator.  `AgentOwnerLock`:
a live process goes on, and a launcher asks again.  `ProgramJobs`: an operation
and the thread of a job go on, the thread gets the lock although others use it
too (strong fairness: requests come one at a time and each ends), the Agent is
restarted and the client asks for the status.  `AgentQueue`: the loop and the
threads run, and the Agent is started again; nothing of submitters.
`GatewayBinding`: threads go on, the timer polls, the SSH session is connected
again, the Gateway publishes and becomes ready again; disturbances are finite, so
"comes back" means after the last one.

### What the violated properties mean

The findings in `PROJECT.json` quote the documents.  In short: (1) the
constructor of the coordinator keeps the grace deadline of a lease that it marks
`RECOVERY_REQUIRED`, and the store rejects that; (2) a stale lock file is
unlinked by name; (3) between WRP-off and the restoration,
`provision_bootloader` lets exceptions through; (4) `_ready` accepts a snapshot
before it binds its route, and compares the next one with the accepted route and
not with the bound one.  `EventuallyFree` excuses an Agent that is down because of
(1); `OneReclaimer` excludes (2) from the passing run.

Four more disagreements have a configuration beside the runs, with which TLC finds
a property violated that a document or a docstring states:

| Configuration | Property | What the code does, and what is said |
|---|---|---|
| `MCHardwareOwnerLeft` | `NoDriverLeft` | `_release` gives the probe back while an OpenOCD is alive that an exception has left (`openocd.py:419-436`, `hardware_session.py:98-100`); `hardware_owner.py:66`: the lock and the marker protect the ST-Link "across processes" |
| `MCGatewayLeaseFlash` | `FlashKeepsLease` | `acquire` (`gateway_lease_coordinator.py:125-126`) advances the expiry without asking for an adoption, for which `renew` and `tick` ask, so with a loop that was blocked past the grace (`PromptAgent = FALSE`) the request of another client ends the lease of a committed job; `docs/superpowers/specs/2026-09-23-remote-application-programming-design.md:178`: the job "owns and renews the lease internally until terminal completion" |
| `MCAgentQueueTwice` | `RunsOnce` | a preparation that ends while the loop goes through an older batch is dispatched again (`gateway_agent.py:299-312`); `docs/superpowers/specs/2026-09-08-gateway-agent-exclusive-lease-design.md:43-44`: an identifier is processed "at most once" |
| `MCGatewayBindingCrossed` | `StaleTunnelsAreReplaced` | `open_forward` (`remote_session.py:1105-1121`) registers a server under a connection whose transport it does not use, and the binding stays READY over it; line 254 of the same document: "stale tunnels are replaced using generation checks" |

Two weaknesses are in the models without a property.  The proof that a
cleanup asks for does not exist in some states that faults and crashes lead to
(no owner record, or that of another gateway), and such a recovery never ends.
And the owner record is rewritten in place: after a crash in the middle it blocks
every acquire, as it should, but `recover` cannot read it either.

## 4. Proofs

`HardwareOwnerProofs` proves the four properties and the type invariant of
`HardwareOwner` for any set of processes and any finite set of tokens
(`ConstantAssumption`).  None of them is inductive alone.  `IInv` adds: the depth
of a process is the number of its tokens that are held (`DepthCountsTokens`,
which needs the cardinality lemmas of the library); a process that works holds
the flock (`WorkingOwnsLock`); an owner is on disk as ACTIVE
(`OwnerIsRecorded`); what each intermediate step implies about the record
(`StepOK`); and what the record implies about OpenOCD children and about crashed
owners (`RecordOK`).  `Inductive` proves `Spec => []IInv`; the
theorems about single properties follow from it, `NoOrphanDriver` as a property
of steps (`OrphansEndFirst`).  TLC checks the properties on the small instance first.

`GatewayLeaseProofs` proves five properties of `GatewayLease` for any bounds and
for an Agent of any speed, from `ConstantAssumption` and `NoneAssumption` (the
null value is no lease, record or owner).  Its `IInv` adds to `TypeOK` and
`OpenOcdIsOwned`:

- `ControlOK`: where an operation stands tells the state and the mode of its
  lease, so no step finds a lease that it does not expect;
- `ServiceOK`, `LateOK`, `TokenOK`, `OwnerOK`: at which steps the supervisor may
  hold an OpenOCD, a stop thread may be late and the Agent may own the hardware,
  and that two owners exclude each other;
- `EvidenceOK`: from the proof of death to the end of the cleanup the OpenOCD of
  the lease, and the one on record, stay dead.  `NoLeaseEndsOverItsGateway` and
  `EvidenceOutlivesProcess` need it, because the proof and the deletions are
  different steps, with crashes and flash jobs between them.

The steps are grouped by what they belong to (`AcquireStep` ... `HostStep`), with
one lemma per group; all cleanups begin alike, which `CleanupStarts` states once.
The types of flags are proved apart from the rest (`FlagsTyped`, `DataTyped`),
because no single backend does both.

The second part of the module assumes `PromptAgent`, and adds that time leads out of
the grace state only (`TimerOK`) and that a job under way has lease, adoption and
token (`JobOK`).  `FlashKeepsLease`, `IdleIsQuiet` and the refinement of
`ExclusiveLease` follow: each group of steps maps to abstract steps or to a
stutter (`AcquireRefines` ... `HostRefines`).  The assumption is necessary:
without it `acquire` takes the lease of a running job away (`MCGatewayLeaseFlash`).

The others follow the same pattern: an inductive invariant that TLC checks first,
one lemma for each part of it and each group of actions, `Inductive`, and a
theorem for each property.

`ProvisioningProofs` holds for any images, any number of transactions and any
width of the sequence number greater than 1.  The properties say what is true
between steps; the invariant says what a step may find: from the comparison on the
transaction works from the approved image (`StagedOK`), there is no valid record
while sectors 4 to 7 are worked on and no other Application after they were
verified (`FlashOK`), what `provision_bootloader` knows of Bootloader and WRP on
its way out (`FactoryOK`), and that nothing was touched where it may still refuse
(`RefusalOK`).  `OnlyApprovedBoots` and `SuccessReal` are properties of steps; the
second splits on the only two steps that report success.

`CliUpdateInstallProofs` holds for any number of helpers, failures and deaths.
Because of the lock one helper at a time touches the tree; `Trees` says where the
trees are at each of its steps.  `OkMeansInstalled` is about the tree that a
rollback would bring back, so `Results` follows that tree through every step, as
long as nobody died or failed to roll back (`Quiet`).

`RemoteFlashProofs` proves `ProgramJobs` first, for any jobs, leases, slots and
deaths: an operation finds the record that it has read, because the lock is held
(`OpOK`); an adopted lease is the one of
the live thread, which still has to give it back
(`LeaseOK`); a record is RUNNING until its result is written (`WorkerOK`); a job
flashes once, after its commit (`FlashOK`).  `JobsHonourContract` is the refinement
of `FlashContract`: each group of steps is a start, a flash or an end of one job,
or a stutter.  `ClientIsSafe` shows that a client with its Gateway is a behaviour
of the jobs, so all of this carries over to it.  Its own invariant adds that
before the commit was sent nothing at the Gateway can start the job
(`Uncommitted`), on which `OnlyConfirmedJobsFlash` and what exit code 0 means rest.

`AgentOwnerLockProofs` does not assume `OneReclaimer`.  The code lets any number of
processes reclaim at once, and the run `agent_lock_race` shows that `OneOwner` fails
then.  What is proved is where it can fail: `Steals` is an unlink by a reclaimer that
takes the file of a live process, and in every behaviour without such a step,
however many reclaimers there are, the creator of the file, its content and the
place of the creator stay together (`HolderOK`, `CreatorOK`), so an owner keeps its
file (`OnlyAReclaimSteals`).  As long as nobody was killed there is nothing to
reclaim, and one owner at most (`OneOwnerUntilAKill`, with no assumption).

`AgentQueueProofs` holds for any submitters, any identities and any deaths.
`WaiterOK` says what a waiter waits for: when its request has gone, the response
came first.  `LoopOK` has one request at a time being served, beside the preparation.
That an identity runs once is not true (`MCAgentQueueTwice`), so no theorem says
so.

`GatewayBindingProofs` holds for any finite set of threads.  The property is about
all threads together, so the invariant says what each answers for at each place
(`PlaceOK`), that one thread at most has the current token and that it recovers only
what is not READY (`TokenOK`), and that the fields of the binding fit together
(`BindingOK`).  Each step shows that it hands over, keeps or has closed what it
answered for (`HandsOver`); `Combine` draws the conclusion for all threads.
`NameIsFree` proves that the model's finite set of names never runs out.

Assumptions on constants are named in the modules that declare them.  They say
that bounds are numbers, that tokens and threads are finitely many, and that null
values are not data.  `PromptAgent` is a hypothesis of the three theorems that need
it, not an assumption of the module.

Every safety property of a passing run is proved for all values of the constants,
`OwnerHasFile` for the behaviours in which nobody's file is stolen.
Only model-checked: all liveness (`EventuallyFree`, `CleaningEnds`,
`StaleRecordReclaimed`, `CommittedJobSettles`, `RequestsAreTakenUp`,
`ShutdownEnds`, `ClosedLeavesNothing`, `TunnelComesBack`), because fairness and
ENABLED are beyond TLAPS.  The bounds of section 3 therefore matter for these.

## 5. Plan

Modules, with their theorems: `HardwareSession` with its mode policy and a
release that raises; `LeaseClient`, heartbeat against close; `LiveSession`, start
and close from two threads; a lease store whose write fails.  Operators: HEX ranges
and overlaps, version order.

## 6. Not modelled

Widgets, parsers and writers of files and formats, SSH itself, USB discovery,
setup commands, packaging.  They keep no state that several actors share, or
their content is text.  Tokens and digests are identities in the models: that
they cannot be guessed or forged is assumed.  Assumed as well: an OpenOCD that was
killed is gone when `DebugService.stop` returns, PIDs are not reused, writes to
the lease store succeed.  `PROJECT.json` says for each component what of it is
left out, and for each hazard without a property why.
