------------------------- MODULE GatewayLeaseProofs -------------------------
(***************************************************************************)
(* What the exclusive lease guarantees for any number of leases and of     *)
(* OpenOCD processes.  The first part holds whether or not the Agent ticks *)
(* in time, the second, with the refinement of ExclusiveLease, of an Agent *)
(* whose loop ticks within the reconnect grace.                            *)
(***************************************************************************)
EXTENDS GatewayLease, TLAPS

(***************************************************************************)
(* The inductive invariant.  OpenOcdIsOwned and LateStopIsHarmless rest on *)
(* what every step of an operation implies about the lease it works on, on *)
(* who may hold an OpenOCD, a late thread or the hardware at that step,    *)
(* and on proofs of death that stay true up to the end of the cleanup.     *)
(***************************************************************************)

\* Where an operation stands tells what its lease looks like.
ControlOK ==
    /\ pc \in {"free", "exit"} =>
           lease = None \/ lease.state \in {"ACTIVE", "GRACE", "RECOVERY_REQUIRED"}
    /\ pc = "flash" => lease.mode = "FLASH" /\ lease.state = "STARTING" /\ op = "acquire"
    /\ pc \in {"launch", "starting", "ready", "notready", "health", "tick"} =>
           /\ lease.mode = "DEBUG"
           /\ lease.state = IF op = "acquire" THEN "STARTING" ELSE "ACTIVE"
    /\ pc \in {"stop", "confirm"} => lease.mode = "DEBUG" /\ lease.state = "CLEANING"
    /\ pc \in {"reconcile", "absence", "reclaimed"} => lease.state = "RECOVERY_REQUIRED"
    /\ pc \in {"absence", "reclaimed"} => lease.mode = "DEBUG"
    /\ pc = "forget" => lease = None
    /\ op = "shutdown" => pc \in {"stop", "confirm", "clear", "forget"}
    /\ lease # None /\ lease.mode = "FLASH" => lease.gw = None

\* The supervisor holds an OpenOCD for the debug lease only.
ServiceOK ==
    /\ svc # None =>
           /\ lease # None /\ lease.mode = "DEBUG"
           /\ pc \notin {"launch", "confirm", "clear", "forget", "down"}
    /\ sess => svc # None
    /\ svc # None /\ ~sess => svc \notin ocd

\* A stop thread that is left behind keeps every other user of the supervisor out.
LateOK ==
    late => /\ lease # None /\ lease.mode = "DEBUG"
            /\ lease.state \in {"CLEANING", "RECOVERY_REQUIRED"}
            /\ pc \in {"free", "exit", "stop", "reconcile"}

\* The Agent owns the hardware for a flash lease only between operations.
TokenOK ==
    flashTok => /\ lease # None /\ lease.mode = "FLASH"
                /\ lease.state \in {"ACTIVE", "GRACE"}
                /\ pc = "free"

\* One owner of the hardware.
OwnerOK == other # None => ~Held

\* What has been proved dead stays dead, up to the end of the lease.
Gone == lease.gw \notin ocd /\ (rec = None \/ rec.gw \notin ocd)

EvidenceOK ==
    /\ pc \in {"starting", "forget"} => rec = None \/ rec.gw \notin ocd
    /\ pc = "reclaimed" \/ (pc = "stop" /\ op = "recovery") => Gone
    /\ pc = "clear" => lease.gw \notin ocd /\ (lease.mode = "DEBUG" => Gone)

IInv ==
    /\ TypeOK /\ ControlOK /\ ServiceOK /\ LateOK /\ TokenOK
    /\ OwnerOK /\ OpenOcdIsOwned /\ EvidenceOK

-----------------------------------------------------------------------------

\* The invariant without its types.
RestOK ==
    /\ ControlOK /\ ServiceOK /\ LateOK /\ TokenOK
    /\ OwnerOK /\ OpenOcdIsOwned /\ EvidenceOK

\* SMT does the data, Zenon the flags.
LEMMA TypeParts == TypeOK <=> DataTyped /\ FlagsTyped
BY DEF TypeOK

\* None is no lease, no record and no process.
LEMMA NoneIsNoData ==
    ASSUME TypeOK
    PROVE  None \notin Lease /\ None \notin OwnerRecord /\ None \notin ocd
<1>1. Gateway \subseteq Nat /\ 1 .. leases \subseteq Nat
  BY DEF TypeOK, DataTyped, Gateway
<1>2. Lease \subseteq [id : Nat, mode : Mode, state : LeaseState, gw : Nat \cup {None}]
  BY <1>1 DEF Lease
<1>3. OwnerRecord \subseteq [lease : Nat, gw : Nat]
  BY <1>1 DEF OwnerRecord
<1>4. ocd \subseteq Gateway \cup {0}
  BY DEF TypeOK, DataTyped, Burner
<1>5. None \notin ocd
  <2>. SUFFICES ASSUME None \in ocd PROVE FALSE
    OBVIOUS
  <2>1. None \in Gateway \cup {0}
    BY <1>4
  <2>2. Gateway \cup {0} \subseteq Nat
    BY <1>1
  <2>3. None \notin Nat
    BY ConstantAssumption
  <2>. QED
    BY <2>1, <2>2, <2>3, Zenon
<1>6. None \notin Lease /\ None \notin OwnerRecord
  BY <1>2, <1>3, NoneAssumption
<1>. QED
  BY <1>5, <1>6

\* A change of state changes nothing else of a lease.
LEMMA StateChanges ==
    ASSUME TypeOK, lease # None, NEW state \in LeaseState, SetState(state)
    PROVE  /\ lease' \in Lease /\ lease' # None
           /\ lease'.id = lease.id /\ lease'.mode = lease.mode /\ lease'.gw = lease.gw
           /\ lease'.state = state
<1>1. lease' = [id |-> lease.id, mode |-> lease.mode, state |-> state, gw |-> lease.gw]
  BY DEF SetState, TypeOK, DataTyped, Lease
<1>. QED
  BY <1>1, ConstantAssumption, NoneAssumption DEF TypeOK, DataTyped, Lease, Gateway

\* A lease that is given its OpenOCD keeps its identity.
LEMMA GatewayNamed ==
    ASSUME TypeOK, lease # None, NEW state \in LeaseState,
           lease' = [lease EXCEPT !.state = state, !.gw = svc]
    PROVE  /\ lease' \in Lease /\ lease' # None
           /\ lease'.id = lease.id /\ lease'.mode = lease.mode /\ lease'.gw = svc
           /\ lease'.state = state
<1>1. lease' = [id |-> lease.id, mode |-> lease.mode, state |-> state, gw |-> svc]
  BY DEF TypeOK, DataTyped, Lease
<1>2. lease' \in Lease
  BY <1>1 DEF TypeOK, DataTyped, Lease
<1>. QED
  BY <1>1, <1>2, NoneIsNoData

\* What the beginning of a cleanup does to the lease and to the token.
LEMMA CleanupBegins ==
    ASSUME TypeOK, TokenOK, lease # None, NEW operation, BeginCleanup(operation),
           UNCHANGED <<leases, gateways>>
    PROVE  /\ lease' \in Lease' /\ lease' # None
           /\ lease'.id = lease.id /\ lease'.mode = lease.mode /\ lease'.gw = lease.gw
           /\ lease.mode = "FLASH" => lease' = lease
           /\ lease.mode = "DEBUG" => lease'.state = "CLEANING"
           /\ flashTok' = FALSE
           /\ pc' = IF lease.mode = "FLASH" THEN "clear" ELSE "stop"
           /\ op' = operation
<1>1. lease \in Lease /\ Lease' = Lease
  BY DEF TypeOK, DataTyped, Lease, Gateway
<1>2. CASE lease.mode = "FLASH"
  BY <1>1, <1>2 DEF BeginCleanup, Goto, Lease, Mode
<1>3. CASE lease.mode # "FLASH"
  <2>1. SetState("CLEANING") /\ "CLEANING" \in LeaseState
    BY <1>3 DEF BeginCleanup, LeaseState
  <2>2. ~flashTok /\ flashTok' = flashTok /\ Goto("stop", operation)
    BY <1>3 DEF BeginCleanup, TokenOK
  <2>3. flashTok' = FALSE
    BY <2>2, Zenon DEF TypeOK, FlagsTyped
  <2>. QED
    BY <1>1, <1>3, <2>1, <2>2, <2>3, StateChanges DEF Goto
<1>. QED
  BY <1>2, <1>3

\* Wherever a cleanup begins, it preserves the invariant.
LEMMA CleanupStarts ==
    ASSUME IInv, lease # None,
           pc \in {"free", "flash", "ready", "notready", "tick", "reclaimed"},
           NEW operation \in {"none", "recovery", "shutdown"},
           operation = "recovery" => pc = "reclaimed",
           BeginCleanup(operation),
           UNCHANGED <<rec, leases, timing, supervisor, late, host>>,
           job' \in {"none", "queued", "flashing", "done"},
           jobLease' \in (1 .. leases) \cup {None},
           job' = "none" <=> jobLease' = None,
           job' = "flashing" <=> job = "flashing"
    PROVE  DataTyped' /\ RestOK'
<1>. USE DEF IInv, RestOK
<1>1. UNCHANGED <<rec, leases, timer, svc, sess, gateways, late, ocd, bound, other>>
  BY DEF timing, supervisor, host
<1>2. /\ lease' \in Lease' /\ lease' # None
      /\ lease'.id = lease.id /\ lease'.mode = lease.mode /\ lease'.gw = lease.gw
      /\ lease.mode = "FLASH" => lease' = lease
      /\ lease.mode = "DEBUG" => lease'.state = "CLEANING"
      /\ flashTok' = FALSE
      /\ pc' = IF lease.mode = "FLASH" THEN "clear" ELSE "stop"
      /\ op' = operation
  BY <1>1, CleanupBegins
<1>mode. lease.mode \in Mode
  BY DEF TypeOK, DataTyped, Lease
<1>3. DataTyped'
  BY <1>1, <1>2, TypeParts DEF DataTyped, OwnerRecord, Gateway, Step, Idle
<1>4. ControlOK'
  BY <1>1, <1>2, <1>mode DEF ControlOK, Mode
<1>5. ServiceOK'
  BY <1>1, <1>2, <1>mode DEF ServiceOK, Mode
<1>6. LateOK'
  BY <1>1, <1>2, <1>mode DEF LateOK, Mode
<1>7. TokenOK'
  BY <1>2 DEF TokenOK
<1>8. OwnerOK'
  BY <1>1, <1>2 DEF OwnerOK, Held
<1>9. OpenOcdIsOwned'
  BY <1>1, <1>2 DEF OpenOcdIsOwned
<1>10. EvidenceOK'
  BY <1>1, <1>2, <1>mode, NoneIsNoData DEF EvidenceOK, Gone, Mode, ControlOK
<1>. QED
  BY <1>3, <1>4, <1>5, <1>6, <1>7, <1>8, <1>9, <1>10

-----------------------------------------------------------------------------

\* acquire and the launch of its OpenOCD.
AcquireStep ==
    \/ \E mode \in Mode : Reserve(mode)
    \/ FlashGrant
    \/ Grant
    \/ AcquireFails
    \/ Launch
    \/ LaunchFails
    \/ StartFails
    \/ StartUnverified
    \/ StartVerified

\* What ends a lease from outside.
ExpiryStep ==
    \/ \E caller \in {"acquire", "tick"} : EnterGrace(caller)
    \/ \E caller \in {"acquire", "tick"} : Expire(caller)
    \/ Renew
    \/ Release
    \/ ShutdownRequested
    \/ Shutdown
    \/ TimePasses

\* tick and runtime_snapshot.
HealthStep ==
    \/ \E caller \in {"rescan", "tick"} : CheckHealth(caller)
    \/ HealthKept
    \/ HealthLost
    \/ HealthExited
    \/ Refresh
    \/ GatewayLost
    \/ Rescanned

\* The cleanup of a lease, and the stop thread it may leave behind.
CleanupStep ==
    \/ StopDone
    \/ StopSlow
    \/ LateStop
    \/ Confirm
    \/ Unconfirmed
    \/ ClearStore
    \/ Forget

\* The reconciliation of a lease in RECOVERY_REQUIRED.
RecoveryStep ==
    \/ Reconcile
    \/ Unproven
    \/ FlashReconciled
    \/ \E inTime \in BOOLEAN : ShutdownRecorded(inTime)
    \/ OwnerNotReclaimed
    \/ AbsenceProven
    \/ CleanupReclaimed

\* The flash job.
JobStep ==
    \/ Commit
    \/ JobStarts
    \/ JobEnds
    \/ JobFinishes

\* The Agent process and the rest of the host.
HostStep ==
    \/ Die
    \/ Start
    \/ \E g \in ocd : OpenOcdBinds(g)
    \/ \E g \in ocd : OpenOcdExits(g)
    \/ CliTakes
    \/ CliEnds
    \/ OperatorRecovers

\* Every step is one of these.
LEMMA NextSections ==
    Next => \/ AcquireStep \/ ExpiryStep \/ HealthStep \/ CleanupStep
            \/ RecoveryStep \/ JobStep \/ HostStep
BY DEF Next, Tick, Continue, AcquireStep, ExpiryStep, HealthStep, CleanupStep,
       RecoveryStep, JobStep, HostStep

\* The flags stay flags.
LEMMA FlagsStep == TypeOK /\ Next => FlagsTyped'
<1>. SUFFICES ASSUME FlagsTyped, Next PROVE FlagsTyped'
  BY TypeParts
<1>. USE DEF FlagsTyped, timing, supervisor, jobs
<1>1. CASE AcquireStep
  BY <1>1, Zenon
     DEF AcquireStep, Reserve, FlashGrant, Grant, AcquireFails, Launch, LaunchFails,
         StartFails, StartUnverified, StartVerified, BeginCleanup, StopService
<1>2. CASE ExpiryStep
  BY <1>2, Zenon
     DEF ExpiryStep, EnterGrace, Expire, Renew, Release, ShutdownRequested, Shutdown,
         TimePasses, BeginCleanup
<1>3. CASE HealthStep
  BY <1>3, Zenon
     DEF HealthStep, CheckHealth, HealthKept, HealthLost, HealthExited, Refresh,
         GatewayLost, Rescanned, StopService
<1>4. CASE CleanupStep
  BY <1>4, Zenon
     DEF CleanupStep, StopDone, StopSlow, LateStop, Confirm, Unconfirmed, ClearStore,
         Forget, StopService
<1>5. CASE RecoveryStep
  BY <1>5, Zenon
     DEF RecoveryStep, Reconcile, Unproven, FlashReconciled, ShutdownRecorded,
         OwnerNotReclaimed, AbsenceProven, CleanupReclaimed, BeginCleanup
<1>6. CASE JobStep
  BY <1>6, Zenon DEF JobStep, Commit, JobStarts, JobEnds, JobFinishes, BeginCleanup
<1>7. CASE HostStep
  BY <1>7, Zenon
     DEF HostStep, Die, Start, OpenOcdBinds, OpenOcdExits, CliTakes, CliEnds,
         OperatorRecovers
<1>. QED
  BY <1>1, <1>2, <1>3, <1>4, <1>5, <1>6, <1>7, NextSections

\* acquire and the launch of its OpenOCD.
LEMMA AcquireInv ==
    ASSUME IInv, AcquireStep
    PROVE  DataTyped' /\ RestOK'
<1>. USE ConstantAssumption, NoneAssumption, TypeParts
     DEF IInv, DataTyped, RestOK, ControlOK, ServiceOK, LateOK, TokenOK, OwnerOK,
         OpenOcdIsOwned, EvidenceOK, Gone, Held, InState, Goto, Return, Lease,
         OwnerRecord, Gateway, Burner, Mode, LeaseState, Step, Idle, store, timing,
         supervisor, jobs, host
<1>1. CASE \E mode \in Mode : Reserve(mode)
  BY <1>1 DEF Reserve
<1>2. CASE FlashGrant
  BY <1>2 DEF FlashGrant, SetState, CanOwn
<1>3. CASE Grant
  BY <1>3, GatewayNamed DEF Grant, Recorded
<1>4. CASE AcquireFails
  BY <1>4, CleanupStarts DEF AcquireFails, Recorded
<1>5. CASE Launch
  BY <1>5 DEF Launch, CanOwn
<1>6. CASE LaunchFails
  BY <1>6 DEF LaunchFails
<1>7. CASE StartFails
  BY <1>7 DEF StartFails, StopService
<1>8. CASE StartUnverified
  BY <1>8 DEF StartUnverified, CameUp
<1>9. CASE StartVerified
  BY <1>9 DEF StartVerified, CameUp
<1>. QED
  BY <1>1, <1>2, <1>3, <1>4, <1>5, <1>6, <1>7, <1>8, <1>9 DEF AcquireStep

\* What ends a lease from outside.
LEMMA ExpiryInv ==
    ASSUME IInv, ExpiryStep
    PROVE  DataTyped' /\ RestOK'
<1>. USE ConstantAssumption, NoneAssumption, TypeParts
     DEF IInv, DataTyped, RestOK, ControlOK, ServiceOK, LateOK, TokenOK, OwnerOK,
         OpenOcdIsOwned, EvidenceOK, Gone, Held, InState, Goto, Return, Lease,
         OwnerRecord, Gateway, Burner, Mode, LeaseState, Step, Idle, store, timing,
         supervisor, jobs, host
<1>1. CASE \E caller \in {"acquire", "tick"} : EnterGrace(caller)
  BY <1>1 DEF EnterGrace, SetState, Advances
<1>2. CASE \E caller \in {"acquire", "tick"} : Expire(caller)
  BY <1>2, CleanupStarts DEF Expire, Advances
<1>3. CASE Renew
  BY <1>3 DEF Renew, SetState
<1>4. CASE Release
  BY <1>4, CleanupStarts DEF Release
<1>5. CASE ShutdownRequested
  BY <1>5, CleanupStarts DEF ShutdownRequested
<1>6. CASE Shutdown
  <2>1. CASE lease = None
    BY <1>6, <2>1 DEF Shutdown
  <2>2. CASE lease # None
    BY <1>6, <2>2, CleanupStarts DEF Shutdown
  <2>. QED
    BY <2>1, <2>2
<1>7. CASE TimePasses
  BY <1>7 DEF TimePasses
<1>. QED
  BY <1>1, <1>2, <1>3, <1>4, <1>5, <1>6, <1>7 DEF ExpiryStep

\* tick and runtime_snapshot.
LEMMA HealthInv ==
    ASSUME IInv, HealthStep
    PROVE  DataTyped' /\ RestOK'
<1>. USE ConstantAssumption, NoneAssumption, TypeParts
     DEF IInv, DataTyped, RestOK, ControlOK, ServiceOK, LateOK, TokenOK, OwnerOK,
         OpenOcdIsOwned, EvidenceOK, Gone, Held, InState, Goto, Return, Lease,
         OwnerRecord, Gateway, Burner, Mode, LeaseState, Step, Idle, store, timing,
         supervisor, jobs, host
<1>1. CASE \E caller \in {"rescan", "tick"} : CheckHealth(caller)
  BY <1>1 DEF CheckHealth
<1>2. CASE HealthKept
  BY <1>2 DEF HealthKept
<1>3. CASE HealthLost
  BY <1>3 DEF HealthLost, StopService
<1>4. CASE HealthExited
  BY <1>4 DEF HealthExited
<1>5. CASE Refresh
  <2>1. lease' = [lease EXCEPT !.state = lease.state, !.gw = svc]
    BY <1>5 DEF Refresh
  <2>2. lease # None /\ lease.state \in LeaseState
    BY <1>5 DEF Refresh
  <2>3. /\ lease' \in Lease /\ lease' # None
        /\ lease'.id = lease.id /\ lease'.mode = lease.mode /\ lease'.gw = svc
        /\ lease'.state = lease.state
    BY <2>1, <2>2, GatewayNamed
  <2>. QED
    BY <1>5, <2>3 DEF Refresh
<1>6. CASE GatewayLost
  BY <1>6 DEF GatewayLost, SetState
<1>7. CASE Rescanned
  BY <1>7 DEF Rescanned
<1>. QED
  BY <1>1, <1>2, <1>3, <1>4, <1>5, <1>6, <1>7 DEF HealthStep

\* The cleanup of a lease, and the stop thread it may leave behind.
LEMMA CleanupInv ==
    ASSUME IInv, CleanupStep
    PROVE  DataTyped' /\ RestOK'
<1>. USE ConstantAssumption, NoneAssumption, TypeParts
     DEF IInv, DataTyped, RestOK, ControlOK, ServiceOK, LateOK, TokenOK, OwnerOK,
         OpenOcdIsOwned, EvidenceOK, Gone, Held, InState, Goto, Return, Lease,
         OwnerRecord, Gateway, Burner, Mode, LeaseState, Step, Idle, store, timing,
         supervisor, jobs, host
<1>1. CASE StopDone
  BY <1>1 DEF StopDone, StopService
<1>2. CASE StopSlow
  BY <1>2 DEF StopSlow, SetState
<1>3. CASE LateStop
  BY <1>3 DEF LateStop, StopService
<1>4. CASE Confirm
  BY <1>4 DEF Confirm, Recorded, Confirmable
<1>5. CASE Unconfirmed
  BY <1>5 DEF Unconfirmed, SetState
<1>6. CASE ClearStore
  BY <1>6 DEF ClearStore
<1>7. CASE Forget
  BY <1>7 DEF Forget
<1>. QED
  BY <1>1, <1>2, <1>3, <1>4, <1>5, <1>6, <1>7 DEF CleanupStep

\* The reconciliation of a lease in RECOVERY_REQUIRED.
LEMMA RecoveryInv ==
    ASSUME IInv, RecoveryStep
    PROVE  DataTyped' /\ RestOK'
<1>. USE ConstantAssumption, NoneAssumption, TypeParts
     DEF IInv, DataTyped, RestOK, ControlOK, ServiceOK, LateOK, TokenOK, OwnerOK,
         OpenOcdIsOwned, EvidenceOK, Gone, Held, InState, Goto, Return, Lease,
         OwnerRecord, Gateway, Burner, Mode, LeaseState, Step, Idle, store, timing,
         supervisor, jobs, host
<1>1. CASE Reconcile
  BY <1>1 DEF Reconcile
<1>2. CASE Unproven
  BY <1>2 DEF Unproven
<1>3. CASE FlashReconciled
  BY <1>3 DEF FlashReconciled, CanOwn
<1>4. CASE \E inTime \in BOOLEAN : ShutdownRecorded(inTime)
  BY <1>4 DEF ShutdownRecorded, Recorded
<1>5. CASE OwnerNotReclaimed
  BY <1>5 DEF OwnerNotReclaimed
<1>6. CASE AbsenceProven
  BY <1>6 DEF AbsenceProven, Recorded, Confirmable
<1>7. CASE CleanupReclaimed
  BY <1>7, CleanupStarts DEF CleanupReclaimed
<1>. QED
  BY <1>1, <1>2, <1>3, <1>4, <1>5, <1>6, <1>7 DEF RecoveryStep

\* The flash job.
LEMMA JobInv ==
    ASSUME IInv, JobStep
    PROVE  DataTyped' /\ RestOK'
<1>. USE ConstantAssumption, NoneAssumption, TypeParts
     DEF IInv, DataTyped, RestOK, ControlOK, ServiceOK, LateOK, TokenOK, OwnerOK,
         OpenOcdIsOwned, EvidenceOK, Gone, Held, InState, Goto, Return, Lease,
         OwnerRecord, Gateway, Burner, Mode, LeaseState, Step, Idle, store, timing,
         supervisor, jobs, host
<1>1. CASE Commit
  BY <1>1 DEF Commit
<1>2. CASE JobStarts
  BY <1>2 DEF JobStarts, CanOwn
<1>3. CASE JobEnds
  BY <1>3 DEF JobEnds
<1>4. CASE JobFinishes
  <2>1. CASE lease # None /\ lease.id = jobLease /\ adopted
    BY <1>4, <2>1, CleanupStarts DEF JobFinishes
  <2>2. CASE ~(lease # None /\ lease.id = jobLease /\ adopted)
    BY <1>4, <2>2 DEF JobFinishes
  <2>. QED
    BY <2>1, <2>2
<1>. QED
  BY <1>1, <1>2, <1>3, <1>4 DEF JobStep

\* The Agent process and the rest of the host.
LEMMA HostInv ==
    ASSUME IInv, HostStep
    PROVE  DataTyped' /\ RestOK'
<1>. USE ConstantAssumption, NoneAssumption, TypeParts
     DEF IInv, DataTyped, RestOK, ControlOK, ServiceOK, LateOK, TokenOK, OwnerOK,
         OpenOcdIsOwned, EvidenceOK, Gone, Held, InState, Goto, Return, Lease,
         OwnerRecord, Gateway, Burner, Mode, LeaseState, Step, Idle, store, timing,
         supervisor, jobs, host
<1>1. CASE Die
  BY <1>1 DEF Die
<1>2. CASE Start
  BY <1>2 DEF Start, SetState, Loadable
<1>3. CASE \E g \in ocd : OpenOcdBinds(g)
  BY <1>3 DEF OpenOcdBinds
<1>4. CASE \E g \in ocd : OpenOcdExits(g)
  BY <1>4 DEF OpenOcdExits
<1>5. CASE CliTakes
  BY <1>5 DEF CliTakes
<1>6. CASE CliEnds
  BY <1>6 DEF CliEnds
<1>7. CASE OperatorRecovers
  BY <1>7 DEF OperatorRecovers
<1>. QED
  BY <1>1, <1>2, <1>3, <1>4, <1>5, <1>6, <1>7 DEF HostStep

-----------------------------------------------------------------------------

LEMMA InitInv == Init => IInv
<1>. SUFFICES ASSUME Init PROVE IInv
  OBVIOUS
<1>1. FlagsTyped
  BY Zenon DEF Init, FlagsTyped
<1>2. DataTyped
  BY ConstantAssumption DEF Init, DataTyped, Step, Idle, Gateway
<1>. QED
  BY <1>1, <1>2, TypeParts
     DEF Init, IInv, ControlOK, ServiceOK, LateOK, TokenOK, OwnerOK, Held,
         OpenOcdIsOwned, EvidenceOK

LEMMA StutterInv == IInv /\ UNCHANGED vars => IInv'
<1>. SUFFICES ASSUME IInv, UNCHANGED vars PROVE IInv'
  OBVIOUS
<1>. USE DEF vars, store, timing, supervisor, jobs, host
<1>1. FlagsTyped'
  BY Zenon DEF IInv, TypeOK, FlagsTyped
<1>2. DataTyped'
  BY DEF IInv, TypeOK, DataTyped, Gateway, Lease, OwnerRecord
<1>3. RestOK'
  BY DEF IInv, RestOK, ControlOK, ServiceOK, LateOK, TokenOK, OwnerOK, Held,
         OpenOcdIsOwned, EvidenceOK, Gone
<1>. QED
  BY <1>1, <1>2, <1>3 DEF IInv, TypeOK, RestOK

LEMMA NextInv == IInv /\ Next => IInv'
<1>. SUFFICES ASSUME IInv, Next PROVE IInv'
  OBVIOUS
<1>1. DataTyped' /\ RestOK'
  BY NextSections, AcquireInv, ExpiryInv, HealthInv, CleanupInv, RecoveryInv, JobInv, HostInv
<1>2. FlagsTyped'
  BY FlagsStep DEF IInv
<1>. QED
  BY <1>1, <1>2 DEF IInv, TypeOK, RestOK

LEMMA StepInv == IInv /\ [Next]_vars => IInv'
BY NextInv, StutterInv

\* The inductive invariant holds in every reachable state.
THEOREM LeaseInductive == Spec => []IInv
BY InitInv, StepInv, PTL DEF Spec

-----------------------------------------------------------------------------

\* Every variable keeps its type; in particular an operation that works on a
\* lease always finds one.
THEOREM LeaseTypeCorrect == Spec => []TypeOK
<1>1. IInv => TypeOK
  BY DEF IInv
<1>. QED
  BY <1>1, LeaseInductive, PTL

\* GatewaySupervisor and the flash job: an OpenOCD that is alive has a live
\* owner, or the record of the hardware owner keeps everybody out.
THEOREM OpenOcdHasOwner == Spec => []OpenOcdIsOwned
<1>1. IInv => OpenOcdIsOwned
  BY DEF IInv
<1>. QED
  BY <1>1, LeaseInductive, PTL

\* _cleanup_locked: the thread that outlives its timeout belongs to the lease
\* that is still there.
THEOREM LateStopStaysHarmless == Spec => []LateStopIsHarmless
<1>1. IInv => LateStopIsHarmless
  BY DEF IInv, LateOK, LateStopIsHarmless, InState
<1>. QED
  BY <1>1, LeaseInductive, PTL

\* Only three steps touch the record of the OpenOCD.
LEMMA RecordWriters ==
    ASSUME Next, rec' # rec
    PROVE  \/ StartVerified \/ Forget
           \/ \E inTime \in BOOLEAN : ShutdownRecorded(inTime)
<1>. USE DEF store
<1>1. CASE AcquireStep
  BY <1>1
     DEF AcquireStep, Reserve, FlashGrant, Grant, AcquireFails, Launch, LaunchFails,
         StartFails, StartUnverified
<1>2. CASE ExpiryStep
  BY <1>2
     DEF ExpiryStep, EnterGrace, Expire, Renew, Release, ShutdownRequested, Shutdown,
         TimePasses
<1>3. CASE HealthStep
  BY <1>3
     DEF HealthStep, CheckHealth, HealthKept, HealthLost, HealthExited, Refresh,
         GatewayLost, Rescanned
<1>4. CASE CleanupStep
  BY <1>4
     DEF CleanupStep, StopDone, StopSlow, LateStop, Confirm, Unconfirmed, ClearStore
<1>5. CASE RecoveryStep
  BY <1>5
     DEF RecoveryStep, Reconcile, Unproven, FlashReconciled, OwnerNotReclaimed,
         AbsenceProven, CleanupReclaimed
<1>6. CASE JobStep
  BY <1>6 DEF JobStep, Commit, JobStarts, JobEnds, JobFinishes
<1>7. CASE HostStep
  BY <1>7
     DEF HostStep, Die, Start, OpenOcdBinds, OpenOcdExits, CliTakes, CliEnds,
         OperatorRecovers
<1>. QED
  BY <1>1, <1>2, <1>3, <1>4, <1>5, <1>6, <1>7, NextSections

\* _persist_lease_owner_locked, forget_lease_owner, reconcile_lease_owner: the
\* evidence of an OpenOCD is not lost before the process is.
THEOREM EvidenceIsKept == Spec => EvidenceOutlivesProcess
<1> DEFINE Kept == rec # None /\ rec' # rec => rec.gw \notin ocd'
<1>1. IInv /\ [Next]_vars => [Kept]_vars
  <2>. SUFFICES ASSUME IInv, Next, rec # None, rec' # rec PROVE rec.gw \notin ocd'
    OBVIOUS
  <2>1. CASE StartVerified
    BY <2>1 DEF StartVerified, CameUp, host, IInv, EvidenceOK
  <2>2. CASE Forget
    BY <2>2 DEF Forget, host, IInv, EvidenceOK
  <2>3. CASE \E inTime \in BOOLEAN : ShutdownRecorded(inTime)
    BY <2>3 DEF ShutdownRecorded, Recorded
  <2>. QED
    BY <2>1, <2>2, <2>3, RecordWriters
<1>. QED
  BY <1>1, LeaseInductive, PTL DEF Spec, EvidenceOutlivesProcess

\* Only one step ends a lease.
LEMMA LeaseEnders ==
    ASSUME TypeOK, TokenOK, Next, lease # None, lease' = None
    PROVE  ClearStore
<1>. USE DEF store
<1>1. \A state \in LeaseState : ~SetState(state)
  BY StateChanges
<1>2. \A operation : BeginCleanup(operation) => ~UNCHANGED <<leases, gateways>>
  BY CleanupBegins
<1>3. \A state \in LeaseState : lease' # [lease EXCEPT !.state = state, !.gw = svc]
  BY GatewayNamed
<1>4. lease.state \in LeaseState
  BY DEF TypeOK, DataTyped, Lease
<1>5. CASE AcquireStep
  BY <1>1, <1>2, <1>3, <1>4, <1>5, NoneIsNoData
     DEF AcquireStep, Reserve, FlashGrant, Grant, AcquireFails, Launch, LaunchFails,
         StartFails, StartUnverified, StartVerified, LeaseState, supervisor
<1>6. CASE ExpiryStep
  BY <1>1, <1>2, <1>3, <1>4, <1>6, NoneIsNoData
     DEF ExpiryStep, EnterGrace, Expire, Renew, Release, ShutdownRequested, Shutdown,
         TimePasses, LeaseState, supervisor
<1>7. CASE HealthStep
  BY <1>1, <1>2, <1>3, <1>4, <1>7, NoneIsNoData
     DEF HealthStep, CheckHealth, HealthKept, HealthLost, HealthExited, Refresh,
         GatewayLost, Rescanned, LeaseState, supervisor
<1>8. CASE CleanupStep
  BY <1>1, <1>2, <1>3, <1>4, <1>8, NoneIsNoData
     DEF CleanupStep, StopDone, StopSlow, LateStop, Confirm, Unconfirmed, Forget,
         LeaseState, supervisor
<1>9. CASE RecoveryStep
  BY <1>1, <1>2, <1>3, <1>4, <1>9, NoneIsNoData
     DEF RecoveryStep, Reconcile, Unproven, FlashReconciled, ShutdownRecorded,
         OwnerNotReclaimed, AbsenceProven, CleanupReclaimed, LeaseState, supervisor
<1>10. CASE JobStep
  BY <1>1, <1>2, <1>3, <1>4, <1>10, NoneIsNoData
     DEF JobStep, Commit, JobStarts, JobEnds, JobFinishes, LeaseState, supervisor
<1>11. CASE HostStep
  BY <1>1, <1>2, <1>3, <1>4, <1>11, NoneIsNoData
     DEF HostStep, Die, Start, OpenOcdBinds, OpenOcdExits, CliTakes, CliEnds,
         OperatorRecovers, LeaseState, supervisor
<1>. QED
  BY <1>5, <1>6, <1>7, <1>8, <1>9, <1>10, <1>11, NextSections

\* ClearStore, whatever led to it: the OpenOCD that the lease names is gone.
THEOREM GatewayGoneBeforeEnd == Spec => NoLeaseEndsOverItsGateway
<1> DEFINE Ended == lease # None /\ lease' = None => lease.gw \notin ocd
<1>1. IInv /\ [Next]_vars => [Ended]_vars
  <2>. SUFFICES ASSUME IInv, Next, lease # None, lease' = None PROVE lease.gw \notin ocd
    OBVIOUS
  <2>1. ClearStore
    BY LeaseEnders DEF IInv
  <2>. QED
    BY <2>1 DEF ClearStore, IInv, EvidenceOK
<1>. QED
  BY <1>1, LeaseInductive, PTL DEF Spec, NoLeaseEndsOverItsGateway

(***************************************************************************)
(* With an Agent whose loop ticks within the reconnect grace, a flash job  *)
(* keeps its lease, an idle Gateway owns nothing, and the Gateway          *)
(* implements ExclusiveLease.  Without that assumption an acquire can take *)
(* the lease of a flash job away, so it cannot be dropped.                 *)
(***************************************************************************)

\* Time leads out of the grace state only.
TimerOK == timer = "dead" => ~InState({"STARTING", "ACTIVE"})

\* A job that is under way has the lease, its adoption and its token.
JobOK ==
    job \in {"queued", "flashing"} =>
        /\ lease # None /\ lease.id = jobLease
        /\ adopted /\ flashTok /\ timer # "dead"

PromptInv == IInv /\ TimerOK /\ JobOK

-----------------------------------------------------------------------------

\* No job is under way while an operation is.
LEMMA QuietOperation ==
    ASSUME PromptInv, pc # "free"
    PROVE  ~flashTok /\ job \notin {"queued", "flashing"}
BY DEF PromptInv, IInv, TokenOK, JobOK

\* An operation on a lease that is not yet ending finds the timer running.
LEMMA OperationPrompt ==
    ASSUME PromptInv, pc # "free", InState({"STARTING", "ACTIVE"}), UNCHANGED <<timer, job>>
    PROVE  TimerOK' /\ JobOK'
<1>1. timer' # "dead" /\ job' \notin {"queued", "flashing"}
  BY QuietOperation DEF PromptInv, TimerOK
<1>. QED
  BY <1>1 DEF TimerOK, JobOK

\* acquire and the launch of its OpenOCD.
LEMMA AcquirePrompt ==
    ASSUME PromptAgent, PromptInv, AcquireStep
    PROVE  TimerOK' /\ JobOK'
<1>. USE NoneAssumption, TypeParts
     DEF PromptInv, IInv, DataTyped, ControlOK, TokenOK, TimerOK, JobOK, InState,
         SetState, Goto, Return, Lease, Mode, LeaseState, Idle, store, timing,
         supervisor, jobs, host
<1>1. CASE \E mode \in Mode : Reserve(mode)
  BY <1>1 DEF Reserve
<1>2. CASE FlashGrant
  <2>1. pc # "free" /\ InState({"STARTING", "ACTIVE"}) /\ UNCHANGED <<timer, job>>
    BY <1>2 DEF FlashGrant
  <2>. QED
    BY <2>1, OperationPrompt
<1>3. CASE Grant
  <2>1. pc # "free" /\ InState({"STARTING", "ACTIVE"}) /\ UNCHANGED <<timer, job>>
    BY <1>3 DEF Grant
  <2>. QED
    BY <2>1, OperationPrompt
<1>4. CASE AcquireFails
  <2>1. pc # "free" /\ InState({"STARTING", "ACTIVE"}) /\ UNCHANGED <<timer, job>>
    BY <1>4 DEF AcquireFails
  <2>. QED
    BY <2>1, OperationPrompt
<1>5. CASE Launch
  BY <1>5 DEF Launch
<1>6. CASE LaunchFails
  BY <1>6 DEF LaunchFails
<1>7. CASE StartFails
  BY <1>7 DEF StartFails
<1>8. CASE StartUnverified
  BY <1>8 DEF StartUnverified
<1>9. CASE StartVerified
  BY <1>9 DEF StartVerified
<1>. QED
  BY <1>1, <1>2, <1>3, <1>4, <1>5, <1>6, <1>7, <1>8, <1>9 DEF AcquireStep

\* What ends a lease from outside.
LEMMA ExpiryPrompt ==
    ASSUME PromptAgent, PromptInv, ExpiryStep
    PROVE  TimerOK' /\ JobOK'
<1>. USE NoneAssumption, TypeParts
     DEF PromptInv, IInv, DataTyped, ControlOK, TokenOK, TimerOK, JobOK, InState,
         SetState, Goto, Return, Lease, Mode, LeaseState, Idle, store, timing,
         supervisor, jobs, host
<1>1. CASE \E caller \in {"acquire", "tick"} : EnterGrace(caller)
  BY <1>1 DEF EnterGrace, Advances
<1>2. CASE \E caller \in {"acquire", "tick"} : Expire(caller)
  BY <1>2 DEF Expire, BeginCleanup, Advances
<1>3. CASE Renew
  BY <1>3 DEF Renew
<1>4. CASE Release
  BY <1>4 DEF Release, BeginCleanup
<1>5. CASE ShutdownRequested
  BY <1>5 DEF ShutdownRequested, BeginCleanup
<1>6. CASE Shutdown
  BY <1>6 DEF Shutdown, BeginCleanup
<1>7. CASE TimePasses
  BY <1>7 DEF TimePasses
<1>. QED
  BY <1>1, <1>2, <1>3, <1>4, <1>5, <1>6, <1>7 DEF ExpiryStep

\* tick and runtime_snapshot.
LEMMA HealthPrompt ==
    ASSUME PromptAgent, PromptInv, HealthStep
    PROVE  TimerOK' /\ JobOK'
<1>. USE NoneAssumption, TypeParts
     DEF PromptInv, IInv, DataTyped, ControlOK, TokenOK, TimerOK, JobOK, InState,
         SetState, Goto, Return, Lease, Mode, LeaseState, Idle, store, timing,
         supervisor, jobs, host
<1>1. CASE \E caller \in {"rescan", "tick"} : CheckHealth(caller)
  BY <1>1 DEF CheckHealth
<1>2. CASE HealthKept
  BY <1>2 DEF HealthKept
<1>3. CASE HealthLost
  BY <1>3 DEF HealthLost
<1>4. CASE HealthExited
  BY <1>4 DEF HealthExited
<1>5. CASE Refresh
  <2>1. pc # "free" /\ InState({"STARTING", "ACTIVE"}) /\ UNCHANGED <<timer, job>>
    BY <1>5 DEF Refresh
  <2>. QED
    BY <2>1, OperationPrompt
<1>6. CASE GatewayLost
  BY <1>6 DEF GatewayLost
<1>7. CASE Rescanned
  BY <1>7 DEF Rescanned
<1>. QED
  BY <1>1, <1>2, <1>3, <1>4, <1>5, <1>6, <1>7 DEF HealthStep

\* The cleanup of a lease, and the stop thread it may leave behind.
LEMMA CleanupPrompt ==
    ASSUME PromptAgent, PromptInv, CleanupStep
    PROVE  TimerOK' /\ JobOK'
<1>. USE NoneAssumption, TypeParts
     DEF PromptInv, IInv, DataTyped, ControlOK, TokenOK, TimerOK, JobOK, InState,
         SetState, Goto, Return, Lease, Mode, LeaseState, Idle, store, timing,
         supervisor, jobs, host
<1>1. CASE StopDone
  BY <1>1 DEF StopDone
<1>2. CASE StopSlow
  BY <1>2 DEF StopSlow
<1>3. CASE LateStop
  BY <1>3 DEF LateStop
<1>4. CASE Confirm
  BY <1>4 DEF Confirm
<1>5. CASE Unconfirmed
  BY <1>5 DEF Unconfirmed
<1>6. CASE ClearStore
  BY <1>6 DEF ClearStore
<1>7. CASE Forget
  BY <1>7 DEF Forget
<1>. QED
  BY <1>1, <1>2, <1>3, <1>4, <1>5, <1>6, <1>7 DEF CleanupStep

\* The reconciliation of a lease in RECOVERY_REQUIRED.
LEMMA RecoveryPrompt ==
    ASSUME PromptAgent, PromptInv, RecoveryStep
    PROVE  TimerOK' /\ JobOK'
<1>. USE NoneAssumption, TypeParts
     DEF PromptInv, IInv, DataTyped, ControlOK, TokenOK, TimerOK, JobOK, InState,
         SetState, Goto, Return, Lease, Mode, LeaseState, Idle, store, timing,
         supervisor, jobs, host
<1>1. CASE Reconcile
  BY <1>1 DEF Reconcile
<1>2. CASE Unproven
  BY <1>2 DEF Unproven
<1>3. CASE FlashReconciled
  BY <1>3 DEF FlashReconciled
<1>4. CASE \E inTime \in BOOLEAN : ShutdownRecorded(inTime)
  BY <1>4 DEF ShutdownRecorded
<1>5. CASE OwnerNotReclaimed
  BY <1>5 DEF OwnerNotReclaimed
<1>6. CASE AbsenceProven
  BY <1>6 DEF AbsenceProven
<1>7. CASE CleanupReclaimed
  <2>1. lease # None /\ lease.mode = "DEBUG" /\ pc # "free"
    BY <1>7 DEF CleanupReclaimed
  <2>2. lease'.state = "CLEANING" /\ job' \notin {"queued", "flashing"}
    BY <1>7, <2>1, QuietOperation, CleanupBegins DEF CleanupReclaimed
  <2>. QED
    BY <2>2
<1>. QED
  BY <1>1, <1>2, <1>3, <1>4, <1>5, <1>6, <1>7 DEF RecoveryStep

\* The flash job.
LEMMA JobPrompt ==
    ASSUME PromptAgent, PromptInv, JobStep
    PROVE  TimerOK' /\ JobOK'
<1>. USE NoneAssumption, TypeParts
     DEF PromptInv, IInv, DataTyped, ControlOK, TokenOK, TimerOK, JobOK, InState,
         SetState, Goto, Return, Lease, Mode, LeaseState, Idle, store, timing,
         supervisor, jobs, host
<1>1. CASE Commit
  BY <1>1 DEF Commit
<1>2. CASE JobStarts
  BY <1>2 DEF JobStarts
<1>3. CASE JobEnds
  BY <1>3 DEF JobEnds
<1>4. CASE JobFinishes
  BY <1>4 DEF JobFinishes, BeginCleanup
<1>. QED
  BY <1>1, <1>2, <1>3, <1>4 DEF JobStep

\* The Agent process and the rest of the host.
LEMMA HostPrompt ==
    ASSUME PromptAgent, PromptInv, HostStep
    PROVE  TimerOK' /\ JobOK'
<1>. USE NoneAssumption, TypeParts
     DEF PromptInv, IInv, DataTyped, ControlOK, TokenOK, TimerOK, JobOK, InState,
         SetState, Goto, Return, Lease, Mode, LeaseState, Idle, store, timing,
         supervisor, jobs, host
<1>1. CASE Die
  BY <1>1 DEF Die
<1>2. CASE Start
  BY <1>2 DEF Start
<1>3. CASE \E g \in ocd : OpenOcdBinds(g)
  BY <1>3 DEF OpenOcdBinds
<1>4. CASE \E g \in ocd : OpenOcdExits(g)
  BY <1>4 DEF OpenOcdExits
<1>5. CASE CliTakes
  BY <1>5 DEF CliTakes
<1>6. CASE CliEnds
  BY <1>6 DEF CliEnds
<1>7. CASE OperatorRecovers
  BY <1>7 DEF OperatorRecovers
<1>. QED
  BY <1>1, <1>2, <1>3, <1>4, <1>5, <1>6, <1>7 DEF HostStep

LEMMA PromptInit == Init => PromptInv
BY InitInv DEF Init, PromptInv, TimerOK, JobOK, InState

LEMMA PromptStep == PromptAgent /\ PromptInv /\ [Next]_vars => PromptInv'
<1>1. ASSUME PromptAgent, PromptInv, Next PROVE TimerOK' /\ JobOK'
  BY <1>1, NextSections, AcquirePrompt, ExpiryPrompt, HealthPrompt, CleanupPrompt,
     RecoveryPrompt, JobPrompt, HostPrompt
<1>2. ASSUME PromptInv, UNCHANGED vars PROVE TimerOK' /\ JobOK'
  BY <1>2 DEF vars, store, timing, jobs, PromptInv, TimerOK, JobOK, InState
<1>. QED
  BY <1>1, <1>2, StepInv DEF PromptInv

\* The stronger invariant of a prompt Agent holds in every reachable state.
THEOREM PromptInductive ==
    ASSUME PromptAgent
    PROVE  Spec => []PromptInv
<1>1. PromptInv /\ [Next]_vars => PromptInv'
  BY PromptAgent, PromptStep
<1>. QED
  BY <1>1, PromptInit, PTL DEF Spec

\* adopt_flash_job to finish_flash_job: the lease of a flash job outlives it.
THEOREM FlashLeaseIsKept ==
    ASSUME PromptAgent
    PROVE  Spec => []FlashKeepsLease
<1>1. PromptInv => FlashKeepsLease
  BY DEF PromptInv, JobOK, FlashKeepsLease
<1>. QED
  BY <1>1, PromptInductive, PTL

\* Without a lease the Agent owns nothing, and nothing of it runs unguarded.
THEOREM IdleGatewayIsQuiet ==
    ASSUME PromptAgent
    PROVE  Spec => []IdleIsQuiet
<1>1. PromptInv => IdleIsQuiet
  <2>. SUFFICES ASSUME PromptInv, lease = None
                PROVE  ~Held /\ (ocd = {} \/ other = "stale")
    BY DEF IdleIsQuiet
  <2>1. ~Held
    BY DEF PromptInv, IInv, JobOK, TokenOK, ServiceOK, Held
  <2>. QED
    BY <2>1 DEF PromptInv, IInv, OpenOcdIsOwned, Held
<1>. QED
  BY <1>1, PromptInductive, PTL

-----------------------------------------------------------------------------

\* What the abstract lease shows of a state.
Outside == <<IF lease = None THEN None ELSE lease.id, leases, Driver>>

\* A step that keeps the lease, and what drives the probe, cannot be seen.
LEMMA SameLease ==
    ASSUME lease # None, lease' # None, lease'.id = lease.id,
           UNCHANGED <<leases, sess, job, other>>, flashTok' <=> flashTok
    PROVE  UNCHANGED Outside
BY DEF Outside, Driver, Held

\* acquire and the launch of its OpenOCD.
LEMMA AcquireRefines ==
    ASSUME PromptInv, PromptInv', AcquireStep
    PROVE  Abstract!Next \/ UNCHANGED Outside
<1>. USE ConstantAssumption, NoneAssumption, TypeParts
     DEF PromptInv, IInv, DataTyped, ControlOK, ServiceOK, TokenOK, OwnerOK, JobOK,
         Outside, Driver, Held, InState, SetState, Goto, Return, Lease, Mode,
         LeaseState, Idle, store, timing, supervisor, jobs, host, Abstract!Next,
         Abstract!Grant, Abstract!Drive, Abstract!Rest, Abstract!Abandon, Abstract!End
<1>1. CASE \E mode \in Mode : Reserve(mode)
  BY <1>1 DEF Reserve
<1>2. CASE FlashGrant
  <2>1. lease # None /\ ~Held /\ other = None /\ Driver = None
    BY <1>2, QuietOperation DEF FlashGrant, CanOwn
  <2>2. lease' # None /\ lease'.id = lease.id
    BY <1>2, <2>1, StateChanges DEF FlashGrant
  <2>3. leases' = leases /\ other' = None /\ Held'
    BY <1>2, <2>1 DEF FlashGrant
  <2>4. Driver' = lease.id /\ lease.id # None
    BY <2>1, <2>2, <2>3
  <2>. QED
    BY <2>1, <2>2, <2>3, <2>4
<1>3. CASE Grant
  <2>1. lease' = [lease EXCEPT !.state = "ACTIVE", !.gw = svc]
    BY <1>3 DEF Grant
  <2>2. lease # None /\ "ACTIVE" \in LeaseState
    BY <1>3 DEF Grant
  <2>3. lease' # None /\ lease'.id = lease.id
    BY <2>1, <2>2, GatewayNamed
  <2>. QED
    BY <1>3, <2>2, <2>3, SameLease DEF Grant
<1>4. CASE AcquireFails
  <2>1. lease # None /\ pc # "free"
    BY <1>4 DEF AcquireFails
  <2>2. lease' # None /\ lease'.id = lease.id /\ ~flashTok /\ ~flashTok'
    BY <1>4, <2>1, QuietOperation, CleanupBegins DEF AcquireFails
  <2>. QED
    BY <1>4, <2>1, <2>2, SameLease DEF AcquireFails
<1>5. CASE Launch
  BY <1>5 DEF Launch, CanOwn
<1>6. CASE LaunchFails
  BY <1>6 DEF LaunchFails
<1>7. CASE StartFails
  BY <1>7 DEF StartFails, StopService
<1>8. CASE StartUnverified
  BY <1>8 DEF StartUnverified
<1>9. CASE StartVerified
  BY <1>9 DEF StartVerified
<1>. QED
  BY <1>1, <1>2, <1>3, <1>4, <1>5, <1>6, <1>7, <1>8, <1>9 DEF AcquireStep

\* What ends a lease from outside.
LEMMA ExpiryRefines ==
    ASSUME PromptInv, PromptInv', ExpiryStep
    PROVE  Abstract!Next \/ UNCHANGED Outside
<1>. USE ConstantAssumption, NoneAssumption, TypeParts
     DEF PromptInv, IInv, DataTyped, ControlOK, ServiceOK, TokenOK, OwnerOK, JobOK,
         Outside, Driver, Held, InState, SetState, Goto, Return, Lease, Mode,
         LeaseState, Idle, store, timing, supervisor, jobs, host, Abstract!Next,
         Abstract!Grant, Abstract!Drive, Abstract!Rest, Abstract!Abandon, Abstract!End
<1>1. CASE \E caller \in {"acquire", "tick"} : EnterGrace(caller)
  BY <1>1 DEF EnterGrace
<1>2. CASE \E caller \in {"acquire", "tick"} : Expire(caller)
  BY <1>2 DEF Expire, BeginCleanup
<1>3. CASE Renew
  BY <1>3 DEF Renew
<1>4. CASE Release
  BY <1>4 DEF Release, BeginCleanup
<1>5. CASE ShutdownRequested
  BY <1>5 DEF ShutdownRequested, BeginCleanup
<1>6. CASE Shutdown
  BY <1>6 DEF Shutdown, BeginCleanup
<1>7. CASE TimePasses
  BY <1>7 DEF TimePasses
<1>. QED
  BY <1>1, <1>2, <1>3, <1>4, <1>5, <1>6, <1>7 DEF ExpiryStep

\* tick and runtime_snapshot.
LEMMA HealthRefines ==
    ASSUME PromptInv, PromptInv', HealthStep
    PROVE  Abstract!Next \/ UNCHANGED Outside
<1>. USE ConstantAssumption, NoneAssumption, TypeParts
     DEF PromptInv, IInv, DataTyped, ControlOK, ServiceOK, TokenOK, OwnerOK, JobOK,
         Outside, Driver, Held, InState, SetState, Goto, Return, Lease, Mode,
         LeaseState, Idle, store, timing, supervisor, jobs, host, Abstract!Next,
         Abstract!Grant, Abstract!Drive, Abstract!Rest, Abstract!Abandon, Abstract!End
<1>1. CASE \E caller \in {"rescan", "tick"} : CheckHealth(caller)
  BY <1>1 DEF CheckHealth
<1>2. CASE HealthKept
  BY <1>2 DEF HealthKept
<1>3. CASE HealthLost
  BY <1>3 DEF HealthLost, StopService
<1>4. CASE HealthExited
  BY <1>4 DEF HealthExited
<1>5. CASE Refresh
  <2>1. lease' = [lease EXCEPT !.state = lease.state, !.gw = svc]
    BY <1>5 DEF Refresh
  <2>2. lease # None /\ lease.state \in LeaseState
    BY <1>5 DEF Refresh
  <2>3. lease' # None /\ lease'.id = lease.id
    BY <2>1, <2>2, GatewayNamed
  <2>. QED
    BY <1>5, <2>2, <2>3, SameLease DEF Refresh
<1>6. CASE GatewayLost
  <2>1. lease # None /\ SetState("GRACE") /\ "GRACE" \in LeaseState
    BY <1>6 DEF GatewayLost
  <2>2. lease' # None /\ lease'.id = lease.id
    BY <2>1, StateChanges
  <2>. QED
    BY <1>6, <2>1, <2>2, SameLease DEF GatewayLost
<1>7. CASE Rescanned
  BY <1>7 DEF Rescanned
<1>. QED
  BY <1>1, <1>2, <1>3, <1>4, <1>5, <1>6, <1>7 DEF HealthStep

\* The cleanup of a lease, and the stop thread it may leave behind.
LEMMA CleanupRefines ==
    ASSUME PromptInv, PromptInv', CleanupStep
    PROVE  Abstract!Next \/ UNCHANGED Outside
<1>. USE ConstantAssumption, NoneAssumption, TypeParts
     DEF PromptInv, IInv, DataTyped, ControlOK, ServiceOK, TokenOK, OwnerOK, JobOK,
         Outside, Driver, Held, InState, SetState, Goto, Return, Lease, Mode,
         LeaseState, Idle, store, timing, supervisor, jobs, host, Abstract!Next,
         Abstract!Grant, Abstract!Drive, Abstract!Rest, Abstract!Abandon, Abstract!End
<1>1. CASE StopDone
  BY <1>1 DEF StopDone, StopService
<1>2. CASE StopSlow
  <2>1. lease # None /\ SetState("RECOVERY_REQUIRED") /\ "RECOVERY_REQUIRED" \in LeaseState
    BY <1>2 DEF StopSlow
  <2>2. lease' # None /\ lease'.id = lease.id
    BY <2>1, StateChanges
  <2>. QED
    BY <1>2, <2>1, <2>2, SameLease DEF StopSlow
<1>3. CASE LateStop
  BY <1>3 DEF LateStop, StopService
<1>4. CASE Confirm
  BY <1>4 DEF Confirm
<1>5. CASE Unconfirmed
  <2>1. lease # None /\ SetState("RECOVERY_REQUIRED") /\ "RECOVERY_REQUIRED" \in LeaseState
    BY <1>5 DEF Unconfirmed
  <2>2. lease' # None /\ lease'.id = lease.id
    BY <2>1, StateChanges
  <2>. QED
    BY <1>5, <2>1, <2>2, SameLease DEF Unconfirmed
<1>6. CASE ClearStore
  BY <1>6 DEF ClearStore
<1>7. CASE Forget
  BY <1>7 DEF Forget
<1>. QED
  BY <1>1, <1>2, <1>3, <1>4, <1>5, <1>6, <1>7 DEF CleanupStep

\* The reconciliation of a lease in RECOVERY_REQUIRED.
LEMMA RecoveryRefines ==
    ASSUME PromptInv, PromptInv', RecoveryStep
    PROVE  Abstract!Next \/ UNCHANGED Outside
<1>. USE ConstantAssumption, NoneAssumption, TypeParts
     DEF PromptInv, IInv, DataTyped, ControlOK, ServiceOK, TokenOK, OwnerOK, JobOK,
         Outside, Driver, Held, InState, SetState, Goto, Return, Lease, Mode,
         LeaseState, Idle, store, timing, supervisor, jobs, host, Abstract!Next,
         Abstract!Grant, Abstract!Drive, Abstract!Rest, Abstract!Abandon, Abstract!End
<1>1. CASE Reconcile
  BY <1>1 DEF Reconcile
<1>2. CASE Unproven
  BY <1>2 DEF Unproven
<1>3. CASE FlashReconciled
  BY <1>3 DEF FlashReconciled, CanOwn
<1>4. CASE \E inTime \in BOOLEAN : ShutdownRecorded(inTime)
  BY <1>4 DEF ShutdownRecorded
<1>5. CASE OwnerNotReclaimed
  BY <1>5 DEF OwnerNotReclaimed
<1>6. CASE AbsenceProven
  BY <1>6 DEF AbsenceProven
<1>7. CASE CleanupReclaimed
  <2>1. lease # None /\ pc # "free"
    BY <1>7 DEF CleanupReclaimed
  <2>2. lease' # None /\ lease'.id = lease.id /\ ~flashTok /\ ~flashTok'
    BY <1>7, <2>1, QuietOperation, CleanupBegins DEF CleanupReclaimed
  <2>. QED
    BY <1>7, <2>1, <2>2, SameLease DEF CleanupReclaimed
<1>. QED
  BY <1>1, <1>2, <1>3, <1>4, <1>5, <1>6, <1>7 DEF RecoveryStep

\* The flash job.
LEMMA JobRefines ==
    ASSUME PromptInv, PromptInv', JobStep
    PROVE  Abstract!Next \/ UNCHANGED Outside
<1>. USE ConstantAssumption, NoneAssumption, TypeParts
     DEF PromptInv, IInv, DataTyped, ControlOK, ServiceOK, TokenOK, OwnerOK, JobOK,
         Outside, Driver, Held, InState, SetState, Goto, Return, Lease, Mode,
         LeaseState, Idle, store, timing, supervisor, jobs, host, Abstract!Next,
         Abstract!Grant, Abstract!Drive, Abstract!Rest, Abstract!Abandon, Abstract!End
<1>1. CASE Commit
  BY <1>1 DEF Commit
<1>2. CASE JobStarts
  BY <1>2 DEF JobStarts, CanOwn
<1>3. CASE JobEnds
  BY <1>3 DEF JobEnds
<1>4. CASE JobFinishes
  BY <1>4 DEF JobFinishes, BeginCleanup
<1>. QED
  BY <1>1, <1>2, <1>3, <1>4 DEF JobStep

\* The Agent process and the rest of the host.
LEMMA HostRefines ==
    ASSUME PromptInv, PromptInv', HostStep
    PROVE  Abstract!Next \/ UNCHANGED Outside
<1>. USE ConstantAssumption, NoneAssumption, TypeParts
     DEF PromptInv, IInv, DataTyped, ControlOK, ServiceOK, TokenOK, OwnerOK, JobOK,
         Outside, Driver, Held, InState, SetState, Goto, Return, Lease, Mode,
         LeaseState, Idle, store, timing, supervisor, jobs, host, Abstract!Next,
         Abstract!Grant, Abstract!Drive, Abstract!Rest, Abstract!Abandon, Abstract!End
<1>1. CASE Die
  BY <1>1 DEF Die
<1>2. CASE Start
  BY <1>2 DEF Start
<1>3. CASE \E g \in ocd : OpenOcdBinds(g)
  BY <1>3 DEF OpenOcdBinds
<1>4. CASE \E g \in ocd : OpenOcdExits(g)
  BY <1>4 DEF OpenOcdExits
<1>5. CASE CliTakes
  BY <1>5 DEF CliTakes
<1>6. CASE CliEnds
  BY <1>6 DEF CliEnds
<1>7. CASE OperatorRecovers
  BY <1>7 DEF OperatorRecovers
<1>. QED
  BY <1>1, <1>2, <1>3, <1>4, <1>5, <1>6, <1>7 DEF HostStep

\* Every step of the Gateway is a step of the exclusive lease, or not seen.
LEMMA StepRefines ==
    PromptInv /\ PromptInv' /\ [Next]_vars => [Abstract!Next]_(Abstract!vars)
<1>1. ASSUME PromptInv, PromptInv', Next PROVE Abstract!Next \/ UNCHANGED Outside
  BY <1>1, NextSections, AcquireRefines, ExpiryRefines, HealthRefines, CleanupRefines,
     RecoveryRefines, JobRefines, HostRefines
<1>2. UNCHANGED vars => UNCHANGED Outside
  BY DEF vars, store, supervisor, jobs, host, Outside, Driver, Held
<1>3. UNCHANGED Outside => UNCHANGED Abstract!vars
  BY DEF Outside, Abstract!vars
<1>. QED
  BY <1>1, <1>2, <1>3

\* The coordinator, the supervisor and the flash job together implement the
\* exclusive lease: unique identities, one holder, only the holder's processes
\* on the probe, no end under a running process.
THEOREM GatewayImplementsLease ==
    ASSUME PromptAgent
    PROVE  Spec => ImplementsExclusiveLease
<1>1. Init => Abstract!Init
  BY ConstantAssumption, NoneAssumption DEF Init, Abstract!Init, Driver, Held
<1>. QED
  BY <1>1, PromptInductive, StepRefines, PTL
     DEF Spec, ImplementsExclusiveLease, Abstract!Spec

=============================================================================
