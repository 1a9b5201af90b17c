------------------------ MODULE HardwareOwnerProofs ------------------------
(***************************************************************************)
(* What the hardware lock guarantees, for every set of processes and every *)
(* finite set of tokens.                                                   *)
(***************************************************************************)
EXTENDS HardwareOwner, FiniteSetTheorems, TLAPS

(***************************************************************************)
(* The inductive invariant.  HeldTokenOwnsLock and CrashBlocksAcquire are  *)
(* not inductive: that a token still owns the lock rests on the depth      *)
(* counting exactly the held tokens, and that nobody acquires after a      *)
(* crash rests on what every possible content of the disk says.            *)
(***************************************************************************)

DepthCountsTokens ==
    \A p \in Proc : depth[p] = Cardinality(Held(p))

WorkingOwnsLock ==
    \A p \in Proc : Working(p) => lock = p

OwnerIsRecorded ==
    \A p \in Proc : depth[p] > 0 =>
        step[p] = "ready" /\ record = "ACTIVE" /\ disk = {"ACTIVE"} /\ tool \subseteq {p}

StepOK ==
    \A p \in Proc :
        /\ step[p] = "activating" => record = "ACTIVE" /\ tool = {} /\ ~dirty
        /\ step[p] = "proven" => record = "ACTIVE" /\ tool = {}
        /\ step[p] = "idling" => record = "TORN" /\ tool = {}
        /\ step[p] = "truncated" => record = "IDLE" /\ tool = {} /\ ~dirty

RecordOK ==
    /\ record \in disk
    /\ tool # {} => record = "ACTIVE"
    /\ dirty => "IDLE" \notin disk /\ \A p \in Proc : depth[p] = 0

IInv ==
    /\ TypeOK
    /\ DepthCountsTokens
    /\ WorkingOwnsLock
    /\ OwnerIsRecorded
    /\ StepOK
    /\ RecordOK

-----------------------------------------------------------------------------

LEMMA HeldFinite ==
    ASSUME NEW p \in Proc
    PROVE  IsFiniteSet(Held(p))
BY ConstantAssumption, FS_Subset DEF Held

\* Handing out a new token keeps the depth equal to the number of tokens held.
LEMMA NewTokenCounts ==
    ASSUME TypeOK, DepthCountsTokens, NEW p \in Proc, NEW t \in Token, NewToken(p, t)
    PROVE  DepthCountsTokens' /\ depth' \in [Proc -> Nat]
           /\ token' \in [Proc -> [Token -> TokenState]]
<1>1. Held(p)' = Held(p) \cup {t} /\ t \notin Held(p)
  BY DEF NewToken, Held, TypeOK, TokenState
<1>2. Cardinality(Held(p)') = Cardinality(Held(p)) + 1
  BY <1>1, HeldFinite, FS_AddElement
<1>3. \A q \in Proc \ {p} : Held(q)' = Held(q) /\ depth'[q] = depth[q]
  BY DEF NewToken, Held, TypeOK
<1>4. depth'[p] = depth[p] + 1 /\ depth' \in [Proc -> Nat]
      /\ token' \in [Proc -> [Token -> TokenState]]
  BY DEF NewToken, TypeOK, TokenState
<1>. QED
  BY <1>2, <1>3, <1>4 DEF DepthCountsTokens

\* Giving a held token back keeps the depth equal to the number of tokens held.
LEMMA ReleaseCounts ==
    ASSUME TypeOK, DepthCountsTokens, NEW p \in Proc, NEW t \in Token,
           token[p][t] = "held", depth[p] > 0,
           token' = [token EXCEPT ![p][t] = "released"],
           depth' = [depth EXCEPT ![p] = depth[p] - 1]
    PROVE  DepthCountsTokens' /\ depth' \in [Proc -> Nat]
           /\ token' \in [Proc -> [Token -> TokenState]]
<1>1. Held(p)' = Held(p) \ {t} /\ t \in Held(p)
  BY DEF Held, TypeOK, TokenState
<1>2. Cardinality(Held(p)') = Cardinality(Held(p)) - 1
  BY <1>1, HeldFinite, FS_RemoveElement
<1>3. \A q \in Proc \ {p} : Held(q)' = Held(q) /\ depth'[q] = depth[q]
  BY DEF Held, TypeOK
<1>4. depth'[p] = depth[p] - 1 /\ depth' \in [Proc -> Nat]
      /\ token' \in [Proc -> [Token -> TokenState]]
  BY DEF TypeOK, TokenState
<1>. QED
  BY <1>2, <1>3, <1>4 DEF DepthCountsTokens

\* A process whose tokens are all unused counts none.
LEMMA FreshCounts ==
    ASSUME NEW p \in Proc, token[p] = [t \in Token |-> "unused"]
    PROVE  Cardinality(Held(p)) = 0
<1>1. Held(p) = {}
  BY DEF Held
<1>. QED
  BY <1>1, FS_EmptySet

LEMMA UnchangedCounts ==
    ASSUME DepthCountsTokens, UNCHANGED <<depth, token>>
    PROVE  DepthCountsTokens'
BY DEF DepthCountsTokens, Held

-----------------------------------------------------------------------------

LEMMA InitInv == Init => IInv
<1>. SUFFICES ASSUME Init PROVE IInv
  OBVIOUS
<1>1. TypeOK
  BY DEF Init, TypeOK, Record, Step, TokenState
<1>2. DepthCountsTokens
  BY FreshCounts DEF Init, DepthCountsTokens
<1>. QED
  BY <1>1, <1>2 DEF Init, IInv, WorkingOwnsLock, Working, OwnerIsRecorded, StepOK, RecordOK

\* The steps that touch neither depth nor tokens.
LEMMA FileStepInv ==
    ASSUME IInv, NEW p \in Proc,
           \/ AcquireOpen(p) \/ AcquireRefused(p) \/ AcquireWrite(p)
           \/ StartTool(p) \/ ToolExits(p) \/ LeftExits(p) \/ TruncateIdle(p) \/ SyncIdle(p)
           \/ RecoverOpen(p) \/ RecoverEnds(p) \/ RecoverProven(p) \/ RecoverWrite(p)
    PROVE  IInv'
<1>. USE DEF IInv, TypeOK, Record, Step, WorkingOwnsLock, Working, OwnerIsRecorded,
             StepOK, RecordOK
<1>1. DepthCountsTokens'
  <2>1. UNCHANGED <<depth, token>>
    BY DEF AcquireOpen, AcquireRefused, AcquireWrite, StartTool, ToolExits, LeftExits,
           TruncateIdle, SyncIdle, RecoverOpen, RecoverEnds, RecoverProven, RecoverWrite
  <2>. QED
    BY <2>1, UnchangedCounts
<1>2. CASE AcquireOpen(p)
  BY <1>1, <1>2, ConstantAssumption DEF AcquireOpen, OpenLocked
<1>3. CASE AcquireRefused(p)
  BY <1>1, <1>3 DEF AcquireRefused, Unlock
<1>4. CASE AcquireWrite(p)
  BY <1>1, <1>4 DEF AcquireWrite, WriteFile
<1>5. CASE StartTool(p)
  BY <1>1, <1>5 DEF StartTool
<1>6. CASE ToolExits(p)
  BY <1>1, <1>6 DEF ToolExits
<1>7. CASE TruncateIdle(p)
  BY <1>1, <1>7 DEF TruncateIdle, WriteFile
<1>8. CASE SyncIdle(p)
  BY <1>1, <1>8 DEF SyncIdle, Unlock
<1>9. CASE RecoverOpen(p)
  BY <1>1, <1>9, ConstantAssumption DEF RecoverOpen, OpenLocked
<1>10. CASE RecoverEnds(p)
  BY <1>1, <1>10 DEF RecoverEnds, Unlock
<1>11. CASE RecoverProven(p)
  BY <1>1, <1>11 DEF RecoverProven
<1>12. CASE RecoverWrite(p)
  BY <1>1, <1>12 DEF RecoverWrite, WriteFile
<1>13. CASE LeftExits(p)
  BY <1>1, <1>13 DEF LeftExits
<1>. QED
  BY <1>2, <1>3, <1>4, <1>5, <1>6, <1>7, <1>8, <1>9, <1>10, <1>11, <1>12, <1>13

\* The steps that hand out a token or take one back.
LEMMA TokenStepInv ==
    ASSUME IInv, NEW p \in Proc, NEW t \in Token,
           \/ AcquireNested(p, t) \/ AcquireSync(p, t)
           \/ ReleaseNested(p, t) \/ ReleaseLast(p, t)
    PROVE  IInv'
<1>. USE DEF IInv, WorkingOwnsLock, Working, OwnerIsRecorded, StepOK, RecordOK
<1>1. CASE AcquireNested(p, t)
  <2>1. DepthCountsTokens' /\ TypeOK'
    BY <1>1, NewTokenCounts DEF AcquireNested, TypeOK
  <2>. QED
    BY <1>1, <2>1 DEF AcquireNested, NewToken, TypeOK
<1>2. CASE AcquireSync(p, t)
  <2>1. DepthCountsTokens' /\ TypeOK'
    BY <1>2, NewTokenCounts DEF AcquireSync, TypeOK, Step
  <2>. QED
    BY <1>2, <2>1 DEF AcquireSync, NewToken, TypeOK
<1>3. CASE ReleaseNested(p, t)
  <2>1. /\ TypeOK /\ DepthCountsTokens
        /\ token[p][t] = "held" /\ depth[p] > 0
        /\ token' = [token EXCEPT ![p][t] = "released"]
        /\ depth' = [depth EXCEPT ![p] = depth[p] - 1]
    BY <1>3 DEF ReleaseNested, TypeOK
  <2>2. DepthCountsTokens' /\ depth' \in [Proc -> Nat]
        /\ token' \in [Proc -> [Token -> TokenState]]
    BY <2>1, ReleaseCounts
  <2>3. TypeOK'
    BY <1>3, <2>2 DEF ReleaseNested, TypeOK
  <2>. QED
    BY <1>3, <2>2, <2>3 DEF ReleaseNested, TypeOK
<1>4. CASE ReleaseLast(p, t)
  <2>1. /\ TypeOK /\ DepthCountsTokens
        /\ token[p][t] = "held" /\ depth[p] > 0
        /\ token' = [token EXCEPT ![p][t] = "released"]
        /\ depth' = [depth EXCEPT ![p] = depth[p] - 1]
    BY <1>4 DEF ReleaseLast, TypeOK
  <2>2. DepthCountsTokens' /\ depth' \in [Proc -> Nat]
        /\ token' \in [Proc -> [Token -> TokenState]]
    BY <2>1, ReleaseCounts
  <2>3. TypeOK'
    BY <1>4, <2>2 DEF ReleaseLast, LeaveTool, WriteFile, TypeOK, Step, Record
  <2>4. tool' = {}
    \* No orphan is alive while somebody owns: tool is at most the owner's own.
    BY <1>4 DEF ReleaseLast, LeaveTool, TypeOK
  <2>. QED
    BY <1>4, <2>2, <2>3, <2>4 DEF ReleaseLast, WriteFile, TypeOK
<1>. QED
  BY <1>1, <1>2, <1>3, <1>4

LEMMA ExitInv ==
    ASSUME IInv, NEW p \in Proc, Exit(p)
    PROVE  IInv'
<1>1. token'[p] = [t \in Token |-> "unused"] /\ depth' = depth
      /\ \A q \in Proc \ {p} : token'[q] = token[q]
  BY DEF Exit, IInv, TypeOK
<1>2. Held(p)' = {} /\ \A q \in Proc \ {p} : Held(q)' = Held(q)
  BY <1>1 DEF Held
<1>3. DepthCountsTokens'
  BY <1>1, <1>2, FS_EmptySet DEF Exit, IInv, DepthCountsTokens
<1>4. TypeOK'
  BY DEF Exit, IInv, TypeOK, TokenState
<1>. QED
  BY <1>3, <1>4 DEF Exit, IInv, WorkingOwnsLock, Working, OwnerIsRecorded, StepOK, RecordOK

\* A crash frees the lock, and the record it leaves keeps everybody else out.
LEMMA CrashInv ==
    ASSUME IInv, NEW p \in Proc, Crash(p)
    PROVE  IInv'
<1>1. /\ token'[p] = [t \in Token |-> "unused"] /\ depth'[p] = 0
      /\ \A q \in Proc \ {p} : token'[q] = token[q] /\ depth'[q] = depth[q]
  BY DEF Crash, IInv, TypeOK
<1>2. Held(p)' = {} /\ \A q \in Proc \ {p} : Held(q)' = Held(q)
  BY <1>1 DEF Held
<1>3. DepthCountsTokens'
  BY <1>1, <1>2, FS_EmptySet DEF IInv, DepthCountsTokens
<1>4. TypeOK'
  BY DEF Crash, IInv, TypeOK, TokenState, Step
<1>5. lock = p /\ \A q \in Proc \ {p} : depth[q] = 0 /\ step[q] = "ready"
  BY DEF Crash, IInv, WorkingOwnsLock, Working, TypeOK
<1>6. WorkingOwnsLock' /\ OwnerIsRecorded' /\ StepOK'
  BY <1>5 DEF Crash, IInv, TypeOK, WorkingOwnsLock, Working, OwnerIsRecorded, StepOK
<1>7. RecordOK'
  BY <1>5 DEF Crash, IInv, TypeOK, OwnerIsRecorded, RecordOK
<1>. QED
  BY <1>3, <1>4, <1>6, <1>7 DEF IInv

LEMMA PowerLossInv ==
    ASSUME IInv, PowerLoss
    PROVE  IInv'
<1>1. \A p \in Proc : token'[p] = [t \in Token |-> "unused"] /\ depth'[p] = 0
  BY DEF PowerLoss
<1>2. \A p \in Proc : Held(p)' = {}
  BY <1>1 DEF Held
<1>3. DepthCountsTokens'
  BY <1>1, <1>2, FS_EmptySet DEF DepthCountsTokens
<1>4. TypeOK'
  BY DEF PowerLoss, IInv, TypeOK, TokenState, Step
<1>5. WorkingOwnsLock' /\ OwnerIsRecorded' /\ StepOK'
  BY DEF PowerLoss, WorkingOwnsLock, Working, OwnerIsRecorded, StepOK
<1>6. RecordOK'
  BY DEF PowerLoss, IInv, OwnerIsRecorded, RecordOK
<1>. QED
  BY <1>3, <1>4, <1>5, <1>6 DEF IInv

LEMMA StepInv == IInv /\ [Next]_vars => IInv'
<1>1. ASSUME IInv, Next PROVE IInv'
  BY <1>1, FileStepInv, TokenStepInv, ExitInv, CrashInv, PowerLossInv DEF Next
<1>2. ASSUME IInv, UNCHANGED vars PROVE IInv'
  BY <1>2 DEF vars, IInv, TypeOK, DepthCountsTokens, Held, WorkingOwnsLock, Working,
              OwnerIsRecorded, StepOK, RecordOK
<1>. QED
  BY <1>1, <1>2

\* The inductive invariant holds in every reachable state.
THEOREM Inductive == Spec => []IInv
BY InitInv, StepInv, PTL DEF Spec

-----------------------------------------------------------------------------

\* Every variable keeps its type; in particular no depth ever falls below zero.
THEOREM TypeCorrect == Spec => []TypeOK
<1>1. IInv => TypeOK
  BY DEF IInv
<1>. QED
  BY <1>1, Inductive, PTL

\* While any token of a process is held, nested or not, it has the flock.
THEOREM TokenOwnsLock == Spec => []HeldTokenOwnsLock
<1>1. IInv => HeldTokenOwnsLock
  <2>. SUFFICES ASSUME IInv, NEW p \in Proc, NEW t \in Held(p) PROVE lock = p
    BY DEF HeldTokenOwnsLock
  <2>1. Cardinality(Held(p)) # 0
    BY HeldFinite, FS_EmptySet
  <2>2. depth[p] > 0
    BY <2>1 DEF IInv, DepthCountsTokens, TypeOK
  <2>. QED
    BY <2>2 DEF IInv, WorkingOwnsLock, Working
<1>. QED
  BY <1>1, Inductive, PTL

\* After an owner died nobody owns the hardware before a recover has run.
THEOREM CrashIsFailClosed == Spec => []CrashBlocksAcquire
<1>1. IInv => CrashBlocksAcquire
  BY DEF IInv, RecordOK, CrashBlocksAcquire
<1>. QED
  BY <1>1, Inductive, PTL

\* A power loss in the middle of a use is always visible in the record.
THEOREM PowerLossIsVisible == Spec => []InUseSurvivesPowerLoss
<1>1. IInv => InUseSurvivesPowerLoss
  BY DEF IInv, OwnerIsRecorded, InUseSurvivesPowerLoss
<1>. QED
  BY <1>1, Inductive, PTL

\* Whoever becomes the owner finds no OpenOCD of an owner that died.
THEOREM OrphansEndFirst == Spec => NoOrphanDriver
<1> DEFINE Fresh == \A p \in Proc : depth[p] = 0 /\ depth'[p] > 0 => tool = {}
<1>1. IInv /\ [Next]_vars => [Fresh]_vars
  <2>. SUFFICES ASSUME IInv, Next, NEW p \in Proc, depth[p] = 0, depth'[p] > 0
                PROVE  tool = {}
    OBVIOUS
  <2>1. depth' # depth
    OBVIOUS
  <2>2. CASE \E q \in Proc, t \in Token : AcquireSync(q, t)
    BY <2>2 DEF AcquireSync, IInv, StepOK
  <2>3. CASE \E q \in Proc, t \in Token : AcquireNested(q, t)
    BY <2>3 DEF AcquireNested, NewToken, IInv, TypeOK
  <2>4. CASE \E q \in Proc, t \in Token : ReleaseNested(q, t) \/ ReleaseLast(q, t)
    BY <2>4 DEF ReleaseNested, ReleaseLast, IInv, TypeOK
  <2>5. CASE \E q \in Proc : Crash(q)
    BY <2>5 DEF Crash, IInv, TypeOK
  <2>6. CASE PowerLoss
    BY <2>6 DEF PowerLoss
  <2>. QED
    BY <2>1, <2>2, <2>3, <2>4, <2>5, <2>6
       DEF Next, AcquireOpen, AcquireRefused, AcquireWrite, StartTool, ToolExits, LeftExits,
           TruncateIdle, SyncIdle, RecoverOpen, RecoverEnds, RecoverProven, RecoverWrite,
           Exit
<1>. QED
  BY <1>1, Inductive, PTL DEF Spec, NoOrphanDriver

=============================================================================
