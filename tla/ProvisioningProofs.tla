------------------------- MODULE ProvisioningProofs -------------------------
(***************************************************************************)
(* What flash and provision_bootloader guarantee on a board that may fail  *)
(* or lose its power at any step, for any images, any number of            *)
(* transactions and any width of the sequence number.                      *)
(***************************************************************************)
EXTENDS Provisioning, TLAPS

(***************************************************************************)
(* The inductive invariant.  Nothing the properties speak of is inductive: *)
(* that the metadata describe the Application rests on what the steps      *)
(* before their write have left on the board, that a success is real on    *)
(* what the board showed at the step before.                               *)
(***************************************************************************)

\* From the comparison on, the transaction works from the approved image.
StagedOK == pc \in FlashSteps \ {"stage"} => staged = img

\* There is no valid metadata while sectors 4 to 7 are worked on, and no other
\* Application after they were verified.
FlashOK ==
    /\ pc \in {"eraseApp", "writeApp", "verifyApp", "writeMeta"} => meta = Broken
    /\ pc \in {"writeMeta", "readback", "reset", "confirm", "bootCheck"} => app = staged
    /\ pc = "bootCheck" => meta = Confirmed

\* What provision_bootloader knows of the Bootloader and of WRP on its way out.
FactoryOK ==
    /\ pc \in {"restore", "final"} /\ verified => boot = "trusted"
    /\ pc \in {"factoryReset", "post"} => boot = "trusted"
    /\ pc = "factoryReset" => wrp = "on"

\* Up to here a transaction may still refuse.
PreDestructive == {"stage", "readMeta", "inspect", "gate", "factoryCheck"}
RefusalOK == pc \in PreDestructive => ~touched

\* A transaction under way has been counted.
CountOK == pc # "idle" => ops # 0

IInv ==
    /\ TypeOK /\ CountOK /\ StagedOK /\ FlashOK /\ FactoryOK /\ RefusalOK
    /\ MetadataDescribesApp /\ FailureIsReported

-----------------------------------------------------------------------------
(* TypeOK in parts: the provers do flags and data apart.                   *)

FlagsTyped ==
    cancel \in BOOLEAN /\ verified \in BOOLEAN /\ restored \in BOOLEAN /\ touched \in BOOLEAN

DataTyped ==
    /\ BoardTypeOK
    /\ pc \in FlashSteps \cup FactorySteps \cup {"idle"}
    /\ img \in Image /\ file \in Image /\ staged \in Image /\ seq \in 0..Width - 1
    /\ asked \in {"none", "on", "off"} /\ ops \in 0..MaxOps
    /\ result.status \in Status
    /\ result.status = "none" <=> pc # "idle" \/ ops = 0
    /\ pc \in FlashSteps \ {"stage", "readMeta", "inspect"} => wrp = "on"
    /\ CountOK

\* The parts are the type invariant, with the count of the transactions.
LEMMA TypeParts == TypeOK /\ CountOK <=> FlagsTyped /\ DataTyped
BY DEF TypeOK, FlagsTyped, DataTyped

\* The next sequence number is one of the Width that there are.
LEMMA SuccessorTyped ==
    ASSUME NEW n \in 0..Width - 1
    PROVE  Successor(n) \in 0..Width - 1
BY BoardAssumption DEF Successor

\* A board that never saw the tool satisfies the invariant.
LEMMA InitInv == Init => IInv
<1>. SUFFICES ASSUME Init PROVE IInv
  OBVIOUS
<1>1. TypeOK /\ CountOK
  <2>1. FlagsTyped
    BY DEF Init, FlagsTyped
  <2>2. DataTyped
    BY BoardAssumption, OpsAssumption
       DEF Init, BoardInit, DataTyped, CountOK, BoardTypeOK, Record, FlashSteps, FactorySteps, Status
  <2>. QED
    BY <2>1, <2>2, TypeParts
<1>2. MetadataDescribesApp
  BY DEF Init, BoardInit, MetadataDescribesApp, Record
<1>. QED
  BY <1>1, <1>2 DEF Init, IInv, StagedOK, FlashOK, FactoryOK, RefusalOK, PreDestructive,
     FailureIsReported, FlashSteps

\* No step gives a flag another value than TRUE or FALSE.
LEMMA FlagsInv ==
    ASSUME FlagsTyped, Next
    PROVE  FlagsTyped'
BY DEF FlagsTyped, Next, work, history, board, Goto, End, Begin,
   Flash, BeginFlash, Stage, ReadMeta, Inspect, Gate, EraseMeta, EraseApp, WriteApp, VerifyApp,
   WriteMeta, Readback, Reset, Confirm, BootCheck,
   Factory, BeginFactory, FactoryCheck, Unprotect, Protect, Reinspect, EraseBoot, WriteBoot,
   VerifyBoot, Restore, Abandon, Final, FactoryReset, Post,
   CommandFails, Damage, Raises, PowerCycle, FileChanges, CancelIsSet

-----------------------------------------------------------------------------
(* The invariant in three parts, the types, what is on the board and what  *)
(* is reported of it, and a lemma for each part and group of actions.      *)

BoardPart == StagedOK /\ FlashOK /\ MetadataDescribesApp
ReportPart == FactoryOK /\ RefusalOK /\ FailureIsReported

\* A step of flash keeps the types, and the board protected from the gate on.
LEMMA FlashData ==
    ASSUME DataTyped, Flash
    PROVE  DataTyped'
<1>. USE DEF DataTyped, CountOK, BoardTypeOK, FlashSteps, FactorySteps, Status, Goto, End, board, work, history
<1>1. CASE BeginFlash
  BY <1>1, OpsAssumption DEF BeginFlash, Begin
<1>2. CASE Stage
  BY <1>2 DEF Stage
<1>3. CASE ReadMeta
  BY <1>3, SuccessorTyped, BoardAssumption DEF ReadMeta, MayHalt, Record
<1>4. CASE Inspect \/ Gate
  BY <1>4 DEF Inspect, Gate
<1>5. CASE EraseMeta \/ EraseApp \/ WriteApp
  BY <1>5 DEF EraseMeta, EraseApp, WriteApp
<1>6. CASE VerifyApp \/ Readback
  BY <1>6 DEF VerifyApp, Readback
<1>7. CASE WriteMeta \/ Reset
  BY <1>7 DEF WriteMeta, Written, Record, Reset, AfterReset
<1>8. CASE Confirm \/ BootCheck
  BY <1>8 DEF Confirm, BootCheck, MayHalt
<1>. QED
  BY <1>1, <1>2, <1>3, <1>4, <1>5, <1>6, <1>7, <1>8 DEF Flash

\* A step of flash keeps what the metadata and the Application are.
LEMMA FlashBoard ==
    ASSUME BoardPart, Flash
    PROVE  BoardPart'
<1>. USE DEF BoardPart, StagedOK, FlashOK, MetadataDescribesApp, FlashSteps, Goto, End, board, work, history
<1>1. CASE BeginFlash \/ Stage
  BY <1>1 DEF BeginFlash, Begin, Stage
<1>2. CASE ReadMeta \/ Inspect \/ Gate
  BY <1>2 DEF ReadMeta, MayHalt, Inspect, Gate
<1>3. CASE EraseMeta \/ EraseApp \/ WriteApp
  BY <1>3 DEF EraseMeta, EraseApp, WriteApp
<1>4. CASE VerifyApp \/ Readback
  BY <1>4 DEF VerifyApp, Readback
<1>5. CASE WriteMeta \/ Reset
  BY <1>5 DEF WriteMeta, Written, Record, Reset, AfterReset
<1>6. CASE Confirm \/ BootCheck
  BY <1>6 DEF Confirm, BootCheck, MayHalt, Confirmed, Written
<1>. QED
  BY <1>1, <1>2, <1>3, <1>4, <1>5, <1>6 DEF Flash

\* A step of flash keeps what is reported, and refuses only before it erases.
LEMMA FlashReport ==
    ASSUME DataTyped, ReportPart, Flash
    PROVE  ReportPart'
<1>. USE DEF ReportPart, FactoryOK, RefusalOK, FailureIsReported, PreDestructive,
         FlashSteps, FactorySteps, Goto, End, board, work, history
<1>1. CASE BeginFlash
  BY <1>1 DEF BeginFlash, Begin
<1>2. CASE Stage
  BY <1>2 DEF Stage
<1>3. CASE ReadMeta \/ Inspect \/ Gate
  BY <1>3 DEF ReadMeta, MayHalt, Inspect, Gate
<1>4. CASE EraseMeta \/ EraseApp \/ WriteApp
  BY <1>4 DEF EraseMeta, EraseApp, DataTyped, WriteApp
<1>5. CASE Readback \/ Reset \/ VerifyApp \/ WriteMeta
  BY <1>5 DEF Readback, Reset, VerifyApp, WriteMeta
<1>6. CASE Confirm \/ BootCheck
  BY <1>6 DEF Confirm, BootCheck, MayHalt
<1>. QED
  BY <1>1, <1>2, <1>3, <1>4, <1>5, <1>6 DEF Flash

\* A step of provision_bootloader keeps the types.
LEMMA FactoryData ==
    ASSUME FlagsTyped, DataTyped, ReportPart, Factory
    PROVE  DataTyped'
<1>. USE DEF DataTyped, CountOK, BoardTypeOK, FlashSteps, FactorySteps, Status, Goto, End,
             board, work, history
<1>1. CASE BeginFactory
  BY <1>1, OpsAssumption DEF BeginFactory, Begin
<1>2. CASE FactoryCheck
  BY <1>2 DEF FactoryCheck
<1>3. CASE Unprotect \/ Restore \/ Abandon
  BY <1>3 DEF Unprotect, Restore, Abandon, Protect
<1>4. CASE Reinspect \/ EraseBoot \/ WriteBoot \/ VerifyBoot
  BY <1>4 DEF Reinspect, EraseBoot, WriteBoot, VerifyBoot
<1>5. CASE Final \/ FactoryReset \/ Post
  BY <1>5 DEF Final, FactoryReset, Post, AfterReset
<1>. QED
  BY <1>1, <1>2, <1>3, <1>4, <1>5 DEF Factory

\* A step of provision_bootloader leaves metadata and Application alone.
LEMMA FactoryBoard ==
    ASSUME BoardPart, Factory
    PROVE  BoardPart'
<1>. USE DEF BoardPart, StagedOK, FlashOK, MetadataDescribesApp, FlashSteps, FactorySteps,
             Goto, End, board, work, history
<1>1. CASE BeginFactory \/ FactoryCheck
  BY <1>1 DEF BeginFactory, Begin, FactoryCheck
<1>2. CASE Unprotect \/ Restore \/ Abandon
  BY <1>2 DEF Unprotect, Restore, Abandon, Protect
<1>3. CASE Reinspect \/ EraseBoot \/ WriteBoot \/ VerifyBoot
  BY <1>3 DEF Reinspect, EraseBoot, WriteBoot, VerifyBoot
<1>4. CASE Final \/ FactoryReset \/ Post
  BY <1>4 DEF Final, FactoryReset, Post, AfterReset
<1>. QED
  BY <1>1, <1>2, <1>3, <1>4 DEF Factory

\* A step of provision_bootloader keeps what it knows of Bootloader and WRP.
LEMMA FactoryReport ==
    ASSUME DataTyped, ReportPart, Factory
    PROVE  ReportPart'
<1>. USE DEF ReportPart, FactoryOK, RefusalOK, FailureIsReported, PreDestructive,
         FlashSteps, FactorySteps, Goto, End, board, work, history
<1>1. CASE BeginFactory
  BY <1>1 DEF BeginFactory, Begin
<1>2. CASE FactoryCheck
  BY <1>2 DEF FactoryCheck
<1>3. CASE Unprotect \/ Restore \/ Abandon
  BY <1>3 DEF Unprotect, Restore, Abandon, Protect, DataTyped
<1>4. CASE Reinspect \/ EraseBoot \/ WriteBoot
  BY <1>4 DEF Reinspect, EraseBoot, WriteBoot, DataTyped
<1>5. CASE VerifyBoot
  BY <1>5 DEF VerifyBoot, DataTyped
<1>6. CASE Final \/ FactoryReset \/ Post
  BY <1>6 DEF Final, FactoryReset, Post, AfterReset, DataTyped
<1>. QED
  BY <1>1, <1>2, <1>3, <1>4, <1>6, <1>5 DEF Factory

\* Commands that fail, exceptions, and what happens outside of a transaction.
Adversity ==
    \/ CommandFails \/ Raises \/ PowerCycle \/ FileChanges \/ CancelIsSet
    \/ Boots /\ UNCHANGED <<pc, work, history, result>>

\* What goes wrong keeps the types: half a step leaves a broken sector at worst.
LEMMA AdversityData ==
    ASSUME DataTyped, Adversity
    PROVE  DataTyped'
<1>. USE DEF DataTyped, CountOK, BoardTypeOK, FlashSteps, FactorySteps, Status, Goto, End,
             board, work, history
<1>1. CASE CommandFails
  BY <1>1 DEF CommandFails, Damage, Asks, AfterReset, Written, Record
<1>2. CASE Raises
  BY <1>2 DEF Raises, Damage, Asks, AfterReset, Written, Record
<1>3. CASE PowerCycle \/ FileChanges \/ CancelIsSet
  BY <1>3 DEF PowerCycle, FileChanges, CancelIsSet, AfterReset
<1>4. CASE Boots /\ UNCHANGED <<pc, work, history, result>>
  <2>1. meta \in Record
    BY <1>4 DEF Boots
  <2>2. Successor(meta.seq) \in 0..Width - 1
    BY <2>1, SuccessorTyped DEF Record
  <2>3. [meta EXCEPT !.state = "confirmed", !.seq = Successor(@)] \in Record
    BY <2>1, <2>2 DEF Record
  <2>4. meta' \in Record
    BY <1>4, <2>1, <2>3 DEF Boots
  <2>. QED
    BY <1>4, <2>4 DEF Boots
<1>. QED
  BY <1>1, <1>2, <1>3, <1>4 DEF Adversity

\* What goes wrong never leaves metadata of another Application.
LEMMA AdversityBoard ==
    ASSUME DataTyped, BoardPart, Adversity
    PROVE  BoardPart'
<1>. USE DEF BoardPart, StagedOK, FlashOK, MetadataDescribesApp, FlashSteps, FactorySteps,
             Goto, End, board, work, history
<1>1. CASE CommandFails
  BY <1>1 DEF CommandFails, Damage, Written
<1>2. CASE Raises
  BY <1>2 DEF Raises, Damage, Written
<1>3. CASE PowerCycle \/ FileChanges \/ CancelIsSet
  BY <1>3 DEF PowerCycle, FileChanges, CancelIsSet, Confirmed, Written
<1>4. CASE Boots /\ UNCHANGED <<pc, work, history, result>>
  BY <1>4 DEF Boots, Confirmed, Written, DataTyped, BoardTypeOK, Record
<1>. QED
  BY <1>1, <1>2, <1>3, <1>4 DEF Adversity

\* What goes wrong is reported as what it is.
LEMMA AdversityReport ==
    ASSUME DataTyped, ReportPart, Adversity
    PROVE  ReportPart'
<1>. USE DEF ReportPart, FactoryOK, RefusalOK, FailureIsReported, PreDestructive,
         FlashSteps, FactorySteps, Goto, End, board, work, history
<1>1. CASE CommandFails
  BY <1>1 DEF CommandFails, Damage, DataTyped
<1>2. CASE Raises
  BY <1>2 DEF Raises, Damage
<1>3. CASE PowerCycle \/ FileChanges \/ CancelIsSet
  BY <1>3 DEF PowerCycle, FileChanges, CancelIsSet
<1>4. CASE Boots /\ UNCHANGED <<pc, work, history, result>>
  BY <1>4 DEF Boots
<1>. QED
  BY <1>1, <1>2, <1>3, <1>4 DEF Adversity

-----------------------------------------------------------------------------

\* A step of the system, or none, keeps the invariant.
LEMMA StepInv ==
    ASSUME IInv, [Next]_vars
    PROVE  IInv'
<1>1. FlagsTyped /\ DataTyped /\ BoardPart /\ ReportPart
  BY TypeParts DEF IInv, BoardPart, ReportPart
<1>2. CASE UNCHANGED vars
  BY <1>2 DEF IInv, vars, board, work, history, TypeOK, BoardTypeOK, CountOK, StagedOK, FlashOK,
     FactoryOK, RefusalOK, MetadataDescribesApp, FailureIsReported, Confirmed, Written
<1>3. CASE Next
  <2>1. Next <=> Flash \/ Factory \/ Adversity
    BY DEF Next, Adversity
  <2>2. FlagsTyped'
    BY <1>1, <1>3, FlagsInv
  <2>3. DataTyped'
    BY <1>1, <1>3, <2>1, FlashData, FactoryData, AdversityData
  <2>4. BoardPart'
    BY <1>1, <1>3, <2>1, FlashBoard, FactoryBoard, AdversityBoard
  <2>5. ReportPart'
    BY <1>1, <1>3, <2>1, FlashReport, FactoryReport, AdversityReport
  <2>6. TypeOK' /\ CountOK'
    BY <2>2, <2>3, TypeParts, PTL
  <2>. QED
    BY <2>4, <2>5, <2>6 DEF IInv, BoardPart, ReportPart
<1>. QED
  BY <1>2, <1>3

\* IInv holds of every reachable state.
THEOREM Inductive == Spec => []IInv
BY InitInv, StepInv, PTL DEF Spec

\* Every variable has its type, and flash works on a protected board from the
\* gate on.
THEOREM TypeCorrect == Spec => []TypeOK
<1>1. IInv => TypeOK
  BY DEF IInv
<1>. QED
  BY <1>1, Inductive, PTL

\* The metadata in sector 3 never describe an Application that is not there:
\* flash breaks them first and writes them last, and provision_bootloader
\* leaves sectors 3 to 7 alone.
THEOREM MetadataIsTrue == Spec => []MetadataDescribesApp
<1>1. IInv => MetadataDescribesApp
  BY DEF IInv
<1>. QED
  BY <1>1, Inductive, PTL

\* A refusal has changed nothing, and a board that is left unprotected is
\* reported by the failure phase of provision_bootloader.
THEOREM FailureReported == Spec => []FailureIsReported
<1>1. IInv => FailureIsReported
  BY DEF IInv
<1>. QED
  BY <1>1, Inductive, PTL

\* What the Bootloader would start changes only to nothing, and from nothing to
\* the approved image.
THEOREM OnlyApprovedBoots == Spec => BootsOnlyApproved
<1>. DEFINE Change == Bootable' \in {Broken, img} /\ Broken \in {Bootable, Bootable'}
<1>1. ASSUME IInv, Flash, Bootable' # Bootable
      PROVE  Change
  <2>. USE <1>1 DEF Bootable, IInv, StagedOK, FlashOK, FlashSteps, Goto, End, board
  <2>1. CASE BeginFlash \/ Stage \/ ReadMeta \/ Inspect \/ Gate
    BY <2>1 DEF BeginFlash, Begin, Stage, ReadMeta, MayHalt, Inspect, Gate
  <2>2. CASE EraseMeta \/ EraseApp \/ WriteApp \/ VerifyApp
    BY <2>2 DEF EraseMeta, EraseApp, WriteApp, VerifyApp
  <2>3. CASE WriteMeta
    BY <2>3 DEF WriteMeta
  <2>4. CASE Readback \/ Reset \/ Confirm \/ BootCheck
    BY <2>4 DEF Readback, Reset, Confirm, BootCheck, MayHalt
  <2>. QED
    BY <2>1, <2>2, <2>3, <2>4 DEF Flash
<1>2. Factory => Bootable' = Bootable
  BY DEF Bootable, Factory, BeginFactory, Begin, FactoryCheck, Unprotect, Restore, Abandon,
     Protect, Reinspect, EraseBoot, WriteBoot, VerifyBoot, Final, FactoryReset, Post, board
<1>3. ASSUME IInv, Adversity, Bootable' # Bootable
      PROVE  Change
  <2>. USE <1>3 DEF Bootable, IInv, StagedOK, FlashOK, FlashSteps, board
  <2>1. CASE CommandFails \/ Raises
    <3>1. Damage
      BY <2>1 DEF CommandFails, Raises
    <3>. QED
      BY <3>1 DEF Damage
  <2>2. ~(PowerCycle \/ FileChanges \/ CancelIsSet)
    BY DEF PowerCycle, FileChanges, CancelIsSet
  <2>3. CASE Boots
    <3>1. meta \in Record /\ meta.image = app /\ app' = app
      BY <2>3 DEF Boots, TypeOK, BoardTypeOK
    <3>. QED
      BY <2>3, <3>1, BoardAssumption DEF Boots, MetadataDescribesApp
  <2>. QED
    BY <2>1, <2>2, <2>3 DEF Adversity
<1>4. IInv /\ [Next]_vars => [Bootable' # Bootable => Change]_vars
  BY <1>1, <1>2, <1>3 DEF Next, Adversity
<1>. QED
  BY <1>4, Inductive, PTL DEF Spec, BootsOnlyApproved

\* Success of flash is told at one step, bootCheck, and of provision_bootloader at
\* another, post: what each has seen by then is what the report says.
THEOREM SuccessReal == Spec => SuccessIsReal
<1>. DEFINE Success == result'.status = "succeeded" /\ pc # "idle"
            Real == /\ wrp' = "on"
                    /\ IF pc = "bootCheck" THEN meta' = Confirmed /\ app' = img /\ cpu' = "app"
                       ELSE boot' = "trusted"
<1>1. ASSUME IInv, Next, Success
      PROVE  (pc = "bootCheck" /\ BootCheck) \/ (pc = "post" /\ Post)
  <2>1. result.status = "none"
    BY <1>1 DEF IInv, TypeOK
  <2>2. ~Adversity
    BY <1>1, <2>1 DEF Adversity, CommandFails, Raises, PowerCycle, FileChanges, CancelIsSet, End, Goto
  <2>3. CASE Flash
    BY <1>1, <2>1, <2>3 DEF Flash, BeginFlash, Begin, Stage, ReadMeta, Inspect, Gate, EraseMeta, EraseApp,
       WriteApp, VerifyApp, WriteMeta, Readback, Reset, Confirm, BootCheck, Goto, End
  <2>4. CASE Factory
    BY <1>1, <2>1, <2>4 DEF Factory, BeginFactory, Begin, FactoryCheck, Unprotect, Restore, Abandon,
       Protect, Reinspect, EraseBoot, WriteBoot, VerifyBoot, Final, FactoryReset, Post, Goto, End
  <2>. QED
    BY <1>1, <2>2, <2>3, <2>4 DEF Next, Adversity
<1>2. ASSUME IInv, Next, Success, pc = "bootCheck", BootCheck
      PROVE  Real
  BY <1>2 DEF IInv, TypeOK, StagedOK, FlashOK, BootCheck, End, FlashSteps, Confirmed, Written, board, work
<1>3. ASSUME IInv, Next, Success, pc = "post", Post
      PROVE  Real
  BY <1>3 DEF IInv, FactoryOK, Post, End, board
<1>4. IInv /\ [Next]_vars => [pc # "idle" /\ result'.status = "succeeded" => Real]_vars
  BY <1>1, <1>2, <1>3
<1>. QED
  BY <1>4, Inductive, PTL DEF Spec, SuccessIsReal

=============================================================================
