---------------------------- MODULE Provisioning ----------------------------
(***************************************************************************)
(* The two transactions of B300Service on one board: flash, which installs *)
(* an Application, and provision_bootloader, which replaces the Bootloader *)
(* with its write protection (WRP) lifted in between.                      *)
(*                                                                         *)
(* One transaction runs at a time (HardwareOwner).  Each step of an        *)
(* OpenOCD command that changes the board is a step here; the command may  *)
(* fail, time out or lose the board's power at any of them, its step done, *)
(* half done or not done.  An exception of a sink or of the runner, or the *)
(* end of the process, may end a transaction anywhere.                     *)
(***************************************************************************)
EXTENDS Board

CONSTANTS MaxOps    \* bound: transactions
ASSUME OpsAssumption == MaxOps \in Nat

VARIABLES
    pc,        \* the step of the transaction that comes next
    img,       \* the approved image of flash
    file,      \* what is in the file that was approved
    staged,    \* the private copy that the transaction works from
    seq,       \* the sequence number that flash will write
    cancel,    \* cancel_event is set
    verified,  \* provision_bootloader: the new Bootloader was verified
    restored,  \* provision_bootloader: the return code of the last WRP command
    touched,   \* history: the transaction has begun to change the board
    asked,     \* history: the last WRP state that the transaction asked for
    result,    \* how the last transaction ended, and in which phase
    ops

work == <<img, file, staged, seq, cancel, verified, restored>>
history == <<touched, asked, ops>>
vars == <<board, pc, work, history, result>>

FlashSteps == {"stage", "readMeta", "inspect", "gate", "eraseMeta", "eraseApp", "writeApp",
               "verifyApp", "writeMeta", "readback", "reset", "confirm", "bootCheck"}
FactorySteps == {"factoryCheck", "unprotect", "reinspect", "eraseBoot", "writeBoot", "verifyBoot",
                 "restore", "abandon", "final", "factoryReset", "post"}
Status == {"none", "refused", "flash_failed", "metadata_failed", "programmed_boot_failed",
           "failed", "succeeded", "raised"}

TypeOK ==
    /\ BoardTypeOK
    /\ pc \in FlashSteps \cup FactorySteps \cup {"idle"}
    /\ {img, file, staged} \subseteq Image /\ seq \in 0..Width - 1
    /\ {cancel, verified, restored, touched} \subseteq BOOLEAN
    /\ asked \in {"none", "on", "off"} /\ ops \in 0..MaxOps
    /\ result.status \in Status /\ (result.status = "none") = (pc # "idle" \/ ops = 0)
    \* Flash leaves the protection and the Bootloader of the board alone.
    /\ pc \in FlashSteps \ {"stage", "readMeta", "inspect"} => wrp = "on"

Init ==
    /\ BoardInit /\ pc = "idle"
    /\ img \in Image /\ file = img /\ staged = img /\ seq = 0
    /\ cancel = FALSE /\ verified = FALSE /\ restored = FALSE
    /\ touched = FALSE /\ asked = "none" /\ ops = 0
    /\ result = [status |-> "none", phase |-> "none"]

-----------------------------------------------------------------------------

Goto(from, to) == pc = from /\ pc' = to /\ UNCHANGED <<result, ops>>

End(status, phase) ==
    pc' = "idle" /\ result' = [status |-> status, phase |-> phase] /\ UNCHANGED ops

\* A command that only reads may leave the CPU halted when it fails.
MayHalt == cpu' \in {cpu, "halted"} /\ UNCHANGED <<boot, wrp, meta, app>>

Begin(first) ==
    /\ pc = "idle" /\ ops < MaxOps /\ ops' = ops + 1 /\ pc' = first
    /\ result' = [status |-> "none", phase |-> "none"]
    /\ cancel' = FALSE /\ verified' = FALSE /\ restored' = FALSE
    /\ touched' = FALSE /\ asked' = "none"
    /\ UNCHANGED <<board, staged, seq>>

-----------------------------------------------------------------------------
(* flash.                                                                  *)

BeginFlash == \E i \in Image : Begin("stage") /\ img' = i /\ file' = i

\* A mutant of Stage that does not compare.
StageUnchecked ==
    /\ pc = "stage" /\ staged' = file /\ Goto("stage", "readMeta")
    /\ UNCHANGED <<board, img, file, seq, cancel, verified, restored, touched, asked>>

\* The copy must be what was approved; it may also fail to be read.
Stage ==
    /\ pc = "stage" /\ staged' = file
    /\ \/ file = img /\ Goto("stage", "readMeta")
       \/ End("refused", "validating")
    /\ UNCHANGED <<board, img, file, seq, cancel, verified, restored, touched, asked>>

\* A record that cannot be read starts the sequence again.
ReadMeta ==
    /\ Goto("readMeta", "inspect")
    /\ \/ ~cancel /\ seq' = (IF meta # Broken THEN Successor(meta.seq) ELSE 1) /\ UNCHANGED board
       \/ seq' = 1 /\ MayHalt
    /\ UNCHANGED <<img, file, staged, cancel, verified, restored, touched, asked>>

\* A mutant of Inspect without validate_bootloader_write_protection.
InspectIdentity ==
    /\ pc = "inspect"
    /\ \/ ~cancel /\ Goto("inspect", "gate")
       \/ End("refused", "target_check")
    /\ UNCHANGED <<board, work, touched, asked>>

Inspect ==
    /\ pc = "inspect"
    /\ \/ wrp = "on" /\ ~cancel /\ Goto("inspect", "gate")
       \/ End("refused", "target_check")
    /\ UNCHANGED <<board, work, touched, asked>>

\* The last look at cancel_event before the flash command begins.
Gate ==
    /\ pc = "gate"
    /\ IF cancel THEN End("refused", "target_check") ELSE Goto("gate", "eraseMeta")
    /\ UNCHANGED <<board, work, touched, asked>>

\* build_flash_command: reset init, erase 3 to 7, write_image, verify_image.
EraseMeta ==
    /\ Goto("eraseMeta", "eraseApp")
    /\ meta' = Broken /\ cpu' = "halted" /\ touched' = TRUE
    /\ UNCHANGED <<boot, wrp, app, work, asked>>

EraseApp ==
    /\ Goto("eraseApp", "writeApp") /\ app' = Broken
    /\ UNCHANGED <<boot, wrp, meta, cpu, work, touched, asked>>

WriteApp ==
    /\ Goto("writeApp", "verifyApp") /\ app' \in {staged, Broken}
    /\ UNCHANGED <<boot, wrp, meta, cpu, work, touched, asked>>

\* A mutant of VerifyApp that takes the end of the command for success.
VerifyNothing ==
    /\ Goto("verifyApp", "writeMeta") /\ UNCHANGED <<board, work, touched, asked>>

\* "** Verified OK **" is what counts, not that the command returned.
VerifyApp ==
    /\ pc = "verifyApp"
    /\ IF app = staged THEN Goto("verifyApp", "writeMeta") ELSE End("flash_failed", "verifying")
    /\ UNCHANGED <<board, work, touched, asked>>

Written == [image |-> staged, seq |-> seq, state |-> "verified"]
Confirmed == [Written EXCEPT !.state = "confirmed", !.seq = Successor(@)]

\* build_metadata_write_command: reset halt, write_image, and then
\* verify_image, dump_image and the comparison of the dump.
WriteMeta ==
    /\ Goto("writeMeta", "readback")
    /\ meta' \in {Written, Broken} /\ cpu' = "halted"
    /\ UNCHANGED <<boot, wrp, app, work, touched, asked>>

Readback ==
    /\ pc = "readback"
    /\ \/ meta = Written /\ Goto("readback", "reset")
       \/ meta # Written /\ End("metadata_failed", "metadata_verifying")
    /\ UNCHANGED <<board, work, touched, asked>>

Reset ==
    /\ Goto("reset", "confirm") /\ cpu' = AfterReset(boot)
    /\ UNCHANGED <<boot, wrp, meta, app, work, touched, asked>>

\* The record is read until the Bootloader has confirmed it or five seconds
\* have passed.
Confirm ==
    /\ pc = "confirm"
    /\ \/ meta = Confirmed /\ ~cancel /\ Goto("confirm", "bootCheck") /\ UNCHANGED board
       \/ End("programmed_boot_failed", "metadata_confirming") /\ MayHalt
    /\ UNCHANGED <<work, touched, asked>>

\* A mutant of BootCheck that takes the confirmation for the boot.
BootUnchecked ==
    /\ pc = "bootCheck" /\ End("succeeded", "none")
    /\ UNCHANGED <<board, work, touched, asked>>

\* verify_boot: halt, look where the CPU is, resume.
BootCheck ==
    /\ pc = "bootCheck"
    /\ \/ cpu = "app" /\ End("succeeded", "none") /\ UNCHANGED board
       \/ End("programmed_boot_failed", "post_verifying") /\ MayHalt
    /\ UNCHANGED <<work, touched, asked>>

Flash ==
    \/ BeginFlash \/ Stage \/ ReadMeta \/ Inspect \/ Gate \/ EraseMeta \/ EraseApp \/ WriteApp
    \/ VerifyApp \/ WriteMeta \/ Readback \/ Reset \/ Confirm \/ BootCheck

-----------------------------------------------------------------------------
(* provision_bootloader.                                                   *)

BeginFactory == Begin("factoryCheck") /\ UNCHANGED <<img, file>>

\* The bundled Bootloader is staged and compared, then the target inspected.
FactoryCheck ==
    /\ pc = "factoryCheck"
    /\ \/ Goto("factoryCheck", IF wrp = "off" THEN "eraseBoot" ELSE "unprotect")
       \/ \E p \in {"validating", "target_check"} : End("refused", p)
    /\ UNCHANGED <<board, work, touched, asked>>

\* factory_protect_command: flash protect and the reset that makes it count.
Protect(state) ==
    /\ wrp' \in {state, wrp} /\ cpu' = "halted" /\ asked' = state /\ touched' = TRUE
    /\ UNCHANGED <<boot, meta, app>>

Unprotect ==
    /\ Goto("unprotect", "reinspect") /\ Protect("off")
    /\ UNCHANGED work

\* The command returned: was it heeded?  An inspection that fails counts as no.
Reinspect ==
    /\ \/ wrp = "off" /\ Goto("reinspect", "eraseBoot")
       \/ Goto("reinspect", "abandon")
    /\ UNCHANGED <<board, work, touched, asked>>

EraseBoot ==
    /\ Goto("eraseBoot", "writeBoot")
    /\ boot' = "broken" /\ cpu' = "halted" /\ touched' = TRUE
    /\ UNCHANGED <<wrp, meta, app, work, asked>>

WriteBoot ==
    /\ Goto("writeBoot", "verifyBoot") /\ boot' \in {"trusted", "broken"}
    /\ UNCHANGED <<wrp, meta, app, cpu, work, touched, asked>>

VerifyBoot ==
    /\ Goto("verifyBoot", "restore") /\ verified' = (boot = "trusted")
    /\ UNCHANGED <<board, img, file, staged, seq, cancel, restored, touched, asked>>

\* WRP is restored whether or not the Bootloader was verified.
Restore ==
    /\ Goto("restore", "final") /\ Protect("on") /\ restored' = TRUE
    /\ UNCHANGED <<img, file, staged, seq, cancel, verified>>

\* The same on the way out, when WRP could not be lifted.
Abandon ==
    /\ pc = "abandon" /\ End("failed", "unprotecting")
    /\ Protect("on") /\ UNCHANGED work

\* A mutant of Final that trusts the return code of the command.
FinalUnseen ==
    /\ pc = "final"
    /\ \/ restored /\ verified /\ Goto("final", "factoryReset")
       \/ restored /\ ~verified /\ End("failed", "programming")
       \/ ~restored /\ End("failed", "protecting")
    /\ UNCHANGED <<board, work, touched, asked>>

\* The inspection that must find WRP on.
Final ==
    /\ pc = "final"
    /\ \/ restored /\ wrp = "on" /\ verified /\ Goto("final", "factoryReset")
       \/ restored /\ wrp = "on" /\ ~verified /\ End("failed", "programming")
       \/ End("failed", "protecting")
    /\ UNCHANGED <<board, work, touched, asked>>

FactoryReset ==
    /\ Goto("factoryReset", "post") /\ cpu' = AfterReset(boot)
    /\ UNCHANGED <<boot, wrp, meta, app, work, touched, asked>>

Post ==
    /\ pc = "post"
    /\ \/ wrp = "on" /\ End("succeeded", "none")
       \/ End("failed", "post_verifying")
    /\ UNCHANGED <<board, work, touched, asked>>

Factory ==
    \/ BeginFactory \/ FactoryCheck \/ Unprotect \/ Reinspect \/ EraseBoot \/ WriteBoot
    \/ VerifyBoot \/ Restore \/ Abandon \/ Final \/ FactoryReset \/ Post

-----------------------------------------------------------------------------
(* What goes wrong.                                                        *)

\* The step under way of a command that fails is done, half done or not done,
\* and the board keeps its power or loses it.
Damage ==
    /\ meta' \in IF pc = "eraseMeta" THEN {meta, Broken}
                 ELSE IF pc = "writeMeta" THEN {Written, Broken} ELSE {meta}
    /\ app' \in IF pc = "eraseApp" THEN {app, Broken}
                ELSE IF pc = "writeApp" THEN {staged, Broken} ELSE {app}
    /\ boot' \in IF pc = "eraseBoot" THEN {boot, "broken"}
                 ELSE IF pc = "writeBoot" THEN {"trusted", "broken"} ELSE {boot}
    /\ wrp' \in IF pc = "unprotect" THEN {wrp, "mixed", "off"}
                ELSE IF pc \in {"restore", "abandon"} THEN {wrp, "mixed", "on"} ELSE {wrp}
    /\ cpu' \in {cpu, "halted", AfterReset(boot')}
    /\ touched' = (touched \/ pc \in {"eraseMeta", "unprotect", "eraseBoot"})

\* What the command of this step asks of the write protection.
Asks ==
    IF pc = "unprotect" THEN "off" ELSE IF pc \in {"restore", "abandon"} THEN "on" ELSE asked

CommandFails ==
    /\ Damage /\ asked' = Asks
    /\ UNCHANGED <<img, file, staged, seq, cancel, restored>>
    /\ \/ /\ pc \in {"eraseMeta", "eraseApp", "writeApp", "verifyApp"}
          /\ End("flash_failed", pc) /\ UNCHANGED verified
       \/ /\ pc \in {"writeMeta", "readback"}
          /\ End("metadata_failed", pc) /\ UNCHANGED verified
       \/ pc = "reset" /\ End("flash_failed", "resetting") /\ UNCHANGED verified
       \/ Goto("unprotect", "abandon") /\ UNCHANGED verified
       \/ \E p \in {"eraseBoot", "writeBoot", "verifyBoot"} :
              Goto(p, "restore") /\ verified' = FALSE
       \/ Goto("restore", "final") /\ UNCHANGED verified
       \/ pc = "abandon" /\ End("failed", "unprotecting") /\ UNCHANGED verified
       \/ pc = "factoryReset" /\ End("failed", "resetting") /\ UNCHANGED verified

\* An exception of a sink or of the runner, or the end of the process.
Raises ==
    /\ pc # "idle" /\ Damage /\ asked' \in {asked, Asks}
    /\ End("raised", pc) /\ UNCHANGED work

\* Between commands a loss of power goes unnoticed.
WithinCommand == {"eraseApp", "writeApp", "verifyApp", "readback", "writeBoot", "verifyBoot"}
PowerCycle ==
    /\ pc \notin WithinCommand /\ cpu' = AfterReset(boot)
    /\ UNCHANGED <<boot, wrp, meta, app, pc, work, history, result>>

FileChanges ==
    /\ pc \in FlashSteps /\ file' \in Image \ {file}
    /\ UNCHANGED <<board, pc, img, staged, seq, cancel, verified, restored, history, result>>

\* cancel_event belongs to flash.
CancelIsSet ==
    /\ pc \in FlashSteps /\ ~cancel /\ cancel' = TRUE
    /\ UNCHANGED <<board, pc, img, file, staged, seq, verified, restored, history, result>>

Next ==
    \/ Flash \/ Factory \/ CommandFails \/ Raises
    \/ PowerCycle \/ FileChanges \/ CancelIsSet
    \/ Boots /\ UNCHANGED <<pc, work, history, result>>

Spec == Init /\ [][Next]_vars

-----------------------------------------------------------------------------
(* Properties.                                                             *)

\* Whatever fails, and wherever the power goes, a valid record in sector 3
\* describes the image that is in sectors 4 to 7: the Bootloader is never
\* told of an Application that is not there.
MetadataDescribesApp == meta # Broken => meta.image = app

\* Only the image that was approved becomes bootable, also when the file or
\* the board changes in the middle, and never in one step from another image.
BootsOnlyApproved ==
    [][Bootable' # Bootable => Bootable' \in {Broken, img} /\ Broken \in {Bootable, Bootable'}]_vars

\* flash reports success of the approved image, confirmed by the Bootloader
\* with the next sequence number and running, on a protected board;
\* provision_bootloader reports it of the trusted Bootloader, protected again.
SuccessIsReal ==
    [][pc # "idle" /\ result'.status = "succeeded" =>
        /\ wrp' = "on"
        /\ IF pc = "bootCheck" THEN meta' = Confirmed /\ app' = img /\ cpu' = "app"
           ELSE boot' = "trusted"]_vars

\* A refusal is "pre-destructive"; provisioning that returns with the board
\* unprotected says so by its failure phase.
FailureIsReported ==
    /\ result.status = "refused" => ~touched
    /\ result.status = "failed" /\ wrp # "on" =>
           result.phase \in {"unprotecting", "protecting", "post_verifying"}

\* "Once WRP-OFF may have taken effect, every failure path must request WRP
\* restoration before leaving factory mode."
RestorationIsRequested == pc = "idle" => asked # "off"
=============================================================================
