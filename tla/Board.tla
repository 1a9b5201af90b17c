------------------------------- MODULE Board --------------------------------
(***************************************************************************)
(* The STM32F407 target as the service sees it through the ST-Link.        *)
(* Nothing of it is code of this repository: it is what the service's      *)
(* OpenOCD commands and its checks rely on.  Sectors 0 to 2 hold the       *)
(* Bootloader, sector 3 the Application Metadata, sectors 4 to 7 the       *)
(* Application.                                                            *)
(***************************************************************************)
EXTENDS Naturals

CONSTANTS
    Image,     \* Application images
    Broken,    \* what an interrupted erase or write leaves, and an erased sector
    Width      \* number of sequence numbers: 2^32 on the device

ASSUME BoardAssumption == Width \in Nat \ {0, 1} /\ Broken \notin Image

VARIABLES
    boot,      \* the Bootloader: "trusted", "other" (another version) or "broken"
    wrp,       \* write protection of sectors 0 to 2: "on", "off" or "mixed"
    meta,      \* a valid metadata record, or Broken
    app,       \* the image in sectors 4 to 7, or Broken
    cpu        \* what runs: "boot", "app", "halted", or "dead"

board == <<boot, wrp, meta, app, cpu>>

Record == [image : Image, seq : 0..Width - 1, state : {"verified", "confirmed"}]
Successor(n) == (n + 1) % Width

BoardTypeOK ==
    /\ boot \in {"trusted", "other", "broken"} /\ wrp \in {"on", "off", "mixed"}
    /\ meta \in Record \cup {Broken} /\ app \in Image \cup {Broken}
    /\ cpu \in {"boot", "app", "halted", "dead"}

\* A board that never saw the tool, or one that runs an Application.
BoardInit ==
    /\ boot \in {"trusted", "other"} /\ wrp \in {"on", "off", "mixed"}
    /\ app \in Image \cup {Broken}
    /\ meta \in {Broken} \cup {r \in Record : r.image = app /\ r.state = "confirmed"}
    /\ cpu = "boot"

AfterReset(b) == IF b = "broken" THEN "dead" ELSE "boot"

\* The Bootloader starts an Application that the metadata describes, and
\* confirms it first when it is new.
Boots ==
    /\ cpu = "boot" /\ meta # Broken /\ meta.image = app
    /\ cpu' = "app"
    /\ meta' = IF meta.state = "confirmed" THEN meta
               ELSE [meta EXCEPT !.state = "confirmed", !.seq = Successor(@)]
    /\ UNCHANGED <<boot, wrp, app>>

\* What the Bootloader would run.
Bootable == IF meta # Broken THEN app ELSE Broken
=============================================================================
