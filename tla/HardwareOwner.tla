--------------------------- MODULE HardwareOwner ---------------------------
(***************************************************************************)
(* FileHardwareOwner (src/b300_core/hardware_owner.py): the lock file that *)
(* lets one process of a Gateway host drive the ST-Link.  Two mechanisms   *)
(* work together: an flock, which the kernel drops when its holder dies,   *)
(* and a record in the same file, which stays ACTIVE when the holder dies  *)
(* so that nobody drives the probe before an operator ran                  *)
(* `hardware recover`.                                                     *)
(*                                                                         *)
(* Proc are the processes of the host (Gateway Agent, CLI, GUI); a member  *)
(* is reborn after a crash.  Token are the _OwnerToken objects of one      *)
(* process life.  A write that raises an OSError is not modelled.          *)
(***************************************************************************)
EXTENDS Integers, FiniteSets

CONSTANTS Proc, Token, NoProc

ASSUME ConstantAssumption ==
    /\ NoProc \notin Proc
    /\ IsFiniteSet(Token)

VARIABLES
    lock,    \* the process that holds the flock, or NoProc
    record,  \* what the file says to a reader: IDLE, ACTIVE, or TORN
    disk,    \* the contents a power loss may leave behind
    depth,   \* _depth of each process: how many times it owns the hardware
    token,   \* state of the tokens handed out by each process
    step,    \* where each process stands inside acquire, _release, recover
    tool,    \* the processes whose OpenOCD is alive: a child in use, or the
             \* orphan of a process that died while it owned the hardware
    left,    \* the processes that gave the hardware back with OpenOCD alive
    dirty    \* history: an owner died and no recover has completed since

vars == <<lock, record, disk, depth, token, step, tool, left, dirty>>

\* TORN: the shorter IDLE record was written over ACTIVE and not yet truncated.
Record == {"IDLE", "ACTIVE", "TORN"}
Step == {"ready", "acquiring", "activating", "recovering", "proven",
         "idling", "truncated"}
TokenState == {"unused", "held", "released"}

Held(p) == {t \in Token : token[p][t] = "held"}

TypeOK ==
    /\ lock \in Proc \cup {NoProc}
    /\ record \in Record
    /\ disk \in SUBSET Record
    /\ depth \in [Proc -> Nat]
    /\ token \in [Proc -> [Token -> TokenState]]
    /\ step \in [Proc -> Step]
    /\ tool \in SUBSET Proc
    /\ left \in SUBSET Proc
    /\ dirty \in BOOLEAN

Init ==
    /\ lock = NoProc
    /\ record = "IDLE"
    /\ disk = {"IDLE"}
    /\ depth = [p \in Proc |-> 0]
    /\ token = [p \in Proc |-> [t \in Token |-> "unused"]]
    /\ step = [p \in Proc |-> "ready"]
    /\ tool = {}
    /\ left = {}
    /\ dirty = FALSE

(***************************************************************************)
(* Steps shared by the operations.                                         *)
(***************************************************************************)

\* One call of _open_locked: the non-blocking flock, or HardwareOwnerBusy,
\* which leaves everything as it was.
OpenLocked(p, next) ==
    /\ step[p] = "ready" /\ depth[p] = 0
    /\ lock = NoProc
    /\ lock' = p
    /\ step' = [step EXCEPT ![p] = next]

\* write() of new contents, not yet durable.
WriteFile(contents) ==
    /\ record' = contents
    /\ disk' = disk \cup {contents}

\* _unlock, at the end of an operation.
Unlock(p) ==
    /\ lock' = NoProc
    /\ step' = [step EXCEPT ![p] = "ready"]

NewToken(p, t) ==
    /\ token[p][t] = "unused"
    /\ token' = [token EXCEPT ![p][t] = "held"]
    /\ depth' = [depth EXCEPT ![p] = @ + 1]

(***************************************************************************)
(* acquire                                                                 *)
(***************************************************************************)

\* The in-process nested acquire: no file access at all.
AcquireNested(p, t) ==
    /\ step[p] = "ready" /\ depth[p] > 0
    /\ NewToken(p, t)
    /\ UNCHANGED <<lock, record, disk, step, tool, left, dirty>>

AcquireOpen(p) ==
    /\ OpenLocked(p, "acquiring")
    /\ UNCHANGED <<record, disk, depth, token, tool, left, dirty>>

\* HARDWARE_RECOVERY_REQUIRED: the previous owner died, or the record is torn.
AcquireRefused(p) ==
    /\ step[p] = "acquiring" /\ record # "IDLE"
    /\ Unlock(p)
    /\ UNCHANGED <<record, disk, depth, token, tool, left, dirty>>

\* MUTANT: the durable record is not looked at, the flock decides alone.
AcquireWriteUnchecked(p) ==
    /\ step[p] = "acquiring"
    /\ WriteFile("ACTIVE")
    /\ step' = [step EXCEPT ![p] = "activating"]
    /\ UNCHANGED <<lock, depth, token, tool, left, dirty>>

\* The ACTIVE record is longer than the IDLE one: no torn state in between.
AcquireWrite(p) ==
    /\ step[p] = "acquiring" /\ record = "IDLE"
    /\ WriteFile("ACTIVE")
    /\ step' = [step EXCEPT ![p] = "activating"]
    /\ UNCHANGED <<lock, depth, token, tool, left, dirty>>

\* MUTANT: the owner is told that it owns before the record is durable.
AcquireNoSync(p, t) ==
    /\ step[p] = "activating"
    /\ NewToken(p, t)
    /\ step' = [step EXCEPT ![p] = "ready"]
    /\ UNCHANGED <<lock, record, disk, tool, left, dirty>>

AcquireSync(p, t) ==
    /\ step[p] = "activating"
    /\ disk' = {record}
    /\ NewToken(p, t)
    /\ step' = [step EXCEPT ![p] = "ready"]
    /\ UNCHANGED <<lock, record, tool, left, dirty>>

(***************************************************************************)
(* The OpenOCD child that an owner runs.  It survives the death of its     *)
(* owner, and nothing in _release asks whether it has ended: an exception  *)
(* out of OpenOcdRunner.run (Ctrl+C, a second TimeoutExpired) or a stop of *)
(* the debug service that timed out lets the owner give its last token     *)
(* back while OpenOCD is alive.                                            *)
(***************************************************************************)

StartTool(p) ==
    /\ step[p] = "ready" /\ depth[p] > 0 /\ p \notin tool
    /\ tool' = tool \cup {p}
    /\ UNCHANGED <<lock, record, disk, depth, token, step, left, dirty>>

ToolExits(p) ==
    /\ p \in tool
    /\ tool' = tool \ {p}
    /\ UNCHANGED <<lock, record, disk, depth, token, step, left, dirty>>

LeftExits(p) ==
    /\ p \in left
    /\ left' = left \ {p}
    /\ UNCHANGED <<lock, record, disk, depth, token, step, tool, dirty>>

(***************************************************************************)
(* _OwnerToken.release and _release                                        *)
(***************************************************************************)

\* An OpenOCD that is still alive is nobody's from here on.
LeaveTool(p) ==
    /\ left' = left \cup (tool \cap {p})
    /\ tool' = tool \ {p}

\* MUTANT: release decrements the depth of a token it has already taken back.
ReleaseNestedRepeated(p, t) ==
    /\ step[p] = "ready" /\ token[p][t] # "unused"
    /\ token' = [token EXCEPT ![p][t] = "released"]
    /\ depth' = [depth EXCEPT ![p] = @ - 1]
    /\ UNCHANGED <<lock, record, disk, step, tool, left, dirty>>

\* A token given back while another one is held: the file is not touched.
ReleaseNested(p, t) ==
    /\ step[p] = "ready" /\ token[p][t] = "held" /\ depth[p] > 1
    /\ token' = [token EXCEPT ![p][t] = "released"]
    /\ depth' = [depth EXCEPT ![p] = @ - 1]
    /\ UNCHANGED <<lock, record, disk, step, tool, left, dirty>>

\* MUTANT: release does not look at `released`, so a token that is given
\* back twice takes the depth of somebody else's token.
ReleaseLastRepeated(p, t) ==
    /\ step[p] = "ready" /\ token[p][t] # "unused" /\ depth[p] = 1
    /\ token' = [token EXCEPT ![p][t] = "released"]
    /\ depth' = [depth EXCEPT ![p] = 0]
    /\ WriteFile("TORN")
    /\ LeaveTool(p)
    /\ step' = [step EXCEPT ![p] = "idling"]
    /\ UNCHANGED <<lock, dirty>>

\* The last token: _write_record starts by writing over the ACTIVE record.
ReleaseLast(p, t) ==
    /\ step[p] = "ready" /\ token[p][t] = "held" /\ depth[p] = 1
    /\ token' = [token EXCEPT ![p][t] = "released"]
    /\ depth' = [depth EXCEPT ![p] = 0]
    /\ WriteFile("TORN")
    /\ LeaveTool(p)
    /\ step' = [step EXCEPT ![p] = "idling"]
    /\ UNCHANGED <<lock, dirty>>

\* truncate: from here on a reader sees IDLE.
TruncateIdle(p) ==
    /\ step[p] = "idling"
    /\ WriteFile("IDLE")
    /\ step' = [step EXCEPT ![p] = "truncated"]
    /\ dirty' = FALSE
    /\ UNCHANGED <<lock, depth, token, tool, left>>

\* fsync, then _unlock.
SyncIdle(p) ==
    /\ step[p] = "truncated"
    /\ disk' = {record}
    /\ Unlock(p)
    /\ UNCHANGED <<record, depth, token, tool, left, dirty>>

(***************************************************************************)
(* recover: the operator's `hardware recover --confirm-hardware-recovery`  *)
(***************************************************************************)

RecoverOpen(p) ==
    /\ OpenLocked(p, "recovering")
    /\ UNCHANGED <<record, disk, depth, token, tool, left, dirty>>

\* Nothing to do, an OpenOCD is alive, or the record cannot be parsed.
RecoverEnds(p) ==
    /\ step[p] = "recovering"
    /\ record # "ACTIVE" \/ tool \cup left # {}
    /\ Unlock(p)
    /\ UNCHANGED <<record, disk, depth, token, tool, left, dirty>>

\* MUTANT: recover trusts the operator and looks for no OpenOCD process.
RecoverUnproven(p) ==
    /\ step[p] = "recovering" /\ record = "ACTIVE"
    /\ step' = [step EXCEPT ![p] = "proven"]
    /\ UNCHANGED <<lock, record, disk, depth, token, tool, left, dirty>>

\* openocd_quiescent found no OpenOCD process on the host.
RecoverProven(p) ==
    /\ step[p] = "recovering" /\ record = "ACTIVE" /\ tool \cup left = {}
    /\ step' = [step EXCEPT ![p] = "proven"]
    /\ UNCHANGED <<lock, record, disk, depth, token, tool, left, dirty>>

RecoverWrite(p) ==
    /\ step[p] = "proven"
    /\ WriteFile("TORN")
    /\ step' = [step EXCEPT ![p] = "idling"]
    /\ UNCHANGED <<lock, depth, token, tool, left, dirty>>

(***************************************************************************)
(* The host: processes end and die, the power fails.                       *)
(***************************************************************************)

\* The process ends while it owns nothing; its name stands for a new one.
Exit(p) ==
    /\ step[p] = "ready" /\ depth[p] = 0
    /\ \E t \in Token : token[p][t] # "unused"
    /\ token' = [token EXCEPT ![p] = [t \in Token |-> "unused"]]
    /\ UNCHANGED <<lock, record, disk, depth, step, tool, left, dirty>>

Working(p) == depth[p] > 0 \/ step[p] # "ready"

\* The process is killed.  The kernel drops its flock; its OpenOCD lives on.
Crash(p) ==
    /\ Working(p)
    /\ lock' = IF lock = p THEN NoProc ELSE lock
    /\ depth' = [depth EXCEPT ![p] = 0]
    /\ step' = [step EXCEPT ![p] = "ready"]
    /\ token' = [token EXCEPT ![p] = [t \in Token |-> "unused"]]
    /\ dirty' = (dirty \/ depth[p] > 0)
    /\ UNCHANGED <<record, disk, tool, left>>

\* Every process dies, and of the writes that no fsync covered any prefix
\* may be lost.
PowerLoss ==
    /\ \E p \in Proc : Working(p)
    /\ lock' = NoProc
    /\ \E contents \in disk : record' = contents /\ disk' = {contents}
    /\ depth' = [p \in Proc |-> 0]
    /\ step' = [p \in Proc |-> "ready"]
    /\ token' = [p \in Proc |-> [t \in Token |-> "unused"]]
    /\ tool' = {}
    /\ left' = {}
    /\ dirty' = (dirty \/ \E p \in Proc : depth[p] > 0)

Next ==
    \/ \E p \in Proc :
        \/ AcquireOpen(p) \/ AcquireRefused(p) \/ AcquireWrite(p)
        \/ StartTool(p) \/ ToolExits(p) \/ LeftExits(p)
        \/ TruncateIdle(p) \/ SyncIdle(p)
        \/ RecoverOpen(p) \/ RecoverEnds(p) \/ RecoverProven(p) \/ RecoverWrite(p)
        \/ Exit(p) \/ Crash(p)
    \/ \E p \in Proc, t \in Token :
        \/ AcquireNested(p, t) \/ AcquireSync(p, t)
        \/ ReleaseNested(p, t) \/ ReleaseLast(p, t)
    \/ PowerLoss

Spec == Init /\ [][Next]_vars

(***************************************************************************)
(* Properties                                                              *)
(***************************************************************************)

\* As long as any token is out, nested or not, its process has the flock: no
\* release of another token, in any order, may let another process in.
HeldTokenOwnsLock ==
    \A p \in Proc : Held(p) # {} => lock = p

\* Whoever becomes the owner finds no OpenOCD that an owner which died has left
\* behind, whether it becomes so by acquire or after a recover: what a dead
\* process was doing to the board has ended before somebody else may start.
NoOrphanDriver ==
    [][\A p \in Proc : depth[p] = 0 /\ depth'[p] > 0 => tool = {}]_vars

\* Whoever becomes the owner finds no OpenOCD alive at all: the lock protects
\* the probe across processes.  It does not: an owner that ends its use in an
\* exception gives the lock back with its OpenOCD alive (MCHardwareOwnerLeft).
NoDriverLeft ==
    [][\A p \in Proc : depth[p] = 0 /\ depth'[p] > 0 => tool \cup left = {}]_vars

\* After an owner died in the middle of its use of the hardware nobody owns it
\* until a recover has run to the point where the record says IDLE.
CrashBlocksAcquire ==
    dirty => \A p \in Proc : depth[p] = 0

\* A power loss during a use of the hardware leaves a record that is not IDLE,
\* whatever the file system had or had not written back.
InUseSurvivesPowerLoss ==
    (\E p \in Proc : depth[p] > 0) => "IDLE" \notin disk

=============================================================================
