--------------------------- MODULE AgentOwnerLock ---------------------------
(***************************************************************************)
(* GatewayAgentOwnerLock (src/b300_core/gateway_agent.py): the file that   *)
(* keeps a user's Gateway to one Agent.  An Agent holds it for its life,   *)
(* and GatewayAgentProcessManager.ensure_running holds the same file while *)
(* it starts an Agent.  The file contains the PID of its owner; a file     *)
(* whose owner is dead is unlinked and created anew.                       *)
(*                                                                         *)
(* Launcher are processes that call ensure_running (CLI commands, SSH      *)
(* requests), Agent are the Agent processes of a run; PIDs are not reused. *)
(***************************************************************************)
EXTENDS Naturals, FiniteSets

CONSTANTS
    Launcher, Agent,
    NoPid,         \* an empty file, or no file
    MaxCrash,      \* bound on the processes that are killed
    OneReclaimer   \* no two processes reclaim a stale file at the same time

Pid == Launcher \cup Agent

ASSUME ConstantAssumption ==
    /\ Launcher \cap Agent = {} /\ NoPid \notin Pid
    /\ MaxCrash \in Nat /\ OneReclaimer \in BOOLEAN

VARIABLES
    creator,  \* the process whose open() created the file that is there now
    content,  \* the PID written in it
    at,       \* where each process stands
    second,   \* the processes in the second iteration of acquire
    killed    \* the processes that were killed

vars == <<creator, content, at, second, killed>>

Place == {"idle", "trying", "exists", "unreadable", "reclaiming", "created",
          "held", "running", "waiting", "leaving", "unlinking", "corrupt",
          "exiting", "gone"}

Alive(p) == p \notin killed /\ at[p] # "gone" /\ (p \in Agent => at[p] # "idle")

Owner == {p \in Pid \ killed : at[p] \in {"held", "running"}}

TypeOK ==
    /\ creator \in Pid \cup {NoPid}
    /\ content \in {creator, NoPid}
    /\ at \in [Pid -> Place]
    /\ second \in SUBSET Pid
    /\ killed \in SUBSET Pid /\ Cardinality(killed) <= MaxCrash
    /\ \A l \in Launcher : at[l] \notin {"running", "gone"}

Init ==
    /\ creator = NoPid /\ content = NoPid
    /\ at = [p \in Pid |-> "idle"]
    /\ second = {}
    /\ killed = {}

Move(p, from, to) ==
    /\ p \notin killed
    /\ at[p] = from
    /\ at' = [at EXCEPT ![p] = to]

\* ALREADY_RUNNING: a launcher waits for the other's Agent, an Agent exits.
Refusal(p) == IF p \in Launcher THEN "waiting" ELSE "gone"

\* After release: an Agent process is about to end, its last status still good.
Released(p) == IF p \in Launcher THEN "waiting" ELSE "exiting"

(***************************************************************************)
(* acquire                                                                 *)
(***************************************************************************)

\* open(O_CREAT | O_EXCL) succeeds.
Create(p) ==
    /\ Move(p, "trying", "created")
    /\ creator = NoPid
    /\ creator' = p /\ content' = NoPid
    /\ second' = second \ {p}
    /\ UNCHANGED killed

\* The PID goes to the file that was created, even if it is no longer there.
WritePid(p) ==
    /\ Move(p, "created", "held")
    /\ content' = IF creator = p THEN p ELSE content
    /\ UNCHANGED <<creator, second, killed>>

\* FileExistsError.
Exists(p) ==
    /\ Move(p, "trying", "exists")
    /\ creator # NoPid
    /\ UNCHANGED <<creator, content, second, killed>>

\* The PID of a live process: ALREADY_RUNNING.
ReadLive(p) ==
    /\ Move(p, "exists", Refusal(p))
    /\ content # NoPid /\ Alive(content)
    /\ second' = second \ {p}
    /\ UNCHANGED <<creator, content, killed>>

\* The file is empty, or no longer there.
ReadNothing(p) ==
    /\ Move(p, "exists", "unreadable")
    /\ content = NoPid
    /\ UNCHANGED <<creator, content, second, killed>>

\* The second look: still nothing to read is ALREADY_RUNNING, anything else is
\* LOCK_CORRUPT, which makes ensure_running fail.
ReadAgain(p) ==
    /\ Move(p, "unreadable",
            IF content # NoPid /\ p \in Launcher THEN "corrupt" ELSE Refusal(p))
    /\ second' = second \ {p}
    /\ UNCHANGED <<creator, content, killed>>

\* MUTANT: the owner is not asked whether it is alive.
ReadStaleUnasked(p) ==
    /\ Move(p, "exists", "reclaiming")
    /\ content # NoPid
    /\ OneReclaimer => \A q \in Pid \ killed : at[q] # "reclaiming"
    /\ UNCHANGED <<creator, content, second, killed>>

ReadStale(p) ==
    /\ Move(p, "exists", "reclaiming")
    /\ content # NoPid /\ ~Alive(content)
    /\ OneReclaimer => \A q \in Pid \ killed : at[q] # "reclaiming"
    /\ UNCHANGED <<creator, content, second, killed>>

\* MUTANT: the file is given up on instead of unlinked.
ReclaimNothing(p) ==
    /\ Move(p, "reclaiming", IF p \in second THEN Refusal(p) ELSE "trying")
    /\ second' = IF p \in second THEN second \ {p} ELSE second \cup {p}
    /\ UNCHANGED <<creator, content, killed>>

\* unlink() takes whatever file has the name now.
Reclaim(p) ==
    /\ Move(p, "reclaiming", IF p \in second THEN Refusal(p) ELSE "trying")
    /\ creator' = NoPid /\ content' = NoPid
    /\ second' = IF p \in second THEN second \ {p} ELSE second \cup {p}
    /\ UNCHANGED killed

(***************************************************************************)
(* release: read, compare with the own PID, unlink                         *)
(***************************************************************************)

ReadOwn(p) ==
    /\ Move(p, "leaving", IF content = p THEN "unlinking"
                          ELSE Released(p))
    /\ UNCHANGED <<creator, content, second, killed>>

Unlink(p) ==
    /\ Move(p, "unlinking", Released(p))
    /\ creator' = NoPid /\ content' = NoPid
    /\ UNCHANGED <<second, killed>>

(***************************************************************************)
(* ensure_running.  A running Agent whose heartbeat is older than 5 s      *)
(* looks like none, so a launcher may always find no status.               *)
(***************************************************************************)

Ensure(l) ==
    /\ Move(l, "idle", "trying")
    /\ UNCHANGED <<creator, content, second, killed>>

\* No status: start an Agent and do not wait for it.
Spawn(l, a) ==
    /\ l \notin killed /\ at[l] = "held"
    /\ a \notin killed /\ at[a] = "idle"
    /\ at' = [at EXCEPT ![l] = "leaving", ![a] = "trying"]
    /\ UNCHANGED <<creator, content, second, killed>>

\* There is a status now, if only of an Agent that has given up its lock.
SpawnNone(l) ==
    /\ Move(l, "held", "leaving")
    /\ \E a \in Agent \ killed : at[a] = "exiting"
    /\ UNCHANGED <<creator, content, second, killed>>

\* It sees a status, or GATEWAY_AGENT_START_TIMEOUT, or LOCK_CORRUPT.
Returns(l) ==
    /\ at[l] \in {"waiting", "corrupt"}
    /\ Move(l, at[l], "idle")
    /\ UNCHANGED <<creator, content, second, killed>>

(***************************************************************************)
(* The Agent process, and the operating system                             *)
(***************************************************************************)

\* The autostart of the user session.
Autostart(a) ==
    /\ Move(a, "idle", "trying")
    /\ UNCHANGED <<creator, content, second, killed>>

Run(a) ==
    /\ Move(a, "held", "running")
    /\ UNCHANGED <<creator, content, second, killed>>

Finish(a) ==
    /\ at[a] \in {"held", "running"}
    /\ Move(a, at[a], "leaving")
    /\ UNCHANGED <<creator, content, second, killed>>

Exit(a) ==
    /\ Move(a, "exiting", "gone")
    /\ UNCHANGED <<creator, content, second, killed>>

Kill(p) ==
    /\ Alive(p) /\ Cardinality(killed) < MaxCrash
    /\ killed' = killed \cup {p}
    /\ second' = second \ {p}
    /\ UNCHANGED <<creator, content, at>>

\* The steps that a process takes once it has begun.
Proceed(p) ==
    \/ Create(p) \/ WritePid(p) \/ Exists(p) \/ ReadLive(p) \/ ReadNothing(p)
    \/ ReadAgain(p) \/ ReadStale(p) \/ Reclaim(p) \/ ReadOwn(p) \/ Unlink(p)

Next ==
    \/ \E p \in Pid : Proceed(p) \/ Kill(p)
    \/ \E l \in Launcher :
        \/ Ensure(l) \/ SpawnNone(l) \/ Returns(l)
        \/ \E a \in Agent : Spawn(l, a)
    \/ \E a \in Agent : Autostart(a) \/ Run(a) \/ Finish(a) \/ Exit(a)

Spec == Init /\ [][Next]_vars

\* Every live process goes on, and a launcher calls ensure_running again.
Fairness ==
    /\ \A p \in Pid : WF_vars(Proceed(p))
    /\ \A l \in Launcher : WF_vars(Ensure(l) \/ Returns(l))

LiveSpec == Spec /\ Fairness

(***************************************************************************)
(* Properties                                                              *)
(***************************************************************************)

\* Whoever believes to own the lock has its own PID in the file, so nobody
\* else can take it: holds as long as no two processes reclaim at once.
OwnerHasFile ==
    /\ TypeOK
    /\ \A p \in Owner : creator = p /\ content = p

\* A record left by a dead owner does not keep the Gateway without an Agent
\* as long as somebody asks for one.
StaleRecordReclaimed ==
    \A p \in Pid :
        content = p /\ p \in killed ~> content # p \/ Launcher \subseteq killed

\* "Atomic per-user owner lock; stale owners may be reclaimed safely."
OneOwner == Cardinality(Owner) <= 1

=============================================================================
