----------------------------- MODULE AgentQueue -----------------------------
(***************************************************************************)
(* The file queue between the control commands and the Gateway Agent       *)
(* (GatewayRequestStore), the loop of the Agent that serves it and the     *)
(* threads that serve preparations (GatewayAgent).                         *)
(*                                                                         *)
(* A request identity has three files: the request, the response and the   *)
(* marker of what was completed.  Submitters are processes of their own,   *)
(* or threads of the socket server; each of their file operations is a     *)
(* step.  Two submitters of one identity are a client that repeats a lost  *)
(* call with the same payload, so payloads never differ here.              *)
(*                                                                         *)
(* Clock: a request may be found expired whenever it is served, a          *)
(* submitter may stop waiting whenever it waits.  The removal of files     *)
(* that are an hour old is left out: nothing refers to them any more.      *)
(***************************************************************************)
EXTENDS Naturals, FiniteSets

CONSTANTS
    Sub,        \* the submitters
    Id,         \* the request identities
    Program,    \* those whose operation starts with "program_"
    Prepare, Stop,   \* the one that prepares, and the one that shuts down
    IdOf(_),    \* the identity that a submitter uses
    Slow,       \* submitters held up between two adjacent file operations
    MaxDeath,   \* bound: deaths of the Agent
    None, Whole

ASSUME IdAssumption ==
    Prepare \in Program /\ Program \subseteq Id /\ Stop \in Id \ Program
    /\ \A s \in Sub : IdOf(s) \in Id
ASSUME BoundAssumption ==
    /\ MaxDeath \in Nat /\ Slow \subseteq Sub
    /\ {None, Whole} \cap Sub = {} /\ None # Whole

VARIABLES
    request,   \* id -> its request file: absent, whole, or half written by whom
    marker,    \* id -> "none", "hash" of a program request, or "plain"
    response,  \* id -> whether its response file is there
    pc,        \* submitter -> where submit_request is
    loop,      \* where the loop of the Agent is
    batch,     \* requests of the last pending() that are still to be served
    broken,    \* files that pending() could not read and is about to unlink
    serving,   \* id -> how far _dispatch_once has got with it
    stopping,  \* _shutdown_requested
    deaths,
    runs       \* history: how often each program request was carried out

disk == <<request, marker, response>>
agent == <<loop, batch, broken, serving, stopping, deaths, runs>>
vars == <<disk, pc, agent>>

Submitting == {"completed", "fetch", "exists", "pending", "match", "recheck", "refetch",
            "marker", "free", "create", "write", "wait", "missed", "ack", "unlink"}
Serving == {"no", "run", "mark", "respond", "complete"}

TypeOK ==
    /\ request \in [Id -> Sub \cup {None, Whole}]
    /\ marker \in [Id -> {"none", "hash", "plain"}]
    /\ response \in [Id -> BOOLEAN]
    /\ pc \in [Sub -> Submitting \cup {"returned"}]
    /\ loop \in {"up", "closing", "down"}
    /\ batch \subseteq Id /\ broken \subseteq Id
    /\ serving \in [Id -> Serving] /\ stopping \in BOOLEAN
    /\ deaths \in 0..MaxDeath /\ runs \in [Program -> Nat]
    \* The loop serves one request at a time, beside the preparations, and
    \* only while there is a loop.
    /\ Cardinality({r \in Id \ {Prepare} : serving[r] # "no"}) <= 1
    /\ loop = "down" => \A r \in Id : serving[r] = "no"

Submitters(r) == {s \in Sub : IdOf(s) = r}

Init ==
    /\ request = [r \in Id |-> None]
    /\ marker = [r \in Id |-> "none"] /\ response = [r \in Id |-> FALSE]
    \* The checks of an identity that nobody else uses find nothing.
    /\ pc = [s \in Sub |-> IF Submitters(IdOf(s)) = {s} THEN "create" ELSE "completed"]
    /\ loop = "up" /\ batch = {} /\ broken = {}
    /\ serving = [r \in Id |-> "no"] /\ stopping = FALSE
    /\ deaths = 0 /\ runs = [r \in Program |-> 0]

-----------------------------------------------------------------------------
(* Submitters.                                                             *)

Goto(s, p) == pc' = [pc EXCEPT ![s] = p]
Step(s, from, to) == pc[s] = from /\ Goto(s, to) /\ UNCHANGED agent
Branch(s, from, test, yes, no) ==
    Step(s, from, IF test THEN yes ELSE no) /\ UNCHANGED disk

MatchingMarker(r) == r \in Program /\ marker[r] = "hash"
MatchingPending(r) == r \in Program /\ request[r] = Whole

\* _matching_completed_response, first and again after a collision.
Completed(s) ==
    LET r == IdOf(s) IN
    \/ Branch(s, "completed", response[r] /\ MatchingMarker(r), "fetch", "exists")
    \/ Branch(s, "recheck", response[r] /\ MatchingMarker(r), "refetch", "returned")

Exists(s) == Branch(s, "exists", response[IdOf(s)], "returned", "pending")
Pending(s) == Branch(s, "pending", request[IdOf(s)] # None, "match", "marker")

\* _matching_pending_program_request gives a half-written file three tries.
Match(s) == Branch(s, "match", MatchingPending(IdOf(s)), "wait", "recheck")

\* enqueue: a marker without its response makes way for another run.
Marker(s) ==
    LET r == IdOf(s) IN
    /\ Step(s, "marker", IF marker[r] # "none" /\ (~MatchingMarker(r) \/ response[r])
                         THEN "match" ELSE "free")
    /\ marker' = IF MatchingMarker(r) /\ ~response[r]
                 THEN [marker EXCEPT ![r] = "none"] ELSE marker
    /\ UNCHANGED <<request, response>>

Free(s) == Branch(s, "free", response[IdOf(s)], "match", "create")

\* O_CREAT | O_EXCL, and then the content.
Create(s) ==
    LET r == IdOf(s) IN
    /\ Step(s, "create", IF request[r] # None THEN "match"
                         ELSE IF s \in Slow THEN "write" ELSE "wait")
    /\ request' = IF request[r] # None THEN request
                  ELSE [request EXCEPT ![r] = IF s \in Slow THEN s ELSE Whole]
    /\ UNCHANGED <<marker, response>>

\* The content goes to the file that was created, whether or not its name is
\* still there.
Write(s) ==
    LET r == IdOf(s) IN
    /\ Step(s, "write", "wait")
    /\ request' = IF request[r] = s THEN [request EXCEPT ![r] = Whole] ELSE request
    /\ UNCHANGED <<marker, response>>

\* read_response: a file that is not there to be read is unlinked.
Missing(place) ==
    CASE place = "fetch" -> "exists" [] place = "refetch" -> "returned" [] OTHER -> "wait"

Read(s) ==
    /\ pc[s] \in {"fetch", "refetch", "wait"}
    /\ Branch(s, pc[s], response[IdOf(s)], "ack",
              IF pc[s] = "wait" /\ s \in Slow THEN "missed" ELSE Missing(pc[s]))

Discard(s) ==
    /\ Step(s, "missed", "wait")
    /\ response' = [response EXCEPT ![IdOf(s)] = FALSE] /\ UNCHANGED <<request, marker>>

\* acknowledge_response keeps the replay guard when it removes the response.
Acknowledge(s) ==
    LET r == IdOf(s) IN
    /\ Step(s, "ack", IF s \in Slow THEN "unlink" ELSE "returned")
    /\ marker' = [marker EXCEPT ![r] = IF @ = "none" THEN "plain" ELSE @]
    /\ response' = IF s \in Slow THEN response ELSE [response EXCEPT ![r] = FALSE]
    /\ UNCHANGED request

Unlink(s) ==
    /\ Step(s, "unlink", "returned")
    /\ response' = [response EXCEPT ![IdOf(s)] = FALSE] /\ UNCHANGED <<request, marker>>

TimesOut(s) == Step(s, "wait", "returned") /\ UNCHANGED disk

\* A submitter is killed where that leaves something half done.
Killed(s) ==
    /\ pc[s] \in {"write", "unlink"}
    /\ Step(s, pc[s], "returned") /\ UNCHANGED disk

Submit(s) ==
    \/ Completed(s) \/ Exists(s) \/ Pending(s) \/ Match(s) \/ Marker(s) \/ Free(s)
    \/ Create(s) \/ Write(s) \/ Read(s) \/ Discard(s) \/ Acknowledge(s) \/ Unlink(s) \/ TimesOut(s) \/ Killed(s)

-----------------------------------------------------------------------------
(* The Agent.                                                              *)

Serve(r, from, to) == serving[r] = from /\ serving' = [serving EXCEPT ![r] = to]
Idle == \A r \in Id \ {Prepare} : serving[r] = "no"

\* The end of run_once, after which the loop sleeps, or stops.
Ended == loop = "up" /\ batch = {} /\ broken = {} /\ Idle

\* pending(): the requests that can be read now are the ones to be served.
Poll ==
    /\ Ended /\ ~stopping
    /\ batch' = {r \in Id : request[r] = Whole}
    /\ broken' = {r \in Id : request[r] # None} \ batch'
    /\ UNCHANGED <<disk, pc, loop, serving, stopping, deaths, runs>>

\* A file that was not valid JSON when it was read goes away.
DropBroken ==
    /\ loop = "up" /\ broken # {} /\ broken' = {}
    /\ request' = [r \in Id |-> IF r \in broken THEN None ELSE request[r]]
    /\ UNCHANGED <<marker, response, pc, loop, batch, serving, stopping, deaths, runs>>

\* run_once: preparations go to threads, everything else is served in turn.
\* A preparation that is in flight is skipped; one that has ended since the
\* batch was read is not.
Dispatch(r) ==
    /\ loop = "up" /\ broken = {} /\ Idle /\ r \in batch
    /\ batch' = batch \ {r}
    /\ serving' = IF serving[r] = "no" THEN [serving EXCEPT ![r] = "run"] ELSE serving
    /\ UNCHANGED <<disk, pc, loop, broken, stopping, deaths, runs>>

\* A mutant of Run that removes the request before there is a response.
RunEarly(r) ==
    /\ Serve(r, "run", IF r \in Program THEN "mark" ELSE "respond")
    /\ request' = [request EXCEPT ![r] = None]
    /\ runs' = [runs EXCEPT ![r] = @ + 1] /\ stopping' = (stopping \/ r = Stop)
    /\ UNCHANGED <<marker, response, pc, loop, batch, broken, deaths>>

\* _dispatch_once: carried out unless it has expired, then the marker of a
\* program request, the response, and the end of the request file.
Run(r) ==
    /\ Serve(r, "run", IF r \in Program THEN "mark" ELSE "respond")
    /\ \/ runs' = [runs EXCEPT ![r] = @ + 1] /\ stopping' = (stopping \/ r = Stop)
       \/ UNCHANGED <<runs, stopping>>
    /\ UNCHANGED <<disk, pc, loop, batch, broken, deaths>>

Mark(r) ==
    /\ Serve(r, "mark", "respond")
    /\ marker' = [marker EXCEPT ![r] = "hash"]
    /\ UNCHANGED <<request, response, pc, loop, batch, broken, stopping, deaths, runs>>

Respond(r) ==
    /\ Serve(r, "respond", "complete")
    /\ response' = [response EXCEPT ![r] = TRUE]
    /\ UNCHANGED <<request, marker, pc, loop, batch, broken, stopping, deaths, runs>>

\* A mutant of Complete that leaves the request file.
CompleteNothing(r) ==
    /\ Serve(r, "complete", "no")
    /\ UNCHANGED <<disk, pc, loop, batch, broken, stopping, deaths, runs>>

Complete(r) ==
    /\ Serve(r, "complete", "no")
    /\ request' = [request EXCEPT ![r] = None]
    /\ UNCHANGED <<marker, response, pc, loop, batch, broken, stopping, deaths, runs>>

Process(r) == Run(r) \/ Mark(r) \/ Respond(r) \/ Complete(r)

\* A mutant of Close that serves what is left first.
CloseWhenEmpty ==
    /\ Ended /\ stopping /\ loop' = "closing" /\ \A r \in Id : request[r] = None
    /\ UNCHANGED <<disk, pc, batch, broken, serving, stopping, deaths, runs>>

Close ==
    /\ Ended /\ stopping /\ loop' = "closing"
    /\ UNCHANGED <<disk, pc, batch, broken, serving, stopping, deaths, runs>>

\* A mutant of Exit that does not join the threads that prepare.
ExitAtOnce ==
    /\ loop = "closing"
    /\ loop' = "down" /\ stopping' = FALSE
    /\ UNCHANGED <<disk, pc, batch, broken, serving, deaths, runs>>

\* The end of run() joins the threads that prepare.
Exit ==
    /\ loop = "closing" /\ serving[Prepare] = "no"
    /\ loop' = "down" /\ stopping' = FALSE
    /\ UNCHANGED <<disk, pc, batch, broken, serving, deaths, runs>>

Die ==
    /\ loop # "down" /\ deaths < MaxDeath
    /\ loop' = "down" /\ deaths' = deaths + 1
    /\ batch' = {} /\ broken' = {} /\ stopping' = FALSE
    /\ serving' = [r \in Id |-> "no"]
    /\ UNCHANGED <<disk, pc, runs>>

Start ==
    /\ loop = "down" /\ loop' = "up"
    /\ UNCHANGED <<disk, pc, batch, broken, serving, stopping, deaths, runs>>

-----------------------------------------------------------------------------

Loop == Poll \/ DropBroken \/ Close \/ Exit \/ \E r \in Id : Dispatch(r)

Next ==
    \/ \E s \in Sub : Submit(s)
    \/ Loop \/ \E r \in Id : Process(r)
    \/ Die \/ Start

Spec == Init /\ [][Next]_vars

\* The Agent runs its loop and its threads, and is started again.
Fairness ==
    /\ WF_vars(Loop) /\ WF_vars(Start)
    /\ \A r \in Id : WF_vars(Process(r))

LiveSpec == Spec /\ Fairness

-----------------------------------------------------------------------------
(* Properties.                                                             *)

\* Who waits for an answer waits for something: its request is still to be
\* served, it is being served, the response is there, or another submitter of
\* the same identity took it; also when the Agent dies while it serves.  A slow
\* submitter may lose its request, or the response, to a reader that finds
\* the file half written, or missing.
WaitsForSomething(s) ==
    LET r == IdOf(s) IN
    \/ request[r] # None \/ response[r]
    \/ serving[r] \in {"run", "mark", "respond"}
    \/ \E t \in Submitters(r) \ {s} : pc[t] = "returned"

WaiterIsServed ==
    \A s \in Sub : pc[s] = "wait" /\ Submitters(IdOf(s)) \cap Slow = {} => WaitsForSomething(s)

\* "The agent processes an identifier at most once": as the identity is also its
\* replay guard, nothing is carried out a second time for it.  The code does not
\* keep this: a batch may be older than the end of a preparation (MCAgentQueueTwice).
RunsOnce == \A r \in Program : runs[r] <= 1

\* Every request that is completely written is taken up and goes away, across
\* deaths and restarts of the Agent.
RequestsAreTakenUp ==
    \A r \in Program : request[r] = Whole ~> request[r] = None

\* A shutdown ends the loop, whatever else is submitted in the meantime, and
\* waits for the preparation under way.
ShutdownEnds == stopping ~> loop = "down"
=============================================================================
