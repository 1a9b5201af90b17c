--------------------------- MODULE GatewayBinding ---------------------------
(***************************************************************************)
(* GatewayClientCoordinator: the pair of SSH forwards (GDB and TCL) that a *)
(* client keeps to the Gateway.  Threads poll, feed health snapshots in    *)
(* and close; every method drops the coordinator's lock around its calls   *)
(* of RemoteSession, and a mutation token tells a thread that comes back   *)
(* whether anybody has been there meanwhile.  RemoteSession registers      *)
(* forwards and counts connections.                                        *)
(*                                                                         *)
(* A route stands for what locates a running OpenOCD: the instance, the    *)
(* generation and the endpoints of a snapshot.  Of the mutation token a    *)
(* thread keeps whether it still is the current one, and of a sequence     *)
(* number whether it is above the one that the coordinator has accepted.   *)
(***************************************************************************)
EXTENDS Naturals, FiniteSets

CONSTANTS
    Thread,       \* threads of the client
    Poller,       \* the thread that polls for ever
    MaxRoute,     \* the Gateway takes the routes 1..MaxRoute one after the other
    Instance(_),  \* the Gateway instance that a route belongs to
    Attempts,     \* max_recovery_attempts
    MaxDisturb    \* bound: what the environment and the other threads may do

ASSUME BindingAssumption ==
    /\ Poller \in Thread /\ Attempts \in 1..3
    /\ IsFiniteSet(Thread) /\ MaxRoute \in Nat \ {0} /\ MaxDisturb \in Nat

None == 0
Route == 1..MaxRoute

VARIABLES
    link, gen,   \* RemoteSession: the transport is up, dead or gone; the generation
    fwd,         \* RemoteSession: the forwards that are registered and listen, each
                 \* with the connection (its generation) whose transport it uses
    gw,          \* the Gateway: its present route, and whether it is READY
    co,          \* the coordinator
    news,        \* the Gateway has published since the coordinator's snapshot
    th,          \* what each thread is doing
    disturb      \* disturbances left

session == <<link, gen, fwd>>
vars == <<session, gw, co, news, th, disturb>>

Pair == 1..(2 * Cardinality(Thread) + 1)   \* names of pairs of forwards
Part == {"gdb", "tcl"}
Made == [p \in Part |-> IF p = "gdb" THEN "gdbMade" ELSE "tclMade"]
Idle == [pc |-> "idle", valid |-> FALSE, snap |-> [route |-> None, ready |-> FALSE, fresh |-> FALSE],
         later |-> FALSE, reuse |-> FALSE, gen |-> 0, via |-> 0, staged |-> None, closing |-> None,
         then |-> "idle", tries |-> 0]

Init ==
    /\ link = "up" /\ gen = 1 /\ fwd = {}
    /\ gw = [route |-> 1, ready |-> TRUE] /\ news = TRUE
    /\ co = [closed |-> FALSE, route |-> None, ready |-> FALSE, gen |-> 0, target |-> None,
             owned |-> None, reason |-> "other"]
    /\ th = [t \in Thread |-> Idle] /\ disturb = MaxDisturb

Valid(t) == ~co.closed /\ th[t].valid
Disturbs == disturb > 0 /\ disturb' = disturb - 1
At(t, pc) == th[t].pc = pc
Goto(t, pc) == th' = [th EXCEPT ![t].pc = pc]
\* _start: the token of everybody else is stale from now on.
Starts(t, pc) == th' = [u \in Thread |-> IF u = t THEN [Idle EXCEPT !.pc = pc, !.valid = TRUE]
                                         ELSE [th[u] EXCEPT !.valid = FALSE]]
Ends(t) == th' = [th EXCEPT ![t] = Idle]
\* _close_names, outside the lock, before the thread goes on at pc.
Closes(t, pair, pc) == [Idle EXCEPT !.pc = "close", !.closing = pair, !.then = pc,
                                    !.valid = pc # "idle" /\ th[t].valid, !.tries = th[t].tries]
\* Where a snapshot that led to nothing leaves a poll and a recovery.
NextTry(t) == IF th[t].tries = 0 THEN "idle" ELSE "recover"

\* _invalidate_locked; _stale_locked where there is no binding left to forget.
Invalid == [co EXCEPT !.ready = FALSE, !.gen = 0, !.target = None, !.owned = None, !.reason = "other"]
\* _accept_locked
Newer(snap) ==
    \/ co.route = None \/ Instance(snap.route) # Instance(co.route)
    \/ snap.route > co.route
    \/ snap.route = co.route /\ snap.fresh
Names(pair) == {f.part : f \in {g \in fwd : g.pair = pair}}
InUse == {co.owned} \cup UNION {{th[t].staged, th[t].closing} : t \in Thread}

-----------------------------------------------------------------------------
(* ensure_ready, health, accept_health_snapshot and close.                 *)

\* The timer of the client polls for ever; everything else is a disturbance.
Called(t) == /\ At(t, "idle") /\ ~co.closed
             /\ IF t = Poller THEN UNCHANGED disturb ELSE Disturbs

EnsureReady(t) ==
    /\ Called(t) /\ link = "up" /\ Starts(t, "status")
    /\ UNCHANGED <<session, gw, co, news>>

Disconnected(t) ==
    /\ Called(t) /\ link # "up" /\ co' = Invalid
    /\ th' = [u \in Thread |-> IF u = t THEN Closes(t, co.owned, "idle")
                               ELSE [th[u] EXCEPT !.valid = FALSE]]
    /\ UNCHANGED <<session, gw, news>>

\* A snapshot that another request has fetched, now or before the Gateway moved.
AcceptHealthSnapshot(t) == \E r \in 1..gw.route :
    /\ At(t, "idle") /\ t # Poller /\ ~co.closed /\ Disturbs
    /\ Newer([route |-> r, fresh |-> r = gw.route /\ news])
    /\ co' = [Invalid EXCEPT !.route = r]
    /\ news' \in {r # gw.route, TRUE}
    /\ th' = [u \in Thread |-> IF u = t THEN Closes(t, co.owned, "idle")
                               ELSE [th[u] EXCEPT !.valid = FALSE]]
    /\ UNCHANGED <<session, gw>>

Close(t) ==
    /\ At(t, "idle") /\ t # Poller /\ ~co.closed /\ Disturbs
    /\ co' = [Invalid EXCEPT !.closed = TRUE]
    /\ th' = [th EXCEPT ![t] = Closes(t, co.owned, "idle")]
    /\ UNCHANGED <<session, gw, news>>

CloseNames(t) ==
    /\ At(t, "close")
    /\ fwd' = {f \in fwd : f.pair # th[t].closing}
    /\ th' = [th EXCEPT ![t] = IF th[t].then = "idle" THEN Idle
                               ELSE [th[t] EXCEPT !.pc = th[t].then, !.closing = None]]
    /\ UNCHANGED <<link, gen, gw, co, news, disturb>>

-----------------------------------------------------------------------------
(* Reading a snapshot and using it: ensure_ready, _apply, _recover, _ready. *)

\* gateway_status of a poll; gateway_rescan or ensure_gateway_ready of a recovery.
Reads(t) ==
    \/ At(t, "status")
    \/ At(t, "recover") /\ Valid(t) /\ th[t].tries <= 2 * Attempts

ReadSnapshot(t) ==
    /\ Reads(t) /\ link = "up"
    /\ th' = [th EXCEPT ![t].pc = "apply", ![t].later = FALSE, ![t].tries = IF @ = 0 THEN 0 ELSE @ + 1,
                        ![t].snap = [route |-> gw.route, ready |-> gw.ready, fresh |-> news]]
    /\ UNCHANGED <<session, gw, co, news, disturb>>

ReadFails(t) ==
    /\ Reads(t) /\ IF link = "up" THEN Disturbs ELSE UNCHANGED disturb
    /\ \/ At(t, "status") /\ Valid(t) /\ co' = Invalid
          /\ th' = [th EXCEPT ![t] = Closes(t, co.owned, "idle")]
       \/ At(t, "status") /\ ~Valid(t) /\ Ends(t) /\ UNCHANGED co
       \/ At(t, "recover") /\ th' = [th EXCEPT ![t].tries = @ + 1] /\ UNCHANGED co
       \/ At(t, "recover") /\ co' = [co EXCEPT !.reason = "other"] /\ Ends(t)   \* not retriable
    /\ UNCHANGED <<session, gw, news>>

Exhausted(t) ==
    /\ At(t, "recover") /\ Valid(t) /\ th[t].tries > 2 * Attempts
    /\ co' = [co EXCEPT !.reason = "other"] /\ Ends(t)
    /\ UNCHANGED <<session, gw, news, disturb>>

Superseded(t) ==
    /\ th[t].pc \in {"apply", "decide", "failed", "recover"} /\ ~Valid(t) /\ Ends(t)
    /\ UNCHANGED <<session, gw, co, news, disturb>>

\* Several probes or a target that cannot be verified are not recovered from.
NotReady(t) ==
    /\ At(t, "apply") /\ Valid(t) /\ ~th[t].snap.ready
    /\ \E pc \in {"recover", "idle"} :
         IF th[t].tries = 0
         THEN /\ co' = Invalid
              /\ th' = [th EXCEPT ![t] = [Closes(t, co.owned, pc) EXCEPT !.tries = 1]]
         ELSE /\ co' = [co EXCEPT !.reason = IF pc = "idle" THEN "other" ELSE @]
              /\ IF pc = "idle" THEN Ends(t) ELSE Goto(t, pc)
    /\ UNCHANGED <<session, gw, news, disturb>>

Rejected(t) ==
    /\ At(t, "apply") /\ Valid(t) /\ th[t].snap.ready /\ ~Newer(th[t].snap)
    /\ IF co.reason = "tunnel" /\ th[t].tries = 0
       THEN th' = [th EXCEPT ![t].pc = "recover", ![t].tries = 1]
       ELSE IF ~co.ready /\ th[t].tries > 0 THEN Goto(t, "recover") ELSE Ends(t)
    /\ UNCHANGED <<session, gw, co, news, disturb>>

Accepted(t) ==
    /\ At(t, "apply") /\ Valid(t) /\ th[t].snap.ready /\ Newer(th[t].snap)
    /\ co' = [co EXCEPT !.route = th[t].snap.route] /\ news' = th[t].later
    /\ th' = [th EXCEPT ![t].pc = "look", ![t].later = FALSE,
                        ![t].reuse = co.ready /\ co.route = th[t].snap.route]
    /\ UNCHANGED <<session, gw, disturb>>

\* MUTANT of Look: the forwards are not looked at.
LookAway(t) ==
    /\ At(t, "look")
    /\ th' = [th EXCEPT ![t].pc = "decide", ![t].reuse = @ /\ co.gen = gen]
    /\ UNCHANGED <<session, gw, co, news, disturb>>

\* RemoteSession.state, read without the coordinator's lock.
Look(t) ==
    /\ At(t, "look")
    /\ th' = [th EXCEPT ![t].pc = "decide",
                        ![t].reuse = @ /\ Names(co.owned) = Part /\ co.gen = gen]
    /\ UNCHANGED <<session, gw, co, news, disturb>>

Reuse(t) ==
    /\ At(t, "decide") /\ Valid(t) /\ th[t].reuse /\ Ends(t)
    /\ UNCHANGED <<session, gw, co, news, disturb>>

-----------------------------------------------------------------------------
(* _stage_bind, with the two calls of RemoteSession.open_forward.          *)

NewNames(t) ==
    /\ At(t, "decide") /\ Valid(t) /\ ~th[t].reuse
    /\ LET n == CHOOSE p \in Pair : p \notin InUse
       IN th' = [th EXCEPT ![t].pc = "gdb", ![t].staged = n, ![t].snap.fresh = FALSE]
    /\ UNCHANGED <<session, gw, co, news, disturb>>

\* The server is created with the transport of the moment, outside the session's lock...
Open(t) == \E p \in Part :
    /\ At(t, p) /\ link = "up"
    /\ th' = [th EXCEPT ![t].pc = Made[p], ![t].via = gen]
    /\ UNCHANGED <<session, gw, co, news, disturb>>

\* ... and registered if the session is connected then, be it by another transport.
Register(t) == \E p \in Part :
    /\ At(t, Made[p]) /\ link = "up"
    /\ fwd' = fwd \cup {[pair |-> th[t].staged, part |-> p, via |-> th[t].via]}
    /\ th' = [th EXCEPT ![t].pc = IF p = "gdb" THEN "tcl" ELSE "generation", ![t].via = 0]
    /\ UNCHANGED <<link, gen, gw, co, news, disturb>>

OpenFails(t) ==
    /\ th[t].pc \in Part \cup {"gdbMade", "tclMade"}
    /\ IF link = "up" THEN th[t].pc \in Part /\ Disturbs ELSE UNCHANGED disturb
    /\ th' = [th EXCEPT ![t] = Closes(t, th[t].staged, "failed")]
    /\ UNCHANGED <<session, gw, co, news>>

ReadGeneration(t) ==
    /\ At(t, "generation")
    /\ th' = [th EXCEPT ![t].pc = "commit", ![t].gen = gen]
    /\ UNCHANGED <<session, gw, co, news, disturb>>

Commits(t) ==
    /\ co' = [co EXCEPT !.ready = TRUE, !.gen = th[t].gen, !.target = th[t].snap.route,
                        !.owned = th[t].staged, !.reason = "ready"]
    /\ th' = [th EXCEPT ![t] = Closes(t, co.owned, "idle")]
    /\ UNCHANGED <<session, gw, news, disturb>>

\* MUTANT of Commit: the token is not looked at again.
CommitLate(t) == At(t, "commit") /\ Commits(t)

Commit(t) == At(t, "commit") /\ Valid(t) /\ Commits(t)

\* MUTANT of Abandon: the staged names are forgotten.
AbandonOpen(t) ==
    /\ At(t, "commit") /\ ~Valid(t) /\ Ends(t)
    /\ UNCHANGED <<session, gw, co, news, disturb>>

Abandon(t) ==
    /\ At(t, "commit") /\ ~Valid(t)
    /\ th' = [th EXCEPT ![t] = Closes(t, th[t].staged, "idle")]
    /\ UNCHANGED <<session, gw, co, news, disturb>>

\* A binding that was there before the failure stays, and stays READY.
Failed(t) ==
    /\ At(t, "failed") /\ Valid(t)
    /\ \/ co.ready /\ Ends(t) /\ UNCHANGED co
       \/ /\ ~co.ready /\ co' = [co EXCEPT !.reason = "tunnel"]
          /\ th' = [th EXCEPT ![t].pc = "recover", ![t].tries = IF @ = 0 THEN 1 ELSE @]
    /\ UNCHANGED <<session, gw, news, disturb>>

-----------------------------------------------------------------------------
(* RemoteSession and the Gateway.                                          *)

Disconnect ==
    /\ link # "down" /\ Disturbs /\ link' = "down" /\ gen' = gen + 1 /\ fwd' = {}
    /\ UNCHANGED <<gw, co, news, th>>

TransportDies ==
    /\ link = "up" /\ Disturbs /\ link' = "dead"
    /\ UNCHANGED <<gen, fwd, gw, co, news, th>>

\* connect disconnects a dead transport first.
Connect ==
    /\ link # "up" /\ link' = "up" /\ fwd' = {}
    /\ gen' = gen + IF link = "dead" THEN 2 ELSE 1
    /\ UNCHANGED <<gw, co, news, th, disturb>>

ForwardDies ==
    /\ Disturbs /\ \E f \in fwd : fwd' = fwd \ {f}
    /\ UNCHANGED <<link, gen, gw, co, news, th>>

Published == news' = TRUE /\ th' = [t \in Thread |-> [th[t] EXCEPT !.later = At(t, "apply")]]

Publish ==
    /\ Published /\ UNCHANGED <<session, gw, co, disturb>>

GatewayMoves ==
    /\ gw.route + 1 \in Route /\ Disturbs /\ Published
    /\ gw' = [route |-> gw.route + 1, ready |-> TRUE] /\ UNCHANGED <<session, co>>

GatewayStops ==
    /\ gw.ready /\ Disturbs /\ Published
    /\ gw' = [gw EXCEPT !.ready = FALSE] /\ UNCHANGED <<session, co>>

GatewayReady ==
    /\ ~gw.ready /\ Published
    /\ gw' = [gw EXCEPT !.ready = TRUE] /\ UNCHANGED <<session, co, disturb>>

-----------------------------------------------------------------------------
Step(t) ==
    \/ CloseNames(t) \/ ReadSnapshot(t) \/ ReadFails(t) \/ Exhausted(t) \/ Superseded(t)
    \/ NotReady(t) \/ Rejected(t) \/ Accepted(t) \/ Look(t) \/ Reuse(t) \/ NewNames(t)
    \/ Open(t) \/ Register(t) \/ OpenFails(t) \/ ReadGeneration(t) \/ Commit(t) \/ Abandon(t)
    \/ Failed(t)
Call(t) == EnsureReady(t) \/ Disconnected(t) \/ AcceptHealthSnapshot(t) \/ Close(t)
Environment ==
    \/ Disconnect \/ TransportDies \/ Connect \/ ForwardDies
    \/ Publish \/ GatewayMoves \/ GatewayStops \/ GatewayReady

Next == (\E t \in Thread : Step(t) \/ Call(t)) \/ Environment

Spec == Init /\ [][Next]_vars
\* Threads go on, the timer polls, the SSH session is connected again, and the owner of the
\* Gateway publishes at each cycle and gets ready again.
Fairness ==
    /\ \A t \in Thread : WF_vars(Step(t))
    /\ WF_vars(EnsureReady(Poller)) /\ WF_vars(Connect) /\ WF_vars(Publish) /\ WF_vars(GatewayReady)
LiveSpec == Spec /\ Fairness

-----------------------------------------------------------------------------
TypeOK ==
    /\ link \in {"up", "dead", "down"} /\ gen \in Nat
    /\ fwd \subseteq [pair : Pair, part : Part, via : Nat]
    /\ gw \in [route : Route, ready : BOOLEAN] /\ news \in BOOLEAN
    /\ co.ready = (co.owned # None) /\ co.ready = (co.target # None)
    /\ co.ready = (co.reason = "ready") /\ ~(co.ready /\ co.closed)

\* Every forward that is registered belongs to the binding or to a thread that will commit or
\* close it: no interleaving of polls, health snapshots, close and lost connections leaks one.
ForwardsAreAccountedFor ==
    /\ TypeOK
    /\ \A f \in fwd : f.pair \in InUse

\* A closed coordinator ends with no forward at all and never binds again.
ClosedLeavesNothing == <>[](co.closed => fwd = {} /\ ~co.ready)

\* The coordinator has its pair registered under the present generation: it reuses it.
Bound == link = "up" /\ co.ready /\ co.gen = gen /\ Names(co.owned) = Part
\* A forward of that pair was made with the transport of an earlier connection.
Crossed == Bound /\ \E f \in fwd : f.pair = co.owned /\ f.via # gen
\* The pair goes through the present connection.
Tunnelled == Bound /\ ~Crossed
\* Once nothing is disturbed any more, the polls get a pair of forwards and keep it, through
\* which the Gateway can be reached; save for the one state of StaleTunnelsAreReplaced.
TunnelComesBack == <>[](co.closed \/ Tunnelled \/ Crossed)

\* "Stale tunnels are replaced using generation checks": a pair of which a forward uses the
\* transport of a connection that is gone does not stay READY.  The code does not keep
\* this (MCGatewayBindingCrossed).
StaleTunnelsAreReplaced == <>[](co.closed \/ ~Crossed)

\* From then on the pair leads to the OpenOCD that the Gateway runs: a route that the
\* Gateway has left does not stay READY.
FollowsGateway == <>[](co.ready => co.target = gw.route)
=============================================================================
