-------------------------- MODULE AgentQueueProofs --------------------------
(***************************************************************************)
(* What the file queue guarantees to any number of submitters and          *)
(* identities, across any number of deaths of the Agent.                   *)
(***************************************************************************)
EXTENDS AgentQueue, FiniteSetTheorems, TLAPS

(***************************************************************************)
(* The inductive invariant.                                                *)
(***************************************************************************)

\* Only a slow submitter is seen between two file operations.
SlowOK ==
    /\ \A s \in Sub : pc[s] \in {"write", "missed", "unlink"} => s \in Slow
    /\ \A r \in Id : request[r] \in Sub => request[r] \in Slow /\ IdOf(request[r]) = r
    /\ \A r \in broken : Submitters(r) \cap Slow # {}

\* The loop serves one request at a time, and takes its file away itself.
LoopOK ==
    /\ \A r, q \in Id \ {Prepare} : serving[r] # "no" /\ serving[q] # "no" => r = q
    /\ loop # "up" => batch = {} /\ Idle
    /\ loop # "up" => broken = {}
    /\ loop = "down" => serving[Prepare] = "no"
    /\ batch \cap broken = {} /\ (broken # {} => Idle)
    /\ \A r \in Id \ {Prepare} :
        /\ r \in batch => request[r] = Whole /\ serving[r] = "no"
        /\ serving[r] # "no" => request[r] = Whole

\* Also when nobody serves, a waiter has its request, its response, or another one of its
\* identity that has been there; and a request goes away after its response came.
Answered(r) == response[r] \/ \E t \in Submitters(r) : pc[t] = "returned"
WaiterOK ==
    \A r \in Id : Submitters(r) \cap Slow = {} =>
        /\ serving[r] = "complete" => Answered(r)
        /\ \A s \in Submitters(r) : pc[s] = "wait" => request[r] # None \/ Answered(r)

IInv == TypeOK /\ SlowOK /\ LoopOK /\ WaiterOK

-----------------------------------------------------------------------------
(* The operators of the model, and what the parts say together.            *)

\* The types without the uniqueness that LoopOK states in another form.
Typed ==
    /\ request \in [Id -> Sub \cup {None, Whole}]
    /\ marker \in [Id -> {"none", "hash", "plain"}]
    /\ response \in [Id -> BOOLEAN]
    /\ pc \in [Sub -> Submitting \cup {"returned"}]
    /\ loop \in {"up", "closing", "down"}
    /\ batch \subseteq Id /\ broken \subseteq Id
    /\ serving \in [Id -> Serving] /\ stopping \in BOOLEAN
    /\ deaths \in 0..MaxDeath /\ runs \in [Program -> Nat]

\* The types follow from Typed and from the part about the loop.
LEMMA TypedOK == LoopOK => (TypeOK <=> Typed)
<1>. SUFFICES ASSUME LoopOK PROVE TypeOK <=> Typed
  OBVIOUS
<1>. DEFINE Busy == {r \in Id \ {Prepare} : serving[r] # "no"}
<1>1. IsFiniteSet(Busy) /\ Cardinality(Busy) <= 1
  <2>1. CASE Busy = {}
    BY <2>1, FS_EmptySet
  <2>2. CASE Busy # {}
    <3>1. PICK q : q \in Busy
      BY <2>2
    <3>2. \A x \in Busy : x = q
      BY <3>1 DEF LoopOK
    <3>3. Busy = {q}
      BY <3>1, <3>2
    <3>4. IsFiniteSet({q}) /\ Cardinality({q}) = 1
      BY FS_Singleton
    <3>. QED
      BY <3>3, <3>4
  <2>. QED
    BY <2>1, <2>2
<1>2. loop = "down" => \A r \in Id : serving[r] = "no"
  BY DEF LoopOK, Idle
<1>. QED
  BY <1>1, <1>2 DEF TypeOK, Typed

\* At the beginning nothing is under way.
LEMMA InitInv == Init => IInv
<1>. SUFFICES ASSUME Init PROVE IInv
  OBVIOUS
<1>. USE IdAssumption, BoundAssumption
<1>1. Typed
  <2>1. /\ request \in [Id -> Sub \cup {None, Whole}] /\ marker \in [Id -> {"none", "hash", "plain"}]
        /\ response \in [Id -> BOOLEAN] /\ serving \in [Id -> Serving]
    BY DEF Init, Serving
  <2>2. pc \in [Sub -> Submitting \cup {"returned"}]
    BY DEF Init, Submitting
  <2>3. /\ loop \in {"up", "closing", "down"} /\ batch \subseteq Id /\ broken \subseteq Id
        /\ deaths \in 0..MaxDeath
    BY DEF Init
  <2>4. runs \in [Program -> Nat]
    BY DEF Init
  <2>5. stopping \in BOOLEAN
    BY DEF Init
  <2>. QED
    BY <2>1, <2>2, <2>3, <2>4, <2>5 DEF Typed
<1>2. SlowOK
  BY DEF Init, SlowOK
<1>3. LoopOK
  BY DEF Init, LoopOK, Idle
<1>4. WaiterOK
  BY DEF Init, WaiterOK, Submitters
<1>. QED
  BY <1>1, <1>2, <1>3, <1>4, TypedOK DEF IInv

-----------------------------------------------------------------------------
(* The steps of submitters.                                                *)

\* Where a step takes its submitter.
Advances(s) ==
    /\ pc[s] # "returned" /\ pc' = [pc EXCEPT ![s] = pc'[s]]
    /\ pc'[s] \in Submitting \cup {"returned"}
    /\ pc'[s] \in {"write", "missed", "unlink"} => s \in Slow

\* What it does to the files of its identity: it creates the request or fills the one it
\* created, and takes the response along when it returns, unless it is slow.
Touches(s) == LET r == IdOf(s) IN
    /\ \A q \in Id \ {r} : request'[q] = request[q] /\ response'[q] = response[q]
    /\ \/ request'[r] = request[r]
       \/ /\ request[r] = None /\ pc[s] = "create"
          /\ request'[r] = IF s \in Slow THEN s ELSE Whole
       \/ request[r] = s /\ request'[r] = Whole
    /\ response'[r] = response[r] \/ s \in Slow \/ pc'[s] = "returned"
    /\ pc'[s] = "wait" => pc[s] = "wait" \/ request'[r] # None \/ s \in Slow

\* Every operation of a submitter is such a step.
LEMMA SubmitEffect ==
    ASSUME Typed, SlowOK, NEW s \in Sub, Submit(s)
    PROVE  Typed' /\ UNCHANGED agent /\ Advances(s) /\ Touches(s)
<1>. USE IdAssumption, BoundAssumption DEF Typed, Submitting, Step, Goto, Branch, agent, disk,
         Advances, Touches
<1>1. CASE Completed(s) \/ Exists(s) \/ Pending(s) \/ Free(s)
  BY <1>1 DEF Completed, Exists, Pending, Free
<1>2. CASE Match(s)
  BY <1>2 DEF Match, MatchingPending
<1>3. CASE Marker(s)
  BY <1>3 DEF Marker
<1>4. CASE Create(s)
  BY <1>4 DEF Create
<1>5. CASE Write(s)
  BY <1>5 DEF Write, SlowOK
<1>6. CASE Read(s)
  BY <1>6 DEF Read, Missing
<1>7. CASE Discard(s) \/ Unlink(s)
  <2>1. s \in Slow /\ response' = [response EXCEPT ![IdOf(s)] = FALSE]
    BY <1>7 DEF Discard, Unlink, SlowOK
  <2>2. response' \in [Id -> BOOLEAN]
    BY <2>1
  <2>. QED
    BY <1>7, <2>1, <2>2 DEF Discard, Unlink
<1>8. CASE Acknowledge(s)
  BY <1>8 DEF Acknowledge
<1>9. CASE TimesOut(s) \/ Killed(s)
  BY <1>9 DEF TimesOut, Killed
<1>. QED
  BY <1>1, <1>2, <1>3, <1>4, <1>5, <1>6, <1>7, <1>8, <1>9 DEF Submit

\* A step of a submitter keeps what the files say of the submitters and of the loop.
LEMMA SubmitQuiet ==
    ASSUME IInv, Typed, NEW s \in Sub, UNCHANGED agent, Typed', Advances(s), Touches(s)
    PROVE  SlowOK' /\ LoopOK'
<1>. USE IdAssumption, BoundAssumption DEF Typed, IInv, Advances, Touches, agent
<1>1. SlowOK'
  <2>1. \A t \in Sub : pc'[t] \in {"write", "missed", "unlink"} => t \in Slow
    BY DEF SlowOK
  <2>2. \A r \in Id : request'[r] \in Sub => request'[r] \in Slow /\ IdOf(request'[r]) = r
    BY DEF SlowOK
  <2>. QED
    BY <2>1, <2>2 DEF SlowOK, Submitters
<1>2. LoopOK'
  BY DEF LoopOK, Idle
<1>. QED
  BY <1>1, <1>2

\* Who waits has its request, or its answer, after a step of a submitter.
LEMMA SubmitWaiters ==
    ASSUME IInv, Typed, NEW s \in Sub, UNCHANGED agent, Typed', Advances(s), Touches(s)
    PROVE  WaiterOK'
<1>. USE IdAssumption, BoundAssumption DEF Typed, Advances, Touches, agent
<1>. SUFFICES ASSUME NEW r \in Id, Submitters(r) \cap Slow = {}
              PROVE  /\ serving[r] = "complete" => Answered(r)'
                     /\ \A t \in Submitters(r) : pc'[t] = "wait" => request'[r] # None \/ Answered(r)'
  BY DEF WaiterOK, Submitters
<1>1. Answered(r) => Answered(r)'
  BY DEF Answered, Submitters
<1>2. serving[r] = "complete" => Answered(r)
  BY DEF IInv, WaiterOK
<1>3. ASSUME NEW t \in Submitters(r), pc'[t] = "wait"
      PROVE  request'[r] # None \/ Answered(r)'
  <2>1. t \in Sub /\ IdOf(t) = r /\ t \notin Slow
    BY DEF Submitters
  <2>2. CASE pc[t] = "wait"
    <3>1. request[r] # None \/ Answered(r)
      BY <2>2 DEF IInv, WaiterOK
    <3>2. request[r] # None => request'[r] # None
      OBVIOUS
    <3>. QED
      BY <1>1, <3>1, <3>2
  <2>3. CASE pc[t] # "wait"
    BY <2>1, <2>3, <1>3
  <2>. QED
    BY <2>2, <2>3
<1>. QED
  BY <1>1, <1>2, <1>3

\* So a submitter keeps the invariant.
LEMMA SubmitInv ==
    ASSUME IInv, NEW s \in Sub, Submit(s)
    PROVE  IInv'
<1>1. Typed /\ SlowOK
  BY TypedOK DEF IInv
<1>2. Typed' /\ UNCHANGED agent /\ Advances(s) /\ Touches(s)
  BY <1>1, SubmitEffect
<1>3. SlowOK' /\ LoopOK' /\ WaiterOK'
  BY <1>1, <1>2, SubmitQuiet, SubmitWaiters
<1>. QED
  BY <1>2, <1>3, TypedOK, PTL DEF IInv

-----------------------------------------------------------------------------
(* The steps of the Agent.                                                 *)

\* What the Agent does.
Serves == Loop \/ (\E r \in Id : Process(r)) \/ Die \/ Start

\* Its steps keep the types.
LEMMA ServesTyped ==
    ASSUME Typed, Serves
    PROVE  Typed'
<1>. USE IdAssumption, BoundAssumption DEF Typed, Serving, disk, Serve
<1>1. CASE Poll
  BY <1>1 DEF Poll
<1>2. CASE DropBroken
  BY <1>2 DEF DropBroken
<1>3. CASE Close \/ Exit \/ Die \/ Start
  <2>1. stopping' \in BOOLEAN
    BY <1>3 DEF Close, Exit, Die, Start
  <2>2. serving' \in [Id -> Serving] /\ deaths' \in 0..MaxDeath
    BY <1>3 DEF Close, Exit, Die, Start
  <2>. QED
    BY <1>3, <2>1, <2>2 DEF Close, Exit, Die, Start
<1>4. ASSUME NEW r \in Id, Dispatch(r)
      PROVE  Typed'
  BY <1>4 DEF Dispatch
<1>5. ASSUME NEW r \in Id, Run(r)
      PROVE  Typed'
  <2>1. serving' \in [Id -> Serving] /\ runs' \in [Program -> Nat]
    BY <1>5 DEF Run
  <2>2. stopping' \in BOOLEAN
    BY <1>5 DEF Run
  <2>. QED
    BY <1>5, <2>1, <2>2 DEF Run
<1>6. ASSUME NEW r \in Id, Mark(r) \/ Complete(r)
      PROVE  Typed'
  BY <1>6 DEF Mark, Complete
<1>7. ASSUME NEW r \in Id, Respond(r)
      PROVE  Typed'
  <2>1. response' \in [Id -> BOOLEAN]
    BY <1>7 DEF Respond
  <2>. QED
    BY <1>7, <2>1 DEF Respond
<1>. QED
  BY <1>1, <1>2, <1>3, <1>4, <1>5, <1>6, <1>7 DEF Serves, Loop, Process

\* They leave what slow submitters hold in the files.
LEMMA ServesSlow ==
    ASSUME IInv, Typed, Serves
    PROVE  SlowOK'
<1>. USE IdAssumption, BoundAssumption DEF Typed, IInv, SlowOK, disk, Submitters
<1>1. CASE Poll
  BY <1>1 DEF Poll
<1>2. CASE DropBroken
  BY <1>2 DEF DropBroken
<1>3. CASE Close \/ Exit \/ Die \/ Start
  BY <1>3 DEF Close, Exit, Die, Start
<1>4. ASSUME NEW r \in Id, Dispatch(r) \/ Process(r)
      PROVE  SlowOK'
  BY <1>4 DEF Dispatch, Process, Run, Mark, Respond, Complete
<1>. QED
  BY <1>1, <1>2, <1>3, <1>4 DEF Serves, Loop

\* They serve one request after the other.
LEMMA ServesLoop ==
    ASSUME IInv, Typed, Serves
    PROVE  LoopOK'
<1>. USE IdAssumption, BoundAssumption DEF Typed, IInv, LoopOK, disk, Idle, Serve
<1>1. CASE Poll
  BY <1>1 DEF Poll, Ended
<1>2. CASE DropBroken
  BY <1>2 DEF DropBroken
<1>3. CASE Close \/ Exit \/ Die \/ Start
  BY <1>3 DEF Close, Exit, Die, Start, Ended
<1>4. ASSUME NEW r \in Id, Dispatch(r)
      PROVE  LoopOK'
  BY <1>4 DEF Dispatch
<1>5. ASSUME NEW r \in Id, Run(r) \/ Mark(r) \/ Respond(r)
      PROVE  LoopOK'
  BY <1>5 DEF Run, Mark, Respond
<1>6. ASSUME NEW r \in Id, Complete(r)
      PROVE  LoopOK'
  BY <1>6 DEF Complete
<1>. QED
  BY <1>1, <1>2, <1>3, <1>4, <1>5, <1>6 DEF Serves, Loop, Process

\* A request goes away with its answer there, or was half written by a slow submitter.
LEMMA ServesWaiters ==
    ASSUME IInv, Typed, Serves
    PROVE  WaiterOK'
<1>. USE IdAssumption, BoundAssumption DEF Typed, IInv, WaiterOK, disk, Submitters, Answered, Serve
<1>1. CASE Poll
  BY <1>1 DEF Poll
<1>2. CASE DropBroken
  BY <1>2 DEF DropBroken, SlowOK
<1>3. CASE Close \/ Exit \/ Die \/ Start
  BY <1>3 DEF Close, Exit, Die, Start
<1>4. ASSUME NEW r \in Id, Dispatch(r)
      PROVE  WaiterOK'
  BY <1>4 DEF Dispatch
<1>5. ASSUME NEW r \in Id, Run(r) \/ Mark(r)
      PROVE  WaiterOK'
  BY <1>5 DEF Run, Mark
<1>6. ASSUME NEW r \in Id, Respond(r)
      PROVE  WaiterOK'
  BY <1>6 DEF Respond
<1>7. ASSUME NEW r \in Id, Complete(r)
      PROVE  WaiterOK'
  BY <1>7 DEF Complete
<1>. QED
  BY <1>1, <1>2, <1>3, <1>4, <1>5, <1>6, <1>7 DEF Serves, Loop, Process

\* Any step, or none, keeps the invariant.
LEMMA StepInv == IInv /\ [Next]_vars => IInv'
<1>. SUFFICES ASSUME IInv, [Next]_vars PROVE IInv'
  OBVIOUS
<1>1. Typed
  BY TypedOK DEF IInv
<1>2. CASE UNCHANGED vars
  BY <1>2 DEF vars, disk, agent, IInv, TypeOK, SlowOK, LoopOK, WaiterOK, Idle, Answered,
     Submitters
<1>3. ASSUME NEW s \in Sub, Submit(s)
      PROVE  IInv'
  BY <1>3, SubmitInv
<1>4. CASE Serves
  BY <1>1, <1>4, ServesTyped, ServesSlow, ServesLoop, ServesWaiters, TypedOK, PTL DEF IInv
<1>. QED
  BY <1>2, <1>3, <1>4 DEF Next, Serves

-----------------------------------------------------------------------------
(* What the queue guarantees.                                              *)

\* The invariant holds in every reachable state of GatewayRequestStore and GatewayAgent.
THEOREM Inductive == Spec => []IInv
BY InitInv, StepInv, PTL DEF Spec

\* A control command that waits for the Agent has its request on disk or being served, its
\* response there, or an answer that another call of the same identity took, also after
\* the Agent died and was started again.
THEOREM WaiterServed == Spec => []WaiterIsServed
<1>1. IInv => WaiterIsServed
  BY IdAssumption DEF IInv, WaiterOK, Answered, WaiterIsServed, WaitsForSomething, Submitters
<1>. QED
  BY <1>1, Inductive, PTL

\* Every variable has its type; the loop serves one request at a time, and nothing is
\* served when it has ended, not even by the thread of a preparation.
THEOREM QueueTypeCorrect == Spec => []TypeOK
<1>1. IInv => TypeOK
  BY DEF IInv
<1>. QED
  BY <1>1, Inductive, PTL

=============================================================================
