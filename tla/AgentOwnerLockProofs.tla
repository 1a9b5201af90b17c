------------------------ MODULE AgentOwnerLockProofs ------------------------
(***************************************************************************)
(* What the owner lock guarantees for any number of launchers, Agents and  *)
(* killed processes, however many of them reclaim at once (OneReclaimer is *)
(* not assumed).  OneOwner does not hold (the run agent_lock_race);  *)
(* the theorems say that one step alone is to blame, the unlink of a file  *)
(* by its name, and that it takes a killed process for it to happen.       *)
(***************************************************************************)
EXTENDS AgentOwnerLock, FiniteSetTheorems, TLAPS

\* A reclaimer's unlink takes the file that a live process has created since
\* the reclaimer has read the PID of a dead one.
Steals == \E p \in Pid : Reclaim(p) /\ creator \in Pid \ killed

(***************************************************************************)
(* The invariants: who created the file, what it says, and where its       *)
(* creator stands go together; and before the first process is killed      *)
(* there is nothing to reclaim.                                            *)
(***************************************************************************)

\* Between the PID in its file and the unlink.
Holding == {"held", "running", "leaving", "unlinking"}

HolderOK == \A p \in Pid \ killed :
    /\ at[p] \in Holding => creator = p /\ content = p
    /\ at[p] = "created" => creator = p /\ content = NoPid

CreatorOK == creator \in Pid \ killed => at[creator] \in Holding \cup {"created"}

\* What the invariants add to the types.
Parts == HolderOK /\ CreatorOK

NobodyReclaims == \A p \in Pid : at[p] # "reclaiming"

Typed == TypeOK /\ IsFiniteSet(killed)

IInv == Typed /\ Parts

UnkilledInv == Typed /\ (killed = {} => Parts /\ NobodyReclaims)

-----------------------------------------------------------------------------
\* No file, nobody holds it.
LEMMA InitInv == Init => IInv /\ UnkilledInv
<1>. SUFFICES ASSUME Init PROVE IInv /\ UnkilledInv
  OBVIOUS
<1>1. IsFiniteSet(killed) /\ Cardinality(killed) = 0
  BY FS_EmptySet DEF Init
<1>2. TypeOK
  BY <1>1, ConstantAssumption DEF Init, TypeOK, Pid, Place
<1>. QED
  BY <1>1, <1>2, ConstantAssumption DEF Init, IInv, UnkilledInv, Typed, Parts, HolderOK,
     CreatorOK, NobodyReclaims, Holding

\* What a step does that kills nobody.
Lives ==
    \/ \E p \in Pid : Proceed(p)
    \/ \E l \in Launcher :
        \/ Ensure(l) \/ SpawnNone(l) \/ Returns(l)
        \/ \E a \in Agent : Spawn(l, a)
    \/ \E a \in Agent : Autostart(a) \/ Run(a) \/ Finish(a) \/ Exit(a)

\* The steps of live processes keep the types.
LEMMA LivesTyped ==
    ASSUME TypeOK, Lives
    PROVE  TypeOK'
<1>. USE ConstantAssumption DEF TypeOK, Pid, Place, Move
<1>1. ASSUME NEW p \in Pid, Proceed(p)
      PROVE  TypeOK'
  BY <1>1 DEF Proceed, Create, WritePid, Exists, ReadLive, ReadNothing, ReadAgain,
     ReadStale, Reclaim, ReadOwn, Unlink, Refusal, Released
<1>2. ASSUME NEW l \in Launcher, Ensure(l) \/ SpawnNone(l) \/ Returns(l)
      PROVE  TypeOK'
  BY <1>2 DEF Ensure, SpawnNone, Returns
<1>3. ASSUME NEW l \in Launcher, NEW a \in Agent, Spawn(l, a)
      PROVE  TypeOK'
  BY <1>3 DEF Spawn
<1>4. ASSUME NEW a \in Agent, Autostart(a) \/ Run(a) \/ Finish(a) \/ Exit(a)
      PROVE  TypeOK'
  BY <1>4 DEF Autostart, Run, Finish, Exit
<1>. QED
  BY <1>1, <1>2, <1>3, <1>4 DEF Lives

\* A killed process keeps the types, and leaves its file behind.
LEMMA KillStep ==
    ASSUME Typed, NEW p \in Pid, Kill(p)
    PROVE  Typed' /\ killed' # {} /\ (Parts => Parts')
<1>1. IsFiniteSet(killed') /\ Cardinality(killed') <= MaxCrash
  <2>1. IsFiniteSet(killed) /\ Cardinality(killed) \in Nat
    BY FS_CardinalityType DEF Typed
  <2>2. IsFiniteSet(killed') /\ Cardinality(killed') \in {Cardinality(killed), Cardinality(killed) + 1}
    BY <2>1, FS_AddElement DEF Kill
  <2>. QED
    BY <2>1, <2>2, ConstantAssumption DEF Kill
<1>2. TypeOK'
  BY <1>1 DEF Typed, Kill, TypeOK
<1>3. Parts => Parts'
  BY DEF Typed, Kill, TypeOK, Parts, HolderOK, CreatorOK
<1>. QED
  BY <1>1, <1>2, <1>3 DEF Typed, Kill

\* The other steps kill nobody.
LEMMA LivesKillNobody == Lives => UNCHANGED killed
BY DEF Lives, Proceed, Create, WritePid, Exists, ReadLive, ReadNothing, ReadAgain,
   ReadStale, Reclaim, ReadOwn, Unlink, Ensure, SpawnNone, Returns, Spawn, Autostart, Run, Finish, Exit

\* Any step, or none, keeps the types.
LEMMA StepTyped ==
    ASSUME Typed, [Next]_vars
    PROVE  Typed'
<1>1. CASE UNCHANGED vars
  BY <1>1 DEF vars, Typed, TypeOK
<1>2. CASE Lives
  BY <1>2, LivesTyped, LivesKillNobody DEF Typed
<1>. QED
  BY <1>1, <1>2, KillStep DEF Next, Lives

\* A step of acquire or release that steals no file keeps who holds it.
LEMMA ProceedParts ==
    ASSUME TypeOK, Parts, NEW p \in Pid, Proceed(p), ~Steals
    PROVE  Parts'
<1>. USE ConstantAssumption DEF TypeOK, Parts, HolderOK, CreatorOK, Holding, Place, Move,
         Refusal, Released
<1>1. CASE Create(p)
  BY <1>1 DEF Create
<1>2. CASE WritePid(p)
  BY <1>2 DEF WritePid
<1>3. CASE Exists(p) \/ ReadLive(p) \/ ReadNothing(p) \/ ReadAgain(p)
  BY <1>3 DEF Exists, ReadLive, ReadNothing, ReadAgain
<1>4. CASE ReadStale(p)
  BY <1>4 DEF ReadStale
<1>5. CASE Reclaim(p)
  <2>1. creator \notin Pid \ killed
    BY <1>5 DEF Steals
  <2>. QED
    BY <1>5, <2>1 DEF Reclaim
<1>6. CASE ReadOwn(p)
  BY <1>6 DEF ReadOwn
<1>7. CASE Unlink(p)
  BY <1>7 DEF Unlink
<1>. QED
  BY <1>1, <1>2, <1>3, <1>4, <1>5, <1>6, <1>7 DEF Proceed

\* So do the steps of ensure_running and of the Agent.
LEMMA LivesParts ==
    ASSUME TypeOK, Parts, Lives, ~Steals
    PROVE  Parts'
<1>. USE ConstantAssumption DEF TypeOK, Parts, HolderOK, CreatorOK, Holding, Place, Move, Pid
<1>1. ASSUME NEW l \in Launcher, Ensure(l) \/ SpawnNone(l) \/ Returns(l)
      PROVE  Parts'
  BY <1>1 DEF Ensure, SpawnNone, Returns
<1>2. ASSUME NEW l \in Launcher, NEW a \in Agent, Spawn(l, a)
      PROVE  Parts'
  BY <1>2 DEF Spawn
<1>3. ASSUME NEW a \in Agent, Autostart(a) \/ Run(a) \/ Finish(a) \/ Exit(a)
      PROVE  Parts'
  BY <1>3 DEF Autostart, Run, Finish, Exit
<1>. QED
  BY <1>1, <1>2, <1>3, ProceedParts DEF Lives

\* Any step that steals no file, or none, keeps the invariant.
LEMMA StepInv ==
    ASSUME IInv, [Next]_vars, [~Steals]_vars
    PROVE  IInv'
<1>1. Typed'
  BY StepTyped DEF IInv
<1>2. CASE UNCHANGED vars
  BY <1>1, <1>2 DEF vars, IInv, Parts, HolderOK, CreatorOK
<1>3. CASE Lives /\ ~Steals
  BY <1>1, <1>3, LivesParts DEF IInv, Typed
<1>4. ASSUME NEW p \in Pid, Kill(p)
      PROVE  IInv'
  BY <1>1, <1>4, KillStep DEF IInv
<1>. QED
  BY <1>2, <1>3, <1>4 DEF Next, Lives

\* As long as nobody was killed, the PID that a process reads in the file is
\* that of a live process, so it does not begin to reclaim.
LEMMA LivesReclaimsNothing ==
    ASSUME TypeOK, Parts, NobodyReclaims, killed = {}, Lives
    PROVE  NobodyReclaims' /\ ~Steals
<1>. USE ConstantAssumption DEF TypeOK, Parts, CreatorOK, Holding, Place, Move, Pid, NobodyReclaims
<1>1. ASSUME NEW p \in Pid, Proceed(p)
      PROVE  NobodyReclaims'
  <2>1. ~ReadStale(p)
    BY DEF ReadStale, Alive
  <2>. QED
    BY <1>1, <2>1 DEF Proceed, Create, WritePid, Exists, ReadLive, ReadNothing, ReadAgain,
       Reclaim, ReadOwn, Unlink, Refusal, Released
<1>2. ASSUME NEW l \in Launcher, Ensure(l) \/ SpawnNone(l) \/ Returns(l)
      PROVE  NobodyReclaims'
  BY <1>2 DEF Ensure, SpawnNone, Returns
<1>3. ASSUME NEW l \in Launcher, NEW a \in Agent, Spawn(l, a)
      PROVE  NobodyReclaims'
  BY <1>3 DEF Spawn
<1>4. ASSUME NEW a \in Agent, Autostart(a) \/ Run(a) \/ Finish(a) \/ Exit(a)
      PROVE  NobodyReclaims'
  BY <1>4 DEF Autostart, Run, Finish, Exit
<1>5. ~Steals
  BY DEF Steals, Reclaim
<1>. QED
  BY <1>1, <1>2, <1>3, <1>4, <1>5 DEF Lives

\* Any step, or none, keeps what holds before the first death.
LEMMA StepUnkilled ==
    ASSUME UnkilledInv, [Next]_vars
    PROVE  UnkilledInv'
<1>1. Typed'
  BY StepTyped DEF UnkilledInv
<1>2. CASE UNCHANGED vars
  BY <1>1, <1>2 DEF vars, UnkilledInv, Parts, HolderOK, CreatorOK, NobodyReclaims
<1>3. CASE Lives
  BY <1>1, <1>3, LivesKillNobody, LivesReclaimsNothing, LivesParts DEF UnkilledInv, Typed
<1>4. ASSUME NEW p \in Pid, Kill(p)
      PROVE  UnkilledInv'
  BY <1>1, <1>4, KillStep DEF UnkilledInv
<1>. QED
  BY <1>2, <1>3, <1>4 DEF Next, Lives

-----------------------------------------------------------------------------
\* Whoever believes to own the lock keeps its PID in the file, unless a
\* reclaimer's unlink takes the file of a live process: nothing else that
\* launchers, Agents, releases and deaths do (gateway_agent.py:137-186) breaks
\* the lock, and as many processes as like may reclaim a dead owner's file.
THEOREM OnlyAReclaimSteals == Spec /\ [][~Steals]_vars => []OwnerHasFile
<1>1. IInv => OwnerHasFile
  BY DEF IInv, Typed, Parts, HolderOK, Holding, Owner, OwnerHasFile
<1>. QED
  BY <1>1, InitInv, StepInv, PTL DEF Spec

\* Before the first process is killed there is one owner at most, however
\* launchers, the autostart and ending Agents interleave.
THEOREM OneOwnerUntilAKill == Spec => [](killed = {} => OneOwner)
<1>1. ASSUME UnkilledInv, killed = {}
      PROVE  OneOwner
  <2>1. Owner \subseteq {creator}
    BY <1>1 DEF UnkilledInv, Parts, HolderOK, Holding, Owner
  <2>2. IsFiniteSet({creator}) /\ Cardinality({creator}) = 1
    BY FS_Singleton
  <2>3. Cardinality(Owner) <= Cardinality({creator})
    BY <2>1, <2>2, FS_Subset
  <2>. QED
    BY <2>2, <2>3 DEF OneOwner
<1>. QED
  BY <1>1, InitInv, StepUnkilled, PTL DEF Spec

=============================================================================
