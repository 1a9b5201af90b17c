------------------------ MODULE GatewayBindingProofs ------------------------
(***************************************************************************)
(* The coordinator leaks no forward, for any number of threads, routes,    *)
(* retries and disturbances.                                               *)
(***************************************************************************)
EXTENDS GatewayBinding, FiniteSetTheorems, TLAPS

(***************************************************************************)
(* The inductive invariant.                                                *)
(***************************************************************************)

\* The records have their fields.
Shape(r) ==
    /\ r = [pc |-> r.pc, valid |-> r.valid, snap |-> r.snap, later |-> r.later, reuse |-> r.reuse,
            gen |-> r.gen, via |-> r.via, staged |-> r.staged, closing |-> r.closing, then |-> r.then,
            tries |-> r.tries]
    /\ r.snap = [route |-> r.snap.route, ready |-> r.snap.ready, fresh |-> r.snap.fresh]
    /\ r.tries \in Nat /\ r.via \in Nat

CoShape ==
    co = [closed |-> co.closed, route |-> co.route, ready |-> co.ready, gen |-> co.gen,
          target |-> co.target, owned |-> co.owned, reason |-> co.reason]

Shaped == CoShape /\ th = [t \in Thread |-> th[t]] /\ \A t \in Thread : Shape(th[t])

\* Between the choice of the names and the end of _stage_bind.
Staging == {"gdb", "gdbMade", "tcl", "tclMade", "generation", "commit"}

\* Where a thread stands tells which names it answers for, and whether it recovers.
PlaceOK(r) ==
    /\ r.staged \in IF r.pc \in Staging THEN Pair ELSE {None}
    /\ r.pc # "close" => r.closing = None
    /\ r.pc = "close" => r.then \in {"idle", "recover", "failed"}
    /\ r.pc \in {"apply", "look", "decide"} \cup Staging => r.snap.route \in Route
    /\ r.pc = "recover" \/ (r.pc = "close" /\ r.then = "recover") => r.tries > 0

\* One thread at most has the current token, and it recovers only what is not READY.
TokenOK ==
    /\ \A t, u \in Thread : th[t].valid /\ th[u].valid => t = u
    /\ \A t \in Thread : th[t].valid /\ th[t].tries > 0 => ~co.ready

\* What the coordinator says of its binding fits together.
BindingOK ==
    /\ co.ready = (co.owned # None) /\ co.ready = (co.target # None)
    /\ co.ready = (co.reason = "ready") /\ ~(co.ready /\ co.closed)
    /\ co.owned \in Nat

IInv ==
    /\ ForwardsAreAccountedFor /\ BindingOK /\ Shaped /\ TokenOK
    /\ \A t \in Thread : PlaceOK(th[t]) /\ th[t].later \in BOOLEAN

-----------------------------------------------------------------------------
(* Names.                                                                  *)

\* A name is in use by the binding, or by a thread.
LEMMA InUseIs ==
    \A x : x \in InUse <=> \/ x = co.owned
                          \/ \E t \in Thread : x = th[t].staged \/ x = th[t].closing
BY DEF InUse

\* The image of a finite set under a function is not larger than the set.
LEMMA ImageIsSmall ==
    ASSUME NEW S, IsFiniteSet(S), NEW f, f = [x \in S |-> f[x]]
    PROVE  /\ IsFiniteSet({f[x] : x \in S})
           /\ Cardinality({f[x] : x \in S}) <= Cardinality(S)
<1>. DEFINE T == {f[x] : x \in S}
<1>1. f \in Surjection(S, T)
  BY DEF Surjection
<1>. HIDE DEF T
<1>2. IsFiniteSet(T) /\ Cardinality(T) <= Cardinality(S)
  BY <1>1, FS_Surjection
<1>. QED
  BY <1>2 DEF T

\* While a thread answers for no name there is one that nobody uses: there are more names
\* than the binding and the other threads can hold.
LEMMA NameIsFree ==
    ASSUME NEW t \in Thread, th[t].staged = None, th[t].closing = None, co.owned \in Nat
    PROVE  \E p \in Pair : p \notin InUse
<1>. DEFINE Others == Thread \ {t}
            staged == [u \in Others |-> th[u].staged]
            closing == [u \in Others |-> th[u].closing]
            A == {staged[u] : u \in Others}
            B == {closing[u] : u \in Others}
            n == Cardinality(Thread)
<1>1. n \in Nat /\ IsFiniteSet(Others) /\ Cardinality(Others) = n - 1
  BY BindingAssumption, FS_CardinalityType, FS_RemoveElement
<1>2. IsFiniteSet(A) /\ Cardinality(A) <= n - 1 /\ Cardinality(A) \in Nat
  <2>. HIDE DEF n, Others
  <2>1. staged = [u \in Others |-> staged[u]]
    OBVIOUS
  <2>. HIDE DEF staged
  <2>. QED
    BY <1>1, <2>1, ImageIsSmall, FS_CardinalityType
<1>3. IsFiniteSet(B) /\ Cardinality(B) <= n - 1 /\ Cardinality(B) \in Nat
  <2>. HIDE DEF n, Others
  <2>1. closing = [u \in Others |-> closing[u]]
    OBVIOUS
  <2>. HIDE DEF closing
  <2>. QED
    BY <1>1, <2>1, ImageIsSmall, FS_CardinalityType
<1>. DEFINE Used == (A \cup B) \cup {co.owned}
<1>4. IsFiniteSet(Used) /\ Cardinality(Used) <= 2 * n - 1
  <2>. HIDE DEF A, B, n
  <2>1. IsFiniteSet(A \cup B) /\ Cardinality(A \cup B) <= 2 * n - 2
    <3>1. /\ IsFiniteSet(A \cup B)
          /\ Cardinality(A \cup B) = Cardinality(A) + Cardinality(B) - Cardinality(A \cap B)
      BY <1>2, <1>3, FS_Union
    <3>2. Cardinality(A \cap B) \in Nat
      BY <1>2, FS_Subset, FS_CardinalityType
    <3>. QED
      BY <1>1, <1>2, <1>3, <3>1, <3>2
  <2>2. Cardinality(A \cup B) \in Nat
    BY <2>1, FS_CardinalityType
  <2>3. IsFiniteSet(Used) /\ Cardinality(Used) <= Cardinality(A \cup B) + 1
    <3>. DEFINE C == A \cup B
    <3>. HIDE DEF C
    <3>1. IsFiniteSet(C) /\ Cardinality(C) \in Nat
      BY <2>1, <2>2 DEF C
    <3>2. /\ IsFiniteSet(C \cup {co.owned})
          /\ Cardinality(C \cup {co.owned}) \in {Cardinality(C), Cardinality(C) + 1}
      BY <3>1, FS_AddElement
    <3>. QED
      BY <3>1, <3>2 DEF C
  <2>. QED
    BY <1>1, <2>1, <2>2, <2>3, FS_CardinalityType
<1>5. Cardinality(Pair) = 2 * n + 1
  BY <1>1, FS_Interval DEF Pair
<1>6. PICK p \in Pair : p \notin Used
  <2>. HIDE DEF Used, n
  <2>1. ~(Pair \subseteq Used)
    <3>1. Cardinality(Used) \in Nat
      BY <1>4, FS_CardinalityType
    <3>. QED
      BY <1>1, <1>4, <1>5, <3>1, FS_Subset
  <2>. QED
    BY <2>1
<1>7. p # None
  BY <1>1, <1>6 DEF Pair, None
<1>8. p \notin InUse
  BY <1>6, <1>7, InUseIs
<1>. QED
  BY <1>6, <1>8

\* At the beginning no forward is there, and no thread does anything.
LEMMA InitInv == Init => IInv
<1>. SUFFICES ASSUME Init PROVE IInv
  OBVIOUS
<1>. USE BindingAssumption
<1>1. ForwardsAreAccountedFor
  <2>1. gw \in [route : Route, ready : BOOLEAN] /\ news \in BOOLEAN
    BY DEF Init, Route
  <2>2. /\ link \in {"up", "dead", "down"} /\ gen \in Nat
        /\ fwd \subseteq [pair : Pair, part : Part, via : Nat]
    BY DEF Init
  <2>3. /\ co.ready = (co.owned # None) /\ co.ready = (co.target # None)
        /\ co.ready = (co.reason = "ready") /\ ~(co.ready /\ co.closed)
    BY DEF Init, None
  <2>. QED
    BY <2>1, <2>2, <2>3 DEF Init, ForwardsAreAccountedFor, TypeOK
<1>2. Shaped
  BY DEF Init, Shaped, CoShape, Shape, Idle
<1>3. TokenOK
  BY DEF Init, TokenOK, Idle
<1>4. ASSUME NEW t \in Thread PROVE PlaceOK(th[t]) /\ th[t].later \in BOOLEAN
  <2>1. th[t].later = FALSE
    BY DEF Init, Idle
  <2>2. PlaceOK(th[t])
    BY DEF Init, PlaceOK, Staging, Idle, None
  <2>. QED
    BY <2>1, <2>2
<1>5. BindingOK
  BY DEF Init, BindingOK, None
<1>. QED
  BY <1>1, <1>2, <1>3, <1>4, <1>5 DEF IInv

-----------------------------------------------------------------------------
(* One step of a thread.                                                   *)

\* Its record has its fields before and after, and those of the other threads stay.
LEMMA StepShape ==
    ASSUME NEW t \in Thread, th = [u \in Thread |-> th[u]], gen \in Nat, Shape(th[t]), Step(t)
    PROVE  th' = [th EXCEPT ![t] = th'[t]] /\ Shape(th'[t])
<1>. USE DEF Goto, Ends, Idle, Closes, Shape
<1>1. CASE CloseNames(t)
  BY <1>1 DEF CloseNames
<1>2. CASE ReadSnapshot(t)
  <2>. DEFINE n == IF th[t].tries = 0 THEN 0 ELSE th[t].tries + 1
              s == [route |-> gw.route, ready |-> gw.ready, fresh |-> news]
  <2>1. th' = [th EXCEPT ![t] = [th[t] EXCEPT !.pc = "apply", !.later = FALSE, !.tries = n,
                                              !.snap = s]]
    BY <1>2 DEF ReadSnapshot
  <2>2. n \in Nat /\ s = [route |-> s.route, ready |-> s.ready, fresh |-> s.fresh]
    OBVIOUS
  <2>. HIDE DEF n, s
  <2>. QED
    BY <2>1, <2>2
<1>3. CASE ReadFails(t)
  <2>1. CASE th' = [th EXCEPT ![t] = Closes(t, co.owned, "idle")]
    BY <2>1
  <2>2. CASE th' = [th EXCEPT ![t] = Idle]
    BY <2>2
  <2>3. CASE th' = [th EXCEPT ![t].tries = @ + 1]
    BY <2>3
  <2>. QED
    BY <1>3, <2>1, <2>2, <2>3 DEF ReadFails
<1>4. CASE Exhausted(t) \/ Superseded(t) \/ Reuse(t)
  BY <1>4 DEF Exhausted, Superseded, Reuse
<1>5. CASE NotReady(t)
  <2>1. PICK pc : \/ th' = [th EXCEPT ![t] = [Closes(t, co.owned, pc) EXCEPT !.tries = 1]]
                  \/ th' = [th EXCEPT ![t] = Idle]
                  \/ th' = [th EXCEPT ![t].pc = pc]
    BY <1>5 DEF NotReady
  <2>2. CASE th' = [th EXCEPT ![t] = [Closes(t, co.owned, pc) EXCEPT !.tries = 1]]
    BY <2>2
  <2>3. CASE th' = [th EXCEPT ![t] = Idle] \/ th' = [th EXCEPT ![t].pc = pc]
    BY <2>3
  <2>. QED
    BY <2>1, <2>2, <2>3
<1>6. CASE Rejected(t)
  BY <1>6 DEF Rejected
<1>7. CASE Accepted(t)
  BY <1>7 DEF Accepted
<1>8. CASE Look(t)
  BY <1>8 DEF Look
<1>9. CASE NewNames(t)
  <2>1. PICK n : th' = [th EXCEPT ![t].pc = "gdb", ![t].staged = n, ![t].snap.fresh = FALSE]
    BY <1>9 DEF NewNames
  <2>2. th' = [th EXCEPT ![t] = [th[t] EXCEPT !.pc = "gdb", !.staged = n,
                                              !.snap = [@ EXCEPT !.fresh = FALSE]]]
    BY <2>1
  <2>. QED
    BY <2>2
<1>10. CASE Open(t)
  <2>1. PICK p : th' = [th EXCEPT ![t] = [th[t] EXCEPT !.pc = p, !.via = gen]]
    BY <1>10 DEF Open
  <2>. QED
    BY <2>1
<1>11. CASE Register(t)
  <2>1. PICK p : th' = [th EXCEPT ![t] = [th[t] EXCEPT !.pc = p, !.via = 0]]
    BY <1>11 DEF Register
  <2>. QED
    BY <2>1
<1>12. CASE OpenFails(t)
  BY <1>12 DEF OpenFails
<1>16. CASE Abandon(t)
  BY <1>16 DEF Abandon
<1>13. CASE ReadGeneration(t)
  BY <1>13 DEF ReadGeneration
<1>14. CASE Commit(t)
  BY <1>14 DEF Commit, Commits
<1>15. CASE Failed(t)
  BY <1>15 DEF Failed
<1>. QED
  BY <1>1, <1>2, <1>3, <1>4, <1>5, <1>6, <1>7, <1>8, <1>9, <1>10, <1>11, <1>12, <1>13, <1>14, <1>15,
     <1>16 DEF Step

\* Where it stands, before and after, tells which names it answers for.
LEMMA StepPlace ==
    ASSUME NEW t \in Thread, th = [u \in Thread |-> th[u]], gw.route \in Route, co.owned \in Nat,
           Shape(th[t]), PlaceOK(th[t]), Step(t)
    PROVE  PlaceOK(th'[t])
<1>. USE DEF Goto, Ends, Idle, Closes, Shape, PlaceOK, Staging, At
<1>1. CASE CloseNames(t)
  BY <1>1 DEF CloseNames
<1>2. CASE ReadSnapshot(t)
  BY <1>2 DEF ReadSnapshot, Reads
<1>3. CASE ReadFails(t)
  <2>1. CASE th' = [th EXCEPT ![t] = Closes(t, co.owned, "idle")] /\ (co' = Invalid \/ UNCHANGED co)
    BY <2>1
  <2>2. CASE th' = [th EXCEPT ![t] = Idle] /\ (co' = [co EXCEPT !.reason = "other"] \/ UNCHANGED co)
    BY <2>2
  <2>3. CASE At(t, "recover") /\ th' = [th EXCEPT ![t].tries = @ + 1] /\ UNCHANGED co
    BY <2>3
  <2>. QED
    BY <1>3, <2>1, <2>2, <2>3 DEF ReadFails
<1>4. CASE Exhausted(t) \/ Superseded(t) \/ Reuse(t)
  BY <1>4 DEF Exhausted, Superseded, Reuse
<1>5. CASE NotReady(t)
  <2>1. CASE th[t].tries = 0
    <3>1. PICK pc : /\ pc \in {"recover", "idle"}
                    /\ th' = [th EXCEPT ![t] = [Closes(t, co.owned, pc) EXCEPT !.tries = 1]]
                    /\ co' = Invalid
      BY <1>5, <2>1 DEF NotReady
    <3>2. CASE pc = "recover"
      <4>1. /\ th'[t].pc = "close" /\ th'[t].then = "recover" /\ th'[t].tries = 1
            /\ th'[t].staged = None
        BY <3>1, <3>2
      <4>. QED
        BY ONLY <4>1 DEF PlaceOK, Staging
    <3>3. CASE pc = "idle"
      BY <3>1, <3>3
    <3>. QED
      BY <3>1, <3>2, <3>3
  <2>2. CASE th[t].tries # 0
    <3>1. CASE th' = [th EXCEPT ![t] = Idle] /\ co' = [co EXCEPT !.reason = "other"]
      BY <3>1
    <3>2. CASE th' = [th EXCEPT ![t].pc = "recover"] /\ co' = [co EXCEPT !.reason = @]
      BY <1>5, <2>2, <3>2 DEF NotReady
    <3>. QED
      BY <1>5, <2>2, <3>1, <3>2 DEF NotReady
  <2>. QED
    BY <2>1, <2>2
<1>6. CASE Rejected(t)
  <2>1. CASE th' = [th EXCEPT ![t].pc = "recover", ![t].tries = 1]
    <3>1. /\ th'[t].pc = "recover" /\ th'[t].tries = 1
          /\ th'[t].staged = th[t].staged /\ th'[t].closing = th[t].closing
      BY <2>1
    <3>2. th[t].staged = None /\ th[t].closing = None
      BY <1>6 DEF Rejected
    <3>. QED
      BY ONLY <3>1, <3>2 DEF PlaceOK, Staging
  <2>2. CASE th' = [th EXCEPT ![t].pc = "recover"] /\ th[t].tries > 0
    BY <1>6, <2>2 DEF Rejected
  <2>3. CASE th' = [th EXCEPT ![t] = Idle]
    BY <2>3
  <2>. QED
    BY <1>6, <2>1, <2>2, <2>3 DEF Rejected
<1>7. CASE Accepted(t)
  BY <1>7 DEF Accepted
<1>8. CASE Look(t)
  BY <1>8 DEF Look
<1>9. CASE NewNames(t)
  BY <1>9, NameIsFree DEF NewNames
<1>10. CASE Open(t)
  <2>1. PICK p \in Part : /\ th[t].pc = p
                          /\ th' = [th EXCEPT ![t] = [th[t] EXCEPT !.pc = Made[p], !.via = gen]]
    BY <1>10 DEF Open
  <2>2. Made[p] \in {"gdbMade", "tclMade"} /\ p \in {"gdb", "tcl"}
    BY DEF Part, Made
  <2>. QED
    BY <2>1, <2>2
<1>11. CASE Register(t)
  <2>1. PICK p \in Part : /\ th[t].pc = Made[p]
                          /\ th' = [th EXCEPT ![t] = [th[t] EXCEPT
                                !.pc = IF p = "gdb" THEN "tcl" ELSE "generation", !.via = 0]]
    BY <1>11 DEF Register
  <2>2. Made[p] \in {"gdbMade", "tclMade"}
    BY DEF Part, Made
  <2>. QED
    BY <2>1, <2>2
<1>12. CASE OpenFails(t)
  BY <1>12 DEF OpenFails, Part
<1>16. CASE Abandon(t)
  BY <1>16 DEF Abandon
<1>13. CASE ReadGeneration(t)
  BY <1>13 DEF ReadGeneration
<1>14. CASE Commit(t)
  BY <1>14 DEF Commit, Commits
<1>15. CASE Failed(t)
  <2>1. CASE th' = [th EXCEPT ![t].pc = "recover", ![t].tries = IF @ = 0 THEN 1 ELSE @]
    <3>. DEFINE n == IF th[t].tries = 0 THEN 1 ELSE th[t].tries
    <3>0. n > 0
      OBVIOUS
    <3>1. th' = [th EXCEPT ![t] = [th[t] EXCEPT !.pc = "recover", !.tries = n]]
      BY <2>1
    <3>. HIDE DEF n
    <3>2. th[t].staged = None /\ th[t].closing = None
      BY <1>15 DEF Failed
    <3>3. /\ th'[t].pc = "recover" /\ th'[t].tries > 0
          /\ th'[t].staged = th[t].staged /\ th'[t].closing = th[t].closing
      BY <3>0, <3>1
    <3>. QED
      BY ONLY <3>2, <3>3 DEF PlaceOK, Staging
  <2>2. CASE th' = [th EXCEPT ![t] = Idle]
    BY <2>2
  <2>. QED
    BY <1>15, <2>1, <2>2 DEF Failed
<1>. QED
  BY <1>1, <1>2, <1>3, <1>4, <1>5, <1>6, <1>7, <1>8, <1>9, <1>10, <1>11, <1>12, <1>13, <1>14, <1>15,
     <1>16 DEF Step

\* It gets no token, and only with one it makes the binding READY.
LEMMA StepToken ==
    ASSUME NEW t \in Thread, th = [u \in Thread |-> th[u]], CoShape,
           Shape(th[t]), PlaceOK(th[t]), Step(t), th[t].valid /\ th[t].tries > 0 => ~co.ready
    PROVE
    /\ th'[t].valid => th[t].valid
    /\ th'[t].valid /\ th'[t].tries > 0 => ~co'.ready
    /\ co'.ready => co.ready \/ th[t].valid
    /\ CoShape'
<1>. USE DEF Goto, Ends, Idle, Closes, Shape, PlaceOK, Staging, At, Valid, CoShape
<1>1. CASE CloseNames(t)
  BY <1>1 DEF CloseNames
<1>2. CASE ReadSnapshot(t)
  BY <1>2 DEF ReadSnapshot, Reads
<1>3. CASE ReadFails(t)
  <2>1. CASE th' = [th EXCEPT ![t] = Closes(t, co.owned, "idle")] /\ (co' = Invalid \/ UNCHANGED co)
    BY <2>1 DEF Invalid
  <2>2. CASE th' = [th EXCEPT ![t] = Idle] /\ (co' = [co EXCEPT !.reason = "other"] \/ UNCHANGED co)
    BY <2>2
  <2>3. CASE At(t, "recover") /\ th' = [th EXCEPT ![t].tries = @ + 1] /\ UNCHANGED co
    BY <1>3, <2>3 DEF ReadFails, Reads
  <2>. QED
    BY <1>3, <2>1, <2>2, <2>3 DEF ReadFails
<1>4. CASE Exhausted(t) \/ Superseded(t) \/ Reuse(t)
  BY <1>4 DEF Exhausted, Superseded, Reuse
<1>5. CASE NotReady(t)
  <2>1. CASE th[t].tries = 0
    <3>1. PICK pc : /\ pc \in {"recover", "idle"}
                    /\ th' = [th EXCEPT ![t] = [Closes(t, co.owned, pc) EXCEPT !.tries = 1]]
                    /\ co' = Invalid
      BY <1>5, <2>1 DEF NotReady
    <3>. QED
      BY <3>1 DEF Invalid
  <2>2. CASE th[t].tries # 0
    <3>1. CASE th' = [th EXCEPT ![t] = Idle] /\ co' = [co EXCEPT !.reason = "other"]
      BY <3>1
    <3>2. CASE th' = [th EXCEPT ![t].pc = "recover"] /\ co' = [co EXCEPT !.reason = @]
      BY <1>5, <3>2 DEF NotReady
    <3>. QED
      BY <1>5, <2>2, <3>1, <3>2 DEF NotReady
  <2>. QED
    BY <2>1, <2>2
<1>6. CASE Rejected(t)
  BY <1>6 DEF Rejected
<1>7. CASE Accepted(t)
  BY <1>7 DEF Accepted
<1>8. CASE Look(t)
  BY <1>8 DEF Look
<1>9. CASE NewNames(t)
  BY <1>9, NameIsFree DEF NewNames
<1>10. CASE Open(t)
  BY <1>10 DEF Open, Part, Made
<1>11. CASE Register(t)
  BY <1>11 DEF Register, Part, Made
<1>12. CASE OpenFails(t)
  BY <1>12 DEF OpenFails, Part
<1>16. CASE Abandon(t)
  BY <1>16 DEF Abandon
<1>13. CASE ReadGeneration(t)
  BY <1>13 DEF ReadGeneration
<1>14. CASE Commit(t)
  BY <1>14 DEF Commit, Commits
<1>15. CASE Failed(t)
  BY <1>15 DEF Failed
<1>. QED
  BY <1>1, <1>2, <1>3, <1>4, <1>5, <1>6, <1>7, <1>8, <1>9, <1>10, <1>11, <1>12, <1>13, <1>14, <1>15,
     <1>16 DEF Step

\* The binding that it leaves fits together: a recovery touches nothing that is READY.
LEMMA StepBinding ==
    ASSUME NEW t \in Thread, th = [u \in Thread |-> th[u]], CoShape, BindingOK,
           Shape(th[t]), PlaceOK(th[t]), Step(t), th[t].valid /\ th[t].tries > 0 => ~co.ready
    PROVE  BindingOK'
<1>. USE DEF CoShape, BindingOK, Valid, At
<1>1. ASSUME UNCHANGED co PROVE BindingOK'
  BY <1>1
<1>2. ASSUME co' = Invalid PROVE BindingOK'
  BY <1>2 DEF Invalid, None
<1>3. ASSUME ~co.ready, NEW why, why # "ready", co' = [co EXCEPT !.reason = why] PROVE BindingOK'
  BY <1>3
<1>4. ASSUME Valid(t), At(t, "recover") \/ th[t].tries # 0 PROVE ~co.ready
  BY <1>4 DEF PlaceOK, Shape
<1>5. CASE CloseNames(t) \/ ReadSnapshot(t) \/ Superseded(t) \/ Rejected(t) \/ Look(t) \/ Reuse(t) \/ NewNames(t)
    \/ Open(t) \/ Register(t) \/ OpenFails(t) \/ ReadGeneration(t) \/ Abandon(t)
  BY <1>5, <1>1 DEF CloseNames, ReadSnapshot, Superseded, Rejected, Look, Reuse, NewNames, Open, Register,
    OpenFails, ReadGeneration, Abandon
<1>6. CASE Exhausted(t)
  BY <1>6, <1>3, <1>4 DEF Exhausted
<1>7. CASE ReadFails(t)
  <2>1. CASE co' = [co EXCEPT !.reason = "other"] /\ At(t, "recover")
    BY <1>7, <2>1, <1>3, <1>4 DEF ReadFails, Reads
  <2>. QED
    BY <1>7, <2>1, <1>1, <1>2 DEF ReadFails
<1>8. CASE NotReady(t)
  <2>1. CASE th[t].tries = 0
    BY <1>8, <2>1, <1>2 DEF NotReady
  <2>2. CASE th[t].tries # 0
    <3>1. ~co.ready /\ (UNCHANGED co \/ co' = [co EXCEPT !.reason = "other"])
      BY <1>8, <2>2, <1>4 DEF NotReady
    <3>. QED
      BY <3>1, <1>1, <1>3
  <2>. QED
    BY <2>1, <2>2
<1>9. CASE Accepted(t)
  BY <1>9 DEF Accepted
<1>10. CASE Commit(t)
  <2>1. th[t].staged \in Pair /\ th[t].snap.route \in Route /\ ~co.closed
    BY <1>10 DEF Commit, PlaceOK, Staging
  <2>2. /\ th[t].staged # None /\ th[t].staged \in Nat /\ th[t].snap.route # None
    BY <2>1 DEF Pair, Route, None
  <2>3. /\ co'.ready = TRUE /\ co'.owned = th[t].staged /\ co'.target = th[t].snap.route
        /\ co'.reason = "ready" /\ co'.closed = co.closed
    BY <1>10 DEF Commit, Commits
  <2>. QED
    BY ONLY <2>1, <2>2, <2>3 DEF BindingOK
<1>11. CASE Failed(t)
  BY <1>11, <1>1, <1>3 DEF Failed
<1>. QED
  BY <1>5, <1>6, <1>7, <1>8, <1>9, <1>10, <1>11 DEF Step

\* What a thread answers for, it goes on to answer for, hands over, or has closed.
HandsOver(t) == \A x : x \in {co.owned, th[t].staged, th[t].closing} =>
    x = None \/ x \in {co'.owned, th'[t].staged, th'[t].closing} \/ \A f \in fwd' : f.pair # x

\* A step hands over the names of its thread and of the binding.
LEMMA StepNames ==
    ASSUME NEW t \in Thread, th = [u \in Thread |-> th[u]], CoShape, BindingOK,
           Shape(th[t]), PlaceOK(th[t]), Step(t)
    PROVE  HandsOver(t)
<1>. USE DEF Goto, Ends, Idle, Closes, Shape, PlaceOK, Staging, At, HandsOver, Valid, CoShape, session
<1>1. CASE CloseNames(t)
  BY <1>1 DEF CloseNames
<1>2. CASE ReadSnapshot(t)
  BY <1>2 DEF ReadSnapshot, Reads
<1>3. CASE ReadFails(t)
  <2>1. CASE th' = [th EXCEPT ![t] = Closes(t, co.owned, "idle")]
    BY <1>3, <2>1 DEF ReadFails, Reads
  <2>2. CASE th' = [th EXCEPT ![t] = Idle] /\ co'.owned = co.owned
    BY <1>3, <2>2 DEF ReadFails, Reads
  <2>3. CASE At(t, "recover") /\ th' = [th EXCEPT ![t].tries = @ + 1] /\ UNCHANGED co
    BY <2>3
  <2>. QED
    BY <1>3, <2>1, <2>2, <2>3 DEF ReadFails
<1>4. CASE Exhausted(t) \/ Superseded(t) \/ Reuse(t)
  BY <1>4 DEF Exhausted, Superseded, Reuse
<1>5. CASE NotReady(t)
  <2>1. CASE th[t].tries = 0
    <3>1. PICK pc : th' = [th EXCEPT ![t] = [Closes(t, co.owned, pc) EXCEPT !.tries = 1]]
      BY <1>5, <2>1 DEF NotReady
    <3>2. th'[t].closing = co.owned
      BY <3>1
    <3>. QED
      BY <1>5, <3>2 DEF NotReady
  <2>2. CASE th[t].tries # 0
    <3>1. co'.owned = co.owned
      BY <1>5, <2>2 DEF NotReady
    <3>. QED
      BY <1>5, <3>1 DEF NotReady
  <2>. QED
    BY <2>1, <2>2
<1>6. CASE Rejected(t)
  BY <1>6 DEF Rejected
<1>7. CASE Accepted(t)
  BY <1>7 DEF Accepted
<1>8. CASE Look(t)
  BY <1>8 DEF Look
<1>9. CASE NewNames(t)
  BY <1>9, NameIsFree DEF NewNames
<1>10. CASE Open(t)
  BY <1>10 DEF Open, Part, Made
<1>11. CASE Register(t)
  BY <1>11 DEF Register, Part, Made
<1>12. CASE OpenFails(t)
  BY <1>12 DEF OpenFails, Part
<1>16. CASE Abandon(t)
  BY <1>16 DEF Abandon
<1>13. CASE ReadGeneration(t)
  BY <1>13 DEF ReadGeneration
<1>14. CASE Commit(t)
  BY <1>14 DEF Commit, Commits
<1>15. CASE Failed(t)
  BY <1>15 DEF Failed
<1>. QED
  BY <1>1, <1>2, <1>3, <1>4, <1>5, <1>6, <1>7, <1>8, <1>9, <1>10, <1>11, <1>12, <1>13, <1>14, <1>15,
     <1>16 DEF Step

\* The forwards that it registers have the name it answers for.
LEMMA StepForwards ==
    ASSUME NEW t \in Thread, th = [u \in Thread |-> th[u]], TypeOK,
           Shape(th[t]), th[t].later \in BOOLEAN, PlaceOK(th[t]), Step(t)
    PROVE  /\ \A f \in fwd' : f \in fwd \/ f.pair = th'[t].staged
           /\ fwd' \subseteq [pair : Pair, part : Part, via : Nat]
           /\ UNCHANGED <<link, gen, gw>> /\ news' \in BOOLEAN
<1>. USE DEF TypeOK, session
<1>1. CASE CloseNames(t)
  BY <1>1 DEF CloseNames
<1>2. CASE Register(t)
  <2>1. PICK p \in Part : /\ At(t, Made[p]) /\ UNCHANGED <<link, gen, gw, news>>
          /\ fwd' = fwd \cup {[pair |-> th[t].staged, part |-> p, via |-> th[t].via]}
          /\ th' = [th EXCEPT ![t].pc = IF p = "gdb" THEN "tcl" ELSE "generation", ![t].via = 0]
    BY <1>2 DEF Register
  <2>2. th[t].staged \in Pair /\ th[t].via \in Nat
    BY <2>1 DEF At, Made, Part, PlaceOK, Staging, Shape
  <2>3. th'[t].staged = th[t].staged
    BY <2>1 DEF Shape
  <2>. QED
    BY <2>1, <2>2, <2>3
<1>3. CASE ~CloseNames(t) /\ ~Register(t)
  <2>1. UNCHANGED session /\ UNCHANGED gw /\ (UNCHANGED news \/ news' = th[t].later)
  BY <1>3 DEF Step, ReadSnapshot, Superseded, Rejected, Look, Reuse, NewNames, Open, Exhausted,
    OpenFails, ReadGeneration, Abandon, ReadFails, NotReady, Accepted, Commit, Commits, Failed
  <2>. QED
    BY <2>1
<1>. QED
  BY <1>1, <1>2, <1>3

\* `later` is a flag.
LEMMA StepLater ==
    ASSUME NEW t \in Thread, th = [u \in Thread |-> th[u]], Shape(th[t]), th[t].later \in BOOLEAN,
           Step(t)
    PROVE  th'[t].later \in BOOLEAN
<1>1. th'[t].later = th[t].later \/ th'[t].later = FALSE
  <2>. USE DEF Goto, Ends, Idle, Closes, Shape
  <2>1. CASE ReadSnapshot(t) \/ Accepted(t) \/ NewNames(t)
    BY <2>1 DEF ReadSnapshot, Accepted, NewNames
  <2>2. CASE Commit(t)
    BY <2>2 DEF Commit, Commits
  <2>3. CASE CloseNames(t)
    BY <2>3 DEF CloseNames
  <2>4. CASE Exhausted(t)
    BY <2>4 DEF Exhausted
  <2>5. CASE Superseded(t)
    BY <2>5 DEF Superseded
  <2>6. CASE Reuse(t)
    BY <2>6 DEF Reuse
  <2>7. CASE Rejected(t)
    BY <2>7 DEF Rejected
  <2>8. CASE Look(t)
    BY <2>8 DEF Look
  <2>9. CASE ReadFails(t)
    <3>1. CASE th' = [th EXCEPT ![t] = Closes(t, co.owned, "idle")]
      BY <3>1
    <3>2. CASE th' = [th EXCEPT ![t] = Idle]
      BY <3>2
    <3>3. CASE th' = [th EXCEPT ![t].tries = @ + 1]
      BY <3>3
    <3>. QED
      BY <2>9, <3>1, <3>2, <3>3 DEF ReadFails
  <2>10. CASE Failed(t)
    BY <2>10 DEF Failed
  <2>11. CASE NotReady(t)
    <3>1. PICK pc : \/ th' = [th EXCEPT ![t] = [Closes(t, co.owned, pc) EXCEPT !.tries = 1]]
                    \/ th' = [th EXCEPT ![t] = Idle]
                    \/ th' = [th EXCEPT ![t].pc = pc]
      BY <2>11 DEF NotReady
    <3>2. CASE th' = [th EXCEPT ![t] = [Closes(t, co.owned, pc) EXCEPT !.tries = 1]]
      BY <3>2
    <3>3. CASE th' = [th EXCEPT ![t] = Idle] \/ th' = [th EXCEPT ![t].pc = pc]
      BY <3>3
    <3>. QED
      BY <3>1, <3>2, <3>3
  <2>12. CASE Open(t)
    BY <2>12 DEF Open
  <2>13. CASE Register(t)
    BY <2>13 DEF Register
  <2>14. CASE OpenFails(t)
    BY <2>14 DEF OpenFails
  <2>15. CASE ReadGeneration(t)
    BY <2>15 DEF ReadGeneration
  <2>16. CASE Abandon(t)
    BY <2>16 DEF Abandon
  <2>. QED
    BY <2>1, <2>2, <2>3, <2>4, <2>5, <2>6, <2>7, <2>8, <2>9, <2>10, <2>11, <2>12, <2>13, <2>14, <2>15, <2>16
       DEF Step
<1>. QED
  BY <1>1

-----------------------------------------------------------------------------
(* Steps of one thread beside the others.                                  *)

\* A thread that does nothing may lose its token, no more.
Beside(q, r) ==
    /\ Shape(q) /\ q.later \in BOOLEAN /\ (q.valid => r.valid)
    /\ q.pc = r.pc /\ q.snap = r.snap /\ q.staged = r.staged /\ q.closing = r.closing
    /\ q.then = r.then /\ q.tries = r.tries

\* Where every thread answers for what it did, no forward is lost.
LEMMA Combine ==
    ASSUME IInv, NEW t \in Thread, th' = [u \in Thread |-> th'[u]],
           Shape(th'[t]), PlaceOK(th'[t]), th'[t].later \in BOOLEAN,
           \A u \in Thread \ {t} : Beside(th'[u], th[u]),
           HandsOver(t), CoShape', BindingOK', TokenOK',
           \A f \in fwd' : f \in fwd \/ f.pair = th'[t].staged,
           fwd' \subseteq [pair : Pair, part : Part, via : Nat],
           link' \in {"up", "dead", "down"}, gen' \in Nat,
           gw' \in [route : Route, ready : BOOLEAN], news' \in BOOLEAN
    PROVE  IInv'
<1>1. \A u \in Thread : Shape(th'[u]) /\ PlaceOK(th'[u]) /\ th'[u].later \in BOOLEAN
  BY DEF IInv, Beside, PlaceOK
<1>2. ASSUME NEW f \in fwd' PROVE f.pair \in InUse'
  <2>. SUFFICES \/ f.pair = co'.owned
               \/ \E u \in Thread : f.pair = th'[u].staged \/ f.pair = th'[u].closing
    BY DEF InUse
  <2>1. CASE f.pair = th'[t].staged
    BY <2>1
  <2>2. CASE f \in fwd
    <3>1. f.pair \in InUse
      BY <2>2 DEF IInv, ForwardsAreAccountedFor
    <3>2. f.pair # None
      BY BindingAssumption DEF Pair, None
    <3>3. CASE f.pair \in {co.owned, th[t].staged, th[t].closing}
      BY <3>2, <3>3 DEF HandsOver
    <3>4. ASSUME NEW u \in Thread \ {t}, f.pair = th[u].staged \/ f.pair = th[u].closing
          PROVE  f.pair = th'[u].staged \/ f.pair = th'[u].closing
      BY <3>4 DEF Beside
    <3>. QED
      BY <3>1, <3>3, <3>4, InUseIs
  <2>. QED
    BY <2>1, <2>2
<1>3. TypeOK'
  BY DEF TypeOK, BindingOK
<1>. QED
  BY <1>1, <1>2, <1>3 DEF IInv, ForwardsAreAccountedFor, Shaped

\* A step of a thread.
LEMMA StepInv ==
    ASSUME IInv, NEW t \in Thread, Step(t)
    PROVE  IInv'
<1>1. /\ th = [u \in Thread |-> th[u]] /\ CoShape /\ BindingOK /\ TypeOK /\ gw.route \in Route
      /\ gen \in Nat /\ Shape(th[t]) /\ PlaceOK(th[t]) /\ th[t].later \in BOOLEAN /\ co.owned \in Nat
      /\ th[t].valid /\ th[t].tries > 0 => ~co.ready
  BY DEF IInv, Shaped, ForwardsAreAccountedFor, TypeOK, BindingOK, TokenOK
<1>2. th' = [th EXCEPT ![t] = th'[t]] /\ Shape(th'[t]) /\ th'[t].later \in BOOLEAN
  BY <1>1, StepShape, StepLater
<1>3. PlaceOK(th'[t]) /\ BindingOK' /\ HandsOver(t)
  BY <1>1, StepPlace, StepBinding, StepNames
<1>4. /\ th'[t].valid => th[t].valid
      /\ th'[t].valid /\ th'[t].tries > 0 => ~co'.ready
      /\ co'.ready => co.ready \/ th[t].valid
      /\ CoShape'
  BY <1>1, StepToken
<1>5. /\ \A f \in fwd' : f \in fwd \/ f.pair = th'[t].staged
      /\ fwd' \subseteq [pair : Pair, part : Part, via : Nat]
      /\ UNCHANGED <<link, gen, gw>> /\ news' \in BOOLEAN
  BY <1>1, StepForwards
<1>6. \A u \in Thread \ {t} : th'[u] = th[u]
  <2>1. th = [u \in Thread |-> th[u]] /\ th' = [th EXCEPT ![t] = th'[t]]
    BY <1>1, <1>2
  <2>. QED
    BY ONLY <2>1
<1>7. th' = [u \in Thread |-> th'[u]]
  BY <1>1, <1>2
<1>8. \A u \in Thread \ {t} : Beside(th'[u], th[u])
  BY <1>6 DEF Beside, IInv, Shaped
<1>9. TokenOK'
  BY <1>4, <1>6 DEF IInv, TokenOK
<1>10. link' \in {"up", "dead", "down"} /\ gen' \in Nat /\ gw' \in [route : Route, ready : BOOLEAN]
  BY <1>1, <1>5 DEF TypeOK
<1>. QED
  BY <1>2, <1>3, <1>4, <1>5, <1>7, <1>8, <1>9, <1>10, Combine

\* Who loses its token keeps everything else.
LEMMA Untold ==
    ASSUME NEW r, Shape(r), r.later \in BOOLEAN, NEW q, q = [r EXCEPT !.valid = FALSE]
    PROVE  Beside(q, r) /\ ~q.valid
<1>1. q.later = r.later /\ ~q.valid /\ Shape(q)
  BY DEF Shape
<1>2. /\ q.pc = r.pc /\ q.snap = r.snap /\ q.staged = r.staged /\ q.closing = r.closing
      /\ q.then = r.then /\ q.tries = r.tries
  BY DEF Shape
<1>. QED
  BY <1>1, <1>2 DEF Beside

\* Who closes the names of the binding at the end answers for them.
LEMMA ClosesAtLast ==
    ASSUME NEW t, Shape(th[t]), NEW pair, NEW q, q = Closes(t, pair, "idle")
    PROVE  Shape(q) /\ PlaceOK(q) /\ q.later \in BOOLEAN /\ ~q.valid /\ q.closing = pair
<1>1. Shape(q)
  BY DEF Shape, Closes, Idle
<1>2. q.later = FALSE /\ ~q.valid
  BY DEF Closes, Idle
<1>3. q.closing = pair /\ q.pc = "close" /\ q.then = "idle" /\ q.staged = None
  BY DEF Closes, Idle
<1>. QED
  BY <1>1, <1>2, <1>3 DEF PlaceOK, Staging

\* Who starts a poll answers for nothing.
LEMMA StartsAtFirst ==
    ASSUME NEW q, q = [Idle EXCEPT !.pc = "status", !.valid = TRUE]
    PROVE  Shape(q) /\ PlaceOK(q) /\ q.later \in BOOLEAN /\ q.tries = 0
<1>1. Shape(q) /\ q.tries = 0
  BY DEF Shape, Idle
<1>2. q.later = FALSE
  BY DEF Idle
<1>3. q.pc = "status" /\ q.staged = None /\ q.closing = None
  BY DEF Idle
<1>4. PlaceOK(q)
  BY ONLY <1>3 DEF PlaceOK, Staging
<1>5. q.later \in BOOLEAN
  BY ONLY <1>2
<1>. QED
  BY <1>1, <1>4, <1>5

\* A call begins on a thread that answers for nothing, and takes the token from the others or
\* closes the coordinator.
LEMMA CallInv ==
    ASSUME IInv, NEW t \in Thread, Call(t)
    PROVE  IInv'
<1>1. /\ th = [u \in Thread |-> th[u]] /\ CoShape /\ BindingOK /\ TypeOK
      /\ Shape(th[t]) /\ th[t].staged = None /\ th[t].closing = None
  BY DEF IInv, Shaped, ForwardsAreAccountedFor, TypeOK, BindingOK, PlaceOK, Staging, Call, EnsureReady,
     Disconnected, AcceptHealthSnapshot, Close, Called, At
<1>2. ASSUME NEW u \in Thread, NEW q, q = [th[u] EXCEPT !.valid = FALSE]
      PROVE  Beside(q, th[u]) /\ ~q.valid
  BY <1>2, Untold DEF IInv, Shaped
<1>3. UNCHANGED session /\ UNCHANGED gw
  BY DEF Call, EnsureReady, Disconnected, AcceptHealthSnapshot, Close
<1>4. /\ \A f \in fwd' : f \in fwd \/ f.pair = th'[t].staged
      /\ fwd' \subseteq [pair : Pair, part : Part, via : Nat]
      /\ link' \in {"up", "dead", "down"} /\ gen' \in Nat /\ gw' \in [route : Route, ready : BOOLEAN]
  BY <1>1, <1>3 DEF TypeOK, session
<1>5. news' \in BOOLEAN
  BY <1>1 DEF Call, EnsureReady, Disconnected, AcceptHealthSnapshot, Close, TypeOK
<1>6. CASE EnsureReady(t)
  <2>. DEFINE q == [Idle EXCEPT !.pc = "status", !.valid = TRUE]
  <2>1. /\ th' = [u \in Thread |-> IF u = t THEN q ELSE [th[u] EXCEPT !.valid = FALSE]]
        /\ UNCHANGED co
    BY <1>6 DEF EnsureReady, Starts
  <2>2. th' = [u \in Thread |-> th'[u]] /\ th'[t] = q
    BY <2>1
  <2>3. Shape(th'[t]) /\ PlaceOK(th'[t]) /\ th'[t].later \in BOOLEAN /\ th'[t].tries = 0
    BY <2>2, StartsAtFirst
  <2>5. \A u \in Thread \ {t} : Beside(th'[u], th[u]) /\ ~th'[u].valid
    BY <1>2, <2>1
  <2>6. CoShape' /\ BindingOK' /\ HandsOver(t)
    BY <1>1, <2>1 DEF CoShape, BindingOK, HandsOver
  <2>7. TokenOK'
    BY <2>3, <2>5 DEF TokenOK
  <2>. QED
    BY <1>4, <1>5, <2>2, <2>3, <2>5, <2>6, <2>7, Combine
<1>7. CASE Disconnected(t) \/ AcceptHealthSnapshot(t) \/ Close(t)
  <2>1. /\ th' = [u \in Thread |-> th'[u]] /\ th'[t] = Closes(t, co.owned, "idle")
        /\ \A u \in Thread \ {t} : th'[u] = th[u] \/ th'[u] = [th[u] EXCEPT !.valid = FALSE]
    BY <1>1, <1>7 DEF Disconnected, AcceptHealthSnapshot, Close
  <2>2. /\ Shape(th'[t]) /\ PlaceOK(th'[t]) /\ th'[t].later \in BOOLEAN
        /\ ~th'[t].valid /\ th'[t].closing = co.owned
    BY <1>1, <2>1, ClosesAtLast
  <2>3. \A u \in Thread \ {t} : Beside(th'[u], th[u])
    BY <1>2, <2>1 DEF IInv, Shaped, Beside
  <2>4. /\ CoShape' /\ co'.ready = FALSE /\ co'.owned = None /\ co'.target = None
        /\ co'.reason = "other"
    BY <1>7 DEF Disconnected, AcceptHealthSnapshot, Close, CoShape, Invalid, IInv, Shaped
  <2>5. BindingOK'
    <3>1. (co'.owned # None) = FALSE /\ (co'.target # None) = FALSE /\ co'.owned \in Nat
      BY ONLY <2>4 DEF None
    <3>2. (co'.reason = "ready") = FALSE
      BY ONLY <2>4
    <3>. QED
      BY ONLY <2>4, <3>1, <3>2 DEF BindingOK
  <2>6. HandsOver(t)
    BY ONLY <1>1, <2>2 DEF HandsOver
  <2>7. TokenOK'
    BY <2>2, <2>3, <2>4 DEF TokenOK, Beside, IInv
  <2>. QED
    BY <1>4, <1>5, <2>1, <2>2, <2>3, <2>4, <2>5, <2>6, <2>7, Combine
<1>. QED
  BY <1>6, <1>7 DEF Call

\* RemoteSession and the Gateway remove forwards and publish; the threads stand where they were.
LEMMA EnvironmentInv ==
    ASSUME IInv, Environment
    PROVE  IInv'
<1>. USE BindingAssumption
<1>1. /\ th = [u \in Thread |-> th[u]] /\ CoShape /\ BindingOK /\ TypeOK
  BY DEF IInv, Shaped, ForwardsAreAccountedFor
<1>2. PICK t : t \in Thread
  OBVIOUS
<1>3. UNCHANGED co /\ fwd' \subseteq fwd
  BY DEF Environment, Disconnect, TransportDies, Connect, ForwardDies, Publish, GatewayMoves,
     GatewayStops, GatewayReady, session
<1>4. UNCHANGED th \/ Published
  BY DEF Environment, Disconnect, TransportDies, Connect, ForwardDies, Publish, GatewayMoves,
     GatewayStops, GatewayReady
<1>5. th' = [u \in Thread |-> th'[u]] /\ \A u \in Thread : Beside(th'[u], th[u])
  <2>1. CASE UNCHANGED th
    BY <1>1, <2>1 DEF IInv, Shaped, Beside
  <2>2. CASE Published
    <3>1. ASSUME NEW u \in Thread, NEW r, r = th[u], NEW b \in BOOLEAN, NEW q, q = [r EXCEPT !.later = b]
          PROVE  Beside(q, r)
      <4>1. Shape(r)
        BY <3>1 DEF IInv, Shaped
      <4>2. q.later = b
        BY ONLY <3>1, <4>1 DEF Shape
      <4>3. /\ q.pc = r.pc /\ q.snap = r.snap /\ q.staged = r.staged /\ q.closing = r.closing
            /\ q.then = r.then /\ q.tries = r.tries /\ q.valid = r.valid /\ Shape(q)
        BY ONLY <3>1, <4>1 DEF Shape
      <4>. QED
        BY <3>1, <4>2, <4>3 DEF Beside
    <3>2. \A u \in Thread : th'[u] = [th[u] EXCEPT !.later = At(u, "apply")]
      BY <2>2 DEF Published
    <3>3. \A u \in Thread : At(u, "apply") \in BOOLEAN
      BY DEF At
    <3>. QED
      BY <2>2, <3>1, <3>2, <3>3 DEF Published
  <2>. QED
    BY <1>4, <2>1, <2>2
<1>6. Shape(th'[t]) /\ PlaceOK(th'[t]) /\ th'[t].later \in BOOLEAN
  BY <1>2, <1>5 DEF Beside, PlaceOK, IInv
<1>7. HandsOver(t) /\ CoShape' /\ BindingOK'
  BY <1>1, <1>2, <1>3, <1>5 DEF HandsOver, Beside, CoShape, BindingOK
<1>8. TokenOK'
  BY <1>3, <1>5 DEF TokenOK, Beside, IInv
<1>9. gw' \in [route : Route, ready : BOOLEAN]
  <2>1. gw \in [route : Route, ready : BOOLEAN]
    BY <1>1 DEF TypeOK
  <2>2. CASE UNCHANGED gw
    BY <2>1, <2>2
  <2>3. CASE GatewayMoves
    BY <2>1, <2>3 DEF GatewayMoves
  <2>4. CASE GatewayStops
    BY ONLY <2>1, <2>4 DEF GatewayStops
  <2>5. CASE GatewayReady
    BY ONLY <2>1, <2>5 DEF GatewayReady
  <2>. QED
    BY <2>2, <2>3, <2>4, <2>5 DEF Environment, Disconnect, TransportDies, Connect, ForwardDies, Publish
<1>10. link' \in {"up", "dead", "down"} /\ gen' \in Nat
  BY <1>1 DEF TypeOK, Environment, Disconnect, TransportDies, Connect, ForwardDies, Publish,
     GatewayMoves, GatewayStops, GatewayReady, session
<1>11. news' \in BOOLEAN
  <2>1. UNCHANGED news \/ news' = TRUE
    BY DEF Environment, Disconnect, TransportDies, Connect, ForwardDies, Publish,
     GatewayMoves, GatewayStops, GatewayReady, Published
  <2>. QED
    BY <1>1, <2>1 DEF TypeOK
<1>12. fwd' \subseteq [pair : Pair, part : Part, via : Nat] /\ \A f \in fwd' : f \in fwd
  BY <1>1, <1>3 DEF TypeOK
<1>. QED
  BY <1>2, <1>5, <1>6, <1>7, <1>8, <1>9, <1>10, <1>11, <1>12, Combine

-----------------------------------------------------------------------------
(* What the coordinator guarantees.                                        *)

\* IInv holds in every reachable state.
THEOREM Inductive == Spec => []IInv
<1>1. IInv /\ UNCHANGED vars => IInv'
  BY DEF IInv, vars, session, ForwardsAreAccountedFor, TypeOK, InUse, BindingOK, Shaped, CoShape,
     TokenOK, PlaceOK, Shape
<1>2. IInv /\ [Next]_vars => IInv'
  BY <1>1, StepInv, CallInv, EnvironmentInv DEF Next
<1>. QED
  BY InitInv, <1>2, PTL DEF Spec

\* No interleaving of polls, health snapshots, close and lost connections leaks a forward,
\* however many threads call the coordinator.
THEOREM ForwardsAccounted == Spec => []ForwardsAreAccountedFor
<1>1. IInv => ForwardsAreAccountedFor
  BY DEF IInv
<1>. QED
  BY <1>1, Inductive, PTL

=============================================================================
