----------------------- MODULE CliUpdateInstallProofs -----------------------
(***************************************************************************)
(* What apply_staged_cli_install guarantees to any number of helpers, any  *)
(* number of which fail or are killed.                                     *)
(***************************************************************************)
EXTENDS CliUpdateInstall, TLAPS

(***************************************************************************)
(* The inductive invariant.  The lock lets one helper at a time touch the  *)
(* tree, so the invariant says for each step of that helper where the      *)
(* trees are.                                                              *)
(***************************************************************************)

\* A helper moves a tree aside once.
NothingAside == \A h \in Helper :
    pc[h] \in {"new", "wait", "lock", "copy", "move"} => backup[h] = None

\* The steps between the move and the result, and those with the new tree in place.
Replacing == {"publish", "launcher", "unit", "result", "unpublish", "restore"}
InPlace == {"launcher", "unit", "result", "unpublish", "cleanup"}

\* Who may delete the tree that is installed has a whole one elsewhere, and who may delete
\* another has it installed.
Trees == \A h \in Helper :
    /\ pc[h] \in Replacing => \E g \in Helper : backup[g] \in Whole
    /\ pc[h] \in InPlace => root = h

AsideInv == AWholeTreeRemains /\ NothingAside /\ Trees

\* No helper died, and none failed to undo what it had done.
Quiet == \A h \in Helper : pc[h] # "dead" /\ failed[h] # "unrestored"

\* Only a helper that is past its steps has failed.
FailedLast == \A h \in Helper :
    /\ failed[h] # "no" => pc[h] \in {"error", "tidy", "end", "dead"}
    /\ pc[h] \in Replacing \cup {"cleanup"} => failed[h] = "no"

Kept(t) == t \in Whole /\ (log.status = "ok" => t = log.by)
UnitOf(t) == t \in WithUnit => unit = t \/ unit \in {h \in Helper : failed[h] = "restored"}

\* The tree that a rollback would leave is the one of the last "ok".
Results ==
    /\ lock = None => Kept(root) /\ UnitOf(root)
    /\ \A h \in Helper :
        /\ pc[h] \in {"copy", "move", "cleanup"} => Kept(root) /\ UnitOf(root)
        /\ pc[h] \in Replacing => moved[h] /\ Kept(backup[h])
        /\ pc[h] \in {"publish", "launcher", "unit"} => UnitOf(backup[h])
        /\ pc[h] = "result" => IF h \in WithUnit THEN unit = h ELSE UnitOf(backup[h])
        /\ pc[h] \in {"unpublish", "restore"} => unit = h \/ UnitOf(backup[h])

ResultInv == FailedLast /\ (Quiet => Results)

IInv == AsideInv /\ ResultInv

-----------------------------------------------------------------------------
\* What one helper does.
Step(h) ==
    \/ Launch(h) \/ Refused(h) \/ ParentGone(h) \/ Lock(h) \/ Copy(h) \/ MoveAside(h) \/ Publish(h)
    \/ WriteLauncher(h) \/ WriteUnit(h) \/ WriteResult(h) \/ DeleteBackup(h)
    \/ Unpublish(h) \/ Restore(h) \/ WriteError(h) \/ Tidy(h) \/ Die(h)

\* The types hold at the beginning.
LEMMA InitTyped == Init => TypeOK
BY InstallAssumption DEF Init, TypeOK, Tree, Whole, Critical, Steps

\* A step of a helper keeps the types, and the lock with the helper that is past "lock".
LEMMA StepTyped ==
    ASSUME TypeOK, NEW h \in Helper, Step(h)
    PROVE  TypeOK'
<1>. USE InstallAssumption DEF TypeOK, Tree, Whole, Critical, Steps, At, Goto, Faults, Fine,
         Raises, Keeps
<1>1. CASE Launch(h) \/ Refused(h) \/ ParentGone(h)
  BY <1>1 DEF Launch, Refused, ParentGone
<1>2. CASE Lock(h)
  BY <1>2 DEF Lock
<1>3. CASE Copy(h)
  BY <1>3 DEF Copy
<1>4. CASE MoveAside(h)
  <2>1. moved' \in [Helper -> BOOLEAN]
    BY <1>4 DEF MoveAside
  <2>2. root' \in Tree /\ backup' \in [Helper -> Tree] /\ publish' \in [Helper -> Tree]
    BY <1>4 DEF MoveAside
  <2>3. pc' \in [Helper -> Steps \cup {"new", "end", "dead"}]
    BY <1>4 DEF MoveAside
  <2>4. failed' \in [Helper -> {"no", "restored", "unrestored"}] /\ UNCHANGED <<unit, log>>
    BY <1>4 DEF MoveAside
  <2>5. \A g \in Helper : (lock' = g) = (pc'[g] \in Critical)
    BY <1>4 DEF MoveAside
  <2>. QED
    BY <2>1, <2>2, <2>3, <2>4, <2>5
<1>5. CASE Publish(h)
  BY <1>5 DEF Publish
<1>6. CASE WriteLauncher(h) \/ WriteUnit(h)
  BY <1>6 DEF WriteLauncher, WriteUnit
<1>7. CASE WriteResult(h)
  BY <1>7 DEF WriteResult
<1>8. CASE DeleteBackup(h)
  BY <1>8 DEF DeleteBackup
<1>9. CASE Unpublish(h)
  BY <1>9 DEF Unpublish
<1>10. CASE Restore(h)
  BY <1>10 DEF Restore
<1>11. CASE WriteError(h)
  BY <1>11 DEF WriteError
<1>12. CASE Tidy(h)
  BY <1>12 DEF Tidy
<1>13. CASE Die(h)
  <2>1. root' \in Tree /\ backup' \in [Helper -> Tree] /\ publish' \in [Helper -> Tree]
    BY <1>13 DEF Die
  <2>2. pc' \in [Helper -> Steps \cup {"new", "end", "dead"}]
    BY <1>13 DEF Die
  <2>3. \A g \in Helper : (lock' = g) = (pc'[g] \in Critical)
    BY <1>13 DEF Die
  <2>4. UNCHANGED <<unit, log, moved, failed>>
    BY <1>13 DEF Die
  <2>. QED
    BY <2>1, <2>2, <2>3, <2>4
<1>. QED
  BY <1>1, <1>2, <1>3, <1>4, <1>5, <1>6, <1>7, <1>8, <1>9, <1>10, <1>11, <1>12, <1>13 DEF Step

-----------------------------------------------------------------------------
\* No step, whole or half done, leaves the disk without a whole tree.
LEMMA AsideStep ==
    ASSUME TypeOK, TypeOK', AsideInv, NEW h \in Helper, Step(h)
    PROVE  AsideInv'
<1>. USE InstallAssumption DEF AsideInv, AWholeTreeRemains, NothingAside, Trees, Replacing, InPlace,
         TypeOK, Tree, Whole, Critical, Steps, At, Goto, Raises, Keeps
<1>1. CASE Launch(h) \/ Refused(h) \/ ParentGone(h) \/ WriteError(h) \/ Tidy(h)
  BY <1>1 DEF Launch, Refused, ParentGone, WriteError, Tidy
<1>2. CASE Lock(h) \/ Copy(h)
  BY <1>2 DEF Lock, Copy
<1>3. CASE MoveAside(h)
  BY <1>3 DEF MoveAside
<1>4. CASE Publish(h)
  BY <1>4 DEF Publish
<1>5. CASE WriteLauncher(h) \/ WriteUnit(h) \/ WriteResult(h)
  BY <1>5 DEF WriteLauncher, WriteUnit, WriteResult
<1>6. CASE DeleteBackup(h)
  BY <1>6 DEF DeleteBackup
<1>7. CASE Unpublish(h)
  BY <1>7 DEF Unpublish
<1>8. CASE Restore(h)
  BY <1>8 DEF Restore
<1>9. CASE Die(h)
  BY <1>9 DEF Die
<1>. QED
  BY <1>1, <1>2, <1>3, <1>4, <1>5, <1>6, <1>7, <1>8, <1>9 DEF Step

\* A helper fails once, and what is not quiet stays so.
LEMMA FailedStep ==
    ASSUME TypeOK, FailedLast, NEW h \in Helper, Step(h)
    PROVE  FailedLast' /\ (Quiet' => Quiet)
<1>. USE InstallAssumption DEF FailedLast, Quiet, Replacing,
         TypeOK, Critical, Steps, At, Goto, Raises, Keeps
<1>1. CASE Launch(h) \/ Refused(h) \/ ParentGone(h) \/ WriteError(h) \/ Tidy(h)
  BY <1>1 DEF Launch, Refused, ParentGone, WriteError, Tidy
<1>2. CASE Lock(h) \/ Copy(h) \/ MoveAside(h)
  BY <1>2 DEF Lock, Copy, MoveAside
<1>3. CASE Publish(h) \/ WriteLauncher(h) \/ WriteUnit(h) \/ WriteResult(h)
  BY <1>3 DEF Publish, WriteLauncher, WriteUnit, WriteResult
<1>4. CASE DeleteBackup(h) \/ Unpublish(h) \/ Restore(h)
  BY <1>4 DEF DeleteBackup, Unpublish, Restore
<1>5. CASE Die(h)
  BY <1>5 DEF Die
<1>. QED
  BY <1>1, <1>2, <1>3, <1>4, <1>5 DEF Step

\* While it is quiet, each step of the lock holder carries the tree of the last "ok" on, into
\* the backup and out of it, and the steps of the others leave it alone.
LEMMA ResultStep ==
    ASSUME TypeOK, TypeOK', AsideInv, FailedLast, Quiet, Quiet', Results, NEW h \in Helper, Step(h)
    PROVE  Results'
<1>. USE InstallAssumption DEF AsideInv, Trees, InPlace, FailedLast, Results, Kept, UnitOf, Replacing,
         TypeOK, Whole, Critical, Steps, At, Goto, Raises, Keeps
<1>1. CASE Launch(h) \/ Refused(h) \/ ParentGone(h)
  BY <1>1 DEF Launch, Refused, ParentGone
<1>2. CASE WriteError(h) \/ Tidy(h)
  BY <1>2 DEF WriteError, Tidy
<1>3. CASE Lock(h)
  BY <1>3 DEF Lock
<1>4. CASE Copy(h)
  BY <1>4 DEF Copy
<1>5. CASE MoveAside(h)
  BY <1>5 DEF MoveAside
<1>6. CASE Publish(h)
  BY <1>6 DEF Publish
<1>7. CASE WriteLauncher(h)
  BY <1>7 DEF WriteLauncher
<1>8. CASE WriteUnit(h)
  BY <1>8 DEF WriteUnit
<1>9. CASE WriteResult(h)
  BY <1>9 DEF WriteResult
<1>10. CASE DeleteBackup(h)
  BY <1>10 DEF DeleteBackup
<1>11. CASE Unpublish(h)
  BY <1>11 DEF Unpublish, Quiet
<1>12. CASE Restore(h)
  BY <1>12 DEF Restore, Quiet
<1>13. CASE Die(h)
  BY <1>13 DEF Die, Quiet
<1>. QED
  BY <1>1, <1>2, <1>3, <1>4, <1>5, <1>6, <1>7, <1>8, <1>9, <1>10, <1>11, <1>12, <1>13 DEF Step

-----------------------------------------------------------------------------
\* What is installed before any helper is launched satisfies the invariant.
LEMMA InitInv == Init => IInv
<1>. SUFFICES ASSUME Init PROVE IInv
  OBVIOUS
<1>1. TypeOK
  BY InitTyped
<1>2. AsideInv
  BY <1>1 DEF Init, AsideInv, AWholeTreeRemains, NothingAside, Trees, Replacing, InPlace, Whole
<1>3. ResultInv
  BY InstallAssumption DEF Init, ResultInv, FailedLast, Results, Replacing, Kept, UnitOf, Whole
<1>. QED
  BY <1>2, <1>3 DEF IInv

\* A step of any helper, or none, keeps it.
LEMMA StepInv ==
    ASSUME IInv, [Next]_vars
    PROVE  IInv'
<1>1. CASE UNCHANGED vars
  BY <1>1 DEF vars, IInv, AsideInv, AWholeTreeRemains, TypeOK, NothingAside, Trees, ResultInv,
     FailedLast, Quiet, Results, Kept, UnitOf
<1>2. CASE Next
  <2>1. PICK h \in Helper : Step(h)
    BY <1>2 DEF Next, Step
  <2>2. TypeOK /\ TypeOK'
    BY <2>1, StepTyped DEF IInv, AsideInv, AWholeTreeRemains
  <2>3. AsideInv'
    BY <2>1, <2>2, AsideStep DEF IInv
  <2>4. FailedLast' /\ (Quiet' => Quiet)
    BY <2>1, <2>2, FailedStep DEF IInv, ResultInv
  <2>5. ASSUME Quiet'
        PROVE  Results'
    BY <2>1, <2>2, <2>4, <2>5, ResultStep DEF IInv, ResultInv
  <2>. QED
    BY <2>3, <2>4, <2>5 DEF IInv, ResultInv
<1>. QED
  BY <1>1, <1>2

\* IInv holds of every reachable state.
THEOREM Inductive == Spec => []IInv
BY InitInv, StepInv, PTL DEF Spec

\* Whatever fails and whoever dies, a whole CLI tree is on disk, installed or put
\* aside by a helper.
THEOREM WholeTreeRemains == Spec => []AWholeTreeRemains
<1>1. IInv => AWholeTreeRemains
  BY DEF IInv, AsideInv
<1>. QED
  BY <1>1, Inductive, PTL

\* A recorded "ok" names the installed tree as long as no helper has died or been
\* unable to roll back, however many came after the one that recorded it; and its service
\* unit is the one of that tree, if the bundle brought one, or of a helper that rolled back.
THEOREM OkIsInstalled == Spec => []OkMeansInstalled
<1>1. IInv => OkMeansInstalled
  BY DEF IInv, ResultInv, Quiet, Results, Kept, UnitOf, OkMeansInstalled
<1>. QED
  BY <1>1, Inductive, PTL

=============================================================================
