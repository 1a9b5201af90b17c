-------------------------- MODULE CliUpdateInstall --------------------------
(***************************************************************************)
(* apply_staged_cli_install: detached helpers replace the managed CLI tree *)
(* by the bundle that each was started with.  The old tree is moved aside, *)
(* the new one published under its name, launcher and service unit are     *)
(* written, the result is recorded and the old tree deleted; a failure in  *)
(* between rolls back.  Any step may fail, half done where a tree is       *)
(* copied or deleted, and a helper may die anywhere.                       *)
(***************************************************************************)
EXTENDS Naturals

CONSTANTS
    Helper,      \* helpers, each with a bundle of its own
    WithUnit,    \* those whose bundle is for Linux and holds the service unit
    Old,         \* the tree that is installed at the beginning
    Partial,     \* a tree that was copied or deleted in part
    None,
    MaxFault,    \* bound: steps that raise
    MaxDeath     \* bound: helpers that are killed

ASSUME InstallAssumption ==
    /\ {Old, Partial, None} \cap Helper = {} /\ Partial # Old /\ None \notin {Old, Partial}
    /\ WithUnit \subseteq Helper
    /\ MaxFault \in Nat /\ MaxDeath \in Nat

VARIABLES
    root,        \* paths.root; a whole tree is named after the helper that brought it
    backup,      \* the tree that each helper has moved aside
    publish,     \* the private copy of each helper
    unit,        \* the systemd unit: the helper that wrote it
    log,         \* install-result.json
    lock,        \* the flock of the staging directory
    pc,          \* the next step of each helper
    moved,       \* previous_moved
    failed,      \* how far the helper came: "no", "restored" or "unrestored"
    faults, deaths

vars == <<root, backup, publish, unit, log, lock, pc, moved, failed, faults, deaths>>

Whole == Helper \cup {Old}
Tree == Whole \cup {Partial, None}
Critical == {"copy", "move", "publish", "launcher", "unit", "result", "cleanup", "unpublish", "restore"}
Steps == {"wait", "lock", "error", "tidy"} \cup Critical

TypeOK ==
    /\ root \in Tree /\ backup \in [Helper -> Tree] /\ publish \in [Helper -> Tree]
    /\ unit \in Whole /\ log \in [status : {"none", "ok", "error"}, by : Whole]
    /\ pc \in [Helper -> Steps \cup {"new", "end", "dead"}] /\ moved \in [Helper -> BOOLEAN]
    /\ failed \in [Helper -> {"no", "restored", "unrestored"}]
    /\ \A h \in Helper : (lock = h) = (pc[h] \in Critical)

Init ==
    /\ root = Old /\ unit = Old /\ log = [status |-> "none", by |-> Old] /\ lock = None
    /\ backup = [h \in Helper |-> None] /\ publish = [h \in Helper |-> None]
    /\ pc = [h \in Helper |-> "new"] /\ moved = [h \in Helper |-> FALSE]
    /\ failed = [h \in Helper |-> "no"] /\ faults = 0 /\ deaths = 0

At(h, step) == pc[h] = step
Goto(h, step) == pc' = [pc EXCEPT ![h] = step]
Faults == faults < MaxFault /\ faults' = faults + 1
Fine == UNCHANGED faults
\* An exception leaves the lock before its message is recorded.
Raises(h, how) ==
    /\ Goto(h, "error") /\ lock' = None /\ failed' = [failed EXCEPT ![h] = how]
Keeps == UNCHANGED <<lock, failed>>

-----------------------------------------------------------------------------
\* launch_managed_cli_install runs in the installed CLI, or in the GUI's installation when there
\* is no CLI.
Launch(h) ==
    /\ At(h, "new") /\ root # Partial /\ Goto(h, "wait") /\ Fine /\ Keeps
    /\ UNCHANGED <<root, backup, publish, unit, log, moved, deaths>>

\* The checks before the try leave no result: a changed stage, a parent that stays.
Refused(h) ==
    /\ At(h, "wait") /\ Goto(h, "end") /\ Faults /\ Keeps
    /\ UNCHANGED <<root, backup, publish, unit, log, moved, deaths>>

ParentGone(h) ==
    /\ At(h, "wait") /\ Goto(h, "lock") /\ Fine /\ Keeps
    /\ UNCHANGED <<root, backup, publish, unit, log, moved, deaths>>

Lock(h) ==
    /\ At(h, "lock")
    /\ \/ lock = None /\ lock' = h /\ Goto(h, "copy") /\ Fine /\ UNCHANGED failed
       \/ Faults /\ Goto(h, "error") /\ failed' = [failed EXCEPT ![h] = "restored"]
          /\ UNCHANGED lock   \* LOCK_TIMEOUT_SECONDS
    /\ UNCHANGED <<root, backup, publish, unit, log, moved, deaths>>

Copy(h) ==
    /\ At(h, "copy")
    /\ \/ publish' = [publish EXCEPT ![h] = h] /\ Goto(h, "move") /\ Fine /\ Keeps
       \/ publish' = [publish EXCEPT ![h] = Partial] /\ Raises(h, "restored") /\ Faults
    /\ UNCHANGED <<root, backup, unit, log, moved, deaths>>

MoveAside(h) ==
    /\ At(h, "move")
    /\ \/ /\ root # None /\ root' = None /\ backup' = [backup EXCEPT ![h] = root]
          /\ moved' = [moved EXCEPT ![h] = TRUE] /\ Goto(h, "publish") /\ Fine /\ Keeps
       \/ /\ root = None /\ Goto(h, "publish") /\ Fine /\ Keeps /\ UNCHANGED <<root, backup, moved>>
       \/ /\ root # None /\ Raises(h, "restored") /\ Faults /\ UNCHANGED <<root, backup, moved>>
    /\ UNCHANGED <<publish, unit, log, deaths>>

\* MUTANT of Publish: the old tree is deleted as soon as the new one is in place.
PublishDeletes(h) ==
    /\ At(h, "publish")
    /\ root' = h /\ publish' = [publish EXCEPT ![h] = None] /\ Goto(h, "launcher") /\ Fine
    /\ backup' = [backup EXCEPT ![h] = None] /\ Keeps
    /\ UNCHANGED <<unit, log, moved, deaths>>

Publish(h) ==
    /\ At(h, "publish") /\ Keeps
    /\ \/ /\ root' = h /\ publish' = [publish EXCEPT ![h] = None] /\ Goto(h, "launcher") /\ Fine
       \/ /\ Goto(h, "restore") /\ Faults /\ UNCHANGED <<root, publish>>
    /\ UNCHANGED <<backup, unit, log, moved, deaths>>

WriteLauncher(h) ==
    /\ At(h, "launcher") /\ Keeps
    /\ \/ Goto(h, "unit") /\ Fine
       \/ Goto(h, "unpublish") /\ Faults
    /\ UNCHANGED <<root, backup, publish, unit, log, moved, deaths>>

\* A bundle need not bring a unit: then the one that is there stays.
WriteUnit(h) ==
    /\ At(h, "unit") /\ Keeps
    /\ \/ h \in WithUnit /\ unit' = h /\ Goto(h, "result") /\ Fine
       \/ h \in WithUnit /\ Goto(h, "unpublish") /\ Faults /\ UNCHANGED unit
       \/ h \notin WithUnit /\ Goto(h, "result") /\ Fine /\ UNCHANGED unit
    /\ UNCHANGED <<root, backup, publish, log, moved, deaths>>

WriteResult(h) ==
    /\ At(h, "result") /\ Keeps
    /\ \/ log' = [status |-> "ok", by |-> h] /\ Goto(h, "cleanup") /\ Fine
       \/ Goto(h, "unpublish") /\ Faults /\ UNCHANGED log
    /\ UNCHANGED <<root, backup, publish, unit, moved, deaths>>

\* A failure to delete the old tree is reported as an error, with the new tree in place.
DeleteBackup(h) ==
    /\ At(h, "cleanup")
    /\ \/ /\ backup' = [backup EXCEPT ![h] = None] /\ Goto(h, "tidy") /\ lock' = None
          /\ Fine /\ UNCHANGED failed
       \/ /\ backup[h] # None /\ backup' = [backup EXCEPT ![h] = Partial]
          /\ Raises(h, "no") /\ Faults
    /\ UNCHANGED <<root, publish, unit, log, moved, deaths>>

\* The rollback: delete the published tree, put the old one back.
Unpublish(h) ==
    /\ At(h, "unpublish")
    /\ \/ root' = None /\ Goto(h, "restore") /\ Fine /\ Keeps
       \/ root' = Partial /\ Raises(h, "unrestored") /\ Faults
    /\ UNCHANGED <<backup, publish, unit, log, moved, deaths>>

\* MUTANT of Restore: without previous_moved and the backup.
RestoreNothing(h) ==
    /\ At(h, "restore") /\ Raises(h, "restored") /\ Fine
    /\ UNCHANGED <<root, backup, publish, unit, log, moved, deaths>>

Restore(h) ==
    /\ At(h, "restore")
    /\ \/ /\ moved[h] /\ root' = backup[h] /\ backup' = [backup EXCEPT ![h] = None]
          /\ Raises(h, "restored") /\ Fine
       \/ /\ ~moved[h] /\ Raises(h, "restored") /\ Fine /\ UNCHANGED <<root, backup>>
       \/ /\ moved[h] /\ Raises(h, "unrestored") /\ Faults /\ UNCHANGED <<root, backup>>
    /\ UNCHANGED <<publish, unit, log, moved, deaths>>

\* An OSError of this write is dropped.
WriteError(h) ==
    /\ At(h, "error") /\ Goto(h, "tidy") /\ Keeps
    /\ \/ log' = [status |-> "error", by |-> h] /\ Fine
       \/ Faults /\ UNCHANGED log
    /\ UNCHANGED <<root, backup, publish, unit, moved, deaths>>

Tidy(h) ==
    /\ At(h, "tidy") /\ Goto(h, "end") /\ Keeps
    /\ \/ publish' = [publish EXCEPT ![h] = None] /\ Fine
       \/ publish[h] # None /\ publish' = [publish EXCEPT ![h] = Partial] /\ Faults
    /\ UNCHANGED <<root, backup, unit, log, moved, deaths>>

\* SIGKILL or a reboot, perhaps in the middle of a copy or of a deletion.
Die(h) ==
    /\ pc[h] \in Steps /\ deaths < MaxDeath /\ deaths' = deaths + 1 /\ Goto(h, "dead")
    /\ lock' = IF lock = h THEN None ELSE lock
    /\ root' \in {root} \cup (IF At(h, "unpublish") THEN {Partial} ELSE {})
    /\ backup' \in {backup} \cup (IF At(h, "cleanup") /\ backup[h] # None
                                  THEN {[backup EXCEPT ![h] = Partial]} ELSE {})
    /\ publish' \in {publish} \cup (IF At(h, "copy") THEN {[publish EXCEPT ![h] = Partial]} ELSE {})
    /\ UNCHANGED <<unit, log, moved, failed, faults>>

-----------------------------------------------------------------------------
Next == \E h \in Helper :
    \/ Launch(h) \/ Refused(h) \/ ParentGone(h) \/ Lock(h) \/ Copy(h) \/ MoveAside(h) \/ Publish(h)
    \/ WriteLauncher(h) \/ WriteUnit(h) \/ WriteResult(h) \/ DeleteBackup(h)
    \/ Unpublish(h) \/ Restore(h) \/ WriteError(h) \/ Tidy(h) \/ Die(h)

Spec == Init /\ [][Next]_vars

-----------------------------------------------------------------------------
\* Whatever fails and whoever dies, a whole CLI tree is left on disk: under its own name or as
\* the backup of some helper.  (After a crash it may be the backup only; nothing puts it back.)
AWholeTreeRemains ==
    /\ TypeOK
    /\ \/ root \in Whole
       \/ \E h \in Helper : backup[h] \in Whole

\* A recorded "ok" names the tree that is installed, whatever other helpers have tried since,
\* unless one of them died or could not undo its changes.  If that bundle brought a service
\* unit, the unit is that of the same tree, or was left behind by a helper that rolled back:
\* WriteUnit is not undone.
OkMeansInstalled ==
    (/\ log.status = "ok" /\ lock = None
     /\ \A h \in Helper : pc[h] # "dead" /\ failed[h] # "unrestored")
    => /\ root = log.by
       /\ root \in WithUnit => unit = root \/ unit \in {h \in Helper : failed[h] = "restored"}
=============================================================================
