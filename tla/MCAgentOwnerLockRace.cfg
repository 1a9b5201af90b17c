\* One Agent was killed; two processes reclaim its file at the same time.
CONSTANTS
    Launcher = {l1}
    Agent = {a1, a2, a3}
    NoPid = NoPid
    MaxCrash = 1
    OneReclaimer = FALSE
SPECIFICATION Spec
CHECK_DEADLOCK FALSE
INVARIANT
    OneOwner
