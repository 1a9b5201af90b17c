\* Two launchers, two Agents, two of the four are killed.
CONSTANTS
    Launcher = {l1, l2}
    Agent = {a1, a2}
    NoPid = NoPid
    MaxCrash = 2
    OneReclaimer = TRUE
SPECIFICATION LiveSpec
CHECK_DEADLOCK FALSE
INVARIANTS
    OwnerHasFile
PROPERTY
    StaleRecordReclaimed
