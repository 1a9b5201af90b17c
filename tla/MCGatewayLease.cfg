\* Three leases in a row, four OpenOCD processes.
CONSTANTS
    None = None
    Cli = Cli
    Orphan = Orphan
    MaxLease = 3
    MaxGateway = 4
    PromptAgent = TRUE
SPECIFICATION LiveSpec
INVARIANTS
    TypeOK
    OpenOcdIsOwned
    IdleIsQuiet
    FlashKeepsLease
    LateStopIsHarmless
PROPERTIES
    EvidenceOutlivesProcess
    NoLeaseEndsOverItsGateway
    ImplementsExclusiveLease
    EventuallyFree
    CleaningEnds
