CONSTANTS
    Job = {j1, j2}
    Mine = j1
    MaxActive = 2
    MaxLease = 2
    MaxDeath = 1
    None = None
SPECIFICATION LiveClientSpec
INVARIANTS
    ClientTypeOK
    AdoptedLeaseHasItsJob
    AdoptionIsNeverRefused
    ArtifactOutlivesCommit
    FailedUploadLeavesNothing
    ToldOutcomeStaysTrue
    OnlyConfirmedJobsFlash
PROPERTIES
    HonoursFlashContract
    CommittedJobSettles
CHECK_DEADLOCK FALSE
