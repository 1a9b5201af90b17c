CONSTANTS
    s1 = s1
    s2 = s2
    s3 = s3
    Sub = {s1, s2, s3}
    Id = {Prepare, Stop}
    Program = {Prepare}
    Prepare = Prepare
    Stop = Stop
    IdOf <- SubmitterOf
    Slow = {s3}
    MaxDeath = 1
    None = None
    Whole = Whole
SPECIFICATION LiveSpec
INVARIANTS
    TypeOK
    WaiterIsServed
PROPERTIES
    RequestsAreTakenUp
    ShutdownEnds
