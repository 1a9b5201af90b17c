\* One submitter and its preparation thread, no death.
CONSTANTS
    s1 = s1
    s2 = s2
    s3 = s3
    Sub = {s1}
    Id = {Prepare, Stop}
    Program = {Prepare}
    Prepare = Prepare
    Stop = Stop
    IdOf <- SubmitterOf
    Slow = {}
    MaxDeath = 0
    None = None
    Whole = Whole
SPECIFICATION Spec
INVARIANT RunsOnce
