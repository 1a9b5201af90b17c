CONSTANTS
    Image = {a, b}
    Broken = Broken
    Width = 3
    MaxOps = 3
SPECIFICATION Spec
INVARIANTS
    TypeOK
    MetadataDescribesApp
    FailureIsReported
PROPERTIES
    BootsOnlyApproved
    SuccessIsReal
