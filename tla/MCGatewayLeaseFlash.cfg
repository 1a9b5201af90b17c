\* Two leases, of which the first serves a flash job, and a loop that may be late.
CONSTANTS
    None = None
    Cli = Cli
    Orphan = Orphan
    MaxLease = 2
    MaxGateway = 1
    PromptAgent = FALSE
SPECIFICATION Spec
INVARIANT
    FlashKeepsLease
