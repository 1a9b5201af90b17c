\* One lease.
CONSTANTS
    None = None
    Cli = Cli
    Orphan = Orphan
    MaxLease = 1
    MaxGateway = 1
    PromptAgent = TRUE
SPECIFICATION Spec
INVARIANT
    AgentCanRestart
