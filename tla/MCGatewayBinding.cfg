CONSTANTS
    poll = poll
    gui = gui
    Thread = {poll, gui}
    Poller = poll
    MaxRoute = 3
    Instance <- InstanceOf
    Attempts = 1
    MaxDisturb = 3
SPECIFICATION LiveSpec
INVARIANTS
    ForwardsAreAccountedFor
PROPERTIES
    ClosedLeavesNothing
    TunnelComesBack
