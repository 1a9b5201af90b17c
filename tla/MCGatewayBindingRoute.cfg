CONSTANTS
    poll = poll
    gui = gui
    Thread = {poll}
    Poller = poll
    MaxRoute = 2
    Instance <- InstanceOf
    Attempts = 1
    MaxDisturb = 2
SPECIFICATION LiveSpec
PROPERTIES
    FollowsGateway
