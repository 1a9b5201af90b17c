\* One polling thread; the connection is lost once.
CONSTANTS
    poll = poll
    gui = gui
    Thread = {poll}
    Poller = poll
    MaxRoute = 1
    Instance <- InstanceOf
    Attempts = 1
    MaxDisturb = 1
SPECIFICATION LiveSpec
PROPERTIES
    StaleTunnelsAreReplaced
