CONSTANTS
    h1 = h1
    h2 = h2
    h3 = h3
    Helper = {h1, h2, h3}
    WithUnit = {h1, h2}
    Old = Old
    Partial = Partial
    None = None
    MaxFault = 4
    MaxDeath = 2
SPECIFICATION Spec
SYMMETRY Helpers
INVARIANTS
    AWholeTreeRemains
    OkMeansInstalled
CHECK_DEADLOCK FALSE
