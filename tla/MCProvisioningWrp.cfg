CONSTANTS
    Image = {a, b}
    Broken = Broken
    Width = 3
    MaxOps = 2
SPECIFICATION Spec
INVARIANT
    RestorationIsRequested
