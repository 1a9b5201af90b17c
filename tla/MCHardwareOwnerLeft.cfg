\* Two processes; an owner leaves with its OpenOCD alive.
CONSTANTS
    Proc = {p1, p2}
    Token = {t1}
    NoProc = NoProc
SPECIFICATION Spec
SYMMETRY Symmetry
PROPERTY
    NoDriverLeft
