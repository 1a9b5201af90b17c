\* Three processes compete, each can nest two tokens.
CONSTANTS
    Proc = {p1, p2, p3}
    Token = {t1, t2}
    NoProc = NoProc
SPECIFICATION Spec
SYMMETRY Symmetry
INVARIANTS
    TypeOK
    HeldTokenOwnsLock
    CrashBlocksAcquire
    InUseSurvivesPowerLoss
PROPERTY
    NoOrphanDriver
