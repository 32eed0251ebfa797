SPECIFICATION CtlSpec
CONSTANTS
    Runs = {r1, r2, r3, r4}
    Sessions = {s1, s2}
    None = None
INVARIANTS
    CtlTypeOK
    LanesConsistent
    NoHeadOfLineBlocking
PROPERTY
    ImplementsLane
