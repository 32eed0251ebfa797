SPECIFICATION Spec
CONSTANTS
    Clients = {a, b}
    None = None
    MaxStarts = 2
    MaxPrompts = 2
    MaxDrops = 1
    MaxQueue = 1
    Crashes = TRUE
SYMMETRY Symmetry
INVARIANTS
    StartsAnswered
    WaiterHears
    StrayNeedsOverlap
    NoOrphanPrompt
    BannerTruth
\* Every tab may be idle.
CHECK_DEADLOCK FALSE
