SPECIFICATION Spec
CONSTANTS
    Tabs = {a, b}
    None = None
    MaxTurns = 2
    MaxPrompts = 1
    MaxQueue = 1
    MaxCuts = 1
INVARIANTS
    
    StreamIsInFlight
    BannerIsPending

    
\* When no turn is left and nothing was missed, nothing need happen.
CHECK_DEADLOCK FALSE
