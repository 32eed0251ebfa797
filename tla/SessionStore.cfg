SPECIFICATION FairSpec
CONSTANTS
    agent = agent
    rest = rest
    p1 = p1
    p2 = p2
    Keys = {k1, k2}
    Callers = {p1, p2}
    Engines = {agent}
    EngineOf <- OneEngine
    None = None
    Unread = Unread
    Retention = 1
    ReadsOverlap = FALSE
    MaxOps = 3
    MaxCrashes = 1
INVARIANTS
    
    EntriesHaveTranscripts
PROPERTY
    OperationsEnd
\* Callers may have nothing more to ask.
CHECK_DEADLOCK FALSE
