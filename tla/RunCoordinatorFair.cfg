SPECIFICATION FairSpec
CONSTANTS
    Runs = {r1, r2}
    Sessions = {s1}
    None = None
    PerRunTools = TRUE
    Waited = {r1}
    Brief = {}
    Paths = {"thrown", "unwritten", "evicted", "destroyed"}
INVARIANTS
    AnnouncedOnce
    WaitersAnswered

    
    
\* Every run may have ended and nobody need dispatch another.
CHECK_DEADLOCK FALSE
