SPECIFICATION Spec
\* Three runs: a run's position changes under it only when two are queued behind an active one.
\* The third only stands in the queue and ends at its start.
CONSTANTS
    Runs = {r1, r2, r3}
    Sessions = {s1, s2}
    None = None
    PerRunTools = TRUE
    Waited = {}
    Brief = {r3}
    Paths = {"blocked", "unopened", "guarded", "claimed", "thrown", "unwritten", "compacted"}
SYMMETRY Symmetry
INVARIANTS
    
    LaneNeverForgotten
    ShownPositionsCurrent
\* Every run may have ended and nobody need dispatch another.
CHECK_DEADLOCK FALSE
