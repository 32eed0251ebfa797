SPECIFICATION Spec
CONSTANTS
  Children = {c1, c2}
  Parents = {p1}
  None = None
  MaxYields = 2
  Faults = {"unpersisted", "claimed", "thrown", "rejected", "aborted", "orphaned", "destroyed"}
SYMMETRY Symmetry
INVARIANTS
  PendingYieldHasRunningChild
  TimersOwnTheirYield
  ResumesTellTheTruth
  RunningChildStoppable
PROPERTY
  FinalStatusStays
\* Every child may have ended and nobody need spawn another; a crash stops everything.
CHECK_DEADLOCK FALSE
