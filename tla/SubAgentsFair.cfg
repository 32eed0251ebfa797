SPECIFICATION FairSpec
CONSTANTS
  Children = {c1, c2}
  Parents = {p1}
  None = None
  MaxYields = 1
  Faults = {"aborted", "deleted", "destroyed"}
PROPERTIES
  AbortedChildrenEnd
  
\* Every child may have ended and nobody need spawn another; a crash stops everything.
CHECK_DEADLOCK FALSE
