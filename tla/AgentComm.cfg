SPECIFICATION Spec
CONSTANTS
  Agents = {a, b, c}
  None = None
  MaxSends = 3
  MaxTurns = 2
  MaxDepth = 2
  TokenBudget = 1
  RateLimit = 2
  Unwritten = TRUE
SYMMETRY Symmetry
INVARIANTS
  OneWakePerChannel
  OnlyRepliesBlock
PROPERTIES
  AcceptedWithinLimits
CHECK_DEADLOCK FALSE
