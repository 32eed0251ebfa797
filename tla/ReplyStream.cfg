SPECIFICATION Spec
CONSTANTS
    ShowReasoning = TRUE
    MaxMessages = 3
    MaxBlocks = 3
    MaxTokens = 4
    Wholes <- WholesV
INVARIANTS
    
    SilenceKept
\* A run ends.
CHECK_DEADLOCK FALSE
