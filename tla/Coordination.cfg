SPECIFICATION Spec
CONSTANTS
    lead = lead
    specialist = specialist
    Tasks <- TwoTasks
    Agents <- OneAgent
    AgentOf <- TwoOfOne
    DependsOn <- Independent
    MaxConcurrent = 2
    Reported <- Corrections
    Late = TRUE
    Faults = TRUE
    MaxRuns = 3
    MaxPasses = 2
INVARIANTS
    StopLeavesAtMostOne
PROPERTIES
    FinalOutcomeStays
\* A workflow may end, and everybody is silent.
CHECK_DEADLOCK FALSE
