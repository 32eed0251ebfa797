SPECIFICATION FairSpec
CONSTANTS
    lead = lead
    specialist = specialist
    Tasks <- ThreeTasks
    Agents <- McAgents
    AgentOf <- TwoAndOne
    DependsOn <- LastWaits
    MaxConcurrent = 1
    Reported <- NotPending
    Late = FALSE
    Faults = FALSE
    MaxRuns = 3
    MaxPasses = 2
INVARIANTS
    OneRunPerTask
    

    
\* A workflow may end, and everybody is silent.
CHECK_DEADLOCK FALSE
