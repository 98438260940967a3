SPECIFICATION MCSpec
CONSTANTS
    MaxRuns = 4
    MaxDepth = 3
    MaxConcurrent = 1
    MaxFaults = 1
CONSTRAINTS SmallOrFamilies
INVARIANTS
    LedgerMatchesTurns
    ConversationsAreSound
    FollowUpNotMissed
PROPERTIES
    EndsAreFinal
