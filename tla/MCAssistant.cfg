CONSTANTS
    Null = Null
    Opaque = Opaque
    Refusal = Refusal
    Malformed = Malformed
    AllowedTables <- MCTables
    BlockedFunctions = {"pg_sleep"}
    MaxRows = 2
    MaxPlanCost = 5
    LastDay = 2
    MaxRetries = 1
    Questions <- MCQuestions
    Question <- MCQuestion
    Case <- MCCase
    Settings <- MCSettings
    MaxSessions = 3
    MaxCrashes = 2
SPECIFICATION Spec
INVARIANTS TypeOK OnlyGuardedExecutes CappedIsFlagged TraceNamesFailure SpentIsCharged OverdraftBounded TornLineCostsItsCases VerdictsFaithful DataVerdictsExact
PROPERTIES KeepsContract QuestionEnds
CHECK_DEADLOCK FALSE
