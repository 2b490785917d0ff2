SPECIFICATION Spec
CONSTANTS
    NumFamilies = 2
    GridSize = 2
    MaxGenerations = 3
    TrialsPerGeneration = 2
    MaxTotalTrials = 3
    MaxFamilyTrials = 2
    None = None
    MaxCommands = 4
    MaxChanges = 1
    DeletedTogether <- MCDeletedTogether
INVARIANTS
    EveryTrialAccounted
    BudgetHolds
    PromotedEvidenceCurrent
    ReleaseIsWhole
PROPERTIES
    OnlyApprovedGenerations
CHECK_DEADLOCK FALSE
