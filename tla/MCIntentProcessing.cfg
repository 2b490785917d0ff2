SPECIFICATION IntentSpec
CONSTANTS
    Contracts = {c1, c2}
    Quantities <- MCQuantities
    MaxIntents = 4
INVARIANTS
    TargetReached
    DivergesOnlyByReuse
