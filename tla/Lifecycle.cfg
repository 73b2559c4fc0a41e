SPECIFICATION Spec
CONSTANTS
    a1 = a1
    a2 = a2
    d1 = d1
    NumMembers = 1
    Attempts <- TwoAttempts
    Monitors <- OneMonitor
    ReviewFirstN = 0
    MinSampleSize = 1
    MaxFpNum = 3
    MaxFpDen = 10
    MaxVersions = 3
    MaxLabels = 1
SYMMETRY AttemptSymmetry
INVARIANTS ChampionNotAheadOfGate DecidedOnce
PROPERTIES AliasMovesAccounted ImplementsContract
