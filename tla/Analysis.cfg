SPECIFICATION Spec
CONSTANTS
    none = none
    None = none
    Circuits <- TwoCircuits
    CircuitType <- TypeOf
    Slots <- ThreeSlots
    Declared <- Building
    MinHistory = 2
    RollingHours = 24
    WindowLength = 2
    MaxFlagged = 1
    MinLabels = 2
    MaxLabelSet = 3
    Probability = 95
    WindowDays = 30
    InitialData <- Initially
    Arrivals <- Corrected
    MaxRuns = 2
    MaxStrays = 1
    MaxTrainings = 2
    MaxCrashes = 1
    MaxLabels = 2
    MaxReports = 1
    MaxEvents = 4
INVARIANTS TypeOK FiresMatchReadings LowQualityNeverAccused ExplainerNeverOlder NarrowBandsEarned ReportsRaiseOnlyMidRun ReportsJustified
PROPERTIES OnlyRivalsRewrite RunsEnd
CHECK_DEADLOCK FALSE
