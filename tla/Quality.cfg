SPECIFICATION Spec
CONSTANTS
    main = main
    plug = plug
    blank = blank
    None = None
    Meters <- TwoMeters
    BlankMeters <- OneBlank
    TypeOf <- TypeOfMeter
    RawRows <- SentRows
    MaxKwh <- Bounds
    MaxGapHours = 1
    RatioNum = 1
    RatioDen = 10
    OutlierWindow = 3
    ZNum = 1
    ZDen = 1
    StuckWindow <- Windows
    StuckHours <- Hours
    MaxSilence = 4
    MaxRows = 3
    MaxBatches = 2
INVARIANTS TypeOK StatusWarranted EnergyConserved AnnouncedIsAnalysable
PROPERTY ReplayHarmless
