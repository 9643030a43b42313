SPECIFICATION MCSpec
CONSTANTS
    h1 = h1
    h2 = h2
    Absent = Absent
    NibbleBase = 2
    FrequencyClass <- Classes
    MaxPatternBytes = 4
    MaxPatternJumps = 2
    MaxJumpSpan = 2
    PositionBudget = 5
    RegionBudget = 12
    NarrowBlock = 2
    WideBlock = 3
    Scenarios <- ScanCases
INVARIANTS ParsesTheLanguage FindsTheLeftmost SeamsAreInvisible BatchIsSerial
           AnchorsAreHonest
CHECK_DEADLOCK FALSE
