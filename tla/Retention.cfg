SPECIFICATION RetentionSpec
CONSTANTS
    Assets = {a1}
    Marks = {m1, m2}
    NoMark = NoMark
    BadKinds = {"original"}
    Jobs = {j1}
    MaxGeneration = 2
    MaxConfirming = 1
    MaxChecking = 2
    MaxStops = 1
CHECK_DEADLOCK FALSE
PROPERTIES
    KeptUntilDue
    RowsOutliveObjects
    OnlyLatecomersStay
    QuarantineEnds
