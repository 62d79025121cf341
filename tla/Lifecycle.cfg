SPECIFICATION LifecycleSpec
CONSTANTS
    MaxGeneration = 2
    AdminForms = TRUE
    InternalControls = TRUE
CHECK_DEADLOCK FALSE
INVARIANTS
    PublishedHasSnapshot
    ReadinessIsCurrent
