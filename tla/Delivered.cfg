SPECIFICATION DeliveredSpec
CONSTANTS
    MaxGeneration = 2
    InternalControls = TRUE
    AdminForms = FALSE
    AdminMoves = TRUE
    BadPuts = FALSE
    CleanupFails = FALSE
    a1 = a1
    a2 = a2
    a3 = a3
    a4 = a4
    b1 = b1
    b2 = b2
    b3 = b3
    i1 = i1
    Assets <- SoloAssets
    Batches = {b1, b2}
    SubEvents = {s1,s2}
    Installations = {i1}
    Derivatives = {}
    BatchOf <- SoloBatchOf
    InstallationOf <- OneStation
    AssetLimit = 2
    DeviceLimit = 1
    Requests = {r1}
    Delivered = {b1, b2}
CHECK_DEADLOCK FALSE
INVARIANTS
    CommittedIsCurrent
PROPERTIES
    ManifestsAreImmutable
