SPECIFICATION Spec
CONSTANTS
    MaxGeneration = 2
    InternalControls = FALSE
    AdminForms = FALSE
    AdminMoves = FALSE
    BadPuts = TRUE
    CleanupFails = TRUE
    a1 = a1
    a2 = a2
    a3 = a3
    a4 = a4
    b1 = b1
    b2 = b2
    b3 = b3
    i1 = i1
    Assets <- LoneAssets
    Batches = {b1}
    SubEvents = {s1}
    Installations = {i1}
    Derivatives = {preview}
    BatchOf <- LoneBatchOf
    InstallationOf <- OneStation
    AssetLimit = 1
    DeviceLimit = 1
    Requests = {r1, r2}
    Delivered = {}
SYMMETRY AlikeRequests
CHECK_DEADLOCK FALSE
INVARIANTS
    PublishedServesItsManifest
