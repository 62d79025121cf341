SPECIFICATION TransferSpec
CONSTANTS
    MaxGeneration = 2
    InternalControls = FALSE
    AdminForms = FALSE
    AdminMoves = FALSE
    BadPuts = FALSE
    CleanupFails = FALSE
    a1 = a1
    a2 = a2
    a3 = a3
    a4 = a4
    b1 = b1
    b2 = b2
    b3 = b3
    i1 = i1
    Assets <- QuadAssets
    Batches = {b1, b2, b3}
    SubEvents = {s1}
    Installations = {i1}
    Derivatives = {}
    BatchOf <- QuadBatchOf
    InstallationOf <- OneStation
    AssetLimit = 3
    DeviceLimit = 1
    Requests = {r1}
    Delivered = {}
CHECK_DEADLOCK FALSE
INVARIANTS
    TypeOK
    LedgerIsExact
    BatchFollowsItsOriginals
    VerifiedIsStored
    ExcludedIsGone
    ManifestPhotosAreKept
    PublishedServesItsManifest
PROPERTIES
    ExcludedIsFinal
    VerifiedIsGivenUpOnlyByPublication
    ImplementsArchive
