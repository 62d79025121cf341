SPECIFICATION PatientSpec
CONSTANTS
    Files = {f1, f2}
    Photos = {"red", "blue"}
    Selections = {folder, single}
    Folders = {folder}
    f1 = f1
    f2 = f2
    folder = folder
    single = single
    Under <- FolderAndFile
    MaxChanges = 1
    MaxMishaps = 1
CHECK_DEADLOCK FALSE
INVARIANTS
    AcceptedIsTrue
    ApprovedIsClean
PROPERTIES
    FrozenStays
    ReservedIsLocal
    ReservedInTheEnd
