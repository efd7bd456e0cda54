SPECIFICATION Spec
CONSTANTS
    MaxEdits = 3
    SameSecond = TRUE
    SaveKinds = {"write", "rename"}
    EditedFiles <- MCAppList
    Flawed = {3}
    Corrupt = {1}
    GameConfAtStart = {FALSE}
    InotifyStart = {TRUE}
    Faults = {}
    Overrides = {"missing"}
    Adjs <- MCNoGame
    Listing = {}
    DetectorFaults = {}
    StartupSaves = FALSE
INVARIANTS NoSaveUnnoticed WatchNotLost
PROPERTIES SavedConfigTakesEffect
CHECK_DEADLOCK TRUE
