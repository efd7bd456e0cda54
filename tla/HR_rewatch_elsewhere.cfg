SPECIFICATION Spec
CONSTANTS
    MaxEdits = 2
    SameSecond = FALSE
    SaveKinds = {"rename"}
    EditedFiles <- MCAppList
    Flawed = {}
    Corrupt = {}
    GameConfAtStart = {TRUE}
    InotifyStart = {TRUE}
    Faults = {}
    Overrides = {"power", "game"}
    Adjs <- MCNoGame
    Listing = {}
    DetectorFaults = {}
    StartupSaves = FALSE
PROPERTIES SavedConfigTakesEffect
CHECK_DEADLOCK TRUE
