SPECIFICATION Spec
CONSTANTS
    MaxEdits = 1
    SameSecond = FALSE
    SaveKinds = {"write", "rename"}
    EditedFiles <- MCFiles
    Flawed = {}
    Corrupt = {}
    GameConfAtStart = {TRUE}
    InotifyStart = {TRUE}
    Faults = {}
    Overrides = {"missing"}
    Adjs <- MCAdjs
    Listing = {0, 1}
    DetectorFaults = {}
    StartupSaves = FALSE
PROPERTIES RulesMatchMode ModeFollowsForeground GameListRefreshed ImplementsHandoff
CHECK_DEADLOCK TRUE
