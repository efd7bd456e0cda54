SPECIFICATION Spec
CONSTANTS
    MaxEdits = 3
    SameSecond = FALSE
    SaveKinds = {"write", "rename", "remove"}
    EditedFiles <- MCAppList
    Flawed = {}
    Corrupt = {2}
    GameConfAtStart = {FALSE}
    InotifyStart <- Both
    Faults = {"inotify", "poll panic"}
    Overrides = {"missing"}
    Adjs <- MCNoGame
    Listing = {}
    DetectorFaults = {}
    StartupSaves = FALSE
INVARIANT WatchNotLost
PROPERTIES SavedConfigTakesEffect ReloadsComeToRest
CHECK_DEADLOCK TRUE
