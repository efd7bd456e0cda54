SPECIFICATION Spec
CONSTANTS
    MaxEdits = 1
    SameSecond = TRUE
    SaveKinds = {"write", "rename", "remove"}
    EditedFiles <- MCFiles
    Flawed = {1}
    Corrupt = {}
    GameConfAtStart = {TRUE}
    InotifyStart = {TRUE}
    Faults = {"inotify", "panic"}
    Overrides = {"missing"}
    Adjs <- MCAdjs
    Listing = {0, 1}
    DetectorFaults = {"panic"}
    StartupSaves = TRUE
INVARIANTS TypeOK NoLostUpdate ModeNotLost
CHECK_DEADLOCK TRUE
