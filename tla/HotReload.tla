----------------------------- MODULE HotReload ------------------------------
(***************************************************************************)
(* Configuration hot reload and mode switching: the user and the device,   *)
(* the ConfigLoader thread, the ModeDetect thread and the main loop, all   *)
(* interleaved.  What is promised to the user: a saved rule file of the    *)
(* current mode takes effect, the mode follows the foreground game or the  *)
(* manual lock, and no hand-off between the threads is lost.               *)
(***************************************************************************)
EXTENDS MainLoop

CONSTANT
    StartupSaves   \* TRUE if the user may save while the daemon starts up

ASSUME StartupAssumption == StartupSaves \in BOOLEAN

modeVars == <<deviceVars, gamePkgs, currentMode, modeChanged, detectorVars>>
vars == <<filesVars, handoffVars, loaderVars, modeVars, mainVars>>

User     == /\ UserSaves
            /\ mpc = "boot" => StartupSaves
            /\ UNCHANGED <<handoffVars, loaderVars, modeVars, mainVars>>
Device   == /\ DeviceChanges
            /\ UNCHANGED <<filesVars, handoffVars, loaderVars, mainVars>>
Loader   == LoaderStep /\ UNCHANGED <<modeVars, mainVars>>
Detector == DetectorStep
            /\ UNCHANGED <<filesVars, handoffVars, loaderVars, mainVars>>
Main     == \/ StartUp
            \/ /\ MainLoopStep
               /\ UNCHANGED <<filesVars, loaderVars, deviceVars, currentMode,
                              detectorVars>>
            \/ RestartThreads
Fault    == \/ LoaderFault /\ UNCHANGED <<modeVars, mainVars>>
            \/ DetectorPanics
               /\ UNCHANGED <<filesVars, handoffVars, loaderVars, mainVars>>

Init == FilesInit /\ LoaderInit /\ DetectorInit /\ MainInit
Next == User \/ Device \/ Loader \/ Detector \/ Main \/ Fault

\* Each thread keeps running as long as it lives: its sleeps, poll(2) and
\* recv_timeout are all bounded.  Nobody owes a save, a change of the
\* foreground or a fault.
Fairness == WF_vars(Loader) /\ WF_vars(Detector) /\ WF_vars(Main)

Spec == Init /\ [][Next]_vars /\ Fairness

TypeOK ==
    /\ FilesTypeOK
    /\ LoaderTypeOK
    /\ DetectorTypeOK
    /\ MainTypeOK

------------------------------------------------------------------------------
(* Hand-offs *)

\* A thread has stored a configuration and is about to raise the flag.
FlagPending == lpc = "flag" \/ mpc \in {"publish", "heal_publish", "game_publish"}

\* The loop has passed its snapshot and has not run the engine yet.
Carrying == mpc \notin {"boot", "swap", "snapshot"}

(* No configuration handed over is lost.  CURRENT_CONFIG is what the engine *)
(* last rebuilt its rules from, or CONFIG_UPDATED is up or about to be, or  *)
(* this very round of the loop took the flag and holds that configuration   *)
(* (main.rs swaps the flag before it reads the configuration; loader and    *)
(* main store the configuration before they raise it).                      *)
NoLostUpdate ==
    \/ applied = currentConfig
    \/ configUpdated
    \/ FlagPending
    \/ configChanged /\ mpc = "snapshot"
    \/ configChanged /\ Carrying /\ cfg = currentConfig

(* No mode change is lost.  As long as CURRENT_MODE is not EFFECTIVE_MODE,  *)
(* MODE_CHANGED is up or about to be, or main is acting on it right now     *)
(* (main.rs puts the flag back when the target file cannot be loaded).      *)
ModeNotLost ==
    currentMode # effectiveMode =>
        \/ modeChanged
        \/ dpc = "flag"
        \/ mpc = "target"
        \/ mpc \in {"install", "publish"} /\ currentMode = ModeOf(mnew.file)

(* While inotify is in use there is a live watch, or the event that says it *)
(* died is still to be read, or it is being renewed: config.rs never leaves *)
(* the loader waiting for events nothing can send.                          *)
WatchNotLost ==
    inotifySupported =>
        watch # NoFile \/ "delete_self" \in pending \/ lpc = "rewatch"

(* As long as only applist.conf is in use, no save goes unnoticed: when it  *)
(* differs from CURRENT_CONFIG there is an event to read, or the loader is  *)
(* on its way to a read, or it holds the content of the file.               *)
NoSaveUnnoticed ==
    inotifySupported /\ lpc # "dead" /\ Readable(AppList)
    /\ currentConfig # ConfigOn(AppList)
    => \/ pending # {}
       \/ lpc \in {"rewatch", "reload", "read"}
       \/ lpc = "store" /\ lcfg = ConfigOn(AppList)

\* Why the two hold: a snapshot that is out of date has its flag up, and a
\* target that is out of date has MODE_CHANGED up, or about to be.
StaleSnapshotFlagged ==
    Carrying /\ cfg # currentConfig => configUpdated \/ FlagPending

StaleTargetFlagged ==
    mpc \in {"install", "publish"} /\ currentMode # ModeOf(mnew.file)
        => modeChanged \/ dpc = "flag"

HandoffInv == /\ NoLostUpdate
              /\ StaleSnapshotFlagged
              /\ mpc = "boot" => lpc = "unborn"
ModeInv    == /\ ModeNotLost
              /\ StaleTargetFlagged
              /\ mpc = "boot" => dpc = "unborn"

\* The hand-off as an abstract box: the flag is up as long as some thread
\* owes the loop a look, and the loop holds what its snapshot took.
Outstanding == configUpdated \/ FlagPending \/ (mpc = "snapshot" /\ configChanged)
Held        == IF configChanged /\ Carrying THEN cfg ELSE NoConfig

Handoff == INSTANCE ConfigHandoff
               WITH box <- currentConfig, fresh <- Outstanding, held <- Held

(* CURRENT_CONFIG and CONFIG_UPDATED, as loader and main use them, are the  *)
(* box of ConfigHandoff: the last configuration stored is taken and used,   *)
(* and taking it and using it always happen in the end.                     *)
ImplementsHandoff == Handoff!Spec

\* The daemon as most devices run it: no game is ever in the foreground, game
\* mode is never forced, and the loader does not panic.
PowerOnly ==
    /\ \A content \in Overrides : ParseOverride(content) # "game"
    /\ Listing = {}
    /\ Faults \subseteq {"inotify"}
    /\ ~StartupSaves

\* Why no save goes unnoticed then: main never stores a configuration, the
\* watch and the loader stay with applist.conf, an event makes the loader read
\* whatever the mtime, and a configuration that is out of date before it is
\* stored has an event waiting.
SaveInv ==
    /\ lastMode = "power" /\ currentMode = "power" /\ effectiveMode = "power"
    /\ mpc \notin {"install", "publish", "heal_install", "heal_publish",
                   "game_install", "game_publish"}
    /\ currentConfig.file = AppList
    /\ watch \in {AppList, NoFile}
    /\ lpc # "dead"
    /\ lpc \in {"read", "store"} => lcfg.file = AppList
    /\ lpc \in {"rewatch", "reload"} => lastMtime = Never
    /\ mpc = "boot" => /\ lpc = "unborn" /\ ~inotifySupported
                      /\ currentConfig = ConfigOn(AppList)
    /\ inotifySupported /\ Readable(AppList) /\ lpc = "store"
       /\ lcfg # ConfigOn(AppList) => pending # {}
    /\ WatchNotLost
    /\ NoSaveUnnoticed

------------------------------------------------------------------------------
(* What the user is promised *)

PanicsStop == <>[][lpc # "dead" => lpc' # "dead"]_vars

(* A saved rule file takes effect: when a mode stays effective and its file *)
(* stays readable, and the loader stops panicking, the engine ends up with  *)
(* what the file holds (MaxEdits bounds the saves, so the file stops        *)
(* changing).                                                               *)
SavedConfigTakesEffect ==
    \A f \in Files :
        PanicsStop /\ <>[](effectiveMode = ModeOf(f) /\ Readable(f))
            => <>[](applied = ConfigOn(f))

(* The engine's rules are those of the effective mode's file, whatever      *)
(* stale configuration a late store of the loader left behind.              *)
RulesMatchMode ==
    \A m \in Modes :
        <>[](effectiveMode = m /\ Readable(FileOf(m)))
            => <>[](applied.file = FileOf(m))

\* The mode the override file and the foreground ask for, judged by the
\* package list game.conf holds.
Wanted == DecideMode(ParseOverride(overrideFile),
                     Readable(GameConf) /\ GameForeground(disk[GameConf].ver))

(* The mode follows the foreground and the manual lock: a mode that stays   *)
(* wanted while its file can be loaded becomes effective for good.          *)
ModeFollowsForeground ==
    \A m \in Modes :
        <>[](Wanted = m /\ Readable(FileOf(m)) /\ Readable(GameConf))
            => <>[](effectiveMode = m)

(* The detector's package list follows game.conf in every mode.             *)
GameListRefreshed ==
    <>[]Readable(GameConf) => <>[](gamePkgs = disk[GameConf].ver)

(* A rule file nobody changes is not loaded again and again: once the mode  *)
(* has settled, the flag comes to rest (load_config returns None for an     *)
(* unchanged file).                                                         *)
ReloadsComeToRest ==
    \A m \in Modes :
        <>[](effectiveMode = m /\ Readable(FileOf(m))) => <>[](~configUpdated)
=============================================================================
