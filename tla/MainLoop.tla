------------------------------ MODULE MainLoop ------------------------------
(***************************************************************************)
(* The main thread of main.rs: start-up, and the loop that takes the       *)
(* current configuration, switches modes, repairs a configuration that     *)
(* does not match the mode, polls game.conf, restarts dead threads and     *)
(* hands the configuration to the binding engine.                          *)
(*                                                                         *)
(* The engine (eBPF or /proc scanning) is one step here: it rebuilds its   *)
(* rules from the loop's snapshot cfg when the loop found CONFIG_UPDATED.  *)
(***************************************************************************)
EXTENDS ConfigLoader, ModeDetector

VARIABLES
    mpc,            \* where the main thread is
    cfg,            \* the loop's snapshot of CURRENT_CONFIG
    configChanged,  \* the loop's config_changed
    mnew,           \* a configuration main has loaded and not yet installed
    mstat,          \* the mtime main's load_config has read for game.conf
    gameMtime,      \* game_mtime
    effectiveMode,  \* EFFECTIVE_MODE
    applied         \* the configuration the engine last rebuilt its rules from

mainVars == <<mpc, cfg, configChanged, mnew, mstat, gameMtime,
              effectiveMode, applied>>

MainPcs == {"boot", "swap", "snapshot", "mode", "target", "install", "publish",
            "heal", "heal_install", "heal_publish",
            "game", "game_read", "game_install", "game_publish",
            "restart", "engine"}

MainTypeOK ==
    /\ mpc \in MainPcs
    /\ cfg \in Configs \cup {NoConfig}
    /\ configChanged \in BOOLEAN
    /\ mnew \in Configs \cup {NoConfig}
    /\ mstat \in Nat \cup {Never}
    /\ gameMtime \in Nat \cup {Never}
    /\ effectiveMode \in Modes
    /\ applied \in Configs \cup {NoConfig}
    /\ mpc \notin {"boot", "swap", "snapshot"} => cfg # NoConfig
    /\ mpc = "game_read" => mstat # Never
    /\ mpc \in {"install", "publish", "heal_install", "heal_publish",
               "game_install", "game_publish"} => mnew # NoConfig

FileOf(mode) == IF mode = "game" THEN GameConf ELSE AppList
ModeOf(file) == IF file = GameConf THEN "game" ELSE "power"

Goto(pc) == mpc' = pc

------------------------------------------------------------------------------
\* init_inotify, the first load of game.conf, and the two threads.
StartUp ==
    /\ mpc = "boot"
    /\ \E works \in InotifyStart :
           inotifySupported' = (works /\ Present(AppList))
    /\ watch' = IF inotifySupported' THEN AppList ELSE NoFile
    /\ IF Readable(GameConf)
       THEN /\ gamePkgs' = disk[GameConf].ver
            /\ gameMtime' = RecordedMtime(gameMtime, disk[GameConf].mtime,
                                          disk[GameConf].ver)
       ELSE UNCHANGED <<gamePkgs, gameMtime>>
    /\ lpc' = "idle"
    /\ dpc' = "poll"
    /\ Goto("swap")
    /\ UNCHANGED <<disk, edits, clock, pending, handoffVars, lastMtime, lstat,
                   lcfg, deviceVars, currentMode, modeChanged, lastMode,
                   cfg, configChanged, mnew, mstat, effectiveMode, applied>>

\* The flag is taken before the configuration is read, so that a later
\* update raises it again.
SwapUpdated ==
    /\ mpc = "swap"
    /\ configChanged' = configUpdated
    /\ configUpdated' = FALSE
    /\ Goto("snapshot")
    /\ UNCHANGED <<currentConfig, gamePkgs, modeChanged, cfg, mnew, mstat,
                   gameMtime, effectiveMode, applied>>

\* Mutation: the flag is cleared again once the configuration is read.
TakeSnapshotThenClear ==
    /\ mpc = "snapshot"
    /\ cfg' = currentConfig
    /\ configUpdated' = FALSE
    /\ Goto("mode")
    /\ UNCHANGED <<currentConfig, gamePkgs, modeChanged, configChanged, mnew,
                   mstat, gameMtime, effectiveMode, applied>>

TakeSnapshot ==
    /\ mpc = "snapshot"
    /\ cfg' = currentConfig
    /\ Goto("mode")
    /\ UNCHANGED <<handoffVars, gamePkgs, modeChanged, configChanged, mnew,
                   mstat, gameMtime, effectiveMode, applied>>

------------------------------------------------------------------------------
(* Mode switch *)

SwapModeChanged ==
    /\ mpc = "mode"
    /\ modeChanged' = FALSE
    /\ Goto(IF modeChanged THEN "target" ELSE "heal")
    /\ UNCHANGED <<handoffVars, gamePkgs, cfg, configChanged, mnew, mstat,
                   gameMtime, effectiveMode, applied>>

TargetAlreadyEffective ==
    /\ mpc = "target"
    /\ currentMode = effectiveMode
    /\ Goto("heal")
    /\ UNCHANGED <<handoffVars, gamePkgs, modeChanged, cfg, configChanged, mnew,
                   mstat, gameMtime, effectiveMode, applied>>

\* Mutation: a target that cannot be loaded is installed as it is.
LoadTargetUnchecked ==
    /\ mpc = "target"
    /\ currentMode # effectiveMode
    /\ mnew' = ConfigOn(FileOf(currentMode))
    /\ Goto("install")
    /\ UNCHANGED <<handoffVars, gamePkgs, modeChanged, cfg, configChanged,
                   mstat, gameMtime, effectiveMode, applied>>

\* load_config with mtime -1: always read.
LoadTarget ==
    /\ mpc = "target"
    /\ currentMode # effectiveMode
    /\ Readable(FileOf(currentMode))
    /\ mnew' = ConfigOn(FileOf(currentMode))
    /\ Goto("install")
    /\ UNCHANGED <<handoffVars, gamePkgs, modeChanged, cfg, configChanged,
                   mstat, gameMtime, effectiveMode, applied>>

\* Mutation: a target that cannot be loaded is given up.
TargetUnreadableGivenUp ==
    /\ mpc = "target"
    /\ currentMode # effectiveMode
    /\ ~Readable(FileOf(currentMode))
    /\ Goto("heal")
    /\ UNCHANGED <<handoffVars, gamePkgs, modeChanged, cfg, configChanged, mnew,
                   mstat, gameMtime, effectiveMode, applied>>

\* The target cannot be loaded: keep it and try again next time round.
TargetUnreadable ==
    /\ mpc = "target"
    /\ currentMode # effectiveMode
    /\ ~Readable(FileOf(currentMode))
    /\ modeChanged' = TRUE
    /\ Goto("heal")
    /\ UNCHANGED <<handoffVars, gamePkgs, cfg, configChanged, mnew, mstat,
                   gameMtime, effectiveMode, applied>>

InstallTarget ==
    /\ mpc = "install"
    /\ gamePkgs' = IF mnew.file = GameConf THEN mnew.ver ELSE gamePkgs
    /\ currentConfig' = mnew
    /\ Goto("publish")
    /\ UNCHANGED <<configUpdated, modeChanged, cfg, configChanged, mnew, mstat,
                   gameMtime, effectiveMode, applied>>

\* Mutation: MODE_CHANGED is cleared when the switch is done.
PublishTargetThenClear ==
    /\ mpc = "publish"
    /\ configUpdated' = TRUE
    /\ effectiveMode' = ModeOf(mnew.file)
    /\ modeChanged' = FALSE
    /\ mnew' = NoConfig
    /\ Goto("heal")
    /\ UNCHANGED <<currentConfig, gamePkgs, cfg, configChanged,
                   mstat, gameMtime, applied>>

PublishTarget ==
    /\ mpc = "publish"
    /\ configUpdated' = TRUE
    /\ effectiveMode' = ModeOf(mnew.file)
    /\ mnew' = NoConfig
    /\ Goto("heal")
    /\ UNCHANGED <<currentConfig, gamePkgs, modeChanged, cfg, configChanged,
                   mstat, gameMtime, applied>>

------------------------------------------------------------------------------
(* Repair of a configuration whose file is not the effective mode's *)

Expected == FileOf(effectiveMode)

HealNothing ==
    /\ mpc = "heal"
    /\ currentConfig.file = Expected \/ ~Readable(Expected)
    /\ Goto("game")
    /\ UNCHANGED <<handoffVars, gamePkgs, modeChanged, cfg, configChanged, mnew,
                   mstat, gameMtime, effectiveMode, applied>>

\* Mutation: a configuration of the other mode is left alone.
HealLoadSkipped ==
    /\ mpc = "heal"
    /\ currentConfig.file # Expected
    /\ Goto("game")
    /\ UNCHANGED <<handoffVars, gamePkgs, modeChanged, cfg, configChanged, mnew,
                   mstat, gameMtime, effectiveMode, applied>>

HealLoad ==
    /\ mpc = "heal"
    /\ currentConfig.file # Expected
    /\ Readable(Expected)
    /\ mnew' = ConfigOn(Expected)
    /\ Goto("heal_install")
    /\ UNCHANGED <<handoffVars, gamePkgs, modeChanged, cfg, configChanged,
                   mstat, gameMtime, effectiveMode, applied>>

HealInstall ==
    /\ mpc = "heal_install"
    /\ currentConfig' = mnew
    /\ Goto("heal_publish")
    /\ UNCHANGED <<configUpdated, gamePkgs, modeChanged, cfg, configChanged,
                   mnew, mstat, gameMtime, effectiveMode, applied>>

HealPublish ==
    /\ mpc = "heal_publish"
    /\ configUpdated' = TRUE
    /\ mnew' = NoConfig
    /\ Goto("game")
    /\ UNCHANGED <<currentConfig, gamePkgs, modeChanged, cfg, configChanged,
                   mstat, gameMtime, effectiveMode, applied>>

------------------------------------------------------------------------------
(* Poll of game.conf *)

GameUnchanged == ~Present(GameConf) \/ Unchanged(gameMtime, disk[GameConf].mtime)

GamePollNothing ==
    /\ mpc = "game"
    /\ GameUnchanged
    /\ Goto("restart")
    /\ UNCHANGED <<handoffVars, gamePkgs, modeChanged, cfg, configChanged, mnew,
                   mstat, gameMtime, effectiveMode, applied>>

GamePollStat ==
    /\ mpc = "game"
    /\ ~GameUnchanged
    /\ mstat' = disk[GameConf].mtime
    /\ Goto("game_read")
    /\ UNCHANGED <<handoffVars, gamePkgs, modeChanged, cfg, configChanged, mnew,
                   gameMtime, effectiveMode, applied>>

\* Mutation: in power mode the package list is not replaced.
GamePollReadInGameOnly ==
    /\ mpc = "game_read"
    /\ Readable(GameConf)
    /\ gameMtime' = RecordedMtime(gameMtime, mstat, disk[GameConf].ver)
    /\ mstat' = Never
    /\ IF effectiveMode = "game"
       THEN /\ gamePkgs' = disk[GameConf].ver
            /\ mnew' = ConfigOn(GameConf) /\ Goto("game_install")
       ELSE UNCHANGED <<mnew, gamePkgs>> /\ Goto("restart")
    /\ UNCHANGED <<handoffVars, modeChanged, cfg, configChanged,
                   effectiveMode, applied>>

\* The package list is replaced in any mode, the configuration in game mode.
GamePollRead ==
    /\ mpc = "game_read"
    /\ Readable(GameConf)
    /\ gameMtime' = RecordedMtime(gameMtime, mstat, disk[GameConf].ver)
    /\ gamePkgs' = disk[GameConf].ver
    /\ mstat' = Never
    /\ IF effectiveMode = "game"
       THEN mnew' = ConfigOn(GameConf) /\ Goto("game_install")
       ELSE UNCHANGED mnew /\ Goto("restart")
    /\ UNCHANGED <<handoffVars, modeChanged, cfg, configChanged,
                   effectiveMode, applied>>

GamePollUnreadable ==
    /\ mpc = "game_read"
    /\ ~Readable(GameConf)
    /\ mstat' = Never
    /\ Goto("restart")
    /\ UNCHANGED <<handoffVars, gamePkgs, modeChanged, cfg, configChanged, mnew,
                   gameMtime, effectiveMode, applied>>

GameInstall ==
    /\ mpc = "game_install"
    /\ currentConfig' = mnew
    /\ Goto("game_publish")
    /\ UNCHANGED <<configUpdated, gamePkgs, modeChanged, cfg, configChanged,
                   mnew, mstat, gameMtime, effectiveMode, applied>>

\* Mutation: CONFIG_UPDATED is not raised after game.conf is installed.
GamePublishSilent ==
    /\ mpc = "game_publish"
    /\ mnew' = NoConfig
    /\ Goto("restart")
    /\ UNCHANGED <<handoffVars, gamePkgs, modeChanged, cfg, configChanged,
                   mstat, gameMtime, effectiveMode, applied>>

GamePublish ==
    /\ mpc = "game_publish"
    /\ configUpdated' = TRUE
    /\ mnew' = NoConfig
    /\ Goto("restart")
    /\ UNCHANGED <<currentConfig, gamePkgs, modeChanged, cfg, configChanged,
                   mstat, gameMtime, effectiveMode, applied>>

------------------------------------------------------------------------------
\* A finished thread is started again from its first line.
RestartThreads ==
    /\ mpc = "restart"
    /\ lpc' = IF lpc = "dead" THEN "idle" ELSE lpc
    /\ IF dpc = "dead"
       THEN dpc' = "poll" /\ lastMode' = "power"
       ELSE UNCHANGED detectorVars
    /\ Goto("engine")
    /\ UNCHANGED <<filesVars, handoffVars, inotifySupported, lastMtime, lstat,
                   lcfg, deviceVars, gamePkgs, currentMode, modeChanged, cfg,
                   configChanged, mnew, mstat, gameMtime, effectiveMode, applied>>

\* The engine's share of the loop; cfg and config_changed go out of scope.
RunEngine ==
    /\ mpc = "engine"
    /\ applied' = IF configChanged THEN cfg ELSE applied
    /\ cfg' = NoConfig
    /\ configChanged' = FALSE
    /\ Goto("swap")
    /\ UNCHANGED <<handoffVars, gamePkgs, modeChanged, mnew, mstat, gameMtime,
                   effectiveMode>>

\* The steps that touch only main's own state and what it shares.
MainLoopStep ==
    \/ SwapUpdated \/ TakeSnapshot
    \/ SwapModeChanged \/ TargetAlreadyEffective \/ LoadTarget \/ TargetUnreadable
    \/ InstallTarget \/ PublishTarget
    \/ HealNothing \/ HealLoad \/ HealInstall \/ HealPublish
    \/ GamePollNothing \/ GamePollStat \/ GamePollRead \/ GamePollUnreadable
    \/ GameInstall \/ GamePublish
    \/ RunEngine

MainInit ==
    /\ mpc = "boot"
    /\ cfg = NoConfig
    /\ configChanged = FALSE
    /\ mnew = NoConfig
    /\ mstat = Never
    /\ gameMtime = Never
    /\ gamePkgs = NoList
    /\ effectiveMode = "power"
    /\ applied = NoConfig
=============================================================================
