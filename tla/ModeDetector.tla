---------------------------- MODULE ModeDetector ----------------------------
(***************************************************************************)
(* The ModeDetect thread (spawn_mode_detector in main.rs with mode.rs and  *)
(* foreground.rs): every interval it combines the manual override file and *)
(* the foreground state of the listed games into a target mode, and        *)
(* announces a change through CURRENT_MODE and MODE_CHANGED.               *)
(***************************************************************************)
EXTENDS Integers

CONSTANTS
    Overrides,     \* contents the mode file takes; "missing" if there is none
    Adjs,          \* oom_score_adj values of the game's process
    Listing,       \* versions of game.conf that list the game's package
    DetectorFaults \* "panic": println! in the detector panics

NotRunning == 1001   \* above every oom_score_adj: the game has no process
NoList     == -1     \* GAME_PKGS is None

ASSUME DetectorAssumption ==
    /\ Adjs \subseteq Int
    /\ Listing \subseteq Nat
    /\ DetectorFaults \subseteq {"panic"}

VARIABLES
    overrideFile,  \* contents of the mode file
    gameAdj,       \* oom_score_adj of the game's process
    gamePkgs,      \* GAME_PKGS: the version of game.conf it was taken from
    currentMode,   \* CURRENT_MODE
    modeChanged,   \* MODE_CHANGED
    dpc,           \* where the detector thread is
    lastMode       \* its local last_mode

deviceVars   == <<overrideFile, gameAdj>>
detectorVars == <<dpc, lastMode>>

Modes == {"power", "game"}

DetectorTypeOK ==
    /\ overrideFile \in Overrides
    /\ gameAdj \in Adjs
    /\ gamePkgs \in Nat \cup {NoList}
    /\ currentMode \in Modes
    /\ modeChanged \in BOOLEAN
    /\ dpc \in {"unborn", "poll", "write", "flag", "dead"}
    /\ lastMode \in Modes

------------------------------------------------------------------------------
\* parse_override: the words it knows (case and blanks are already dropped).
ParseOverride(content) ==
    CASE content \in {"", "auto"}                        -> "auto"
      [] content \in {"power", "battery", "eco"}         -> "power"
      [] content \in {"game", "performance", "gaming"}   -> "game"
      [] OTHER                                           -> "none"

\* decide_mode: a manual lock wins, everything else follows the foreground.
DecideMode(override, gameForeground) ==
    IF override \in Modes THEN override
    ELSE IF gameForeground THEN "game" ELSE "power"

ForegroundAdjMax == 100

\* game_foreground: a listed game has a process at or below the threshold.
GameForeground(pkgs) ==
    /\ pkgs \in Listing
    /\ gameAdj # NotRunning
    /\ gameAdj <= ForegroundAdjMax

Target == DecideMode(ParseOverride(overrideFile), GameForeground(gamePkgs))

------------------------------------------------------------------------------
\* One poll that finds a new target; a poll that does not changes nothing.
DetectChange ==
    /\ dpc = "poll"
    /\ Target # lastMode
    /\ lastMode' = Target
    /\ dpc' = "write"
    /\ UNCHANGED <<deviceVars, gamePkgs, currentMode, modeChanged>>

\* The mode first ...
WriteMode ==
    /\ dpc = "write"
    /\ currentMode' = lastMode
    /\ dpc' = "flag"
    /\ UNCHANGED <<deviceVars, gamePkgs, modeChanged, lastMode>>

\* ... then the flag, then the log line.
RaiseModeChanged ==
    /\ dpc = "flag"
    /\ modeChanged' = TRUE
    /\ dpc' = "poll"
    /\ UNCHANGED <<deviceVars, gamePkgs, currentMode, lastMode>>

\* The log line panics.
DetectorPanics ==
    /\ "panic" \in DetectorFaults
    /\ dpc = "flag"
    /\ modeChanged' = TRUE
    /\ dpc' = "dead"
    /\ UNCHANGED <<deviceVars, gamePkgs, currentMode, lastMode>>

DetectorStep == DetectChange \/ WriteMode \/ RaiseModeChanged

\* The user and the system: the mode file is rewritten, the game moves
\* between foreground and background, starts or exits.
DeviceChanges ==
    /\ \/ overrideFile' \in Overrides /\ UNCHANGED gameAdj
       \/ gameAdj' \in Adjs /\ UNCHANGED overrideFile
    /\ UNCHANGED <<gamePkgs, currentMode, modeChanged, detectorVars>>

DetectorInit ==
    /\ overrideFile \in Overrides
    /\ gameAdj \in Adjs
    /\ currentMode = "power"
    /\ modeChanged = FALSE
    /\ dpc = "unborn"
    /\ lastMode = "power"
=============================================================================
