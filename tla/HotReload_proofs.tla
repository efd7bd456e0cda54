-------------------------- MODULE HotReload_proofs --------------------------
(***************************************************************************)
(* Theorems about HotReload, for any number of saves, any set of           *)
(* overrides, foreground values, flawed or unreadable versions, and with   *)
(* every fault allowed.                                                    *)
(***************************************************************************)
EXTENDS HotReload, TLAPS

------------------------------------------------------------------------------
(* Types *)

\* What a present file holds is a configuration.
LEMMA ConfigOnType ==
    ASSUME FilesTypeOK, NEW f \in Files, Present(f)
    PROVE  /\ ConfigOn(f) \in Configs
           /\ disk[f].mtime \in Nat
           /\ disk[f].ver \in Nat
BY DEF FilesTypeOK, Present, ConfigOn, Configs, Absent

LEMMA NoConfigType == NoConfig \notin Configs
BY DEF NoConfig, Configs

LEMMA TypeInit == Init => TypeOK
<1> SUFFICES ASSUME Init PROVE TypeOK
    OBVIOUS
<1>1. disk \in [Files -> [ver : Nat, mtime : Nat] \cup {Absent}]
    BY DEF Init, FilesInit
<1>2. currentConfig \in Configs
    BY DEF Init, FilesInit, LoaderInit, ConfigOn, Configs, Files
<1>3. FilesTypeOK
    BY <1>1 DEF Init, FilesInit, FilesTypeOK, LoaderInit
<1>4. LoaderTypeOK
    BY <1>2 DEF Init, LoaderInit, LoaderTypeOK, LoaderPcs
<1>5. DetectorTypeOK
    BY DEF Init, DetectorInit, DetectorTypeOK, Modes, MainInit
<1>6. MainTypeOK
    BY DEF Init, MainInit, MainTypeOK, MainPcs, Modes
<1> QED BY <1>3, <1>4, <1>5, <1>6 DEF TypeOK

LEMMA InodeGoneType ==
    ASSUME FilesTypeOK, NEW f \in Files, InodeGone(f)
    PROVE  /\ watch' \in Files \cup {NoFile}
           /\ pending' \subseteq {"close_write", "delete_self"}
<1>1. CASE watch = f
    BY <1>1 DEF InodeGone, FilesTypeOK
<1>2. CASE watch # f
    BY <1>2 DEF InodeGone, FilesTypeOK
<1> QED BY <1>1, <1>2

LEMMA TypeUser == TypeOK /\ User => TypeOK'
<1> SUFFICES ASSUME TypeOK, User PROVE TypeOK'
    OBVIOUS
<1> USE DEF FilesTypeOK
<1>1. FilesTypeOK'
    <2>0. TypeOK /\ FilesTypeOK
        BY DEF TypeOK
    <2>1. PICK f \in Files :
              \/ \E now \in SaveTime : SaveInPlace(f, now) \/ SaveByRename(f, now)
              \/ RemoveFile(f)
        BY DEF User, UserSaves
    <2>2. SaveTime \subseteq Nat
        BY DEF TypeOK, SaveTime
    <2>3. ASSUME NEW now \in SaveTime, SaveInPlace(f, now) PROVE FilesTypeOK'
        BY <2>2, <2>3 DEF TypeOK, SaveInPlace, Edit, NewContent
    <2>4. ASSUME NEW now \in SaveTime, SaveByRename(f, now) PROVE FilesTypeOK'
        <3>1. edits' \in Nat /\ clock' \in Nat
              /\ disk' \in [Files -> [ver : Nat, mtime : Nat] \cup {Absent}]
            BY <2>0, <2>2, <2>4 DEF SaveByRename, Edit, NewContent
        <3>2. watch' \in Files \cup {NoFile}
              /\ pending' \subseteq {"close_write", "delete_self"}
            BY <2>0, <2>4, InodeGoneType DEF SaveByRename
        <3> QED BY <3>1, <3>2
    <2>5. CASE RemoveFile(f)
        <3>1. edits' \in Nat /\ clock' \in Nat
              /\ disk' \in [Files -> [ver : Nat, mtime : Nat] \cup {Absent}]
            BY <2>0, <2>5 DEF RemoveFile, Edit
        <3>2. watch' \in Files \cup {NoFile}
              /\ pending' \subseteq {"close_write", "delete_self"}
            BY <2>0, <2>5, InodeGoneType DEF RemoveFile
        <3> QED BY <3>1, <3>2
    <2> QED BY <2>1, <2>3, <2>4, <2>5
<1>2. LoaderTypeOK' /\ DetectorTypeOK' /\ MainTypeOK'
    BY DEF User, TypeOK, LoaderTypeOK, DetectorTypeOK, MainTypeOK, handoffVars,
           loaderVars, modeVars, mainVars, deviceVars, detectorVars
<1> QED BY <1>1, <1>2 DEF TypeOK

LEMMA TypeLoader == TypeOK /\ (LoaderStep \/ LoaderFault)
                           /\ UNCHANGED <<modeVars, mainVars>> => TypeOK'
<1> SUFFICES ASSUME TypeOK, LoaderStep \/ LoaderFault,
                    UNCHANGED <<modeVars, mainVars>>
             PROVE  FilesTypeOK' /\ LoaderTypeOK'
    BY DEF TypeOK, DetectorTypeOK, MainTypeOK, modeVars, mainVars, deviceVars,
           detectorVars
<1> USE DEF filesVars, handoffVars, FilesTypeOK, LoaderTypeOK, LoaderPcs
<1>1. CASE DrainEvents
    BY <1>1 DEF DrainEvents, TypeOK
<1>2. CASE Rewatch
    BY <1>2 DEF Rewatch, TypeOK, Configs
<1>3. CASE RewatchFails
    BY <1>3 DEF RewatchFails, TypeOK, DisableInotify
<1>4. CASE ReloadSkipped
    BY <1>4 DEF ReloadSkipped, BackToIdle, TypeOK
<1>5. CASE ReloadBegins
    <2>1. currentConfig.file \in Files
        BY DEF TypeOK, Configs
    <2>2. Present(currentConfig.file)
        BY <1>5 DEF ReloadBegins, NothingNew
    <2>3. disk[currentConfig.file].mtime \in Nat
        BY <2>1, <2>2, ConfigOnType DEF TypeOK
    <2> QED BY <1>5, <2>3, NoConfigType DEF ReloadBegins, TypeOK, Never
<1>6. CASE ReloadReads
    <2>1. lcfg.file \in Files
        BY <1>6 DEF ReloadReads, TypeOK, Configs
    <2>2. ConfigOn(lcfg.file) \in Configs
        BY <1>6, <2>1, ConfigOnType DEF ReloadReads, Readable, TypeOK
    <2>3. lastMtime' \in Nat \cup {Never}
        BY <1>6 DEF ReloadReads, TypeOK, RecordedMtime
    <2> QED BY <1>6, <2>2, <2>3, NoConfigType DEF ReloadReads, TypeOK
<1>7. CASE ReloadUnreadable
    BY <1>7 DEF ReloadUnreadable, BackToIdle, TypeOK
<1>8. CASE ReloadStores
    BY <1>8, NoConfigType DEF ReloadStores, TypeOK
<1>9. CASE ReloadFlags
    BY <1>9 DEF ReloadFlags, BackToIdle, TypeOK
<1>10. CASE InotifyFails
    BY <1>10 DEF InotifyFails, DisableInotify, TypeOK
<1>11. CASE ReloadPanics
    BY <1>11 DEF ReloadPanics, TypeOK
<1> QED BY <1>1, <1>2, <1>3, <1>4, <1>5, <1>6, <1>7, <1>8, <1>9, <1>10, <1>11
        DEF LoaderStep, LoaderFault

LEMMA TypeDetector == TypeOK /\ (Device \/ Detector \/ DetectorPanics)
                             /\ UNCHANGED <<filesVars, handoffVars, loaderVars,
                                            mainVars>> => TypeOK'
<1> SUFFICES ASSUME TypeOK, Device \/ Detector \/ DetectorPanics,
                    UNCHANGED <<filesVars, handoffVars, loaderVars, mainVars>>
             PROVE  DetectorTypeOK'
    BY DEF TypeOK, FilesTypeOK, LoaderTypeOK, MainTypeOK, filesVars,
           handoffVars, loaderVars, mainVars
<1> USE DEF DetectorTypeOK, deviceVars, detectorVars
<1>1. Target \in Modes
    BY DEF Target, DecideMode, Modes
<1>2. CASE Device
    BY <1>2 DEF Device, DeviceChanges, TypeOK
<1>3. CASE DetectChange
    BY <1>1, <1>3 DEF DetectChange, TypeOK
<1>4. CASE WriteMode
    BY <1>4 DEF WriteMode, TypeOK
<1>5. CASE RaiseModeChanged
    BY <1>5 DEF RaiseModeChanged, TypeOK
<1>6. CASE DetectorPanics
    BY <1>6 DEF DetectorPanics, TypeOK
<1> QED BY <1>2, <1>3, <1>4, <1>5, <1>6 DEF Detector, DetectorStep

LEMMA TypeMainLoop ==
    ASSUME TypeOK, MainLoopStep,
           UNCHANGED <<filesVars, loaderVars, deviceVars, currentMode,
                       detectorVars>>
    PROVE  TypeOK'
<1>1. FilesTypeOK'
    BY DEF TypeOK, FilesTypeOK, filesVars
<1>2. FilesTypeOK
    BY DEF TypeOK
<1> USE DEF TypeOK, MainTypeOK, MainPcs, Goto, handoffVars
<1>3. \A m : FileOf(m) \in Files
    BY DEF FileOf, Files
<1>4. SUFFICES /\ MainTypeOK'
               /\ currentConfig' \in Configs /\ configUpdated' \in BOOLEAN
               /\ gamePkgs' \in Nat \cup {NoList} /\ modeChanged' \in BOOLEAN
    BY <1>1, <1>4 DEF LoaderTypeOK, DetectorTypeOK, loaderVars, deviceVars,
                      detectorVars
<1> USE DEF LoaderTypeOK, DetectorTypeOK
<1>5. CASE SwapUpdated
    BY <1>5 DEF SwapUpdated
<1>6. CASE TakeSnapshot
    BY <1>6, NoConfigType DEF TakeSnapshot
<1>7. CASE SwapModeChanged
    BY <1>7 DEF SwapModeChanged
<1>8. CASE TargetAlreadyEffective
    BY <1>8 DEF TargetAlreadyEffective
<1>9. CASE LoadTarget
    <2>1. ConfigOn(FileOf(currentMode)) \in Configs
        BY <1>2, <1>3, <1>9, ConfigOnType DEF LoadTarget, Readable
    <2> QED BY <1>9, <2>1, NoConfigType DEF LoadTarget
<1>10. CASE TargetUnreadable
    BY <1>10 DEF TargetUnreadable
<1>11. CASE InstallTarget
    BY <1>11 DEF InstallTarget, Configs
<1>12. CASE PublishTarget
    BY <1>12 DEF PublishTarget, ModeOf, Modes
<1>13. CASE HealNothing
    BY <1>13 DEF HealNothing
<1>14. CASE HealLoad
    <2>1. ConfigOn(Expected) \in Configs
        BY <1>2, <1>3, <1>14, ConfigOnType DEF HealLoad, Readable, Expected
    <2> QED BY <1>14, <2>1, NoConfigType DEF HealLoad
<1>15. CASE HealInstall
    BY <1>15 DEF HealInstall
<1>16. CASE HealPublish
    BY <1>16 DEF HealPublish
<1>17. CASE GamePollNothing
    BY <1>17 DEF GamePollNothing
<1>18. CASE GamePollStat
    <2>1. disk[GameConf].mtime \in Nat
        BY <1>2, <1>18, ConfigOnType DEF GamePollStat, GameUnchanged, Files
    <2> QED BY <1>18, <2>1 DEF GamePollStat, Never
<1>19. CASE GamePollRead
    <2>1. disk[GameConf].ver \in Nat /\ ConfigOn(GameConf) \in Configs
        BY <1>2, <1>19, ConfigOnType DEF GamePollRead, Readable, Files
    <2>2. gameMtime' \in Nat \cup {Never}
        BY <1>19 DEF GamePollRead, RecordedMtime
    <2>3. CASE effectiveMode = "game"
        BY <1>19, <2>1, <2>2, <2>3, NoConfigType DEF GamePollRead
    <2>4. CASE effectiveMode # "game"
        BY <1>19, <2>1, <2>2, <2>4 DEF GamePollRead
    <2> QED BY <2>3, <2>4
<1>20. CASE GamePollUnreadable
    BY <1>20 DEF GamePollUnreadable
<1>21. CASE GameInstall
    BY <1>21 DEF GameInstall
<1>22. CASE GamePublish
    BY <1>22 DEF GamePublish
<1>23. CASE RunEngine
    BY <1>23 DEF RunEngine
<1> QED BY <1>5, <1>6, <1>7, <1>8, <1>9, <1>10, <1>11, <1>12, <1>13, <1>14,
           <1>15, <1>16, <1>17, <1>18, <1>19, <1>20, <1>21, <1>22, <1>23
        DEF MainLoopStep

LEMMA TypeStartUp == TypeOK /\ StartUp => TypeOK'
<1> SUFFICES ASSUME TypeOK, StartUp PROVE TypeOK'
    OBVIOUS
<1> USE DEF TypeOK, StartUp, Goto
<1>1. FilesTypeOK'
    BY DEF FilesTypeOK, Files
<1>2. LoaderTypeOK'
    BY DEF LoaderTypeOK, handoffVars, LoaderPcs, Present
<1>3. gamePkgs' \in Nat \cup {NoList} /\ gameMtime' \in Nat \cup {Never}
    <2>1. CASE Readable(GameConf)
        <3>1. disk[GameConf].ver \in Nat /\ disk[GameConf].mtime \in Nat
            BY <2>1, ConfigOnType DEF Readable, Files
        <3> QED BY <2>1, <3>1 DEF RecordedMtime, MainTypeOK
    <2>2. CASE ~Readable(GameConf)
        BY <2>2 DEF MainTypeOK, DetectorTypeOK
    <2> QED BY <2>1, <2>2
<1>4. DetectorTypeOK'
    BY <1>3 DEF DetectorTypeOK, deviceVars
<1>5. MainTypeOK'
    BY <1>3 DEF MainTypeOK, MainPcs
<1> QED BY <1>1, <1>2, <1>4, <1>5

LEMMA TypeRestart == TypeOK /\ RestartThreads => TypeOK'
<1> SUFFICES ASSUME TypeOK, RestartThreads PROVE TypeOK'
    OBVIOUS
<1> USE DEF TypeOK, RestartThreads, Goto, filesVars, handoffVars, deviceVars,
            detectorVars
<1>1. FilesTypeOK'
    BY DEF FilesTypeOK
<1>2. LoaderTypeOK'
    BY DEF LoaderTypeOK, LoaderPcs
<1>3. DetectorTypeOK'
    BY DEF DetectorTypeOK, Modes
<1>4. MainTypeOK'
    BY DEF MainTypeOK, MainPcs
<1> QED BY <1>1, <1>2, <1>3, <1>4

LEMMA TypeStutter == TypeOK /\ UNCHANGED vars => TypeOK'
BY DEF TypeOK, FilesTypeOK, LoaderTypeOK, DetectorTypeOK, MainTypeOK, vars,
       filesVars, handoffVars, loaderVars, modeVars, mainVars, deviceVars,
       detectorVars

LEMMA TypeStep == TypeOK /\ [Next]_vars => TypeOK'
<1> SUFFICES ASSUME TypeOK, [Next]_vars PROVE TypeOK'
    OBVIOUS
<1>1. CASE User
    BY <1>1, TypeUser
<1>2. CASE Device
    BY <1>2, TypeDetector DEF Device
<1>3. CASE Loader
    BY <1>3, TypeLoader DEF Loader
<1>4. CASE Detector
    BY <1>4, TypeDetector DEF Detector
<1>5. CASE Main
    BY <1>5, TypeStartUp, TypeMainLoop, TypeRestart DEF Main
<1>6. CASE Fault
    BY <1>6, TypeLoader, TypeDetector DEF Fault
<1>7. CASE UNCHANGED vars
    BY <1>7, TypeStutter
<1> QED BY <1>1, <1>2, <1>3, <1>4, <1>5, <1>6, <1>7 DEF Next

(* Every variable keeps its type, and a thread's locals are set where its   *)
(* code uses them: what is stored into CURRENT_CONFIG and what the engine   *)
(* is given is always a configuration that was read from a file.            *)
THEOREM TypeCorrect == Spec => []TypeOK
<1> QED BY TypeInit, TypeStep, PTL DEF Spec

------------------------------------------------------------------------------
(* Hand-offs *)

\* The variables the hand-off is about.
HandoffUnchanged ==
    UNCHANGED <<applied, currentConfig, configUpdated, lpc, mpc, configChanged, cfg>>

LEMMA HandoffStutter == HandoffInv /\ HandoffUnchanged => HandoffInv'
BY DEF HandoffInv, HandoffUnchanged, NoLostUpdate, StaleSnapshotFlagged,
       FlagPending, Carrying

LEMMA HandoffLoader ==
    ASSUME TypeOK, HandoffInv, LoaderStep \/ LoaderFault,
           UNCHANGED <<modeVars, mainVars>>
    PROVE  HandoffInv'
<1> USE DEF HandoffInv, NoLostUpdate, StaleSnapshotFlagged, FlagPending, Carrying,
            mainVars, handoffVars
<1>1. CASE DrainEvents
    BY <1>1 DEF DrainEvents
<1>2. CASE Rewatch
    BY <1>2 DEF Rewatch
<1>3. CASE RewatchFails
    BY <1>3 DEF RewatchFails
<1>4. CASE ReloadSkipped
    BY <1>4 DEF ReloadSkipped, BackToIdle
<1>5. CASE ReloadBegins
    BY <1>5 DEF ReloadBegins, AtReload
<1>6. CASE ReloadReads
    BY <1>6 DEF ReloadReads
<1>7. CASE ReloadUnreadable
    BY <1>7 DEF ReloadUnreadable, BackToIdle
<1>8. CASE ReloadStores
    BY <1>8 DEF ReloadStores
<1>9. CASE ReloadFlags
    BY <1>9 DEF ReloadFlags, BackToIdle
<1>10. CASE InotifyFails
    BY <1>10 DEF InotifyFails
<1>11. CASE ReloadPanics
    BY <1>11 DEF ReloadPanics
<1> QED BY <1>1, <1>2, <1>3, <1>4, <1>5, <1>6, <1>7, <1>8, <1>9, <1>10, <1>11
        DEF LoaderStep, LoaderFault

LEMMA HandoffMainLoop ==
    ASSUME TypeOK, HandoffInv, MainLoopStep, UNCHANGED loaderVars
    PROVE  HandoffInv'
<1> USE DEF HandoffInv, NoLostUpdate, StaleSnapshotFlagged, FlagPending, Carrying,
            loaderVars, handoffVars, Goto
<1>1. CASE SwapUpdated
    BY <1>1 DEF SwapUpdated, TypeOK, LoaderTypeOK
<1>2. CASE TakeSnapshot
    BY <1>2 DEF TakeSnapshot
<1>3. CASE SwapModeChanged
    BY <1>3 DEF SwapModeChanged
<1>4. CASE TargetAlreadyEffective
    BY <1>4 DEF TargetAlreadyEffective
<1>5. CASE LoadTarget
    BY <1>5 DEF LoadTarget
<1>6. CASE TargetUnreadable
    BY <1>6 DEF TargetUnreadable
<1>7. CASE InstallTarget
    BY <1>7 DEF InstallTarget
<1>8. CASE PublishTarget
    BY <1>8 DEF PublishTarget
<1>9. CASE HealNothing
    BY <1>9 DEF HealNothing
<1>10. CASE HealLoad
    BY <1>10 DEF HealLoad
<1>11. CASE HealInstall
    BY <1>11 DEF HealInstall
<1>12. CASE HealPublish
    BY <1>12 DEF HealPublish
<1>13. CASE GamePollNothing
    BY <1>13 DEF GamePollNothing
<1>14. CASE GamePollStat
    BY <1>14 DEF GamePollStat
<1>15. CASE GamePollRead
    BY <1>15 DEF GamePollRead
<1>16. CASE GamePollUnreadable
    BY <1>16 DEF GamePollUnreadable
<1>17. CASE GameInstall
    BY <1>17 DEF GameInstall
<1>18. CASE GamePublish
    BY <1>18 DEF GamePublish
<1>19. CASE RunEngine
    BY <1>19 DEF RunEngine
<1> QED BY <1>1, <1>2, <1>3, <1>4, <1>5, <1>6, <1>7, <1>8, <1>9, <1>10, <1>11,
           <1>12, <1>13, <1>14, <1>15, <1>16, <1>17, <1>18, <1>19
        DEF MainLoopStep

LEMMA HandoffStep == TypeOK /\ HandoffInv /\ [Next]_vars => HandoffInv'
<1> SUFFICES ASSUME TypeOK, HandoffInv, [Next]_vars PROVE HandoffInv'
    OBVIOUS
<1> USE DEF handoffVars, loaderVars, mainVars
<1>1. CASE User
    BY <1>1, HandoffStutter DEF User, HandoffUnchanged
<1>2. CASE Device
    BY <1>2, HandoffStutter DEF Device, HandoffUnchanged
<1>3. CASE Loader
    BY <1>3, HandoffLoader DEF Loader
<1>4. CASE Detector
    BY <1>4, HandoffStutter DEF Detector, HandoffUnchanged
<1>5. CASE Main
    <2> USE DEF HandoffInv, NoLostUpdate, StaleSnapshotFlagged, FlagPending,
                Carrying, Goto
    <2>1. CASE StartUp
        BY <1>5, <2>1 DEF StartUp
    <2>2. CASE RestartThreads
        BY <1>5, <2>2 DEF RestartThreads
    <2> QED BY <1>5, <2>1, <2>2, HandoffMainLoop DEF Main
<1>6. CASE Fault
    <2>1. CASE DetectorPanics /\ UNCHANGED <<filesVars, handoffVars, loaderVars, mainVars>>
        BY <2>1, HandoffStutter DEF HandoffUnchanged
    <2> QED BY <1>6, <2>1, HandoffLoader DEF Fault
<1>7. CASE UNCHANGED vars
    BY <1>7, HandoffStutter DEF vars, HandoffUnchanged
<1> QED BY <1>1, <1>2, <1>3, <1>4, <1>5, <1>6, <1>7 DEF Next

(* No configuration stored in CURRENT_CONFIG is lost on its way to the      *)
(* engine, whatever the interleaving of loader and main loop.               *)
THEOREM NoUpdateIsLost == Spec => []NoLostUpdate
<1>1. Init => HandoffInv
    BY DEF Init, LoaderInit, MainInit, HandoffInv, NoLostUpdate,
           StaleSnapshotFlagged, Carrying
<1>2. HandoffInv => NoLostUpdate
    BY DEF HandoffInv
<1> QED BY <1>1, <1>2, TypeCorrect, HandoffStep, PTL DEF Spec

------------------------------------------------------------------------------
(* Mode changes *)

ModeUnchanged == UNCHANGED <<currentMode, effectiveMode, modeChanged, dpc, mpc, mnew>>

LEMMA ModeStutter == ModeInv /\ ModeUnchanged => ModeInv'
BY DEF ModeInv, ModeUnchanged, ModeNotLost, StaleTargetFlagged

LEMMA ModeDetector ==
    ASSUME TypeOK, ModeInv, DetectorStep \/ DetectorPanics, UNCHANGED mainVars
    PROVE  ModeInv'
<1> USE DEF ModeInv, ModeNotLost, StaleTargetFlagged, mainVars
<1>1. CASE DetectChange
    BY <1>1 DEF DetectChange
<1>2. CASE WriteMode
    BY <1>2 DEF WriteMode
<1>3. CASE RaiseModeChanged
    BY <1>3 DEF RaiseModeChanged
<1>4. CASE DetectorPanics
    BY <1>4 DEF DetectorPanics
<1> QED BY <1>1, <1>2, <1>3, <1>4 DEF DetectorStep

LEMMA ModeMainLoop ==
    ASSUME TypeOK, ModeInv, MainLoopStep, UNCHANGED <<currentMode, detectorVars>>
    PROVE  ModeInv'
<1> USE DEF ModeInv, ModeNotLost, StaleTargetFlagged, detectorVars, Goto
<1>1. CASE SwapUpdated
    BY <1>1 DEF SwapUpdated
<1>2. CASE TakeSnapshot
    BY <1>2 DEF TakeSnapshot
<1>3. CASE SwapModeChanged
    BY <1>3 DEF SwapModeChanged, TypeOK, DetectorTypeOK
<1>4. CASE TargetAlreadyEffective
    BY <1>4 DEF TargetAlreadyEffective
<1>5. CASE LoadTarget
    <2>1. ModeOf(FileOf(currentMode)) = currentMode
        BY DEF ModeOf, FileOf, TypeOK, DetectorTypeOK, Modes, GameConf, AppList
    <2> QED BY <1>5, <2>1 DEF LoadTarget, ConfigOn
<1>6. CASE TargetUnreadable
    BY <1>6 DEF TargetUnreadable
<1>7. CASE InstallTarget
    BY <1>7 DEF InstallTarget
<1>8. CASE PublishTarget
    BY <1>8 DEF PublishTarget
<1>9. CASE HealNothing
    BY <1>9 DEF HealNothing
<1>10. CASE HealLoad
    BY <1>10 DEF HealLoad
<1>11. CASE HealInstall
    BY <1>11 DEF HealInstall
<1>12. CASE HealPublish
    BY <1>12 DEF HealPublish
<1>13. CASE GamePollNothing
    BY <1>13 DEF GamePollNothing
<1>14. CASE GamePollStat
    BY <1>14 DEF GamePollStat
<1>15. CASE GamePollRead
    BY <1>15 DEF GamePollRead
<1>16. CASE GamePollUnreadable
    BY <1>16 DEF GamePollUnreadable
<1>17. CASE GameInstall
    BY <1>17 DEF GameInstall
<1>18. CASE GamePublish
    BY <1>18 DEF GamePublish
<1>19. CASE RunEngine
    BY <1>19 DEF RunEngine
<1> QED BY <1>1, <1>2, <1>3, <1>4, <1>5, <1>6, <1>7, <1>8, <1>9, <1>10, <1>11,
           <1>12, <1>13, <1>14, <1>15, <1>16, <1>17, <1>18, <1>19
        DEF MainLoopStep

LEMMA ModeStep == TypeOK /\ ModeInv /\ [Next]_vars => ModeInv'
<1> SUFFICES ASSUME TypeOK, ModeInv, [Next]_vars PROVE ModeInv'
    OBVIOUS
<1> USE DEF modeVars, mainVars, detectorVars
<1>1. CASE User
    BY <1>1, ModeStutter DEF User, ModeUnchanged
<1>2. CASE Device
    BY <1>2, ModeStutter DEF Device, DeviceChanges, ModeUnchanged
<1>3. CASE Loader
    BY <1>3, ModeStutter DEF Loader, ModeUnchanged
<1>4. CASE Detector
    BY <1>4, ModeDetector DEF Detector
<1>5. CASE Main
    <2> USE DEF ModeInv, ModeNotLost, StaleTargetFlagged, Goto
    <2>1. CASE StartUp
        BY <1>5, <2>1 DEF StartUp
    <2>2. CASE RestartThreads
        BY <1>5, <2>2 DEF RestartThreads
    <2> QED BY <1>5, <2>1, <2>2, ModeMainLoop DEF Main
<1>6. CASE Fault
    <2>1. CASE LoaderFault /\ UNCHANGED <<modeVars, mainVars>>
        BY <2>1, ModeStutter DEF ModeUnchanged
    <2> QED BY <1>6, <2>1, ModeDetector DEF Fault
<1>7. CASE UNCHANGED vars
    BY <1>7, ModeStutter DEF vars, ModeUnchanged
<1> QED BY <1>1, <1>2, <1>3, <1>4, <1>5, <1>6, <1>7 DEF Next

(* No change of mode the detector announced is lost: MODE_CHANGED stays up, *)
(* or main is acting, until EFFECTIVE_MODE is CURRENT_MODE.                 *)
THEOREM NoModeChangeIsLost == Spec => []ModeNotLost
<1>1. Init => ModeInv
    BY DEF Init, DetectorInit, MainInit, ModeInv, ModeNotLost, StaleTargetFlagged
<1>2. ModeInv => ModeNotLost
    BY DEF ModeInv
<1> QED BY <1>1, <1>2, TypeCorrect, ModeStep, PTL DEF Spec

------------------------------------------------------------------------------
(* CURRENT_CONFIG and CONFIG_UPDATED implement the box of ConfigHandoff *)

LEMMA HandoffRefinesInit == Init => Handoff!Init
<1> SUFFICES ASSUME Init PROVE Handoff!Init
    OBVIOUS
<1>1. currentConfig \in Configs
    BY TypeInit DEF TypeOK, LoaderTypeOK
<1> QED BY <1>1 DEF Handoff!Init, Init, LoaderInit, MainInit, Outstanding, Held

\* A step that changes nothing the box is made of.
LEMMA BoxStutter ==
    ASSUME HandoffUnchanged
    PROVE  UNCHANGED Handoff!vars
BY DEF HandoffUnchanged, Handoff!vars, Outstanding, Held, FlagPending, Carrying

LEMMA BoxLoader ==
    ASSUME TypeOK, TypeOK', LoaderStep \/ LoaderFault, UNCHANGED <<modeVars, mainVars>>
    PROVE  Handoff!Next \/ UNCHANGED Handoff!vars
<1> USE DEF Handoff!vars, Outstanding, Held, FlagPending, Carrying, mainVars,
            handoffVars
<1>1. CASE DrainEvents
    BY <1>1 DEF DrainEvents
<1>2. CASE Rewatch
    BY <1>2 DEF Rewatch
<1>3. CASE RewatchFails
    BY <1>3 DEF RewatchFails
<1>4. CASE ReloadSkipped
    BY <1>4 DEF ReloadSkipped, BackToIdle
<1>5. CASE ReloadBegins
    BY <1>5 DEF ReloadBegins, AtReload
<1>6. CASE ReloadReads
    BY <1>6 DEF ReloadReads
<1>7. CASE ReloadUnreadable
    BY <1>7 DEF ReloadUnreadable, BackToIdle
<1>8. CASE ReloadStores
    <2>1. Handoff!Put
        BY <1>8 DEF ReloadStores, Handoff!Put, TypeOK, LoaderTypeOK
    <2> QED BY <2>1 DEF Handoff!Next
<1>9. CASE ReloadFlags
    BY <1>9 DEF ReloadFlags, BackToIdle, TypeOK, LoaderTypeOK
<1>10. CASE InotifyFails
    BY <1>10 DEF InotifyFails
<1>11. CASE ReloadPanics
    BY <1>11 DEF ReloadPanics
<1> QED BY <1>1, <1>2, <1>3, <1>4, <1>5, <1>6, <1>7, <1>8, <1>9, <1>10, <1>11
        DEF LoaderStep, LoaderFault

LEMMA BoxMainLoop ==
    ASSUME TypeOK, TypeOK', MainLoopStep, UNCHANGED loaderVars
    PROVE  Handoff!Next \/ UNCHANGED Handoff!vars
<1> USE DEF Handoff!vars, Outstanding, Held, FlagPending, Carrying, loaderVars,
            handoffVars, Goto
<1>1. CASE SwapUpdated
    BY <1>1 DEF SwapUpdated, TypeOK, LoaderTypeOK, MainTypeOK
<1>2. CASE TakeSnapshot
    <2>1. CASE configChanged
        <3>1. Handoff!Take
            BY <1>2, <2>1 DEF TakeSnapshot, Handoff!Take, TypeOK, LoaderTypeOK
        <3> QED BY <3>1 DEF Handoff!Next
    <2>2. CASE ~configChanged
        BY <1>2, <2>2 DEF TakeSnapshot
    <2> QED BY <2>1, <2>2
<1>3. CASE SwapModeChanged
    BY <1>3 DEF SwapModeChanged
<1>4. CASE TargetAlreadyEffective
    BY <1>4 DEF TargetAlreadyEffective
<1>5. CASE LoadTarget
    BY <1>5 DEF LoadTarget
<1>6. CASE TargetUnreadable
    BY <1>6 DEF TargetUnreadable
<1>7. CASE InstallTarget
    <2>1. Handoff!Put
        BY <1>7 DEF InstallTarget, Handoff!Put, TypeOK, LoaderTypeOK
    <2> QED BY <2>1 DEF Handoff!Next
<1>8. CASE PublishTarget
    BY <1>8 DEF PublishTarget, TypeOK, LoaderTypeOK
<1>9. CASE HealNothing
    BY <1>9 DEF HealNothing
<1>10. CASE HealLoad
    BY <1>10 DEF HealLoad
<1>11. CASE HealInstall
    <2>1. Handoff!Put
        BY <1>11 DEF HealInstall, Handoff!Put, TypeOK, LoaderTypeOK
    <2> QED BY <2>1 DEF Handoff!Next
<1>12. CASE HealPublish
    BY <1>12 DEF HealPublish, TypeOK, LoaderTypeOK
<1>13. CASE GamePollNothing
    BY <1>13 DEF GamePollNothing
<1>14. CASE GamePollStat
    BY <1>14 DEF GamePollStat
<1>15. CASE GamePollRead
    BY <1>15 DEF GamePollRead
<1>16. CASE GamePollUnreadable
    BY <1>16 DEF GamePollUnreadable
<1>17. CASE GameInstall
    <2>1. Handoff!Put
        BY <1>17 DEF GameInstall, Handoff!Put, TypeOK, LoaderTypeOK
    <2> QED BY <2>1 DEF Handoff!Next
<1>18. CASE GamePublish
    BY <1>18 DEF GamePublish, TypeOK, LoaderTypeOK
<1>19. CASE RunEngine
    <2>1. CASE configChanged
        <3>1. Handoff!Use
            BY <1>19, <2>1 DEF RunEngine, Handoff!Use, TypeOK, MainTypeOK
        <3> QED BY <3>1 DEF Handoff!Next
    <2>2. CASE ~configChanged
        BY <1>19, <2>2 DEF RunEngine
    <2> QED BY <2>1, <2>2
<1> QED BY <1>1, <1>2, <1>3, <1>4, <1>5, <1>6, <1>7, <1>8, <1>9, <1>10, <1>11,
           <1>12, <1>13, <1>14, <1>15, <1>16, <1>17, <1>18, <1>19
        DEF MainLoopStep

LEMMA HandoffRefinesStep ==
    ASSUME TypeOK, TypeOK', HandoffInv, [Next]_vars
    PROVE  [Handoff!Next]_(Handoff!vars)
<1> USE DEF handoffVars, loaderVars, mainVars
<1>1. CASE User
    BY <1>1, BoxStutter DEF User, HandoffUnchanged
<1>2. CASE Device
    BY <1>2, BoxStutter DEF Device, HandoffUnchanged
<1>3. CASE Loader
    BY <1>3, BoxLoader DEF Loader
<1>4. CASE Detector
    BY <1>4, BoxStutter DEF Detector, HandoffUnchanged
<1>5. CASE Main
    <2> USE DEF Handoff!vars, Outstanding, Held, FlagPending, Carrying, Goto
    <2>1. CASE StartUp
        BY <1>5, <2>1 DEF StartUp, HandoffInv, TypeOK, MainTypeOK
    <2>2. CASE RestartThreads
        BY <1>5, <2>2 DEF RestartThreads
    <2> QED BY <1>5, <2>1, <2>2, BoxMainLoop DEF Main
<1>6. CASE Fault
    <2>1. CASE DetectorPanics /\ UNCHANGED <<filesVars, handoffVars, loaderVars, mainVars>>
        BY <2>1, BoxStutter DEF HandoffUnchanged
    <2> QED BY <1>6, <2>1, BoxLoader DEF Fault
<1>7. CASE UNCHANGED vars
    BY <1>7, BoxStutter DEF vars, HandoffUnchanged
<1> QED BY <1>1, <1>2, <1>3, <1>4, <1>5, <1>6, <1>7 DEF Next

(* The safety part of ImplementsHandoff: every step of the program is a     *)
(* step of the box or leaves it alone.                                      *)
THEOREM ImplementsHandoffSafety == Spec => Handoff!Safety
<1>1. Init => HandoffInv
    BY DEF Init, LoaderInit, MainInit, HandoffInv, NoLostUpdate,
           StaleSnapshotFlagged, Carrying
<1>2. TypeOK /\ TypeOK' /\ HandoffInv /\ [Next]_vars => [Handoff!Next]_(Handoff!vars)
    BY HandoffRefinesStep
<1> QED BY <1>1, <1>2, TypeCorrect, HandoffStep, HandoffRefinesInit, PTL
        DEF Spec, Handoff!Safety

------------------------------------------------------------------------------
(* The watch *)

WatchUnchanged == UNCHANGED <<inotifySupported, watch, pending, lpc>>

LEMMA WatchStutter == WatchNotLost /\ WatchUnchanged => WatchNotLost'
BY DEF WatchNotLost, WatchUnchanged

LEMMA WatchUser == WatchNotLost /\ User => WatchNotLost'
<1> SUFFICES ASSUME WatchNotLost, User PROVE WatchNotLost'
    OBVIOUS
<1> USE DEF WatchNotLost, loaderVars
<1>1. PICK f \in Files :
          \/ \E now \in SaveTime : SaveInPlace(f, now) \/ SaveByRename(f, now)
          \/ RemoveFile(f)
    BY DEF User, UserSaves
<1>2. UNCHANGED loaderVars
    BY DEF User
<1>3. ASSUME NEW now \in SaveTime, SaveInPlace(f, now) PROVE WatchNotLost'
    BY <1>2, <1>3 DEF SaveInPlace
<1>4. ASSUME InodeGone(f) PROVE WatchNotLost'
    BY <1>2, <1>4 DEF InodeGone
<1> QED BY <1>1, <1>3, <1>4 DEF SaveByRename, RemoveFile

LEMMA WatchLoader ==
    ASSUME TypeOK, WatchNotLost, LoaderStep \/ LoaderFault
    PROVE  WatchNotLost'
<1> USE DEF WatchNotLost, filesVars
<1>1. CASE DrainEvents
    BY <1>1 DEF DrainEvents
<1>2. CASE Rewatch
    <2>1. currentConfig.file # NoFile
        BY DEF TypeOK, LoaderTypeOK, Configs, Files, AppList, GameConf, NoFile
    <2> QED BY <1>2, <2>1 DEF Rewatch
<1>3. CASE RewatchFails
    BY <1>3 DEF RewatchFails, DisableInotify
<1>4. CASE ReloadSkipped
    BY <1>4 DEF ReloadSkipped, BackToIdle
<1>5. CASE ReloadBegins
    BY <1>5 DEF ReloadBegins, AtReload
<1>6. CASE ReloadReads
    BY <1>6 DEF ReloadReads
<1>7. CASE ReloadUnreadable
    BY <1>7 DEF ReloadUnreadable, BackToIdle
<1>8. CASE ReloadStores
    BY <1>8 DEF ReloadStores
<1>9. CASE ReloadFlags
    BY <1>9 DEF ReloadFlags, BackToIdle
<1>10. CASE InotifyFails
    BY <1>10 DEF InotifyFails, DisableInotify
<1>11. CASE ReloadPanics
    BY <1>11 DEF ReloadPanics
<1> QED BY <1>1, <1>2, <1>3, <1>4, <1>5, <1>6, <1>7, <1>8, <1>9, <1>10, <1>11
        DEF LoaderStep, LoaderFault

LEMMA WatchStep == TypeOK /\ WatchNotLost /\ [Next]_vars => WatchNotLost'
<1> SUFFICES ASSUME TypeOK, WatchNotLost, [Next]_vars PROVE WatchNotLost'
    OBVIOUS
<1> USE DEF filesVars, loaderVars
<1>1. CASE User
    BY <1>1, WatchUser
<1>2. CASE Device
    BY <1>2, WatchStutter DEF Device, WatchUnchanged
<1>3. CASE Loader
    BY <1>3, WatchLoader DEF Loader
<1>4. CASE Detector
    BY <1>4, WatchStutter DEF Detector, WatchUnchanged
<1>5. CASE Main
    <2>1. CASE StartUp
        BY <2>1 DEF StartUp, WatchNotLost, AppList, NoFile
    <2>2. CASE RestartThreads
        BY <2>2 DEF RestartThreads, WatchNotLost
    <2>3. CASE MainLoopStep /\ UNCHANGED <<filesVars, loaderVars>>
        BY <2>3, WatchStutter DEF WatchUnchanged
    <2> QED BY <1>5, <2>1, <2>2, <2>3 DEF Main
<1>6. CASE Fault
    <2>1. CASE DetectorPanics /\ UNCHANGED <<filesVars, loaderVars>>
        BY <2>1, WatchStutter DEF WatchUnchanged
    <2> QED BY <1>6, <2>1, WatchLoader DEF Fault
<1>7. CASE UNCHANGED vars
    BY <1>7, WatchStutter DEF vars, WatchUnchanged
<1> QED BY <1>1, <1>2, <1>3, <1>4, <1>5, <1>6, <1>7 DEF Next

(* The loader never waits for events nothing can send.                      *)
THEOREM WatchIsNotLost == Spec => []WatchNotLost
<1>1. Init => WatchNotLost
    BY DEF Init, LoaderInit, WatchNotLost
<1> QED BY <1>1, TypeCorrect, WatchStep, PTL DEF Spec

------------------------------------------------------------------------------
(* Saves in power mode *)

\* What SaveInv says of variables the device and the detector leave alone.
SaveUnchanged ==
    UNCHANGED <<disk, watch, pending, currentConfig, inotifySupported, lpc,
                lastMtime, lcfg, mpc, effectiveMode, currentMode, lastMode>>

LEMMA SaveStutter == SaveInv /\ SaveUnchanged => SaveInv'
BY DEF SaveInv, SaveUnchanged, WatchNotLost, NoSaveUnnoticed, Readable, Present,
       ConfigOn

LEMMA TargetIsPower ==
    ASSUME PowerOnly, TypeOK
    PROVE  Target = "power"
<1>1. ParseOverride(overrideFile) # "game"
    BY DEF PowerOnly, TypeOK, DetectorTypeOK
<1>2. ~GameForeground(gamePkgs)
    BY DEF PowerOnly, GameForeground
<1> QED BY <1>1, <1>2 DEF Target, DecideMode, Modes

LEMMA SaveUser ==
    ASSUME PowerOnly, TypeOK, SaveInv, User
    PROVE  SaveInv'
<1> USE DEF handoffVars, loaderVars, modeVars, mainVars, detectorVars
<1>1. PICK f \in Files :
          \/ \E now \in SaveTime : SaveInPlace(f, now) \/ SaveByRename(f, now)
          \/ RemoveFile(f)
    BY DEF User, UserSaves
<1>2. mpc # "boot" /\ UNCHANGED <<handoffVars, loaderVars, modeVars, mainVars>>
    BY DEF User, PowerOnly
<1>3. WatchNotLost'
    BY WatchUser DEF SaveInv
<1> DEFINE Noticed == \/ /\ UNCHANGED <<watch, pending>>
                         /\ f = AppList => watch # AppList
                      \/ watch' \in {AppList, NoFile} /\ pending' # {}
<1>4. Noticed
    <2>1. ASSUME NEW now \in SaveTime, SaveInPlace(f, now) PROVE Noticed
        BY <2>1 DEF SaveInPlace, SaveInv
    <2>2. ASSUME InodeGone(f) PROVE Noticed
        BY <2>2 DEF InodeGone, SaveInv
    <2> QED BY <1>1, <2>1, <2>2 DEF SaveByRename, RemoveFile
<1>5. f = AppList \/ UNCHANGED disk[AppList]
    <2>1. disk' = [disk EXCEPT ![f] = disk'[f]]
        BY <1>1 DEF SaveInPlace, SaveByRename, RemoveFile, NewContent, TypeOK,
                    FilesTypeOK
    <2> QED BY <2>1 DEF TypeOK, FilesTypeOK, Files
<1>6. CASE pending' # {} /\ watch' \in {AppList, NoFile}
    BY <1>2, <1>3, <1>6 DEF SaveInv, NoSaveUnnoticed
<1>7. CASE UNCHANGED <<watch, pending>> /\ UNCHANGED disk[AppList]
    <2>1. Readable(AppList)' = Readable(AppList) /\ ConfigOn(AppList)' = ConfigOn(AppList)
        BY <1>7 DEF Readable, Present, ConfigOn
    <2> QED BY <1>2, <1>3, <1>7, <2>1 DEF SaveInv, NoSaveUnnoticed
<1>8. CASE UNCHANGED <<watch, pending>> /\ f = AppList /\ watch # AppList
    <2>1. inotifySupported => "delete_self" \in pending \/ lpc = "rewatch"
        BY <1>8 DEF SaveInv, WatchNotLost
    <2>2. inotifySupported' => pending' # {} \/ lpc' = "rewatch"
        BY <1>2, <1>8, <2>1
    <2> QED BY <1>2, <1>3, <1>8, <2>2 DEF SaveInv, NoSaveUnnoticed
<1> QED BY <1>4, <1>5, <1>6, <1>7, <1>8

LEMMA SaveLoader ==
    ASSUME PowerOnly, TypeOK, SaveInv, LoaderStep \/ LoaderFault,
           UNCHANGED <<modeVars, mainVars>>
    PROVE  SaveInv'
<1> USE DEF SaveInv, NoSaveUnnoticed, modeVars, mainVars, detectorVars, filesVars,
            handoffVars
<1>1. WatchNotLost'
    BY WatchLoader
<1>2. mpc # "boot"
    BY DEF LoaderStep, LoaderFault, DrainEvents, Rewatch, RewatchFails,
           ReloadSkipped, ReloadBegins, AtReload, ReloadReads, ReloadUnreadable,
           ReloadStores, ReloadFlags, InotifyFails, ReloadPanics
<1>3. UNCHANGED disk => /\ Readable(AppList)' = Readable(AppList)
                        /\ ConfigOn(AppList)' = ConfigOn(AppList)
    BY DEF Readable, Present, ConfigOn
<1>4. CASE DrainEvents
    BY <1>1, <1>2, <1>3, <1>4 DEF DrainEvents
<1>5. CASE Rewatch
    BY <1>1, <1>2, <1>3, <1>5 DEF Rewatch
<1>6. CASE RewatchFails
    BY <1>1, <1>2, <1>3, <1>6 DEF RewatchFails, DisableInotify
<1>7. CASE ReloadSkipped
    <2>1. ~Present(AppList)
        BY <1>7 DEF ReloadSkipped, NothingNew, Unchanged
    <2> QED BY <1>1, <1>2, <1>3, <1>7, <2>1 DEF ReloadSkipped, BackToIdle, Readable
<1>8. CASE ReloadBegins
    BY <1>1, <1>2, <1>3, <1>8 DEF ReloadBegins, AtReload
<1>9. CASE ReloadReads
    <2>1. lcfg' = ConfigOn(AppList) /\ ConfigOn(AppList).file = AppList
        BY <1>9 DEF ReloadReads, ConfigOn
    <2> QED BY <1>1, <1>2, <1>3, <1>9, <2>1 DEF ReloadReads
<1>10. CASE ReloadUnreadable
    BY <1>1, <1>2, <1>3, <1>10 DEF ReloadUnreadable, BackToIdle
<1>11. CASE ReloadStores
    BY <1>1, <1>2, <1>3, <1>11 DEF ReloadStores
<1>12. CASE ReloadFlags
    BY <1>1, <1>2, <1>3, <1>12 DEF ReloadFlags, BackToIdle
<1>13. CASE InotifyFails
    BY <1>1, <1>2, <1>3, <1>13 DEF InotifyFails, DisableInotify
<1>14. CASE ReloadPanics
    BY <1>14 DEF ReloadPanics, PowerOnly
<1> QED BY <1>4, <1>5, <1>6, <1>7, <1>8, <1>9, <1>10, <1>11, <1>12, <1>13, <1>14
        DEF LoaderStep, LoaderFault

LEMMA SaveDetector ==
    ASSUME PowerOnly, TypeOK, SaveInv, DetectorStep \/ DetectorPanics,
           UNCHANGED <<filesVars, handoffVars, loaderVars, mainVars>>
    PROVE  SaveInv'
<1> USE DEF filesVars, handoffVars, loaderVars, mainVars
<1>1. CASE DetectChange
    BY <1>1, TargetIsPower DEF DetectChange, SaveInv
<1>2. CASE WriteMode
    BY <1>2, SaveStutter DEF WriteMode, SaveUnchanged, SaveInv
<1>3. CASE RaiseModeChanged
    BY <1>3, SaveStutter DEF RaiseModeChanged, SaveUnchanged
<1>4. CASE DetectorPanics
    BY <1>4, SaveStutter DEF DetectorPanics, SaveUnchanged
<1> QED BY <1>1, <1>2, <1>3, <1>4 DEF DetectorStep

LEMMA SaveMainLoop ==
    ASSUME PowerOnly, TypeOK, SaveInv, MainLoopStep,
           UNCHANGED <<filesVars, loaderVars, currentMode, detectorVars>>
    PROVE  SaveInv'
<1> USE DEF SaveInv, filesVars, loaderVars, detectorVars, handoffVars, Goto
<1>1. /\ Readable(AppList)' = Readable(AppList)
      /\ ConfigOn(AppList)' = ConfigOn(AppList)
    BY DEF Readable, Present, ConfigOn
<1>2. SUFFICES ASSUME UNCHANGED <<currentConfig, effectiveMode>>,
                      mpc' \notin {"boot", "install", "publish", "heal_install",
                                  "heal_publish", "game_install", "game_publish"}
               PROVE  SaveInv'
    <2>1. CASE SwapUpdated
        BY <1>2, <2>1 DEF SwapUpdated
    <2>2. CASE TakeSnapshot
        BY <1>2, <2>2 DEF TakeSnapshot
    <2>3. CASE SwapModeChanged
        BY <1>2, <2>3 DEF SwapModeChanged
    <2>4. CASE TargetAlreadyEffective
        BY <1>2, <2>4 DEF TargetAlreadyEffective
    <2>5. CASE LoadTarget \/ TargetUnreadable
        BY <2>5 DEF LoadTarget, TargetUnreadable
    <2>6. CASE InstallTarget \/ PublishTarget \/ HealInstall \/ HealPublish
               \/ GameInstall \/ GamePublish
        BY <2>6 DEF InstallTarget, PublishTarget, HealInstall, HealPublish,
                    GameInstall, GamePublish
    <2>7. CASE HealNothing
        BY <1>2, <2>7 DEF HealNothing
    <2>8. CASE HealLoad
        BY <2>8 DEF HealLoad, Expected, FileOf
    <2>9. CASE GamePollNothing
        BY <1>2, <2>9 DEF GamePollNothing
    <2>10. CASE GamePollStat
        BY <1>2, <2>10 DEF GamePollStat
    <2>11. CASE GamePollRead
        BY <1>2, <2>11 DEF GamePollRead
    <2>12. CASE GamePollUnreadable
        BY <1>2, <2>12 DEF GamePollUnreadable
    <2>13. CASE RunEngine
        BY <1>2, <2>13 DEF RunEngine
    <2> QED BY <2>1, <2>2, <2>3, <2>4, <2>5, <2>6, <2>7, <2>8, <2>9, <2>10,
               <2>11, <2>12, <2>13 DEF MainLoopStep
<1> QED BY <1>1, <1>2 DEF WatchNotLost, NoSaveUnnoticed

LEMMA SaveStep ==
    ASSUME PowerOnly
    PROVE  TypeOK /\ SaveInv /\ [Next]_vars => SaveInv'
<1> SUFFICES ASSUME TypeOK, SaveInv, [Next]_vars PROVE SaveInv'
    OBVIOUS
<1>1. CASE User
    BY <1>1, SaveUser
<1>2. CASE Device
    BY <1>2, SaveStutter DEF Device, DeviceChanges, SaveUnchanged, filesVars,
       handoffVars, loaderVars, mainVars, detectorVars
<1>3. CASE Loader
    BY <1>3, SaveLoader DEF Loader
<1>4. CASE Detector
    BY <1>4, SaveDetector DEF Detector
<1>5. CASE Main
    <2>1. CASE StartUp
        <3>1. WatchNotLost'
            BY <1>5, WatchStep DEF Next, SaveInv
        <3>2. /\ Readable(AppList)' = Readable(AppList)
              /\ ConfigOn(AppList)' = ConfigOn(AppList)
            BY <2>1 DEF StartUp, Readable, Present, ConfigOn
        <3> QED BY <2>1, <3>1, <3>2 DEF StartUp, SaveInv, NoSaveUnnoticed,
                   handoffVars, Goto, AppList
    <2>2. CASE RestartThreads
        <3>1. lpc' = lpc /\ lastMode' = "power"
            BY <2>2 DEF RestartThreads, SaveInv, detectorVars
        <3>2. /\ Readable(AppList)' = Readable(AppList)
              /\ ConfigOn(AppList)' = ConfigOn(AppList)
            BY <2>2 DEF RestartThreads, filesVars, Readable, Present, ConfigOn
        <3> QED BY <2>2, <3>1, <3>2 DEF RestartThreads, SaveInv, filesVars,
                   handoffVars, Goto, WatchNotLost, NoSaveUnnoticed
    <2> QED BY <1>5, <2>1, <2>2, SaveMainLoop DEF Main
<1>6. CASE Fault
    BY <1>6, SaveLoader, SaveDetector DEF Fault
<1>7. CASE UNCHANGED vars
    BY <1>7, SaveStutter DEF vars, SaveUnchanged, filesVars, handoffVars,
       loaderVars, modeVars, mainVars, detectorVars
<1> QED BY <1>1, <1>2, <1>3, <1>4, <1>5, <1>6, <1>7 DEF Next

(* On a device that stays in power mode no save of applist.conf goes        *)
(* unnoticed while inotify is in use, however the editor saves it and       *)
(* however many saves fall into one second.                                 *)
THEOREM NoSaveGoesUnnoticed == ASSUME PowerOnly PROVE Spec => []NoSaveUnnoticed
<1>1. Init => SaveInv
    BY DEF Init, FilesInit, LoaderInit, DetectorInit, MainInit, SaveInv,
           WatchNotLost, NoSaveUnnoticed, ConfigOn, AppList
<1>2. SaveInv => NoSaveUnnoticed
    BY DEF SaveInv
<1>3. TypeOK /\ SaveInv /\ [Next]_vars => SaveInv'
    BY SaveStep
<1> QED BY <1>1, <1>2, <1>3, TypeCorrect, PTL DEF Spec
=============================================================================
