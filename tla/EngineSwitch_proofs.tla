------------------------ MODULE EngineSwitch_proofs ------------------------
(***************************************************************************)
(* Type correctness of the two binding engines, and that neither goes on   *)
(* with a replaced configuration, for any tasks, configurations and bounds.*)
(***************************************************************************)
EXTENDS EngineSwitch, FiniteSetTheorems, TLAPS

\* What sysinfo and /proc count are numbers.
LEMMA CountsAreNumbers ==
    ASSUME alive \subseteq Tasks
    PROVE  TaskCount \in Nat /\ ProcessCount \in Nat
<1>1. IsFiniteSet(alive) /\ IsFiniteSet(alive \cap Mains)
  BY TasksAssumption, FS_Subset DEF TasksAssumption
<1>2. Cardinality(alive) \in Nat /\ Cardinality(alive \cap Mains) \in Nat
  BY <1>1, FS_CardinalityType
<1>. QED
  BY <1>2, TasksAssumption DEF TasksAssumption, TaskCount, ProcessCount

LEMMA TypeInit == Init => TypeOK
<1>. SUFFICES ASSUME Init PROVE TypeOK
  OBVIOUS
<1>1. TasksTypeOK
  BY TasksAssumption DEF Init, TasksAssumption, TasksInit, TasksTypeOK
<1>2. ProcTypeOK
  BY DEF Init, ProcInit, ProcTypeOK, Empty
<1>3. LoopTypeOK
  BY DEF Init, LoopTypeOK, Pcs
<1>4. EbpfTypeOK
  BY DEF Init, EbpfTypeOK, Empty
<1>. QED
  BY <1>1, <1>2, <1>3, <1>4 DEF TypeOK

LEMMA TasksTypeStep == TypeOK /\ [Next]_vars => TasksTypeOK'
<1>. SUFFICES ASSUME TypeOK, [Next]_vars PROVE TasksTypeOK'
  OBVIOUS
<1>. USE DEF TypeOK, TasksTypeOK, tasksVars, LoopTypeOK, EbpfTypeOK
<1>1. CASE TaskStart
  BY <1>1 DEF TaskStart, Start
<1>2. CASE TaskExit
  BY <1>2 DEF TaskExit, Exit
<1>3. CASE TaskUnbound
  BY <1>3 DEF TaskUnbound, Unbind
<1>4. CASE ScanForConfig
  BY <1>4 DEF ScanForConfig, FullScan, BoundBy
<1>5. CASE ScanAndEnable
  BY <1>5 DEF ScanAndEnable, FullScan, BoundBy
<1>6. CASE Receive
  BY <1>6 DEF Receive
<1>7. CASE AffinityCheck
  BY <1>7 DEF AffinityCheck, BoundBy
<1>8. CASE ProcBindStep
  <2>1. bound' \in [Tasks -> Configs \cup {NoConfig}]
    BY <1>8 DEF ProcBindStep, ProcBind, BoundBy, ProcTypeOK
  <2>2. alive' \subseteq Tasks /\ gone' \subseteq Tasks /\ burst' \subseteq Tasks
    BY <1>8 DEF ProcBindStep, ProcBind, BoundBy
  <2>3. starts' \in Nat /\ exits' \in Nat /\ unbinds' \in Nat
    BY <1>8 DEF ProcBindStep, ProcBind, BoundBy
  <2>. QED
    BY <2>1, <2>2, <2>3
<1>9. ASSUME UNCHANGED vars
     PROVE  TasksTypeOK'
  BY <1>9 DEF vars, tasksVars
<1>10. CASE SwapUpdated
  BY <1>10 DEF SwapUpdated
<1>11. CASE TakeSnapshot
  BY <1>11 DEF TakeSnapshot
<1>12. CASE FillWhitelist
  BY <1>12 DEF FillWhitelist
<1>13. CASE WhitelistFull
  BY <1>13 DEF WhitelistFull
<1>14. CASE InsertFails
  BY <1>14 DEF InsertFails
<1>15. CASE Reload
  BY <1>15 DEF Reload
<1>16. CASE ReloadFails
  BY <1>16 DEF ReloadFails
<1>17. CASE Retry
  BY <1>17 DEF Retry
<1>18. CASE NoRetry
  BY <1>18 DEF NoRetry
<1>19. CASE Refill
  BY <1>19 DEF Refill
<1>20. CASE RefillFails
  BY <1>20 DEF RefillFails
<1>21. CASE ChannelClosed
  BY <1>21 DEF ChannelClosed, BoundBy
<1>22. CASE CheckNotDue
  BY <1>22 DEF CheckNotDue
<1>23. CASE ProcSync
  BY <1>23 DEF ProcSync
<1>24. CASE ProcScanStep
  BY <1>24 DEF ProcScanStep
<1>25. CASE ProcBindNotDue
  BY <1>25 DEF ProcBindNotDue
<1>26. CASE Install
  BY <1>26 DEF Install
<1>27. CASE Publish
  BY <1>27 DEF Publish
<1>28. CASE UsableChanges
  BY <1>28 DEF UsableChanges
<1>29. CASE ReaderEnds
  BY <1>29 DEF ReaderEnds
<1>. QED
  BY <1>1, <1>2, <1>3, <1>4, <1>5, <1>6, <1>7, <1>8, <1>9, <1>10, <1>11, <1>12,
     <1>13, <1>14, <1>15, <1>16, <1>17, <1>18, <1>19, <1>20, <1>21, <1>22,
     <1>23, <1>24, <1>25, <1>26, <1>27, <1>28, <1>29
     DEF Next, Round, Environment

LEMMA ProcTypeStep == TypeOK /\ [Next]_vars => ProcTypeOK'
<1>. SUFFICES ASSUME TypeOK, [Next]_vars PROVE ProcTypeOK'
  OBVIOUS
<1>. USE DEF TypeOK, ProcTypeOK, procVars, TasksTypeOK, LoopTypeOK, EbpfTypeOK
<1>1. CASE ChannelClosed
  BY <1>1 DEF ChannelClosed, ProcTakeOver
<1>2. CASE ProcSync
  BY CountsAreNumbers, <1>2 DEF ProcSync, Sync, NewConfigScansAll
<1>3. CASE ProcScanStep
  <2>1. pcache' \in [Tasks -> Configs \cup {NoConfig}]
    BY <1>3 DEF ProcScanStep, Scan, MoreProcesses
  <2>2. tracked' \subseteq Tasks
    BY <1>3, TasksAssumption
       DEF ProcScanStep, Scan, Wanted, TasksAssumption
  <2>3. lastCount' \in Nat /\ lastTotal' \in Nat
    BY <1>3, CountsAreNumbers DEF ProcScanStep, Scan, MoreProcesses
  <2>4. procUp' \in BOOLEAN /\ scanAll' \in BOOLEAN /\ force' \in BOOLEAN
    BY <1>3 DEF ProcScanStep, Scan, MoreProcesses
  <2>. QED
    BY <2>1, <2>2, <2>3, <2>4
<1>4. CASE ProcBindStep
  BY <1>4 DEF ProcBindStep, ProcBind
<1>5. ASSUME UNCHANGED vars
     PROVE  ProcTypeOK'
  BY <1>5 DEF vars, procVars
<1>6. CASE SwapUpdated
  BY <1>6 DEF SwapUpdated
<1>7. CASE TakeSnapshot
  BY <1>7 DEF TakeSnapshot
<1>8. CASE FillWhitelist
  BY <1>8 DEF FillWhitelist
<1>9. CASE WhitelistFull
  BY <1>9 DEF WhitelistFull
<1>10. CASE InsertFails
  BY <1>10 DEF InsertFails
<1>11. CASE ScanForConfig
  BY <1>11 DEF ScanForConfig
<1>12. CASE Reload
  BY <1>12 DEF Reload
<1>13. CASE ReloadFails
  BY <1>13 DEF ReloadFails
<1>14. CASE Retry
  BY <1>14 DEF Retry
<1>15. CASE NoRetry
  BY <1>15 DEF NoRetry
<1>16. CASE Refill
  BY <1>16 DEF Refill
<1>17. CASE RefillFails
  BY <1>17 DEF RefillFails
<1>18. CASE ScanAndEnable
  BY <1>18 DEF ScanAndEnable
<1>19. CASE Receive
  BY <1>19 DEF Receive
<1>20. CASE AffinityCheck
  BY <1>20 DEF AffinityCheck
<1>21. CASE CheckNotDue
  BY <1>21 DEF CheckNotDue
<1>22. CASE ProcBindNotDue
  BY <1>22 DEF ProcBindNotDue
<1>23. CASE TaskStart
  BY <1>23 DEF TaskStart
<1>24. CASE TaskExit
  BY <1>24 DEF TaskExit
<1>25. CASE TaskUnbound
  BY <1>25 DEF TaskUnbound
<1>26. CASE Install
  BY <1>26 DEF Install
<1>27. CASE Publish
  BY <1>27 DEF Publish
<1>28. CASE UsableChanges
  BY <1>28 DEF UsableChanges
<1>29. CASE ReaderEnds
  BY <1>29 DEF ReaderEnds
<1>. QED
  BY <1>1, <1>2, <1>3, <1>4, <1>5, <1>6, <1>7, <1>8, <1>9, <1>10, <1>11, <1>12,
     <1>13, <1>14, <1>15, <1>16, <1>17, <1>18, <1>19, <1>20, <1>21, <1>22,
     <1>23, <1>24, <1>25, <1>26, <1>27, <1>28, <1>29
     DEF Next, Round, Environment

LEMMA LoopTypeStep == TypeOK /\ [Next]_vars => LoopTypeOK'
<1>. SUFFICES ASSUME TypeOK, [Next]_vars PROVE LoopTypeOK'
  OBVIOUS
<1>. USE DEF TypeOK, LoopTypeOK, ProcTypeOK, Pcs, Goto, loaderVars, roundVars,
             idleVars
<1>1. CASE SwapUpdated
  BY <1>1 DEF SwapUpdated
<1>2. CASE TakeSnapshot
  <2>1. current' \in Configs /\ edits' \in Nat
    BY <1>2 DEF TakeSnapshot
  <2>2. storing' \in BOOLEAN /\ updated' \in BOOLEAN
    BY <1>2 DEF TakeSnapshot
  <2>3. pc' \in Pcs
    BY <1>2 DEF TakeSnapshot
  <2>4. cfg' \in Configs \cup {NoConfig} /\ changed' \in BOOLEAN
    BY <1>2 DEF TakeSnapshot
  <2>5. pc' \notin {"swap", "snapshot"} => cfg' # NoConfig
    BY <1>2, TasksAssumption DEF TakeSnapshot, TasksAssumption
  <2>6. idle' \in Nat /\ waited' \in Nat /\ lost' \in BOOLEAN
    BY <1>2 DEF TakeSnapshot
  <2>. QED
    BY <2>1, <2>2, <2>3, <2>4, <2>5, <2>6
<1>3. CASE FillWhitelist
  BY <1>3 DEF FillWhitelist
<1>4. CASE WhitelistFull
  BY <1>4 DEF WhitelistFull
<1>5. CASE InsertFails
  BY <1>5 DEF InsertFails
<1>6. CASE ScanForConfig
  BY <1>6 DEF ScanForConfig
<1>7. CASE Reload
  BY <1>7 DEF Reload
<1>8. CASE ReloadFails
  BY <1>8 DEF ReloadFails, GiveUpReload, EndRound
<1>9. CASE Retry
  BY <1>9 DEF Retry
<1>10. CASE NoRetry
  BY <1>10 DEF NoRetry
<1>11. CASE Refill
  BY <1>11 DEF Refill
<1>12. CASE RefillFails
  BY <1>12 DEF RefillFails, GiveUpReload, EndRound
<1>13. CASE ScanAndEnable
  BY <1>13 DEF ScanAndEnable, EndRound
<1>14. CASE Receive
  BY <1>14 DEF Receive
<1>15. CASE ChannelClosed
  BY <1>15 DEF ChannelClosed, EndRound
<1>16. CASE AffinityCheck
  BY <1>16 DEF AffinityCheck, EndRound
<1>17. CASE CheckNotDue
  <2>1. current' \in Configs /\ edits' \in Nat
    BY <1>17 DEF CheckNotDue, EndRound
  <2>2. storing' \in BOOLEAN /\ updated' \in BOOLEAN
    BY <1>17 DEF CheckNotDue, EndRound
  <2>3. pc' \in Pcs
    BY <1>17 DEF CheckNotDue, EndRound
  <2>4. cfg' \in Configs \cup {NoConfig} /\ changed' \in BOOLEAN
    BY <1>17 DEF CheckNotDue, EndRound
  <2>5. pc' \notin {"swap", "snapshot"} => cfg' # NoConfig
    BY <1>17 DEF CheckNotDue, EndRound
  <2>6. idle' \in Nat /\ waited' \in Nat /\ lost' \in BOOLEAN
    BY <1>17 DEF CheckNotDue, EndRound
  <2>. QED
    BY <2>1, <2>2, <2>3, <2>4, <2>5, <2>6
<1>18. CASE ProcSync
  BY <1>18 DEF ProcSync
<1>19. CASE ProcScanStep
  BY <1>19 DEF ProcScanStep
<1>20. CASE ProcBindStep
  BY <1>20 DEF ProcBindStep, EndRound
<1>21. CASE ProcBindNotDue
  <2>1. current' \in Configs /\ edits' \in Nat
    BY <1>21 DEF ProcBindNotDue, EndRound
  <2>2. storing' \in BOOLEAN /\ updated' \in BOOLEAN
    BY <1>21 DEF ProcBindNotDue, EndRound
  <2>3. pc' \in Pcs
    BY <1>21 DEF ProcBindNotDue, EndRound
  <2>4. cfg' \in Configs \cup {NoConfig} /\ changed' \in BOOLEAN
    BY <1>21 DEF ProcBindNotDue, EndRound
  <2>5. pc' \notin {"swap", "snapshot"} => cfg' # NoConfig
    BY <1>21 DEF ProcBindNotDue, EndRound
  <2>6. idle' \in Nat /\ waited' \in Nat /\ lost' \in BOOLEAN
    BY <1>21 DEF ProcBindNotDue, EndRound
  <2>. QED
    BY <2>1, <2>2, <2>3, <2>4, <2>5, <2>6
<1>22. CASE TaskStart
  BY <1>22 DEF TaskStart
<1>23. CASE TaskExit
  BY <1>23 DEF TaskExit
<1>24. CASE TaskUnbound
  BY <1>24 DEF TaskUnbound
<1>25. CASE Install
  BY <1>25 DEF Install
<1>26. CASE Publish
  BY <1>26 DEF Publish
<1>27. CASE UsableChanges
  BY <1>27 DEF UsableChanges
<1>28. CASE ReaderEnds
  BY <1>28 DEF ReaderEnds
<1>29. CASE UNCHANGED vars
  BY <1>29 DEF vars
<1>. QED
  BY <1>1, <1>2, <1>3, <1>4, <1>5, <1>6, <1>7, <1>8, <1>9, <1>10, <1>11, <1>12,
     <1>13, <1>14, <1>15, <1>16, <1>17, <1>18, <1>19, <1>20, <1>21, <1>22,
     <1>23, <1>24, <1>25, <1>26, <1>27, <1>28, <1>29
     DEF Next, Round, Environment

LEMMA EbpfTypeStep == TypeOK /\ [Next]_vars => EbpfTypeOK'
<1>. SUFFICES ASSUME TypeOK, [Next]_vars PROVE EbpfTypeOK'
  OBVIOUS
<1>. USE DEF TypeOK, EbpfTypeOK, TasksTypeOK, LoopTypeOK, ebpfVars
<1>1. CASE SwapUpdated
  BY <1>1 DEF SwapUpdated
<1>2. CASE TakeSnapshot
  BY <1>2 DEF TakeSnapshot
<1>3. CASE FillWhitelist
  BY <1>3 DEF FillWhitelist
<1>4. CASE WhitelistFull
  BY <1>4 DEF WhitelistFull
<1>5. CASE InsertFails
  BY <1>5 DEF InsertFails
<1>6. CASE ScanForConfig
  BY <1>6 DEF ScanForConfig, FullScan
<1>7. CASE Reload
  <2>1. usable' \in BOOLEAN /\ faults' \in Nat
    BY <1>7 DEF Reload, Load, Empty
  <2>2. on' \in BOOLEAN /\ retrying' \in BOOLEAN
    BY <1>7 DEF Reload, Load, Empty
  <2>3. reader' \in BOOLEAN /\ capacity' \in BOOLEAN
    BY <1>7 DEF Reload, Load, Empty
  <2>4. filled' \in Configs \cup {NoConfig}
    BY <1>7 DEF Reload, Load, Empty
  <2>5. ecache' \in [Tasks -> Configs \cup {NoConfig}]
    BY <1>7 DEF Reload, Load, Empty
  <2>6. unread' \subseteq Tasks
    BY <1>7 DEF Reload, Load, Empty
  <2>. QED
    BY <2>1, <2>2, <2>3, <2>4, <2>5, <2>6
<1>8. CASE ReloadFails
  BY <1>8 DEF ReloadFails, Dropped, Empty
<1>9. CASE Retry
  BY <1>9 DEF Retry, Load, Empty
<1>10. CASE NoRetry
  BY <1>10 DEF NoRetry
<1>11. CASE Refill
  BY <1>11 DEF Refill
<1>12. CASE RefillFails
  <2>1. usable' \in BOOLEAN /\ faults' \in Nat
    BY <1>12 DEF RefillFails, Dropped, Empty
  <2>2. on' \in BOOLEAN /\ retrying' \in BOOLEAN
    BY <1>12 DEF RefillFails, Dropped, Empty
  <2>3. reader' \in BOOLEAN /\ capacity' \in BOOLEAN
    BY <1>12 DEF RefillFails, Dropped, Empty
  <2>4. filled' \in Configs \cup {NoConfig}
    BY <1>12 DEF RefillFails, Dropped, Empty
  <2>5. ecache' \in [Tasks -> Configs \cup {NoConfig}]
    BY <1>12 DEF RefillFails, Dropped, Empty
  <2>6. unread' \subseteq Tasks
    BY <1>12 DEF RefillFails, Dropped, Empty
  <2>. QED
    BY <2>1, <2>2, <2>3, <2>4, <2>5, <2>6
<1>13. CASE ScanAndEnable
  BY <1>13 DEF ScanAndEnable, FullScan
<1>14. CASE Receive
  BY <1>14 DEF Receive
<1>15. CASE ChannelClosed
  BY <1>15 DEF ChannelClosed, Dropped, Empty
<1>16. CASE AffinityCheck
  BY <1>16 DEF AffinityCheck
<1>17. CASE CheckNotDue
  BY <1>17 DEF CheckNotDue
<1>18. CASE ProcSync
  BY <1>18 DEF ProcSync
<1>19. CASE ProcScanStep
  BY <1>19 DEF ProcScanStep
<1>20. CASE ProcBindStep
  BY <1>20 DEF ProcBindStep
<1>21. CASE ProcBindNotDue
  BY <1>21 DEF ProcBindNotDue
<1>22. CASE TaskStart
  BY <1>22 DEF TaskStart, Start
<1>23. CASE TaskExit
  BY <1>23 DEF TaskExit, Exit
<1>24. CASE TaskUnbound
  BY <1>24 DEF TaskUnbound
<1>25. CASE Install
  BY <1>25 DEF Install
<1>26. CASE Publish
  BY <1>26 DEF Publish
<1>27. CASE UsableChanges
  BY <1>27 DEF UsableChanges
<1>28. CASE ReaderEnds
  <2>1. usable' \in BOOLEAN /\ faults' \in Nat
    BY <1>28 DEF ReaderEnds
  <2>2. on' \in BOOLEAN /\ retrying' \in BOOLEAN
    BY <1>28 DEF ReaderEnds
  <2>3. reader' \in BOOLEAN /\ capacity' \in BOOLEAN
    BY <1>28 DEF ReaderEnds
  <2>4. filled' \in Configs \cup {NoConfig}
    BY <1>28 DEF ReaderEnds
  <2>5. ecache' \in [Tasks -> Configs \cup {NoConfig}]
    BY <1>28 DEF ReaderEnds
  <2>6. unread' \subseteq Tasks
    BY <1>28 DEF ReaderEnds
  <2>. QED
    BY <2>1, <2>2, <2>3, <2>4, <2>5, <2>6
<1>29. CASE UNCHANGED vars
  BY <1>29 DEF vars
<1>. QED
  BY <1>1, <1>2, <1>3, <1>4, <1>5, <1>6, <1>7, <1>8, <1>9, <1>10, <1>11, <1>12,
     <1>13, <1>14, <1>15, <1>16, <1>17, <1>18, <1>19, <1>20, <1>21, <1>22,
     <1>23, <1>24, <1>25, <1>26, <1>27, <1>28, <1>29
     DEF Next, Round, Environment

(***************************************************************************)
(* What the properties rest on: where the eBPF engine is on, that a round  *)
(* past its snapshot works with the current configuration unless another   *)
(* change is on its way, and what the whitelist and the /proc cache hold.  *)
(***************************************************************************)
Underway == storing \/ updated

WhenOn ==
    /\ pc \in {"fill", "scan", "reload", "receive", "check"} => on
    /\ pc \in {"retry", "refill", "rescan"} => ~on
    /\ pc \in {"fill", "scan", "reload"} => changed
    /\ pc = "swap" => ~changed

SnapshotCurrent ==
    pc \notin {"swap", "snapshot"} => cfg = current \/ Underway

Filled ==
    /\ pc \in {"scan", "rescan"} => filled = cfg

\* A reload leaves the /proc engine's share of the round out.
Reloading == pc \in {"refill", "rescan"} /\ ~retrying

ProcCacheCurrent ==
    procUp /\ ~on /\ ~Reloading
    => \/ Underway \/ scanAll \/ lost
       \/ changed /\ pc # "proc_bind"
       \/ \A t \in Cached(pcache) : pcache[t] = current

\* Before its first round the /proc engine has found nothing.
NothingYet ==
    /\ ~procUp => pcache = Empty
    /\ pc \in {"proc_scan", "proc_bind"} => procUp

IInv == /\ TypeOK /\ NothingYet /\ WhenOn /\ SnapshotCurrent /\ Filled
        /\ EbpfFollowsConfig /\ ProcCacheCurrent

LEMMA WhenOnStep == WhenOn /\ [Next]_vars => WhenOn'
<1>. SUFFICES ASSUME WhenOn, [Next]_vars PROVE WhenOn'
  OBVIOUS
<1>. USE DEF WhenOn, Goto, roundVars, ebpfVars
<1>1. CASE SwapUpdated
  BY <1>1 DEF SwapUpdated
<1>2. CASE TakeSnapshot
  BY <1>2 DEF TakeSnapshot
<1>3. CASE FillWhitelist
  BY <1>3 DEF FillWhitelist
<1>4. CASE WhitelistFull
  BY <1>4 DEF WhitelistFull
<1>5. CASE InsertFails
  BY <1>5 DEF InsertFails
<1>6. CASE ScanForConfig
  BY <1>6 DEF ScanForConfig
<1>7. CASE Reload
  BY <1>7 DEF Reload, Load
<1>8. CASE ReloadFails
  BY <1>8 DEF ReloadFails, GiveUpReload, EndRound, Dropped
<1>9. CASE Retry
  BY <1>9 DEF Retry, Load
<1>10. CASE NoRetry
  BY <1>10 DEF NoRetry
<1>11. CASE Refill
  BY <1>11 DEF Refill
<1>12. CASE RefillFails
  BY <1>12 DEF RefillFails, GiveUpReload, EndRound, Dropped
<1>13. CASE ScanAndEnable
  BY <1>13 DEF ScanAndEnable, EndRound
<1>14. CASE Receive
  BY <1>14 DEF Receive
<1>15. CASE ChannelClosed
  BY <1>15 DEF ChannelClosed, EndRound, Dropped
<1>16. CASE AffinityCheck
  BY <1>16 DEF AffinityCheck, EndRound
<1>17. CASE CheckNotDue
  BY <1>17 DEF CheckNotDue, EndRound
<1>18. CASE ProcSync
  BY <1>18 DEF ProcSync
<1>19. CASE ProcScanStep
  BY <1>19 DEF ProcScanStep
<1>20. CASE ProcBindStep
  BY <1>20 DEF ProcBindStep, EndRound
<1>21. CASE ProcBindNotDue
  BY <1>21 DEF ProcBindNotDue, EndRound
<1>22. CASE TaskStart
  BY <1>22 DEF TaskStart
<1>23. CASE TaskExit
  BY <1>23 DEF TaskExit
<1>24. CASE TaskUnbound
  BY <1>24 DEF TaskUnbound
<1>25. CASE Install
  BY <1>25 DEF Install
<1>26. CASE Publish
  BY <1>26 DEF Publish
<1>27. CASE UsableChanges
  BY <1>27 DEF UsableChanges
<1>28. CASE ReaderEnds
  BY <1>28 DEF ReaderEnds
<1>29. CASE UNCHANGED vars
  BY <1>29 DEF vars
<1>. QED
  BY <1>1, <1>2, <1>3, <1>4, <1>5, <1>6, <1>7, <1>8, <1>9, <1>10, <1>11, <1>12,
     <1>13, <1>14, <1>15, <1>16, <1>17, <1>18, <1>19, <1>20, <1>21, <1>22,
     <1>23, <1>24, <1>25, <1>26, <1>27, <1>28, <1>29
     DEF Next, Round, Environment

LEMMA SnapshotStep == SnapshotCurrent /\ [Next]_vars => SnapshotCurrent'
<1>. SUFFICES ASSUME SnapshotCurrent, [Next]_vars PROVE SnapshotCurrent'
  OBVIOUS
<1>. USE DEF SnapshotCurrent, Underway, Goto, loaderVars, roundVars
<1>1. CASE SwapUpdated
  BY <1>1 DEF SwapUpdated
<1>2. CASE TakeSnapshot
  BY <1>2 DEF TakeSnapshot
<1>3. CASE FillWhitelist
  BY <1>3 DEF FillWhitelist
<1>4. CASE WhitelistFull
  BY <1>4 DEF WhitelistFull
<1>5. CASE InsertFails
  BY <1>5 DEF InsertFails
<1>6. CASE ScanForConfig
  BY <1>6 DEF ScanForConfig
<1>7. CASE Reload
  BY <1>7 DEF Reload
<1>8. CASE ReloadFails
  BY <1>8 DEF ReloadFails, GiveUpReload, EndRound
<1>9. CASE Retry
  BY <1>9 DEF Retry
<1>10. CASE NoRetry
  BY <1>10 DEF NoRetry
<1>11. CASE Refill
  BY <1>11 DEF Refill
<1>12. CASE RefillFails
  BY <1>12 DEF RefillFails, GiveUpReload, EndRound
<1>13. CASE ScanAndEnable
  BY <1>13 DEF ScanAndEnable, EndRound
<1>14. CASE Receive
  BY <1>14 DEF Receive
<1>15. CASE ChannelClosed
  BY <1>15 DEF ChannelClosed, EndRound
<1>16. CASE AffinityCheck
  BY <1>16 DEF AffinityCheck, EndRound
<1>17. CASE CheckNotDue
  BY <1>17 DEF CheckNotDue, EndRound
<1>18. CASE ProcSync
  BY <1>18 DEF ProcSync
<1>19. CASE ProcScanStep
  BY <1>19 DEF ProcScanStep
<1>20. CASE ProcBindStep
  BY <1>20 DEF ProcBindStep, EndRound
<1>21. CASE ProcBindNotDue
  BY <1>21 DEF ProcBindNotDue, EndRound
<1>22. CASE TaskStart
  BY <1>22 DEF TaskStart
<1>23. CASE TaskExit
  BY <1>23 DEF TaskExit
<1>24. CASE TaskUnbound
  BY <1>24 DEF TaskUnbound
<1>25. CASE Install
  BY <1>25 DEF Install
<1>26. CASE Publish
  BY <1>26 DEF Publish
<1>27. CASE UsableChanges
  BY <1>27 DEF UsableChanges
<1>28. CASE ReaderEnds
  BY <1>28 DEF ReaderEnds
<1>29. CASE UNCHANGED vars
  BY <1>29 DEF vars
<1>. QED
  BY <1>1, <1>2, <1>3, <1>4, <1>5, <1>6, <1>7, <1>8, <1>9, <1>10, <1>11, <1>12,
     <1>13, <1>14, <1>15, <1>16, <1>17, <1>18, <1>19, <1>20, <1>21, <1>22,
     <1>23, <1>24, <1>25, <1>26, <1>27, <1>28, <1>29
     DEF Next, Round, Environment

LEMMA FilledStep == Filled /\ [Next]_vars => Filled'
<1>. SUFFICES ASSUME Filled, [Next]_vars PROVE Filled'
  OBVIOUS
<1>. USE DEF Filled, Goto, roundVars, ebpfVars
<1>1. CASE SwapUpdated
  BY <1>1 DEF SwapUpdated
<1>2. CASE TakeSnapshot
  BY <1>2 DEF TakeSnapshot
<1>3. CASE FillWhitelist
  <2>1. filled' = cfg
    BY <1>3 DEF FillWhitelist
  <2>2. cfg' = cfg
    BY <1>3 DEF FillWhitelist
  <2>. QED
    BY <2>1, <2>2
<1>4. CASE WhitelistFull
  BY <1>4 DEF WhitelistFull
<1>5. CASE InsertFails
  BY <1>5 DEF InsertFails
<1>6. CASE ScanForConfig
  BY <1>6 DEF ScanForConfig
<1>7. CASE Reload
  BY <1>7 DEF Reload, Load
<1>8. CASE ReloadFails
  BY <1>8 DEF ReloadFails, GiveUpReload, EndRound, Dropped
<1>9. CASE Retry
  BY <1>9 DEF Retry, Load
<1>10. CASE NoRetry
  BY <1>10 DEF NoRetry
<1>11. CASE Refill
  BY <1>11 DEF Refill
<1>12. CASE RefillFails
  BY <1>12 DEF RefillFails, GiveUpReload, EndRound, Dropped
<1>13. CASE ScanAndEnable
  BY <1>13 DEF ScanAndEnable, EndRound
<1>14. CASE Receive
  BY <1>14 DEF Receive
<1>15. CASE ChannelClosed
  BY <1>15 DEF ChannelClosed, EndRound, Dropped
<1>16. CASE AffinityCheck
  BY <1>16 DEF AffinityCheck, EndRound
<1>17. CASE CheckNotDue
  BY <1>17 DEF CheckNotDue, EndRound
<1>18. CASE ProcSync
  BY <1>18 DEF ProcSync
<1>19. CASE ProcScanStep
  BY <1>19 DEF ProcScanStep
<1>20. CASE ProcBindStep
  BY <1>20 DEF ProcBindStep, EndRound
<1>21. CASE ProcBindNotDue
  BY <1>21 DEF ProcBindNotDue, EndRound
<1>22. CASE TaskStart
  BY <1>22 DEF TaskStart
<1>23. CASE TaskExit
  BY <1>23 DEF TaskExit
<1>24. CASE TaskUnbound
  BY <1>24 DEF TaskUnbound
<1>25. CASE Install
  BY <1>25 DEF Install
<1>26. CASE Publish
  BY <1>26 DEF Publish
<1>27. CASE UsableChanges
  BY <1>27 DEF UsableChanges
<1>28. CASE ReaderEnds
  BY <1>28 DEF ReaderEnds
<1>29. CASE UNCHANGED vars
  BY <1>29 DEF vars
<1>. QED
  BY <1>1, <1>2, <1>3, <1>4, <1>5, <1>6, <1>7, <1>8, <1>9, <1>10, <1>11, <1>12,
     <1>13, <1>14, <1>15, <1>16, <1>17, <1>18, <1>19, <1>20, <1>21, <1>22,
     <1>23, <1>24, <1>25, <1>26, <1>27, <1>28, <1>29
     DEF Next, Round, Environment

LEMMA NothingYetStep == NothingYet /\ [Next]_vars => NothingYet'
<1>. SUFFICES ASSUME NothingYet, [Next]_vars PROVE NothingYet'
  OBVIOUS
<1>. USE DEF NothingYet, Empty, Goto, procVars
<1>1. CASE SwapUpdated
  BY <1>1 DEF SwapUpdated
<1>2. CASE TakeSnapshot
  BY <1>2 DEF TakeSnapshot
<1>3. CASE FillWhitelist
  BY <1>3 DEF FillWhitelist
<1>4. CASE WhitelistFull
  BY <1>4 DEF WhitelistFull
<1>5. CASE InsertFails
  BY <1>5 DEF InsertFails
<1>6. CASE ScanForConfig
  BY <1>6 DEF ScanForConfig
<1>7. CASE Reload
  BY <1>7 DEF Reload
<1>8. CASE ReloadFails
  BY <1>8 DEF ReloadFails, GiveUpReload, EndRound
<1>9. CASE Retry
  BY <1>9 DEF Retry
<1>10. CASE NoRetry
  BY <1>10 DEF NoRetry
<1>11. CASE Refill
  BY <1>11 DEF Refill
<1>12. CASE RefillFails
  BY <1>12 DEF RefillFails, GiveUpReload, EndRound
<1>13. CASE ScanAndEnable
  BY <1>13 DEF ScanAndEnable, EndRound
<1>14. CASE Receive
  BY <1>14 DEF Receive
<1>15. CASE ChannelClosed
  BY <1>15 DEF ChannelClosed, EndRound, ProcTakeOver
<1>16. CASE AffinityCheck
  BY <1>16 DEF AffinityCheck, EndRound
<1>17. CASE CheckNotDue
  BY <1>17 DEF CheckNotDue, EndRound
<1>18. CASE ProcSync
  BY <1>18 DEF ProcSync, Sync
<1>19. CASE ProcScanStep
  BY <1>19 DEF ProcScanStep, Scan
<1>20. CASE ProcBindStep
  BY <1>20 DEF ProcBindStep, EndRound, ProcBind
<1>21. CASE ProcBindNotDue
  BY <1>21 DEF ProcBindNotDue, EndRound
<1>22. CASE TaskStart
  BY <1>22 DEF TaskStart
<1>23. CASE TaskExit
  BY <1>23 DEF TaskExit
<1>24. CASE TaskUnbound
  BY <1>24 DEF TaskUnbound
<1>25. CASE Install
  BY <1>25 DEF Install
<1>26. CASE Publish
  BY <1>26 DEF Publish
<1>27. CASE UsableChanges
  BY <1>27 DEF UsableChanges
<1>28. CASE ReaderEnds
  BY <1>28 DEF ReaderEnds
<1>29. CASE UNCHANGED vars
  BY <1>29 DEF vars
<1>. QED
  BY <1>1, <1>2, <1>3, <1>4, <1>5, <1>6, <1>7, <1>8, <1>9, <1>10, <1>11, <1>12,
     <1>13, <1>14, <1>15, <1>16, <1>17, <1>18, <1>19, <1>20, <1>21, <1>22,
     <1>23, <1>24, <1>25, <1>26, <1>27, <1>28, <1>29
     DEF Next, Round, Environment

LEMMA EbpfStep == IInv /\ [Next]_vars => EbpfFollowsConfig'
<1>. SUFFICES ASSUME IInv, [Next]_vars PROVE EbpfFollowsConfig'
  OBVIOUS
<1>. USE DEF IInv, EbpfFollowsConfig, Pending, Underway, Cached, WhenOn, Goto,
             loaderVars, roundVars, ebpfVars
<1>1. CASE SwapUpdated
  BY <1>1 DEF SwapUpdated
<1>2. CASE TakeSnapshot
  BY <1>2 DEF TakeSnapshot
<1>3. CASE FillWhitelist
  BY <1>3 DEF FillWhitelist, SnapshotCurrent
<1>4. CASE WhitelistFull
  BY <1>4 DEF WhitelistFull
<1>5. CASE InsertFails
  BY <1>5 DEF InsertFails
<1>6. CASE ScanForConfig
  BY <1>6 DEF ScanForConfig, FullScan, SnapshotCurrent, Filled, Wanted
<1>7. CASE Reload
  BY <1>7 DEF Reload, Load
<1>8. CASE ReloadFails
  BY <1>8 DEF ReloadFails, GiveUpReload, EndRound, Dropped
<1>9. CASE Retry
  BY <1>9 DEF Retry, Load
<1>10. CASE NoRetry
  BY <1>10 DEF NoRetry
<1>11. CASE Refill
  BY <1>11 DEF Refill
<1>12. CASE RefillFails
  BY <1>12 DEF RefillFails, GiveUpReload, EndRound, Dropped
<1>13. CASE ScanAndEnable
  BY <1>13 DEF ScanAndEnable, EndRound, FullScan, SnapshotCurrent, Filled
<1>14. CASE Receive
  BY <1>14 DEF Receive, SnapshotCurrent
<1>15. CASE ChannelClosed
  BY <1>15 DEF ChannelClosed, EndRound, Dropped
<1>16. CASE AffinityCheck
  BY <1>16 DEF AffinityCheck, EndRound
<1>17. CASE CheckNotDue
  BY <1>17 DEF CheckNotDue, EndRound
<1>18. CASE ProcSync
  BY <1>18 DEF ProcSync
<1>19. CASE ProcScanStep
  BY <1>19 DEF ProcScanStep
<1>20. CASE ProcBindStep
  BY <1>20 DEF ProcBindStep, EndRound
<1>21. CASE ProcBindNotDue
  BY <1>21 DEF ProcBindNotDue, EndRound
<1>22. CASE TaskStart
  BY <1>22 DEF TaskStart
<1>23. CASE TaskExit
  BY <1>23 DEF TaskExit
<1>24. CASE TaskUnbound
  BY <1>24 DEF TaskUnbound
<1>25. CASE Install
  BY <1>25 DEF Install
<1>26. CASE Publish
  BY <1>26 DEF Publish
<1>27. CASE UsableChanges
  BY <1>27 DEF UsableChanges
<1>28. CASE ReaderEnds
  BY <1>28 DEF ReaderEnds
<1>29. CASE UNCHANGED vars
  BY <1>29 DEF vars
<1>. QED
  BY <1>1, <1>2, <1>3, <1>4, <1>5, <1>6, <1>7, <1>8, <1>9, <1>10, <1>11, <1>12,
     <1>13, <1>14, <1>15, <1>16, <1>17, <1>18, <1>19, <1>20, <1>21, <1>22,
     <1>23, <1>24, <1>25, <1>26, <1>27, <1>28, <1>29
     DEF Next, Round, Environment

LEMMA ProcStep == IInv /\ [Next]_vars => ProcCacheCurrent'
<1>. SUFFICES ASSUME IInv, [Next]_vars PROVE ProcCacheCurrent'
  OBVIOUS
<1>. USE DEF IInv, ProcCacheCurrent, Reloading, Underway, Cached, WhenOn, Goto,
             loaderVars, roundVars, ebpfVars, procVars
<1>1. CASE SwapUpdated
  BY <1>1 DEF SwapUpdated, WhenOn
<1>2. CASE TakeSnapshot
  BY <1>2 DEF TakeSnapshot
<1>3. CASE FillWhitelist
  BY <1>3 DEF FillWhitelist
<1>4. CASE WhitelistFull
  BY <1>4 DEF WhitelistFull
<1>5. CASE InsertFails
  BY <1>5 DEF InsertFails
<1>6. CASE ScanForConfig
  BY <1>6 DEF ScanForConfig
<1>7. CASE Reload
  BY <1>7 DEF Reload, Load
<1>8. CASE ReloadFails
  BY <1>8 DEF ReloadFails, GiveUpReload, EndRound, Dropped
<1>9. CASE Retry
  BY <1>9 DEF Retry, Load
<1>10. CASE NoRetry
  BY <1>10 DEF NoRetry
<1>11. CASE Refill
  BY <1>11 DEF Refill
<1>12. CASE RefillFails
  BY <1>12 DEF RefillFails, GiveUpReload, EndRound, Dropped
<1>13. CASE ScanAndEnable
  BY <1>13 DEF ScanAndEnable, EndRound
<1>14. CASE Receive
  BY <1>14 DEF Receive
<1>15. CASE ChannelClosed
  BY <1>15 DEF ChannelClosed, EndRound, Dropped, ProcTakeOver
<1>16. CASE AffinityCheck
  BY <1>16 DEF AffinityCheck, EndRound
<1>17. CASE CheckNotDue
  BY <1>17 DEF CheckNotDue, EndRound
<1>18. CASE ProcSync
  BY <1>18 DEF ProcSync, Sync, NeedScan, NewConfigScansAll, NothingYet, Empty
<1>19. CASE ProcScanStep
  BY <1>19 DEF ProcScanStep, Scan, SnapshotCurrent
<1>20. CASE ProcBindStep
  BY <1>20 DEF ProcBindStep, EndRound, ProcBind
<1>21. CASE ProcBindNotDue
  BY <1>21 DEF ProcBindNotDue, EndRound
<1>22. CASE TaskStart
  BY <1>22 DEF TaskStart
<1>23. CASE TaskExit
  BY <1>23 DEF TaskExit
<1>24. CASE TaskUnbound
  BY <1>24 DEF TaskUnbound
<1>25. CASE Install
  BY <1>25 DEF Install
<1>26. CASE Publish
  BY <1>26 DEF Publish
<1>27. CASE UsableChanges
  BY <1>27 DEF UsableChanges
<1>28. CASE ReaderEnds
  BY <1>28 DEF ReaderEnds
<1>29. CASE UNCHANGED vars
  BY <1>29 DEF vars
<1>. QED
  BY <1>1, <1>2, <1>3, <1>4, <1>5, <1>6, <1>7, <1>8, <1>9, <1>10, <1>11, <1>12,
     <1>13, <1>14, <1>15, <1>16, <1>17, <1>18, <1>19, <1>20, <1>21, <1>22,
     <1>23, <1>24, <1>25, <1>26, <1>27, <1>28, <1>29
     DEF Next, Round, Environment

LEMMA IInvInit == Init => IInv
<1>. SUFFICES ASSUME Init PROVE IInv
  OBVIOUS
<1>1. TypeOK
  BY TypeInit
<1>2. WhenOn /\ SnapshotCurrent /\ Filled
  BY DEF Init, WhenOn, SnapshotCurrent, Filled
<1>3. NothingYet /\ ProcCacheCurrent
  BY DEF Init, ProcInit, NothingYet, ProcCacheCurrent
<1>4. EbpfFollowsConfig
  BY DEF Init, EbpfFollowsConfig, Pending
<1>. QED
  BY <1>1, <1>2, <1>3, <1>4 DEF IInv

LEMMA IInvStep == IInv /\ [Next]_vars => IInv'
<1>. SUFFICES ASSUME IInv, [Next]_vars PROVE IInv'
  OBVIOUS
<1>1. TypeOK'
  BY TasksTypeStep, ProcTypeStep, LoopTypeStep, EbpfTypeStep DEF IInv, TypeOK
<1>2. WhenOn' /\ SnapshotCurrent' /\ Filled' /\ NothingYet'
  BY WhenOnStep, SnapshotStep, FilledStep, NothingYetStep DEF IInv
<1>3. EbpfFollowsConfig' /\ ProcCacheCurrent'
  BY EbpfStep, ProcStep
<1>. QED
  BY <1>1, <1>2, <1>3 DEF IInv

LEMMA Invariance == Spec => []IInv
BY IInvInit, IInvStep, PTL DEF Spec

\* Every reachable state is well typed.
THEOREM TypeCorrect == Spec => []TypeOK
<1>1. IInv => TypeOK
  BY DEF IInv
<1>. QED
  BY Invariance, <1>1, PTL

\* The eBPF engine never goes on with a replaced configuration: whatever is
\* installed while it is filled, scans, is loaded again or retried.
THEOREM EbpfAlwaysFollowsConfig == Spec => []EbpfFollowsConfig
<1>1. IInv => EbpfFollowsConfig
  BY DEF IInv
<1>. QED
  BY Invariance, <1>1, PTL

\* Nor does the /proc engine, whether it runs from the start or stands in for
\* the other one, unless a reload failed after it had been used (lost).
THEOREM ProcAlwaysFollowsConfig == Spec => []ProcFollowsConfig
<1>1. IInv => ProcFollowsConfig
  BY DEF IInv, ProcFollowsConfig, ProcCacheCurrent, Reloading, Underway,
     Pending
<1>. QED
  BY Invariance, <1>1, PTL
=============================================================================
