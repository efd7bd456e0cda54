------------------------------ MODULE ProcScan ------------------------------
(***************************************************************************)
(* The /proc engine: proc_mode.rs and its branch of the main loop.  Each   *)
(* round compares the number of tasks with that of the round before, looks *)
(* whether a followed process has died, and scans /proc only if one of     *)
(* them, or a new configuration, says so.  A scan looks at every process   *)
(* when scan_all_proc is set and else only at those already followed; the  *)
(* cache it fills is what affinity_sync binds.                             *)
(***************************************************************************)
EXTENDS RunningTasks

CONSTANT Growth     \* the 11 of cache_sync: growth in one round that counts

ASSUME GrowthAssumption == Growth \in Nat /\ Growth < Background

VARIABLES
    procUp,         \* proc_state is Some
    pcache,         \* the configuration each task's entry was made from
    scanAll,        \* scan_all_proc
    lastCount,      \* last_proc_count
    lastTotal,      \* last_proc_total
    tracked,        \* tracked_pids
    force           \* force_affinity

procVars == <<procUp, pcache, scanAll, lastCount, lastTotal, tracked, force>>

ProcTypeOK ==
    /\ procUp \in BOOLEAN
    /\ pcache \in [Tasks -> Configs \cup {NoConfig}]
    /\ scanAll \in BOOLEAN
    /\ lastCount \in Nat /\ lastTotal \in Nat
    /\ tracked \subseteq Tasks
    /\ force \in BOOLEAN

Empty == [t \in Tasks |-> NoConfig]
Cached(cache) == {t \in Tasks : cache[t] # NoConfig}

ProcInit ==
    /\ procUp = FALSE
    /\ pcache = Empty
    /\ scanAll = FALSE
    /\ lastCount = 0 /\ lastTotal = 0
    /\ tracked = {}
    /\ force = FALSE

\* sysinfo.procs, and the directories of /proc.
TaskCount == Background + Cardinality(alive)
ProcessCount == Background + Cardinality(alive \cap Mains)

\* Mutation: a new configuration does not ask for a whole scan.
NewConfigScansTracked(changed) == scanAll

NewConfigScansAll(changed) == scanAll \/ changed
LastCountSeen(changed) == IF changed THEN 0 ELSE lastCount

\* cache_sync's decision; get_or_insert_with makes the state if need be.
NeedScan(changed) ==
    \/ NewConfigScansAll(changed)
    \/ TaskCount > LastCountSeen(changed) + Growth
    \/ \E p \in tracked : p \notin alive

Sync(changed) ==
    /\ procUp' = TRUE
    /\ scanAll' = NewConfigScansAll(changed)
    /\ lastCount' = TaskCount
    /\ force' = (force \/ TaskCount > LastCountSeen(changed))
    /\ UNCHANGED <<pcache, lastTotal, tracked>>

\* Mutation: scan_all_proc is never set by the scan itself.
ScanAgain == FALSE
MoreProcesses == ProcessCount > lastTotal

\* proc_scan and what cache_sync does with its result.
Scan(c) ==
    LET seen == IF scanAll THEN Wanted(c) ELSE Wanted(c) \cap Threads(tracked)
    IN  /\ pcache' = [t \in Tasks |-> IF t \in seen THEN c ELSE NoConfig]
        /\ tracked' = {MainOf[t] : t \in seen}
        /\ scanAll' = MoreProcesses
        /\ lastTotal' = ProcessCount
        /\ force' = TRUE
        /\ UNCHANGED <<procUp, lastCount>>

\* Mutation: what has died stays in the cache.
ProcBindKeepsDead ==
    /\ bound' = BoundBy(pcache)
    /\ force' = FALSE
    /\ UNCHANGED <<procUp, pcache, scanAll, lastCount, lastTotal, tracked>>

\* affinity_sync: bind what is cached, drop what has died.
ProcBind ==
    /\ bound' = BoundBy(pcache)
    /\ pcache' = [t \in Tasks |-> IF t \in alive THEN pcache[t] ELSE NoConfig]
    /\ force' = FALSE
    /\ UNCHANGED <<procUp, scanAll, lastCount, lastTotal, tracked>>

\* Mutation: the /proc engine takes over with what it had.
ProcTakeOverAsItWas ==
    /\ procUp' = TRUE
    /\ lastCount' = 0
    /\ force' = TRUE
    /\ UNCHANGED <<pcache, scanAll, lastTotal, tracked>>

\* The event channel is gone: the next round scans everything.
ProcTakeOver ==
    /\ procUp' = TRUE
    /\ scanAll' = TRUE
    /\ lastCount' = 0
    /\ force' = TRUE
    /\ UNCHANGED <<pcache, lastTotal, tracked>>
=============================================================================
