---------------------------- MODULE EbpfTracking ----------------------------
(***************************************************************************)
(* The user side of the eBPF engine (ebpf_mode.rs with cache.rs), run by   *)
(* the main loop: it fills the whitelist and scans /proc when the          *)
(* configuration changed, binds threads as their events arrive, and binds  *)
(* all of them again from time to time.                                    *)
(*                                                                         *)
(* A configuration is what it says about the one package: the thread names *)
(* that have rules, and whether there is a rule for the package.  Every    *)
(* access to a map or task the kernel shares is a step.                    *)
(***************************************************************************)
EXTENDS TaskEvents

CONSTANT
    Configs   \* the configurations the user saves

ASSUME ConfigAssumption ==
    Configs \subseteq [threads : SUBSET ThreadNames, pkg : BOOLEAN]

VARIABLES
    current,       \* the configuration the main loop hands over
    storing,       \* it is stored, its flag not yet raised
    configChanged, \* the flag
    cfg,           \* the round's snapshot of it
    cache,         \* ProcCache.tasks: the rule each tid was bound by
    pc,            \* where the main thread is
    cur,           \* the event or the scanned thread at hand
    cursor,        \* the pid the scan is at
    todo,          \* the threads of that process still to scan
    dead,          \* tids affinity_sync found gone
    due            \* the interval between two checks has passed

configVars == <<current, storing, configChanged>>
scanVars   == <<cursor, todo>>
engineVars == <<cfg, cache, pc, cur, scanVars, dead>>
vars       == <<kernelVars, configVars, engineVars, due>>

Listed(c)    == c.pkg \/ c.threads # {}
CommKeys(c)  == IF Listed(c) THEN {App} ELSE {}

\* thread_affinity for the listed package: a rule for the name, else the
\* package's rule, else all cores.  The rule stands for its set of CPUs.
ThreadAffinity(c, name) ==
    IF name \in c.threads
    THEN [cfg |-> c, by |-> name, isThread |-> TRUE]
    ELSE [cfg |-> c, by |-> IF c.pkg THEN "package" ELSE "all", isThread |-> FALSE]

Rules   == [cfg : Configs, by : ThreadNames \cup {"package", "all"}, isThread : BOOLEAN]
NoEvent == [type |-> "none", pid |-> 1, tid |-> 1, comm |-> NoName]
Scanned == [type : {"SCAN"}, pid : Tids, tid : Tids, comm : Names \cup {NoName}]

Cached        == DOMAIN cache
Without(f, S) == [t \in DOMAIN f \ S |-> f[t]]

Pcs == {"round", "remove", "insert", "clear", "walk", "scan", "bind", "record",
        "recv", "check", "forget"}

EngineTypeOK ==
    /\ current \in Configs /\ cfg \in Configs
    /\ storing \in BOOLEAN /\ configChanged \in BOOLEAN /\ due \in BOOLEAN
    /\ DOMAIN cache \subseteq Tids /\ cache \in [DOMAIN cache -> Rules]
    /\ pc \in Pcs
    /\ cur \in Events \cup Scanned \cup {NoEvent}
    /\ pc \in {"bind", "record"} <=> cur # NoEvent
    /\ cursor \in 1 .. MaxTid + 1
    /\ pc = "scan" \/ cur.type = "SCAN" => cursor \in Tids
    /\ todo \subseteq Tids
    /\ dead \subseteq Tids

------------------------------------------------------------------------------
(* The other threads, as far as the engine sees them *)

StoreConfig ==
    /\ Op
    /\ ~storing
    /\ current' \in Configs
    /\ storing' = TRUE
    /\ UNCHANGED <<taskVars, cpus, whitelist, appliedMap, events, configChanged,
                   engineVars, due>>

RaiseFlag ==
    /\ storing
    /\ storing' = FALSE
    /\ configChanged' = TRUE
    /\ UNCHANGED <<kernelVars, current, engineVars, due>>

TimePasses ==
    /\ ~due
    /\ due' = TRUE
    /\ UNCHANGED <<kernelVars, configVars, engineVars>>

------------------------------------------------------------------------------
(* A round of the main loop *)

StartRound ==
    /\ pc = "round"
    /\ configChanged' = FALSE
    /\ cfg' = current
    /\ pc' = IF configChanged THEN "remove" ELSE "recv"
    /\ UNCHANGED <<kernelVars, current, storing, cache, cur, scanVars, dead, due>>

\* comm_map_init: the old keys go ...
RemoveKeys ==
    /\ pc = "remove"
    /\ whitelist' = {}
    /\ pc' = "insert"
    /\ UNCHANGED <<taskVars, cpus, ops, appliedMap, events, configVars, cfg,
                   cache, cur, scanVars, dead, due>>

\* ... and the new ones come.
InsertKeys ==
    /\ pc = "insert"
    /\ whitelist' = CommKeys(cfg)
    /\ pc' = "clear"
    /\ UNCHANGED <<taskVars, cpus, ops, appliedMap, events, configVars, cfg,
                   cache, cur, scanVars, dead, due>>

------------------------------------------------------------------------------
(* full_scan *)

\* Mutation: only the map is cleared.
ScanClearsMapOnly ==
    /\ pc = "clear"
    /\ appliedMap' = {}
    /\ cursor' = 1
    /\ pc' = "walk"
    /\ UNCHANGED <<taskVars, cpus, ops, whitelist, events, configVars, cfg, cache,
                   cur, todo, dead, due>>

\* The cache is cleared, then the map.
ScanClears ==
    /\ pc = "clear"
    /\ cache' = Without(cache, Tids)
    /\ appliedMap' = {}
    /\ cursor' = 1
    /\ pc' = "walk"
    /\ UNCHANGED <<taskVars, cpus, ops, whitelist, events, configVars, cfg, cur,
                   todo, dead, due>>

\* /proc/pid is there and its command line is a listed package.
Matches(p) == p \in Tids /\ Group(p) # {} /\ cmd[p] = App /\ Listed(cfg)

\* Mutation: /proc never ends.
WalkSkipsOn ==
    /\ pc = "walk"
    /\ ~Matches(cursor)
    /\ cursor' = cursor + 1
    /\ UNCHANGED <<kernelVars, configVars, cfg, cache, pc, cur, todo, dead, due>>

\* The directory may be gone, or another program's.
WalkSkips ==
    /\ pc = "walk" /\ cursor \in Tids
    /\ ~Matches(cursor)
    /\ cursor' = cursor + 1
    /\ UNCHANGED <<kernelVars, configVars, cfg, cache, pc, cur, todo, dead, due>>

\* Mutation: the command line is not compared with the listed packages.
WalkEntersAny ==
    /\ pc = "walk" /\ cursor \in Tids
    /\ Group(cursor) # {} /\ Listed(cfg)
    /\ todo' = Group(cursor)
    /\ pc' = "scan"
    /\ UNCHANGED <<kernelVars, configVars, cfg, cache, cur, cursor, dead, due>>

\* Its threads are listed before any of them is bound.
WalkEnters ==
    /\ pc = "walk" /\ cursor \in Tids
    /\ Matches(cursor)
    /\ todo' = Group(cursor)
    /\ pc' = "scan"
    /\ UNCHANGED <<kernelVars, configVars, cfg, cache, cur, cursor, dead, due>>

WalkEnds ==
    /\ pc = "walk" /\ cursor \notin Tids
    /\ pc' = "recv"
    /\ UNCHANGED <<kernelVars, configVars, cfg, cache, cur, scanVars, dead, due>>

ScanLeaves ==
    /\ pc = "scan" /\ todo = {}
    /\ cursor' = cursor + 1
    /\ pc' = "walk"
    /\ UNCHANGED <<kernelVars, configVars, cfg, cache, cur, todo, dead, due>>

\* The name of the next thread is read, if any thread name has a rule.
ScanReadsName ==
    /\ pc = "scan"
    /\ \E t \in todo :
           /\ \A u \in todo : t <= u
           /\ todo' = todo \ {t}
           /\ cur' = [type |-> "SCAN", pid |-> cursor, tid |-> t,
                      comm |-> IF state[t] = "free" \/ cfg.threads = {}
                               THEN NoName ELSE comm[t]]
    /\ pc' = "bind"
    /\ UNCHANGED <<kernelVars, configVars, cfg, cache, cursor, dead, due>>

------------------------------------------------------------------------------
(* event_dispatch *)

\* pkg_lookup_comm: the name is the package's, or the task pid is cached.
\* thread_affinity: and the package has rules in this configuration.
PkgKnown(e) == Listed(cfg) /\ (e.comm = App \/ e.pid \in Cached)

\* EXIT, and FORK and EXEC of what belongs to no package, are forgotten.
DispatchForget ==
    /\ pc = "recv" /\ events # <<>>
    /\ LET e == Head(events) IN
           /\ e.type = "EXIT" \/ (e.type \in {"FORK", "EXEC"} /\ ~PkgKnown(e))
           /\ cache' = Without(cache, {e.tid})
           /\ appliedMap' = appliedMap \ {e.tid}
    /\ events' = Tail(events)
    /\ UNCHANGED <<taskVars, cpus, ops, whitelist, configVars, cfg, pc, cur,
                   scanVars, dead, due>>

DispatchIgnore ==
    /\ pc = "recv" /\ events # <<>>
    /\ Head(events).type = "RENAME" /\ ~PkgKnown(Head(events))
    /\ events' = Tail(events)
    /\ UNCHANGED <<taskVars, cpus, ops, whitelist, appliedMap, configVars,
                   engineVars, due>>

DispatchApply ==
    /\ pc = "recv" /\ events # <<>>
    /\ Head(events).type # "EXIT" /\ PkgKnown(Head(events))
    /\ cur' = Head(events)
    /\ events' = Tail(events)
    /\ pc' = "bind"
    /\ UNCHANGED <<taskVars, cpus, ops, whitelist, appliedMap, configVars, cfg,
                   cache, scanVars, dead, due>>

------------------------------------------------------------------------------
(* task_apply *)

Affinity == ThreadAffinity(cfg, cur.comm)

\* A thread bound by a thread rule is not put back to its package's.
Protected == /\ ~Affinity.isThread
             /\ cur.tid \in Cached /\ cache[cur.tid].isThread

Done == /\ pc' = IF cur.type = "SCAN" THEN "scan" ELSE "recv"
        /\ cur' = NoEvent

KeepRule ==
    /\ pc = "bind" /\ Protected
    /\ Done
    /\ UNCHANGED <<kernelVars, configVars, cfg, cache, scanVars, dead, due>>

\* affinity_set finds no such thread (ESRCH).
BindGone ==
    /\ pc = "bind" /\ ~Protected
    /\ state[cur.tid] = "free"
    /\ cache' = Without(cache, {cur.tid})
    /\ appliedMap' = IF cur.type \in {"FORK", "EXEC"}
                     THEN appliedMap \ {cur.tid} ELSE appliedMap
    /\ Done
    /\ UNCHANGED <<taskVars, cpus, ops, whitelist, events, configVars, cfg,
                   scanVars, dead, due>>

\* affinity_set binds it: sched_setaffinity still works while it exits.  (An
\* error other than ESRCH is ignored: the thread is recorded all the same,
\* with the CPUs it had; that outcome is left out.)
Bind ==
    /\ pc = "bind" /\ ~Protected
    /\ state[cur.tid] # "free"
    /\ cpus' = [cpus EXCEPT ![cur.tid] = {Affinity}]
    /\ pc' = "record"
    /\ UNCHANGED <<taskVars, ops, whitelist, appliedMap, events, configVars, cfg,
                   cache, cur, scanVars, dead, due>>

\* Mutation: the map is not told.
RecordCacheOnly ==
    /\ pc = "record"
    /\ cache' = [t \in Cached \cup {cur.tid} |->
                     IF t = cur.tid THEN Affinity ELSE cache[t]]
    /\ Done
    /\ UNCHANGED <<kernelVars, configVars, cfg, scanVars, dead, due>>

\* applied_set, then the cache.
Record ==
    /\ pc = "record"
    /\ appliedMap' = appliedMap \cup {cur.tid}
    /\ cache' = [t \in Cached \cup {cur.tid} |->
                     IF t = cur.tid THEN Affinity ELSE cache[t]]
    /\ Done
    /\ UNCHANGED <<taskVars, cpus, ops, whitelist, events, configVars, cfg,
                   scanVars, dead, due>>

------------------------------------------------------------------------------
(* The end of the round *)

\* try_recv finds the channel empty.
Drained ==
    /\ pc = "recv" /\ events = <<>>
    /\ pc' = "check"
    /\ UNCHANGED <<kernelVars, configVars, cfg, cache, cur, scanVars, dead, due>>

CheckNotDue ==
    /\ pc = "check" /\ ~due
    /\ pc' = "round"
    /\ UNCHANGED <<kernelVars, configVars, cfg, cache, cur, scanVars, dead, due>>

\* Mutation: the check binds nothing.
CheckNoBind ==
    /\ pc = "check" /\ due
    /\ dead' = {t \in Cached : state[t] = "free"}
    /\ cache' = Without(cache, dead')
    /\ due' = FALSE
    /\ pc' = "forget"
    /\ UNCHANGED <<kernelVars, configVars, cfg, cur, scanVars>>

\* Mutation: the gone ones are kept.
CheckKeepsGone ==
    /\ pc = "check" /\ due
    /\ dead' = {t \in Cached : state[t] = "free"}
    /\ cpus' = [t \in Tids |-> IF t \in Cached \ dead' THEN {cache[t]} ELSE cpus[t]]
    /\ due' = FALSE
    /\ pc' = "forget"
    /\ UNCHANGED <<taskVars, ops, whitelist, appliedMap, events, configVars, cfg,
                   cache, cur, scanVars>>

\* affinity_sync: every cached thread is bound again, the gone ones dropped.
Check ==
    /\ pc = "check" /\ due
    /\ dead' = {t \in Cached : state[t] = "free"}
    /\ cpus' = [t \in Tids |-> IF t \in Cached \ dead' THEN {cache[t]} ELSE cpus[t]]
    /\ cache' = Without(cache, dead')
    /\ due' = FALSE
    /\ pc' = "forget"
    /\ UNCHANGED <<taskVars, ops, whitelist, appliedMap, events, configVars, cfg,
                   cur, scanVars>>

\* affinity_check: and out of the map.
Forget ==
    /\ pc = "forget"
    /\ appliedMap' = appliedMap \ dead
    /\ dead' = {}
    /\ pc' = "round"
    /\ UNCHANGED <<taskVars, cpus, ops, whitelist, events, configVars, cfg, cache,
                   cur, scanVars, due>>

------------------------------------------------------------------------------
Engine ==
    \/ StartRound \/ RemoveKeys \/ InsertKeys
    \/ ScanClears \/ WalkSkips \/ WalkEnters \/ WalkEnds \/ ScanLeaves \/ ScanReadsName
    \/ DispatchForget \/ DispatchIgnore \/ DispatchApply
    \/ KeepRule \/ BindGone \/ Bind \/ Record
    \/ Drained \/ CheckNotDue \/ Check \/ Forget

\* From the removal of the old keys to the last thread of the scan.
Scanning == \/ pc \in {"remove", "insert", "clear", "walk", "scan"}
            \/ cur.type = "SCAN"

Device == /\ TasksChange
          /\ Scanning => "busy scan" \in May
          /\ UNCHANGED <<configVars, engineVars, due>>

\* The engine is off (every state variable of it at rest) until main starts it
\* with the flag of the first load up.
Init ==
    /\ TasksInit
    /\ current \in Configs
    /\ storing = FALSE
    /\ configChanged = TRUE
    /\ cfg = current
    /\ cache = [t \in {} |-> t]
    /\ pc = "round"
    /\ cur = NoEvent
    /\ cursor = 1
    /\ todo = {}
    /\ dead = {}
    /\ due = FALSE

Next == Device \/ StoreConfig \/ RaiseFlag \/ TimePasses \/ Engine

\* The main loop runs, the thread that stored a configuration raises its flag,
\* and the clock moves on.
Fairness == WF_vars(Engine) /\ WF_vars(RaiseFlag) /\ WF_vars(TimePasses)

Spec == Init /\ [][Next]_vars /\ Fairness

TypeOK == TasksTypeOK /\ EngineTypeOK /\ cpus \in [Tids -> SUBSET Rules]

------------------------------------------------------------------------------
(* The map and the cache *)

(* The kernel never ignores a thread the daemon believes it follows: a live  *)
(* thread in the cache is in APPLIED_MAP, so its renames and its exit are    *)
(* reported.                                                                 *)
FollowedIsReported ==
    \A t \in Cached : state[t] = "live" => t \in appliedMap

\* The scan that starts from nothing is still to come.
ReloadPending == storing \/ configChanged \/ pc \in {"remove", "insert", "clear"}

\* The event that tells the thread's present name is on its way.
NameOnItsWay(t) ==
    \/ cur.tid = t /\ cur.comm = comm[t]
    \/ \E i \in DOMAIN events : events[i].tid = t /\ events[i].comm = comm[t]

(* A followed thread is bound by its present name, or by a thread rule that  *)
(* task_apply protects, or the event with the name is still to be handled    *)
(* (or a reload will read it): no rename falls between kernel filter,        *)
(* channel and cache.                                                        *)
NameFollowed ==
    \A t \in Cached :
        Running(t) /\ ~cache[t].isThread
        => \/ ReloadPending
           \/ cache[t] = ThreadAffinity(cache[t].cfg, comm[t])
           \/ NameOnItsWay(t)

(* No binding outlives its configuration: unless a reload is on its way or   *)
(* begins, whatever affinity_sync would put back is of the round's           *)
(* configuration, and that configuration has rules for the package.          *)
BindingsCurrent ==
    \A t \in Cached : ReloadPending \/ (cache[t].cfg = cfg /\ Listed(cfg))

(* Only threads of the listed package are followed.                          *)
StrangersLeftAlone ==
    \A t \in Cached : Running(t) => InApp(t)

(* In the end every thread of the listed package is bound by the rule its    *)
(* name asks for (MaxOps bounds what the device does, so names come to rest).*)
EveryThreadBound ==
    <>[](\A t \in Tids :
            Running(t) /\ InApp(t) /\ Listed(cfg)
            => cpus[t] = {ThreadAffinity(cfg, comm[t])})

(* The cache forgets every dead thread, even one whose EXIT event was lost.  *)
DeadForgotten ==
    \A t \in Tids : <>[](state[t] = "free") => <>[](t \notin Cached)
=============================================================================
