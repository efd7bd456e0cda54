---------------------------- MODULE EngineSwitch ----------------------------
(***************************************************************************)
(* The main loop of main.rs from the point where it takes the current      *)
(* configuration: which of the two binding engines runs, how the eBPF      *)
(* engine is given a new configuration, dropped, loaded again and lost,    *)
(* and how the /proc engine stands in for it.                              *)
(*                                                                         *)
(* HotReload models what happens to the configuration before that point,   *)
(* EbpfTracking what the eBPF engine makes of single events.  Here an      *)
(* event only says that a task has started or exited.                      *)
(***************************************************************************)
EXTENDS ProcScan

CONSTANTS
    Big,        \* the configurations whose keys need more than 512 entries
    MaxEdits,   \* bound: how often a configuration is installed
    MaxFaults,  \* bound: faults of the eBPF engine
    MaxChanges, \* bound: starts, exits, installs and faults together
    MaxIdle     \* bound: how often in a row a deadline is found not to have
                \* passed

ASSUME SwitchAssumption ==
    /\ Big \subseteq Configs
    /\ {MaxEdits, MaxFaults, MaxChanges, MaxIdle} \subseteq Nat

VARIABLES
    current,    \* CURRENT_CONFIG
    storing,    \* it is installed, CONFIG_UPDATED is about to be set
    updated,    \* CONFIG_UPDATED
    edits,      \* how often a configuration was installed
    pc,         \* where the loop is
    cfg,        \* the round's snapshot of CURRENT_CONFIG
    changed,    \* the round's config_changed
    usable,     \* ebpf_init can succeed
    faults,     \* how many faults there were
    on,         \* ebpf_state is Some
    retrying,   \* the engine being loaded is the retry's, not the reload's
    reader,     \* the reader thread of the engine runs
    capacity,   \* the engine's whitelist takes more than 512 keys
    filled,     \* the configuration in the engine's whitelist
    ecache,     \* the configuration each task's entry was made from
    unread,     \* the tasks with events in the channel
    idle,       \* how often affinity_deadline was found not to have passed
    waited,     \* the same for last_ebpf_retry
    lost        \* a reload failed, and what config_changed said with it

loaderVars == <<current, storing, updated, edits>>
roundVars == <<cfg, changed>>
idleVars == <<idle, waited>>
ebpfVars == <<on, retrying, reader, capacity, filled, ecache, unread>>
vars == <<tasksVars, procVars, loaderVars, pc, roundVars, usable, faults,
          ebpfVars, idleVars, lost>>

Pcs == {"swap", "snapshot", "fill", "scan", "reload", "refill", "rescan",
        "receive", "check", "retry", "proc", "proc_scan", "proc_bind"}

LoopTypeOK ==
    /\ current \in Configs /\ storing \in BOOLEAN /\ updated \in BOOLEAN
    /\ edits \in Nat
    /\ pc \in Pcs
    /\ cfg \in Configs \cup {NoConfig} /\ changed \in BOOLEAN
    /\ pc \notin {"swap", "snapshot"} => cfg # NoConfig
    /\ idle \in Nat /\ waited \in Nat /\ lost \in BOOLEAN

EbpfTypeOK ==
    /\ usable \in BOOLEAN /\ faults \in Nat
    /\ on \in BOOLEAN /\ retrying \in BOOLEAN
    /\ reader \in BOOLEAN /\ capacity \in BOOLEAN
    /\ filled \in Configs \cup {NoConfig}
    /\ ecache \in [Tasks -> Configs \cup {NoConfig}]
    /\ unread \subseteq Tasks

TypeOK == TasksTypeOK /\ ProcTypeOK /\ LoopTypeOK /\ EbpfTypeOK

Fits(c, room) == c \in Big => room

\* The kernel side reports tasks of listed processes once the whitelist is
\* filled, and the reader passes on what it reports.
Reports(t) == reader /\ filled # NoConfig /\ MainOf[t] \in Listed[filled]

Goto(next) == pc' = next

\* The round is over; cfg and config_changed go out of scope.
EndRound == Goto("swap") /\ cfg' = NoConfig /\ changed' = FALSE

------------------------------------------------------------------------------
(* The environment *)

MayChange == starts + exits + unbinds + edits + faults < MaxChanges

TaskStart ==
    \E ts \in SUBSET Tasks :
        /\ MayChange
        /\ Start(ts)
        /\ unread' = unread \cup {t \in ts : Reports(t)}
        /\ UNCHANGED <<procVars, loaderVars, pc, roundVars, usable, faults, on,
                       retrying, reader, capacity, filled, ecache,
                       idleVars, lost>>

TaskExit ==
    \E t \in Tasks :
        /\ MayChange
        /\ Exit(t)
        /\ unread' = unread \cup {u \in alive \ alive' : Reports(u)}
        /\ UNCHANGED <<procVars, loaderVars, pc, roundVars, usable, faults, on,
                       retrying, reader, capacity, filled, ecache,
                       idleVars, lost>>

TaskUnbound ==
    /\ MayChange
    /\ \E t \in Tasks : Unbind(t)
    /\ UNCHANGED <<procVars, loaderVars, pc, roundVars, usable, faults,
                   ebpfVars, idleVars, lost>>

\* config_loader, or the loop's own mode switch: store, then raise the flag.
Install ==
    /\ MayChange /\ edits < MaxEdits
    /\ ~storing
    /\ \E c \in Configs \ {current} : current' = c
    /\ storing' = TRUE
    /\ edits' = edits + 1
    /\ UNCHANGED <<tasksVars, procVars, updated, pc, roundVars, usable, faults,
                   ebpfVars, idleVars, lost>>

Publish ==
    /\ storing
    /\ updated' = TRUE
    /\ storing' = FALSE
    /\ UNCHANGED <<tasksVars, procVars, current, edits, pc, roundVars, usable,
                   faults, ebpfVars, idleVars, lost>>

\* tracefs, the program file, a tracepoint: ebpf_init begins or ceases to fail.
UsableChanges ==
    /\ MayChange /\ faults < MaxFaults
    /\ usable' = ~usable
    /\ faults' = faults + 1
    /\ UNCHANGED <<tasksVars, procVars, loaderVars, pc, roundVars, ebpfVars,
                   idleVars, lost>>

\* The reader ends by itself when epoll_wait fails; its sender goes with it.
ReaderEnds ==
    /\ MayChange /\ faults < MaxFaults
    /\ reader
    /\ reader' = FALSE
    /\ faults' = faults + 1
    /\ UNCHANGED <<tasksVars, procVars, loaderVars, pc, roundVars, usable, on,
                   retrying, capacity, filled, ecache, unread, idleVars, lost>>

------------------------------------------------------------------------------
(* The round *)

\* A deadline has not passed when it is looked at; it does in the end.
NotYet(times) == times < MaxIdle

SwapUpdated ==
    /\ pc = "swap"
    /\ changed' = updated
    /\ updated' = FALSE
    /\ Goto("snapshot")
    /\ UNCHANGED <<tasksVars, procVars, current, storing, edits, cfg, usable,
                   faults, ebpfVars, idleVars, lost>>

\* Mutation: the loop goes on although there is no configuration.
TakeNoSnapshot ==
    /\ pc = "snapshot"
    /\ Goto(IF ~on THEN "retry" ELSE IF changed THEN "fill" ELSE "receive")
    /\ UNCHANGED <<tasksVars, procVars, loaderVars, roundVars, usable, faults,
                   ebpfVars, idleVars, lost>>

TakeSnapshot ==
    /\ pc = "snapshot"
    /\ cfg' = current
    /\ Goto(IF ~on THEN "retry" ELSE IF changed THEN "fill" ELSE "receive")
    /\ UNCHANGED <<tasksVars, procVars, loaderVars, changed, usable, faults,
                   ebpfVars, idleVars, lost>>

\* Mutation: the new configuration is not scanned for.
FillWhitelistOnly ==
    /\ pc = "fill"
    /\ Fits(cfg, capacity)
    /\ filled' = cfg
    /\ Goto("receive")
    /\ UNCHANGED <<tasksVars, procVars, loaderVars, roundVars, usable, faults,
                   on, retrying, reader, capacity, ecache, unread,
                   idleVars, lost>>

\* comm_map_init on the running engine.  The kernel may see the keys go and
\* come one by one (EbpfTracking has this as two steps); what it misses
\* meanwhile the scan that follows finds.
FillWhitelist ==
    /\ pc = "fill"
    /\ Fits(cfg, capacity)
    /\ filled' = cfg
    /\ Goto("scan")
    /\ UNCHANGED <<tasksVars, procVars, loaderVars, roundVars, usable, faults,
                   on, retrying, reader, capacity, ecache, unread,
                   idleVars, lost>>

\* It does not fit, and the whitelist is as it was.
WhitelistFull ==
    /\ pc = "fill"
    /\ ~Fits(cfg, capacity)
    /\ Goto("reload")
    /\ UNCHANGED <<tasksVars, procVars, loaderVars, roundVars, usable, faults,
                   ebpfVars, idleVars, lost>>

\* A key could not be inserted; what is in the whitelist now goes with it.
InsertFails ==
    /\ pc = "fill"
    /\ MayChange /\ faults < MaxFaults
    /\ Fits(cfg, capacity)
    /\ filled' = NoConfig
    /\ faults' = faults + 1
    /\ Goto("reload")
    /\ UNCHANGED <<tasksVars, procVars, loaderVars, roundVars, usable, on,
                   retrying, reader, capacity, ecache, unread, idleVars, lost>>

\* full_scan: forget everything, find and bind what is there.
FullScan ==
    /\ ecache' = [t \in Tasks |-> IF t \in Wanted(cfg) THEN cfg ELSE NoConfig]
    /\ bound' = BoundBy(ecache')
    /\ UNCHANGED <<alive, gone, burst, starts, exits, unbinds>>

ScanForConfig ==
    /\ pc = "scan"
    /\ FullScan
    /\ Goto("receive")
    /\ UNCHANGED <<procVars, loaderVars, roundVars, usable, faults, on,
                   retrying, reader, capacity, filled, unread, idleVars, lost>>

\* Mutation: the whitelist of a new engine has room for 512 keys.
LoadSmallest(retry) ==
    /\ usable
    /\ retrying' = retry
    /\ reader' = TRUE
    /\ capacity' = FALSE
    /\ filled' = NoConfig
    /\ ecache' = Empty
    /\ unread' = {}

\* ebpf_init: a new engine with an empty whitelist, as large as the current
\* configuration, not the round's, needs.
Load(retry) ==
    /\ usable
    /\ retrying' = retry
    /\ reader' = TRUE
    /\ capacity' = (current \in Big)
    /\ filled' = NoConfig
    /\ ecache' = Empty
    /\ unread' = {}

\* Drop for EbpfState: the reader is joined, the channel and maps are gone.
Dropped ==
    /\ on' = FALSE
    /\ reader' = FALSE
    /\ filled' = NoConfig
    /\ ecache' = Empty
    /\ unread' = {}
    /\ capacity' = FALSE
    /\ retrying' = FALSE

\* The loop starts again; what it knew of a change is lost.
GiveUpReload ==
    /\ EndRound
    /\ lost' = procUp

Reload ==
    /\ pc = "reload"
    /\ on' = FALSE
    /\ Load(FALSE)
    /\ Goto("refill")
    /\ UNCHANGED <<tasksVars, procVars, loaderVars, roundVars, usable, faults,
                   idleVars, lost>>

ReloadFails ==
    /\ pc = "reload"
    /\ ~usable
    /\ Dropped
    /\ GiveUpReload
    /\ UNCHANGED <<tasksVars, procVars, loaderVars, usable, faults, idleVars>>

\* Every EBPF_RETRY_SECS seconds of rounds without the engine.
Retry ==
    /\ pc = "retry"
    /\ UNCHANGED on
    /\ Load(TRUE)
    /\ Goto("refill")
    /\ waited' = 0
    /\ UNCHANGED <<tasksVars, procVars, loaderVars, roundVars, usable, faults,
                   idle, lost>>

\* Not yet time for it, or it fails and the next one is as far away again.
NoRetry ==
    /\ pc = "retry"
    /\ Goto("proc")
    /\ \/ NotYet(waited) /\ waited' = waited + 1
       \/ ~usable /\ waited' = 0
    /\ UNCHANGED <<tasksVars, procVars, loaderVars, roundVars, usable, faults,
                   ebpfVars, idle, lost>>

\* comm_map_init on the new engine.
Refill ==
    /\ pc = "refill"
    /\ Fits(cfg, capacity)
    /\ filled' = cfg
    /\ Goto("rescan")
    /\ UNCHANGED <<tasksVars, procVars, loaderVars, roundVars, usable, faults,
                   on, retrying, reader, capacity, ecache, unread,
                   idleVars, lost>>

RefillFails ==
    /\ pc = "refill"
    /\ \/ ~Fits(cfg, capacity) /\ UNCHANGED faults
       \/ MayChange /\ faults < MaxFaults /\ faults' = faults + 1
    /\ Dropped
    /\ IF retrying THEN Goto("proc") /\ UNCHANGED <<roundVars, idleVars, lost>>
       ELSE GiveUpReload
    /\ UNCHANGED <<tasksVars, procVars, loaderVars, usable, idleVars>>

\* After a reload the round is over, after a retry /proc has its turn still.
ScanAndEnable ==
    /\ pc = "rescan"
    /\ FullScan
    /\ on' = TRUE /\ retrying' = FALSE
    /\ lost' = FALSE
    /\ IF retrying THEN Goto("proc") /\ UNCHANGED roundVars ELSE EndRound
    /\ UNCHANGED <<procVars, loaderVars, usable, faults, reader, capacity,
                   filled, unread, idleVars>>

------------------------------------------------------------------------------
(* The eBPF engine's part of the round *)

\* recv_timeout, then try_recv until the channel is empty.
Receive ==
    /\ pc = "receive"
    /\ unread # {} \/ reader
    /\ ecache' = [t \in Tasks |->
                    IF t \notin unread THEN ecache[t]
                    ELSE IF t \in Wanted(cfg) THEN cfg
                    ELSE IF t \in alive THEN ecache[t] ELSE NoConfig]
    /\ bound' = [t \in Tasks |-> IF t \in unread \cap Wanted(cfg) THEN cfg
                                 ELSE bound[t]]
    /\ unread' = {}
    /\ Goto("check")
    /\ UNCHANGED <<alive, gone, burst, starts, exits, unbinds, procVars,
                   loaderVars, roundVars, usable, faults, on, retrying, reader,
                   capacity, filled, idleVars, lost>>

\* Disconnected: the /proc engine takes over from the next round on.  The
\* round's affinity_check may still be due before that.
ChannelClosed ==
    /\ pc = "receive"
    /\ unread = {} /\ ~reader
    /\ bound' \in {bound, BoundBy(ecache)}
    /\ Dropped
    /\ ProcTakeOver
    /\ EndRound
    /\ idle' = 0
    /\ UNCHANGED <<alive, gone, burst, starts, exits, unbinds, loaderVars,
                   usable, faults, waited, lost>>

\* affinity_check: bind what is cached, drop what has died.
AffinityCheck ==
    /\ pc = "check"
    /\ bound' = BoundBy(ecache)
    /\ ecache' = [t \in Tasks |-> IF t \in alive THEN ecache[t] ELSE NoConfig]
    /\ EndRound
    /\ idle' = 0
    /\ UNCHANGED <<alive, gone, burst, starts, exits, unbinds, procVars,
                   loaderVars, usable, faults, on, retrying, reader, capacity,
                   filled, unread, waited, lost>>

CheckNotDue ==
    /\ pc = "check"
    /\ EndRound
    /\ NotYet(idle)
    /\ idle' = idle + 1
    /\ UNCHANGED <<tasksVars, procVars, loaderVars, usable, faults, ebpfVars,
                   waited, lost>>

------------------------------------------------------------------------------
(* The /proc engine's part of the round *)

ProcSync ==
    /\ pc = "proc"
    /\ Sync(changed)
    /\ lost' = (lost /\ ~changed)
    /\ Goto(IF NeedScan(changed) THEN "proc_scan" ELSE "proc_bind")
    /\ UNCHANGED <<tasksVars, loaderVars, roundVars, usable, faults, ebpfVars,
                   idleVars>>

ProcScanStep ==
    /\ pc = "proc_scan"
    /\ Scan(cfg)
    /\ Goto("proc_bind")
    /\ UNCHANGED <<tasksVars, loaderVars, roundVars, usable, faults, ebpfVars,
                   idleVars, lost>>

\* force_affinity, or affinity_deadline has passed.
ProcBindStep ==
    /\ pc = "proc_bind"
    /\ ProcBind
    /\ EndRound
    /\ idle' = 0
    /\ UNCHANGED <<alive, gone, burst, starts, exits, unbinds, loaderVars,
                   usable, faults, ebpfVars, waited, lost>>

ProcBindNotDue ==
    /\ pc = "proc_bind"
    /\ ~force
    /\ EndRound
    /\ NotYet(idle)
    /\ idle' = idle + 1
    /\ UNCHANGED <<tasksVars, procVars, loaderVars, usable, faults, ebpfVars,
                   waited, lost>>

------------------------------------------------------------------------------
\* The eBPF engine is loaded, its whitelist empty, when the loop begins, or
\* loading it has failed; CONFIG_UPDATED was raised with the first load.
Init ==
    /\ TasksInit /\ ProcInit
    /\ current \in Configs
    /\ storing = FALSE /\ updated = TRUE /\ edits = 0
    /\ pc = "swap"
    /\ cfg = NoConfig /\ changed = FALSE
    /\ usable \in BOOLEAN /\ faults = 0
    /\ on = usable /\ retrying = FALSE /\ reader = usable
    /\ capacity = (usable /\ current \in Big)
    /\ filled = NoConfig /\ ecache = Empty /\ unread = {}
    /\ idle = 0 /\ waited = 0 /\ lost = FALSE

Round ==
    \/ SwapUpdated \/ TakeSnapshot
    \/ FillWhitelist \/ WhitelistFull \/ InsertFails \/ ScanForConfig
    \/ Reload \/ ReloadFails \/ Retry \/ NoRetry
    \/ Refill \/ RefillFails \/ ScanAndEnable
    \/ Receive \/ ChannelClosed \/ AffinityCheck \/ CheckNotDue
    \/ ProcSync \/ ProcScanStep \/ ProcBindStep \/ ProcBindNotDue

Environment ==
    \/ TaskStart \/ TaskExit \/ TaskUnbound
    \/ Install \/ Publish \/ UsableChanges \/ ReaderEnds

Next == Round \/ Environment

\* The loop never waits for ever (recv_timeout and sleep return), and a
\* thread between its two stores goes on.
Spec == Init /\ [][Next]_vars /\ WF_vars(Round) /\ WF_vars(Publish)

------------------------------------------------------------------------------
(* Properties *)

\* A change of the configuration the loop has not taken notice of yet.
Pending ==
    \/ storing \/ updated
    \/ changed /\ pc \in {"snapshot", "fill", "reload"}

\* The eBPF engine never goes on with the whitelist or the rules of a
\* configuration that was replaced (main.rs takes CONFIG_UPDATED before
\* CURRENT_CONFIG "防止漏更新", and fills from its snapshot).
EbpfFollowsConfig ==
    on => \/ Pending
          \/ /\ filled = current
             /\ pc # "scan" => \A t \in Cached(ecache) : ecache[t] = current

\* The /proc engine never goes on binding by a replaced configuration, unless
\* it will scan everything first.  It does after a reload that failed (lost).
ProcFollowsConfig ==
    /\ procUp /\ ~on /\ pc \notin {"reload", "refill", "rescan"}
    => \/ Pending \/ changed \/ scanAll \/ lost
       \/ \A t \in Cached(pcache) : pcache[t] = current

\* Nothing that has exited is followed for ever by the engine that runs.
DeadForgotten ==
    \A t \in Tasks :
        t \in gone ~> IF on THEN ecache[t] = NoConfig ELSE pcache[t] = NoConfig

\* A process that runs on ends up bound by the configuration that is left in
\* force, whichever engine runs, reloads and failures included.
IsBound(t) == bound[t] = current

LongRunningBound ==
    \A t \in Tasks :
        <>[](t \in Wanted(current) /\ starts = 0 /\ ~lost) => <>[]IsBound(t)

\* The eBPF engine comes back when loading it succeeds again.
EbpfComesBack == <>[]usable => <>[]on

\* A burst of new tasks larger than the growth that counts is found by the
\* /proc engine too, if nothing exits meanwhile.
BurstFound ==
    \A t \in Tasks :
        (t \in burst \cap Wanted(current) /\ Cardinality(burst) > Growth)
            ~> (IsBound(t) \/ exits > 0 \/ t \notin Wanted(current) \/ lost)

\* main.rs: "eBPF 不可用（初始化失败/通道断开/重载失败），回退 /proc 轮询".
ReloadFailureFallsBack ==
    \A t \in Tasks :
        <>[](t \in Wanted(current) /\ starts = 0) => <>[]IsBound(t)
=============================================================================
