----------------------------- MODULE TaskEvents -----------------------------
(***************************************************************************)
(* The kernel side of the eBPF engine: the tasks of the device, and the    *)
(* four tracepoint programs of ThreadOpt-ebpf that report them.            *)
(*                                                                         *)
(* One package is listed; its processes run under the command line "app",  *)
(* every other process under another one.  A process is the set of tasks   *)
(* with the same tgid; its main thread's tid is the tgid.  What the device *)
(* does is outside src/; what is reported of it is not.                    *)
(***************************************************************************)
EXTENDS Integers, FiniteSets, Sequences

CONSTANTS
    MaxTid,      \* bound: number of tids
    MaxOps,      \* bound: what the device and its user do, in steps
    ThreadNames, \* names threads give themselves
    Forks,       \* <<name of the parent, "thread" or "process">>
    Renames,     \* <<old name, new name>>
    Execs,       \* <<old command line, new one>>
    AppAtStart,  \* whether the app may / may not run before the daemon
    May          \* what else may happen, out of Troubles

Troubles == {"early move",    \* the app forks or is renamed before it is tracked
             "busy scan",     \* tasks change while the daemon scans /proc
             "rename other",  \* a thread renames another one
             "drop"}          \* the ring buffer is full

Zygote       == "zygote"
App          == "app"
ProcessNames == {Zygote, App, "sh"}
Names        == ProcessNames \cup ThreadNames
Tids         == 1 .. MaxTid
NotBound     == {}
NoName       == "unnamed"  \* an empty string

ASSUME TaskAssumption ==
    /\ MaxTid \in Nat \ {0}
    /\ MaxOps \in Nat
    /\ ThreadNames \cap (ProcessNames \cup {NoName}) = {}
    /\ Forks \subseteq Names \X {"thread", "process"}
    /\ Renames \subseteq Names \X Names
    /\ Execs \subseteq ProcessNames \X {"sh"}
    /\ AppAtStart \subseteq BOOLEAN
    /\ (TRUE \in AppAtStart => MaxTid >= 3)
    /\ May \subseteq Troubles

VARIABLES
    state,      \* of each tid: "free", "live", or "exiting"
    tgid,       \* its process
    comm,       \* its name
    cmd,        \* the command line of a process, kept at its tgid
    cpus,       \* the rule it was last bound by, as a set of one, or NotBound
    lastTid,    \* the highest tid used so far
    ops,        \* steps of the device so far
    whitelist,  \* the names TARGET_COMM_MAP lets through
    appliedMap, \* APPLIED_MAP, the tids in it
    events      \* EVENTS and the channel behind it

taskVars   == <<state, tgid, comm, cmd, lastTid>>
kernelVars == <<taskVars, cpus, ops, whitelist, appliedMap, events>>

EventTypes == {"FORK", "EXEC", "RENAME", "EXIT"}
Events == [type : EventTypes, pid : Tids, tid : Tids, comm : Names \cup {NoName}]

Running(t) == state[t] = "live" /\ state[tgid[t]] = "live"
InApp(t)   == cmd[tgid[t]] = App
Group(p)   == {t \in Tids : state[t] # "free" /\ tgid[t] = p}

------------------------------------------------------------------------------
(* The tracepoint programs *)

\* submit_event: without room in the ring buffer the event is gone.
Submit(evs) ==
    \/ events' = events \o evs
    \/ "drop" \in May /\ events' = events

\* whitelist_matched, or tracked.
Reported(t, name) == t \in appliedMap \/ name \in whitelist

\* Mutation: no placeholder for the child of a tracked thread.
ReportForkNoPlaceholder(parent, child) ==
    /\ UNCHANGED appliedMap
    /\ IF Reported(parent, comm[parent])
       THEN Submit(<<[type |-> "FORK", pid |-> tgid[parent], tid |-> child,
                      comm |-> comm[parent]]>>)
       ELSE UNCHANGED events

\* sched_process_fork: the child of a tracked thread gets a placeholder in
\* APPLIED_MAP; pid is the parent's process, for a new process too.
ReportFork(parent, child) ==
    /\ appliedMap' = IF parent \in appliedMap
                     THEN appliedMap \cup {child} ELSE appliedMap
    /\ IF Reported(parent, comm[parent])
       THEN Submit(<<[type |-> "FORK", pid |-> tgid[parent], tid |-> child,
                      comm |-> comm[parent]]>>)
       ELSE UNCHANGED events

\* task_rename: tid and pid are those of the running thread, by.
ReportRename(by, name) ==
    IF Reported(by, name)
    THEN Submit(<<[type |-> "RENAME", pid |-> tgid[by], tid |-> by,
                   comm |-> name]>>)
    ELSE UNCHANGED events

\* task_rename and sched_process_exec, both raised by execve.
ReportExec(t, name) ==
    IF Reported(t, name)
    THEN Submit(<<[type |-> "RENAME", pid |-> tgid[t], tid |-> t, comm |-> name],
                  [type |-> "EXEC",   pid |-> tgid[t], tid |-> t, comm |-> name]>>)
    ELSE UNCHANGED events

\* sched_process_exit: only tracked threads are removed and reported.
ReportExit(t) ==
    IF t \in appliedMap
    THEN /\ appliedMap' = appliedMap \ {t}
         /\ Submit(<<[type |-> "EXIT", pid |-> tgid[t], tid |-> t, comm |-> NoName]>>)
    ELSE UNCHANGED <<appliedMap, events>>

------------------------------------------------------------------------------
(* The device *)

Op == ops < MaxOps /\ ops' = ops + 1

\* The main thread of a listed app waits until the daemon tracks it.
Settled(t) == \/ tgid[t] = t /\ InApp(t) /\ App \in whitelist => t \in appliedMap
              \/ "early move" \in May

\* clone or fork: the child inherits name, CPUs and, as a thread, the process.
Fork(parent, child, kind) ==
    /\ Op
    /\ Running(parent)
    /\ child = lastTid + 1
    /\ <<comm[parent], kind>> \in Forks
    /\ Settled(parent)
    /\ lastTid' = child
    /\ state' = [state EXCEPT ![child] = "live"]
    /\ tgid' = [tgid EXCEPT ![child] = IF kind = "thread" THEN tgid[parent] ELSE child]
    /\ comm' = [comm EXCEPT ![child] = comm[parent]]
    /\ cmd' = [cmd EXCEPT ![child] = cmd[tgid[parent]]]
    /\ cpus' = [cpus EXCEPT ![child] = cpus[parent]]
    /\ ReportFork(parent, child)
    /\ UNCHANGED whitelist

\* A process forked by the zygote takes its package's name.
BecomeApp(t) ==
    /\ Op
    /\ Running(t) /\ t # 1 /\ tgid[t] = t /\ cmd[t] = Zygote
    /\ cmd' = [cmd EXCEPT ![t] = App]
    /\ comm' = [comm EXCEPT ![t] = App]
    /\ ReportRename(t, App)
    /\ UNCHANGED <<state, tgid, lastTid, cpus, whitelist, appliedMap>>

\* A thread is named, by itself or by a thread of the same process.
Rename(by, t, name) ==
    /\ Op
    /\ Running(t) /\ Running(by) /\ tgid[by] = tgid[t]
    /\ by = t \/ "rename other" \in May
    /\ Settled(t)
    /\ <<comm[t], name>> \in Renames
    /\ comm' = [comm EXCEPT ![t] = name]
    /\ ReportRename(by, name)
    /\ UNCHANGED <<state, tgid, cmd, lastTid, cpus, whitelist, appliedMap>>

\* A process with one thread runs another program.
Exec(t, name) ==
    /\ Op
    /\ Running(t) /\ t # 1 /\ Group(t) = {t}
    /\ <<cmd[t], name>> \in Execs
    /\ cmd' = [cmd EXCEPT ![t] = name]
    /\ comm' = [comm EXCEPT ![t] = name]
    /\ ReportExec(t, name)
    /\ UNCHANGED <<state, tgid, lastTid, cpus, whitelist, appliedMap>>

\* A thread exits; when the main thread does, the others can only follow.
Exit(t) ==
    /\ Op
    /\ state[t] = "live" /\ t # 1
    /\ state' = [state EXCEPT ![t] = "exiting"]
    /\ ReportExit(t)
    /\ UNCHANGED <<tgid, comm, cmd, lastTid, cpus, whitelist>>

\* The kernel releases it; the main thread's tid last.
Reap(t) ==
    /\ state[t] = "exiting"
    /\ tgid[t] = t => Group(t) = {t}
    /\ state' = [state EXCEPT ![t] = "free"]
    /\ UNCHANGED <<tgid, comm, cmd, lastTid, cpus, ops, whitelist, appliedMap, events>>

\* The system moves a task to another group and widens its CPUs again.
SystemRebinds(t) ==
    /\ Op
    /\ state[t] = "live"
    /\ cpus' = [cpus EXCEPT ![t] = NotBound]
    /\ UNCHANGED <<taskVars, whitelist, appliedMap, events>>

TasksChange ==
    \/ \E parent, child \in Tids, kind \in {"thread", "process"} :
           Fork(parent, child, kind)
    \/ \E t \in Tids :
           \/ BecomeApp(t) \/ Exit(t) \/ Reap(t) \/ SystemRebinds(t)
           \/ \E name \in Names :
                  Exec(t, name) \/ \E by \in Tids : Rename(by, t, name)

TasksTypeOK ==
    /\ state \in [Tids -> {"free", "live", "exiting"}]
    /\ tgid \in [Tids -> Tids]
    /\ comm \in [Tids -> Names]
    /\ cmd \in [Tids -> ProcessNames]
    /\ lastTid \in Tids
    /\ ops \in 0 .. MaxOps
    /\ whitelist \subseteq Names
    /\ appliedMap \subseteq Tids
    /\ events \in Seq(Events)

\* The zygote, and perhaps the app with its main thread and one more.
TasksInit ==
    /\ \E running \in AppAtStart :
           /\ lastTid = IF running THEN 3 ELSE 1
           /\ state = [t \in Tids |-> IF t <= lastTid THEN "live" ELSE "free"]
           /\ tgid = [t \in Tids |-> IF t = 3 /\ running THEN 2 ELSE t]
           /\ cmd = [t \in Tids |-> IF t \in {2, 3} /\ running THEN App ELSE Zygote]
           /\ comm = cmd
    /\ cpus = [t \in Tids |-> NotBound]
    /\ ops = 0
    /\ whitelist = {}
    /\ appliedMap = {}
    /\ events = <<>>
=============================================================================
