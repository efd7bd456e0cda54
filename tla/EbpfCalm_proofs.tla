--------------------------- MODULE EbpfCalm_proofs ---------------------------
(***************************************************************************)
(* A theorem about EbpfTracking on a calm device: no name of the listed    *)
(* package's threads is missed.  It holds for any number of tids and steps *)
(* of the device, any thread names and configurations; Calm says what the  *)
(* device does not do.                                                     *)
(***************************************************************************)
EXTENDS EbpfTracking_proofs

AppNames == {App} \cup ThreadNames

(* A calm device: none of the troubles; nobody else takes the package's      *)
(* name, a process of the app remains one, and starts threads only, while    *)
(* the zygote and its other children have no threads.                        *)
Calm ==
    /\ May = {}
    /\ \A r \in Renames : r[1] \in AppNames /\ r[2] \in ThreadNames
    /\ \A e \in Execs : e[1] # App
    /\ \A f \in Forks : f[2] = "thread" <=> f[1] \in AppNames

Main(t) == tgid[t] = t

\* The scan has emptied cache and map, and has not come to its end.
Refilling == pc \in {"walk", "scan"} \/ cur.type = "SCAN"

\* The rules of the round are in force, and there are some.
InForce == ~ReloadPending /\ Listed(cfg)

\* The events still in the queue are thrown away.
Skipping == pc = "recv" /\ ~Listed(cfg)

\* The app's threads are those that have one of its names.
Processes ==
    \A t \in Tids : t <= lastTid =>
        /\ tgid[t] <= t /\ tgid[tgid[t]] = tgid[t]
        /\ InApp(t) <=> comm[t] \in AppNames
        /\ ~InApp(t) => Main(t)

\* What events may say.
EventSound(e) ==
    /\ InApp(e.tid) /\ e.pid = tgid[e.tid]
    /\ e.type \in {"FORK", "RENAME", "EXIT"}
    /\ e.type = "FORK" => ~Main(e.tid)
    /\ e.type = "EXIT" => state[e.tid] # "live"

\* Everything the daemon, its queue and the map hold is of the app.
Members ==
    /\ \A t \in Cached \cup appliedMap \cup todo : t <= lastTid /\ InApp(t)
    /\ \A i \in DOMAIN events : EventSound(events[i])
    /\ cur # NoEvent =>
           /\ InApp(cur.tid) /\ cur.pid = tgid[cur.tid]
           /\ cur.type \in {"SCAN", "FORK", "RENAME"}
    /\ cur.type = "SCAN" => cur.pid = cursor
    /\ pc = "scan" \/ cur.type = "SCAN" => \A t \in todo : tgid[t] = cursor

\* The whitelist is the round's; without one nothing is followed.
Keys ==
    /\ whitelist \subseteq {App}
    /\ pc = "clear" \/ Refilling \/ ~ReloadPending => whitelist = CommKeys(cfg)
    /\ whitelist = {} /\ ~Scanning =>
           /\ appliedMap = {} /\ Cached = {} /\ cur = NoEvent
           /\ events = <<>> \/ Skipping

\* The main thread is followed before the threads it starts.
MainsCached ==
    ~Scanning =>
        \A t \in Tids : Running(t) =>
            /\ t \in appliedMap /\ Main(t) => t \in Cached
            /\ App \in whitelist /\ InApp(t) /\ ~Main(t) => tgid[t] \in Cached

\* Behind the i-th event there is one with the thread's present name.
Later(i, t) ==
    \E j \in DOMAIN events :
        j > i /\ events[j].tid = t /\ events[j].comm = comm[t]

\* The last an event in the queue says of a thread is its name, or the
\* package's, which it had first.
Told ==
    ~Skipping =>
        \A i \in DOMAIN events :
            LET e == events[i] IN
            e.type # "EXIT" /\ Running(e.tid) =>
                /\ e.comm \in {App, comm[e.tid]} \/ Later(i, e.tid)
                /\ e.comm # App /\ ~Refilling => e.tid \in appliedMap

\* Every thread of the app reports its new names.
ThreadsTracked ==
    InForce /\ ~Refilling =>
        \A t \in Tids : Running(t) /\ InApp(t) /\ ~Main(t) => t \in appliedMap

\* An event gives the rule of the thread's present name, or none.
Fresh(e) ==
    \/ e.comm = comm[e.tid]
    \/ /\ e.comm = App
       /\ comm[e.tid] \in cfg.threads
              => e.tid \in Cached /\ cache[e.tid].isThread

Heard ==
    InForce /\ ~Refilling =>
        /\ \A i \in DOMAIN events :
               LET e == events[i] IN
               e.type # "EXIT" /\ Running(e.tid) => Fresh(e) \/ Later(i, e.tid)
        /\ cur # NoEvent /\ Running(cur.tid) => Fresh(cur) \/ Later(0, cur.tid)

\* While the scan fills the map again: what it has passed is followed.
Passed(t) ==
    \/ tgid[t] < cursor
    \/ /\ tgid[t] = cursor /\ pc # "walk" /\ t \notin todo
       /\ cur # NoEvent => t # cur.tid

ScanTracks ==
    Refilling =>
        /\ Listed(cfg) =>
               \A t \in Tids : Running(t) /\ InApp(t) /\ Passed(t) =>
                   /\ t \in Cached /\ t \in appliedMap
                   /\ comm[t] \in cfg.threads => cache[t].isThread
        /\ ~Listed(cfg) => Cached = {} /\ appliedMap = {}

ScanReads ==
    cur.type = "SCAN" /\ Running(cur.tid)
        => cur.comm = comm[cur.tid] \/ cfg.threads = {}

\* task_apply goes on only if the thread's own rule is not in the way.
Overwrites == pc = "record" => ~Protected

CalmInv ==
    /\ Processes /\ Members /\ Keys /\ MainsCached
    /\ Told /\ ThreadsTracked /\ Heard
    /\ ScanTracks /\ ScanReads /\ Overwrites
    /\ NameFollowed

------------------------------------------------------------------------------
(* The queue *)

\* What is appended to the queue stands behind everything in it.
LEMMA Appended ==
    ASSUME events \in Seq(Events), NEW q \in Seq(Events), events' = events \o q
    PROVE  /\ \A i \in DOMAIN events : i \in DOMAIN events' /\ events'[i] = events[i]
           /\ \A i \in DOMAIN events' :
                  \/ i \in DOMAIN events
                  \/ \E k \in DOMAIN q : events'[i] = q[k]
           /\ \A k \in DOMAIN q :
                  \E j \in DOMAIN events' :
                      /\ events'[j] = q[k]
                      /\ j > 0 /\ \A i \in DOMAIN events : j > i
<1>1. /\ Len(events) \in Nat /\ Len(q) \in Nat
      /\ DOMAIN events = 1 .. Len(events) /\ DOMAIN q = 1 .. Len(q)
    OBVIOUS
<1>2. /\ Len(events') = Len(events) + Len(q)
      /\ DOMAIN events' = 1 .. Len(events) + Len(q)
      /\ \A i \in 1 .. Len(events) + Len(q) :
             events'[i] = IF i <= Len(events) THEN events[i] ELSE q[i - Len(events)]
    OBVIOUS
<1>3. ASSUME NEW i \in DOMAIN events' PROVE i \in DOMAIN events \/ \E k \in DOMAIN q : events'[i] = q[k]
    <2>1. CASE i <= Len(events)
        BY <1>1, <1>2, <2>1
    <2>2. CASE i > Len(events)
        <3>1. i - Len(events) \in DOMAIN q
            BY <1>1, <1>2, <2>2
        <3> QED BY <1>1, <1>2, <2>2, <3>1
    <2> QED BY <1>1, <1>2, <2>1, <2>2
<1>4. ASSUME NEW k \in DOMAIN q
      PROVE  \E j \in DOMAIN events' :
                 /\ events'[j] = q[k]
                 /\ j > 0 /\ \A i \in DOMAIN events : j > i
    <2> DEFINE j == Len(events) + k
    <2>1. j \in DOMAIN events' /\ j - Len(events) = k /\ j > Len(events)
        BY <1>1, <1>2
    <2>2. events'[j] = q[k]
        BY <1>1, <1>2, <2>1
    <2> QED BY <1>1, <2>1, <2>2
<1> QED BY <1>1, <1>2, <1>3, <1>4

LEMMA LaterAppended ==
    ASSUME events \in Seq(Events), NEW q \in Seq(Events), events' = events \o q,
           NEW i \in DOMAIN events \cup {0}, NEW t,
           \/ Later(i, t) /\ comm'[t] = comm[t]
           \/ \E k \in DOMAIN q : q[k].tid = t /\ q[k].comm = comm'[t]
    PROVE  Later(i, t)'
<1>1. CASE Later(i, t) /\ comm'[t] = comm[t]
    BY <1>1, Appended DEF Later
<1>2. CASE \E k \in DOMAIN q : q[k].tid = t /\ q[k].comm = comm'[t]
    <2>1. PICK k \in DOMAIN q : q[k].tid = t /\ q[k].comm = comm'[t]
        BY <1>2
    <2>2. PICK j \in DOMAIN events' :
              events'[j] = q[k] /\ j > 0 /\ \A n \in DOMAIN events : j > n
        BY <2>1, Appended
    <2> QED BY <2>1, <2>2 DEF Later
<1> QED BY <1>1, <1>2

\* When the first event is taken off, the others move up.
LEMMA TailEvents ==
    ASSUME events \in Seq(Events), events # <<>>, events' = Tail(events)
    PROVE  /\ 1 \in DOMAIN events /\ events[1] = Head(events)
           /\ \A i \in DOMAIN events' : i + 1 \in DOMAIN events /\ events'[i] = events[i + 1]
           /\ \A i \in DOMAIN events : i > 1 => i - 1 \in DOMAIN events' /\ events'[i - 1] = events[i]
           /\ DOMAIN events \subseteq Nat \ {0} /\ DOMAIN events' \subseteq Nat \ {0}
<1>1. /\ Len(events) \in Nat \ {0} /\ DOMAIN events = 1 .. Len(events)
      /\ Len(events') = Len(events) - 1 /\ DOMAIN events' = 1 .. Len(events) - 1
      /\ \A i \in 1 .. Len(events) - 1 : events'[i] = events[i + 1]
    OBVIOUS
<1> QED BY <1>1

LEMMA LaterTail ==
    ASSUME events \in Seq(Events), events # <<>>, events' = Tail(events),
           UNCHANGED comm, NEW i \in Nat, NEW t, Later(i + 1, t)
    PROVE  Later(i, t)'
<1>1. PICK j \in DOMAIN events :
          j > i + 1 /\ events[j].tid = t /\ events[j].comm = comm[t]
    BY DEF Later
<1>2. j - 1 \in DOMAIN events' /\ events'[j - 1] = events[j] /\ j - 1 > i
    BY <1>1, TailEvents
<1> QED BY <1>1, <1>2 DEF Later

------------------------------------------------------------------------------
(* The device *)

LEMMA Types ==
    ASSUME IInv
    PROVE  /\ state \in [Tids -> {"free", "live", "exiting"}]
           /\ tgid \in [Tids -> Tids] /\ comm \in [Tids -> Names]
           /\ cmd \in [Tids -> ProcessNames]
           /\ lastTid \in Tids /\ Tids \subseteq Int
           /\ appliedMap \subseteq Tids /\ events \in Seq(Events)
           /\ \A t \in Tids : t > lastTid => state[t] = "free"
           /\ \A i \in DOMAIN events :
                  /\ events[i] \in Events
                  /\ events[i].tid \in Tids /\ events[i].tid <= lastTid
           /\ cur.tid \in Tids /\ cur.tid <= lastTid
           /\ Cached \subseteq Tids /\ todo \subseteq Tids
           /\ \A t \in Cached \cup todo : t <= lastTid
           /\ cache \in [Cached -> Rules]
           /\ pc \in {"bind", "record"} <=> cur # NoEvent
           /\ \A t \in Cached : state[t] = "live" => t \in appliedMap
<1>1. events \in Seq(Events) /\ events \in Seq(UsedEvents)
    BY DEF IInv, TypeOK, TasksTypeOK, UsedTids
<1>2. \A i \in DOMAIN events : events[i] \in UsedEvents
    BY <1>1
<1>3. cur.tid \in Tids
    BY TidsType DEF IInv, TypeOK, EngineTypeOK, Events, Scanned, NoEvent
<1> QED
    BY <1>1, <1>2, <1>3, TidsType
       DEF IInv, TypeOK, TasksTypeOK, EngineTypeOK, UsedTids, UsedEvents, Events,
           Cached, FollowedIsReported

(* What a step of a calm device does, q being the events it raises: tasks    *)
(* handed out keep their process, only the app's threads ...                 *)
DeviceChanges(q) ==
    /\ UNCHANGED <<configVars, engineVars, whitelist>>
    /\ events' = events \o q
    /\ \A t \in Tids : t <= lastTid =>
           /\ tgid'[t] = tgid[t]
           /\ InApp(t) => InApp(t)'
           /\ state'[t] = "live" => state[t] = "live"
           /\ Running(t)' => Running(t)
           /\ t \in appliedMap /\ Running(t)' => t \in appliedMap'
    /\ appliedMap' \subseteq appliedMap \cup {t \in Tids : t > lastTid}

\* ... whose new names are reported, or never were ...
NamesReported(q) ==
    \A t \in Tids : t <= lastTid /\ InApp(t) /\ Running(t)' =>
        \/ comm'[t] = comm[t]
        \/ \E k \in DOMAIN q : q[k].tid = t /\ q[k].comm = comm'[t]
        \/ t \notin appliedMap /\ ~InForce

\* ... and new threads of which are tracked.
NewThreads ==
    \A t \in Tids : Running(t)' /\ InApp(t)' /\ ~Main(t)' =>
        \/ t <= lastTid /\ InApp(t) /\ ~Main(t)
        \/ /\ App \in whitelist => tgid'[t] \in Cached
           /\ InForce => t \in appliedMap'

\* The events tell the truth about threads that are tracked.
EventsTrue(q) ==
    \A k \in DOMAIN q :
        LET e == q[k] IN
        /\ e \in Events /\ EventSound(e)'
        /\ e.type # "EXIT" => e.comm = comm'[e.tid]
        /\ e.type # "EXIT" /\ e.comm # App => e.tid \in appliedMap'

\* Without the package in the whitelist, nothing new is tracked or reported.
NothingListed(q) == whitelist = {} => q = <<>> /\ appliedMap' \subseteq appliedMap

NewMembers ==
    \A t \in appliedMap' \ appliedMap : t <= lastTid' /\ InApp(t)' /\ ~Main(t)'

LEMMA CalmDeviceStep ==
    ASSUME IInv, IInv', CalmInv, ~Scanning, NEW q \in Seq(Events),
           DeviceChanges(q), NamesReported(q), NewThreads, EventsTrue(q),
           NothingListed(q), NewMembers, Processes', lastTid <= lastTid'
    PROVE  CalmInv'
<1>1. /\ UNCHANGED <<storing, configChanged, cfg, cache, pc, cur, cursor, todo, whitelist>>
      /\ Cached' = Cached
    BY DEF DeviceChanges, configVars, engineVars, scanVars, Cached
<1>2. /\ ReloadPending' = ReloadPending /\ InForce' = InForce /\ Skipping' = Skipping
      /\ ~Scanning' /\ ~Refilling /\ ~Refilling' /\ Protected' = Protected
    BY <1>1 DEF ReloadPending, InForce, Skipping, Scanning, Refilling, Listed, Protected,
                Affinity, ThreadAffinity, Cached
<1>3. events \in Seq(Events) /\ events' = events \o q
    BY Types DEF DeviceChanges
<1>a. ASSUME NEW t \in Tids, t <= lastTid
      PROVE  /\ t <= lastTid' /\ tgid'[t] = tgid[t]
             /\ InApp(t) => InApp(t)'
             /\ state'[t] = "live" => state[t] = "live"
             /\ Running(t)' => Running(t)
    <2>1. lastTid \in Int /\ lastTid' \in Int /\ Tids \subseteq Int
        BY Types, TidsType DEF IInv, TypeOK, TasksTypeOK
    <2>2. t <= lastTid'
        BY <1>a, <2>1
    <2> QED BY <1>a, <2>2 DEF DeviceChanges
<1>d. \A t \in Cached \cup appliedMap \cup todo : t \in Tids /\ t <= lastTid /\ InApp(t)
    BY Types DEF CalmInv, Members
<1>e. \A i \in DOMAIN events : events[i].tid \in Tids /\ events[i].tid <= lastTid
    BY Types
<1>f. cur.tid \in Tids /\ cur.tid <= lastTid
    BY Types
<1>b. ASSUME NEW i \in DOMAIN events'
      PROVE  \/ i \in DOMAIN events /\ events'[i] = events[i]
             \/ \E k \in DOMAIN q : events'[i] = q[k]
    BY <1>3, Appended
<1>c. ASSUME NEW i \in DOMAIN events PROVE EventSound(events[i])'
    <2>1. EventSound(events[i])
        BY DEF CalmInv, Members
    <2>2. events'[i] = events[i]
        BY <1>3, Appended
    <2> QED BY <1>a, <1>e, <2>1, <2>2 DEF EventSound, Main, InApp
<1>4. Members'
    <2>1. \A t \in (Cached \cup appliedMap \cup todo)' : t <= lastTid' /\ InApp(t)'
        <3>1. todo' = todo /\ Cached' = Cached
            BY <1>1
        <3>2. \A t \in appliedMap' \ appliedMap : t <= lastTid' /\ InApp(t)'
            BY DEF NewMembers
        <3>3. \A t \in Cached \cup appliedMap \cup todo : t <= lastTid'
            BY <1>a, <1>d
        <3>4. \A t \in Cached \cup appliedMap \cup todo : InApp(t)'
            BY <1>a, <1>d
        <3> QED BY <3>1, <3>2, <3>3, <3>4
    <2>2. \A i \in DOMAIN events' : EventSound(events[i])'
        BY <1>b, <1>c DEF EventsTrue
    <2>3. cur # NoEvent => InApp(cur.tid)' /\ cur.pid = tgid'[cur.tid]
        BY <1>1, <1>a, <1>f DEF CalmInv, Members, InApp
    <2>4. pc = "scan" \/ cur.type = "SCAN" => \A t \in todo : tgid'[t] = cursor
        BY <1>1, <1>a, <1>d DEF CalmInv, Members
    <2> QED BY <1>1, <2>1, <2>2, <2>3, <2>4 DEF CalmInv, Members
<1>5. Keys'
    <2>1. CommKeys(cfg)' = CommKeys(cfg)
        BY <1>1 DEF CommKeys, Listed
    <2>2. ASSUME whitelist = {}
          PROVE  appliedMap' = {} /\ (events' = <<>> \/ Skipping)
        <3>1. q = <<>> /\ appliedMap' \subseteq appliedMap
            BY <2>2 DEF NothingListed
        <3>2. appliedMap = {} /\ (events = <<>> \/ Skipping)
            BY <2>2 DEF CalmInv, Keys
        <3> QED BY <1>3, <3>1, <3>2
    <2> QED BY <1>1, <1>2, <2>1, <2>2 DEF CalmInv, Keys
<1>6. MainsCached'
    <2> SUFFICES ASSUME NEW t \in Tids, Running(t)'
                 PROVE  /\ t \in appliedMap' /\ Main(t)' => t \in Cached
                        /\ App \in whitelist /\ InApp(t)' /\ ~Main(t)' => tgid'[t] \in Cached
        BY <1>1 DEF MainsCached
    <2>1. t \in appliedMap' /\ Main(t)' => t \in Cached
        <3>1. CASE t \in appliedMap
            <4>1. Main(t)' = Main(t) /\ Running(t)
                BY <3>1, <1>a, <1>d DEF Main
            <4> QED BY <3>1, <4>1 DEF CalmInv, MainsCached
        <3> QED BY <3>1 DEF NewMembers
    <2>2. App \in whitelist /\ InApp(t)' /\ ~Main(t)' => tgid'[t] \in Cached
        <3>1. CASE t <= lastTid /\ InApp(t) /\ ~Main(t)
            BY <3>1, <1>a DEF CalmInv, MainsCached
        <3> QED BY <3>1 DEF NewThreads
    <2> QED BY <2>1, <2>2
<1>7. Told'
    <2> SUFFICES ASSUME ~Skipping, NEW i \in DOMAIN events',
                        events'[i].type # "EXIT", Running(events[i].tid)'
                 PROVE  /\ events'[i].comm \in {App, comm'[events'[i].tid]}
                               \/ Later(i, events[i].tid)'
                        /\ events'[i].comm # App => events'[i].tid \in appliedMap'
        BY <1>2 DEF Told
    <2>1. CASE i \in DOMAIN events /\ events'[i] = events[i]
        <3>0. PICK e : e = events[i] /\ e = events'[i]
            BY <2>1
        <3>1. /\ e.type # "EXIT" /\ Running(e.tid)' /\ Running(e.tid)
              /\ e.tid \in Tids /\ e.tid <= lastTid /\ InApp(e.tid)
            <4>1. e.type # "EXIT" /\ Running(e.tid)'
                BY <3>0 DEF Running
            <4>2. e.tid \in Tids /\ e.tid <= lastTid
                BY <2>1, <3>0, <1>e
            <4>3. InApp(e.tid)
                BY <2>1, <3>0 DEF CalmInv, Members, EventSound
            <4>4. Running(e.tid)
                BY <4>1, <4>2, <1>a
            <4> QED BY <4>1, <4>2, <4>3, <4>4
        <3>2. /\ e.comm \in {App, comm[e.tid]} \/ Later(i, e.tid)
              /\ e.comm # App => e.tid \in appliedMap
            BY <1>2, <2>1, <3>0, <3>1 DEF CalmInv, Told
        <3>4. e.comm # App => e.tid \in appliedMap'
            BY <3>1, <3>2 DEF DeviceChanges
        <3>5. \/ comm'[e.tid] = comm[e.tid]
              \/ \E k \in DOMAIN q : q[k].tid = e.tid /\ q[k].comm = comm'[e.tid]
              \/ e.tid \notin appliedMap
            BY <3>1 DEF NamesReported
        <3>6. e.comm \in {App, comm'[e.tid]} \/ Later(i, e.tid)'
            <4>1. CASE comm'[e.tid] = comm[e.tid]
                BY <1>3, <2>1, <3>2, <4>1, LaterAppended
            <4>2. CASE \E k \in DOMAIN q : q[k].tid = e.tid /\ q[k].comm = comm'[e.tid]
                BY <1>3, <2>1, <4>2, LaterAppended
            <4>3. CASE e.tid \notin appliedMap
                BY <3>2, <4>3
            <4> QED BY <3>5, <4>1, <4>2, <4>3
        <3>7. Later(i, e.tid)' => Later(i, events[i].tid)'
            BY <3>0 DEF Later
        <3> QED BY <3>0, <3>4, <3>6, <3>7
    <2>2. CASE \E k \in DOMAIN q : events'[i] = q[k]
        BY <2>2 DEF EventsTrue
    <2> QED BY <1>b, <2>1, <2>2
<1>8. ThreadsTracked'
    <2> SUFFICES ASSUME InForce, NEW t \in Tids, Running(t)', InApp(t)', ~Main(t)'
                 PROVE  t \in appliedMap'
        BY <1>2 DEF ThreadsTracked
    <2>1. CASE t <= lastTid /\ InApp(t) /\ ~Main(t)
        <3>1. t \in appliedMap
            BY <1>2, <1>a, <2>1 DEF CalmInv, ThreadsTracked
        <3> QED BY <2>1, <3>1 DEF DeviceChanges
    <2> QED BY <2>1 DEF NewThreads
<1>9. Heard'
    <2> SUFFICES ASSUME InForce
                 PROVE  /\ \A i \in DOMAIN events' :
                               events'[i].type # "EXIT" /\ Running(events[i].tid)'
                                   => Fresh(events[i])' \/ Later(i, events[i].tid)'
                        /\ cur # NoEvent /\ Running(cur.tid)'
                               => Fresh(cur)' \/ Later(0, cur.tid)'
        BY <1>1, <1>2 DEF Heard
    <2>1. ASSUME NEW e, NEW i \in DOMAIN events \cup {0}, Fresh(e) \/ Later(i, e.tid),
                 e.tid \in Tids, e.tid <= lastTid, InApp(e.tid), Running(e.tid)'
          PROVE  Fresh(e)' \/ Later(i, e.tid)'
        <3> DEFINE t == e.tid
        <3>1. \/ comm'[t] = comm[t]
              \/ \E k \in DOMAIN q : q[k].tid = t /\ q[k].comm = comm'[t]
            BY <2>1 DEF NamesReported
        <3>2. CASE comm'[t] = comm[t]
            BY <1>1, <1>3, <2>1, <3>2, LaterAppended DEF Fresh
        <3>3. CASE \E k \in DOMAIN q : q[k].tid = t /\ q[k].comm = comm'[t]
            BY <1>3, <3>3, LaterAppended
        <3> QED BY <3>1, <3>2, <3>3
    <2>2. ASSUME NEW i \in DOMAIN events', events'[i].type # "EXIT", Running(events[i].tid)'
          PROVE  Fresh(events[i])' \/ Later(i, events[i].tid)'
        <3>1. CASE i \in DOMAIN events /\ events'[i] = events[i]
            <4>0. PICK e : e = events[i] /\ e = events'[i]
                BY <3>1
            <4>1. /\ e.tid \in Tids /\ e.tid <= lastTid /\ Running(e.tid)'
                  /\ e.type # "EXIT"
                BY <3>1, <4>0, <2>2, <1>e DEF Running
            <4>2. InApp(e.tid)
                BY <3>1, <4>0 DEF CalmInv, Members, EventSound
            <4>3. Running(e.tid)
                BY <4>1, <1>a
            <4>4. Fresh(e) \/ Later(i, e.tid)
                BY <1>2, <3>1, <4>0, <4>1, <4>3 DEF CalmInv, Heard
            <4>5. Fresh(e)' \/ Later(i, e.tid)'
                BY <2>1, <3>1, <4>1, <4>2, <4>4
            <4> QED BY <4>0, <4>5 DEF Fresh, Later
        <3>2. CASE \E k \in DOMAIN q : events'[i] = q[k]
            BY <2>2, <3>2 DEF EventsTrue, Fresh
        <3> QED BY <1>b, <2>2, <3>1, <3>2
    <2>3. ASSUME cur # NoEvent, Running(cur.tid)' PROVE Fresh(cur)' \/ Later(0, cur.tid)'
        <3>0. PICK e : e = cur /\ e = cur'
            BY <1>1
        <3>1. e.tid \in Tids /\ e.tid <= lastTid /\ Running(e.tid)' /\ InApp(e.tid)
            BY <3>0, <2>3, <1>f DEF Running, CalmInv, Members
        <3>2. Running(e.tid)
            BY <3>1, <1>a
        <3>3. Fresh(e) \/ Later(0, e.tid)
            BY <1>2, <2>3, <3>0, <3>2 DEF CalmInv, Heard
        <3>4. Fresh(e)' \/ Later(0, e.tid)'
            BY <2>1, <3>1, <3>3
        <3> QED BY <3>0, <3>4 DEF Fresh, Later
    <2> QED BY <2>2, <2>3
<1>10. NameFollowed'
    <2> SUFFICES ASSUME NEW t \in Cached, Running(t)', ~cache[t].isThread, ~ReloadPending
                 PROVE  \/ cache[t] = ThreadAffinity(cache[t].cfg, comm'[t])
                        \/ NameOnItsWay(t)'
        BY <1>1, <1>2 DEF NameFollowed
    <2>1. t \in Tids /\ t <= lastTid /\ InApp(t) /\ Running(t)
        BY <1>a, <1>d
    <2>2. t \in appliedMap
        BY <2>1, Types DEF Running
    <2>3. cache[t] = ThreadAffinity(cache[t].cfg, comm[t]) \/ NameOnItsWay(t)
        BY <2>1 DEF CalmInv, NameFollowed
    <2>4. \/ comm'[t] = comm[t]
          \/ \E k \in DOMAIN q : q[k].tid = t /\ q[k].comm = comm'[t]
        BY <2>1, <2>2 DEF NamesReported
    <2>5. CASE comm'[t] = comm[t]
        BY <1>1, <1>3, <2>3, <2>5, Appended DEF NameOnItsWay
    <2>6. CASE \E k \in DOMAIN q : q[k].tid = t /\ q[k].comm = comm'[t]
        <3>1. PICK k \in DOMAIN q : q[k].tid = t /\ q[k].comm = comm'[t]
            BY <2>6
        <3>2. PICK j \in DOMAIN events' : events'[j] = q[k]
            BY <1>3, Appended
        <3> QED BY <3>1, <3>2 DEF NameOnItsWay
    <2> QED BY <2>4, <2>5, <2>6
<1>11. ScanTracks' /\ ScanReads' /\ Overwrites'
    BY <1>1, <1>2 DEF ScanTracks, ScanReads, Overwrites, Refilling, CalmInv
<1> QED BY <1>4, <1>5, <1>6, <1>7, <1>8, <1>9, <1>10, <1>11 DEF CalmInv

\* Running threads have been handed out, and so have their processes.
LEMMA Used ==
    ASSUME IInv, CalmInv, NEW t \in Tids, state[t] # "free"
    PROVE  /\ t <= lastTid
           /\ tgid[t] \in Tids /\ tgid[t] <= t /\ tgid[t] <= lastTid
<1>1. t <= lastTid
    BY Types
<1>2. tgid[t] \in Tids /\ tgid[t] <= t
    BY <1>1, Types DEF CalmInv, Processes
<1> QED BY <1>1, <1>2, Types

\* Tasks outside the app are main threads, have other names, and are not
\* tracked.
LEMMA Strangers ==
    ASSUME IInv, CalmInv, NEW t \in Tids, t <= lastTid
    PROVE  /\ InApp(t) <=> comm[t] \in AppNames
           /\ ~InApp(t) => t \notin appliedMap /\ Main(t) /\ ~Reported(t, comm[t])
           /\ tgid[t] \in Tids /\ tgid[t] <= t /\ tgid[t] <= lastTid /\ tgid[tgid[t]] = tgid[t]
<1>1. /\ InApp(t) <=> comm[t] \in AppNames
      /\ ~InApp(t) => Main(t) /\ t \notin appliedMap
      /\ tgid[t] <= t /\ tgid[tgid[t]] = tgid[t] /\ tgid[t] \in Tids
    BY Types DEF CalmInv, Processes, Members
<1>2. ~InApp(t) => ~Reported(t, comm[t])
    BY <1>1 DEF CalmInv, Keys, Reported, AppNames
<1>3. tgid[t] <= lastTid
    BY <1>1, Types
<1> QED BY <1>1, <1>2, <1>3

\* A thread of the app that may start another is tracked, unless the rules
\* are not in force yet.
LEMMA Tracked ==
    ASSUME Calm, IInv, CalmInv, ~Scanning,
           NEW t \in Tids, Running(t), InApp(t), Settled(t)
    PROVE  /\ App \in whitelist => tgid[t] \in Cached
           /\ InForce => t \in appliedMap /\ App \in whitelist
<1>1. Main(t) /\ App \in whitelist => t \in appliedMap
    BY DEF Settled, Calm, Main
<1>2. App \in whitelist => tgid[t] \in Cached
    BY <1>1 DEF CalmInv, MainsCached, Main
<1>3. InForce => App \in whitelist
    BY DEF InForce, CalmInv, Keys, CommKeys
<1>4. InForce /\ ~Main(t) => t \in appliedMap
    BY DEF CalmInv, ThreadsTracked, Refilling, Scanning
<1> QED BY <1>1, <1>2, <1>3, <1>4

LEMMA CalmFork ==
    ASSUME Calm, IInv, IInv', CalmInv, ~Scanning,
           UNCHANGED <<configVars, engineVars, due>>,
           NEW parent \in Tids, NEW child \in Tids, NEW kind \in {"thread", "process"},
           Fork(parent, child, kind)
    PROVE  CalmInv'
<1>1. /\ Running(parent) /\ state[parent] # "free" /\ parent <= lastTid
      /\ child = lastTid + 1 /\ lastTid' = child /\ child > lastTid /\ lastTid <= lastTid'
      /\ state[child] = "free"
    BY Types, Used DEF Fork, Running
<1>0. lastTid \in Int /\ Tids \subseteq Int
    BY Types
<1>2. /\ UNCHANGED whitelist
      /\ state' = [state EXCEPT ![child] = "live"]
      /\ tgid' = [tgid EXCEPT ![child] = IF kind = "thread" THEN tgid[parent] ELSE child]
      /\ comm' = [comm EXCEPT ![child] = comm[parent]]
      /\ cmd' = [cmd EXCEPT ![child] = cmd[tgid[parent]]]
      /\ appliedMap' = IF parent \in appliedMap
                       THEN appliedMap \cup {child} ELSE appliedMap
    BY DEF Fork, ReportFork
<1>3. ASSUME NEW t \in Tids, t <= lastTid
      PROVE  /\ t # child /\ t <= lastTid'
             /\ state'[t] = state[t] /\ tgid'[t] = tgid[t] /\ comm'[t] = comm[t]
             /\ InApp(t)' <=> InApp(t)
             /\ Main(t)' <=> Main(t)
             /\ Running(t)' <=> Running(t)
             /\ tgid'[tgid'[t]] = tgid[tgid[t]]
    <2>1. t # child /\ t <= lastTid' /\ tgid[t] # child /\ tgid[t] \in Tids
        BY <1>1, <1>3, Strangers, Types
    <2> QED BY <1>2, <2>1, Types DEF InApp, Main, Running
<1>4. kind = "thread" <=> InApp(parent)
    BY <1>1, Strangers DEF Fork, Calm
<1>5. /\ InApp(child)' <=> InApp(parent)
      /\ InApp(parent) => tgid'[child] = tgid[parent]
      /\ ~InApp(parent) => tgid'[child] = child
      /\ comm'[child] = comm[parent]
      /\ tgid[parent] # child /\ tgid[parent] <= child
    <2>1. tgid[parent] \in Tids /\ tgid[parent] # child /\ tgid[parent] <= child
        BY <1>1, Strangers, Types
    <2> QED BY <1>2, <1>4, <2>1, Types DEF InApp
<1>6. Processes'
    <2> SUFFICES ASSUME NEW t \in Tids, t <= lastTid'
                 PROVE  /\ tgid'[t] <= t /\ tgid'[tgid'[t]] = tgid'[t]
                        /\ InApp(t)' <=> comm'[t] \in AppNames
                        /\ ~InApp(t)' => Main(t)'
        BY DEF Processes, InApp, Main
    <2>1. CASE t <= lastTid
        BY <1>3, <2>1, Strangers
    <2>2. CASE t = child
        <3>1. CASE InApp(parent)
            <4>1. tgid[tgid[parent]] = tgid[parent] /\ tgid[parent] \in Tids
                BY <1>1, Strangers
            <4>2. tgid'[tgid[parent]] = tgid[parent]
                BY <1>1, <1>3, <1>5, <4>1, Strangers
            <4> QED BY <1>1, <1>5, <2>2, <3>1, <4>2, Strangers
        <3>2. CASE ~InApp(parent)
            <4>1. tgid'[child] <= child
                BY <1>5, <3>2, Types
            <4> QED BY <1>1, <1>5, <2>2, <3>2, <4>1, Strangers DEF Main
        <3> QED BY <3>1, <3>2
    <2> QED BY <1>0, <1>1, <2>1, <2>2
<1>7. Reported(parent, comm[parent]) =>
          /\ InApp(parent) /\ whitelist # {}
          /\ comm[parent] # App => parent \in appliedMap
    <2>1. whitelist \subseteq {App} /\ (whitelist = {} => appliedMap = {})
        BY DEF CalmInv, Keys
    <2> QED BY <1>1, <2>1, Strangers DEF Reported
<1>8. PICK e : e = [type |-> "FORK", pid |-> tgid[parent], tid |-> child,
                    comm |-> comm[parent]]
    OBVIOUS
<1>9. PICK q : q = IF Reported(parent, comm[parent]) THEN <<e>> ELSE <<>>
    OBVIOUS
<1>10. /\ e \in Events /\ q \in Seq(Events)
       /\ \A k \in DOMAIN q : q[k] = e /\ Reported(parent, comm[parent])
       /\ events' = events \o q
    <2>1. e \in Events
        BY <1>1, <1>8, Types DEF Events, EventTypes
    <2>2. CASE Reported(parent, comm[parent])
        BY <1>8, <1>9, <2>1, <2>2 DEF Fork, ReportFork, Submit, Calm
    <2>3. CASE ~Reported(parent, comm[parent])
        <3>1. events' = events /\ q = <<>>
            BY <1>9, <2>3 DEF Fork, ReportFork
        <3>2. events \in Seq(Events)
            BY Types
        <3>3. q \in Seq(Events) /\ events' = events \o q
            BY <3>1, <3>2, ConcatEmptySeq
        <3>4. DOMAIN q = {}
            BY <3>1
        <3> QED BY <2>1, <3>3, <3>4
    <2> QED BY <2>1, <2>2, <2>3
<1>11. DeviceChanges(q)
    BY <1>1, <1>2, <1>3, <1>10 DEF DeviceChanges
<1>12. NamesReported(q)
    BY <1>3 DEF NamesReported
<1>13. NewThreads
    <2> SUFFICES ASSUME NEW t \in Tids, Running(t)', InApp(t)', ~Main(t)'
                 PROVE  \/ t <= lastTid /\ InApp(t) /\ ~Main(t)
                        \/ /\ App \in whitelist => tgid'[t] \in Cached
                           /\ InForce => t \in appliedMap'
        BY DEF NewThreads
    <2>1. CASE t <= lastTid
        BY <1>3, <2>1
    <2>2. CASE t = child
        <3>1. InApp(parent)
            BY <1>5, <2>2
        <3> QED BY <1>1, <1>2, <1>5, <2>2, <3>1, Tracked DEF Fork
    <2>3. CASE t > lastTid'
        <3>1. state'[t] = "free"
            BY <2>3 DEF IInv, UsedTids
        <3> QED BY <3>1 DEF Running
    <2> QED BY <1>0, <1>1, <2>1, <2>2, <2>3
<1>14. EventsTrue(q)
    <2>1. Reported(parent, comm[parent]) => EventSound(e)'
        BY <1>5, <1>7, <1>8 DEF EventSound, Main
    <2>2. Reported(parent, comm[parent]) /\ e.comm # App => e.tid \in appliedMap'
        BY <1>2, <1>7, <1>8
    <2>3. e.comm = comm'[e.tid]
        BY <1>5, <1>8
    <2> QED BY <1>10, <2>1, <2>2, <2>3 DEF EventsTrue
<1>15. NothingListed(q)
    <2>1. whitelist = {} => appliedMap = {}
        BY DEF CalmInv, Keys
    <2> QED BY <1>2, <1>7, <1>9, <2>1 DEF NothingListed
<1>16. NewMembers
    <2>1. parent \in appliedMap => InApp(parent)
        BY <1>1, Strangers
    <2> QED BY <1>1, <1>2, <1>5, <2>1, Types DEF NewMembers, Main
<1> QED BY <1>1, <1>6, <1>10, <1>11, <1>12, <1>13, <1>14, <1>15, <1>16, CalmDeviceStep

\* A running thread takes another name, and the tracepoint sees it.
LEMMA CalmNamed ==
    ASSUME Calm, IInv, IInv', CalmInv, ~Scanning,
           UNCHANGED <<configVars, engineVars, due>>,
           UNCHANGED <<state, tgid, lastTid, whitelist, appliedMap>>,
           NEW t \in Tids, Running(t), NEW name \in Names,
           comm' = [comm EXCEPT ![t] = name],
           ReportRename(t, name) \/ (~Reported(t, name) /\ UNCHANGED events),
           Reported(t, name) => /\ InApp(t)' /\ whitelist # {}
                                /\ name # App => t \in appliedMap,
           InApp(t) => Reported(t, name) \/ (t \notin appliedMap /\ ~InForce),
           \A u \in Tids : u <= lastTid =>
               /\ InApp(u) => InApp(u)'
               /\ InApp(u)' => InApp(u) \/ (u = t /\ Main(t)),
           Processes'
    PROVE  CalmInv'
<1>0. lastTid \in Int /\ Tids \subseteq Int /\ events \in Seq(Events)
    BY Types
<1>1. PICK e : e = [type |-> "RENAME", pid |-> tgid[t], tid |-> t, comm |-> name]
    OBVIOUS
<1>2. PICK q : q = IF Reported(t, name) THEN <<e>> ELSE <<>>
    OBVIOUS
<1>3. e \in Events
    BY <1>1, Types DEF Events, EventTypes
<1>4. /\ q \in Seq(Events)
      /\ \A k \in DOMAIN q : q[k] = e /\ Reported(t, name)
      /\ events' = events \o q
    <2>1. CASE Reported(t, name)
        BY <1>1, <1>2, <1>3, <2>1 DEF ReportRename, Submit, Calm
    <2>2. CASE ~Reported(t, name)
        <3>1. events' = events /\ q = <<>>
            BY <1>2, <2>2 DEF ReportRename
        <3>2. q \in Seq(Events) /\ events' = events \o q
            BY <1>0, <3>1, ConcatEmptySeq
        <3>3. DOMAIN q = {}
            BY <3>1
        <3> QED BY <3>2, <3>3
    <2> QED BY <2>1, <2>2
<1>5. /\ comm'[t] = name
      /\ \A u \in Tids : u # t => comm'[u] = comm[u]
      /\ \A u \in Tids : (Running(u)' <=> Running(u)) /\ (Main(u)' <=> Main(u))
    BY Types DEF Running, Main
<1>6. DeviceChanges(q)
    BY <1>4, <1>5 DEF DeviceChanges
<1>7. NamesReported(q)
    <2>1. Reported(t, name) => \E k \in DOMAIN q : q[k].tid = t /\ q[k].comm = name
        <3>1. ASSUME Reported(t, name) PROVE 1 \in DOMAIN q /\ q[1] = e
            BY <1>2, <3>1
        <3> QED BY <1>1, <3>1
    <2> QED BY <1>5, <2>1 DEF NamesReported
<1>8. NewThreads
    <2> SUFFICES ASSUME NEW u \in Tids, Running(u)', InApp(u)', ~Main(u)'
                 PROVE  u <= lastTid /\ InApp(u) /\ ~Main(u)
        BY DEF NewThreads
    <2>1. u <= lastTid
        BY <1>5, Used DEF Running
    <2> QED BY <1>5, <2>1
<1>9. EventsTrue(q)
    <2>1. Reported(t, name) => EventSound(e)'
        BY <1>1 DEF EventSound
    <2>2. Reported(t, name) /\ e.comm # App => e.tid \in appliedMap'
        BY <1>1
    <2>3. e.comm = comm'[e.tid]
        BY <1>1, <1>5
    <2> QED BY <1>3, <1>4, <2>1, <2>2, <2>3 DEF EventsTrue
<1>10. NothingListed(q)
    BY <1>2 DEF NothingListed
<1>11. NewMembers
    BY DEF NewMembers
<1>12. lastTid <= lastTid'
    BY <1>0
<1> QED BY <1>4, <1>6, <1>7, <1>8, <1>9, <1>10, <1>11, <1>12, CalmDeviceStep

LEMMA CalmBecomeApp ==
    ASSUME Calm, IInv, IInv', CalmInv, ~Scanning,
           UNCHANGED <<configVars, engineVars, due>>, NEW t \in Tids, BecomeApp(t)
    PROVE  CalmInv'
<1>1. /\ Running(t) /\ t <= lastTid /\ tgid[t] = t /\ cmd[t] = Zygote
      /\ App \in Names
    BY Used DEF BecomeApp, Running, Names, ProcessNames
<1>2. ~InApp(t) /\ t \notin appliedMap /\ Main(t)
    BY <1>1, Strangers DEF InApp, App, Zygote
<1>3. /\ UNCHANGED <<state, tgid, lastTid, whitelist, appliedMap>>
      /\ cmd' = [cmd EXCEPT ![t] = App] /\ comm' = [comm EXCEPT ![t] = App]
      /\ ReportRename(t, App)
    BY DEF BecomeApp
<1>4. ASSUME NEW u \in Tids, u <= lastTid
      PROVE  /\ u # t => (InApp(u)' <=> InApp(u)) /\ comm'[u] = comm[u]
             /\ InApp(t)' /\ comm'[t] = App
    <2>1. u # t => tgid[u] # t
        BY <1>1, <1>2, <1>4, Strangers DEF InApp, Main
    <2>2. tgid[u] \in Tids
        BY <1>4, Strangers
    <2> QED BY <1>1, <1>3, <2>1, <2>2, Types DEF InApp
<1>5. Processes'
    <2> SUFFICES ASSUME NEW u \in Tids, u <= lastTid
                 PROVE  /\ tgid[u] <= u /\ tgid[tgid[u]] = tgid[u]
                        /\ InApp(u)' <=> comm'[u] \in AppNames
                        /\ ~InApp(u)' => Main(u)
        BY <1>3 DEF Processes, InApp, Main
    <2> QED BY <1>4, Strangers DEF AppNames
<1>6. Reported(t, App) => InApp(t)' /\ whitelist # {}
    BY <1>1, <1>2, <1>4 DEF Reported
<1> QED BY <1>1, <1>2, <1>3, <1>4, <1>5, <1>6, CalmNamed

LEMMA CalmRename ==
    ASSUME Calm, IInv, IInv', CalmInv, ~Scanning,
           UNCHANGED <<configVars, engineVars, due>>,
           NEW t \in Tids, NEW by \in Tids, NEW name \in Names, Rename(by, t, name)
    PROVE  CalmInv'
<1>1. /\ Running(t) /\ t <= lastTid /\ by = t
      /\ comm[t] \in AppNames /\ name \in ThreadNames /\ name # App
    BY Used, TaskAssumption
       DEF Rename, Running, Calm, TaskAssumption, ProcessNames
<1>2. InApp(t)
    BY <1>1, Strangers
<1>3. /\ UNCHANGED <<state, tgid, cmd, lastTid, whitelist, appliedMap>>
      /\ comm' = [comm EXCEPT ![t] = name] /\ ReportRename(t, name)
    BY <1>1 DEF Rename
<1>4. /\ Reported(t, name) <=> t \in appliedMap
      /\ t \in appliedMap => whitelist # {}
    BY <1>1 DEF Reported, CalmInv, Keys
<1>5. \A u \in Tids : InApp(u)' <=> InApp(u)
    BY <1>3 DEF InApp
<1>6. t \notin appliedMap => ~InForce
    BY <1>1, <1>2, Tracked DEF Rename
<1>7. Processes'
    <2> SUFFICES ASSUME NEW u \in Tids, u <= lastTid
                 PROVE  /\ tgid[u] <= u /\ tgid[tgid[u]] = tgid[u]
                        /\ InApp(u) <=> comm'[u] \in AppNames
                        /\ ~InApp(u) => Main(u)
        BY <1>3, <1>5 DEF Processes, InApp, Main
    <2>1. comm'[u] = comm[u] \/ (u = t /\ comm'[u] \in AppNames)
        BY <1>1, <1>3, Types DEF AppNames
    <2> QED BY <1>2, <2>1, Strangers
<1>8. InApp(t)'
    BY <1>2, <1>5
<1> QED BY <1>1, <1>3, <1>4, <1>5, <1>6, <1>7, <1>8, CalmNamed

LEMMA CalmExec ==
    ASSUME Calm, IInv, IInv', CalmInv, ~Scanning,
           UNCHANGED <<configVars, engineVars, due>>,
           NEW t \in Tids, NEW name \in Names, Exec(t, name)
    PROVE  CalmInv'
<1>1. /\ Running(t) /\ t <= lastTid /\ name = "sh" /\ cmd[t] # App
    BY Used, TaskAssumption DEF Exec, Running, Calm, TaskAssumption
<1>2. tgid[t] = t
    BY <1>1 DEF Exec, Group, Running
<1>3. ~InApp(t) /\ t \notin appliedMap
    BY <1>1, <1>2, Strangers DEF InApp
<1>4. ~Reported(t, name)
    BY <1>1, <1>3 DEF Reported, CalmInv, Keys, App
<1>5. /\ UNCHANGED <<state, tgid, lastTid, whitelist, appliedMap, events>>
      /\ cmd' = [cmd EXCEPT ![t] = name] /\ comm' = [comm EXCEPT ![t] = name]
    BY <1>4 DEF Exec, ReportExec
<1>6. ASSUME NEW u \in Tids, u <= lastTid
      PROVE  (InApp(u)' <=> InApp(u)) /\ (u # t => comm'[u] = comm[u])
    <2>1. u # t => tgid[u] # t
        BY <1>2, <1>3, <1>6, Strangers DEF InApp, Main
    <2>2. tgid[u] \in Tids
        BY <1>6, Strangers
    <2> QED BY <1>1, <1>2, <1>3, <1>5, <2>1, <2>2, Types DEF InApp, App
<1>7. comm'[t] = name /\ name \notin AppNames
    BY <1>1, <1>5, TaskAssumption, Types
       DEF TaskAssumption, AppNames, ProcessNames, App
<1>8. Processes'
    <2> SUFFICES ASSUME NEW u \in Tids, u <= lastTid
                 PROVE  /\ tgid[u] <= u /\ tgid[tgid[u]] = tgid[u]
                        /\ InApp(u)' <=> comm'[u] \in AppNames
                        /\ ~InApp(u)' => Main(u)
        BY <1>5 DEF Processes, InApp, Main
    <2> QED BY <1>3, <1>6, <1>7, Strangers
<1> QED BY <1>1, <1>3, <1>4, <1>5, <1>6, <1>8, CalmNamed

\* Exit, Reap and SystemRebinds.
LEMMA CalmOtherActions ==
    ASSUME Calm, IInv, IInv', CalmInv, ~Scanning,
           UNCHANGED <<configVars, engineVars, due>>,
           NEW t \in Tids, Exit(t) \/ Reap(t) \/ SystemRebinds(t)
    PROVE  CalmInv'
<1>0. lastTid \in Int /\ Tids \subseteq Int /\ events \in Seq(Events)
    BY Types
<1>1. /\ UNCHANGED <<tgid, comm, cmd, lastTid, whitelist>>
      /\ state' \in [Tids -> {"free", "live", "exiting"}]
      /\ \A u \in Tids : state'[u] = "live" => state[u] = "live"
      /\ state[t] # "free"
    BY Types DEF Exit, Reap, SystemRebinds, taskVars
<1>2. /\ t <= lastTid
      /\ \A u \in Tids : u <= lastTid => tgid[u] \in Tids
    BY <1>1, Used, Strangers
<1>3. /\ \A u \in Tids : (InApp(u)' <=> InApp(u)) /\ (Main(u)' <=> Main(u))
      /\ \A u \in Tids : u <= lastTid /\ Running(u)' => Running(u)
    BY <1>1, <1>2 DEF InApp, Main, Running
<1>4. PICK e : e = [type |-> "EXIT", pid |-> tgid[t], tid |-> t, comm |-> NoName]
    OBVIOUS
<1>5. PICK q : q = IF Exit(t) /\ t \in appliedMap THEN <<e>> ELSE <<>>
    OBVIOUS
<1>6. e \in Events
    BY <1>4, Types DEF Events, EventTypes
<1>7. /\ q \in Seq(Events)
      /\ \A k \in DOMAIN q : q[k] = e /\ Exit(t) /\ t \in appliedMap
      /\ events' = events \o q
      /\ appliedMap' \subseteq appliedMap
      /\ \A u \in appliedMap : u \in appliedMap' \/ state'[u] # "live"
    <2>1. CASE Exit(t) /\ t \in appliedMap
        <3>1. appliedMap' = appliedMap \ {t} /\ state'[t] = "exiting"
            BY <2>1, Types DEF Exit, ReportExit
        <3> QED BY <1>4, <1>5, <1>6, <2>1, <3>1, SMTT(60) DEF Exit, ReportExit, Submit, Calm
    <2>2. CASE ~(Exit(t) /\ t \in appliedMap)
        <3>1. events' = events /\ q = <<>> /\ appliedMap' = appliedMap
            BY <1>5, <2>2 DEF Exit, Reap, SystemRebinds, ReportExit
        <3>2. q \in Seq(Events) /\ events' = events \o q
            BY <1>0, <3>1, ConcatEmptySeq
        <3>3. DOMAIN q = {}
            BY <3>1
        <3> QED BY <3>1, <3>2, <3>3
    <2> QED BY <2>1, <2>2
<1>8. DeviceChanges(q)
    BY <1>1, <1>3, <1>7 DEF DeviceChanges, Running
<1>9. NamesReported(q)
    BY <1>1 DEF NamesReported
<1>10. NewThreads
    <2> SUFFICES ASSUME NEW u \in Tids, Running(u)', InApp(u)', ~Main(u)'
                 PROVE  u <= lastTid /\ InApp(u) /\ ~Main(u)
        BY DEF NewThreads
    <2>1. state[u] # "free"
        BY <1>1 DEF Running
    <2> QED BY <1>3, <2>1, Used
<1>11. EventsTrue(q)
    <2>1. Exit(t) /\ t \in appliedMap => EventSound(e)'
        <3> SUFFICES ASSUME Exit(t), t \in appliedMap PROVE EventSound(e)'
            OBVIOUS
        <3>1. InApp(t)'
            BY <1>2, <1>3, Strangers
        <3>2. state'[t] # "live"
            BY Types DEF Exit
        <3> QED BY <1>1, <1>4, <3>1, <3>2 DEF EventSound
    <2> QED BY <1>4, <1>6, <1>7, <2>1 DEF EventsTrue
<1>12. NothingListed(q)
    BY <1>5, <1>7 DEF NothingListed, CalmInv, Keys
<1>13. NewMembers
    BY <1>7 DEF NewMembers
<1>14. Processes'
    BY <1>1, <1>3 DEF CalmInv, Processes
<1>15. lastTid <= lastTid'
    BY <1>0, <1>1
<1> QED BY <1>7, <1>8, <1>9, <1>10, <1>11, <1>12, <1>13, <1>14, <1>15, CalmDeviceStep

LEMMA CalmDevice == Calm /\ IInv /\ CalmInv /\ Device => CalmInv'
<1> SUFFICES ASSUME Calm, IInv, CalmInv, Device PROVE CalmInv'
    OBVIOUS
<1>1. UNCHANGED <<configVars, engineVars, due>> /\ ~Scanning /\ IInv'
    BY DeviceInv DEF Device, Calm
<1>2. CASE \E parent, child \in Tids, kind \in {"thread", "process"} :
               Fork(parent, child, kind)
    BY <1>1, <1>2, CalmFork
<1>3. CASE \E t \in Tids :
               \/ BecomeApp(t) \/ Exit(t) \/ Reap(t) \/ SystemRebinds(t)
               \/ \E name \in Names :
                      Exec(t, name) \/ \E by \in Tids : Rename(by, t, name)
    BY <1>1, <1>3, CalmBecomeApp, CalmOtherActions, CalmExec, CalmRename
<1> QED BY <1>2, <1>3 DEF Device, TasksChange

------------------------------------------------------------------------------
(* The daemon *)

\* The engine's steps do not change the tasks.
LEMMA TasksAlone ==
    ASSUME UNCHANGED taskVars
    PROVE  /\ UNCHANGED <<state, tgid, comm, cmd, lastTid>>
           /\ \A t : (Running(t)' <=> Running(t)) /\ (InApp(t)' <=> InApp(t))
                     /\ (Main(t)' <=> Main(t))
           /\ Processes' <=> Processes
<1>1. UNCHANGED <<state, tgid, comm, cmd, lastTid>>
    BY DEF taskVars
<1>2. \A t : (Running(t)' <=> Running(t)) /\ (InApp(t)' <=> InApp(t))
             /\ (Main(t)' <=> Main(t))
    BY <1>1 DEF Running, InApp, Main
<1>3. Processes' <=> Processes
    BY <1>1, <1>2 DEF Processes
<1> QED BY <1>1, <1>2, <1>3

\* A thread of a running process has a running main thread of the same app.
LEMMA RunningMain ==
    ASSUME IInv, CalmInv, NEW t \in Tids, Running(t)
    PROVE  /\ t <= lastTid
           /\ tgid[t] \in Tids /\ Running(tgid[t]) /\ Main(tgid[t])
           /\ InApp(t) => InApp(tgid[t])
<1>1. t <= lastTid
    BY Used DEF Running
<1>2. tgid[t] \in Tids /\ tgid[tgid[t]] = tgid[t]
    BY <1>1, Strangers
<1> QED BY <1>1, <1>2 DEF Running, Main, InApp

\* A step after which the cache and the map hold no more than before, and all
\* that run of what they held.
LEMMA CalmShrinks ==
    ASSUME IInv, IInv', CalmInv,
           UNCHANGED <<taskVars, whitelist, configVars, cfg, events, cursor, todo>>,
           Cached' \subseteq Cached, appliedMap' \subseteq appliedMap,
           \A t \in Cached' : cache'[t] = cache[t],
           \A t \in Tids : Running(t) =>
               /\ t \in Cached => t \in Cached'
               /\ t \in appliedMap => t \in appliedMap',
           ReloadPending' <=> ReloadPending, Scanning' <=> Scanning,
           Refilling' <=> Refilling, pc' = "clear" <=> pc = "clear",
           Skipping => Skipping' \/ events = <<>>,
           Overwrites', ScanTracks',
           \/ cur' = cur /\ (pc' = "scan" => pc = "scan")
           \/ /\ cur' = NoEvent
              /\ pc' = "scan" => cur.type = "SCAN"
              /\ cur.tid \in Cached' /\ Running(cur.tid) => cache[cur.tid].isThread
    PROVE  CalmInv'
<1>1. /\ UNCHANGED <<state, tgid, comm, cmd, lastTid, whitelist, cfg, events, cursor, todo>>
      /\ \A t : (Running(t)' <=> Running(t)) /\ (InApp(t)' <=> InApp(t))
                /\ (Main(t)' <=> Main(t))
      /\ Processes'
      /\ CommKeys(cfg)' = CommKeys(cfg)
      /\ InForce' <=> InForce
    BY TasksAlone DEF CalmInv, CommKeys, Listed, InForce, taskVars
<1>2. cur' # NoEvent => cur' = cur
    OBVIOUS
<1>3. pc' = "scan" \/ cur'.type = "SCAN" => pc = "scan" \/ cur.type = "SCAN"
    BY DEF NoEvent
<1>e. \A i \in DOMAIN events : events[i].tid \in Tids /\ events[i].tid <= lastTid
    BY Types
<1>l. \A i, t : Later(i, t)' <=> Later(i, t)
    BY <1>1 DEF Later
<1>4. Members'
    <2>1. \A i \in DOMAIN events : EventSound(events[i])'
        BY <1>1 DEF CalmInv, Members, EventSound, Main, InApp
    <2>2. \A t \in (Cached \cup appliedMap \cup todo)' : t <= lastTid /\ InApp(t)
        BY <1>1 DEF CalmInv, Members
    <2>3. cur' # NoEvent =>
              /\ InApp(cur'.tid) /\ cur'.pid = tgid[cur'.tid]
              /\ cur'.type \in {"SCAN", "FORK", "RENAME"}
        BY <1>2 DEF CalmInv, Members
    <2>4. cur'.type = "SCAN" => cur'.pid = cursor
        BY <1>2 DEF CalmInv, Members, NoEvent
    <2>5. pc' = "scan" \/ cur'.type = "SCAN" => \A t \in todo : tgid[t] = cursor
        BY <1>3 DEF CalmInv, Members
    <2> QED BY <1>1, <2>1, <2>2, <2>3, <2>4, <2>5 DEF Members, InApp
<1>5. Keys'
    BY <1>1, <1>2 DEF CalmInv, Keys
<1>6. MainsCached'
    <2> SUFFICES ASSUME ~Scanning, NEW t \in Tids, Running(t)
                 PROVE  /\ t \in appliedMap' /\ Main(t) => t \in Cached'
                        /\ App \in whitelist /\ InApp(t) /\ ~Main(t) => tgid[t] \in Cached'
        BY <1>1 DEF MainsCached
    <2> QED BY RunningMain DEF CalmInv, MainsCached
<1>7. Told'
    <2> SUFFICES ASSUME ~Skipping', NEW i \in DOMAIN events,
                        events[i].type # "EXIT", Running(events[i].tid)
                 PROVE  /\ events[i].comm \in {App, comm[events[i].tid]}
                               \/ Later(i, events[i].tid)
                        /\ events[i].comm # App /\ ~Refilling
                               => events[i].tid \in appliedMap'
        BY <1>1, <1>l DEF Told, Running
    <2>1. ~Skipping
        OBVIOUS
    <2> QED BY <2>1, <1>e DEF CalmInv, Told
<1>8. ThreadsTracked'
    BY <1>1 DEF CalmInv, ThreadsTracked
<1>9. Heard'
    <2> SUFFICES ASSUME InForce, ~Refilling
                 PROVE  /\ \A i \in DOMAIN events :
                               events[i].type # "EXIT" /\ Running(events[i].tid)
                                   => Fresh(events[i])' \/ Later(i, events[i].tid)
                        /\ cur' # NoEvent /\ Running(cur'.tid)
                               => Fresh(cur)' \/ Later(0, cur'.tid)
        BY <1>1, <1>l DEF Heard, Running
    <2>1. ASSUME NEW e, e.tid \in Tids, Running(e.tid), Fresh(e) PROVE Fresh(e)'
        BY <1>1, <2>1 DEF Fresh
    <2>2. ASSUME NEW i \in DOMAIN events, events[i].type # "EXIT", Running(events[i].tid)
          PROVE  Fresh(events[i])' \/ Later(i, events[i].tid)
        <3>1. PICK e : e = events[i] /\ e = events'[i]
            BY <1>1
        <3>2. Fresh(e) \/ Later(i, e.tid)
            BY <2>2, <3>1 DEF CalmInv, Heard
        <3>3. Fresh(e)' \/ Later(i, e.tid)
            BY <1>e, <2>1, <2>2, <3>1, <3>2
        <3> QED BY <3>1, <3>3 DEF Fresh
    <2>3. ASSUME cur' # NoEvent, Running(cur'.tid) PROVE Fresh(cur)' \/ Later(0, cur'.tid)
        <3>1. PICK e : e = cur /\ e = cur'
            BY <1>2, <2>3
        <3>2. Fresh(e) \/ Later(0, e.tid)
            BY <2>3, <3>1 DEF CalmInv, Heard
        <3>3. e.tid \in Tids
            BY <3>1, Types
        <3>4. Fresh(e)' \/ Later(0, e.tid)
            BY <2>1, <2>3, <3>1, <3>2, <3>3
        <3> QED BY <3>1, <3>4 DEF Fresh
    <2> QED BY <2>2, <2>3
<1>10. ScanReads' /\ Overwrites'
    BY <1>1, <1>2 DEF CalmInv, ScanReads, NoEvent
<1>11. NameFollowed'
    <2> SUFFICES ASSUME NEW t \in Cached', Running(t), ~cache[t].isThread, ~ReloadPending
                 PROVE  \/ cache[t] = ThreadAffinity(cache[t].cfg, comm[t])
                        \/ NameOnItsWay(t)'
        BY <1>1 DEF NameFollowed
    <2>1. cache[t] = ThreadAffinity(cache[t].cfg, comm[t]) \/ NameOnItsWay(t)
        BY DEF CalmInv, NameFollowed
    <2> QED BY <1>1, <2>1 DEF NameOnItsWay
<1> QED BY <1>1, <1>4, <1>5, <1>6, <1>7, <1>8, <1>9, <1>10, <1>11 DEF CalmInv

\* A step that leaves or keeps a reload pending.
LEMMA CalmPending ==
    ASSUME IInv, IInv', CalmInv,
           UNCHANGED <<taskVars, appliedMap, events, cache, cur, cursor, todo>>,
           ReloadPending', \A p \in {"walk", "scan", "record"} : pc' = p <=> pc = p,
           ~Scanning' => ~Scanning /\ whitelist' = whitelist, Refilling' <=> Refilling,
           Refilling \/ pc \in {"recv", "record"} => cfg' = cfg,
           Skipping => Skipping', Keys'
    PROVE  CalmInv'
<1>1. /\ UNCHANGED <<state, tgid, comm, cmd, lastTid>>
      /\ \A t : (Running(t)' <=> Running(t)) /\ (InApp(t)' <=> InApp(t))
                /\ (Main(t)' <=> Main(t))
      /\ Processes' /\ Cached' = Cached
    BY TasksAlone DEF CalmInv, Cached
<1>2. ThreadsTracked' /\ Heard' /\ NameFollowed'
    BY DEF ThreadsTracked, Heard, InForce, NameFollowed
<1>3. Members'
    BY <1>1 DEF CalmInv, Members, EventSound, Main, InApp
<1>4. Told'
    BY <1>1 DEF CalmInv, Told, Later, Running
<1>5. Overwrites'
    BY <1>1 DEF CalmInv, Overwrites, Protected, Affinity, ThreadAffinity
<1>6. ScanTracks' /\ ScanReads'
    <2>1. CASE Refilling
        <3>1. \A t : Passed(t)' <=> Passed(t)
            BY <1>1, <2>1 DEF Passed, Refilling
        <3> QED BY <1>1, <2>1, <3>1 DEF CalmInv, ScanTracks, ScanReads, Listed
    <2>2. CASE ~Refilling
        BY <2>2 DEF ScanTracks, ScanReads, Refilling
    <2> QED BY <2>1, <2>2
<1>7. MainsCached'
    BY <1>1 DEF CalmInv, MainsCached
<1> QED BY <1>1, <1>2, <1>3, <1>4, <1>5, <1>6, <1>7 DEF CalmInv

LEMMA CalmStore ==
    ASSUME IInv, IInv', CalmInv, StoreConfig \/ RaiseFlag
    PROVE  CalmInv'
<1>1. /\ UNCHANGED <<taskVars, whitelist, appliedMap, events>>
      /\ UNCHANGED <<cfg, cache, pc, cur, cursor, todo>>
      /\ storing' \/ configChanged'
    BY DEF StoreConfig, RaiseFlag, kernelVars, engineVars, scanVars
<1>2. /\ ReloadPending' /\ (Scanning' <=> Scanning) /\ (Refilling' <=> Refilling)
      /\ Skipping' <=> Skipping
    BY <1>1 DEF ReloadPending, Scanning, Refilling, Skipping, Listed
<1>3. Keys'
    BY <1>1, <1>2 DEF CalmInv, Keys, CommKeys, Listed, Cached, Refilling
<1> QED BY <1>1, <1>2, <1>3, CalmPending

LEMMA CalmQuiet ==
    ASSUME IInv, IInv', CalmInv, TimePasses \/ Drained \/ CheckNotDue \/ Forget
    PROVE  CalmInv'
<1>1. /\ UNCHANGED <<taskVars, whitelist, configVars, cfg, events, cache, cur, cursor, todo>>
      /\ appliedMap' \subseteq appliedMap
      /\ \A t \in appliedMap : t \in appliedMap' \/ t \in dead
    BY DEF TimePasses, Drained, CheckNotDue, Forget, kernelVars, engineVars, configVars, scanVars
<1>2. \/ pc' = pc
      \/ pc = "recv" /\ pc' = "check" /\ events = <<>>
      \/ pc \in {"check", "forget"} /\ pc' = "round"
    BY DEF TimePasses, Drained, CheckNotDue, Forget, engineVars
<1>3. /\ ReloadPending' <=> ReloadPending
      /\ Scanning' <=> Scanning
      /\ Refilling' <=> Refilling
      /\ pc' = "clear" <=> pc = "clear"
      /\ pc' = "scan" => pc = "scan"
      /\ pc' = "walk" <=> pc = "walk"
    BY <1>1, <1>2 DEF ReloadPending, Scanning, Refilling, configVars
<1>4. Skipping => Skipping' \/ events = <<>>
    BY <1>1, <1>2 DEF Skipping, Listed
<1>5. \A t \in dead : ~Running(t)
    BY DEF IInv, UsedTids, Running
<1>6. Overwrites'
    <2>1. CASE pc' = pc
        <3>1. UNCHANGED cur \/ pc # "record"
            BY DEF TimePasses, Drained, CheckNotDue, Forget, engineVars
        <3> QED BY <1>1, <2>1, <3>1
                DEF CalmInv, Overwrites, Protected, Affinity, ThreadAffinity, Cached
    <2> QED BY <1>2, <2>1 DEF Overwrites
<1>7. ScanTracks'
    <2> SUFFICES ASSUME Refilling PROVE ScanTracks'
        BY <1>3 DEF ScanTracks
    <2>1. pc' = pc /\ appliedMap' = appliedMap
        <3>1. TimePasses
            BY Types DEF Refilling, Drained, CheckNotDue, Forget, NoEvent
        <3> QED BY <3>1 DEF TimePasses, engineVars, kernelVars
    <2>2. \A t : (Passed(t)' <=> Passed(t)) /\ (Running(t)' <=> Running(t))
                 /\ (InApp(t)' <=> InApp(t))
        BY <1>1, <2>1, TasksAlone DEF Passed, taskVars
    <2> QED BY <1>1, <2>1, <2>2 DEF CalmInv, ScanTracks, Refilling, Listed, Cached, taskVars
<1> QED BY <1>1, <1>3, <1>4, <1>5, <1>6, <1>7, CalmShrinks DEF Cached

LEMMA CalmStartRound ==
    ASSUME IInv, IInv', CInv, CalmInv, StartRound
    PROVE  CalmInv'
<1>1. /\ pc = "round" /\ pc' = IF configChanged THEN "remove" ELSE "recv"
      /\ cfg' = current /\ configChanged' = FALSE
      /\ UNCHANGED <<current, storing, taskVars, whitelist, appliedMap, events>>
      /\ UNCHANGED <<cache, cur, cursor, todo>>
    BY DEF StartRound, kernelVars, scanVars
<1>2. cur = NoEvent
    BY <1>1, Types
<1>3. ~Skipping /\ ~Scanning /\ ~Refilling /\ ~Refilling'
    BY <1>1, <1>2 DEF Skipping, Scanning, Refilling, NoEvent
<1>4. CASE ~configChanged /\ ~storing
    <2>0. configChanged = FALSE
        BY <1>4 DEF IInv, TypeOK, EngineTypeOK
    <2>1. cfg' = cfg /\ UNCHANGED configVars
        BY <1>1, <1>4, <2>0 DEF CInv, configVars
    <2>2. (ReloadPending' <=> ReloadPending) /\ ~Scanning'
        BY <1>1, <1>2, <1>4 DEF ReloadPending, Scanning, NoEvent
    <2>3. ScanTracks' /\ Overwrites'
        BY <1>1, <1>3, <1>4 DEF ScanTracks, Overwrites
    <2>4. pc' = "recv" /\ Cached' = Cached
        BY <1>1, <1>4 DEF Cached
    <2> QED BY <1>1, <1>3, <2>1, <2>2, <2>3, <2>4, CalmShrinks
<1>5. CASE configChanged \/ storing
    <2>1. ReloadPending'
        BY <1>1, <1>5 DEF ReloadPending
    <2>2. Keys'
        BY <1>1, <1>2, <1>3, <2>1 DEF CalmInv, Keys, Cached
    <2> QED BY <1>1, <1>3, <2>1, <2>2, CalmPending
<1> QED BY <1>4, <1>5

LEMMA CalmKeys ==
    ASSUME IInv, IInv', CalmInv, RemoveKeys \/ InsertKeys
    PROVE  CalmInv'
<1>1. /\ UNCHANGED <<taskVars, appliedMap, events, cfg, cache, cur, cursor, todo>>
      /\ \/ pc = "remove" /\ pc' = "insert" /\ whitelist' = {}
         \/ pc = "insert" /\ pc' = "clear" /\ whitelist' = CommKeys(cfg)
    BY DEF RemoveKeys, InsertKeys, kernelVars, scanVars
<1>2. cur = NoEvent
    BY <1>1, Types
<1>3. ~Skipping /\ ~Refilling /\ ~Refilling' /\ Scanning' /\ ReloadPending'
    BY <1>1, <1>2 DEF Skipping, Scanning, Refilling, NoEvent, ReloadPending
<1>4. Keys'
    BY <1>1, <1>3 DEF Keys, CommKeys, Listed
<1> QED BY <1>1, <1>3, <1>4, CalmPending

LEMMA CalmCheck ==
    ASSUME IInv, IInv', CalmInv, Check
    PROVE  CalmInv'
<1>1. /\ UNCHANGED <<taskVars, whitelist, configVars, cfg, events, cursor, todo>>
      /\ UNCHANGED <<appliedMap, cur>>
      /\ pc = "check" /\ pc' = "forget"
      /\ cache' = Without(cache, dead') /\ dead' = {t \in Cached : state[t] = "free"}
    BY DEF Check, scanVars
<1>2. /\ Cached' = Cached \ dead'
      /\ \A t \in Cached' : cache'[t] = cache[t]
    BY <1>1, WithoutValues DEF Cached
<1>3. \A t \in dead' : ~Running(t)
    BY <1>1 DEF Running
<1>4. /\ ReloadPending' <=> ReloadPending
      /\ ~Refilling /\ ~Refilling' /\ ~Scanning /\ ~Scanning' /\ ~Skipping
    BY <1>1, Types DEF ReloadPending, Refilling, Scanning, Skipping, configVars, NoEvent
<1>5. ScanTracks' /\ Overwrites'
    BY <1>1, <1>4 DEF ScanTracks, Overwrites
<1> QED BY <1>1, <1>2, <1>3, <1>4, <1>5, CalmShrinks

\* What the end of task_apply does to the scan and the queue.
LEMMA DoneStep ==
    ASSUME IInv, CInv, CalmInv, pc \in {"bind", "record"}, Done,
           UNCHANGED <<configVars, cfg>>
    PROVE  /\ cur # NoEvent /\ cur' = NoEvent /\ Listed(cfg)
           /\ pc' = "scan" <=> cur.type = "SCAN"
           /\ pc' \in {"scan", "recv"}
           /\ ReloadPending' <=> ReloadPending
           /\ Scanning' <=> Scanning
           /\ Refilling' <=> Refilling
           /\ ~Skipping /\ ~Skipping'
           /\ Overwrites'
<1>1. cur # NoEvent /\ cur' = NoEvent /\ cur'.type # "SCAN" /\ Listed(cfg) /\ Listed(cfg)'
    BY Types DEF Done, CInv, NoEvent, Listed
<1>2. pc' = IF cur.type = "SCAN" THEN "scan" ELSE "recv"
    BY DEF Done
<1>3. Overwrites'
    BY <1>2 DEF Overwrites
<1> QED BY <1>1, <1>2, <1>3
        DEF ReloadPending, Scanning, Refilling, Skipping, configVars

LEMMA CalmUnbound ==
    ASSUME IInv, IInv', CInv, CalmInv, KeepRule \/ BindGone
    PROVE  CalmInv'
<1>1. /\ UNCHANGED <<taskVars, whitelist, configVars, cfg, events, cursor, todo>>
      /\ pc = "bind" /\ Done
    BY DEF KeepRule, BindGone, kernelVars, scanVars
<1>2. /\ cur # NoEvent /\ cur' = NoEvent /\ Listed(cfg)
      /\ pc' = "scan" <=> cur.type = "SCAN"
      /\ pc' \in {"scan", "recv"}
      /\ (ReloadPending' <=> ReloadPending) /\ (Scanning' <=> Scanning)
      /\ (Refilling' <=> Refilling) /\ ~Skipping /\ ~Skipping' /\ Overwrites'
    BY <1>1, DoneStep
<1>3. /\ Cached' \subseteq Cached /\ appliedMap' \subseteq appliedMap
      /\ \A t \in Cached' : cache'[t] = cache[t]
      /\ \A t \in Tids : Running(t) =>
             /\ t \in Cached => t \in Cached'
             /\ t \in appliedMap => t \in appliedMap'
      /\ cur.tid \in Cached' /\ Running(cur.tid) => cache[cur.tid].isThread
    <2>1. CASE KeepRule
        BY <2>1 DEF KeepRule, kernelVars, Cached, Protected
    <2>2. CASE BindGone
        <3>1. /\ ~Running(cur.tid) /\ cache' = Without(cache, {cur.tid})
              /\ appliedMap' \subseteq appliedMap /\ appliedMap \ {cur.tid} \subseteq appliedMap'
            BY <2>2 DEF BindGone, Running
        <3>2. Cached' = Cached \ {cur.tid} /\ \A t \in Cached' : cache'[t] = cache[t]
            BY <3>1, WithoutValues DEF Cached
        <3> QED BY <3>1, <3>2
    <2> QED BY <2>1, <2>2
<1>4. ScanTracks'
    <2> SUFFICES ASSUME Refilling, NEW t \in Tids, Running(t), InApp(t), Passed(t)'
                 PROVE  /\ t \in Cached' /\ t \in appliedMap'
                        /\ comm[t] \in cfg.threads => cache'[t].isThread
        BY <1>1, <1>2, TasksAlone DEF ScanTracks, Listed, taskVars
    <2>1. CASE Passed(t)
        BY <1>2, <1>3, <2>1 DEF CalmInv, ScanTracks
    <2>2. CASE t = cur.tid
        <3>1. KeepRule
            BY <2>2 DEF BindGone, Running
        <3>2. t \in Cached /\ cache[t].isThread
            BY <2>2, <3>1 DEF KeepRule, Protected
        <3>3. t \in appliedMap
            BY <3>2, Types DEF Running
        <3> QED BY <1>3, <3>2, <3>3
    <2> QED BY <1>1, <1>2, <2>1, <2>2 DEF Passed, taskVars
<1> QED BY <1>1, <1>2, <1>3, <1>4, CalmShrinks

LEMMA CalmBind ==
    ASSUME IInv, IInv', CalmInv, Bind
    PROVE  CalmInv'
<1>1. /\ UNCHANGED <<taskVars, whitelist, configVars, cfg, events, cursor, todo>>
      /\ UNCHANGED <<appliedMap, cache, cur>>
      /\ pc = "bind" /\ pc' = "record" /\ ~Protected /\ Cached' = Cached
    BY DEF Bind, scanVars, Cached
<1>2. /\ (ReloadPending' <=> ReloadPending) /\ (Scanning' <=> Scanning)
      /\ (Refilling' <=> Refilling) /\ ~Skipping
    BY <1>1 DEF ReloadPending, Refilling, Scanning, Skipping, configVars
<1>3. Overwrites'
    BY <1>1 DEF Overwrites, Protected, Affinity, ThreadAffinity, Cached
<1>4. ScanTracks'
    <2>1. \A t : (Passed(t)' <=> Passed(t)) /\ (Running(t)' <=> Running(t))
                 /\ (InApp(t)' <=> InApp(t))
        BY <1>1, TasksAlone DEF Passed, taskVars
    <2> QED BY <1>1, <1>2, <2>1 DEF CalmInv, ScanTracks, Listed, taskVars
<1> QED BY <1>1, <1>2, <1>3, <1>4, CalmShrinks

LEMMA CalmRecord ==
    ASSUME IInv, IInv', CInv, CalmInv, Record
    PROVE  CalmInv'
<1>1. /\ UNCHANGED <<taskVars, whitelist, configVars, cfg, events, cursor, todo>>
      /\ pc = "record" /\ Done
      /\ appliedMap' = appliedMap \cup {cur.tid}
    BY DEF Record, scanVars
<1>2. /\ cur # NoEvent /\ cur' = NoEvent /\ Listed(cfg)
      /\ pc' = "scan" <=> cur.type = "SCAN"
      /\ pc' \in {"scan", "recv"}
      /\ (ReloadPending' <=> ReloadPending) /\ (Scanning' <=> Scanning)
      /\ (Refilling' <=> Refilling) /\ ~Skipping /\ ~Skipping' /\ Overwrites'
    BY <1>1, DoneStep
<1>3. /\ Cached' = Cached \cup {cur.tid}
      /\ cache'[cur.tid] = Affinity
      /\ \A t \in Cached : t # cur.tid => cache'[t] = cache[t]
    BY DEF Record, Cached
<1>4. /\ UNCHANGED <<state, tgid, comm, cmd, lastTid>>
      /\ \A t : (Running(t)' <=> Running(t)) /\ (InApp(t)' <=> InApp(t))
                /\ (Main(t)' <=> Main(t))
      /\ Processes'
      /\ CommKeys(cfg)' = CommKeys(cfg)
      /\ InForce' <=> InForce
      /\ \A i, t : Later(i, t)' <=> Later(i, t)
    BY <1>1, <1>2, TasksAlone
       DEF CalmInv, CommKeys, Listed, InForce, taskVars, Later
<1>5. /\ cur.tid \in Tids /\ cur.tid <= lastTid /\ InApp(cur.tid)
      /\ cur.type = "SCAN" => \A t \in todo : tgid[t] = cursor
    BY <1>2, Types DEF CalmInv, Members
<1>6. ASSUME NEW t \in Cached, cache[t].isThread PROVE t \in Cached' /\ cache'[t].isThread
    <2>1. CASE t = cur.tid
        <3>1. Affinity.isThread
            BY <1>1, <1>6, <2>1 DEF CalmInv, Overwrites, Protected
        <3> QED BY <1>3, <2>1, <3>1
    <2> QED BY <1>3, <1>6, <2>1
<1>7. Members'
    <2>1. \A i \in DOMAIN events : EventSound(events[i])'
        BY <1>1, <1>4 DEF CalmInv, Members, EventSound, Main, InApp
    <2>2. \A t \in (Cached \cup appliedMap \cup todo)' : t <= lastTid /\ InApp(t)
        BY <1>1, <1>3, <1>5 DEF CalmInv, Members
    <2> QED BY <1>1, <1>2, <1>4, <1>5, <2>1, <2>2 DEF Members, InApp, NoEvent
<1>8. Keys'
    BY <1>1, <1>2, <1>4 DEF CalmInv, Keys
<1>9. MainsCached'
    BY <1>1, <1>2, <1>3, <1>4 DEF CalmInv, MainsCached
<1>10. Told'
    BY <1>1, <1>2, <1>4 DEF CalmInv, Told, Running
<1>11. ThreadsTracked'
    BY <1>1, <1>2, <1>4 DEF CalmInv, ThreadsTracked
<1>12. Heard'
    <2>1. ASSUME NEW e, Fresh(e) PROVE Fresh(e)'
        BY <1>1, <1>4, <1>6, <2>1 DEF Fresh
    <2>2. ASSUME NEW i \in DOMAIN events, Fresh(events[i]) PROVE Fresh(events[i])'
        <3>1. PICK e : e = events[i] /\ e = events'[i]
            BY <1>1
        <3> QED BY <2>1, <2>2, <3>1 DEF Fresh
    <2> QED BY <1>1, <1>2, <1>4, <2>2 DEF CalmInv, Heard, Running
<1>13. cur.comm = comm[cur.tid] \/ cfg.threads = {} \/ cur.type # "SCAN" \/ ~Running(cur.tid)
    BY DEF CalmInv, ScanReads
<1>14. ScanTracks'
    <2> SUFFICES ASSUME Refilling, NEW t \in Tids, Running(t), InApp(t), Passed(t)'
                 PROVE  /\ t \in Cached' /\ t \in appliedMap'
                        /\ comm[t] \in cfg.threads => cache'[t].isThread
        BY <1>1, <1>2, <1>4 DEF ScanTracks, Listed
    <2>1. CASE t = cur.tid
        <3>1. comm[t] \in cfg.threads => Affinity.isThread
            <4>1. cur.type = "SCAN"
                BY <1>1 DEF Refilling
            <4> QED BY <1>13, <2>1, <4>1 DEF Affinity, ThreadAffinity
        <3> QED BY <1>1, <1>3, <2>1, <3>1
    <2>2. CASE t # cur.tid
        <3>1. Passed(t)
            BY <1>1, <1>4, <2>2 DEF Passed
        <3> QED BY <1>1, <1>2, <1>3, <1>6, <3>1 DEF CalmInv, ScanTracks
    <2> QED BY <2>1, <2>2
<1>15. ScanReads'
    BY <1>2 DEF ScanReads, NoEvent
<1>16. NameFollowed'
    <2> SUFFICES ASSUME NEW t \in Cached', Running(t), ~cache'[t].isThread, ~ReloadPending
                 PROVE  \/ cache'[t] = ThreadAffinity(cache'[t].cfg, comm[t])
                        \/ NameOnItsWay(t)'
        BY <1>2, <1>4 DEF NameFollowed
    <2>1. CASE t # cur.tid
        BY <1>1, <1>2, <1>3, <1>4, <2>1 DEF CalmInv, NameFollowed, NameOnItsWay
    <2>2. CASE t = cur.tid
        <3>1. ~Affinity.isThread /\ cache'[t].cfg = cfg
            BY <1>3, <2>2, AffinityCfg
        <3>2. cur.comm \notin cfg.threads
            BY <3>1 DEF Affinity, ThreadAffinity
        <3>3. comm[t] \notin cfg.threads \/ NameOnItsWay(t)'
            <4>1. CASE cur.type = "SCAN"
                BY <1>13, <2>2, <3>2, <4>1
            <4>2. CASE cur.type # "SCAN"
                <5>1. Fresh(cur) \/ Later(0, cur.tid)
                    BY <1>1, <1>2, <2>2, <4>2 DEF CalmInv, Heard, InForce, Refilling
                <5>2. CASE Later(0, cur.tid)
                    BY <1>1, <1>4, <2>2, <5>2 DEF Later, NameOnItsWay
                <5>3. CASE Fresh(cur)
                    BY <1>3, <1>6, <2>2, <3>1, <3>2, <5>3 DEF Fresh
                <5> QED BY <5>1, <5>2, <5>3
            <4> QED BY <4>1, <4>2
        <3> QED BY <1>3, <2>2, <3>1, <3>2, <3>3 DEF Affinity, ThreadAffinity
    <2> QED BY <2>1, <2>2
<1> QED BY <1>2, <1>4, <1>7, <1>8, <1>9, <1>10, <1>11, <1>12, <1>14, <1>15, <1>16 DEF CalmInv

\* A thread's name is never the empty string.
LEMMA Named == ASSUME IInv, NEW t \in Tids PROVE comm[t] # NoName
BY Types, TaskAssumption DEF TaskAssumption, Names, ProcessNames, NoName, Zygote, App

\* A step of the scan before its last.
LEMMA CalmScanStep ==
    ASSUME IInv, IInv', CalmInv,
           UNCHANGED <<taskVars, whitelist, configVars, cfg, events>>,
           pc \in {"clear", "walk", "scan"}, pc' \in {"walk", "scan", "bind"},
           pc' # "bind" \/ cur'.type = "SCAN",
           \/ Cached' = {} /\ appliedMap' = {}
           \/ pc # "clear" /\ cache' = cache /\ appliedMap' = appliedMap,
           \A t \in todo' :
               /\ t <= lastTid /\ InApp(t)
               /\ pc' \in {"scan", "bind"} => tgid[t] = cursor',
           \/ cur' = NoEvent
           \/ /\ cur'.type = "SCAN" /\ cur'.pid = cursor'
              /\ InApp(cur'.tid) /\ cur'.pid = tgid[cur'.tid],
           ScanTracks', ScanReads'
    PROVE  CalmInv'
<1>1. /\ UNCHANGED <<state, tgid, comm, cmd, lastTid>>
      /\ \A t : (Running(t)' <=> Running(t)) /\ (InApp(t)' <=> InApp(t))
                /\ (Main(t)' <=> Main(t))
      /\ Processes' /\ CommKeys(cfg)' = CommKeys(cfg)
      /\ \A i, t : Later(i, t)' <=> Later(i, t)
    BY TasksAlone DEF CalmInv, CommKeys, Listed, taskVars, Later
<1>2. cur = NoEvent
    BY Types
<1>3. Refilling' /\ Scanning' /\ ~Skipping /\ (pc = "clear" \/ Refilling)
    BY DEF Refilling, Scanning, Skipping
<1>4. Members'
    <2>1. \A i \in DOMAIN events : EventSound(events[i])'
        BY <1>1 DEF CalmInv, Members, EventSound, Main, InApp
    <2>2. \A t \in (Cached \cup appliedMap \cup todo)' : t <= lastTid /\ InApp(t)
        BY DEF CalmInv, Members, Cached
    <2>3. cur' # NoEvent =>
              /\ InApp(cur'.tid) /\ cur'.pid = tgid[cur'.tid]
              /\ cur'.type \in {"SCAN", "FORK", "RENAME"}
        OBVIOUS
    <2>4. cur'.type = "SCAN" => cur'.pid = cursor'
        BY DEF NoEvent
    <2>5. pc' = "scan" \/ cur'.type = "SCAN" => \A t \in todo' : tgid[t] = cursor'
        <3>1. pc' = "walk" => cur' = NoEvent
            BY DEF IInv, TypeOK, EngineTypeOK
        <3> QED BY <3>1 DEF NoEvent
    <2> QED BY <1>1, <2>1, <2>2, <2>3, <2>4, <2>5 DEF Members, InApp
<1>5. Keys'
    BY <1>1, <1>3 DEF CalmInv, Keys
<1>6. MainsCached' /\ ThreadsTracked' /\ Heard' /\ Overwrites'
    BY <1>3 DEF MainsCached, ThreadsTracked, Heard, Overwrites
<1>7. Told'
    BY <1>1, <1>3 DEF CalmInv, Told, Running
<1>8. NameFollowed'
    <2> SUFFICES ASSUME cache' = cache, pc # "clear", NEW t \in Cached,
                        Running(t), ~cache[t].isThread, ~ReloadPending'
                 PROVE  \/ cache[t] = ThreadAffinity(cache[t].cfg, comm[t])
                        \/ NameOnItsWay(t)'
        BY <1>1 DEF NameFollowed, Cached
    <2>1. ~ReloadPending /\ t \in Tids
        BY Types DEF ReloadPending, configVars
    <2>2. cache[t] = ThreadAffinity(cache[t].cfg, comm[t]) \/ NameOnItsWay(t)
        BY <2>1 DEF CalmInv, NameFollowed
    <2> QED BY <1>1, <1>2, <2>1, <2>2, Named DEF NameOnItsWay, NoEvent
<1> QED BY <1>1, <1>4, <1>5, <1>6, <1>7, <1>8 DEF CalmInv

LEMMA CalmScanClears ==
    ASSUME IInv, IInv', CalmInv, ScanClears
    PROVE  CalmInv'
<1>1. /\ UNCHANGED <<taskVars, whitelist, configVars, cfg, events, cur, todo>>
      /\ pc = "clear" /\ pc' = "walk" /\ cursor' = 1
      /\ cache' = Without(cache, Tids) /\ appliedMap' = {}
    BY DEF ScanClears
<1>2. cur = NoEvent
    BY <1>1, Types
<1>3. Cached' = {}
    <2>1. Cached' = Cached \ Tids
        BY <1>1, WithoutValues DEF Cached
    <2> QED BY <2>1, Types
<1>4. ScanTracks'
    <2> SUFFICES ASSUME NEW t \in Tids, Running(t)', Passed(t)' PROVE FALSE
        BY <1>1, <1>3 DEF ScanTracks, Listed
    <2>1. Running(t)
        BY <1>1, TasksAlone
    <2>2. tgid[t] \in Int /\ tgid[t] >= 1
        BY <2>1, RunningMain, TidsType DEF Tids
    <2> QED BY <1>1, <2>2 DEF Passed, taskVars
<1>5. ScanReads'
    BY <1>1, <1>2 DEF ScanReads, NoEvent
<1>6. \A t \in todo : t <= lastTid /\ InApp(t)
    BY DEF CalmInv, Members
<1> QED BY <1>1, <1>2, <1>3, <1>4, <1>5, <1>6, CalmScanStep

\* The walk goes on to the next process.
LEMMA CalmWalk ==
    ASSUME IInv, IInv', CalmInv, WalkSkips \/ ScanLeaves
    PROVE  CalmInv'
<1>1. /\ UNCHANGED <<taskVars, whitelist, configVars, cfg, events, cur, todo>>
      /\ UNCHANGED <<appliedMap, cache>>
      /\ pc \in {"walk", "scan"} /\ pc' = "walk" /\ cursor' = cursor + 1
      /\ pc = "walk" => ~Matches(cursor)
      /\ pc = "scan" => todo = {}
    BY DEF WalkSkips, ScanLeaves, kernelVars
<1>2. cur = NoEvent /\ cursor \in Int
    <2>1. cursor \in 1 .. MaxTid + 1
        BY DEF IInv, TypeOK, EngineTypeOK
    <2> QED BY <1>1, <2>1, Types, TidsType
<1>3. ScanTracks'
    <2>1. ASSUME NEW t \in Tids, Running(t), InApp(t), Passed(t)', Listed(cfg)
          PROVE  Passed(t)
        <3>1. tgid[t] \in Tids /\ tgid[t] \in Int /\ state[t] # "free"
            BY <2>1, RunningMain, TidsType DEF Running
        <3>2. tgid[t] < cursor + 1
            BY <1>1, <2>1, <3>1 DEF Passed, taskVars
        <3>3. CASE tgid[t] < cursor
            BY <3>3 DEF Passed
        <3>4. CASE tgid[t] = cursor
            <4>1. pc # "walk"
                <5>1. t \in Group(cursor) /\ cursor \in Tids /\ cmd[cursor] = App
                    BY <2>1, <3>1, <3>4 DEF Group, InApp
                <5> QED BY <1>1, <2>1, <5>1 DEF Matches
            <4>2. todo = {}
                BY <1>1, <4>1
            <4> QED BY <1>2, <3>4, <4>1, <4>2 DEF Passed
        <3> QED BY <1>2, <3>1, <3>2, <3>3, <3>4
    <2>2. Refilling
        BY <1>1 DEF Refilling
    <2>3. UNCHANGED <<state, tgid, comm, cmd>> /\ Cached' = Cached
          /\ \A t : (Running(t)' <=> Running(t)) /\ (InApp(t)' <=> InApp(t))
        BY <1>1, TasksAlone DEF taskVars, Cached
    <2> QED BY <1>1, <2>1, <2>2, <2>3 DEF CalmInv, ScanTracks, Listed
<1>4. ScanReads'
    BY <1>1, <1>2 DEF ScanReads, NoEvent
<1>5. \A t \in todo : t <= lastTid /\ InApp(t)
    BY DEF CalmInv, Members
<1> QED BY <1>1, <1>2, <1>3, <1>4, <1>5, CalmScanStep

LEMMA CalmWalkEnters ==
    ASSUME IInv, IInv', CalmInv, WalkEnters
    PROVE  CalmInv'
<1>1. /\ UNCHANGED <<taskVars, whitelist, configVars, cfg, events, cur, cursor>>
      /\ UNCHANGED <<appliedMap, cache>>
      /\ pc = "walk" /\ pc' = "scan" /\ todo' = Group(cursor) /\ Matches(cursor)
    BY DEF WalkEnters, kernelVars
<1>2. cur = NoEvent
    BY <1>1, Types
<1>3. ASSUME NEW t \in Group(cursor)
      PROVE  t \in Tids /\ t <= lastTid /\ InApp(t) /\ tgid[t] = cursor
    BY <1>1, Used DEF Group, InApp, Matches
<1>4. ScanTracks'
    <2>1. ASSUME NEW t \in Tids, Running(t), Passed(t)' PROVE Passed(t)
        <3>1. tgid[t] < cursor \/ (tgid[t] = cursor /\ t \notin Group(cursor))
            BY <1>1, <2>1 DEF Passed, taskVars
        <3>2. tgid[t] # cursor \/ t \in Group(cursor)
            BY <2>1 DEF Group, Running
        <3> QED BY <3>1, <3>2 DEF Passed
    <2>2. Refilling
        BY <1>1 DEF Refilling
    <2>3. UNCHANGED <<state, tgid, comm, cmd>> /\ Cached' = Cached
          /\ \A t : (Running(t)' <=> Running(t)) /\ (InApp(t)' <=> InApp(t))
        BY <1>1, TasksAlone DEF taskVars, Cached
    <2> QED BY <1>1, <2>1, <2>2, <2>3 DEF CalmInv, ScanTracks, Listed
<1>5. ScanReads'
    BY <1>1, <1>2 DEF ScanReads, NoEvent
<1> QED BY <1>1, <1>2, <1>3, <1>4, <1>5, CalmScanStep

LEMMA CalmScanReads ==
    ASSUME IInv, IInv', CalmInv, ScanReadsName
    PROVE  CalmInv'
<1>1. PICK t \in todo :
          /\ todo' = todo \ {t}
          /\ cur' = [type |-> "SCAN", pid |-> cursor, tid |-> t,
                     comm |-> IF state[t] = "free" \/ cfg.threads = {}
                              THEN NoName ELSE comm[t]]
    BY DEF ScanReadsName
<1>2. /\ UNCHANGED <<taskVars, whitelist, configVars, cfg, events, cursor>>
      /\ UNCHANGED <<appliedMap, cache>>
      /\ pc = "scan" /\ pc' = "bind"
    BY DEF ScanReadsName, kernelVars
<1>3. cur = NoEvent
    BY <1>2, Types
<1>4. \A u \in todo : u \in Tids /\ u <= lastTid /\ InApp(u) /\ tgid[u] = cursor
    BY <1>2, Types DEF CalmInv, Members
<1>5. ScanTracks'
    <2>1. ASSUME NEW u \in Tids, Passed(u)' PROVE Passed(u)
        BY <1>1, <1>2, <1>3, <2>1 DEF Passed, taskVars, NoEvent
    <2>2. Refilling
        BY <1>2 DEF Refilling
    <2>3. UNCHANGED <<state, tgid, comm, cmd>> /\ Cached' = Cached
          /\ \A u : (Running(u)' <=> Running(u)) /\ (InApp(u)' <=> InApp(u))
        BY <1>2, TasksAlone DEF taskVars, Cached
    <2> QED BY <1>2, <2>1, <2>2, <2>3 DEF CalmInv, ScanTracks, Listed
<1>6. ScanReads'
    BY <1>1, <1>2 DEF ScanReads, Running, taskVars
<1>7. /\ cur'.type = "SCAN" /\ cur'.pid = cursor'
      /\ InApp(cur'.tid) /\ cur'.pid = tgid[cur'.tid]
    BY <1>1, <1>2, <1>4
<1> QED BY <1>1, <1>2, <1>4, <1>5, <1>6, <1>7, CalmScanStep

\* The scan has seen every thread: the rules are in force again.
LEMMA CalmWalkEnds ==
    ASSUME IInv, IInv', CalmInv, WalkEnds
    PROVE  CalmInv'
<1>1. /\ UNCHANGED <<taskVars, whitelist, configVars, cfg, events, cur, cursor, todo>>
      /\ UNCHANGED <<appliedMap, cache>>
      /\ pc = "walk" /\ pc' = "recv" /\ cursor \notin Tids
    BY DEF WalkEnds, kernelVars, scanVars
<1>2. cur = NoEvent /\ cur' = NoEvent
    BY <1>1, Types
<1>3. /\ UNCHANGED <<state, tgid, comm, cmd, lastTid>> /\ Cached' = Cached
      /\ \A t : (Running(t)' <=> Running(t)) /\ (InApp(t)' <=> InApp(t))
                /\ (Main(t)' <=> Main(t))
      /\ Processes' /\ CommKeys(cfg)' = CommKeys(cfg)
      /\ \A i, t : Later(i, t)' <=> Later(i, t)
    BY <1>1, TasksAlone DEF CalmInv, CommKeys, Listed, taskVars, Later, Cached
<1>4. /\ Refilling /\ ~Refilling' /\ ~Scanning' /\ ~Skipping
      /\ Skipping' <=> ~Listed(cfg)
      /\ ReloadPending' <=> ReloadPending
    BY <1>1, <1>2 DEF Refilling, Scanning, Skipping, ReloadPending, Listed, NoEvent, configVars
<1>5. \A t \in Tids : tgid[t] < cursor
    <2>1. cursor = MaxTid + 1
        <3>1. cursor \in 1 .. MaxTid + 1
            BY DEF IInv, TypeOK, EngineTypeOK
        <3> QED BY <1>1, <3>1, TidsType DEF Tids
    <2>2. \A t \in Tids : tgid[t] \in 1 .. MaxTid
        BY Types DEF Tids
    <2> QED BY <2>1, <2>2, TidsType
<1>6. ASSUME Listed(cfg), NEW t \in Tids, Running(t), InApp(t)
      PROVE  /\ t \in Cached /\ t \in appliedMap
             /\ comm[t] \in cfg.threads => cache[t].isThread
    BY <1>4, <1>5, <1>6 DEF CalmInv, ScanTracks, Passed
<1>7. ~Listed(cfg) => Cached = {} /\ appliedMap = {}
    BY <1>4 DEF CalmInv, ScanTracks
<1>8. whitelist = CommKeys(cfg) /\ (whitelist = {} <=> ~Listed(cfg))
    BY <1>4 DEF CalmInv, Keys, CommKeys
<1>e. \A i \in DOMAIN events : events[i].tid \in Tids /\ InApp(events[i].tid)
    BY Types DEF CalmInv, Members, EventSound
<1>9. Members'
    <2>1. \A i \in DOMAIN events : EventSound(events[i])'
        BY <1>1, <1>3 DEF CalmInv, Members, EventSound, Main, InApp
    <2> QED BY <1>1, <1>2, <1>3, <2>1 DEF CalmInv, Members, InApp, NoEvent
<1>10. Keys'
    BY <1>1, <1>2, <1>3, <1>4, <1>7, <1>8 DEF CalmInv, Keys
<1>11. MainsCached'
    <2> SUFFICES ASSUME NEW t \in Tids, Running(t)
                 PROVE  /\ t \in appliedMap /\ Main(t) => t \in Cached
                        /\ App \in whitelist /\ InApp(t) /\ ~Main(t) => tgid[t] \in Cached
        BY <1>1, <1>3 DEF MainsCached
    <2>1. t \in appliedMap => InApp(t) /\ Listed(cfg)
        BY <1>7 DEF CalmInv, Members
    <2>2. InApp(t) => InApp(tgid[t]) /\ Running(tgid[t]) /\ tgid[t] \in Tids
        BY RunningMain
    <2>3. App \in whitelist => Listed(cfg)
        BY <1>8
    <2> QED BY <1>6, <2>1, <2>2, <2>3
<1>12. Told'
    <2> SUFFICES ASSUME Listed(cfg), NEW i \in DOMAIN events,
                        events[i].type # "EXIT", Running(events[i].tid)
                 PROVE  /\ events[i].comm \in {App, comm[events[i].tid]}
                               \/ Later(i, events[i].tid)
                        /\ events[i].tid \in appliedMap
        BY <1>1, <1>3, <1>4 DEF Told, Running
    <2> QED BY <1>4, <1>6, <1>e DEF CalmInv, Told
<1>13. ThreadsTracked'
    BY <1>1, <1>3, <1>6 DEF ThreadsTracked, InForce, Listed
<1>14. Heard'
    <2> SUFFICES ASSUME Listed(cfg), NEW i \in DOMAIN events,
                        events[i].type # "EXIT", Running(events[i].tid)
                 PROVE  Fresh(events[i])' \/ Later(i, events[i].tid)
        BY <1>1, <1>2, <1>3 DEF Heard, InForce, Listed, Running
    <2>1. events[i].comm \in {App, comm[events[i].tid]} \/ Later(i, events[i].tid)
        BY <1>4 DEF CalmInv, Told
    <2>2. /\ events[i].tid \in Cached
          /\ comm[events[i].tid] \in cfg.threads => cache[events[i].tid].isThread
        BY <1>6, <1>e
    <2> QED BY <1>1, <1>3, <2>1, <2>2 DEF Fresh
<1>15. ScanTracks' /\ ScanReads' /\ Overwrites'
    BY <1>1, <1>2, <1>4 DEF ScanTracks, ScanReads, Overwrites, NoEvent
<1>16. NameFollowed'
    BY <1>1, <1>3, <1>4 DEF CalmInv, NameFollowed, NameOnItsWay
<1> QED BY <1>3, <1>9, <1>10, <1>11, <1>12, <1>13, <1>14, <1>15, <1>16 DEF CalmInv

------------------------------------------------------------------------------
(* The events *)

\* The first event is taken off without anything being bound: its thread is
\* gone, or nothing is listed.
LEMMA CalmDrop ==
    ASSUME IInv, IInv', CInv, CalmInv, pc = "recv", events # <<>>,
           UNCHANGED <<taskVars, whitelist, configVars, cfg, pc, cur, cursor, todo>>,
           events' = Tail(events), NEW S \in SUBSET {Head(events).tid},
           Cached' = Cached \ S, appliedMap' = appliedMap \ S,
           \A t \in Cached' : cache'[t] = cache[t],
           \/ ~Running(Head(events).tid)
           \/ ~Listed(cfg) /\ (S = {} \/ ~Main(Head(events).tid))
    PROVE  CalmInv'
<1>1. /\ UNCHANGED <<state, tgid, comm, cmd, lastTid>>
      /\ \A t : (Running(t)' <=> Running(t)) /\ (InApp(t)' <=> InApp(t))
                /\ (Main(t)' <=> Main(t))
      /\ Processes' /\ CommKeys(cfg)' = CommKeys(cfg)
    BY TasksAlone DEF CalmInv, CommKeys, Listed, taskVars
<1>2. cur = NoEvent /\ cur' = NoEvent
    BY Types
<1>3. /\ ~Refilling /\ ~Refilling' /\ ~Scanning /\ ~Scanning'
      /\ Skipping <=> ~Listed(cfg)
      /\ Skipping' <=> Skipping
      /\ ReloadPending' <=> ReloadPending
      /\ InForce' <=> InForce
    BY <1>2 DEF Refilling, Scanning, Skipping, ReloadPending, Listed, NoEvent, configVars, InForce
<1>4. events \in Seq(Events)
    BY Types
<1>5. ASSUME NEW i \in DOMAIN events'
      PROVE  /\ i \in Nat /\ i + 1 \in DOMAIN events /\ events'[i] = events[i + 1]
             /\ \A t : Later(i + 1, t) => Later(i, t)'
    BY <1>1, <1>4, TailEvents, LaterTail
<1>e. \A i \in DOMAIN events : events[i].tid \in Tids /\ InApp(events[i].tid)
    BY Types DEF CalmInv, Members, EventSound
<1>6. Members'
    <2>1. \A i \in DOMAIN events' : EventSound(events[i])'
        <3> SUFFICES ASSUME NEW i \in DOMAIN events' PROVE EventSound(events[i])'
            OBVIOUS
        <3>1. EventSound(events[i + 1])
            BY <1>5 DEF CalmInv, Members
        <3> QED BY <1>1, <1>5, <3>1 DEF EventSound, Main, InApp
    <2> QED BY <1>1, <1>2, <2>1 DEF CalmInv, Members, InApp, NoEvent
<1>7. Keys'
    BY <1>1, <1>2, <1>3 DEF CalmInv, Keys
<1>8. MainsCached'
    <2> SUFFICES ASSUME NEW t \in Tids, Running(t)
                 PROVE  /\ t \in appliedMap' /\ Main(t) => t \in Cached'
                        /\ App \in whitelist /\ InApp(t) /\ ~Main(t) => tgid[t] \in Cached'
        BY <1>1 DEF MainsCached
    <2>1. t \notin S \/ ~Main(t)
        OBVIOUS
    <2>2. Running(tgid[t]) /\ Main(tgid[t])
        BY RunningMain
    <2>3. tgid[t] \notin S
        BY <2>2
    <2> QED BY <1>3, <2>1, <2>3 DEF CalmInv, MainsCached
<1>9. Told'
    <2> SUFFICES ASSUME ~Skipping, NEW i \in DOMAIN events',
                        events'[i].type # "EXIT", Running(events'[i].tid)
                 PROVE  /\ events'[i].comm \in {App, comm[events'[i].tid]}
                               \/ Later(i, events[i].tid)'
                        /\ events'[i].comm # App => events'[i].tid \in appliedMap'
        BY <1>1, <1>3 DEF Told, Running
    <2>1. events'[i].tid \notin S
        BY <1>3
    <2> QED BY <1>3, <1>5, <2>1 DEF CalmInv, Told
<1>10. ThreadsTracked'
    BY <1>1, <1>3 DEF CalmInv, ThreadsTracked, InForce
<1>11. Heard'
    <2> SUFFICES ASSUME InForce, NEW i \in DOMAIN events',
                        events'[i].type # "EXIT", Running(events'[i].tid)
                 PROVE  Fresh(events[i])' \/ Later(i, events[i].tid)'
        BY <1>1, <1>2, <1>3 DEF Heard, Running
    <2>1. events'[i].tid \notin S
        BY <1>3 DEF InForce
    <2>2. PICK e : e = events'[i] /\ e = events[i + 1]
        BY <1>5
    <2>3. Fresh(e) \/ Later(i + 1, e.tid)
        BY <1>3, <1>5, <2>2 DEF CalmInv, Heard
    <2>4. Fresh(e) => Fresh(e)'
        BY <1>1, <2>1, <2>2 DEF Fresh
    <2> QED BY <1>5, <2>2, <2>3, <2>4, SMTT(60) DEF Fresh, Later
<1>12. ScanTracks' /\ ScanReads' /\ Overwrites'
    BY <1>2, <1>3 DEF ScanTracks, ScanReads, Overwrites, NoEvent
<1>13. NameFollowed'
    <2> SUFFICES ASSUME NEW t \in Cached', Running(t), ~cache[t].isThread, ~ReloadPending
                 PROVE  \/ cache[t] = ThreadAffinity(cache[t].cfg, comm[t])
                        \/ NameOnItsWay(t)'
        BY <1>1, <1>3 DEF NameFollowed
    <2>1. Listed(cfg) /\ t # Head(events).tid /\ t \in Tids
        BY Types DEF CInv, BindingsCurrent
    <2>2. cache[t] = ThreadAffinity(cache[t].cfg, comm[t]) \/ NameOnItsWay(t)
        BY DEF CalmInv, NameFollowed
    <2>3. CASE NameOnItsWay(t)
        <3>1. PICK i \in DOMAIN events : events[i].tid = t /\ events[i].comm = comm[t]
            BY <1>2, <2>1, <2>3, Named DEF NameOnItsWay, NoEvent
        <3>2. i # 1 /\ i > 0 /\ i \in Int
            BY <1>4, <2>1, <3>1, TailEvents
        <3>3. i - 1 \in DOMAIN events' /\ events'[i - 1] = events[i]
            BY <1>4, <3>2, TailEvents
        <3> QED BY <1>1, <3>1, <3>3 DEF NameOnItsWay
    <2> QED BY <2>2, <2>3
<1> QED BY <1>1, <1>6, <1>7, <1>8, <1>9, <1>10, <1>11, <1>12, <1>13 DEF CalmInv

\* An event of no listed package is of no running thread.
LEMMA UnknownGone ==
    ASSUME IInv, CalmInv, pc = "recv", events # <<>>, Listed(cfg),
           Head(events).type # "EXIT", ~PkgKnown(Head(events)), ~Scanning, ~Refilling
    PROVE  ~Running(Head(events).tid)
<1>1. PICK e : e = Head(events) /\ e = events[1]
    BY Types, TailEvents
<1>2. 1 \in DOMAIN events
    <2>1. events \in Seq(Events)
        BY Types
    <2> QED BY <2>1
<1>3. e.tid \in Tids /\ EventSound(e) /\ e.comm # App /\ e.pid \notin Cached
    BY <1>1, <1>2, Types DEF CalmInv, Members, PkgKnown
<1>4. ~Skipping /\ App \in whitelist
    BY DEF Skipping, CalmInv, Keys
<1> SUFFICES ASSUME Running(e.tid) PROVE FALSE
    BY <1>1
<1>5. e.tid \in appliedMap
    BY <1>1, <1>2, <1>3, <1>4 DEF CalmInv, Told
<1>6. Main(e.tid) => e.tid \in Cached /\ e.pid = e.tid
    BY <1>3, <1>5 DEF CalmInv, MainsCached, EventSound, Main
<1>7. ~Main(e.tid) => e.pid \in Cached
    BY <1>3, <1>4 DEF CalmInv, MainsCached, EventSound
<1> QED BY <1>3, <1>6, <1>7

LEMMA CalmForgets ==
    ASSUME IInv, IInv', CInv, CalmInv, DispatchForget \/ DispatchIgnore
    PROVE  CalmInv'
<1>1. /\ pc = "recv" /\ events # <<>> /\ events' = Tail(events)
      /\ UNCHANGED <<taskVars, whitelist, configVars, cfg, pc, cur, cursor, todo>>
    BY DEF DispatchForget, DispatchIgnore, engineVars, scanVars
<1>2. PICK e : e = Head(events)
    OBVIOUS
<1>3. EventSound(e) /\ e.tid \in Tids
    <2>1. 1 \in DOMAIN events /\ e = events[1]
        BY <1>1, <1>2, Types, TailEvents
    <2> QED BY <2>1, Types DEF CalmInv, Members
<1>4. ~Scanning /\ ~Refilling
    BY <1>1, Types DEF Scanning, Refilling, NoEvent
<1>5. \/ ~Running(e.tid)
      \/ ~Listed(cfg) /\ (DispatchForget => ~Main(e.tid))
    <2>1. CASE e.type = "EXIT"
        BY <1>3, <2>1 DEF EventSound, Running
    <2>2. CASE e.type # "EXIT" /\ Listed(cfg)
        BY <1>1, <1>2, <1>4, <2>2, UnknownGone DEF DispatchForget, DispatchIgnore
    <2>3. CASE e.type # "EXIT" /\ ~Listed(cfg)
        BY <1>2, <1>3, <2>3 DEF DispatchForget, EventSound
    <2> QED BY <2>1, <2>2, <2>3
<1>6. CASE DispatchForget
    <2>1. cache' = Without(cache, {e.tid}) /\ appliedMap' = appliedMap \ {e.tid}
        BY <1>2, <1>6 DEF DispatchForget
    <2>2. Cached' = Cached \ {e.tid} /\ \A t \in Cached' : cache'[t] = cache[t]
        BY <2>1, WithoutValues DEF Cached
    <2> QED BY <1>1, <1>2, <1>5, <1>6, <2>1, <2>2, CalmDrop
<1>7. CASE DispatchIgnore
    <2>1. appliedMap' = appliedMap /\ Cached' = Cached /\ cache' = cache
        BY <1>7 DEF DispatchIgnore, engineVars, Cached
    <2>2. {} \in SUBSET {Head(events).tid} /\ Cached' = Cached \ {} /\ appliedMap' = appliedMap \ {}
        BY <2>1
    <2>3. ~Running(Head(events).tid) \/ ~Listed(cfg)
        BY <1>2, <1>5
    <2> QED BY <1>1, <2>1, <2>2, <2>3, CalmDrop
<1> QED BY <1>6, <1>7

LEMMA CalmApply ==
    ASSUME IInv, IInv', CalmInv, DispatchApply
    PROVE  CalmInv'
<1>1. /\ UNCHANGED <<taskVars, whitelist, configVars, cfg, cursor, todo, appliedMap, cache>>
      /\ pc = "recv" /\ pc' = "bind" /\ events # <<>> /\ events' = Tail(events)
      /\ cur' = Head(events) /\ cur'.type # "EXIT" /\ Listed(cfg)
    BY DEF DispatchApply, scanVars, PkgKnown
<1>2. /\ UNCHANGED <<state, tgid, comm, cmd, lastTid>> /\ Cached' = Cached
      /\ \A t : (Running(t)' <=> Running(t)) /\ (InApp(t)' <=> InApp(t))
                /\ (Main(t)' <=> Main(t))
      /\ Processes' /\ CommKeys(cfg)' = CommKeys(cfg)
    BY <1>1, TasksAlone DEF CalmInv, CommKeys, Listed, taskVars, Cached
<1>3. events \in Seq(Events)
    BY Types
<1>4. 1 \in DOMAIN events /\ cur' = events[1]
    BY <1>1, <1>3, TailEvents
<1>5. cur = NoEvent /\ EventSound(cur') /\ cur'.type \in {"FORK", "RENAME"} /\ cur'.tid \in Tids
    <2>1. EventSound(events[1]) /\ events[1].tid \in Tids
        BY <1>4, Types DEF CalmInv, Members
    <2>2. cur = NoEvent
        BY <1>1, Types
    <2> QED BY <1>1, <1>4, <2>1, <2>2 DEF EventSound
<1>6. /\ ~Refilling /\ ~Refilling' /\ ~Scanning /\ ~Scanning' /\ ~Skipping /\ ~Skipping'
      /\ ReloadPending' <=> ReloadPending
      /\ InForce' <=> InForce
    BY <1>1, <1>5 DEF Refilling, Scanning, Skipping, ReloadPending, Listed, NoEvent,
                      configVars, InForce
<1>7. ASSUME NEW i \in DOMAIN events'
      PROVE  /\ i \in Nat /\ i + 1 \in DOMAIN events /\ events'[i] = events[i + 1]
             /\ \A t : Later(i + 1, t) => Later(i, t)'
    BY <1>1, <1>2, <1>3, TailEvents, LaterTail
<1>8. Members'
    <2>1. \A i \in DOMAIN events' : EventSound(events[i])'
        <3> SUFFICES ASSUME NEW i \in DOMAIN events' PROVE EventSound(events[i])'
            OBVIOUS
        <3>1. EventSound(events[i + 1])
            BY <1>7 DEF CalmInv, Members
        <3> QED BY <1>2, <1>7, <3>1 DEF EventSound, Main, InApp
    <2> QED BY <1>1, <1>2, <1>5, <2>1 DEF CalmInv, Members, InApp, NoEvent, EventSound
<1>9. Keys'
    BY <1>1, <1>2, <1>6 DEF CalmInv, Keys
<1>10. MainsCached'
    BY <1>1, <1>2, <1>6 DEF CalmInv, MainsCached
<1>11. Told'
    <2> SUFFICES ASSUME NEW i \in DOMAIN events',
                        events'[i].type # "EXIT", Running(events'[i].tid)
                 PROVE  /\ events'[i].comm \in {App, comm[events'[i].tid]}
                               \/ Later(i, events[i].tid)'
                        /\ events'[i].comm # App => events'[i].tid \in appliedMap
        BY <1>1, <1>2, <1>6 DEF Told, Running
    <2> QED BY <1>6, <1>7 DEF CalmInv, Told
<1>12. ThreadsTracked'
    BY <1>1, <1>2, <1>6 DEF CalmInv, ThreadsTracked
<1>13. Heard'
    <2> SUFFICES ASSUME InForce
                 PROVE  /\ \A i \in DOMAIN events' :
                               events'[i].type # "EXIT" /\ Running(events'[i].tid)
                                   => Fresh(events[i])' \/ Later(i, events[i].tid)'
                        /\ Running(cur'.tid) => Fresh(cur)' \/ Later(0, cur.tid)'
        BY <1>2, <1>6 DEF Heard, Running
    <2>1. ASSUME NEW i \in DOMAIN events, NEW e, e = events[i],
                 e.type # "EXIT", Running(e.tid)
          PROVE  Fresh(e)' \/ Later(i, e.tid)
        <3>1. Fresh(e) \/ Later(i, e.tid)
            BY <1>6, <2>1 DEF CalmInv, Heard
        <3> QED BY <1>1, <1>2, <3>1 DEF Fresh
    <2>2. ASSUME NEW i \in DOMAIN events', events'[i].type # "EXIT", Running(events'[i].tid)
          PROVE  Fresh(events[i])' \/ Later(i, events[i].tid)'
        <3>1. PICK e : e = events'[i] /\ e = events[i + 1]
            BY <1>7
        <3>2. Fresh(e)' \/ Later(i + 1, e.tid)
            BY <1>7, <2>1, <2>2, <3>1
        <3> QED BY <1>7, <3>1, <3>2 DEF Fresh, Later
    <2>3. ASSUME Running(cur'.tid) PROVE Fresh(cur)' \/ Later(0, cur.tid)'
        <3>1. PICK e : e = cur' /\ e = events[1]
            BY <1>4
        <3>2. Fresh(e)' \/ Later(1, e.tid)
            BY <1>1, <1>4, <2>1, <2>3, <3>1
        <3>3. Later(1, e.tid) => Later(0, e.tid)'
            BY <1>1, <1>2, <1>3, LaterTail
        <3> QED BY <3>1, <3>2, <3>3 DEF Fresh, Later
    <2> QED BY <2>2, <2>3
<1>14. ScanTracks' /\ ScanReads' /\ Overwrites'
    BY <1>1, <1>5, <1>6 DEF ScanTracks, ScanReads, Overwrites
<1>15. NameFollowed'
    <2> SUFFICES ASSUME NEW t \in Cached, Running(t), ~cache[t].isThread, ~ReloadPending
                 PROVE  \/ cache[t] = ThreadAffinity(cache[t].cfg, comm[t])
                        \/ NameOnItsWay(t)'
        BY <1>1, <1>2, <1>6 DEF NameFollowed
    <2>1. cache[t] = ThreadAffinity(cache[t].cfg, comm[t]) \/ NameOnItsWay(t)
        BY DEF CalmInv, NameFollowed
    <2>2. CASE NameOnItsWay(t)
        <3>1. PICK i \in DOMAIN events : events[i].tid = t /\ events[i].comm = comm[t]
            BY <1>5, <2>2, Named, Types DEF NameOnItsWay, NoEvent
        <3>2. CASE i = 1
            BY <1>2, <1>4, <3>1, <3>2 DEF NameOnItsWay
        <3>3. CASE i # 1
            <4>1. i - 1 \in DOMAIN events' /\ events'[i - 1] = events[i]
                BY <1>1, <1>3, <3>3, TailEvents
            <4> QED BY <1>2, <3>1, <4>1 DEF NameOnItsWay
        <3> QED BY <3>2, <3>3
    <2> QED BY <2>1, <2>2
<1> QED BY <1>2, <1>8, <1>9, <1>10, <1>11, <1>12, <1>13, <1>14, <1>15 DEF CalmInv

------------------------------------------------------------------------------
(* Theorems *)

LEMMA CalmInit == Calm /\ Init => CalmInv
<1> SUFFICES ASSUME Calm, Init PROVE CalmInv
    OBVIOUS
<1>1. PICK running \in AppAtStart :
          /\ lastTid = IF running THEN 3 ELSE 1
          /\ state = [t \in Tids |-> IF t <= lastTid THEN "live" ELSE "free"]
          /\ tgid = [t \in Tids |-> IF t = 3 /\ running THEN 2 ELSE t]
          /\ cmd = [t \in Tids |-> IF t \in {2, 3} /\ running THEN App ELSE Zygote]
          /\ comm = cmd
    BY DEF Init, TasksInit
<1>2. /\ whitelist = {} /\ appliedMap = {} /\ events = <<>>
      /\ cur = NoEvent /\ pc = "round" /\ todo = {} /\ configChanged = TRUE
      /\ Cached = {}
    BY DEF Init, TasksInit, Cached
<1>3. Processes
    <2>1. Zygote \notin AppNames /\ App \in AppNames
        BY TaskAssumption DEF TaskAssumption, AppNames, ProcessNames, Zygote, App
    <2>2. running => 2 \in Tids /\ 3 \in Tids
        <3>1. running => TRUE \in AppAtStart
            BY TaskAssumption DEF TaskAssumption
        <3> QED BY <3>1, RunningFits
    <2> SUFFICES ASSUME NEW t \in Tids, t <= lastTid
                 PROVE  /\ tgid[t] <= t /\ tgid[tgid[t]] = tgid[t]
                        /\ InApp(t) <=> comm[t] \in AppNames
                        /\ ~InApp(t) => Main(t)
        BY DEF Processes
    <2> QED BY <1>1, <2>1, <2>2, TidsType DEF InApp, Main, App, Zygote
<1>4. ~Refilling /\ ReloadPending /\ ~Skipping /\ DOMAIN events = {}
    BY <1>2 DEF Refilling, ReloadPending, Skipping, NoEvent
<1>5. Members /\ Keys /\ MainsCached /\ Told
    BY <1>2, <1>4 DEF Members, Keys, MainsCached, Told, NoEvent
<1>6. /\ ThreadsTracked /\ Heard /\ ScanTracks /\ ScanReads /\ Overwrites
      /\ NameFollowed
    BY <1>2, <1>4 DEF ThreadsTracked, Heard, ScanTracks, ScanReads, Overwrites,
                      NameFollowed, InForce, NoEvent
<1> QED BY <1>3, <1>5, <1>6 DEF CalmInv

LEMMA CalmStutter ==
    ASSUME IInv, IInv', CalmInv, UNCHANGED vars
    PROVE  CalmInv'
<1>1. /\ UNCHANGED <<taskVars, whitelist, configVars, cfg, events, cursor, todo>>
      /\ UNCHANGED <<appliedMap, cache, cur, pc>>
    BY DEF vars, kernelVars, engineVars, scanVars
<1>2. /\ (ReloadPending' <=> ReloadPending) /\ (Scanning' <=> Scanning)
      /\ (Refilling' <=> Refilling) /\ (Skipping' <=> Skipping)
    BY <1>1 DEF ReloadPending, Refilling, Scanning, Skipping, Listed, configVars
<1>3. Overwrites'
    BY <1>1 DEF CalmInv, Overwrites, Protected, Affinity, ThreadAffinity, Cached
<1>4. ScanTracks'
    <2>1. \A t : (Passed(t)' <=> Passed(t)) /\ (Running(t)' <=> Running(t))
                 /\ (InApp(t)' <=> InApp(t))
        BY <1>1, TasksAlone DEF Passed, taskVars
    <2> QED BY <1>1, <1>2, <2>1 DEF CalmInv, ScanTracks, Listed, Cached, taskVars
<1>5. Cached' = Cached
    BY <1>1 DEF Cached
<1> QED BY <1>1, <1>2, <1>3, <1>4, <1>5, CalmShrinks

\* The invariant is inductive on a calm device.
LEMMA CalmNext ==
    Calm /\ IInv /\ CInv /\ CalmInv /\ [Next]_vars => CalmInv'
<1> SUFFICES ASSUME Calm, IInv, CInv, CalmInv, [Next]_vars PROVE CalmInv'
    OBVIOUS
<1>1. IInv'
    BY InvNext
<1>2. CASE UNCHANGED vars
    BY <1>1, <1>2, CalmStutter
<1>3. CASE Next
    BY <1>1, <1>3, CalmDevice, CalmStore, CalmQuiet, CalmStartRound, CalmKeys,
       CalmScanClears, CalmWalk, CalmWalkEnters, CalmWalkEnds, CalmScanReads,
       CalmForgets, CalmApply, CalmUnbound, CalmBind, CalmRecord, CalmCheck
       DEF Next, Engine
<1> QED BY <1>2, <1>3

LEMMA CalmAlways == ASSUME Calm PROVE Spec => []CalmInv
BY CalmInit, CalmNext, InvAlways, CInvInit, CInvNext, TypeCorrect, PTL DEF Spec

(* On a calm device no rename of the app's threads is missed: however       *)
(* threads start, are renamed and exit, and whenever the user saves another *)
(* configuration, a followed thread is bound by its present name unless the *)
(* event with that name is on its way, or a reload that will read it.       *)
THEOREM NamesAlwaysFollowed == ASSUME Calm PROVE Spec => []NameFollowed
<1>1. CalmInv => NameFollowed
    BY DEF CalmInv
<1> QED BY <1>1, CalmAlways, PTL
=============================================================================
