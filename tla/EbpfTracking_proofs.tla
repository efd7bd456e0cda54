------------------------ MODULE EbpfTracking_proofs -------------------------
(***************************************************************************)
(* Theorems about EbpfTracking, for any number of tids and steps of the    *)
(* device, any thread names and configurations, whatever forks, renames    *)
(* and runs other programs, and with every trouble allowed.  Only the last *)
(* one assumes something of the device, NoImpostors.                       *)
(***************************************************************************)
EXTENDS EbpfTracking, SequenceTheorems, TLAPS

\* Events that speak of tids already handed out.
UsedEvents == {e \in Events : e.tid <= lastTid}

(* Whatever the daemon and the queue still hold speaks of tids that were     *)
(* handed out, so the next thread is none of them; what affinity_sync found  *)
(* gone stays gone.                                                          *)
UsedTids ==
    /\ \A t \in Tids : t > lastTid => state[t] = "free"
    /\ events \in Seq(UsedEvents)
    /\ \A t \in Cached \cup todo : t <= lastTid
    /\ cur.tid <= lastTid
    /\ \A t \in dead : t <= lastTid /\ state[t] = "free"

IInv == TypeOK /\ UsedTids /\ FollowedIsReported

------------------------------------------------------------------------------
(* Operators *)

\* What the assumptions say of the bounds.
LEMMA TidsType == Tids \subseteq Int /\ 1 \in Tids /\ MaxTid \in Nat
BY TaskAssumption DEF TaskAssumption, Tids

LEMMA RunningFits == TRUE \in AppAtStart => 2 \in Tids /\ 3 \in Tids
BY TaskAssumption DEF TaskAssumption, Tids

\* thread_affinity answers with a rule.
LEMMA AffinityType ==
    ASSUME NEW c \in Configs, NEW name
    PROVE  ThreadAffinity(c, name) \in Rules
<1>1. c \in [threads : SUBSET ThreadNames, pkg : BOOLEAN]
    BY ConfigAssumption DEF ConfigAssumption
<1>2. CASE name \in c.threads
    BY <1>1, <1>2 DEF ThreadAffinity, Rules
<1>3. CASE name \notin c.threads
    BY <1>1, <1>3 DEF ThreadAffinity, Rules
<1> QED BY <1>2, <1>3

\* Submitting keeps the queue one of used events.
LEMMA SubmitType ==
    ASSUME NEW S, events \in Seq(S), NEW evs \in Seq(S), Submit(evs)
    PROVE  events' \in Seq(S)
<1>1. events \o evs \in Seq(S)
    BY ConcatProperties
<1> QED BY <1>1 DEF Submit

\* A queue of used events stays one when a tid is handed out.
LEMMA UsedGrows ==
    ASSUME lastTid \in Tids, lastTid' \in Tids, lastTid <= lastTid'
    PROVE  UsedEvents \subseteq UsedEvents'
<1> SUFFICES ASSUME NEW e \in UsedEvents PROVE e \in UsedEvents'
    OBVIOUS
<1>1. e \in Events /\ e.tid <= lastTid
    BY DEF UsedEvents
<1>2. e.tid \in Tids
    BY <1>1 DEF Events
<1>3. lastTid \in Int /\ lastTid' \in Int /\ e.tid \in Int
    BY <1>2, TidsType
<1>4. e.tid <= lastTid'
    BY <1>1, <1>2, <1>3
<1> QED BY <1>1, <1>4 DEF UsedEvents, Events

\* The events the tracepoints submit.
LEMMA EventType ==
    ASSUME NEW ty \in EventTypes, NEW p \in Tids, NEW t \in Tids,
           NEW c \in Names \cup {NoName}, t <= lastTid
    PROVE  [type |-> ty, pid |-> p, tid |-> t, comm |-> c] \in UsedEvents
BY DEF UsedEvents, Events

LEMMA SeqOfOne == ASSUME NEW S, NEW a \in S PROVE <<a>> \in Seq(S)
    OBVIOUS

LEMMA SeqOfTwo == ASSUME NEW S, NEW a \in S, NEW b \in S PROVE <<a, b>> \in Seq(S)
    OBVIOUS

------------------------------------------------------------------------------
(* The initial states *)

LEMMA InvInit == Init => IInv
<1> SUFFICES ASSUME Init PROVE IInv
    OBVIOUS
<1>1. TasksTypeOK /\ cpus \in [Tids -> SUBSET Rules]
    <2>1. PICK running \in AppAtStart :
              /\ lastTid = IF running THEN 3 ELSE 1
              /\ state = [t \in Tids |-> IF t <= lastTid THEN "live" ELSE "free"]
              /\ tgid = [t \in Tids |-> IF t = 3 /\ running THEN 2 ELSE t]
              /\ cmd = [t \in Tids |-> IF t \in {2, 3} /\ running THEN App ELSE Zygote]
              /\ comm = cmd
        BY DEF Init, TasksInit
    <2>2. 1 \in Tids /\ (running => 2 \in Tids /\ 3 \in Tids)
        <3>1. running => TRUE \in AppAtStart
            BY <2>1, TaskAssumption DEF TaskAssumption
        <3> QED BY <3>1, TidsType, RunningFits
    <2>3. lastTid \in Tids
        BY <2>1, <2>2
    <2>4. tgid \in [Tids -> Tids]
        BY <2>1, <2>2
    <2>5. cmd \in [Tids -> ProcessNames] /\ comm \in [Tids -> Names]
        BY <2>1 DEF ProcessNames, Names
    <2>6. state \in [Tids -> {"free", "live", "exiting"}]
        BY <2>1
    <2>7. ops = 0 /\ whitelist = {} /\ appliedMap = {}
        BY DEF Init, TasksInit
    <2>10. ops \in 0 .. MaxOps
        BY <2>7, TaskAssumption DEF TaskAssumption
    <2>9. events \in Seq(Events)
        BY EmptySeq DEF Init, TasksInit
    <2>8. cpus \in [Tids -> SUBSET Rules]
        BY DEF Init, TasksInit, NotBound
    <2> QED BY <2>3, <2>4, <2>5, <2>6, <2>7, <2>8, <2>9, <2>10 DEF TasksTypeOK
<1>2. EngineTypeOK
    <2>1. 1 \in Tids /\ 1 \in 1 .. MaxTid + 1
        BY TidsType
    <2>2. DOMAIN cache = {} /\ cache \in [{} -> Rules]
        BY DEF Init
    <2> QED BY <2>1, <2>2 DEF Init, EngineTypeOK, NoEvent, Pcs
<1>3. UsedTids
    <2>1. \A t \in Tids : t > lastTid => state[t] = "free"
        BY DEF Init, TasksInit
    <2>2. 1 <= lastTid
        BY DEF Init, TasksInit
    <2>3. events \in Seq(UsedEvents)
        BY EmptySeq DEF Init, TasksInit
    <2>4. Cached = {} /\ todo = {} /\ dead = {} /\ cur.tid = 1
        BY DEF Init, Cached, NoEvent
    <2> QED BY <2>1, <2>2, <2>3, <2>4 DEF UsedTids
<1>4. FollowedIsReported
    BY DEF Init, FollowedIsReported, Cached
<1> QED BY <1>1, <1>2, <1>3, <1>4 DEF IInv, TypeOK

------------------------------------------------------------------------------
(* The device *)

\* A step that leaves the engine alone leaves its types alone.
LEMMA EngineAlone ==
    ASSUME EngineTypeOK, UNCHANGED <<configVars, engineVars, due>>
    PROVE  EngineTypeOK'
BY DEF EngineTypeOK, Cached, configVars, engineVars, scanVars

\* What is left to show of a step of the device.
LEMMA DeviceStep ==
    ASSUME IInv, UNCHANGED <<configVars, engineVars, due>>, TasksTypeOK',
           cpus' \in [Tids -> SUBSET Rules],
           lastTid <= lastTid',
           events' \in Seq(UsedEvents'),
           \A t \in Tids :
               /\ t > lastTid' => state'[t] = "free"
               /\ t <= lastTid /\ state[t] = "free" => state'[t] = "free"
               /\ t <= lastTid /\ state'[t] = "live" => state[t] = "live"
               /\ t \in appliedMap /\ state'[t] = "live" => t \in appliedMap'
    PROVE  IInv'
<1> USE DEF IInv
<1>1. TypeOK'
    BY EngineAlone DEF TypeOK
<1>2. lastTid \in Int /\ lastTid' \in Int
    BY TidsType DEF TypeOK, TasksTypeOK
<1>3. Cached \subseteq Tids /\ todo \subseteq Tids /\ dead \subseteq Tids /\ cur.tid \in Tids
    BY TidsType DEF TypeOK, EngineTypeOK, Cached, Events, Scanned, NoEvent
<1>4. Cached' = Cached /\ todo' = todo /\ dead' = dead /\ cur' = cur
    BY DEF engineVars, scanVars, Cached
<1>5. UsedTids'
    <2>1. \A t \in Cached \cup todo : t <= lastTid'
        BY <1>2, <1>3, TidsType DEF UsedTids
    <2>2. cur.tid <= lastTid'
        <3>1. cur.tid <= lastTid /\ cur.tid \in Int
            BY <1>3, TidsType DEF UsedTids
        <3> QED BY <1>2, <3>1
    <2>3. \A t \in dead : t <= lastTid' /\ state'[t] = "free"
        BY <1>2, <1>3, TidsType DEF UsedTids
    <2> QED BY <1>4, <2>1, <2>2, <2>3 DEF UsedTids
<1>6. FollowedIsReported'
    BY <1>3, <1>4 DEF FollowedIsReported, UsedTids
<1> QED BY <1>1, <1>5, <1>6

LEMMA ForkInv ==
    ASSUME IInv, UNCHANGED <<configVars, engineVars, due>>,
           NEW parent \in Tids, NEW child \in Tids, NEW kind, Fork(parent, child, kind)
    PROVE  IInv'
<1> USE DEF IInv
<1>1. lastTid \in Int /\ lastTid' = lastTid + 1 /\ child = lastTid + 1
    BY TidsType DEF TypeOK, TasksTypeOK, Fork
<1>2. parent <= lastTid
    BY TidsType, <1>1 DEF UsedTids, TypeOK, TasksTypeOK, Fork, Running
<1>3. events' \in Seq(UsedEvents') /\ appliedMap \subseteq appliedMap'
      /\ appliedMap' \subseteq Tids
    <2>1. UsedEvents \subseteq UsedEvents'
        BY UsedGrows, <1>1 DEF TypeOK, TasksTypeOK, Fork
    <2>2. events \in Seq(UsedEvents')
        BY <2>1, SeqMonotonic DEF UsedTids
    <2>3. [type |-> "FORK", pid |-> tgid[parent], tid |-> child, comm |-> comm[parent]]
              \in UsedEvents'
        BY <1>1, TidsType DEF UsedEvents, Events, EventTypes, TypeOK, TasksTypeOK
    <2>4. <<[type |-> "FORK", pid |-> tgid[parent], tid |-> child,
             comm |-> comm[parent]]>> \in Seq(UsedEvents')
        BY <2>3, SeqOfOne
    <2>5. events' \in Seq(UsedEvents')
        BY <2>2, <2>4, SubmitType DEF Fork, ReportFork
    <2> QED BY <2>5 DEF Fork, ReportFork, TypeOK, TasksTypeOK
<1>4. TasksTypeOK' /\ cpus' \in [Tids -> SUBSET Rules]
    <2>1. events' \in Seq(Events)
        <3>1. UsedEvents' \subseteq Events
            BY DEF UsedEvents, Events
        <3> QED BY <1>3, <3>1, SeqMonotonic
    <2>2. ops' \in 0 .. MaxOps
        BY TaskAssumption DEF TaskAssumption, Fork, Op, TypeOK, TasksTypeOK
    <2>3. /\ state' \in [Tids -> {"free", "live", "exiting"}]
          /\ tgid' \in [Tids -> Tids]
          /\ comm' \in [Tids -> Names]
          /\ cmd' \in [Tids -> ProcessNames]
          /\ cpus' \in [Tids -> SUBSET Rules]
          /\ whitelist' \subseteq Names
        BY DEF Fork, TypeOK, TasksTypeOK
    <2> QED BY <1>1, <1>3, <2>1, <2>2, <2>3 DEF TasksTypeOK, Events
<1>5. ASSUME NEW t \in Tids
      PROVE  /\ t > lastTid' => state'[t] = "free"
             /\ t <= lastTid => state'[t] = state[t]
    BY <1>1, <1>5, TidsType DEF Fork, TypeOK, TasksTypeOK, UsedTids
<1> QED BY <1>1, <1>3, <1>4, <1>5, DeviceStep

\* BecomeApp, Rename and Exec change names and report them.
LEMMA NamedInv ==
    ASSUME IInv, UNCHANGED <<configVars, engineVars, due>>,
           UNCHANGED <<state, tgid, lastTid, cpus, whitelist, appliedMap>>, Op,
           comm' \in [Tids -> Names], cmd' \in [Tids -> ProcessNames],
           events' \in Seq(UsedEvents)
    PROVE  IInv'
<1> USE DEF IInv
<1>1. UsedEvents' = UsedEvents
    BY DEF UsedEvents
<1>2. events' \in Seq(Events)
    <2>1. UsedEvents \subseteq Events
        BY DEF UsedEvents
    <2> QED BY <2>1, SeqMonotonic
<1>3. ops' \in 0 .. MaxOps
    BY TaskAssumption DEF TaskAssumption, Op, TypeOK, TasksTypeOK
<1>4. TasksTypeOK'
    BY <1>2, <1>3 DEF TypeOK, TasksTypeOK
<1>5. lastTid <= lastTid'
    BY TidsType DEF TypeOK, TasksTypeOK
<1> QED BY <1>1, <1>4, <1>5, DeviceStep DEF TypeOK, UsedTids

LEMMA RenameEventType ==
    ASSUME IInv, NEW t \in Tids, state[t] # "free", NEW name \in Names,
           NEW ty \in EventTypes
    PROVE  [type |-> ty, pid |-> tgid[t], tid |-> t, comm |-> name] \in UsedEvents
<1>1. t <= lastTid
    BY TidsType DEF IInv, UsedTids, TypeOK, TasksTypeOK
<1> QED BY <1>1, EventType DEF IInv, TypeOK, TasksTypeOK

LEMMA NamedActions ==
    ASSUME IInv, UNCHANGED <<configVars, engineVars, due>>,
           NEW t \in Tids, NEW by \in Tids, NEW name \in Names,
           BecomeApp(t) \/ Rename(by, t, name) \/ Exec(t, name)
    PROVE  IInv'
<1> USE DEF IInv
<1>1. CASE BecomeApp(t)
    <2>1. App \in Names /\ App \in ProcessNames
        BY DEF Names, ProcessNames
    <2>2. <<[type |-> "RENAME", pid |-> tgid[t], tid |-> t, comm |-> App]>>
              \in Seq(UsedEvents)
        BY <1>1, <2>1, RenameEventType, SeqOfOne DEF BecomeApp, Running, EventTypes
    <2>3. events' \in Seq(UsedEvents)
        BY <1>1, <2>2, SubmitType DEF BecomeApp, ReportRename, UsedTids
    <2>4. comm' \in [Tids -> Names] /\ cmd' \in [Tids -> ProcessNames]
        BY <1>1, <2>1 DEF BecomeApp, TypeOK, TasksTypeOK
    <2> QED BY <1>1, <2>3, <2>4, NamedInv DEF BecomeApp
<1>2. CASE Rename(by, t, name)
    <2>2. <<[type |-> "RENAME", pid |-> tgid[by], tid |-> by, comm |-> name]>>
              \in Seq(UsedEvents)
        BY <1>2, RenameEventType, SeqOfOne DEF Rename, Running, EventTypes
    <2>3. events' \in Seq(UsedEvents)
        BY <1>2, <2>2, SubmitType DEF Rename, ReportRename, UsedTids
    <2>4. comm' \in [Tids -> Names] /\ cmd' \in [Tids -> ProcessNames]
        BY <1>2 DEF Rename, TypeOK, TasksTypeOK
    <2> QED BY <1>2, <2>3, <2>4, NamedInv DEF Rename
<1>3. CASE Exec(t, name)
    <2>1. name \in ProcessNames
        BY <1>3, TaskAssumption DEF Exec, TaskAssumption, ProcessNames
    <2>2. /\ [type |-> "RENAME", pid |-> tgid[t], tid |-> t, comm |-> name]
                 \in UsedEvents
          /\ [type |-> "EXEC", pid |-> tgid[t], tid |-> t, comm |-> name]
                 \in UsedEvents
        BY <1>3, RenameEventType DEF Exec, Running, EventTypes
    <2>3. <<[type |-> "RENAME", pid |-> tgid[t], tid |-> t, comm |-> name],
            [type |-> "EXEC", pid |-> tgid[t], tid |-> t, comm |-> name]>>
              \in Seq(UsedEvents)
        BY <2>2, SeqOfTwo
    <2>4. events' \in Seq(UsedEvents)
        BY <1>3, <2>3, SubmitType DEF Exec, ReportExec, UsedTids
    <2>5. comm' \in [Tids -> Names] /\ cmd' \in [Tids -> ProcessNames]
        BY <1>3, <2>1 DEF Exec, TypeOK, TasksTypeOK
    <2> QED BY <1>3, <2>4, <2>5, NamedInv DEF Exec
<1> QED BY <1>1, <1>2, <1>3

\* Exit, Reap and SystemRebinds.
LEMMA OtherDeviceActions ==
    ASSUME IInv, UNCHANGED <<configVars, engineVars, due>>,
           NEW t \in Tids, Exit(t) \/ Reap(t) \/ SystemRebinds(t)
    PROVE  IInv'
<1> USE DEF IInv
<1>1. lastTid' = lastTid /\ lastTid \in Int
    BY TidsType DEF TypeOK, TasksTypeOK, Exit, Reap, SystemRebinds, taskVars
<1>2. UsedEvents' = UsedEvents
    BY <1>1 DEF UsedEvents
<1>3. ops' \in 0 .. MaxOps
    BY TaskAssumption
       DEF TaskAssumption, Op, TypeOK, TasksTypeOK, Exit, Reap, SystemRebinds
<1>4. events' \in Seq(UsedEvents)
    <2>1. CASE Exit(t)
        <3>1. t <= lastTid
            BY <1>1, <2>1, TidsType DEF Exit, UsedTids
        <3>2. [type |-> "EXIT", pid |-> tgid[t], tid |-> t, comm |-> NoName]
                  \in UsedEvents
            BY <3>1, EventType DEF EventTypes, TypeOK, TasksTypeOK
        <3> QED BY <2>1, <3>2, SeqOfOne, SubmitType DEF Exit, ReportExit, UsedTids
    <2> QED BY <2>1 DEF Reap, SystemRebinds, UsedTids
<1>5. events' \in Seq(Events)
    <2>1. UsedEvents \subseteq Events
        BY DEF UsedEvents
    <2> QED BY <1>4, <2>1, SeqMonotonic
<1>6. /\ state' \in [Tids -> {"free", "live", "exiting"}]
      /\ cpus' \in [Tids -> SUBSET Rules]
      /\ appliedMap' \subseteq Tids
    BY DEF Exit, Reap, SystemRebinds, ReportExit, NotBound, TypeOK, TasksTypeOK, taskVars
<1>7. TasksTypeOK'
    BY <1>1, <1>3, <1>5, <1>6
       DEF TypeOK, TasksTypeOK, Exit, Reap, SystemRebinds, taskVars
<1>8. ASSUME NEW u \in Tids
      PROVE  /\ u > lastTid' => state'[u] = "free"
             /\ u <= lastTid /\ state[u] = "free" => state'[u] = "free"
             /\ u <= lastTid /\ state'[u] = "live" => state[u] = "live"
             /\ u \in appliedMap /\ state'[u] = "live" => u \in appliedMap'
    BY <1>1, TidsType
       DEF TypeOK, TasksTypeOK, UsedTids, Exit, Reap, SystemRebinds, ReportExit, taskVars
<1> QED BY <1>1, <1>2, <1>4, <1>6, <1>7, <1>8, DeviceStep

LEMMA DeviceInv == IInv /\ Device => IInv'
<1> SUFFICES ASSUME IInv, Device PROVE IInv'
    OBVIOUS
<1>1. UNCHANGED <<configVars, engineVars, due>>
    BY DEF Device
<1>2. CASE \E parent, child \in Tids, kind \in {"thread", "process"} :
               Fork(parent, child, kind)
    BY <1>1, <1>2, ForkInv
<1>3. CASE \E t \in Tids :
               \/ BecomeApp(t) \/ Exit(t) \/ Reap(t) \/ SystemRebinds(t)
               \/ \E name \in Names :
                      Exec(t, name) \/ \E by \in Tids : Rename(by, t, name)
    <2>1. App \in Names
        BY DEF Names, ProcessNames
    <2> QED BY <1>1, <1>3, <2>1, NamedActions, OtherDeviceActions
<1> QED BY <1>2, <1>3 DEF Device, TasksChange

------------------------------------------------------------------------------
(* The engine *)

\* What is left to show of a step that leaves the tasks alone.
LEMMA EngineStep ==
    ASSUME IInv, TypeOK', UNCHANGED taskVars,
           events' \in Seq(UsedEvents),
           \A t \in Cached' \cup todo' : t <= lastTid,
           cur'.tid <= lastTid,
           \A t \in dead' : t <= lastTid /\ state[t] = "free",
           \A t \in Cached' : state[t] = "live" => t \in appliedMap'
    PROVE  IInv'
<1>1. UsedEvents' = UsedEvents
    BY DEF UsedEvents, taskVars
<1>2. UsedTids'
    BY <1>1 DEF IInv, UsedTids, taskVars
<1>3. FollowedIsReported'
    BY DEF FollowedIsReported, taskVars
<1> QED BY <1>2, <1>3 DEF IInv

\* Steps that change neither cache nor map nor queue.
LEMMA QuietStep ==
    ASSUME IInv, TypeOK', UNCHANGED <<taskVars, appliedMap, events, cache, dead>>,
           todo' \subseteq todo \/ (\A t \in todo' : t <= lastTid),
           cur'.tid <= lastTid
    PROVE  IInv'
BY EngineStep DEF IInv, UsedTids, FollowedIsReported, Cached

\* Forgetting tids leaves a cache of rules.
LEMMA WithoutType ==
    ASSUME cache \in [Cached -> Rules], NEW S
    PROVE  /\ DOMAIN Without(cache, S) = Cached \ S
           /\ Without(cache, S) \in [Cached \ S -> Rules]
BY DEF Without, Cached

LEMMA EnvironmentInv == IInv /\ (StoreConfig \/ RaiseFlag \/ TimePasses) => IInv'
<1> SUFFICES ASSUME IInv, StoreConfig \/ RaiseFlag \/ TimePasses PROVE IInv'
    OBVIOUS
<1> USE DEF IInv, TypeOK, TasksTypeOK, EngineTypeOK, kernelVars, taskVars,
            engineVars, scanVars, Cached
<1>1. CASE StoreConfig
    <2>1. ops' \in 0 .. MaxOps
        BY <1>1, TaskAssumption DEF TaskAssumption, StoreConfig, Op
    <2>2. TypeOK'
        BY <1>1, <2>1 DEF StoreConfig
    <2> QED BY <1>1, <2>2, QuietStep DEF StoreConfig, UsedTids
<1>2. CASE RaiseFlag
    <2>1. TypeOK'
        BY <1>2 DEF RaiseFlag
    <2> QED BY <1>2, <2>1, QuietStep DEF RaiseFlag, UsedTids
<1>3. CASE TimePasses
    <2>1. TypeOK'
        BY <1>3 DEF TimePasses, configVars
    <2> QED BY <1>3, <2>1, QuietStep DEF TimePasses, UsedTids
<1> QED BY <1>1, <1>2, <1>3

\* The beginning and the end of a round, and the whitelist.
LEMMA RoundInv ==
    IInv /\ (StartRound \/ RemoveKeys \/ InsertKeys \/ Drained \/ CheckNotDue) => IInv'
<1> SUFFICES ASSUME IInv,
                    StartRound \/ RemoveKeys \/ InsertKeys \/ Drained \/ CheckNotDue
             PROVE IInv'
    OBVIOUS
<1>1. CommKeys(cfg) \subseteq Names
    BY DEF CommKeys, Names, ProcessNames
<1>2. TypeOK'
    <2> USE DEF IInv, TypeOK, TasksTypeOK, EngineTypeOK, kernelVars, taskVars,
                configVars, scanVars, Cached, Pcs
    <2>1. CASE StartRound
        BY <2>1 DEF StartRound
    <2>2. CASE RemoveKeys
        BY <2>2 DEF RemoveKeys
    <2>3. CASE InsertKeys
        BY <1>1, <2>3 DEF InsertKeys
    <2>4. CASE Drained
        BY <2>4 DEF Drained
    <2>5. CASE CheckNotDue
        BY <2>5 DEF CheckNotDue
    <2> QED BY <2>1, <2>2, <2>3, <2>4, <2>5
<1>3. UNCHANGED <<taskVars, appliedMap, events, cache, dead, todo, cur>>
    BY DEF StartRound, RemoveKeys, InsertKeys, Drained, CheckNotDue, kernelVars, scanVars
<1> QED BY <1>2, <1>3, QuietStep DEF IInv, UsedTids

LEMMA CheckInv == IInv /\ (Check \/ Forget) => IInv'
<1> SUFFICES ASSUME IInv, Check \/ Forget PROVE IInv'
    OBVIOUS
<1>0. /\ cache \in [Cached -> Rules] /\ Cached \subseteq Tids
      /\ cpus \in [Tids -> SUBSET Rules]
    BY DEF IInv, TypeOK, EngineTypeOK, Cached
<1>1. CASE Check
    <2>1. /\ Cached' = Cached \ dead' /\ cache' \in [Cached' -> Rules]
          /\ dead' \subseteq Cached
        BY <1>0, <1>1, WithoutType DEF Check, Cached
    <2>2. cpus' \in [Tids -> SUBSET Rules]
        BY <1>0, <1>1 DEF Check
    <2>3. TypeOK'
        BY <1>0, <1>1, <2>1, <2>2
           DEF Check, IInv, TypeOK, TasksTypeOK, EngineTypeOK, taskVars, configVars,
               scanVars, Cached, Pcs
    <2>4. \A t \in dead' : t <= lastTid /\ state[t] = "free"
        BY <1>1 DEF Check, IInv, UsedTids
    <2> QED BY <1>1, <2>1, <2>3, <2>4, EngineStep
            DEF Check, IInv, UsedTids, FollowedIsReported, scanVars
<1>2. CASE Forget
    <2>1. TypeOK'
        BY <1>2 DEF Forget, IInv, TypeOK, TasksTypeOK, EngineTypeOK, taskVars,
                    configVars, scanVars, Cached, Pcs
    <2>2. Cached' = Cached
        BY <1>2 DEF Forget, Cached
    <2>3. \A t \in Cached' : state[t] = "live" => t \in appliedMap'
        BY <1>2, <2>2 DEF Forget, IInv, UsedTids, FollowedIsReported
    <2> QED BY <1>2, <2>1, <2>2, <2>3, EngineStep DEF Forget, IInv, UsedTids, scanVars
<1> QED BY <1>1, <1>2

LEMMA ScanInv ==
    IInv /\ (\/ ScanClears \/ WalkSkips \/ WalkEnters \/ WalkEnds \/ ScanLeaves
             \/ ScanReadsName)
    => IInv'
<1> SUFFICES ASSUME IInv,
                    \/ ScanClears \/ WalkSkips \/ WalkEnters \/ WalkEnds
                    \/ ScanLeaves \/ ScanReadsName
             PROVE IInv'
    OBVIOUS
<1> USE DEF kernelVars, taskVars, configVars, scanVars, Pcs
<1>0. TasksTypeOK /\ EngineTypeOK /\ cpus \in [Tids -> SUBSET Rules] /\ UsedTids
    BY DEF IInv, TypeOK
<1>1. CASE ScanClears
    <2>0. Cached \ Tids = {} /\ cache \in [Cached -> Rules]
        BY <1>0 DEF EngineTypeOK, Cached
    <2>1. DOMAIN cache' = {} /\ cache' \in [{} -> Rules]
        <3>1. /\ DOMAIN Without(cache, Tids) = Cached \ Tids
              /\ Without(cache, Tids) \in [Cached \ Tids -> Rules]
            BY <2>0, WithoutType
        <3> QED BY <1>1, <2>0, <3>1 DEF ScanClears
    <2>2. TypeOK'
        BY <1>0, <1>1, <2>1, TidsType
           DEF ScanClears, TypeOK, TasksTypeOK, EngineTypeOK
    <2>3. Cached' = {}
        BY <2>1 DEF Cached
    <2> QED BY <1>0, <1>1, <2>2, <2>3, EngineStep DEF ScanClears, UsedTids
<1>2. CASE WalkSkips
    <2>1. cursor' \in 1 .. MaxTid + 1
        BY <1>0, <1>2, TidsType DEF WalkSkips, Tids
    <2>2. pc' # "scan" /\ cur' = NoEvent /\ cur'.type # "SCAN"
        BY <1>0, <1>2 DEF WalkSkips, EngineTypeOK, NoEvent
    <2>3. TypeOK'
        BY <1>0, <1>2, <2>1, <2>2 DEF WalkSkips, TypeOK, TasksTypeOK, EngineTypeOK
    <2> QED BY <1>0, <1>2, <2>3, QuietStep DEF WalkSkips, UsedTids
<1>3. CASE WalkEnters
    <2>1. Group(cursor) \subseteq Tids /\ (\A t \in Group(cursor) : t <= lastTid)
        BY <1>0, TidsType DEF Group, UsedTids, TasksTypeOK
    <2>2. TypeOK'
        BY <1>0, <1>3, <2>1 DEF WalkEnters, TypeOK, TasksTypeOK, EngineTypeOK
    <2> QED BY <1>0, <1>3, <2>1, <2>2, QuietStep DEF WalkEnters, UsedTids
<1>4. CASE WalkEnds
    <2>1. TypeOK'
        BY <1>0, <1>4 DEF WalkEnds, TypeOK, TasksTypeOK, EngineTypeOK
    <2> QED BY <1>0, <1>4, <2>1, QuietStep DEF WalkEnds, UsedTids
<1>5. CASE ScanLeaves
    <2>1. cursor' \in 1 .. MaxTid + 1
        BY <1>0, <1>5, TidsType DEF ScanLeaves, EngineTypeOK, Tids
    <2>2. pc' = "walk" /\ cur' = NoEvent /\ cur'.type # "SCAN"
        BY <1>0, <1>5 DEF ScanLeaves, EngineTypeOK, NoEvent
    <2>3. TypeOK'
        BY <1>0, <1>5, <2>1, <2>2 DEF ScanLeaves, TypeOK, TasksTypeOK, EngineTypeOK
    <2> QED BY <1>0, <1>5, <2>3, QuietStep DEF ScanLeaves, UsedTids
<1>6. CASE ScanReadsName
    <2>1. PICK t \in todo :
              /\ todo' = todo \ {t}
              /\ cur' = [type |-> "SCAN", pid |-> cursor, tid |-> t,
                         comm |-> IF state[t] = "free" \/ cfg.threads = {}
                                  THEN NoName ELSE comm[t]]
        BY <1>6 DEF ScanReadsName
    <2>2. cursor \in Tids /\ t \in Tids /\ t <= lastTid
        BY <1>0, <1>6 DEF ScanReadsName, EngineTypeOK, UsedTids
    <2>3. cur' \in Scanned
        BY <1>0, <2>1, <2>2 DEF Scanned, TasksTypeOK
    <2>4. cur' # NoEvent /\ cur'.tid = t
        BY <2>1 DEF NoEvent
    <2>5. TypeOK'
        BY <1>0, <1>6, <2>1, <2>2, <2>3, <2>4
           DEF ScanReadsName, TypeOK, TasksTypeOK, EngineTypeOK
    <2> QED BY <1>6, <2>1, <2>2, <2>4, <2>5, QuietStep DEF ScanReadsName
<1> QED BY <1>1, <1>2, <1>3, <1>4, <1>5, <1>6

\* The head of the queue and its rest.
LEMMA HeadUsed ==
    ASSUME UsedTids, events # <<>>
    PROVE  /\ Head(events) \in Events /\ Head(events).tid <= lastTid
           /\ Tail(events) \in Seq(UsedEvents) /\ Tail(events) \in Seq(Events)
<1>1. UsedEvents \subseteq Events
    BY DEF UsedEvents
<1>2. Head(events) \in UsedEvents /\ Tail(events) \in Seq(UsedEvents)
    BY HeadTailProperties DEF UsedTids
<1>3. Tail(events) \in Seq(Events)
    BY <1>1, <1>2, SeqMonotonic
<1> QED BY <1>2, <1>3 DEF UsedEvents

LEMMA DispatchInv ==
    IInv /\ (DispatchForget \/ DispatchIgnore \/ DispatchApply) => IInv'
<1> SUFFICES ASSUME IInv, DispatchForget \/ DispatchIgnore \/ DispatchApply
             PROVE IInv'
    OBVIOUS
<1> USE DEF taskVars, configVars, scanVars, engineVars, Pcs
<1>0. TasksTypeOK /\ EngineTypeOK /\ cpus \in [Tids -> SUBSET Rules] /\ UsedTids
    BY DEF IInv, TypeOK
<1>1. events # <<>> /\ events' = Tail(events)
    BY DEF DispatchForget, DispatchIgnore, DispatchApply
<1>2. events' \in Seq(UsedEvents) /\ events' \in Seq(Events)
    BY <1>0, <1>1, HeadUsed
<1>3. CASE DispatchForget
    <2> DEFINE t == Head(events).tid
    <2>1. cache' = Without(cache, {t}) /\ appliedMap' = appliedMap \ {t}
        BY <1>3 DEF DispatchForget
    <2>2. Cached' = Cached \ {t} /\ cache' \in [Cached' -> Rules]
        BY <1>0, <2>1, WithoutType DEF EngineTypeOK, Cached
    <2>3. TypeOK'
        BY <1>0, <1>2, <1>3, <2>1, <2>2
           DEF DispatchForget, TypeOK, TasksTypeOK, EngineTypeOK, Cached
    <2>4. \A u \in Cached' : state[u] = "live" => u \in appliedMap'
        BY <2>1, <2>2 DEF IInv, FollowedIsReported
    <2> QED BY <1>0, <1>2, <1>3, <2>2, <2>3, <2>4, EngineStep DEF DispatchForget, UsedTids
<1>4. CASE DispatchIgnore
    <2>1. TypeOK'
        BY <1>0, <1>2, <1>4 DEF DispatchIgnore, TypeOK, TasksTypeOK, EngineTypeOK, Cached
    <2> QED BY <1>0, <1>2, <1>4, <2>1, EngineStep
            DEF DispatchIgnore, UsedTids, Cached, IInv, FollowedIsReported
<1>5. CASE DispatchApply
    <2>1. cur' \in Events /\ cur'.tid <= lastTid
        BY <1>0, <1>1, <1>5, HeadUsed DEF DispatchApply
    <2>2. cur'.type \notin {"SCAN", "none"}
        BY <2>1 DEF Events, EventTypes
    <2>3. cur' # NoEvent /\ pc' = "bind"
        BY <1>5, <2>2 DEF NoEvent, DispatchApply
    <2>4. TypeOK'
        BY <1>0, <1>2, <1>5, <2>1, <2>2, <2>3
           DEF DispatchApply, TypeOK, TasksTypeOK, EngineTypeOK, Cached
    <2> QED BY <1>0, <1>2, <1>5, <2>1, <2>4, EngineStep
            DEF DispatchApply, UsedTids, Cached, IInv, FollowedIsReported
<1> QED BY <1>3, <1>4, <1>5

LEMMA ApplyInv == IInv /\ (KeepRule \/ BindGone \/ Bind \/ Record) => IInv'
<1> SUFFICES ASSUME IInv, KeepRule \/ BindGone \/ Bind \/ Record PROVE IInv'
    OBVIOUS
<1> USE DEF kernelVars, taskVars, configVars, scanVars, Pcs
<1>0. TasksTypeOK /\ EngineTypeOK /\ cpus \in [Tids -> SUBSET Rules] /\ UsedTids
    BY DEF IInv, TypeOK
<1>1. cur.tid \in Tids /\ cur.tid <= lastTid
    BY <1>0, TidsType DEF EngineTypeOK, UsedTids, Events, Scanned, NoEvent
<1>2. Affinity \in Rules
    BY <1>0, AffinityType DEF Affinity, EngineTypeOK
<1>3. ASSUME Done
      PROVE  /\ cur' = NoEvent /\ pc' \in {"scan", "recv"}
             /\ pc' = "scan" => cursor \in Tids
             /\ cur'.type # "SCAN" /\ cur'.tid <= lastTid
    <2>1. 1 <= lastTid
        BY <1>1, TidsType, <1>0 DEF TasksTypeOK, Tids
    <2> QED BY <1>0, <1>3, <2>1 DEF Done, NoEvent, EngineTypeOK
<1>4. CASE KeepRule
    <2>1. TypeOK'
        BY <1>0, <1>3, <1>4 DEF KeepRule, TypeOK, TasksTypeOK, EngineTypeOK
    <2> QED BY <1>3, <1>4, <2>1, QuietStep DEF KeepRule
<1>5. CASE BindGone
    <2>1. cache' = Without(cache, {cur.tid}) /\ state[cur.tid] = "free"
        BY <1>5 DEF BindGone
    <2>2. Cached' = Cached \ {cur.tid} /\ cache' \in [Cached' -> Rules]
        BY <1>0, <2>1, WithoutType DEF EngineTypeOK, Cached
    <2>3. appliedMap \ {cur.tid} \subseteq appliedMap' /\ appliedMap' \subseteq appliedMap
        BY <1>5 DEF BindGone
    <2>4. TypeOK'
        BY <1>0, <1>3, <1>5, <2>2, <2>3
           DEF BindGone, TypeOK, TasksTypeOK, EngineTypeOK, Cached
    <2>5. \A u \in Cached' : state[u] = "live" => u \in appliedMap'
        BY <2>1, <2>2, <2>3 DEF IInv, FollowedIsReported
    <2> QED BY <1>0, <1>3, <1>5, <2>2, <2>4, <2>5, EngineStep DEF BindGone, UsedTids
<1>6. CASE Bind
    <2>1. cpus' \in [Tids -> SUBSET Rules]
        BY <1>0, <1>2, <1>6 DEF Bind
    <2>2. cur # NoEvent
        BY <1>0, <1>6 DEF Bind, EngineTypeOK
    <2>3. TypeOK'
        BY <1>0, <1>6, <2>1, <2>2 DEF Bind, TypeOK, TasksTypeOK, EngineTypeOK
    <2> QED BY <1>0, <1>6, <2>3, QuietStep DEF Bind, UsedTids
<1>7. CASE Record
    <2>1. Cached' = Cached \cup {cur.tid} /\ cache' \in [Cached' -> Rules]
        BY <1>0, <1>2, <1>7 DEF Record, EngineTypeOK, Cached
    <2>2. appliedMap' = appliedMap \cup {cur.tid}
        BY <1>7 DEF Record
    <2>3. TypeOK'
        BY <1>0, <1>1, <1>3, <1>7, <2>1, <2>2
           DEF Record, TypeOK, TasksTypeOK, EngineTypeOK, Cached
    <2>4. \A u \in Cached' : state[u] = "live" => u \in appliedMap'
        BY <2>1, <2>2 DEF IInv, FollowedIsReported
    <2> QED BY <1>0, <1>1, <1>3, <1>7, <2>1, <2>3, <2>4, EngineStep
            DEF Record, UsedTids
<1> QED BY <1>4, <1>5, <1>6, <1>7

------------------------------------------------------------------------------
(* Theorems *)

\* The invariant is inductive.
LEMMA InvNext == IInv /\ [Next]_vars => IInv'
<1> SUFFICES ASSUME IInv, [Next]_vars PROVE IInv'
    OBVIOUS
<1>1. CASE UNCHANGED vars
    BY <1>1 DEF IInv, TypeOK, TasksTypeOK, EngineTypeOK, UsedTids, UsedEvents,
                FollowedIsReported, Cached, vars, kernelVars, taskVars, configVars,
                engineVars, scanVars
<1>2. CASE Next
    BY <1>2, DeviceInv, EnvironmentInv, RoundInv, CheckInv, ScanInv, DispatchInv,
       ApplyInv DEF Next, Engine
<1> QED BY <1>1, <1>2

LEMMA InvAlways == Spec => []IInv
BY InvInit, InvNext, PTL DEF Spec

(* Every variable of kernel and engine always has its type: what the scan    *)
(* and the events hand to task_apply are threads, and what it stores rules.  *)
THEOREM TypeCorrect == Spec => []TypeOK
<1>1. IInv => TypeOK
    BY DEF IInv
<1> QED BY <1>1, InvAlways, PTL

(* The kernel never ignores a live thread the daemon believes it follows,    *)
(* however forks, renames, exits, lost events, reloads and scans interleave. *)
THEOREM FollowedAlwaysReported == Spec => []FollowedIsReported
<1>1. IInv => FollowedIsReported
    BY DEF IInv
<1> QED BY <1>1, InvAlways, PTL

------------------------------------------------------------------------------
(* Reloads *)

(* The snapshot is the stored configuration unless a reload is on its way,   *)
(* and threads are handled only while the package has rules.                 *)
CInv ==
    /\ storing \/ configChanged \/ current = cfg
    /\ pc \in {"scan", "bind", "record"} => Listed(cfg)
    /\ BindingsCurrent

LEMMA CInvInit == Init => CInv
BY DEF Init, CInv, BindingsCurrent, Cached

\* Rules carry the configuration they were made from.
LEMMA AffinityCfg == Affinity.cfg = cfg
BY DEF Affinity, ThreadAffinity

\* A step of the engine after which the cache holds no other rules.
LEMMA CInvShrinks ==
    ASSUME CInv, UNCHANGED <<current, storing, configChanged, cfg>>,
           Cached' \subseteq Cached, \A t \in Cached' : cache'[t] = cache[t],
           pc \in {"remove", "insert", "clear"}
               => pc' \in {"remove", "insert", "clear"} \/ Cached' = {},
           pc' \in {"scan", "bind", "record"} => Listed(cfg)
    PROVE  CInv'
BY DEF CInv, BindingsCurrent, ReloadPending, Listed

LEMMA WithoutValues ==
    ASSUME NEW S
    PROVE  /\ DOMAIN Without(cache, S) = Cached \ S
           /\ \A t \in Cached \ S : Without(cache, S)[t] = cache[t]
BY DEF Without, Cached

LEMMA CInvNext == TypeOK /\ CInv /\ [Next]_vars => CInv'
<1> SUFFICES ASSUME TypeOK, CInv, [Next]_vars PROVE CInv'
    OBVIOUS
<1>0. Cached \subseteq Tids
    BY DEF TypeOK, EngineTypeOK, Cached
<1>1. CASE UNCHANGED vars \/ Device
    <2>1. UNCHANGED <<current, storing, configChanged, cfg, cache, pc>>
        BY <1>1 DEF Device, vars, configVars, engineVars
    <2> QED BY <2>1 DEF CInv, BindingsCurrent, ReloadPending, Listed, Cached
<1>2. CASE StoreConfig \/ RaiseFlag \/ TimePasses
    BY <1>2 DEF CInv, BindingsCurrent, ReloadPending, Listed, Cached, StoreConfig,
                RaiseFlag, TimePasses, configVars, engineVars, scanVars
<1>3. CASE StartRound
    BY <1>3 DEF CInv, BindingsCurrent, ReloadPending, Cached, StartRound
<1>4. CASE ScanClears
    <2>1. Cached' = {}
        BY <1>0, <1>4, WithoutValues DEF ScanClears, Cached
    <2> QED BY <1>4, <2>1, CInvShrinks DEF ScanClears, configVars
<1>5. CASE RemoveKeys \/ InsertKeys \/ WalkSkips \/ WalkEnters \/ WalkEnds \/ ScanLeaves
           \/ ScanReadsName \/ Drained \/ CheckNotDue \/ Forget
    <2>1. UNCHANGED <<current, storing, configChanged, cfg, cache>>
        BY <1>5 DEF RemoveKeys, InsertKeys, WalkSkips, WalkEnters, WalkEnds, ScanLeaves,
                    ScanReadsName, Drained, CheckNotDue, Forget, configVars
    <2>2. /\ pc \in {"remove", "insert", "clear"} => pc' \in {"remove", "insert", "clear"}
          /\ pc' \in {"scan", "bind", "record"} => Listed(cfg)
        BY <1>5 DEF RemoveKeys, InsertKeys, WalkSkips, WalkEnters, WalkEnds, ScanLeaves,
                    ScanReadsName, Drained, CheckNotDue, Forget, Matches, CInv
    <2> QED BY <2>1, <2>2, CInvShrinks DEF Cached
<1>6. CASE DispatchForget \/ BindGone \/ Check
    <2>1. PICK S : cache' = Without(cache, S)
        BY <1>6 DEF DispatchForget, BindGone, Check
    <2>2. Cached' \subseteq Cached /\ \A t \in Cached' : cache'[t] = cache[t]
        BY <2>1, WithoutValues DEF Cached
    <2>3. /\ UNCHANGED <<current, storing, configChanged, cfg>>
          /\ pc \notin {"remove", "insert", "clear"}
          /\ pc' \in {"scan", "bind", "record"} => Listed(cfg)
        BY <1>6 DEF DispatchForget, BindGone, Check, Done, CInv, configVars
    <2> QED BY <2>2, <2>3, CInvShrinks
<1>7. CASE DispatchIgnore \/ DispatchApply \/ KeepRule \/ Bind
    <2>1. UNCHANGED <<current, storing, configChanged, cfg, cache>>
        BY <1>7 DEF DispatchIgnore, DispatchApply, KeepRule, Bind, configVars, engineVars
    <2>2. /\ pc \notin {"remove", "insert", "clear"}
          /\ pc' \in {"scan", "bind", "record"} => Listed(cfg)
        BY <1>7 DEF DispatchIgnore, DispatchApply, KeepRule, Bind, Done, PkgKnown, CInv,
                    engineVars
    <2> QED BY <2>1, <2>2, CInvShrinks DEF Cached
<1>8. CASE Record
    <2>1. /\ UNCHANGED <<current, storing, configChanged, cfg>>
          /\ pc = "record" /\ Listed(cfg)
          /\ pc' \in {"scan", "bind", "record"} => Listed(cfg)
        BY <1>8 DEF Record, Done, CInv, configVars
    <2>2. \A t \in Cached' : \/ t \in Cached /\ cache'[t] = cache[t]
                            \/ cache'[t].cfg = cfg
        BY <1>8, AffinityCfg DEF Record, Cached
    <2> QED BY <2>1, <2>2 DEF CInv, BindingsCurrent, ReloadPending, Listed
<1> QED BY <1>1, <1>2, <1>3, <1>4, <1>5, <1>6, <1>7, <1>8 DEF Next, Engine

(* What affinity_sync puts back is of the configuration the round runs on,   *)
(* unless a reload is on its way: no binding outlives its configuration.     *)
THEOREM BindingsAlwaysCurrent == Spec => []BindingsCurrent
<1>1. CInv => BindingsCurrent
    BY DEF CInv
<1> QED BY <1>1, CInvInit, CInvNext, TypeCorrect, PTL DEF Spec
------------------------------------------------------------------------------
(* Strangers *)

(* Nobody takes the app's name or leaves it: no thread calls itself like the *)
(* app, and a process of the app runs no other program.  Every fork, every   *)
(* other rename and program, and every trouble remains possible.             *)
NoImpostors ==
    /\ \A r \in Renames : r[2] # App
    /\ \A e \in Execs : e[1] # App

\* Used events that speak of the app's threads.
AppEvents == {e \in UsedEvents : InApp(e.tid)}

(* The app's name is only found at the app's threads, and only they come     *)
(* into the map, through the queue, by a scan, or into the cache.            *)
OfTheApp ==
    /\ whitelist \subseteq {App}
    /\ \A t \in Tids : t <= lastTid =>
           tgid[t] <= lastTid /\ (comm[t] = App => InApp(t))
    /\ \A t \in Cached \cup appliedMap \cup todo : t <= lastTid /\ InApp(t)
    /\ events \in Seq(AppEvents)
    /\ cur # NoEvent => InApp(cur.tid)

LEMMA OfTheAppInit == Init => OfTheApp
<1> SUFFICES ASSUME Init PROVE OfTheApp
    OBVIOUS
<1>1. PICK running \in AppAtStart :
          /\ lastTid = IF running THEN 3 ELSE 1
          /\ state = [t \in Tids |-> IF t <= lastTid THEN "live" ELSE "free"]
          /\ tgid = [t \in Tids |-> IF t = 3 /\ running THEN 2 ELSE t]
          /\ cmd = [t \in Tids |-> IF t \in {2, 3} /\ running THEN App ELSE Zygote]
          /\ comm = cmd
    BY DEF Init, TasksInit
<1>2. running => 2 \in Tids
    BY <1>1, TaskAssumption, RunningFits DEF TaskAssumption
<1>3. ASSUME NEW t \in Tids, t <= lastTid
      PROVE  tgid[t] <= lastTid /\ (comm[t] = App => InApp(t))
    <2>1. tgid[t] \in Tids /\ (comm[t] = App => running /\ t \in {2, 3})
        BY <1>1, <1>2 DEF App, Zygote
    <2>2. comm[t] = App => tgid[t] = 2
        BY <1>1, <2>1
    <2>3. running => cmd[2] = App
        BY <1>1, <1>2
    <2>4. tgid[t] <= lastTid
        <3>1. tgid[t] = IF t = 3 /\ running THEN 2 ELSE t
            BY <1>1
        <3>2. CASE t = 3 /\ running
            BY <1>1, <3>1, <3>2
        <3>3. CASE ~(t = 3 /\ running)
            BY <1>3, <3>1, <3>3
        <3> QED BY <3>2, <3>3
    <2> QED BY <2>1, <2>2, <2>3, <2>4 DEF InApp
<1>4. whitelist = {} /\ appliedMap = {} /\ Cached = {} /\ todo = {} /\ cur = NoEvent
    BY DEF Init, TasksInit, Cached
<1>5. events \in Seq(AppEvents)
    BY EmptySeq DEF Init, TasksInit
<1> QED BY <1>3, <1>4, <1>5 DEF OfTheApp

\* What a step of the device leaves to show: the app's threads remain its
\* own, and what is new in the map and the queue is of the app.
LEMMA OfTheAppDevice ==
    ASSUME IInv, IInv', OfTheApp, UNCHANGED <<configVars, engineVars, whitelist>>,
           lastTid <= lastTid',
           \A t \in Tids : t <= lastTid => (InApp(t) => InApp(t)'),
           \A t \in Tids : t <= lastTid' =>
               tgid'[t] <= lastTid' /\ (comm'[t] = App => InApp(t)'),
           \A t \in appliedMap' \ appliedMap : t <= lastTid' /\ InApp(t)',
           events' \in Seq(AppEvents')
    PROVE  OfTheApp'
<1>1. lastTid \in Tids /\ lastTid' \in Tids /\ Tids \subseteq Int
    BY TidsType DEF IInv, TypeOK, TasksTypeOK
<1>2. /\ Cached \subseteq Tids /\ todo \subseteq Tids /\ appliedMap \subseteq Tids
      /\ cur.tid \in Tids /\ cur.tid <= lastTid
    <2>1. cur.tid \in Tids
        BY TidsType DEF IInv, TypeOK, EngineTypeOK, Events, Scanned, NoEvent
    <2>2. Cached \subseteq Tids /\ todo \subseteq Tids /\ appliedMap \subseteq Tids
        BY DEF IInv, TypeOK, TasksTypeOK, EngineTypeOK, Cached
    <2>3. cur.tid <= lastTid
        BY DEF IInv, UsedTids
    <2> QED BY <2>1, <2>2, <2>3
<1>3. Cached' = Cached /\ todo' = todo /\ cur' = cur
    BY DEF engineVars, scanVars, Cached
<1>4. ASSUME NEW t \in Tids, t <= lastTid, InApp(t)
      PROVE  t <= lastTid' /\ InApp(t)'
    BY <1>1, <1>4
<1>5. \A t \in Cached \cup appliedMap \cup todo : t \in Tids /\ t <= lastTid /\ InApp(t)
    BY <1>2 DEF OfTheApp
<1>6. \A t \in Cached' \cup appliedMap' \cup todo' : t <= lastTid' /\ InApp(t)'
    BY <1>3, <1>4, <1>5
<1>7. cur' # NoEvent => InApp(cur.tid)'
    <2> DEFINE c == cur.tid
    <2>1. cur # NoEvent => InApp(c)
        BY DEF OfTheApp
    <2>2. ASSUME cur # NoEvent PROVE cmd'[tgid'[c]] = App
        <3>1. c \in Tids /\ c <= lastTid /\ InApp(c)
            BY <1>2, <2>1, <2>2
        <3> QED BY <1>4, <3>1 DEF InApp
    <2> QED BY <1>3, <2>2 DEF InApp
<1>8. /\ whitelist' \subseteq {App} /\ events' \in Seq(AppEvents')
      /\ \A t \in Tids : t <= lastTid' =>
             tgid'[t] <= lastTid' /\ (comm'[t] = App => InApp(t)')
    BY DEF OfTheApp
<1> QED BY <1>6, <1>7, <1>8 DEF OfTheApp

\* The app's events remain its own while its threads do.
LEMMA AppEventsGrow ==
    ASSUME lastTid \in Tids, lastTid' \in Tids, lastTid <= lastTid',
           \A t \in Tids : t <= lastTid => (InApp(t) => InApp(t)')
    PROVE  AppEvents \subseteq AppEvents'
<1> SUFFICES ASSUME NEW e \in AppEvents PROVE e \in AppEvents'
    OBVIOUS
<1>1. e \in UsedEvents /\ InApp(e.tid)
    BY DEF AppEvents
<1>2. e \in UsedEvents'
    BY <1>1, UsedGrows
<1>3. e.tid \in Tids /\ e.tid <= lastTid
    BY <1>1 DEF UsedEvents, Events
<1>4. InApp(e.tid)'
    BY <1>1, <1>3
<1> QED BY <1>2, <1>4 DEF AppEvents, InApp

LEMMA AppEventType ==
    ASSUME NEW ty \in EventTypes, NEW p \in Tids, NEW t \in Tids,
           NEW c \in Names \cup {NoName}, t <= lastTid, InApp(t)
    PROVE  [type |-> ty, pid |-> p, tid |-> t, comm |-> c] \in AppEvents
<1> DEFINE e == [type |-> ty, pid |-> p, tid |-> t, comm |-> c]
<1>1. e \in UsedEvents
    BY EventType
<1>2. e.tid = t
    OBVIOUS
<1> HIDE DEF e
<1>3. e \in AppEvents
    BY <1>1, <1>2 DEF AppEvents
<1> QED BY <1>3 DEF e

\* Of the threads only the app's are reported.
LEMMA ReportedOfTheApp ==
    ASSUME OfTheApp, NEW t, NEW name, Reported(t, name), name # App
    PROVE  InApp(t)
BY DEF OfTheApp, Reported

LEMMA OfTheAppFork ==
    ASSUME IInv, IInv', OfTheApp, UNCHANGED <<configVars, engineVars, due>>,
           NEW parent \in Tids, NEW child \in Tids, NEW kind \in {"thread", "process"},
           Fork(parent, child, kind)
    PROVE  OfTheApp'
<1>1. /\ lastTid \in Int /\ lastTid \in Tids /\ Tids \subseteq Int
      /\ lastTid' = lastTid + 1 /\ child = lastTid + 1 /\ lastTid' \in Tids
      /\ tgid \in [Tids -> Tids] /\ comm \in [Tids -> Names]
      /\ cmd \in [Tids -> ProcessNames] /\ appliedMap \subseteq Tids
    BY TidsType DEF IInv, TypeOK, TasksTypeOK, Fork
<1>2. parent <= lastTid
    <2>1. state[parent] # "free"
        BY DEF Fork, Running
    <2>2. parent > lastTid => state[parent] = "free"
        BY DEF IInv, UsedTids
    <2> QED BY <1>1, <2>1, <2>2
<1>3. tgid[parent] \in Tids /\ tgid[parent] <= lastTid /\ (comm[parent] = App => InApp(parent))
    BY <1>1, <1>2 DEF OfTheApp
<1>4. /\ tgid' = [tgid EXCEPT ![child] = IF kind = "thread" THEN tgid[parent] ELSE child]
      /\ comm' = [comm EXCEPT ![child] = comm[parent]]
      /\ cmd' = [cmd EXCEPT ![child] = cmd[tgid[parent]]]
    BY DEF Fork
<1>5. ASSUME NEW t \in Tids, t <= lastTid
      PROVE  tgid'[t] = tgid[t] /\ comm'[t] = comm[t] /\ InApp(t)' = InApp(t)
             /\ tgid[t] <= lastTid
    <2>1. tgid[t] \in Tids /\ tgid[t] <= lastTid
        BY <1>1, <1>5 DEF OfTheApp
    <2>2. tgid[t] # child /\ t # child
        BY <1>1, <1>5, <2>1
    <2>3. tgid'[t] = tgid[t] /\ comm'[t] = comm[t] /\ cmd'[tgid[t]] = cmd[tgid[t]]
        BY <1>1, <1>4, <2>1, <2>2
    <2> QED BY <2>1, <2>3 DEF InApp
<1>6. /\ InApp(child)' = InApp(parent) /\ tgid'[child] <= lastTid'
      /\ comm'[child] = comm[parent]
    <2>1. tgid'[child] = IF kind = "thread" THEN tgid[parent] ELSE child
        BY <1>1, <1>4
    <2>2. cmd'[child] = cmd[tgid[parent]] /\ comm'[child] = comm[parent]
        BY <1>1, <1>4
    <2>3. tgid[parent] # child => cmd'[tgid[parent]] = cmd[tgid[parent]]
        BY <1>1, <1>3, <1>4
    <2>4. tgid[parent] # child
        BY <1>1, <1>3
    <2>5. tgid'[child] <= lastTid'
        <3> DEFINE n == tgid[parent]
        <3>1. n \in Int /\ n <= lastTid
            BY <1>1, <1>3
        <3> HIDE DEF n
        <3>2. n <= lastTid' /\ child <= lastTid'
            BY <1>1, <3>1
        <3> QED BY <2>1, <3>2 DEF n
    <2>6. cmd'[tgid'[child]] = cmd[tgid[parent]]
        BY <2>1, <2>2, <2>3, <2>4
    <2> QED BY <2>2, <2>5, <2>6 DEF InApp
<1>7. lastTid <= lastTid' /\ child <= lastTid'
    BY <1>1
<1>8. ASSUME NEW t \in Tids, t <= lastTid'
      PROVE  t = child \/ t <= lastTid
    BY <1>1, <1>8
<1>9. ASSUME NEW t \in Tids, t <= lastTid'
      PROVE  tgid'[t] <= lastTid' /\ (comm'[t] = App => InApp(t)')
    <2>1. CASE t = child
        BY <1>3, <1>6, <2>1
    <2>2. CASE t <= lastTid
        <3>1. tgid'[t] <= lastTid /\ tgid'[t] \in Tids
            BY <1>1, <1>5, <2>2
        <3>2. tgid'[t] <= lastTid'
            <4> DEFINE n == tgid'[t]
            <4>1. n \in Int /\ n <= lastTid
                BY <1>1, <3>1
            <4> HIDE DEF n
            <4>2. n <= lastTid'
                BY <1>1, <4>1
            <4> QED BY <4>2 DEF n
        <3>3. comm[t] = App => InApp(t)
            BY <2>2 DEF OfTheApp
        <3> QED BY <1>5, <2>2, <3>2, <3>3
    <2> QED BY <1>8, <1>9, <2>1, <2>2
<1>10. \A t \in appliedMap' \ appliedMap : t <= lastTid' /\ InApp(t)'
    <2>1. appliedMap' = IF parent \in appliedMap
                        THEN appliedMap \cup {child} ELSE appliedMap
        BY DEF Fork, ReportFork
    <2>2. parent \in appliedMap => InApp(parent)
        BY DEF OfTheApp
    <2> QED BY <1>6, <1>7, <2>1, <2>2
<1>11. events' \in Seq(AppEvents')
    <2>1. AppEvents \subseteq AppEvents'
        BY <1>1, <1>5, <1>7, AppEventsGrow
    <2>2. events \in Seq(AppEvents')
        BY <2>1, SeqMonotonic DEF OfTheApp
    <2> DEFINE e == [type |-> "FORK", pid |-> tgid[parent], tid |-> child,
                     comm |-> comm[parent]]
    <2>3. CASE Reported(parent, comm[parent])
        <3>1. InApp(parent)
            BY <1>3, <2>3, ReportedOfTheApp
        <3>2. InApp(child)'
            BY <1>6, <3>1
        <3>3. e \in UsedEvents' /\ e.tid = child
            BY <1>1, <1>3, <1>7 DEF UsedEvents, Events, EventTypes
        <3>4. e \in AppEvents'
            <4> HIDE DEF e
            <4> QED BY <3>2, <3>3 DEF AppEvents, InApp
        <3>5. <<e>> \in Seq(AppEvents')
            BY <3>4, SeqOfOne
        <3> QED BY <2>2, <2>3, <3>5, SubmitType DEF Fork, ReportFork
    <2>4. CASE ~Reported(parent, comm[parent])
        BY <2>2, <2>4 DEF Fork, ReportFork
    <2> QED BY <2>3, <2>4
<1>12. UNCHANGED whitelist
    BY DEF Fork
<1> QED BY <1>5, <1>7, <1>9, <1>10, <1>11, <1>12, OfTheAppDevice

\* A step that hands out no tid, and changes names and command lines at most.
LEMMA OfTheAppNamed ==
    ASSUME IInv, IInv', OfTheApp, UNCHANGED <<configVars, engineVars, whitelist>>,
           UNCHANGED <<tgid, lastTid>>, appliedMap' \subseteq appliedMap,
           \A t \in Tids : t <= lastTid =>
               /\ InApp(t) => InApp(t)'
               /\ comm'[t] = App => comm[t] = App \/ InApp(t)',
           NEW q \in Seq(AppEvents'), Submit(q) \/ UNCHANGED events
    PROVE  OfTheApp'
<1>1. lastTid \in Tids /\ lastTid' \in Tids /\ lastTid <= lastTid'
    BY TidsType DEF IInv, TypeOK, TasksTypeOK
<1>2. AppEvents \subseteq AppEvents'
    BY <1>1, AppEventsGrow
<1>3. events \in Seq(AppEvents')
    BY <1>2, SeqMonotonic DEF OfTheApp
<1>4. events' \in Seq(AppEvents')
    BY <1>3, SubmitType
<1>5. \A t \in Tids : t <= lastTid' =>
          tgid'[t] <= lastTid' /\ (comm'[t] = App => InApp(t)')
    BY DEF OfTheApp
<1> QED BY <1>1, <1>4, <1>5, OfTheAppDevice

LEMMA OfTheAppBecomes ==
    ASSUME IInv, IInv', OfTheApp, UNCHANGED <<configVars, engineVars, due>>,
           NEW t \in Tids, BecomeApp(t)
    PROVE  OfTheApp'
<1>1. /\ cmd' = [cmd EXCEPT ![t] = App] /\ comm' = [comm EXCEPT ![t] = App]
      /\ tgid[t] = t /\ UNCHANGED <<tgid, lastTid, appliedMap, whitelist>>
      /\ state[t] # "free"
    BY DEF BecomeApp, Running
<1>2. /\ cmd \in [Tids -> ProcessNames] /\ comm \in [Tids -> Names]
      /\ tgid \in [Tids -> Tids]
    BY DEF IInv, TypeOK, TasksTypeOK
<1>3. InApp(t)'
    BY <1>1, <1>2 DEF InApp
<1>4. \A u \in Tids : /\ InApp(u) => InApp(u)'
                      /\ comm'[u] = App => comm[u] = App \/ InApp(u)'
    BY <1>1, <1>2, <1>3 DEF InApp
<1> DEFINE e == [type |-> "RENAME", pid |-> tgid[t], tid |-> t, comm |-> App]
<1>5. e \in UsedEvents
    <2>1. App \in Names
        BY DEF Names, ProcessNames
    <2> QED BY <1>1, <2>1, RenameEventType DEF EventTypes
<1>6. e \in AppEvents'
    <2>1. e \in UsedEvents' /\ e.tid = t
        BY <1>1, <1>5 DEF UsedEvents
    <2> HIDE DEF e
    <2> QED BY <1>3, <2>1 DEF AppEvents, InApp
<1>7. <<e>> \in Seq(AppEvents')
    BY <1>6, SeqOfOne
<1>8. Submit(<<e>>) \/ UNCHANGED events
    BY DEF BecomeApp, ReportRename
<1> HIDE DEF e
<1> QED BY <1>1, <1>4, <1>7, <1>8, OfTheAppNamed

LEMMA OfTheAppRenames ==
    ASSUME NoImpostors, IInv, IInv', OfTheApp,
           UNCHANGED <<configVars, engineVars, due>>,
           NEW by \in Tids, NEW t \in Tids, NEW name \in Names, Rename(by, t, name)
    PROVE  OfTheApp'
<1>1. /\ comm' = [comm EXCEPT ![t] = name]
      /\ UNCHANGED <<cmd, tgid, lastTid, appliedMap, whitelist>>
      /\ state[by] # "free" /\ <<comm[t], name>> \in Renames
    BY DEF Rename, Running
<1>2. name # App
    BY <1>1 DEF NoImpostors
<1>3. comm \in [Tids -> Names]
    BY DEF IInv, TypeOK, TasksTypeOK
<1>4. \A u \in Tids : /\ InApp(u) => InApp(u)'
                      /\ comm'[u] = App => comm[u] = App \/ InApp(u)'
    BY <1>1, <1>2, <1>3 DEF InApp
<1> DEFINE e == [type |-> "RENAME", pid |-> tgid[by], tid |-> by, comm |-> name]
<1>5. e \in UsedEvents
    BY <1>1, RenameEventType DEF EventTypes
<1>6. PICK q \in Seq(AppEvents') : Submit(q) \/ UNCHANGED events
    <2>1. CASE Reported(by, name)
        <3>1. InApp(by)
            BY <1>2, <2>1, ReportedOfTheApp
        <3>2. e \in UsedEvents' /\ e.tid = by /\ InApp(by)'
            BY <1>1, <1>5, <3>1 DEF UsedEvents, InApp
        <3>3. e \in AppEvents'
            <4> HIDE DEF e
            <4> QED BY <3>2 DEF AppEvents, InApp
        <3>4. <<e>> \in Seq(AppEvents')
            BY <3>3, SeqOfOne
        <3>5. Submit(<<e>>)
            BY <2>1 DEF Rename, ReportRename
        <3> QED BY <3>4, <3>5
    <2>2. CASE ~Reported(by, name)
        <3>1. UNCHANGED events
            BY <2>2 DEF Rename, ReportRename
        <3>2. <<>> \in Seq(AppEvents')
            BY EmptySeq
        <3> QED BY <3>1, <3>2
    <2> QED BY <2>1, <2>2
<1> QED BY <1>1, <1>4, <1>6, OfTheAppNamed

LEMMA OfTheAppRuns ==
    ASSUME NoImpostors, IInv, IInv', OfTheApp,
           UNCHANGED <<configVars, engineVars, due>>,
           NEW t \in Tids, NEW name \in Names, Exec(t, name)
    PROVE  OfTheApp'
<1>1. /\ comm' = [comm EXCEPT ![t] = name] /\ cmd' = [cmd EXCEPT ![t] = name]
      /\ UNCHANGED <<tgid, lastTid, appliedMap, whitelist>>
      /\ state[t] # "free" /\ <<cmd[t], name>> \in Execs /\ Group(t) = {t}
    BY DEF Exec, Running
<1>2. name = "sh" /\ cmd[t] # App
    BY <1>1, TaskAssumption DEF NoImpostors, TaskAssumption
<1>3. /\ cmd \in [Tids -> ProcessNames] /\ comm \in [Tids -> Names]
      /\ tgid \in [Tids -> Tids]
    BY DEF IInv, TypeOK, TasksTypeOK
<1>4. \A u \in Tids : /\ InApp(u) => InApp(u)'
                      /\ comm'[u] = App => comm[u] = App \/ InApp(u)'
    BY <1>1, <1>2, <1>3 DEF InApp, App
<1>5. ~InApp(t)
    <2>1. tgid[t] = t
        BY <1>1 DEF Group
    <2> QED BY <1>2, <2>1 DEF InApp
<1>6. ~Reported(t, name)
    BY <1>2, <1>5, ReportedOfTheApp DEF App
<1>7. UNCHANGED events
    BY <1>6 DEF Exec, ReportExec
<1>8. <<>> \in Seq(AppEvents')
    BY EmptySeq
<1> QED BY <1>1, <1>4, <1>7, <1>8, OfTheAppNamed

LEMMA OfTheAppOthers ==
    ASSUME IInv, IInv', OfTheApp, UNCHANGED <<configVars, engineVars, due>>,
           NEW t \in Tids, Exit(t) \/ Reap(t) \/ SystemRebinds(t)
    PROVE  OfTheApp'
<1>1. UNCHANGED <<tgid, comm, cmd, lastTid, whitelist>> /\ appliedMap' \subseteq appliedMap
    BY DEF Exit, ReportExit, Reap, SystemRebinds, taskVars
<1>2. \A u \in Tids : /\ InApp(u) => InApp(u)'
                      /\ comm'[u] = App => comm[u] = App \/ InApp(u)'
    BY <1>1 DEF InApp
<1>3. AppEvents' = AppEvents
    BY <1>1 DEF AppEvents, UsedEvents, InApp
<1>4. PICK q \in Seq(AppEvents') : Submit(q) \/ UNCHANGED events
    <2>1. CASE Exit(t) /\ t \in appliedMap
        <3> DEFINE e == [type |-> "EXIT", pid |-> tgid[t], tid |-> t, comm |-> NoName]
        <3>1. InApp(t) /\ t <= lastTid /\ tgid[t] \in Tids
            BY <2>1 DEF OfTheApp, IInv, TypeOK, TasksTypeOK
        <3>2. e \in AppEvents
            BY <3>1, AppEventType DEF EventTypes
        <3>3. <<e>> \in Seq(AppEvents')
            BY <1>3, <3>2, SeqOfOne
        <3>4. Submit(<<e>>)
            BY <2>1 DEF Exit, ReportExit
        <3> QED BY <3>3, <3>4
    <2>2. CASE ~(Exit(t) /\ t \in appliedMap)
        <3>1. UNCHANGED events
            BY <2>2 DEF Exit, ReportExit, Reap, SystemRebinds
        <3>2. <<>> \in Seq(AppEvents')
            BY EmptySeq
        <3> QED BY <3>1, <3>2
    <2> QED BY <2>1, <2>2
<1> QED BY <1>1, <1>2, <1>4, OfTheAppNamed

\* What a step of the engine leaves to show.
LEMMA OfTheAppEngine ==
    ASSUME OfTheApp, UNCHANGED taskVars, whitelist' \subseteq {App},
           Cached' \cup appliedMap' \cup todo'
               \subseteq Cached \cup appliedMap \cup todo
                         \cup {t \in Tids : t <= lastTid /\ InApp(t)},
           events' = events \/ (events # <<>> /\ events' = Tail(events)),
           cur' # NoEvent => InApp(cur'.tid)
    PROVE  OfTheApp'
<1>1. UNCHANGED <<tgid, comm, cmd, lastTid>>
    BY DEF taskVars
<1>2. AppEvents' = AppEvents /\ \A t : InApp(t)' = InApp(t)
    BY <1>1 DEF AppEvents, UsedEvents, InApp
<1>3. events' \in Seq(AppEvents)
    BY HeadTailProperties DEF OfTheApp
<1>4. \A t \in Cached' \cup appliedMap' \cup todo' : t <= lastTid /\ InApp(t)
    BY DEF OfTheApp
<1>5. cur' # NoEvent => InApp(cur.tid)'
    BY <1>1 DEF InApp
<1>6. \A t \in Tids : t <= lastTid' =>
          tgid'[t] <= lastTid' /\ (comm'[t] = App => InApp(t)')
    BY <1>1, <1>2 DEF OfTheApp
<1>7. \A t \in Cached' \cup appliedMap' \cup todo' : t <= lastTid' /\ InApp(t)'
    BY <1>1, <1>2, <1>4
<1> QED BY <1>2, <1>3, <1>5, <1>6, <1>7 DEF OfTheApp

LEMMA OfTheAppNext ==
    NoImpostors /\ IInv /\ OfTheApp /\ [Next]_vars => OfTheApp'
<1> SUFFICES ASSUME NoImpostors, IInv, OfTheApp, [Next]_vars PROVE OfTheApp'
    OBVIOUS
<1>0. IInv'
    BY InvNext
<1>1. CASE Device
    <2>1. UNCHANGED <<configVars, engineVars, due>>
        BY <1>1 DEF Device
    <2>2. CASE \E parent, child \in Tids, kind \in {"thread", "process"} :
                   Fork(parent, child, kind)
        BY <1>0, <2>1, <2>2, OfTheAppFork
    <2>3. CASE \E t \in Tids :
                   \/ BecomeApp(t) \/ Exit(t) \/ Reap(t) \/ SystemRebinds(t)
                   \/ \E name \in Names :
                          Exec(t, name) \/ \E by \in Tids : Rename(by, t, name)
        BY <1>0, <2>1, <2>3, OfTheAppBecomes, OfTheAppOthers, OfTheAppRuns,
           OfTheAppRenames
    <2> QED BY <1>1, <2>2, <2>3 DEF Device, TasksChange
<1>2. CASE \/ UNCHANGED vars \/ StoreConfig \/ RaiseFlag \/ TimePasses
           \/ StartRound \/ WalkSkips \/ WalkEnds \/ ScanLeaves \/ Drained
           \/ CheckNotDue
    <2>1. UNCHANGED <<taskVars, whitelist, appliedMap, events, cache, todo, cur>>
        BY <1>2 DEF vars, kernelVars, engineVars, scanVars, StoreConfig, RaiseFlag,
           TimePasses, StartRound, WalkSkips, WalkEnds, ScanLeaves, Drained,
           CheckNotDue
    <2>2. whitelist' \subseteq {App} /\ (cur' # NoEvent => InApp(cur'.tid))
        BY <2>1 DEF OfTheApp
    <2> QED BY <2>1, <2>2, OfTheAppEngine DEF Cached
<1>3. CASE RemoveKeys \/ InsertKeys
    <2>1. UNCHANGED <<taskVars, appliedMap, events, cache, todo, cur>>
        BY <1>3 DEF RemoveKeys, InsertKeys, scanVars
    <2>2. whitelist' \subseteq {App} /\ (cur' # NoEvent => InApp(cur'.tid))
        BY <1>3, <2>1 DEF RemoveKeys, InsertKeys, CommKeys, OfTheApp
    <2> QED BY <2>1, <2>2, OfTheAppEngine DEF Cached
<1>4. CASE ScanClears \/ Check \/ Forget \/ KeepRule \/ BindGone \/ Bind
    <2>1. UNCHANGED <<taskVars, whitelist, events, todo>> /\ appliedMap' \subseteq appliedMap
        BY <1>4 DEF ScanClears, Check, Forget, KeepRule, BindGone, Bind, scanVars,
                    kernelVars
    <2>2. Cached' \subseteq Cached
        BY <1>4, WithoutValues
           DEF ScanClears, Check, Forget, KeepRule, BindGone, Bind, Cached
    <2>3. cur' = cur \/ cur' = NoEvent
        BY <1>4 DEF ScanClears, Check, Forget, KeepRule, BindGone, Bind, Done
    <2>4. whitelist' \subseteq {App} /\ (cur' # NoEvent => InApp(cur'.tid))
        BY <2>1, <2>3 DEF OfTheApp
    <2> QED BY <2>1, <2>2, <2>4, OfTheAppEngine
<1>5. CASE WalkEnters
    <2>1. /\ UNCHANGED <<kernelVars, cache, cur>> /\ todo' = Group(cursor)
          /\ cmd[cursor] = App
        BY <1>5 DEF WalkEnters, Matches
    <2>2. \A t \in Group(cursor) : t \in Tids /\ t <= lastTid /\ InApp(t)
        <3>1. lastTid \in Int /\ Tids \subseteq Int
            BY TidsType DEF IInv, TypeOK, TasksTypeOK
        <3>2. \A t \in Tids : t > lastTid => state[t] = "free"
            BY DEF IInv, UsedTids
        <3> QED BY <2>1, <3>1, <3>2 DEF Group, InApp
    <2>3. UNCHANGED <<taskVars, whitelist, appliedMap, events>>
        BY <2>1 DEF kernelVars
    <2>4. whitelist' \subseteq {App} /\ (cur' # NoEvent => InApp(cur'.tid))
        BY <2>1, <2>3 DEF OfTheApp
    <2> QED BY <2>1, <2>2, <2>3, <2>4, OfTheAppEngine DEF Cached
<1>6. CASE ScanReadsName
    <2>1. UNCHANGED <<taskVars, whitelist, appliedMap, events, cache>>
        BY <1>6 DEF ScanReadsName, kernelVars
    <2>2. todo' \subseteq todo /\ cur'.tid \in todo
        BY <1>6 DEF ScanReadsName
    <2>3. whitelist' \subseteq {App} /\ InApp(cur'.tid)
        BY <2>1, <2>2 DEF OfTheApp
    <2> QED BY <2>1, <2>2, <2>3, OfTheAppEngine DEF Cached
<1>7. CASE DispatchForget \/ DispatchIgnore \/ DispatchApply
    <2>1. /\ events # <<>> /\ events' = Tail(events)
          /\ UNCHANGED <<taskVars, whitelist, todo>> /\ appliedMap' \subseteq appliedMap
        BY <1>7 DEF DispatchForget, DispatchIgnore, DispatchApply, scanVars, engineVars
    <2>2. Cached' \subseteq Cached
        BY <1>7, WithoutValues
           DEF DispatchForget, DispatchIgnore, DispatchApply, engineVars, Cached
    <2>3. InApp(Head(events).tid)
        <3>1. Head(events) \in AppEvents
            BY <2>1, HeadTailProperties DEF OfTheApp
        <3> QED BY <3>1 DEF AppEvents
    <2>4. cur' = cur \/ cur' = Head(events)
        BY <1>7 DEF DispatchForget, DispatchIgnore, DispatchApply, engineVars
    <2>5. whitelist' \subseteq {App} /\ (cur' # NoEvent => InApp(cur'.tid))
        BY <2>1, <2>3, <2>4 DEF OfTheApp
    <2> QED BY <2>1, <2>2, <2>5, OfTheAppEngine
<1>8. CASE Record
    <2>1. UNCHANGED <<taskVars, whitelist, events, todo>>
        BY <1>8 DEF Record, scanVars
    <2>2. pc = "record" /\ cur # NoEvent /\ cur.tid \in Tids /\ cur.tid <= lastTid
        BY <1>8, TidsType DEF Record, IInv, TypeOK, EngineTypeOK, UsedTids, Events,
                              Scanned, NoEvent
    <2>3. InApp(cur.tid)
        BY <2>2 DEF OfTheApp
    <2>4. Cached' = Cached \cup {cur.tid} /\ appliedMap' = appliedMap \cup {cur.tid}
        BY <1>8 DEF Record, Cached
    <2>5. whitelist' \subseteq {App} /\ cur' = NoEvent
        BY <1>8, <2>1 DEF Record, Done, OfTheApp
    <2> QED BY <2>1, <2>2, <2>3, <2>4, <2>5, OfTheAppEngine
<1> QED BY <1>1, <1>2, <1>3, <1>4, <1>5, <1>6, <1>7, <1>8 DEF Next, Engine

(* Only the listed package's threads are ever followed, as long as nobody    *)
(* else takes its name: with every trouble and whatever strangers fork, run  *)
(* or call their threads, neither an event nor the kernel's map nor a scan   *)
(* that meets changing processes brings another process into the cache.      *)
THEOREM StrangersAlwaysLeftAlone ==
    ASSUME NoImpostors PROVE Spec => []StrangersLeftAlone
<1>1. OfTheApp => StrangersLeftAlone
    BY DEF OfTheApp, StrangersLeftAlone
<1>2. Init => IInv /\ OfTheApp
    BY InvInit, OfTheAppInit
<1>3. IInv /\ OfTheApp /\ [Next]_vars => (IInv /\ OfTheApp)'
    BY InvNext, OfTheAppNext
<1> QED BY <1>1, <1>2, <1>3, PTL DEF Spec
=============================================================================
