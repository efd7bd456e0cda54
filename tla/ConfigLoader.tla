---------------------------- MODULE ConfigLoader ----------------------------
(***************************************************************************)
(* The ConfigLoader thread (config_loader in config.rs): it waits for      *)
(* inotify events on the watched file, or polls its mtime when inotify is  *)
(* not usable, reloads the file CURRENT_CONFIG came from, and hands the    *)
(* result to the main loop through CURRENT_CONFIG and CONFIG_UPDATED.      *)
(*                                                                         *)
(* Every access to something another thread or the user can change is a    *)
(* step.  Two neighbouring accesses share a step where the first is a read *)
(* that could as well have happened next to the second.                    *)
(***************************************************************************)
EXTENDS ConfigFiles

CONSTANTS
    InotifyStart,  \* whether init_inotify may succeed / fail
    Faults         \* "panic": println! in the loader panics;
                   \* "poll panic": only while it polls;
                   \* "inotify": poll or read on the descriptor fails

ASSUME LoaderAssumption ==
    /\ InotifyStart \subseteq BOOLEAN
    /\ Faults \subseteq {"panic", "poll panic", "inotify"}

VARIABLES
    currentConfig,    \* CURRENT_CONFIG
    configUpdated,    \* CONFIG_UPDATED
    inotifySupported, \* INOTIFY_SUPPORTED
    lpc,              \* where the loader thread is
    lastMtime,        \* its local last_mtime
    lstat,            \* the mtime load_config has read
    lcfg              \* the configuration being loaded

handoffVars == <<currentConfig, configUpdated>>
loaderVars  == <<inotifySupported, lpc, lastMtime, lstat, lcfg>>

LoaderPcs == {"unborn", "idle", "rewatch", "reload", "read", "store", "flag", "dead"}

LoaderTypeOK ==
    /\ currentConfig \in Configs
    /\ configUpdated \in BOOLEAN
    /\ inotifySupported \in BOOLEAN
    /\ lpc \in LoaderPcs
    /\ lastMtime \in Nat \cup {Never}
    /\ lstat \in Nat \cup {Never}
    /\ lcfg \in Configs \cup {NoConfig}
    /\ lpc = "read" => lstat # Never
    /\ lpc \in {"read", "store", "flag"} => lcfg # NoConfig

\* Mutation: INOTIFY_SUPPORTED stays up when the descriptor is closed.
DisableInotifyStillOn ==
    /\ watch' = NoFile
    /\ pending' = {}
    /\ UNCHANGED inotifySupported

\* disable_inotify: the descriptor is closed, unread events are gone.
DisableInotify ==
    /\ inotifySupported' = FALSE
    /\ watch' = NoFile
    /\ pending' = {}

\* Leaving config_reload: its locals go out of scope.
BackToIdle == lpc' = "idle" /\ lcfg' = NoConfig /\ lstat' = Never

------------------------------------------------------------------------------
(* inotify_handle *)

\* Mutation: the events do not reset last_mtime.
DrainEventsKeepMtime ==
    /\ lpc = "idle" /\ inotifySupported
    /\ pending # {}
    /\ lpc' = IF "delete_self" \in pending THEN "rewatch" ELSE "reload"
    /\ pending' = {}
    /\ UNCHANGED <<disk, edits, clock, watch, handoffVars,
                   inotifySupported, lastMtime, lstat, lcfg>>

\* Mutation: a vanished inode is taken for a write, nothing is rewatched.
DrainEventsNoRewatch ==
    /\ lpc = "idle" /\ inotifySupported
    /\ pending # {}
    /\ lpc' = "reload"
    /\ pending' = {}
    /\ lastMtime' = Never
    /\ UNCHANGED <<disk, edits, clock, watch, handoffVars,
                   inotifySupported, lstat, lcfg>>

\* poll reports events; all of them are read, each resets last_mtime.
DrainEvents ==
    /\ lpc = "idle" /\ inotifySupported
    /\ pending # {}
    /\ lpc' = IF "delete_self" \in pending THEN "rewatch" ELSE "reload"
    /\ pending' = {}
    /\ lastMtime' = Never
    /\ UNCHANGED <<disk, edits, clock, watch, handoffVars,
                   inotifySupported, lstat, lcfg>>

\* Mutation: the loader waits for the next event after renewing the watch.
RewatchNoReload ==
    /\ lpc = "rewatch"
    /\ Present(currentConfig.file)
    /\ watch' = currentConfig.file
    /\ lpc' = "idle"
    /\ UNCHANGED <<disk, edits, clock, pending, handoffVars,
                   inotifySupported, lastMtime, lstat, lcfg>>

\* inotify_rewatch: after the sleep the watch is put on the file
\* CURRENT_CONFIG names at that moment.
Rewatch ==
    /\ lpc = "rewatch"
    /\ Present(currentConfig.file)
    /\ watch' = currentConfig.file
    /\ lpc' = "reload"
    /\ UNCHANGED <<disk, edits, clock, pending, handoffVars,
                   inotifySupported, lastMtime, lstat, lcfg>>

\* ... and if there is no such file, polling takes over for good.
RewatchFails ==
    /\ lpc = "rewatch"
    /\ ~Present(currentConfig.file)
    /\ DisableInotify
    /\ lpc' = "idle"
    /\ UNCHANGED <<disk, edits, clock, handoffVars, lastMtime, lstat, lcfg>>

\* poll or read returns an error other than EINTR/EAGAIN.
InotifyFails ==
    /\ "inotify" \in Faults
    /\ lpc = "idle" /\ inotifySupported
    /\ DisableInotify
    /\ UNCHANGED <<disk, edits, clock, handoffVars, lpc, lastMtime, lstat, lcfg>>

------------------------------------------------------------------------------
(* config_reload and load_config *)

\* Called after events, and once per interval when polling.
AtReload == lpc = "reload" \/ (lpc = "idle" /\ ~inotifySupported)

NothingNew(f) == ~Present(f) \/ Unchanged(lastMtime, disk[f].mtime)

\* The file is missing or its mtime is the recorded one.
ReloadSkipped ==
    /\ lpc = "reload"
    /\ NothingNew(currentConfig.file)
    /\ BackToIdle
    /\ UNCHANGED <<filesVars, handoffVars, inotifySupported, lastMtime>>

\* CURRENT_CONFIG names the file; its mtime is read and found different.
ReloadBegins ==
    /\ AtReload
    /\ ~NothingNew(currentConfig.file)
    /\ lcfg' = currentConfig
    /\ lstat' = disk[currentConfig.file].mtime
    /\ lpc' = "read"
    /\ UNCHANGED <<filesVars, handoffVars, inotifySupported, lastMtime>>

\* read_to_string succeeds; the mtime read before is the one recorded.
ReloadReads ==
    /\ lpc = "read"
    /\ Readable(lcfg.file)
    /\ lcfg' = ConfigOn(lcfg.file)
    /\ lastMtime' = RecordedMtime(lastMtime, lstat, disk[lcfg.file].ver)
    /\ lpc' = "store"
    /\ UNCHANGED <<filesVars, handoffVars, inotifySupported, lstat>>

ReloadUnreadable ==
    /\ lpc = "read"
    /\ ~Readable(lcfg.file)
    /\ BackToIdle
    /\ UNCHANGED <<filesVars, handoffVars, inotifySupported, lastMtime>>

\* println! in load_config panics (stdout is gone): the thread ends and its
\* locals with it.
ReloadPanics ==
    /\ \/ "panic" \in Faults
       \/ "poll panic" \in Faults /\ ~inotifySupported
    /\ lpc = "read"
    /\ Readable(lcfg.file)
    /\ lpc' = "dead" /\ lcfg' = NoConfig /\ lstat' = Never
    /\ lastMtime' = Never
    /\ UNCHANGED <<filesVars, handoffVars, inotifySupported>>

\* The order that loses no update: first the configuration ...
ReloadStores ==
    /\ lpc = "store"
    /\ currentConfig' = lcfg
    /\ lpc' = "flag"
    /\ UNCHANGED <<filesVars, configUpdated, inotifySupported,
                   lastMtime, lstat, lcfg>>

\* ... then the flag.
ReloadFlags ==
    /\ lpc = "flag"
    /\ configUpdated' = TRUE
    /\ BackToIdle
    /\ UNCHANGED <<filesVars, currentConfig, inotifySupported, lastMtime>>

LoaderStep ==
    \/ DrainEvents  \/ Rewatch \/ RewatchFails
    \/ ReloadSkipped \/ ReloadBegins \/ ReloadReads \/ ReloadUnreadable
    \/ ReloadStores \/ ReloadFlags

LoaderFault == InotifyFails \/ ReloadPanics

\* main has loaded applist.conf and raised the flag; the watch and the thread
\* come later.
LoaderInit ==
    /\ currentConfig = ConfigOn(AppList)
    /\ configUpdated = TRUE
    /\ inotifySupported = FALSE
    /\ watch = NoFile
    /\ lpc = "unborn"
    /\ lastMtime = Never
    /\ lstat = Never
    /\ lcfg = NoConfig
=============================================================================
