----------------------------- MODULE ConfigFiles -----------------------------
(***************************************************************************)
(* The two rule files ThreadOpt reads, applist.conf (power mode) and       *)
(* game.conf (game mode), the user who saves them, and the one inotify     *)
(* watch the daemon holds.  File contents are versions: every save gets a  *)
(* fresh number, and the constants below say what each version is like.    *)
(* The files, the user and the kernel's inotify are outside src/; they are *)
(* modelled from how config.rs uses them.                                  *)
(***************************************************************************)
EXTENDS Integers, FiniteSets

CONSTANTS
    MaxEdits,      \* bound: how many saves the user makes
    SameSecond,    \* TRUE if two saves may fall into one second of mtime
    SaveKinds,     \* how the user's tools save: "write", "rename", "remove"
    EditedFiles,   \* the files the user saves
    Flawed,        \* versions with at least one line the parser skips
    Corrupt,       \* versions read_to_string refuses (not UTF-8)
    GameConfAtStart \* whether game.conf may exist / be absent at start-up

AppList  == "applist.conf"
GameConf == "game.conf"
Files    == {AppList, GameConf}
NoFile   == "no file"
Kinds    == {"write", "rename", "remove"}

ASSUME FilesAssumption ==
    /\ MaxEdits \in Nat
    /\ SameSecond \in BOOLEAN
    /\ SaveKinds \subseteq Kinds
    /\ EditedFiles \subseteq Files
    /\ Flawed \subseteq Nat
    /\ Corrupt \subseteq Nat \ {0}
    /\ GameConfAtStart \subseteq BOOLEAN

VARIABLES
    disk,     \* what each path holds: a version and its mtime in seconds
    edits,    \* number of saves so far, and the version of the last one
    clock,    \* the second of the last save
    watch,    \* the file whose present inode carries the watch, or NoFile
    pending   \* kinds of inotify events not read yet

filesVars == <<disk, edits, clock, watch, pending>>

Never  == -1                         \* the initial last_mtime: "not loaded yet"
Absent == [ver |-> -1, mtime |-> -1]

Present(f)  == disk[f] # Absent
Readable(f) == Present(f) /\ disk[f].ver \notin Corrupt

\* A parsed AppConfig: the file it came from and the version it holds.
Configs  == [file : Files, ver : Nat]
NoConfig == [file |-> NoFile, ver |-> -1]
ConfigOn(f) == [file |-> f, ver |-> disk[f].ver]

FilesTypeOK ==
    /\ disk \in [Files -> [ver : Nat, mtime : Nat] \cup {Absent}]
    /\ edits \in Nat
    /\ clock \in Nat
    /\ watch \in Files \cup {NoFile}
    /\ pending \subseteq {"close_write", "delete_self"}

(***************************************************************************)
(* load_config's two decisions about mtime.  A file is skipped when its    *)
(* mtime is the recorded one; the mtime is recorded only when no line was  *)
(* skipped.                                                                *)
(***************************************************************************)
Unchanged(recorded, mtime) == recorded = mtime /\ recorded # Never

\* Mutation: the mtime is never recorded.
RecordedMtimeForgotten(recorded, mtime, ver) == recorded

RecordedMtime(recorded, mtime, ver) == IF ver \in Flawed THEN recorded ELSE mtime

------------------------------------------------------------------------------
(* The user. *)

SaveTime == IF SameSecond THEN {clock, clock + 1} ELSE {clock + 1}

Edit(f, kind) ==
    /\ kind \in SaveKinds
    /\ f \in EditedFiles
    /\ edits < MaxEdits
    /\ edits' = edits + 1

NewContent(f, now) ==
    /\ clock' = now
    /\ disk' = [disk EXCEPT ![f] = [ver |-> edits + 1, mtime |-> now]]

\* The watched inode goes away: the watch dies with it and says so.
InodeGone(f) ==
    IF watch = f
    THEN watch' = NoFile /\ pending' = pending \cup {"delete_self"}
    ELSE UNCHANGED <<watch, pending>>

\* An editor writes the file in place and closes it.  One step: what a reader
\* makes of a file that is half written is the matter of RuleFile.
SaveInPlace(f, now) ==
    /\ Edit(f, "write")
    /\ Present(f)
    /\ NewContent(f, now)
    /\ pending' = IF watch = f THEN pending \cup {"close_write"} ELSE pending
    /\ UNCHANGED watch

\* An editor writes a temporary file and renames it over the path (or the
\* path did not exist and is created).
SaveByRename(f, now) ==
    /\ Edit(f, "rename")
    /\ NewContent(f, now)
    /\ InodeGone(f)

\* The file is deleted or moved away.
RemoveFile(f) ==
    /\ Edit(f, "remove")
    /\ Present(f)
    /\ disk' = [disk EXCEPT ![f] = Absent]
    /\ InodeGone(f)
    /\ UNCHANGED clock

UserSaves ==
    \E f \in Files :
        \/ \E now \in SaveTime : SaveInPlace(f, now) \/ SaveByRename(f, now)
        \/ RemoveFile(f)

FilesInit ==
    /\ \E atStart \in GameConfAtStart :
           disk = [f \in Files |-> IF f = AppList \/ atStart
                                   THEN [ver |-> 0, mtime |-> 0] ELSE Absent]
    /\ edits = 0
    /\ clock = 0
    /\ pending = {}
=============================================================================
