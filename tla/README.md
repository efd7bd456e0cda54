# ThreadOpt: specifications

ThreadOpt is a root daemon for Android that binds the threads of selected apps
to CPU cores.  These TLA+ modules specify it: the threads and engines, where the
order of events matters, and the functions from a rule file to a thread's CPUs.
Paths below are relative to `src/`.

## 1. Inventory

| Component | State it keeps | Operations |
|---|---|---|
| **Configuration hot reload** (`ThreadOpt/src/config.rs`) | `CURRENT_CONFIG`, `CONFIG_UPDATED`, `INOTIFY_SUPPORTED/FD/WD`; the thread's `last_mtime` | `init_inotify`, `inotify_handle`, `inotify_rewatch`, `disable_inotify`, `config_reload`, `load_config` |
| **Mode switching** (`main.rs`, `mode.rs`, `foreground.rs`) | `CURRENT_MODE`, `MODE_CHANGED`, `GAME_PKGS`; the thread's `last_mode` | `spawn_mode_detector`, `parse_override`, `decide_mode`, `game_foreground` |
| **Main loop** (`main.rs`) | `EFFECTIVE_MODE`, `game_mtime`, the snapshot `cfg`, `config_changed`, the thread handles | take the configuration, switch mode, repair, poll `game.conf`, restart threads, run the engine |
| **Configuration parser** (`config.rs`) | none | `load_config`'s line loop, `add_rule` |
| **eBPF engine, kernel side** (`ThreadOpt-ebpf/src/main.rs`) | `TARGET_COMM_MAP`, `APPLIED_MAP`, `EVENTS` | the four tracepoints |
| **eBPF engine, user side** (`ebpf_mode.rs`, `cache.rs`) | `ProcCache.tasks`, the event channel | `comm_map_init`, `full_scan`, `event_dispatch`, `affinity_check` |
| **/proc engine** (`proc_mode.rs`, `apply_affinity.rs`) | `ProcScanState` | `proc_scan`, `cache_sync`, `affinity_sync` |
| **Engine selection** (`main.rs`) | `ebpf_state`, `proc_state`, `last_ebpf_retry` | start, reload, fall back, retry |
| **Rule matching** (`rule_match.rs`) | none | `thread_affinity`, `fnmatch_c`, `comm_to_pkg` |
| **CPU sets, topology** (`cpuset.rs`) | none after start | `parse_cpu_ranges`, `parse_cpu_spec`, `to_range_string`, `detect_core_types` |
| Command line, apply log, packaging | - | option parsing, log rolling, shell scripts |

**How they interact.**  Three threads share five cells: the loader and the main
loop write `CURRENT_CONFIG` and raise `CONFIG_UPDATED`; the detector writes
`CURRENT_MODE` and raises `MODE_CHANGED`; the main loop alone writes
`EFFECTIVE_MODE` and `GAME_PKGS` (the detector reads the latter).  Each mutex is
held for one assignment or copy, no two are held together, so there is no lock
order to get wrong; what can go wrong is the order of the accesses.  The engine
reads the main loop's snapshot.  The eBPF programs run on whichever CPU an event
happens, and talk to the main loop through two maps, a ring buffer and a reader
thread.

**What is hard.**  Everything in PROJECT.json under `hazards`, in short: a
configuration or mode change lost between two accesses; a stale configuration
stored late; the window between a lost inotify watch and its renewal; mtime in
whole seconds; a thread that panics in mid-work and is restarted from nothing;
the fall-back from inotify to polling; threads that start, take names, run other
programs and exit between the event that tells of them and its handling, or while
/proc is being scanned; events lost in a full ring buffer; a binding computed for
rules that have been replaced; an engine that is lost, reloaded or brought back
while the configuration changes; processes that a scan by thresholds never sees; a
rule file cut short or with mistakes in it; names and CPU sets at the limits of the
words they are kept in.

**What makes each component correct.**
Hot reload: what the user saves is what the engine ends up with, and an
unchanged file is left alone.  Mode switching: the effective mode follows the
game and the lock, and the rules belong to the mode.  Hand-offs: the last
configuration stored is used.  Engines: every thread of a listed package ends up
on the CPUs its rules say, threads of other packages are left alone, and the
tracking tables do not grow with dead threads.  Rule matching, CPU sets, parser:
they compute what the documented grammar says.

## 2. Modules

| Module | Models | Role |
|---|---|---|
| `ConfigFiles` | the two rule files, the user saving them, the inotify watch (outside `src/`); `load_config`'s mtime decisions | environment of the loader |
| `ConfigLoader` | `config.rs`: the ConfigLoader thread | EXTENDS `ConfigFiles` |
| `ModeDetector` | `main.rs:80-109`, `mode.rs`, `foreground.rs`: the ModeDetect thread, and the device it watches | |
| `MainLoop` | `main.rs:201-471`: start-up and the main loop | EXTENDS `ConfigLoader`, `ModeDetector` |
| `ConfigHandoff` | what `CURRENT_CONFIG` with `CONFIG_UPDATED` promises: a box holding the latest configuration | abstract specification |
| `HotReload` | all of it interleaved; properties, inductive invariants, refinement mapping | composition |
| `TaskEvents` | tasks of the device (outside `src/`); `ThreadOpt-ebpf/src/main.rs`: the four tracepoints, whitelist, `APPLIED_MAP`, ring buffer | environment of the engine |
| `EbpfTracking` | `ebpf_mode.rs`, `cache.rs`, `affinity_set` and `proc_walk`, `thread_affinity` for one package; properties | EXTENDS `TaskEvents` |
| `RunningTasks` | tasks that start and exit (outside `src/`); what `proc_walk` finds and `affinity_set` does | environment of both engines |
| `ProcScan` | `proc_mode.rs`: `cache_sync`, `proc_scan`; `affinity_sync` | EXTENDS `RunningTasks` |
| `EngineSwitch` | `main.rs:275-483`: which engine runs; loading, reload, loss and retry of eBPF; properties | EXTENDS `ProcScan` |
| `CpuSpec` | `cpuset.rs`: `parse_cpu_ranges`, `parse_cpu_spec`, `detect_core_types` | operators |
| `CpuSetRange` | `cpuset.rs`: `to_range_string`, step by step; properties | EXTENDS `CpuSpec` |
| `ConfigParser` | `config.rs`: the line loop of `load_config`, `add_rule` | EXTENDS `CpuSpec` |
| `Fnmatch` | `rule_match.rs`: `match_pattern`, `match_class`; the documented meaning of patterns | operators |
| `RuleMatch` | `rule_match.rs`: `thread_affinity` | EXTENDS `ConfigParser`, `Fnmatch` |
| `NameFilter` | `comm_to_pkg`, `comm_keys_build`, the kernel's `whitelist_matched` | operators |
| `RuleFile` | a file with its documented meaning, read and matched; properties | EXTENDS `RuleMatch`, `NameFilter` |
| `MCHotReload`, `MCEbpfTracking`, `MCEngineSwitch`, `MCRuleFile` | constant values for the runs | |
| `HotReload_proofs`, `EbpfTracking_proofs`, `EngineSwitch_proofs`, `CpuSetRange_proofs`, `NameFilter_proofs` | theorems | each EXTENDS its module |
| `EbpfCalm_proofs` | theorems of `EbpfTracking` on a calm device | EXTENDS `EbpfTracking_proofs` |
| `Fnmatch_proofs` | recursion and induction; `match_pattern` against the meaning of patterns | EXTENDS `Fnmatch` |
| `RuleFile_proofs` | theorems of `RuleFile` | EXTENDS `RuleFile`, `NameFilter_proofs`, `Fnmatch_proofs` |

### How the hot-reload modules correspond to the code

* A file's content is a **version**: each save gets a fresh number, and the
  constants `Flawed` (some line is skipped), `Corrupt` (`read_to_string` fails)
  and `Listing` (the game's package is listed) say what each version is like.
  An `AppConfig` is the pair of its `config_file` and the version parsed.
* `mtime` is in seconds, as `load_config` reads it.  With `SameSecond` two saves
  may fall into the same second.
* `watch` is the path whose present inode carries the inotify watch.  Replacing
  or removing that inode ends the watch and queues `delete_self`; writing it
  queues `close_write`.  `pending` is a set: `inotify_handle` drains the queue
  completely and only asks which kinds were in it.
* `lpc`, `dpc`, `mpc` are the program counters.  **One step per access** to
  something another thread or the user can change: in `config_reload` the stat,
  the read, the store and the flag are four steps; in the main loop the swap of
  the flag and the copy of the configuration are two.  Two neighbouring accesses
  share a step only when the first is a read that commutes with everything that
  can happen in between (the copy of `CURRENT_CONFIG` for its file name with the
  stat that follows; `MODE_CHANGED` with nothing else; the read of a file with
  the writes to the thread's own locals; `GAME_PKGS` or `EFFECTIVE_MODE`, written
  by the main loop only, with the neighbouring store).  The poll of `game.conf`
  reads the file and replaces `GAME_PKGS` in one step.
* Actions are named after the function they are part of: `DrainEvents`,
  `Rewatch`/`RewatchFails`, `InotifyFails` (`inotify_handle`,
  `inotify_rewatch`), `Reload*` (`config_reload` and `load_config`),
  `SwapUpdated`/`TakeSnapshot`, `SwapModeChanged` ... `PublishTarget`,
  `Heal*`, `GamePoll*`/`Game*`, `RestartThreads`, `RunEngine`.
* A panic of a thread (`println!` panics when stdout is gone) loses its locals;
  the main loop sees `is_finished` and starts it again from its first line.
* The engine is one step, `RunEngine`: when the loop found `CONFIG_UPDATED`, the
  rules are rebuilt from the snapshot (`applied`).  `EngineSwitch` takes that step
  apart.

Definitions marked "Mutation" are plausible bugs, none of them the code's: each
property of a passing run is violated when the named definition is replaced by one.

Left out: overflow of the inotify queue; reads of a file that is half written (a
save in place is one step; what the parser makes of a part of a file is in
`RuleFile`); a configuration of `None` (`main.rs:278`, impossible after start-up); EINTR (a loop round without effect);
log output.

### How the eBPF modules correspond to the code

* One package is listed.  A **configuration** is what it says of that package: the
  thread names with a rule, and whether the package has one.  A **rule** stands for
  its set of CPUs and remembers the configuration it was computed from
  (`ThreadAffinity`).  `cpus[t]` is the rule a task was last bound by, inherited by
  its children, lost when the system moves the task.
* A **task** has a tid, a process (`tgid`), a name, and its process a command line.
  A process starts as a fork of the zygote and becomes the app (`BecomeApp`).
  `Exit` is the tracepoint; the task is gone for `sched_setaffinity` after `Reap`.
  The exit of a main thread ends its process.
* `whitelist` is `TARGET_COMM_MAP`, with the package's name as the key.
  `appliedMap` is the key set of `APPLIED_MAP`.  `events` is the ring buffer, the
  reader thread and the channel in one queue: the reader only moves events on, in
  order.  With `"drop"` an event may find the buffer full.
* execve raises RENAME and EXEC; both are submitted in one step, and the daemon
  handles them one after the other.
* The engine's **steps** (`pc`): each access to a kernel map or to a task is one.
  `comm_map_init` empties and fills the whitelist in two; `full_scan` clears the
  cache and map, lists a process, reads a name, binds, records; `task_apply` binds
  (`Bind`), then enters the map and the cache (`Record`).  Two things share a step:
  the calls of `affinity_sync` for different threads, and the clearing of the cache
  (private to the thread) with that of the map.  /proc is walked by ascending pid.
  A `sched_setaffinity` that fails with another error than ESRCH is left out:
  `affinity_set` ignores it, and the next `affinity_check` tries again.
* `due` is `affinity_deadline`; it may pass at any time.  `StoreConfig` and
  `RaiseFlag` are the loader, detailed in `HotReload`.

Left out of this component: tids that are used again and eviction from the LRU
map, both beyond the number of tids TLC can hold; a configuration of several
packages.

### How the engine modules correspond to the code

* A **task** is a thread, `MainOf` its process; `bound[t]` is the configuration
  whose CPUs it has.  An entry of either cache is the configuration it was made
  from, so "bound by the present rules" is `bound[t] = current`.  `Background` tasks
  always run and are never listed; they make the counts of `sysinfo` and `/proc`
  large enough for the thresholds.
* `Growth` is the 11 of `cache_sync` (1 in the run).  `lastCount`, `lastTotal`,
  `scanAll`, `tracked`, `force` are the fields of `ProcScanState`.
* `Big` configurations need a whitelist of more than 512 keys.  `Load` takes the
  capacity from `CURRENT_CONFIG`, `Refill` fills from the round's snapshot, as the
  code does.  `usable` says whether `ebpf_init` succeeds; a fault changes it, ends
  the reader, or makes an insert fail.
* `pc` follows the round: the flag, the snapshot, whitelist, scan, reload (drop, load,
  fill, scan), event loop, check; or retry, `cache_sync`, scan, bind.  A round with
  config_changed in hand keeps it in `changed` until its end, or until `continue`
  drops it: `lost` remembers the latter (a history variable, read by properties only).
* An event says only that a task of a listed process started or exited; what
  single events do to names and rules is the matter of `EbpfTracking`.  So is the
  time `comm_map_init` takes to fill the whitelist: `FillWhitelist` is one step here;
  a process whose events are filtered out meanwhile is found by the `full_scan` that
  follows before the loop looks at events.
* `last_ebpf_retry` and `affinity_deadline` may be found not to have passed at most
  `MaxIdle` times in a row.

Left out: a failing `sysinfo`, map lookups that fail in `comm_map_init`, task numbers
that are used again.

### How the rule modules correspond to the code

* A **line** is a sequence of tokens (`=`, `{`, `}`, a name, a CPU text, a word of a
  comment); blanks, which `trim` removes, are not there.  `lines` and the other
  variables of `ConfigParser` are the locals of `load_config`; there is one action per
  form of line, and `EndOfFile` for what follows the loop.
* A **name** is a sequence of bytes.  A **CPU text** is the sequence of its parts; a
  number that does not parse is `Bad`.  `Topology` is `CpuTopology`; `Creatable` holds
  the CPU sets whose directory `create_cpuset_dir` can make, and a directory is the set
  it is named after.
* `RuleFile` has files made of groups of lines, cut after any line.  A line there is
  abstract: its form, and the package, pattern and CPU text it is about; `Tokens` is how
  it looks.  What a line means is said from this alone, without the parser: `RulesOf`
  its rules, `Leaves` and `ContextAt` the block a line stands in, `Wrong` the mistakes,
  `CpusMeant` the CPUs of a text, `Means` of `Fnmatch` the names a pattern is for (it
  cuts the name into pieces the elements of the pattern stand for).  `Documented`
  puts them together to the documentation's promise.  `Fits` says which lines may stand
  where; `FilesAssumption` asks it of the files.
* A block may lack its `}` and be followed by lines meant for another package: the
  forms `Lost`.  `A = `, `A {`, `A = {` and `A{t}=c` there are mistakes that are counted.  A
  line `B=4-5` there is, by the documented grammar too, the rule of a thread B of the open
  block; the mistake shows at the next of the forms above or at the end of the file,
  which `CutIsNoticed` demands.  `R=4-5 {` there is read like a rule with a comment behind
  it (finding 3) and has no form of its own.
* A **pattern** is a sequence of elements (`Patterns` of `Fnmatch`): bytes, `?`, `*`, classes
  of any members (bytes and ranges), complements of them, and, at its end, a class that
  is not closed.  `Written` is how it is written; `]` as a first member, `-` at either end
  and ranges that are turned round are all in it.
* `KeyLen` stands for the 8 bytes of a key, `NameLen` for the 15 of a kernel name.
* `CpuSetRange` has the two loops of `to_range_string` as steps, and one machine
  word of `Bits` bits.

Observed and left as they are, since the documentation promises nothing else: a
block on one line (`A { t = 4-5 }`) is a counted failure; `A=4-5 { t=6 }` loads the
first rule and leaves the block open; a plain text line outside a block is not
counted; a rule with an empty package name is accepted; on a phone with one cluster
`hp-core` is empty; a package taken out of the rules keeps the CPUs its threads were last
bound to, since the scan forgets them without widening them.

## 3. Runs

| Run | Situation | Shows |
|---|---|---|
| `HR_power_inotify` | power mode, inotify works, 3 saves in place or by rename, some in one second, the first unreadable, the last with a skipped line | no save goes unnoticed, the watch is never lost, the last save takes effect |
| `HR_power_polling` | power mode, inotify may fail at start or at any time, the file may be removed and come back, the loader may panic while it polls, 3 saves in different seconds | the loader never waits for events nothing can send; polling takes over, a restarted loader goes on, the last save takes effect; reloading comes to rest |
| `HR_modes_safety` | a game comes and goes, both files are saved or removed, both threads panic, inotify fails, files may be saved during start-up | types; no configuration and no mode change is lost |
| `HR_modes_liveness` | a game comes and goes, one save of either file, inotify works | the mode follows the game, the rules belong to the mode, the package list follows `game.conf`, and the hand-off implements `ConfigHandoff`, its liveness included |
| `ET_calm` | processes fork and become the app, threads start, take names, run a shell, exit, are moved by the system; rules for the package, for a thread, for neither; device quiet while /proc is scanned | types; no rename is missed, no stranger is followed, every thread of the app ends up bound by its rule |
| `ET_rough` | in addition tasks change during the scan and before they are tracked, name each other, run other programs from the app, and events are lost | what the daemon follows is reported by the kernel; no binding outlives its configuration; dead threads leave the cache |
| `ES_engines` | tasks start, exit and are bound otherwise; a configuration that needs a larger whitelist comes or goes; loading fails or works again, an insert fails, the reader ends | neither engine goes on with a replaced configuration; what runs on ends up bound by the one in force; eBPF comes back; the dead are forgotten; a burst of tasks is found |
| `CS_ranges` | `to_range_string` on every set of nine CPUs in three words | nothing lost or added at any bit, ranges apart, the text parses back |
| `RF_rules` | files of up to three groups out of 20, a block that lacks its `}` among them, cut after any line; every pattern of up to three elements | what is written is loaded, mistakes and cuts are counted, threads get the documented CPUs and a directory of those CPUs, listed apps are recognised and pass the filter |
| `HR_rewatch_elsewhere`, `ES_lost_change`, `RF_trailing_comment` | one hazard each | the documented promise fails: see Findings |

**Bounds.**  `MaxEdits` bounds the saves, which is also what makes files stop
changing, so that "the last save takes effect" is a statement about `<>[]`.  Three
saves allow a save before, between and after the steps of one reload, and one
that finds the watch gone; the runs with modes use one save (two in the
counterexamples), because the mode changes themselves are unbounded there.
One game package is enough: the detector asks only whether any listed game is in
the foreground.  Two adj values, one foreground and one background, are the two
sides of the threshold.  The device may change at any step and for ever.
For the engine, `MaxOps` bounds what the device and the user do, which is again
what makes "in the end" a statement about `<>[]`: forks, renames, exits, saves and
moves by the system count, engine steps do not.  Four tids are a zygote, an app
and two threads (or a second process), enough for a thread to be started by a
tracked, an untracked and a departed one; five steps let a process start, become
the app, start a thread, and that thread take its name and exit.  `ET_rough` has
three tids, and was also run with larger bounds (8 million states).
`ES_engines` has a listed process with a thread besides its main thread, and a
process only the larger configuration lists: enough for a thread that starts late in a
process that is followed, a process a scan of the followed ones misses, and a
configuration that grows and shrinks.  Of starts, exits, edits, rebinding and two
faults any three happen (`MaxChanges`), so that a fault meets a change of
configuration and a start; the two faults let an engine be lost and come back.
In `CS_ranges` three words of three bits have a range within a word, over one and over
two ends of words, and words without bits between; a longer word adds nothing, which
the theorems confirm.  In `RF_rules` three groups are one that leaves something open,
one that follows and one after that; keys of 2 bytes and names of 3 keep packages of
4 bytes "longer than a kernel name" and those of 7 "too long"; the patterns of three
elements have every pair of neighbours.  The elements of the run have classes of one and
two members, with `]` first and `-` last, a range, complements of both and a class that
is not closed; `ClassesAreAll` confirms that whatever stands behind a `[`, up to four bytes,
begins with a class or is one that is not closed, so that `Patterns` leaves out nothing
that can be written.

**Fairness.**  Weak fairness of each thread (`Loader`, `Detector`, `Main`): a
living thread keeps running, because every wait in it is bounded (`sleep`,
`poll` with a timeout, `recv_timeout(1 s)`).  No fairness of saves, device
changes or faults.  For the engine: weak fairness of the main loop (`Engine`), of
the loader raising the flag it owes (`RaiseFlag`) and of the clock (`TimePasses`).
`EngineSwitch`: weak fairness of the loop's round (`Round`: its waits are
`recv_timeout(1 s)` and `sleep`) and of a loader between its two stores (`Publish`);
that deadlines pass is the bound `MaxIdle`, not a fairness of single branches.
`CpuSetRange` and `RuleFile` state safety only.

**What the passing runs exclude.**  Each of these is an environment in which the
code is known to break a property; changing the constant in the cfg shows it.

| Constant | Property broken | Why |
|---|---|---|
| `SameSecond = TRUE` in `HR_power_polling` | `SavedConfigTakesEffect` | mtime in whole seconds (`config.rs:99`) |
| `StartupSaves = TRUE` in `HR_power_inotify` | `NoSaveUnnoticed`, `SavedConfigTakesEffect` | first load before the watch (`main.rs:213`, `:227`) |
| `Faults = {"panic"}` in `HR_power_inotify` | `SavedConfigTakesEffect` | the event was read before the panic; the restarted loader waits for the next |
| `Flawed = {1}` in `HR_power_polling` | `ReloadsComeToRest` | with a skipped line the mtime is not recorded (`config.rs:243`): an unchanged file is loaded at every poll |
| `DetectorFaults = {"panic"}` in `HR_modes_liveness` | `ModeFollowsForeground` | the restarted detector assumes power mode (`main.rs:86`) |
| `SaveKinds = {"write"}` in `HR_rewatch_elsewhere` | `SavedConfigTakesEffect` | the loader spends the event on the other mode's file (`config.rs:345`) and main stores what it had read before the save |
| `Forks` with `<<"render", "thread">>`, `Renames` with `<<"render", "worker">>` in `ET_calm` | `EveryThreadBound` | a thread keeps the thread rule of its parent, which it was bound by at FORK (`cache.rs:146`) |
| `May = {"early move"}` in `ET_calm` | `NameFollowed`, `EveryThreadBound` | the placeholder of a FORK is made for children of tracked threads only (`ThreadOpt-ebpf/src/main.rs:155`), while the comment at `:133` promises it for every FORK that passes |
| `May = {"rename other"}` in `ET_calm` | `NameFollowed`, `EveryThreadBound` | a RENAME carries the tid of the thread that did it (`ThreadOpt-ebpf/src/main.rs:181`) |
| `Execs <- MCAppShell` in `ET_calm` | `StrangersLeftAlone` | a process of the app that has become another program is vouched for by its own entry (`cache.rs:122`) |
| `May = {"busy scan"}` in `ET_calm` | `NameFollowed`, `EveryThreadBound` | `full_scan` has emptied `APPLIED_MAP` and listed the tids; what starts or is renamed now is missed |

One more is known and not stated as a property: a thread that exits after `Bind`
of a scan and before `Record`, with a RENAME of it still queued, leaves its entry
in `APPLIED_MAP`, since `affinity_check` goes by the cache.

## 4. What is proved

`HotReload_proofs` proves, for every number of saves, every set of faults and
every start that satisfies the assumptions on the constants:

* `TypeCorrect`: `TypeOK` is invariant.
* `NoUpdateIsLost`: `NoLostUpdate` is invariant.  It is not inductive alone: when
  the loop has taken the flag and carries an older snapshot, nothing in it says
  that the flag is up again.  `HandoffInv` adds `StaleSnapshotFlagged` (a carried
  snapshot that differs from `CURRENT_CONFIG` has the flag up or about to be) and
  that the loader does not run before start-up.
* `NoModeChangeIsLost`: `ModeNotLost`, with `ModeInv`, which adds the same about a
  target that changed while main was loading its file.
* `ImplementsHandoffSafety`: initial states and steps map to those of
  `ConfigHandoff`.
* `WatchIsNotLost`: `WatchNotLost`.
* `NoSaveGoesUnnoticed`: under `PowerOnly` (no game listed, game mode not forced,
  no panics, no save during start-up), `NoSaveUnnoticed`.  `SaveInv` adds that
  main stores no configuration, that the loader stays with applist.conf, that an
  event leaves `last_mtime` reset until the read, and that a configuration which
  is out of date before it is stored has an event waiting.

`EbpfTracking_proofs` proves, for every number of tids and device steps, every
set of forks, renames, execs and configurations, and all troubles:

* `TypeCorrect`: `TypeOK` is invariant.
* `FollowedAlwaysReported`: `FollowedIsReported` is invariant.  Alone it is not
  inductive: a fresh task could get a tid that the cache, the queue, the step at
  hand or the list of dead ones still holds, and `Forget` could take a live thread
  out of the map.  `IInv` adds `UsedTids`: all of them speak of tids handed out
  before, and what `affinity_sync` found gone stays gone.
* `BindingsAlwaysCurrent`: `BindingsCurrent` is invariant, with `CInv`: the snapshot
  is the stored configuration unless a reload is on its way, and threads are bound
  only while the package has rules.
* `StrangersAlwaysLeftAlone`: under `NoImpostors`, `StrangersLeftAlone` is invariant.
  `NoImpostors` says only that no thread calls itself by the app's name and that no
  process of the app runs another program (the row of `MCAppShell` in section 3 shows
  what happens then).  Strangers may fork, take any other name, run programs, become the
  app and exit in any order with scans, reloads and every trouble.  The invariant is
  `OfTheApp`: the app's name is found at the app's threads only, and what the map, the
  cache, the queue, a scan's list and the step at hand hold is of the app.  TLC checked it
  first with all troubles.  A tid that comes round again is not in the model.

`EngineSwitch_proofs` proves, for any tasks, configurations, capacities and bounds:

* `TypeCorrect`: `TypeOK` is invariant.
* `EbpfAlwaysFollowsConfig` and `ProcAlwaysFollowsConfig`: `EbpfFollowsConfig` and
  `ProcFollowsConfig` are invariant.  Neither is inductive: nothing in them says
  whose keys the new engine of a reload holds, or that a round which has taken
  the flag has the present snapshot.  `IInv` adds `SnapshotCurrent` (a snapshot that
  differs from `CURRENT_CONFIG` has the flag up or about to be), `Filled` (where in
  the round which whitelist holds what), `NothingYet` and `WhenOn` (where the engine
  is, and is not), and `ProcCacheCurrent` (the /proc cache is of the round's
  configuration once it has scanned).

`CpuSetRange_proofs` proves, for every number and width of words, `TypeCorrect`,
`NothingIsLost`, `RangesStayApart` and `TextIsTheSet`.  The invariant adds that the
range under way ends before the position and that what is written ends a gap below
it; `TextIsTheSet` then goes through what `parse_cpu_ranges` makes of each range.

`NameFilter_proofs` proves `FilterPassesRecognised` for any packages and any length of
key: a name `comm_to_pkg` recognises has a window among the keys, at its beginning if
it is or begins a package's name, at its end if it ends one.  `FilterPassesListed` is
the same for the rules of a loaded file.

`EbpfCalm_proofs` proves, for every number of tids and device steps, any thread names
and configurations:

* `NamesAlwaysFollowed`: under `Calm`, `NameFollowed` is invariant.  `Calm` says what the
  device does not do, and is what the table of section 3 excludes: `May` is empty (no event is lost, nothing overtakes a
  scan, no task is renamed before it is tracked, none renames another), only the
  app's own tasks take names, and only the app's, a process of the app does not exec, and
  the app starts threads while the zygote starts processes.  The constants of `ET_calm`
  satisfy it.  `CalmInv` is the inductive invariant: a task is the app's exactly if it
  has one of its names (`Processes`); what cache, map, queue and the step at hand hold is
  of the app (`Members`); the whitelist is the round's (`Keys`); a main thread is
  followed before the threads it starts (`MainsCached`); every thread of the app is in
  the map (`ThreadsTracked`), and the last event about it in the queue has its present name
  (`Told`) or gives the same rule (`Heard`); what a scan has passed is followed
  (`ScanTracks`, `ScanReads`); and a rename is not kept from the cache by the protection
  of thread rules (`Overwrites`).  `CalmInv` was checked by TLC on the instance of
  `ET_calm` first.

`Fnmatch_proofs` proves `MatchesWhatItMeans`: for every pattern of `Patterns`, with classes of
any number of members, and every name, `match_pattern` accepts the written pattern exactly
when the name can be cut into pieces that its elements stand for.  The recursive
functions of the matcher, the loop of `match_class` over the members among them, are shown to exist (`Recursion`: a function whose values depend on those of lower
rank), and the argument goes through the pattern from its end: at the place where the
k-th element is written, the matcher agrees with the meaning of the elements from
the k-th on (`Agree`).  Induction on numbers is `SetInduction`, itself proved from the
library's facts on the cardinality of finite sets, since the induction theorems of
the library take an operator, which the provers here cannot instantiate.

`RuleFile_proofs` proves, for any topology, any limits, any creatable directories, any
threads with names of at most 15 bytes, and any files whose lines fit where they
stand:

* `ParserTypesAlways`, `DirectoryAlwaysFits`, `AppsAlwaysRecognised`,
  `FilterAlwaysPasses`: `TypeOK`, `DirectoryFits`, `AppsRecognised` and
  `FilterPassesListed` are invariant.  The invariant is `TInv`: the block and the
  announced package of the parser are those the lines read so far leave
  (`ContextAt`), and a rule held has CPUs and no directory but that of its CPUs.
* `NotesSpoilTheirOwnLine`: the rules held are at every line exactly those the lines so
  far mean, in their order, where a note behind a thread's CPUs is read with them
  and spoils the last part of that text (finding 3), and nothing else.
* `AlwaysReadAsMeant` and `CutsAlwaysNoticed`: in every file without such notes
  (`Uncommented`), `ReadAsMeant` and `CutIsNoticed` hold.  `RInv` adds to `TInv` that the
  rules are those meant, and that a failure is counted exactly when a line was in
  error.  For each of the twenty-two forms of a line there is a lemma (`ReadsPlain` ...)
  on which action reads it and what that does.
* `AffinityAlwaysAsDocumented`: `AffinityAsDocumented` in those files, from
  `AlwaysReadAsMeant`, `TextMeans` (`parse_cpu_spec` finds the CPUs a text is for) and
  `MatchesWhatItMeans`.

The assumptions used are those on the constants: `TopologyAssumption` (every kind of core
is a set of CPUs below `CPU_SETSIZE`), `LengthsAssumption`, `FilesAssumption`,
`ThreadsAssumption` (a kernel name is shorter than `MAX_THREAD_LEN`), `SizeAssumption`
and `KeyLenAssumption`; TLC evaluates them in `RF_rules` and `RF_trailing_comment`.

Only model-checked: everything under fairness (`SavedConfigTakesEffect`,
`RulesMatchMode`, `ModeFollowsForeground`, `GameListRefreshed`,
`ReloadsComeToRest`, the liveness half of `ImplementsHandoff`, `EveryThreadBound`,
`DeadForgotten`, `LongRunningBound`, `EbpfComesBack`, `BurstFound`), which is out of
the prover's reach.

## 5. Findings

Each is a run in which TLC violates what the documentation promises; details and
quotations are in PROJECT.json.

1. `HR_rewatch_elsewhere`: the watch is renewed for whatever file is current. A
   rename of `applist.conf` in game mode leaves it unwatched for ever.
2. `ES_lost_change`: when the eBPF side must be loaded anew for a larger whitelist and
   cannot be, `continue` throws config_changed away; the /proc engine goes on with the
   old configuration.
3. `RF_trailing_comment`: a comment behind a range, as in the documentation's own
   example, makes `0-3` mean CPU 0, and nothing is counted as a mistake.

The table of section 3 holds more of the kind, each excluded by a constant.

## 6. What is not modelled

* `init_cpu_topo` and the reading of `/sys`, `create_cpuset_dir`'s system calls,
  `get_affinity`/`set_affinity`: I/O; their results are constants or the environment.
* The apply log: written and rolled, never read.
* The command line: parsed once, before any thread starts.
* Module scripts, default rules, CI.
* Tids used again, eviction from `APPLIED_MAP`, overflow of the inotify queue: named at
  the component they belong to; each needs more tids or events than TLC can hold.

Left to do: `EngineSwitch` with the mode switch of `MainLoop` in place of `Install`.
