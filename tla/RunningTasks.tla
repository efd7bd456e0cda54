---------------------------- MODULE RunningTasks ----------------------------
(***************************************************************************)
(* The tasks of the phone as the two binding engines see them: which are   *)
(* alive, and which configuration each is bound by.  The kernel and the    *)
(* apps are the environment: tasks start (a process together with some of  *)
(* its threads), exit, and may be bound otherwise by some other program.   *)
(*                                                                         *)
(* A task's number is never used again, neither here nor in TaskEvents.    *)
(***************************************************************************)
EXTENDS Integers, FiniteSets

CONSTANTS
    Tasks,      \* every task that may run besides the background
    MainOf,     \* the main thread of the process a task belongs to
    Background, \* tasks, and processes, that always run and are never listed
    Configs,    \* the configurations the loader may install
    NoConfig,   \* none of them
    Running,    \* the sets of tasks the service may find when it starts
    Listed,     \* the main threads of the processes a configuration names
    MaxStarts,  \* bound: how often tasks start
    MaxExits,   \* bound: how often tasks exit
    MaxUnbound  \* bound: how often another program binds a task otherwise

ASSUME TasksAssumption ==
    /\ IsFiniteSet(Tasks)
    /\ MainOf \in [Tasks -> Tasks]
    /\ \A t \in Tasks : MainOf[MainOf[t]] = MainOf[t]
    /\ Background \in Nat
    /\ NoConfig \notin Configs
    /\ \A ts \in Running :
           ts \subseteq Tasks /\ \A t \in ts : MainOf[t] \in ts
    /\ Listed \in [Configs -> SUBSET Tasks]
    /\ MaxStarts \in Nat /\ MaxExits \in Nat /\ MaxUnbound \in Nat

VARIABLES
    alive,      \* the tasks that run
    gone,       \* the tasks that have exited
    bound,      \* the configuration whose CPUs a task has, NoConfig: others
    burst,      \* the tasks that started in the last start
    starts, exits, unbinds   \* how often each happened

tasksVars == <<alive, gone, bound, burst, starts, exits, unbinds>>

TasksTypeOK ==
    /\ alive \subseteq Tasks
    /\ gone \subseteq Tasks
    /\ bound \in [Tasks -> Configs \cup {NoConfig}]
    /\ burst \subseteq Tasks
    /\ starts \in Nat /\ exits \in Nat /\ unbinds \in Nat

Threads(mains) == {t \in Tasks : MainOf[t] \in mains}
Mains == {t \in Tasks : MainOf[t] = t}

\* The live tasks a configuration is to bind: proc_walk finds a process by
\* its name and every thread it has under /proc/<pid>/task.
Wanted(c) == alive \cap Threads(Listed[c])

\* sched_setaffinity on every task of ts that has an entry of the cache.
\* The call fails with ESRCH on a task that is gone.
BoundBy(cache) ==
    [t \in Tasks |-> IF t \in alive /\ cache[t] # NoConfig
                     THEN cache[t] ELSE bound[t]]

TasksInit ==
    /\ alive \in Running
    /\ gone = {}
    /\ bound = [t \in Tasks |-> NoConfig]
    /\ burst = {}
    /\ starts = 0 /\ exits = 0 /\ unbinds = 0

Start(ts) ==
    /\ starts < MaxStarts
    /\ ts # {} /\ ts \cap (alive \cup gone) = {}
    /\ \A t \in ts : MainOf[t] \in alive \cup ts
    /\ alive' = alive \cup ts
    /\ burst' = ts
    /\ starts' = starts + 1
    /\ UNCHANGED <<gone, bound, exits, unbinds>>

\* A thread ends alone; its process ends with all its threads.
Exit(t) ==
    /\ exits < MaxExits
    /\ t \in alive
    /\ LET ended == IF t = MainOf[t] THEN alive \cap Threads({t}) ELSE {t}
       IN  alive' = alive \ ended /\ gone' = gone \cup ended
    /\ exits' = exits + 1
    /\ UNCHANGED <<bound, burst, starts, unbinds>>

Unbind(t) ==
    /\ unbinds < MaxUnbound
    /\ t \in alive /\ bound[t] # NoConfig
    /\ bound' = [bound EXCEPT ![t] = NoConfig]
    /\ unbinds' = unbinds + 1
    /\ UNCHANGED <<alive, gone, burst, starts, exits>>
=============================================================================
