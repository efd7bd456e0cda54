SPECIFICATION Spec
CONSTANTS
    MaxTid = 3
    MaxOps = 5
    ThreadNames = {"render", "worker"}
    Forks <- MCForks
    Renames <- MCNames
    Execs <- MCAppShell
    AppAtStart = {FALSE}
    May = {"drop", "early move", "busy scan", "rename other"}
    Configs <- MCTwo
INVARIANTS FollowedIsReported BindingsCurrent
PROPERTIES DeadForgotten
CHECK_DEADLOCK TRUE
