SPECIFICATION Spec
CONSTANTS
    MaxTid = 4
    MaxOps = 5
    ThreadNames = {"render", "worker"}
    Forks <- MCForks
    Renames <- MCNames
    Execs <- MCShell
    AppAtStart = {FALSE}
    May = {}
    Configs <- MCThree
INVARIANTS TypeOK NameFollowed StrangersLeftAlone
PROPERTIES EveryThreadBound
CHECK_DEADLOCK TRUE
