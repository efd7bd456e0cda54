CONSTANTS
    a = a
    a2 = a2
    b = b
    c1 = c1
    c2 = c2
    NoConfig = NoConfig
    Tasks = {a, a2, b}
    Configs = {c1, c2}
    MainOf <- MCMainOf
    Running <- MCRunning
    Listed <- MCListed
    Big = {c2}
    Background = 2
    Growth = 1
    MaxStarts = 1
    MaxExits = 1
    MaxUnbound = 1
    MaxEdits = 1
    MaxFaults = 2
    MaxChanges = 3
    MaxIdle = 1
SPECIFICATION Spec
INVARIANTS
    TypeOK
    EbpfFollowsConfig
    ProcFollowsConfig
PROPERTIES
    DeadForgotten
    LongRunningBound
    EbpfComesBack
    BurstFound
