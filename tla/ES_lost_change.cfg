CONSTANTS
    a = a
    a2 = a2
    b = b
    c1 = c1
    c2 = c2
    NoConfig = NoConfig
    Tasks = {a, a2, b}
    Configs = {c1, c2}
    MainOf <- MCMainOf
    Running <- MCRunning
    Listed <- MCListed
    Big = {c2}
    Background = 2
    Growth = 1
    MaxStarts = 0
    MaxExits = 0
    MaxUnbound = 0
    MaxEdits = 1
    MaxFaults = 2
    MaxChanges = 3
    MaxIdle = 1
SPECIFICATION Spec
PROPERTIES ReloadFailureFallsBack
