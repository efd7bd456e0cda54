CONSTANTS
    Size = 6
    Topology <- MCTopology
    MaxPkgLen = 7
    MaxThreadLen = 12
    Creatable <- MCCreatable
    KeyLen = 2
    Groups <- MCNoted
    MaxGroups = 1
    Lone = {}
    Threads <- MCThreads
SPECIFICATION Spec
INVARIANTS
    AffinityAsDocumented
