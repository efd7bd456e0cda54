CONSTANTS
    Size = 6
    Topology <- MCTopology
    MaxPkgLen = 7
    MaxThreadLen = 16
    Creatable <- MCCreatable
    KeyLen = 2
    Groups <- MCGroups
    MaxGroups = 3
    Lone <- MCLone
    Threads <- MCThreads
SPECIFICATION Spec
INVARIANTS
    TypeOK
    ReadAsMeant
    CutIsNoticed
    AffinityAsDocumented
    DirectoryFits
    AppsRecognised
    FilterPassesListed
