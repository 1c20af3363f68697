SPECIFICATION Spec
CONSTANTS
    Streams = {s1, s2}
    Initial = {}
    Removable = {}
    NoStream = NoStream
    AppThreads = {t1}
    MaxEvents = 2
    Severe = 1
    UsedLevels = {0}
    MinLevels = {}
INVARIANT ExclusiveWrite
PROPERTY ImplementsDelivery
SYMMETRY StreamSymmetry
