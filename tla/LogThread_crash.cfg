SPECIFICATION Spec
CONSTANTS
    Streams = {s1, s2}
    Initial = {s1, s2}
    Removable = {}
    NoStream = NoStream
    AppThreads = {t1}
    MaxEvents = 1
    Severe = 1
    UsedLevels = {0, 1}
    MinLevels = {}
INVARIANT ProcessedBeforeEnd
