SPECIFICATION Spec
CONSTANTS
    Streams = {s1}
    Initial = {s1}
    Removable = {s1}
    NoStream = NoStream
    AppThreads = {t1, t2}
    MaxEvents = 3
    Severe = 1
    UsedLevels = {0}
    MinLevels = {0, 1}
SYMMETRY ThreadSymmetry
INVARIANTS TypeOK NoLostWakeup NoMessageLost CrashExplained TerminateDrains
