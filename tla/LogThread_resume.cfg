SPECIFICATION FairSpec
CONSTANTS
    Streams = {s1}
    Initial = {s1}
    Removable = {}
    NoStream = NoStream
    AppThreads = {t1}
    MaxEvents = 2
    Severe = 1
    UsedLevels = {0, 1}
    MinLevels = {}
PROPERTY DeliveryResumes
