SPECIFICATION LifecycleSpec
CONSTANTS
    Threads = {t1, t2}
    Nobody = Nobody
    Names = {n1, n2}
    Severe = 1
    MaxRegister = 1
    MaxLog = 1
    MaxMsgs = 2
INVARIANTS TypeOK SingleInstance ReturnedKnown AttributionStable LifecycleTypeOK EndDrains FaultExplained
PROPERTY ProcessEnds
