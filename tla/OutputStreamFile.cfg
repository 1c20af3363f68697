SPECIFICATION FairSpec
CONSTANTS
    MaxMsgs = 2
    MaxFaults = 2
    MaxRestarts = 1
    LineSizes = {2, 8}
    Header = 1
    Trailer = 1
    m_maxsize = 7
INVARIANTS TypeOK AcknowledgedKept SizeLimit
PROPERTY WrittenOrJammed
