SPECIFICATION FairSpec
CONSTANTS
    MaxMsgs = 2
    MaxSends = 3
    MaxConn = 2
    CutConns = {1}
    SSL = TRUE
INVARIANTS TypeOK AckedReceived AttemptsJoined OneWaits OpenIsRead DestroyedIdle
PROPERTY AttemptResolves
