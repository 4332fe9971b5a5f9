SPECIFICATION FairSpec
CONSTANTS
    Interval = 2
    Response = 1
    Silence = 10
    MaxMissed = 3
    MaxSessions = 3
    MaxAge = 20
INVARIANTS
    TypeOK
    SilenceBounded
    LossReported
    SessionIsOwn
PROPERTY Stops
CHECK_DEADLOCK FALSE
