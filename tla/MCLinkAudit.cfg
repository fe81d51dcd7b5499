\* One connection that registers twice, delivers and fails, while the user changes
\* the settings, or while windows elapse and the wall clock is corrected.
SPECIFICATION AuditSpec
CONSTANTS
    Conn = {c1}
    Context = {k1}
    Nobody = Nobody
    Absent = Absent
    MaxAhead = 1
    DefaultTtl = 3
    MinCeiling = 2
    MaxCeiling = 8
    DefaultCeiling = 4
    ReplayWindow = 2
    Threshold = 3
    Window = 1
    MaxTtl = 2
    Valid = {TRUE, FALSE}
    Counter = {1, 2}
    Inner = {Absent}
    SessionTtl <- SessionTtls
    IssuedAt = {0, 3}
    CredentialTtl = {0, 9}
    CeilingChoice = {1, 6}
    ClockStep <- Corrections
    MaxSessions = 2
    Horizon = 4
    MaxSteps = 1
CONSTRAINT
    Apart
CHECK_DEADLOCK FALSE
INVARIANTS
    TypeOK
    LockoutArmed
    FailureBurst
    EnforceTakesEffect
    CeilingTakesEffect
PROPERTY
    SessionLifetime
