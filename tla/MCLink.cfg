\* Two connections, two registrations, every replay; one registration while time
\* passes and the settings change.
SPECIFICATION Spec
CONSTANTS
    Conn = {c1, c2}
    Nobody = Nobody
    Context = {k1}
    Absent = Absent
    Threshold = 2
    Window = 2
    MaxTtl = 8
    MaxAhead = 1
    DefaultTtl = 3
    MinCeiling = 1
    MaxCeiling = 8
    DefaultCeiling = 4
    ReplayWindow = 2
    Valid = {FALSE}
    Counter = {1, 2, 3}
    Inner = {Absent}
    SessionTtl = {8}
    IssuedAt = {0}
    CredentialTtl = {0}
    CeilingChoice = {9}
    ClockStep <- Corrections
    MaxSessions = 2
    Horizon = 1
    MaxSteps = 1
CONSTRAINT StillOrFew
SYMMETRY Symmetric
CHECK_DEADLOCK FALSE
INVARIANTS
    StoreAuthentic
    LinkInv
PROPERTY
    ReplayProtected
