\* The daemon and the application start and start again together, one death or I/O error.
SPECIFICATION Spec
CONSTANTS
    Process = {d1, g1}
    Gtk = {g1}
    Nobody = Nobody
    Stale = Stale
    Device = {TRUE}
    Hardware = {TRUE, FALSE}
    Overlap = TRUE
    MaxStarts = 3
    MaxFailures = 1
CHECK_DEADLOCK FALSE
INVARIANTS
    TypeOK
    UnusableOnlyByDeath
    HardwareRequired
    SomeoneReachable
