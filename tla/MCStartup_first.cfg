\* The daemon and the application start for the first time together.
SPECIFICATION Spec
CONSTANTS
    Process = {d1, g1}
    Gtk = {g1}
    Nobody = Nobody
    Stale = Stale
    Device = {FALSE}
    Hardware = {FALSE}
    Overlap = TRUE
    MaxStarts = 2
    MaxFailures = 0
CHECK_DEADLOCK FALSE
INVARIANT
    EciesKeyPersists
