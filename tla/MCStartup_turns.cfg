\* The daemon and the application, started one at a time, three deaths or I/O errors.
SPECIFICATION Spec
CONSTANTS
    Process = {d1, g1}
    Gtk = {g1}
    Nobody = Nobody
    Stale = Stale
    Device = {TRUE, FALSE}
    Hardware = {TRUE, FALSE}
    Overlap = FALSE
    MaxStarts = 4
    MaxFailures = 3
CHECK_DEADLOCK FALSE
INVARIANTS
    EciesKeyPersists
    IdentityPersists
    PublishedByLatest
PROPERTY
    KeysSurvive
