\* The application is launched a second time while it runs.
SPECIFICATION Spec
CONSTANTS
    Process = {g1, g2}
    Gtk = {g1, g2}
    Nobody = Nobody
    Stale = Stale
    Device = {FALSE}
    Hardware = {FALSE}
    Overlap = FALSE
    MaxStarts = 2
    MaxFailures = 0
CHECK_DEADLOCK FALSE
INVARIANT
    Reachable
