\* Two handlers and the user interface, three calls, two seconds, one set-back.
SPECIFICATION FairSpec
CONSTANTS
    Handler = {h1, h2}
    Ui = {u}
    Nobody = Nobody
    Context = {k1}
    Lifetime = {1, 2}
    MaxOps = 3
    Horizon = 2
    MaxSetBacks = 1
CHECK_DEADLOCK FALSE
INVARIANTS
    TypeOK
    MutexesSound
    ViewCurrent
PROPERTIES
    SweepSparesActive
    CallsReturn
