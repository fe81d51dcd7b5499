\* One handler that captures credentials while a window is open.
SPECIFICATION WindowSpec
CONSTANTS
    Handler = {h1}
    Ui = {u}
    Nobody = Nobody
    Context = {k1}
    Lifetime = {2}
    MaxOps = 3
    Horizon = 3
    MaxSetBacks = 0
CHECK_DEADLOCK FALSE
PROPERTY
    CredentialsSurface
