CONSTANTS
    Starts = {a1, a2, a3}
    Keys = {k1, k2}
    None = None
    AuthEnabled = TRUE
SPECIFICATION Spec
INVARIANTS
    OneStream
    MonitorAlive
