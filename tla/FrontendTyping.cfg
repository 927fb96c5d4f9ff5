CONSTANTS
    Starts = {a1}
    Keys = {k1, k2}
    None = None
    AuthEnabled = TRUE
SPECIFICATION Spec
INVARIANT
    StopStops
