\* A stream of two usernames, one repeated, from its first step to its end.
CONSTANTS
    e1 = e1
    e2 = e2
    e3 = e3
    Ninja = Ninja
    ninja = ninja
    xqc = xqc
    Entries = {e1, e2, e3}
    Spellings = {Ninja, ninja, xqc}
    usernames <- OneSpelling
    Lower <- MCLower
    HeartbeatEvery = 2
    MaxQueue = 2
    Done = Done
SPECIFICATION Spec
\* The stream is over when its tasks and its generator are.
CHECK_DEADLOCK FALSE
INVARIANTS
    NothingLost
    DoneIsLast
PROPERTIES
    ImplementsChangeFeed
    StreamWindsUp
