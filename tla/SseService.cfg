SPECIFICATION Spec
CONSTANTS
    Streams = {s1, s2}
    Identities = {i1, i2}
    Users = {u1, u2}
    MaxPerKey = 1
    MaxPerUsername = 1
    MaxUsers = 2
    HeartbeatEvery = 2
INVARIANTS
    CountersExact
    WithinCaps
    NeverSilent
PROPERTY ImplementsChangeFeed
