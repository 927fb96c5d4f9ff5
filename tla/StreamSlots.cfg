\* The slot of a client that goes before its stream's body has begun.
SPECIFICATION Spec
CONSTANTS
    Streams = {s1, s2}
    Identities = {i1}
    Users = {u1}
    MaxPerKey = 2
    MaxPerUsername = 2
    MaxUsers = 1
    HeartbeatEvery = 2
INVARIANT SlotsFreed
