\* ?users=Ninja,ninja: one username in two spellings.
CONSTANTS
    e1 = e1
    e2 = e2
    e3 = e3
    Ninja = Ninja
    ninja = ninja
    xqc = xqc
    Entries = {e1, e2}
    Spellings = {Ninja, ninja, xqc}
    usernames <- TwoSpellings
    Lower <- MCLower
    HeartbeatEvery = 2
    MaxQueue = 2
    Done = Done
SPECIFICATION Spec
\* The stream is over when its tasks and its generator are.
CHECK_DEADLOCK FALSE
PROPERTY ChangeOnly
