SPECIFICATION Spec
CONSTANTS
    Calls = {k1, k2}
    Ips = {i1}
    Lifetimes = {1}
    Never = Never
    NoKey = NoKey
    Nobody = Nobody
    MaxKeys = 1
    MaxKeysPerIp = 1
    Day = 2
    MaxTime = 3
    Requests = {q1}
    EnvKeys = {e1}
    RateLimit = 1
    RateWindow = 2
INVARIANTS
    KeysCapped
    PerIpCapped
    DeadKeysRefused
    RateCapped
PROPERTIES
    CallsEnd
