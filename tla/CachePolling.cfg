\* Two stream callers while TikTok fails.
CONSTANTS
    SseCallers = {s1, s2}
    RestCallers = {}
    NoOne = NoOne
    Empty = Empty
    SseTtl = 1
    RestTtl = 1
    Timeout = 1
    MaxVersion = 0
SPECIFICATION FairSpec
PROPERTIES
    PolledOncePerInterval
