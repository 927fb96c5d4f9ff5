\* A stream and a webhook, entries of age one, a streamer who goes live and
\* offline again; one attempt an event.
CONSTANTS
    Streams = {s1}
    Ids = {w1}
    NoOne = NoOne
    Empty = Empty
    SseTtl = 1
    RestTtl = 1
    Timeout = 1
    MaxVersion = 2
    HeartbeatEvery = 1
    MaxAttempts = 1
    MaxFailures = 2
    HistorySize = 2
    Unknown = Unknown
    NoHistory = NoHistory
SPECIFICATION Spec
PROPERTIES
    StreamsCatchUp
    ReceiversCatchUp
