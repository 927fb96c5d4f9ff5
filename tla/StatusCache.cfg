\* Three stream callers and a REST caller around one change of the streamer.
CONSTANTS
    SseCallers = {s1, s2, s3}
    RestCallers = {r1}
    NoOne = NoOne
    Empty = Empty
    SseTtl = 2
    RestTtl = 3
    Timeout = 1
    MaxVersion = 1
SPECIFICATION FairSpec
INVARIANTS
    SingleFlight
    LockInUse
PROPERTIES
    SuccessesSpaced
    AnswersFresh
    ImplementsLiveFeed
    CallsReturn
