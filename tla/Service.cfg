\* One webhook and two keys, under weak fairness: three attempts, three
\* failures in a row, a history that wraps.
CONSTANTS
    Ids = {w1}
    Users = {u1}
    Owners = {k1, k2}
    NoOwner = NoOwner
    NoRow = NoRow
    MaxWebhooks = 1
    MaxPerUser = 1
    MaxAttempts = 3
    MaxFailures = 3
    HistorySize = 4
    Unknown = Unknown
    NoHistory = NoHistory
SPECIFICATION FairSpec
INVARIANTS
    FailuresMatchHistory
    ReceiverInformed
    TaskIffWatched
    HistoryUntilUnregistered
    OwnerBinding
PROPERTIES
    GivenUpWhenEarned
    EventSettles
    KeptOnlyIfAnswering
    ImplementsFairRegistry
    ImplementsFairLoop
    RequestsAnswered
