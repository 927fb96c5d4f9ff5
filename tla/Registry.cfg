\* Three registrations for two users under caps of two and one: every order
\* of their SQLite statements, failures of each, crashes and restarts.
CONSTANTS
    Ids = {w1, w2, w3}
    Users = {u1, u2}
    Owners = {}
    NoOwner = NoOwner
    NoRow = NoRow
    MaxWebhooks = 2
    MaxPerUser = 1
SYMMETRY Symmetry
SPECIFICATION RegistrySpec
INVARIANTS
    WatchedIsDurable
    AcknowledgedSurvives
    ErasedStaysErased
    OrphansExplained
    CapsUnlessResurrected
