\* One webhook, deleted while its INSERT is still to run.
CONSTANTS
    Ids = {w1}
    Users = {u1}
    Owners = {k1}
    NoOwner = NoOwner
    NoRow = NoRow
    MaxWebhooks = 1
    MaxPerUser = 1
SYMMETRY Symmetry
SPECIFICATION RegistrySpec
INVARIANTS
    UnregisterErasesRow
