CONSTANTS
    Trim <- MCTrim
    KeyBytes <- MCKeyBytes
    Clients = {"a", "1"}
    Static = {"a"}
    Lists <- MCLists
    Sessions = {s1, s2}
    MaxChanges = 2
    SendsETag = {TRUE}
    NoTag = NoTag
SPECIFICATION Spec
INVARIANTS
    TypeOK
    StoreIsWhatKboardSaid
    AttributionIsCurrent
PROPERTIES
    UsersConverge
