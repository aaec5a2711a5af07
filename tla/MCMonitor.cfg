\* One forwarded or refused connection and one association, each with every
\* failure, while the admin interface and the reporter ask again and again.
CONSTANTS
    c1 = c1
    u1 = u1
    N = 2
    Conns = {c1, u1}
    Associations = {u1}
    HasKboard = TRUE
SPECIFICATION Spec
INVARIANTS
    TypeOK
    AnswersAreTrue
    SnapshotIsConsistent
