\* A request and a library caller at once over a pool of two connections, one or both
\* of which may be left with an abandoned transaction.  No symmetry: liveness is
\* checked too.
SPECIFICATION FairSpec
CONSTANTS
    Tenants = {t1, t2}
    t1 = t1
    t2 = t2
    Secrets = {secret, wrong}
    secret = secret
    wrong = wrong
    Empty = Empty
    None = None
    Handlers = {h1}
    Callers = {l1}
    Conns = {c1, c2}
    Models = {m1}
    Limits = {1}
    Untils = {0, 2}
    Environments <- AllEnvironments
    SentHeaders <- SomeHeaders
    NoTenant = NoTenant
    NoWrite = NoWrite
    MaxMemories = 1
    MaxTime = 2
INVARIANTS
    TypeOK
    CandidatesWereLive
    AnswersAreTrue
PROPERTIES
    RowsHaveAuthority
    BookSpec
    EveryCallEnds
