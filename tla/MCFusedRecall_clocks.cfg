\* Appends and supersedes with windows of their own while a fused recall runs,
\* the process' clock behind, equal to or ahead of Postgres'.
SPECIFICATION FusedSpec
CONSTANTS
    Workers = {w1}
    Tenants = {t1, t2}
    Contents = {plain, other}
    Windows <- SomeWindows
    LinkedAppends = TRUE
    MaxRows = 2
    MaxTime = 2
    Trimmed <- Itself
    Requests <- SomeRequests
    Facets <- SomeFacets
    Normal <- Itself
    TokensOf <- Estimates
    Weights <- DefaultWeights
    Penalties <- DefaultPenalties
    AnyNamespace = AnyNamespace
    NoPermission = NoPermission
    Skews <- Differences
    t1 = t1
    plain = plain
    other = other
INVARIANTS
    AnswersAreCurrent
    NothingIsLost
PROPERTIES
    LedgerSpec
