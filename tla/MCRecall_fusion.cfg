\* The default policy, with and without diversity: filters, ranking, deduplication, penalties and budget.
SPECIFICATION FairSpec
\* A recall ends.
CHECK_DEADLOCK FALSE
CONSTANTS
    Candidates <- Pool
    Queries <- SomeQueries
    Normal <- NormalForm
    TokensOf <- Estimates
    Weights <- DefaultWeights
    AnyNamespace = AnyNamespace
    NoPermission = NoPermission
    MaxCandidates = 4
INVARIANTS
    PackIsTheRanking
    AccountsAreTrue
    RankingIsNoAuthority
PROPERTIES
    EveryRecallEnds
