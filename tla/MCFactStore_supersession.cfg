\* Two racing requests, no explicit windows, and facts enough for supersessions
\* that swap contents and deadlock.
SPECIFICATION FairSpec
CONSTANTS
    Workers = {w1, w2}
    Tenants = {t1}
    Contents = {plain, other}
    Windows <- NoWindows
    LinkedAppends = FALSE
    MaxRows = 4
    MaxTime = 2
    Trimmed <- TrimBlanks
    plain = plain
    padded = padded
    other = other
INVARIANTS
    TypeOK
    AtMostOneActive
    LineagesAreChains
    NoRecallSeesBoth
    NoRecallSeesNeither
PROPERTIES
    LedgerSpec
    EveryTransactionEnds
