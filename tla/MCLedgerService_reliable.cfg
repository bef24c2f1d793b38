\* Nothing fails and clients wait for their answers: the mirror follows the ledger.
SPECIFICATION ProgressSpec
CONSTANTS
    Habits = {TRUE}
    TimeoutsHappen = FALSE
    MaxCrashes = 0
    MaxFaults = 0
    Workers = {w1, w2}
    Predicates = {p1, p2}
    Values = {v1}
    Agents = {a1}
    UuidAgents = {a1}
    Confidences = {high}
    ValidConfidences = {high}
    MaxVersion = 2
    MaxId = 2
    Tenants = {t1}
    Namespaces = {n1}
    Subjects = {s1}
    Reasons = {r1}
    Nobody = Nobody
    NoClaim = NoClaim
    NoRow = NoRow
INVARIANTS
    MirrorAgreesWhenQuiet
PROPERTIES
    AcceptedBecomesDurable
