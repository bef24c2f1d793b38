\* Violated: two overlapping requests about one key, nothing fails.
SPECIFICATION Spec
CONSTANTS
    Habits = {FALSE}
    TimeoutsHappen = FALSE
    MaxCrashes = 0
    MaxFaults = 0
    Workers = {w1, w2}
    Predicates = {p1}
    Values = {v1, v2}
    Agents = {a1}
    UuidAgents = {a1}
    Confidences = {high}
    ValidConfidences = {high}
    MaxVersion = 2
    MaxId = 1
    Tenants = {t1}
    Namespaces = {n1}
    Subjects = {s1}
    Reasons = {r1}
    Nobody = Nobody
    NoClaim = NoClaim
    NoRow = NoRow
INVARIANTS
    MirrorAgreesWhenQuiet
