\* Violated: one database error under the upsert of a resolution.
SPECIFICATION ProgressSpec
CONSTANTS
    Habits = {TRUE}
    TimeoutsHappen = FALSE
    MaxCrashes = 0
    MaxFaults = 1
    Workers = {w1}
    Predicates = {p1}
    Values = {v1}
    Agents = {a1}
    UuidAgents = {a1}
    Confidences = {high}
    ValidConfidences = {high}
    MaxVersion = 1
    MaxId = 1
    Tenants = {t1}
    Namespaces = {n1}
    Subjects = {s1}
    Reasons = {r1}
    Nobody = Nobody
    NoClaim = NoClaim
    NoRow = NoRow
PROPERTIES
    AcceptedBecomesDurable
