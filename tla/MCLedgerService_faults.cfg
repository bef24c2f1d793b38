\* Everything at once: overlapping requests, timeouts, a database error, a
\* crash, and a confidence the table's CHECK refuses; from clients that wait for
\* their answers and from clients that do not.
SPECIFICATION Spec
CONSTANTS
    Habits = {TRUE, FALSE}
    TimeoutsHappen = TRUE
    MaxCrashes = 1
    MaxFaults = 1
    Workers = {w1, w2}
    Predicates = {p1}
    Values = {v1, v2}
    Agents = {a1}
    UuidAgents = {}
    Confidences = {high, tooHigh}
    ValidConfidences = {high}
    MaxVersion = 2
    MaxId = 2
    Tenants = {t1}
    Namespaces = {n1}
    Subjects = {s1}
    Reasons = {r1}
    Nobody = Nobody
    NoClaim = NoClaim
    NoRow = NoRow
SYMMETRY Interchangeable
INVARIANTS
    TypeOK
    MirrorMakesNothingUp
    RowsAreCoherent
    AnsweredVerdictsAreDurable
PROPERTIES
    MirrorNeverRegresses
    SessionsWriteInOrder
