\* Two tenants' claims about one thing, every sequence of calls: two agents, two
\* values, two versions, and a re-creation after a forget.
SPECIFICATION Spec
CONSTANTS
    Tenants = {t1, t2}
    Namespaces = {n1}
    Subjects = {s1}
    Predicates = {p1}
    Values = {v1, v2}
    Confidences = {high}
    Agents = {a1, a2}
    Reasons = {r1}
    Nobody = Nobody
    NoClaim = NoClaim
    MaxId = 2
    MaxVersion = 2
SYMMETRY Interchangeable
INVARIANTS
    TypeOK
    OneVotePerAgent
    DecisionsAreAttributed
    DisputesAreSurfaced
PROPERTIES
    TerminalIsFinal
    VersionNamesContent
    SignalsEndWithTheirValue
    GovernanceSpec
