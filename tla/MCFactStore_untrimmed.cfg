\* Violated: the digest is of the content sent, the content stored is trimmed.
SPECIFICATION Spec
CONSTANTS
    Workers = {w1, w2}
    Tenants = {t1}
    Contents = {plain, padded}
    Windows <- NoWindows
    LinkedAppends = FALSE
    MaxRows = 2
    MaxTime = 1
    Trimmed <- TrimBlanks
    plain = plain
    padded = padded
    other = other
INVARIANTS
    AtMostOneActive
