\* Violated: a replacement with a valid_from of its own.
SPECIFICATION Spec
CONSTANTS
    Workers = {w1, w2}
    Tenants = {t1}
    Contents = {plain, other}
    Windows <- AnyWindows
    LinkedAppends = FALSE
    MaxRows = 2
    MaxTime = 2
    Trimmed <- TrimBlanks
    plain = plain
    padded = padded
    other = other
INVARIANTS
    NoRecallSeesBoth
