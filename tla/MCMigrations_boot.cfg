\* Processes of three builds boot, race, die and are replaced.  No symmetry:
\* liveness is checked too.
SPECIFICATION FairSpec
CONSTANTS
    Processes = {p1, p2}
    Texts = {a, b, c, edited}
    Builds <- ThreeBuilds
    Histories <- SqlxHistories
    MaxVersion = 3
    Unrecorded = Unrecorded
    a = a
    b = b
    c = c
    edited = edited
INVARIANTS
    SchemaIsOneBuild
    RecordsAreTrue
    ServesOnItsSchema
PROPERTIES
    EveryBootEnds
