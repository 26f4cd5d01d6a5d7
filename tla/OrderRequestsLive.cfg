\* A submission and one retry, or a rival without a key: no symmetry, because
\* the liveness properties are checked here.
SPECIFICATION FairSpec
CONSTANTS
    p1 = p1
    k1 = k1
    k2 = k2
    c1 = c1
    small = small
    large = large
    empty = empty
    Pages = {p1}
    Nobody = Nobody
    Slots = {s1, s2}
    PageKeys = {k1}
    CallerKeys = {}
    NoKey = NoKey
    Payloads = {small, empty}
    Default = empty
    Valid = {small}
    MaxRequests = 3
PROPERTY KeyIsReleased
PROPERTY SubmissionEnds
