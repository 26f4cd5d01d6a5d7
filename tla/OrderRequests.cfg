\* One page, one API caller, three requests: a submission, its retry while the
\* first COMMIT is still in flight, and a rival with the same or no key.
SPECIFICATION Spec
CONSTANTS
    p1 = p1
    k1 = k1
    k2 = k2
    c1 = c1
    small = small
    large = large
    empty = empty
    Pages = {p1}
    Nobody = Nobody
    Slots = {s1, s2}
    PageKeys = {k1, k2}
    CallerKeys = {c1}
    NoKey = NoKey
    Payloads = {small, large, empty}
    Default = empty
    Valid = {small, large}
    MaxRequests = 3
SYMMETRY Interchangeable
INVARIANT TypeOK
INVARIANT OneOrderPerIntent
INVARIANT ConfirmedIsMine
INVARIANT RecordsComplete
PROPERTY OnceOnlySpec
