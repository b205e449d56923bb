SPECIFICATION Spec
CONSTANTS
    Credentials = {c1, c2}
    Lists = {l1, l2}
    Entries = {e1, e2, e3}
    Indices = {i1, i2, i3}
    Capacity = 1
    Slots = {r1, r2}
    Reissue = TRUE
    MaxFaults = 1
    None = None
SYMMETRY Symmetry
INVARIANTS
    TypeOK
    NobodyElseRevoked
    ListHasRoom
CHECK_DEADLOCK FALSE
