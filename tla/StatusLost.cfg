SPECIFICATION Spec
CONSTANTS
    Credentials = {c1, c2}
    Lists = {l1}
    Entries = {e1, e2}
    Indices = {i1, i2}
    Capacity = 2
    Slots = {r1, r2}
    Reissue = FALSE
    MaxFaults = 0
    None = None
SYMMETRY Symmetry
INVARIANTS
    AnsweredIsListed
CHECK_DEADLOCK FALSE
