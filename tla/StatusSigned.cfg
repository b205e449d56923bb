SPECIFICATION Spec
CONSTANTS
    Credentials = {c1}
    Lists = {l1}
    Entries = {e1}
    Indices = {i1, i2}
    Capacity = 2
    Slots = {r1}
    Reissue = FALSE
    MaxFaults = 0
    None = None
SYMMETRY Symmetry
INVARIANTS
    AnsweredIsRejected
CHECK_DEADLOCK FALSE
