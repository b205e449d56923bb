SPECIFICATION FairSpec
CONSTANTS
    Credentials = {c1, c2}
    Lists = {l1, l2}
    Entries = {e1, e2, e3}
    Indices = {i1, i2, i3}
    Capacity = 2
    Slots = {r1}
    Reissue = FALSE
    MaxFaults = 1
    None = None
INVARIANTS
    MarkedIsListed
    AnsweredIsListed
PROPERTIES
    RegistrySpec
    RevocationLasts
CHECK_DEADLOCK FALSE
