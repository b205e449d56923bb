SPECIFICATION Spec
CONSTANTS
    Clients = {c1, c2}
    Offers = {o1, o2}
    Sessions = {s1, s2}
    Vcs = {v1, v2}
    Slots = {r1, r2}
    OfferForms <- ScopeForms
    VpKind = "plain"
    OpenidKind = "itInTime"
    AdminOps = {"approve"}
    MockClient = c1
    MaxMinted = 2
    MaxEntries = 1
    MaxFaults = 0
    None = None
SYMMETRY Symmetry
INVARIANTS
    IssuedHasStatusEntry
    SubjectIsOfferee
CHECK_DEADLOCK FALSE
