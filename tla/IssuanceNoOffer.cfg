SPECIFICATION FairSpec
CONSTANTS
    Clients = {c1}
    Offers = {o1}
    Sessions = {s1}
    Vcs = {v1}
    Slots = {r1, r2}
    OfferForms <- NoForms
    VpKind = "unmapped"
    OpenidKind = "plain"
    AdminOps = {"approve", "reject"}
    MockClient = None
    MaxMinted = 2
    MaxEntries = 1
    MaxFaults = 0
    None = None
PROPERTIES
    HolderIsServed
CHECK_DEADLOCK FALSE
