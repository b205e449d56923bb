SPECIFICATION FairSpec
CONSTANTS
    Clients = {c1}
    Offers = {o1}
    Sessions = {s1}
    Vcs = {v1, v2}
    Slots = {r1, r2}
    OfferForms <- AuthPlain
    VpKind = "unmapped"
    OpenidKind = "unmapped"
    AdminOps = {"approve", "reject"}
    MockClient = None
    MaxMinted = 3
    MaxEntries = 1
    MaxFaults = 0
    None = None
PROPERTIES
    HolderIsServed
CHECK_DEADLOCK FALSE
