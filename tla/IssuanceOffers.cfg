SPECIFICATION Spec
CONSTANTS
    Clients = {c1}
    Offers = {o1}
    Sessions = {s1, s2}
    Vcs = {v1, v2}
    Slots = {r1, r2}
    OfferForms <- PlainForms
    VpKind = "unmapped"
    OpenidKind = "unmapped"
    AdminOps = {"approve", "reject", "reopen", "delete", "detach"}
    MockClient = None
    MaxMinted = 2
    MaxEntries = 2
    MaxFaults = 1
    None = None
SYMMETRY Symmetry
INVARIANTS
    TypeOK
    IssuedHasStatusEntry
    DeliveredHasStatusEntry
    IssuedBackedByOffer
    OneCredentialPerOffer
    ClaimedWasIssued
PROPERTIES
    DeletedStaysDeleted
CHECK_DEADLOCK FALSE
