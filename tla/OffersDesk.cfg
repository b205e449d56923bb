SPECIFICATION FairSpec
CONSTANTS
    Offers = {1, 2}
    Keys = {11}
    Slots = {r1, r2}
    Makers = {"desk", "client", "interop", "scope"}
    Batch <- AuthThenPre
    Old = {1}
    Life = 1
    MaxTime = 2
    MaxFaults = 1
    MaxEvents = 3
    None = None
INVARIANTS
    TypeOK
    FetchedIsAccepted
    AnsweredIsRedeemable
    UsedWasHanded
    DeskSeesOwn
PROPERTIES
    DeletedStaysGone
    MarkedUsed
CHECK_DEADLOCK FALSE
