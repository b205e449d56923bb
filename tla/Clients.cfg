SPECIFICATION ClientsSpec
CONSTANTS
    Students = {1, 2}
    Vcs = {v1}
    Dids = {v1, d2}
    DidOf <- OwnDid
    Tabs = {t1}
    Slots = {f1, f2}
    Polling = {}
    Clerking = {"detach", "delete"}
    Retries = 1
    MaxFaults = 2
    MaxEvents = 3
    None = None
    Items = {1, 2, 3}
    Age <- TwoOfAnAge
    Marks = {"pending", "issued"}
    Texts = {"a", "bad"}
    Named <- OneText
    Unsearchable = {"bad"}
    PageSizes = {1, 2}
    DefaultSize = 1
    Fixed = "pending"
    MaxMoves = 3
    MaxWrites = 1
    MaxLost = 1
    Headers0 <- FiveHeaders
    Permanent <- RowMenu
    Attempts = {1, 2}
    HolderOf <- OneHolder
    Plans <- PlanPairs
    Conformance = TRUE
    OpenidMapped = FALSE
    States = {s1, s2, s3}
    Creds = {c1, c2}
    Offers = {1}
    Workers = {1, 2}
    MaxAgain = 1
    Nobody = Nobody
SYMMETRY Symmetry
INVARIANTS
    TypeOK
    CreatedOnce
    ChosenOwns
    ShownIsStored
    RestShowsAsked
    WalkSeesAll
    MovesItsWay
    HoldsItsOwn
    InOrderIsServed
PROPERTY OnlyWhatWasAsked
CHECK_DEADLOCK FALSE
