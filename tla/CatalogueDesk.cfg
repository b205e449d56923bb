SPECIFICATION Spec
CONSTANTS
    Templates = {1, 2, 3}
    Definitions = {1, 2}
    Mappings = {1, 2}
    Slots = {r1, r2}
    DefaultNames <- TwoDefaults
    Verification = "verification"
    AdminNames = {None}
    Displays = {"ours"}
    AdminTypes = {"diploma", "studentId"}
    AdminOps = {"create", "update", "remove", "define", "redefine", "undefine", "map", "unmap"}
    Window = 2
    MaxCrashes = 1
    MaxEvents = 3
    None = None
SYMMETRY Symmetry
INVARIANTS
    TypeOK
    ScopeMapsToOne
    ListedWhenCalm
    TestsComplete
CHECK_DEADLOCK FALSE
