SPECIFICATION Spec
CONSTANTS
    AutoAdmin = auto
    Clients = {auto, c1, c2}
    Keys = {k1, k2, k3}
    CustomProfiles = {p}
    Common = common
    OtherBuiltins = {}
    NoAccount = NoAccount
    NoClient = NoClient
    GenerateAdmin = {TRUE, FALSE}
    MaxFaults = 1
    MaxRestarts = 2
CHECK_DEADLOCK FALSE
SYMMETRY AccountSymmetry
INVARIANTS
    TypeOK
    ProfilesExist
    IndexExact
PROPERTIES
    KeysFollowRegistry
    AdminRemains
