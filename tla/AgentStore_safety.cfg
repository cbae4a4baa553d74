SPECIFICATION Spec
CONSTANTS
    Names = {n1, n2}
    Contents = {a, b}
    None = None
    Cut = Cut
    Unsized = Unsized
    MaxDisturbances = 2
SYMMETRY AgentSymmetry
INVARIANTS
    TypeOK
    AnswersAreDurable
    StartRepairsCopies
    UndisturbedPlacesAgree
