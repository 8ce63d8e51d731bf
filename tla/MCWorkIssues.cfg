CONSTANTS
    i1 = i1
    r1 = r1
    None = None
    Issues = {i1}
    Runs = {r1}
    Keys = {k1, k2, k3, k4}
    Clients = {c1, c2}
    Commands <- MCCommands
    MaxVersion = 4
SPECIFICATION Spec
SYMMETRY Symmetry
INVARIANTS
    TypeOK
    OneCommandPerVersion
    AnsweredIsApplied
    LedgerIsTrue
PROPERTIES
    EndsAreFinal
CHECK_DEADLOCK FALSE
