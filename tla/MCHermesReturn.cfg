CONSTANTS
    k1 = k1
    k2 = k2
    k3 = k3
    x1 = x1
    x2 = x2
    NoReturn = NoReturn
    Runs = {r1}
    Calls = {c1, c2}
    CallKeys = {k1, k2, k3}
    Contents = {x1, x2}
    Carries <- OnePayload
    MaxIssueVersion = 5
SPECIFICATION ReturnSpec
SYMMETRY Symmetry
INVARIANTS
    ReturnIsSound
PROPERTIES
    ReturnIsKept
CHECK_DEADLOCK FALSE
