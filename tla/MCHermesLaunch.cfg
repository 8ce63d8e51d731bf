CONSTANTS
    None = None
    Admissions = {a1}
    HermesRuns = {r1, r2}
    Bindings = {b1, b2}
    Keys = {k1, k2}
    MaxVersion = 4
SPECIFICATION Spec
SYMMETRY Symmetry
INVARIANTS
    TypeOK
    OneSubmission
    RevokedNeverConsumed
    RegistrationIsExact
PROPERTIES
    ImplementsRunDispatch
CHECK_DEADLOCK FALSE
