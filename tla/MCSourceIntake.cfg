CONSTANTS
    NoSource = NoSource
    Requests = {h1, h2}
    Sources = {s1, s2}
    IntakeKeys = {k1, k2}
    SourceRevisions = 3
SPECIFICATION IntakeSpec
SYMMETRY Symmetry
INVARIANTS
    SourceIsExplained
    DirectAnswerIsDurable
