CONSTANTS
    None = None
    k1 = k1
    e1 = e1
    e2 = e2
    vA = vA
    vB = vB
    tP = tP
    tU = tU
    tA = tA
    tB = tB
    tH = tH
    c1 = c1
    c2 = c2
    Items = {k1}
    Edits = {e1, e2}
    Texts = {tP, tU, tA, tB, tH}
    Variants = {vA, vB}
    VariantOf <- MCVariantOf
    Keys <- MCKeys
    Commands <- MCCommands
    Calls = {c1, c2}
    MaxVersion = 3
SPECIFICATION Spec
SYMMETRY Symmetry
INVARIANTS
    TypeOK
    LedgerExplainsItem
    EditsApplyOnce
    ProposalsAreWhole
