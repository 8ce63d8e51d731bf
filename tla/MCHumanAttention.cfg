CONSTANTS
    None = None
    i1 = i1
    i2 = i2
    l1 = l1
    l2 = l2
    l3 = l3
    l4 = l4
    pA = pA
    pB = pB
    d1 = d1
    d2 = d2
    agency = agency
    o1 = o1
    q1 = q1
    q2 = q2
    c1 = c1
    c2 = c2
    Issues = {i1, i2}
    Links = {l1, l2, l3, l4}
    Projects = {pA, pB}
    Records = {d1, d2}
    Others = {agency}
    Objects = {o1}
    ProjectOf <- MCProjectOf
    Requests = {q1, q2}
    Values = {"approve", "refuse"}
    Keys <- MCKeys
    Commands <- MCCommands
    Calls = {c1, c2}
    MaxVersion = 6
SPECIFICATION Spec
SYMMETRY Symmetry
INVARIANTS
    AttentionIsSound
    GatesAreKept
    AnswersAreRecorded
