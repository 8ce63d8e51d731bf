SPECIFICATION Spec
CONSTANTS
    p1 = p1
    x1 = x1
    x2 = x2
    rA = rA
    rB = rB
    r1 = r1
    k1 = k1
    k2 = k2
    i1 = i1
    i2 = i2
    i3 = i3
    d1 = d1
    o1 = o1
    o2 = o2
    m1 = m1
    m2 = m2
    l1 = l1
    l2 = l2
    g1 = g1
    g2 = g2
    g3 = g3
    g4 = g4
    a1 = a1
    a2 = a2
    c1 = c1
    c2 = c2
    None = None
    Projects = {p1}
    Executions = {x1, x2}
    Results = {rA, rB, r1}
    ItemOf <- MCItemOf
    Fields = {"f", "g"}
    Values = {1}
    MaxRevision = 3
    Claims = {k1, k2}
    Listed = {"parcelle"}
    Single = {"zone"}
    Times = {1, 2, 3}
    Cards = {i1, i2, i3}
    Documents = {d1}
    Texts = {"t", "u"}
    CardRevisions = 3
    MaxProjection = 3
    Objects = {o1, o2}
    Mappings = {m1, m2}
    Offers <- MCOffers
    Source <- MCSource
    Bundled = {m2}
    OwnerRevisions = 3
    Relations = {l1, l2}
    ProjectOf <- MCProjectOf
    Categories = {g1, g2, g3, g4}
    Assignments = {a1, a2}
    TypeOf <- MCTypeOf
    Keys <- MCKeys
    Commands <- MCCommands
    Calls = {c1, c2}
    Autocommit = TRUE
SYMMETRY Symmetry
ACTION_CONSTRAINT InOrder
INVARIANTS
    RelationsAreSound
    CategoriesAreSound
PROPERTIES
    ChangesAreSound
    ClaimsAreKept
    CardsAreSound
    AnatomyIsAuthorized
\* Identifiers and revisions are bounded: a series may come to its last version.
CHECK_DEADLOCK FALSE
