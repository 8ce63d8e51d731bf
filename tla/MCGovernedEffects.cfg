SPECIFICATION Spec
CONSTANTS
    d1 = d1
    b1 = b1
    b2 = b2
    q1 = q1
    h1 = h1
    h2 = h2
    c1 = c1
    c2 = c2
    k1 = k1
    k2 = k2
    s1 = s1
    s2 = s2
    r1 = r1
    ana = ana
    runtime = runtime
    ka = ka
    kb = kb
    t0 = t0
    t1 = t1
    w1 = w1
    w2 = w2
    None = None
    Unset = Unset
    Docs = {d1}
    Contents = {b1, b2}
    Decisions = {h1, h2}
    Sources <- MCSources
    Commands <- MCCommands
    Calls = {c1, c2}
    MaxMoves = 2
    Contracts = {k1, k2}
    Perimeter <- MCPerimeter
    Chunks <- MCChunks
    Runners = {r1}
    Humans = {ana}
    Systems = {runtime}
    Handmade <- MCHandmade
    Ingestions = 2
    RRF_K = 60
    TopK = 2
    CandidateK = 3
    MaxRecords = 1
    Items = {ka, kb}
    First <- MCFirst
    Typed = {t1}
    Slots = {w1, w2}
    LastVersion = 2
    LastKey = 2
    Nothing = Nothing
SYMMETRY Symmetry
CONSTRAINT FewEffects
ACTION_CONSTRAINT InOrder
INVARIANTS
    EffectsAreGoverned
    RetentionIsGrounded
    FusionIsFair
PROPERTIES
    EditorIsFaithful
