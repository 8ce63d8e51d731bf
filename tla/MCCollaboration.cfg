SPECIFICATION Spec
CONSTANTS
    pm = pm
    px = px
    im = im
    ix = ix
    v1 = v1
    v2 = v2
    d1 = d1
    e1 = e1
    e2 = e2
    f1 = f1
    f2 = f2
    c1 = c1
    c2 = c2
    None = None
    Principals = {pm, px}
    Identities = {im, ix}
    Revisions = {v1, v2}
    DocumentOf <- MCDocumentOf
    MaxRows = 5
    ProjectDocuments = {d1}
    Captures = {e1, e2}
    References = {f1, f2}
    MaxRevisions = 2
    Keys <- MCKeys
    Commands <- MCCommands
    Calls = {c1, c2}
    Autocommit = FALSE
SYMMETRY Symmetry
ACTION_CONSTRAINT InOrder
INVARIANTS
    OnlyGrantedActs
    RecordsAreOneLine
PROPERTIES
    NothingIsTakenOver
    NothingIsGuessed
\* The commands run out: the instance may stop.
CHECK_DEADLOCK FALSE
