CONSTANTS
    h1 = h1
    h2 = h2
    u1 = u1
    u2 = u2
    u3 = u3
    p1 = p1
    d1 = d1
    d2 = d2
    d3 = d3
    None = None
    Requests = {h1, h2}
    Uploads = {u1, u2, u3}
    Documents = {p1}
    DocumentOf <- OneDocument
    Digests = {d1, d2, d3}
    Contents <- Overlapping
    Handled = {}
    MaxFaults = 0
SPECIFICATION Spec
SYMMETRY Symmetry
INVARIANTS
    UploadsAreSound
    AnsweredIsPreserved
