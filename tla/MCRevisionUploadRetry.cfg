CONSTANTS
    h1 = h1
    h2 = h2
    u1 = u1
    u2 = u2
    u3 = u3
    p1 = p1
    d1 = d1
    d2 = d2
    d3 = d3
    None = None
    Requests = {h1, h2}
    Uploads = {u1}
    Documents = {p1}
    DocumentOf <- OneUpload
    Digests = {d1, d2}
    Contents <- OneContent
    Handled = {u1}
    MaxFaults = 2
SPECIFICATION FairSpec
INVARIANTS
    UploadsAreTruthful
PROPERTIES
    AdmissionIsFinal
    RepeatedUploadIsAnswered
