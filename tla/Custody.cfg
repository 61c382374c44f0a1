CONSTANTS
    i1 = i1
    i2 = i2
    o1 = o1
    h1 = h1
    h2 = h2
    None = None
    Operations = {i1, i2}
    Objects = {o1}
    Hashes = {h1, h2}
    Admissions <- SharingAdmissions
    MaxDetached = 1
    Requests = {r1, r2}
SPECIFICATION Spec
INVARIANTS ContentBound AnswersKept
PROPERTY ObjectLife
SYMMETRY Symmetry
CONSTRAINT NotExposed
