SPECIFICATION Spec
CONSTANTS
    Requests = {r1, r2, r3}
    Orgs = {o1}
    Emails = {e1, e2}
    Rosters <- SomeRosters
    NodeIds = {n1}
    Mesh = {n1}
    OneOrg = o1
    Other = e2
    OrgOf <- SameOrg
    MaxKey = 2
    MaxDrops = 1
    None = None
SYMMETRY Symmetry
CONSTRAINT NotLate
INVARIANTS RegistryKept ConnectorsMatch
