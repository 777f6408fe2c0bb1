SPECIFICATION Spec
CONSTANTS
    o1 = o1  o2 = o2  i1 = i1  i2 = i2  f1 = f1  f2 = f2  r1 = r1  r2 = r2
    None = None
    Orgs = {o1, o2}
    Installs = {i1, i2}
    Flows = {f1, f2}
    Requests = {r1, r2}
    MaxEvents = 2
SYMMETRY Symmetry
INVARIANTS
    TypeOK
    BoundByOwnFlow
    StatusFollowsGithub
CHECK_DEADLOCK FALSE
