SPECIFICATION ProjectSpec
CONSTANTS
    o1 = o1  o2 = o2  i1 = i1  i2 = i2  f1 = f1  r1 = r1
    p1 = p1  x1 = x1  x2 = x2  k1 = k1  w1 = w1
    None = None
    Orgs = {o1, o2}
    Installs = {i1, i2}
    Flows = {f1}
    Requests = {r1}
    MaxEvents = 0
    Projects = {p1}
    Repos = {x1, x2}
    AccountOf <- Accounts
    ClaudeKeys = {k1}
    Forms = {w1}
    MaxKeys = 2
SYMMETRY Symmetry
INVARIANTS
    ProjectTypeOK
    ReposOfOwnInstallation
PROPERTIES
    NothingRevived
CHECK_DEADLOCK FALSE
