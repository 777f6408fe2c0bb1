SPECIFICATION Spec
CONSTANTS
    p1 = p1  e1 = e1  e2 = e2  a1 = a1  a2 = a2  a3 = a3  a4 = a4
    j1 = j1  j2 = j2  w1 = w1  w2 = w2  r1 = r1  r2 = r2  g1 = g1  g2 = g2
    None = None
    Projects = {p1}
    Errors = {e1, e2}
    Attempts = {a1, a2}
    Prs = {r1, r2}
    Repos = {g1, g2}
    Jobs = {j1, j2}
    Workers = {w1}
    ProjectOf <- OneProject
    BranchOf <- SharedBranch
    MaxTries = 1
    Concurrency = 2
    MaxKills = 0
    MaxUnreported = 1
SYMMETRY Fresh
INVARIANTS
    UrlIsUnique
    UrlFollowsStatus
    MergedWasMerged
    OneOpenPrPerRepo
CHECK_DEADLOCK FALSE
