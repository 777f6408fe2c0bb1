SPECIFICATION Spec
CONSTANTS
    p1 = p1  p2 = p2  r1 = r1  r2 = r2  r3 = r3  r4 = r4
    x1 = x1  x2 = x2  x3 = x3  k1 = k1  t1 = t1
    None = None
    Kinds = {k1}
    Traces = {t1}
    Projects = {p1, p2}
    Requests = {r1, r2, r3, r4}
    Rows = {x1, x2}
    ReportOf <- Duplicates
    MaxFailures = 0
INVARIANTS
    CountIsExact
CHECK_DEADLOCK FALSE
