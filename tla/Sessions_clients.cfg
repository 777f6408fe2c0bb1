SPECIFICATION Spec
CONSTANTS
    p1 = p1  o1 = o1  o2 = o2  t1 = t1  t2 = t2  r1 = r1  r2 = r2
    None = None
    People = {p1}
    Orgs = {o1, o2}
    Tokens = {t1, t2}
    Requests = {r1, r2}
    Ttl = 2
INVARIANTS
    TypeOK
    ActsAsMember
PROPERTIES
    ImplementsSessionLife
    AbandonedSessionsEnd
