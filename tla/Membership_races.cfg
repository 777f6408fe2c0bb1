SPECIFICATION Spec
CONSTANTS
    m1 = m1  m2 = m2  m3 = m3  r1 = r1  r2 = r2
    None = None
    Members = {m1, m2, m3}
    Requests = {r1, r2}
INVARIANTS
    SerialInv
    OwnerUntilOverlap
PROPERTIES
    RaisedByOwner
    RemovedForGood
CHECK_DEADLOCK FALSE
