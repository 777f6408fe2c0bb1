SPECIFICATION Spec
CONSTANTS
    a = a  p = p  q = q  o1 = o1  o2 = o2  i1 = i1  i2 = i2  i3 = i3
    s1 = s1  s2 = s2  r1 = r1  r2 = r2  c1 = c1  c2 = c2
    None = None
    People = {a, p, q}
    Admin = a
    Orgs = {o1, o2}
    Invites = {i1, i2, i3}
    Signups = {s1}
    Requests = {r1, r2}
    Changes = {c1}
    Slots = 2
SYMMETRY Symmetry
INVARIANTS
    IInv
    OneOrganizationPerUser
    OrganizationsHaveOwners
    SingleOrgModel
PROPERTIES
    DecisionsAreFinal
    FoundedOnApproval
    UsersJoinByFounding
