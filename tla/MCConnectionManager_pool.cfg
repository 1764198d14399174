SPECIFICATION Spec
CONSTANTS
    p1 = p1  p2 = p2  p3 = p3
    c1 = c1  c2 = c2  c3 = c3
    n1 = n1  n2 = n2
    g1 = g1  g2 = g2
    k1 = k1
    Callers = {p1, p2}
    Names = {n1, n2}
    Conns = {c1, c2}
    Configs = {g1, g2}
    Keys = {k1}
    NonReusable = NonReusable
    MaxConnections = 1
    Ops = {"connect", "connect_lease", "jump", "get", "get_lease", "remove", "close_all", "prune"}
    None = None
SYMMETRY Symmetry
INVARIANTS TypeOK NoDanglingReference LeaseAccounting GrantsWhatWasAsked EmptyWhileSettingUp CapacityAccounting
PROPERTIES ImplementsPool
