CONSTANTS
    a = a
    b = b
    all = all
    some = some
    k1 = k1
    k2 = k2
    c1 = c1
    c2 = c2
    w1 = w1
    w2 = w2
    Nil = Nil
    Proxies = {a, b}
    Groups = {all, some}
    InGroup <- TwoGroups
    Churning = {a}
    Clients = {k1, k2}
    Calls = {c1, c2}
    Workers = {w1, w2}
    Windows = {2}
    MaxSessions = 1
    MaxNow = 2
SPECIFICATION Spec
INVARIANTS TypeOK
PROPERTIES StickyHolds
SYMMETRY Symmetry
