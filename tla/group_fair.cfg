CONSTANTS
    a = a
    b = b
    c = c
    d = d
    P = P
    Q = Q
    Nil = Nil
    Proxies = {a, b, c, d}
    ProviderOf <- AbPcQ
    Tunnels = {c}
    WeightOf <- Heavy
    CountryOf <- Countries
    Orders <- TwoOrders
    Groups <- TwoGroups
    Churning = {a, c}
    Measured = {a, b}
    Latencies = {0, 10, 40}
    FallsShort = {}
SPECIFICATION FairSchedule
INVARIANTS ScheduleTypeOK ExactShare PrimaryFirst
PROPERTIES NobodyStarves
