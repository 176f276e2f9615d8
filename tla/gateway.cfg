CONSTANTS
    a = a
    b = b
    t = t
    c1 = c1
    c2 = c2
    P = P
    Q = Q
    Nil = Nil
    Proxies = {a, b, t}
    ProviderOf <- AbPQ
    Tunnels = {t}
    WeightOf <- Even
    CountryOf <- Anywhere
    Orders <- OneOrder
    Groups <- OneGroup
    Churning = {a}
    Measured = {}
    Latencies = {0}
    FallsShort = {}
    Clients = {c1, c2}
    KindsOf <- MixedKinds
    MaxProxyAttempts = 2
SPECIFICATION FairSpec
INVARIANTS TypeOK
PROPERTIES BodyAtMostOnce HonestRefusal RequestsEnd
