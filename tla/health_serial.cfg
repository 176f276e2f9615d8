CONSTANTS
    t1 = t1
    t2 = t2
    o1 = o1
    o2 = o2
    o3 = o3
    i1 = i1
    i2 = i2
    i3 = i3
    run = run
    once = once
    None = None
    Objs = {o1, o2, o3}
    IDs = {i1, i2, i3}
    IdOf <- OneToOne
    Providers = {p1}
    ProviderOf <- OneOwner
    Tiers <- TwoLevels
    TierOf <- Levelled
    Countries = {}
    Threads = {t1}
    Passes = {run}
    RunPass = run
    PassOf <- SamePass
    Loaded = {o1, o2, o3}
    Free = {o2}
    MaxFlips = 3
SPECIFICATION FairSpec
INVARIANTS ServesBestLevel
PROPERTIES FailingProxyLeaves RecoveredProxyReturns
