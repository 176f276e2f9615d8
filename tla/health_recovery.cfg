CONSTANTS
    t1 = t1
    t2 = t2
    o1 = o1
    o2 = o2
    o3 = o3
    i1 = i1
    i2 = i2
    i3 = i3
    run = run
    once = once
    None = None
    Objs = {o1, o2}
    IDs = {i1, i2}
    IdOf <- OneToOne
    Providers = {p1}
    ProviderOf <- OneOwner
    Tiers <- OneTier
    TierOf <- AllSame
    Countries = {}
    Threads = {t1, t2}
    Passes = {run}
    RunPass = run
    PassOf <- SamePass
    Loaded = {o1, o2}
    Free = {}
    MaxFlips = 4
SPECIFICATION FairSpec
PROPERTIES RecoveredProxyReturns
