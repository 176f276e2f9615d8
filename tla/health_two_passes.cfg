CONSTANTS
    t1 = t1
    t2 = t2
    o1 = o1
    o2 = o2
    o3 = o3
    i1 = i1
    i2 = i2
    i3 = i3
    run = run
    once = once
    None = None
    Objs = {o1}
    IDs = {i1}
    IdOf <- OneToOne
    Providers = {p1}
    ProviderOf <- OneOwner
    Tiers <- OneTier
    TierOf <- AllSame
    Countries = {cn}
    Threads = {t1, t2}
    Passes = {run, once}
    RunPass = run
    PassOf <- OwnPass
    Loaded = {o1}
    Free = {}
    MaxFlips = 3
SPECIFICATION FairSpec
PROPERTIES FailingProxyLeaves PassesEnd
