CONSTANTS
    t1 = t1
    t2 = t2
    o1 = o1
    o2 = o2
    i1 = i1
    p1 = p1
    None = None
    Objs = {o1, o2}
    IDs = {i1}
    IdOf <- TwoGenerations
    Providers = {p1}
    ProviderOf <- OneProvider
    Tiers <- TwoTiers
    TierOf <- Mixed
    Countries = {}
    Threads = {t1, t2}
SYMMETRY ThreadSymmetry
SPECIFICATION Spec
INVARIANTS TypeOK ScanSeesOneRegistry ExactUnlessOvertaken
