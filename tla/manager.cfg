CONSTANTS
    n1 = n1
    pool = pool
    urls = urls
    r1 = r1
    r2 = r2
    h1 = h1
    h2 = h2
    h3 = h3
    Nil = Nil
    MaxEdits = 2
    Names = {n1}
    Versions = {pool, urls}
    Extracted = {pool}
    Ticking = {pool}
    Weights = {1, 2}
    Submitted <- TwoConfigs
    Yaml <- OneYaml
    Requests = {r1, r2}
    Handles = {h1, h2, h3}
SPECIFICATION FairSpec
INVARIANTS TypeOK PoolFollowsConfig FileFollowsMemory
PROPERTIES GoesOnRefreshing
