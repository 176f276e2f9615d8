CONSTANTS
    Providers = {p, f}
    Free = {f}
    Administered = {p}
    MinAliveRatio <- Sixty
    Counts <- Pairs
    Never = Never
SPECIFICATION FairSpec
INVARIANTS TypeOK WindowHidesNoChange
PROPERTIES ToldTheTruth KeepsTrying
