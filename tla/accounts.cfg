CONSTANTS
    ann = ann
    bob = bob
    t1 = t1
    t2 = t2
    pw = pw
    Nil = Nil
    o1 = o1
    o2 = o2
    o3 = o3
    Objects = {o1, o2, o3}
    Names = {ann, bob}
    Tokens = {t1, t2}
    Passwords = {pw}
    Standings <- TwoStandings
    Configured <- AnnAndBob
SPECIFICATION Spec
INVARIANTS TypeOK TokenIndexSound TokensWork FileMatches
PROPERTIES RestartKeeps
SYMMETRY CellSymmetry
