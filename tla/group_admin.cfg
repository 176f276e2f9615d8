CONSTANTS
    P = P
    Q = Q
    root = root
    ann = ann
    bob = bob
    east = east
    west = west
    c1 = c1
    c2 = c2
    Nil = Nil
    r1 = r1
    r2 = r2
    checker = checker
    Handlers = {r1, r2}
    Rebuilders = {checker}
    Accounts = {root, bob}
    Admins = {root}
    Bodies <- SomeBodies
    Providers = {P, Q}
    Names = {east, west}
    Creds = {c1, c2}
    Configured <- EastOfAnn
    MaxChanges = 2
SPECIFICATION Spec
SYMMETRY RequestSymmetry
INVARIANTS TypeOK Settled
PROPERTIES InEffect
