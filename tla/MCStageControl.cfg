SPECIFICATION StageSpec
CONSTANTS
    n1 = n1
    c1 = c1
    c2 = c2
    k1 = k1
    k2 = k2
    p1 = p1
    p2 = p2
    r1 = r1
    r2 = r2
    r3 = r3
    r4 = r4
    Node = {n1}
    Coordinator = {c1, c2}
    Key = {k1, k2}
    Plan = {p1, p2}
    Run = {r1, r2, r3, r4}
    Generation <- MCGeneration
    StopGeneration = {1, 2}
    MaxTime = 2
INVARIANTS
    StageTypeOK
    StagesBelongToClaim
    OneStagePerKey
PROPERTIES
    ClaimNeverGoesBack
    ImplementsFencedSlot
