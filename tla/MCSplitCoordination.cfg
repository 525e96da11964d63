SPECIFICATION SplitSpec
CONSTANTS
    nodeA = nodeA
    nodeB = nodeB
    nodeC = nodeC
    key = key
    r1 = r1
    r2 = r2
    r3 = r3
    r4 = r4
    Node = {nodeA, nodeB, nodeC}
    Coordinator = {nodeA, nodeB}
    Key = {key}
    Run = {r1, r2, r3, r4}
    Plan <- Plans
    Generation <- Rivals
    StopGeneration = {1, 2, 3, 9}
    MaxTime = 0
    LeaseSpan = 1
    LocalFits = FALSE
    ShutdownAll = 9
    Faults = {"timeout", "suspicion", "death", "restart", "stop"}
INVARIANTS
    SplitTypeOK
    QuorumBeforeStage
    RouteBackedByStages
    StageHasKeeper
    MeterFollowsGeneration
CHECK_DEADLOCK FALSE
