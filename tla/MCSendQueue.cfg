SPECIFICATION FairSpec
CHECK_DEADLOCK FALSE
CONSTANTS
    p1 = p1
    p2 = p2
    Producers <- MCProducers
    Capacity = 3
    Sizes = {1, 4}
    MaxBatches = 3
INVARIANTS
    CapacityBound
    DepthExact
    DropsCounted
    DrainLeavesNothing
PROPERTIES
    ImplementsFifo
    EveryBatchSettles
    DrainReturns
