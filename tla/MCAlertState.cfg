SPECIFICATION Spec
CONSTANTS
    Definitions <- MCDefinitions
    Rows <- MCRows
    Hash <- MCHash
    MaxRows = 2
    MaxTime = 6
INVARIANTS
    OneInstancePerLabelSet
    ReturnedIsTracked
    InstancesReproducible
    EvaluationSettles
PROPERTIES
    FiresOnlyAfterFor
    ResolvesOnlyAfterKeep
    NotForgotten
