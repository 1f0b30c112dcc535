SPECIFICATION Spec
CONSTANTS
    Queries <- MCQueries
    Sources = {"a", "b"}
    Target <- MCTarget
    GlobalCap = 2
    SourceCap <- MCSourceCap
INVARIANTS
    SlowSourceIsConfined
