SPECIFICATION Spec
CONSTANTS
    d1 = d1
    d2 = d2
    DocIds = {d1, d2}
    Contents <- SmallContents
    Words = {"a", "b"}
    Queries <- SmallQueries
    Searches = {1}
    Hash <- SmallHash
    Postgres = {TRUE, FALSE}
    Ranking = {"api"}
    None = None
    ChunkSize = 5
    Overlap = 2
    MaxCrashes = 1
INVARIANTS
    VectorsMatch
    ReadyIsWhole
    NeverBlank
    ProcessingIsOwned
SYMMETRY Symmetry
