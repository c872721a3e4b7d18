SPECIFICATION Spec
CONSTANTS
    log = log
    diff = diff
    page = page
    g1 = g1
    Contents <- MCContents
    NoContent = NoContent
    Size <- MCSize
    MaxBytes = 2
    TTL = 1
    Epoch = 6
    Getters <- MCGetters
    Faults <- ContentFault
    MaxTime = 2
    MaxAliases = 3
INVARIANTS
    TypeOK
    IndexedBounded
    Retained
PROPERTY
    ImplementsArchive
SYMMETRY SmallOnes
