SPECIFICATION Spec
CONSTANTS
    DatasetNumber = 3
    PageCount = 2
    PageSize = 9
    HdrLen = 2
    Lens = {3, 4}
    MaxLen = 4
    g1 = g1
    g2 = g2
    Gens <- MCGens
    Worlds <- Relocating
SYMMETRY Symmetric
INVARIANTS
    NoTornRecord
    CommittedReadable
    NothingResurrected
    RebuildFits
    LookupUnambiguous
PROPERTIES
    ImplementsStore
