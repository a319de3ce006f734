SPECIFICATION Spec
CONSTANTS
    DatasetNumber = 3
    PageCount = 2
    PageSize = 8
    HdrLen = 2
    Lens = {3}
    MaxLen = 3
    g1 = g1
    g2 = g2
    Gens <- MCGens
    Worlds <- Gap
SYMMETRY Symmetric
INVARIANTS
    CommittedReadable
