SPECIFICATION Spec
CONSTANTS
    DatasetNumber = 2
    PageCount = 2
    PageSize = 6
    HdrLen = 2
    Lens = {2, 3}
    MaxLen = 3
    g1 = g1
    g2 = g2
    Gens <- MCGens
    Worlds <- Unruly
SYMMETRY Symmetric
INVARIANTS
    TypeOK
    FlashHoldsAcked
    ReservedIdNeverStored
PROPERTIES
    AcceptedIsWhole
