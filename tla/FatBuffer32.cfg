SPECIFICATION Spec
CONSTANTS
    Stride = 8
    N = 2
    FatBytes = 8
    NumFats = 2
    ImageBytes = 17
    BufferSize = 5
    ChunkSize = 5
    Nibble = {0, 1}
    Written <- MCWritten
    Images <- MCImages
    NoResult = NoResult
    Done = Done
    Refused = Refused
    BadRead = BadRead
INVARIANTS TypeOK
PROPERTIES ReservedBitsKept ImplementsTable CopiesExact
