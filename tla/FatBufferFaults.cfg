SPECIFICATION FaultySpec
CONSTANTS
    Stride = 3
    N = 2
    FatBytes = 4
    NumFats = 2
    ImageBytes = 9
    BufferSize = 2
    ChunkSize = 3
    Nibble = {0, 1}
    Written <- MCWritten
    Images <- MCImages
    NoResult = NoResult
    Done = Done
    Refused = Refused
    BadRead = BadRead
PROPERTIES FailureConfined
