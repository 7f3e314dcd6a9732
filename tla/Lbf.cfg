SPECIFICATION Spec
CONSTANTS
    Byte = 3
    InitialSize = 2
    MemorySize = 8
    Characters <- MCCharacters
    Sources <- MCSources
    Inputs <- MCInputs
INVARIANTS
    ReadExact
    CompiledAgrees
PROPERTIES
    ImplementsMachine
    CompiledEnds
