SPECIFICATION Spec
CONSTANTS
    Projects <- MCProjects
    DepTypes = {"normal", "msvc"}
    MaxOpen = 6
    MaxLength = 12
INVARIANTS
    TypeOK
    SourceKept
    DependenciesExact
    RefusesOnlyIllegal
PROPERTIES
    Ends
