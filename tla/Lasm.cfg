SPECIFICATION Spec
CONSTANT Programs <- All
INVARIANT TypeOK
INVARIANT MeansProgram
INVARIANT StatementsInOrder
INVARIANT FileExact
INVARIANT RefusesOnlyIllegal
PROPERTY NeverGrows
PROPERTY Ends
