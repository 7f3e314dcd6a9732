SPECIFICATION Spec
CONSTANTS
    Names <- MCNames
    Pieces <- MCPieces
    Alias <- Distinct
    ClusterSlots = 3
    First = 1
    Pool = {2, 3}
    DataLooksLong = FALSE
    MaxKills = 1
    Dots = Dots
    Nobody = Nobody
    NoText = NoText
    n1 = n1
    n2 = n2
    n3 = n3
    p1 = p1
    p2 = p2
    p3 = p3
    p4 = p4
    A1 = A1
    A2 = A2
    A3 = A3
INVARIANTS TypeOK LookupExact LastCommandHolds ListingExact
PROPERTIES OthersStay
