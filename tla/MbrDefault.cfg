SPECIFICATION Spec
CONSTANTS
    SectorSize = 2
    DiskSize = 14
    DefaultStart = 4
    Word = 64
    LbaWord = 8
    StartArgs = {0, 5}
    SizeArgs = {2, 5}
INVARIANTS TypeOK RegionsOwned
PROPERTIES RefusesOnlyWhenFull
