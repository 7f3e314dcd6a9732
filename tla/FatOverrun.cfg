SPECIFICATION OverrunSpec
CONSTANTS
    Version = 16
    VolumeLast = 4
    TableLast = 4
    SearchLast = 9
    ClusterSize = 1
    Files <- MCFiles
    Dirs <- MCDirs
    Hosts <- MCHosts
    DirSizes = {}
    Zero = Zero
    CountMod = 8
    Absent = Absent
    Nobody = Nobody
    f1 = f1
    f2 = f2
    a = a
    b = b
INVARIANTS RemovesOnlyItsOwn
