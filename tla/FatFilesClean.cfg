SPECIFICATION CleanSpec
CONSTANTS
    Version = 32
    VolumeLast = 4
    TableLast = 5
    SearchLast = 9
    ClusterSize = 2
    Files <- MCFiles
    Dirs <- MCDirs
    Hosts <- LongHosts
    DirSizes = {5}
    Zero = Zero
    CountMod = 8
    Absent = Absent
    Nobody = Nobody
    f1 = f1
    f2 = f2
    d1 = d1
    a = a
    b = b
INVARIANTS VolumeConsistent
PROPERTIES ImplementsStore CommandsEnd
