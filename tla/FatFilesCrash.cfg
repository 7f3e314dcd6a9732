SPECIFICATION Spec
CONSTANTS
    Version = 12
    VolumeLast = 4
    TableLast = 4
    SearchLast = 4
    ClusterSize = 1
    Files <- MCFiles
    Dirs <- NoDirs
    Hosts <- MCHosts
    DirSizes = {3}
    Zero = Zero
    CountMod = 8
    Absent = Absent
    Nobody = Nobody
    f1 = f1
    f2 = f2
    d1 = d1
    a = a
    b = b
SYMMETRY Symmetry
INVARIANTS TypeOK NoSharedClusters KeptFilesSurvive
