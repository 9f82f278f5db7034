SPECIFICATION Spec
CONSTANTS
    f1 = f1
    f2 = f2
    f3 = f3
    top = top
    sub = sub
    x = x
    y = y
    z = z
    Names = {f1, f2, f3}
    Dirs = {top, sub}
    Root = top
    Home <- TreeHome
    Objects = {o1, o2, o3}
    Absent = Absent
    Contents = {x, y, z}
    SizeOf <- Sizes
    SampleOf <- Samples
    DigestOf <- Digests
    BatchLimit = 2
    MaxEdits = 1
SYMMETRY Alike
CHECK_DEADLOCK FALSE
INVARIANTS EvidenceReopens GroupsWereEqual NothingMissed EveryDuplicateFound
