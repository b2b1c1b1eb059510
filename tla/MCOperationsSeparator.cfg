SPECIFICATION MCSpec
CONSTANTS
    a = a
    b = b
    c = c
    d = d
    u = u
    v = v
    e = e
    k1 = k1
    k2 = k2
    Keys = {k1, k2}
    MergeInputs = {}
    Changing = {}
    None = None
    Ids = {a, b, c, d}
    RecordIds = {a, b, c, d, e}
    Absent = Absent
    Uris = {u, v}
    Inputs = {}
    Before1970 = {"ancient"}
    IllFormed = IllFormed
    Archives <- MCArchives
    Tasks <- MCTasks
    HttpTargets <- MCHttpTargets
    Computed = {"sha1", "sha256"}
    FramedOf <- MCFramedOf
    Unset = Unset
    MaxTasks = 3
PROPERTY
    NameAloneKeepsTail
CHECK_DEADLOCK FALSE
