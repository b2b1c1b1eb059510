SPECIFICATION MCSpec
CONSTANTS
    a = a
    b = b
    c = c
    d = d
    u = u
    v = v
    e = e
    k1 = k1
    k2 = k2
    Keys = {k1, k2}
    MergeInputs <- ShortPairs
    Changing <- FewPairs
    None = None
    Ids = {a, b, c, d}
    RecordIds = {a, b, c, d, e}
    Absent = Absent
    Uris = {u, v}
    Inputs <- MCInputs
    Before1970 = {"ancient"}
    IllFormed = IllFormed
    Archives <- MCArchives
    Tasks <- MCTasks
    HttpTargets <- MCHttpTargets
    Computed = {"sha1", "sha256"}
    FramedOf <- MCFramedOf
    Unset = Unset
    MaxTasks = 3
INVARIANTS
    AssociationsPreserved
    ReferencesPreserved
    EarliestWrittenOnce
    CapturesRemoved
    IdentifiersHold
    RecordsPreserved
PROPERTIES
    Ends
    RunAgainChangesNothing
CHECK_DEADLOCK FALSE
