CONSTANTS
    a = a
    b = b
    x = x
    aPartial = aPartial
    bPartial = bPartial
    r1 = r1
    r2 = r2
    None = None
    Runs = {r1, r2}
    Old = {f}
    f = f
    Names = {a, b, x, aPartial, bPartial}
    Outputs = {a, b}
    PartialOf <- AB
    Jobs <- AllJobs
SPECIFICATION PublicationSpec
SYMMETRY RunSymmetry
INVARIANTS
    OutputsWhole
    InputsWhole
    SuccessIsDurable
PROPERTIES
    NothingTakenAway
CHECK_DEADLOCK FALSE
