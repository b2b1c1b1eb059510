CONSTANTS
    page = page
    shared = shared
    v1 = v1
    v2 = v2
    desktop = desktop
    mobile = mobile
    p = p
    q = q
    empty = empty
    Uris = {page, shared}
    Payloads = {p, q, empty}
    Tags = {v1, v2}
    Variants = {desktop, mobile}
    Dates = {1, 2, 3}
    None = None
    Absent = Absent
    Invariant = Invariant
    Unselectable = Unselectable
    Content <- SiteContent
    Records <- NamelessRecords
    PayloadOf <- Held
    MaxRecords = 4
SPECIFICATION Spec
INVARIANTS
    RowsUnmixed
