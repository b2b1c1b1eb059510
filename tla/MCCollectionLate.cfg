CONSTANTS
    page = page
    shared = shared
    v1 = v1
    v2 = v2
    desktop = desktop
    mobile = mobile
    p = p
    q = q
    empty = empty
    Uris = {page, shared}
    Payloads = {p, q, empty}
    Tags = {v1, v2}
    Variants = {desktop, mobile}
    Dates = {1}
    None = None
    Invariant = Invariant
    Unselectable = Unselectable
    Content <- SiteContent
    Varying = {page}
    Short = {q}
    Empty = empty
    Methods = {"GET", "HEAD", "POST"}
    OtherPayloads = {p}
    MaxEvents = 3
    MaxLibrary = 1
SPECIFICATION Spec
INVARIANT
    ValidatorsTheirOwn
