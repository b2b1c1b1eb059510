CONSTANTS
    w = w
    a = a
    b = b
    c = c
    page = page
    other = other
    urn = urn
    here = here
    there = there
    None = None
    Http = {page, other}
    HostOf <- Hosts
    Content <- Records
    RequireIds = FALSE
    Files <- BackwardFiles
SPECIFICATION FairSpec
INVARIANT FaultedNotClean
