\* No symmetry: one property is a liveness property.  Deadlock is checked: an
\* exhausted pass can be polled for ever.
CONSTANTS
    w = w
    a = a
    b = b
    c = c
    page = page
    other = other
    urn = urn
    here = here
    there = there
    None = None
    Http = {page, other}
    HostOf <- Hosts
    Content <- Records
    RequireIds = FALSE
    Files <- LintedFiles
SPECIFICATION FairSpec
INVARIANTS
    ReportExact
    FaultedNotClean
PROPERTY Termination
