\* Three workers and seven URLs: the window of six is reached with input left.
\* No symmetry: some properties are liveness properties.
CONSTANTS
    Workers = {w1, w2, w3}
    NoWorker = NoWorker
    NumUrls = 7
    a = a
    b = b
    c = c
    Urls = {a, b, c}
    NoRequest = NoRequest
    NoLimit = NoLimit
    Plans <- ThreePlans
    Attempts = 3
    MaxLinks = 2
    MaxHops = 1
    MaxGiven = 3
SPECIFICATION MCSpec
INVARIANTS
    NoWorkerHeldUp
    NothingLost
    NothingForgotten
    AttemptsAccounted
    SummaryHonest
PROPERTIES
    ImplementsOrderedArchive
    SequentialImplementsOrderedArchive
    OneShotEnds
    ImplementsAgenda
    CrawlEnds
