SPECIFICATION ProbesSpec
CONSTANTS
    a1 = a1
    a2 = a2
    q1 = q1
    q2 = q2
    p1 = p1
    p2 = p2
    k1 = k1
    k2 = k2
    Org = Org
    Agent = Agent
    None = None
    Admins <- TwoAdmins
    Scrapers <- TwoScrapers
    Providers <- TwoProviders
    ApiKeys <- TwoKeys
    Requests <- SomeRequests
    Starts <- SomeStarts
    Rows <- SomeRows
    Limit = 2
    ProbeWindow = 2
    Ttl = 1
    Horizon = 2
    MaxActs = 3
    MaxTrouble = 2
CONSTRAINT Apart
INVARIANTS
    TestsAreTrue
    ReadyIsRecent
PROPERTIES
    StatusCatchesUp
