SPECIFICATION FairSpec
CONSTANTS
    h1 = h1
    h2 = h2
    h3 = h3
    build = build
    ovb = ovb
    ovbInternal = ovbInternal
    testing = testing
    tripleo = tripleo
    rdo = rdo
    NoEntry = NoEntry
    Nothing = Nothing
    Mixed = Mixed
    Hash = {h1, h2, h3}
    OldFormat = {}
    Label = {testing, tripleo, rdo}
    Targets <- Chain
    CandidateOf <- ChainCandidates
    Job = {build, ovb, ovbInternal}
    Criteria <- ChainCriteria
    Alternatives <- SomeAlternatives
    LatestHashesCount = 2
    PromotionsLimit = 9
    MaxClock = 3
    MaxReports = 4
    MaxOutside = 0
    MaxForced = 0
    MaxFaults = 1
PROPERTY AllPromoted
PROPERTY Converges
