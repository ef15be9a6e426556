SPECIFICATION Spec
CONSTANTS
    h1 = h1
    h2 = h2
    h3 = h3
    build = build
    ovb = ovb
    ovbInternal = ovbInternal
    testing = testing
    tripleo = tripleo
    rdo = rdo
    NoEntry = NoEntry
    Nothing = Nothing
    Mixed = Mixed
    Hash = {h1, h2}
    OldFormat = {}
    Label = {testing, tripleo, rdo}
    Targets <- Chain
    CandidateOf <- ChainCandidates
    Job = {ovb, ovbInternal}
    Criteria <- ChainCriteria
    Alternatives <- SomeAlternatives
    LatestHashesCount = 2
    PromotionsLimit = 9
    MaxClock = 1
    MaxReports = 4
    MaxOutside = 1
    MaxForced = 2
    MaxFaults = 0
PROPERTY NeverPromotedAgain
