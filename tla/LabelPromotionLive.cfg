SPECIFICATION FairSpec
CONSTANTS
    h1 = h1
    h2 = h2
    h3 = h3
    build = build
    ovb = ovb
    ovbInternal = ovbInternal
    NoEntry = NoEntry
    Hash = {h1, h2, h3}
    OldFormat = {h3}
    Job = {build}
    Committed = {build}
    Alternatives <- NoAlternatives
    LatestHashesCount = 2
    PromotionsLimit = 9
    MaxFaults = 1
    MaxClock = 3
PROPERTY QualifiedIsPromoted
