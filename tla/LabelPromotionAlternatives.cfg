SPECIFICATION Spec
CONSTANTS
    h1 = h1
    h2 = h2
    h3 = h3
    build = build
    ovb = ovb
    ovbInternal = ovbInternal
    NoEntry = NoEntry
    Hash = {h1, h2}
    OldFormat = {}
    Job = {build, ovb, ovbInternal}
    Committed = {build, ovb}
    Alternatives <- SomeAlternatives
    LatestHashesCount = 2
    PromotionsLimit = 9
    MaxFaults = 1
    MaxClock = 4
INVARIANT PassedOverMissesCriteria
