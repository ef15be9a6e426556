SPECIFICATION ToolsSpec
CONSTANTS
    none = none
    f1 = f1
    f2 = f2
    i1 = i1
    u1 = u1
    u2 = u2
    build = build
    ovb = ovb
    internal = internal
    hw = hw
    Artifact = {f1, f2}
    NoArtifact = none
    MaxArtifactFaults = 3
    Stack = {1, 11}
    NameHas <- MCNameHas
    User = {u1, u2}
    Change = {123, 1234}
    NumberIn <- MCNumberIn
    LayoutJobs <- MCLayoutJobs
    Job = {build, ovb}
    MaxHold = 2
    Image = {i1}
    MaxHash = 2
    TagRun = {1, 2}
    MaxQuayFaults = 2
    MaxStageFaults = 2
    Component = {"tripleo", "network"}
    MaxBuild = 2
    MaxAggregateFaults = 1
    CiJob = {build, ovb, internal, hw}
    JobsInCriteria = {build, ovb}
    AltCriteria <- MCAltCriteria
    PeriodicJob = {build, ovb, internal}
    WaitJob = build
    LaunchJob = hw
    MaxVotes = 4
    MaxLaunched = 2
    ReleaseFile <- MCReleaseFile
    DeployedFile <- MCDeployedFile
    EnvironmentDefaults <- MCEnvironmentDefaults
    GlobalDefaults <- MCGlobalDefaults
    ContainerName = {"api", "db"}
    Template <- MCTemplate
    ExcludeFile <- MCExcludeFile
    Rpm <- MCRpms
    IgnoredPackage = {"nova-devel"}
    HostLog <- MCHostLog
    ContainerLog <- MCContainerLog
    Listing <- MCListing
    KeyOf <- MCKeyOf
    NodeType = {"undercloud", "controller"}
INVARIANT ToolsTypeOK
INVARIANT LabelNeverDangles
INVARIANT PartialOnlyAfterInterruption
INVARIANT LiveStackIsWhole
INVARIANT DeletionHitsOnlyWhatItListed
INVARIANT CurrentWasPromoted
INVARIANT TeardownIsComplete
INVARIANT AnnouncedStageServes
INVARIANT TeardownFindsDirectories
INVARIANT LabelsHoldTestedAggregates
INVARIANT DashboardAgreesWithPromoter
INVARIANT StartsWithItsRelease
INVARIANT ApiUrlLeadsToServer
INVARIANT SameListForEachLabel
INVARIANT ReportTellsBuildsApart
PROPERTY LabelReturns
PROPERTY TagsSettle
CHECK_DEADLOCK FALSE
