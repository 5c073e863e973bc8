SPECIFICATION FairSpec
CONSTANTS
    Namespace <- DefaultOnly
    Service <- OneService
    InstanceID = {i1}
    Version = {"v1", "v2"}
    Address = {"addr"}
    NoInstance = NoInstance
    StaleAfter = 1
    DiscoveryStaleAfter = 1
    MaxTime = 2
    RouteService <- OneService
    SplitLabel = {"", "v1", "v2"}
    SpecInput <- CanarySpecs
    NoSpec = NoSpec
    UintModulus = 256
    Caller = {loop}
    DefaultNamespace <- Default
    Unversioned = ""
    Rank <- SortedRank
    NoSnapshot = NoSnapshot
    MaxVersion = 2
INVARIANTS TypeOK RemovalReflected AdditionReflected RoutesResolve WeightsTotal100OrWrap DebugNeverAhead SplitsDisjoint RouteReflected
PROPERTIES PassTerminates VersionsIncrease SweepAndReadAgree DebugGapExplained ImplementsPublisher
