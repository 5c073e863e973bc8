SPECIFICATION Spec
CONSTANTS
    Namespace <- DefaultOnly
    Service <- TwoServices
    InstanceID = {i1}
    Version = {"v1"}
    Address = {"addr"}
    NoInstance = NoInstance
    StaleAfter = 1
    DiscoveryStaleAfter = 1
    MaxTime = 2
    RouteService <- OneService
    SplitLabel = {"", "v1", "v2"}
    SpecInput <- CanaryOnly
    NoSpec = NoSpec
    UintModulus = 256
    Caller = {loop}
    DefaultNamespace <- Default
    Unversioned = ""
    Rank <- SortedRank
    NoSnapshot = NoSnapshot
    MaxVersion = 2
SYMMETRY Symmetry
VIEW WithoutHistories
INVARIANTS AdditionReflected RoutesResolve
