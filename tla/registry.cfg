SPECIFICATION RegistrySpec
CONSTANTS
    Namespace <- SlashedNamespace
    Service <- SlashedService
    InstanceID = {i1}
    Version = {"v1"}
    Address = {"addr"}
    NoInstance = NoInstance
    StaleAfter = 1
    DiscoveryStaleAfter = 1
    MaxTime = 3
INVARIANTS RegistryTypeOK UnhealthyIsStale
PROPERTY NamespaceIsolation
