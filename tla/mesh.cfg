SPECIFICATION FairMeshSpec
CONSTANTS
    MeshInstance = {i1, i2}
    MaxVersion = 5
    None = None
INVARIANTS
    MeshTypeOK
    VersionNamesContent
PROPERTIES
    EnvoysConverge
