SPECIFICATION MeshSpec
CONSTANTS
    MeshInstance = {i1, i2}
    MaxVersion = 4
    None = None
INVARIANT VersionNeverReused
