SPECIFICATION Spec
CONSTANTS
    Archs = {"amd64", "arm64"}
    Tags = {"v1", "v2"}
    Bundles <- MC_Bundles
    MaxRetries = 3
    MaxCommands = 2
    MaxOthers = 0
INVARIANT PublishedWhole
