SPECIFICATION Spec
CONSTANTS
    Archs = {"amd64", "arm64"}
    Tags = {"v1", "v2"}
    Bundles <- MC_Bundles
    MaxRetries = 2
    MaxCommands = 3
    MaxOthers = 1
INVARIANTS
    TagComplete
    OthersSurvive
PROPERTIES
    PublishEnds
