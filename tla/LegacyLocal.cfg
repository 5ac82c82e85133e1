SPECIFICATION LocalSpec
CONSTANTS
    Kind <- MC_Kind
    Contents <- MC_Contents
    Bundles <- MC_Bundles
    MaxCommands = 2
    MaxFaults = 1
    MaxRebuilds = 1
INVARIANTS
    ArchiveWhole
    ReadersAgree
