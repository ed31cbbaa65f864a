SPECIFICATION FilesSpec
CONSTANTS
    Names = {"skills", "SKILL.md"}
    MaxSegments = 3
    MaxDepth = 2
    Limit = 1
INVARIANTS
    ReadsLastWrite
    ListingComplete
    ManifestInstalled
PROPERTY
    ExtractsInside
