\* A canary that changed under a client that then fails.
SPECIFICATION Spec
CONSTANTS
    maxCommandLine = 3
    maxVerbLength = 1
    UUBytesPerLine = 2
    ScatteredArticleBytes = 2
    RequiredChecks = {"containment", "cleanup"}
    WeaverMarker = "marker"
    MaxStream = 5
    MaxPlainStream = 0
    MaxVolume = 5
    MaxArticle = 4
    MaxOutput = 3
INVARIANTS
    FindingStopsBatch
CHECK_DEADLOCK FALSE
