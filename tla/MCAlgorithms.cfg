\* A uuencoded line carries 2 bytes, an article of a scattered profile 2.
\* Two of the eight required checks.
SPECIFICATION Spec
CONSTANTS
    maxCommandLine = 3
    maxVerbLength = 1
    UUBytesPerLine = 2
    ScatteredArticleBytes = 2
    RequiredChecks = {"containment", "cleanup"}
    WeaverMarker = "marker"
    MaxStream = 5
    MaxPlainStream = 7
    MaxVolume = 5
    MaxArticle = 4
    MaxOutput = 3
INVARIANTS
    FragmentationInvisible
    PassesBalanced
    LabelsTruthful
    FiguresSound
    ReportsComplete
    VerdictsExact
    PostsAttested
CHECK_DEADLOCK FALSE
