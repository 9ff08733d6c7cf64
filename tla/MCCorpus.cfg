SPECIFICATION Spec
CONSTANTS
    UUBytesPerLine = 2
    ScatteredArticleBytes = 2
    Fixtures <- MCFixtures
    Manifest <- MCManifest
    RunIDs = {r1}
    Sizes = {2, 3}
    MaxWorkers = 2
    ImageSizes = {2}
    Limit <- MCLimit
INVARIANTS
    CorpusSound
PROPERTIES
    GenerationEnds
CHECK_DEADLOCK FALSE
