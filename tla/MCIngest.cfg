CONSTANTS
    Files <- MCFiles
    Shapes <- MCShapes
    Stores = {"local", "blobs"}
    MaxStarts = 2
SPECIFICATION Spec
INVARIANTS
    TypeOK
    ManifestMeansComplete
    LanesArePruned
    CornersAreNearest
PROPERTY FragmentsAreFinal
CHECK_DEADLOCK FALSE
