CONSTANTS
    w1 = w1
    w2 = w2
    b1 = b1
    b2 = b2
    Workers <- MCWorkers
    Blobs <- MCBlobs
    MaxVersion = 3
    None = None
SPECIFICATION Spec
SYMMETRY Symmetry
INVARIANTS
    TypeOK
    NeverStale
    ExpiredMeansReplaced
