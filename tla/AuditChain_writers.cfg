SPECIFICATION Spec
CONSTANTS
    None = None
    Writers = {w1, w2, w3}
    Ids = {1, 2, 3, 4}
    MaxBatch = 2
SYMMETRY WriterSymmetry
INVARIANTS TypeOK HeadMatches VerifiesUnlessSetBack
PROPERTY SerialSpec
CHECK_DEADLOCK FALSE
