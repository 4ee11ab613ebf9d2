SPECIFICATION FairSpec
CONSTANTS
    Kinds <- MCKinds
    Chunks = 3
    Nobody = Nobody
INVARIANTS LinkTypeOK FramesWhole
PROPERTIES LossReported
CHECK_DEADLOCK FALSE
