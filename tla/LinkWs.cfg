SPECIFICATION Spec
CONSTANTS
    Kinds <- MCKinds
    Chunks = 3
    Nobody = Nobody
INVARIANTS NoConcurrentWrite
CHECK_DEADLOCK FALSE
