SPECIFICATION FairSpec
INVARIANTS LifeTypeOK CleanEndsCalls
PROPERTIES MainExits
CHECK_DEADLOCK FALSE
