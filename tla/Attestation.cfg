SPECIFICATION FairSpec
CONSTANTS
    Nonces <- MCNonces
    MaxCalls = 2
INVARIANTS
    TypeOK
    SBoxPermutation
PROPERTIES
    Terminates
CHECK_DEADLOCK FALSE
