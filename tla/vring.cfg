SPECIFICATION Spec
CONSTANTS
    N = 3
    M = 6
    Contents <- MCContents
INVARIANTS TypeOK OneOwner NoLostKick
PROPERTY ImplementsLoan
