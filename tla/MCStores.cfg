CONSTANTS
    c1 = c1
    c2 = c2
    Name = {n1, n2}
    Client = {c1, c2}
    Backends = {"sqlite", "postgres", "aws"}
    Kinds = {"OAuth2Refresh", "SshKey"}
    AlgorithmOf <- MCAlgorithmOf
    MaxVersion = 2
SPECIFICATION Spec
INVARIANTS
    RowsReadable
    
PROPERTIES
    StoreContractHeld
CHECK_DEADLOCK FALSE
SYMMETRY Names
