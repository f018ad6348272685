SPECIFICATION Spec
CONSTANTS
    Conn = {c1, c2}
    Storers = {c1, c2}
    Deleters = {c1, c2}
    Rotators = {c1, c2}
    Name = {n1, n2}
    Value = {v1, v2}
    Key = {k1, k2, k3}
    Backend = {"sql", "aws_sm"}
    Source = {"env", "keychain", "kms"}
    Damaged = Damaged
INVARIANTS KeyAgreement PlaintextKept
PROPERTY AloneRotationReachesAll
SYMMETRY Symmetry
