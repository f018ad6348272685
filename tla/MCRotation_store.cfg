SPECIFICATION Spec
CONSTANTS
    Conn = {c1, c2}
    Storers = {c2}
    Deleters = {}
    Rotators = {c1}
    Name = {n1, n2}
    Value = {v1, v2}
    Key = {k1, k2, k3}
    Backend = {"sql"}
    Source = {"kms"}
    Damaged = Damaged
PROPERTY RotationReachesAll
