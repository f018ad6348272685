SPECIFICATION TextSpec
CONSTANTS
    Char = {"*", ".", "a"}
    MaxLen = 5
    Hellos <- MCHellos
INVARIANTS LabelsAgree NamedOrDropped
CHECK_DEADLOCK FALSE
