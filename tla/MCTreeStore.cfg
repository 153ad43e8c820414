SPECIFICATION Spec
CONSTANTS
    Key = {1, 2, 3, 4, 5}
    Value = {a, b}
    NoValue = NoValue
INVARIANTS
    TypeOK
    KeysReachable
PROPERTIES
    ImplementsDictionary
