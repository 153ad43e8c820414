SPECIFICATION Spec
CONSTANTS
    Key = {1}
    Value = {a, b}
    a = a
    b = b
    NoValue = NoValue
    Garbled = Garbled
    Chars <- MCChars
    Asked <- MCAsked
    MaxRequests = 1
    MaxResets = 1
PROPERTY
    GetsWhatWasPut
