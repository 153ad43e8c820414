SPECIFICATION Spec
CONSTANTS
    Key = {1}
    Value = {a}
    a = a
    b = b
    NoValue = NoValue
    Garbled = Garbled
    Chars <- MCChars
    Asked <- MCAsked
    FreeKeys = {1}
    MaxFree = 2
    MaxRequests = 2
    MaxResets = 1
PROPERTIES VerifyIdentifies
