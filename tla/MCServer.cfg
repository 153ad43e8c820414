SPECIFICATION FairSpec
CONSTANTS
    Key = {1, 2, 3, 4, 5}
    Value = {a, b}
    a = a
    b = b
    NoValue = NoValue
    Garbled = Garbled
    Chars <- MCChars
    Asked <- MCAsked
    FreeKeys = {1}
    MaxFree = 2
    MaxRequests = 7
    MaxResets = 1
ACTION_CONSTRAINT Scripted
INVARIANTS TypeOK Backlog NumberedInOrder
PROPERTIES VerifyNeverEarly VerifyExact ImplementsAsyncStore WritesExecuted RequestsAnswered SpinBlocksAll
