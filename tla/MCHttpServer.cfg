SPECIFICATION Spec
CONSTANTS
    kInitPrependSize = 2
    kInitialSize = 4
    StackBuffer = 4
    Unset = Unset
    MaxRequests = 3
INVARIANTS
    BytesKept
    AnswersMatch
    OneAnswerEach
CHECK_DEADLOCK FALSE
