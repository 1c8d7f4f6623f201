SPECIFICATION MCSpec
CONSTANTS
    Max8 = 127
    Max16 = 32767
    Max32 = 8388607
    Max64 = 536870911
    Requests <- MCRequests
    Outcomes <- MCOutcomes
    Unknown <- MCUnknown
    FieldValues <- MCFieldValues
    FullValue <- MCFullValue
    UnknownTags = {10, 14, 15, 20}
    UnknownValues <- MCUnknownValues
    Calls = {c1, c2, c3}
    OneWay = {c3}
    Pings = {c3}
    MaxInt = 4
    FirstIds <- AroundOverflow
    ObjQueueMax = 1
    MaxCopies = 1
    None = None
SYMMETRY Symmetry
INVARIANTS
    ReplyMatches RequestIdsDistinct NothingLeaks
    ArgumentsArrive ResultsReturn FailureReported AnswerIdentifies FiltersGuard
    StructArrives IntsSurvive
CHECK_DEADLOCK FALSE
