\* Two call numbers, a heartbeat of one tick, two RPCs that fail.
SPECIFICATION LiveSpec
CONSTANTS
    MaxCalls = 2
    NoAnswer = NoAnswer
    Interval = 1
    None = "None"
    MaxFail = 2
INVARIANTS
    TypeOK
    WrongBound
    NoWaitInVain
PROPERTIES
    AnswersOwnRequest
    AnswerGetsThrough
    Answered
