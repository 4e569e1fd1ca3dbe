\* Two requests, streamed or not, everything the user can do, a reload.
SPECIFICATION Spec
CONSTANTS
    Requests = {q1, q2}
    None = none
    MaxChunks = 2
    MaxMounts = 1
INVARIANTS
    OwnText
    AnswerWhole
    Stoppable
    NoStuckSpinner
PROPERTIES
    FinalMessages
CHECK_DEADLOCK FALSE
