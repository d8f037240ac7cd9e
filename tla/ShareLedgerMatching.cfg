CONSTANTS
    Powers = {1, 10}
    MaxId = 20
    MaxPending = 1
    MaxSessions = 1
SPECIFICATION Spec
PROPERTIES
    AnswerSettlesItsShare
