CONSTANTS
    c1 = c1
    c2 = c2
    c3 = c3
    Commands <- MCCommands
    Requests <- MCRequests
    MaxTime = 1
    NoCommand = NoCommand
SPECIFICATION MCSpec
INVARIANTS
    TypeOK
    RecordsSurvive
    CommandsReport
PROPERTY AppendsEnd
CHECK_DEADLOCK FALSE
