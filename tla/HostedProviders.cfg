SPECIFICATION Spec
CONSTANTS
    StepLimit = 2
    Duration = 2
    MaxRemoteSteps = 3
    MaxCost = 2
    Unknown = Unknown
INVARIANTS
    SessionsAreStopped
    AnswersAreTheVendors
PROPERTY
    CallsEnd
CHECK_DEADLOCK FALSE
