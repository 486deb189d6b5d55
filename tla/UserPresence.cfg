CONSTANTS
    Apps = {a1, a2}
    NoApp = NoApp
    Recorded = {a1}
    PromptTimeout = 1
    Margin = 1
    TouchTimeout = 1
    MaxRequests = 3
    MaxKeys = 2
SPECIFICATION Spec
INVARIANTS
    TypeOK
    OneApprovalPerKey
    Watched
    LockInUse
PROPERTIES
    PollAnswered
    PromptOver
    DialogComesDown
