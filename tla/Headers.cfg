CONSTANTS
    MaximumLength = 5
SPECIFICATION Spec
CHECK_DEADLOCK FALSE
INVARIANTS
    TrapIsNeverReached
    BackendsAgree
    HeadersAreTheLines
