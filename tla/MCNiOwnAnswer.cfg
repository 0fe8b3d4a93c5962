\* The modem stays up, two requests: an answer that comes late.
SPECIFICATION Spec
CONSTANTS
    MaxReq = 2
    Restarts = 0
CHECK_DEADLOCK FALSE
INVARIANT OwnAnswer
