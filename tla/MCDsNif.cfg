SPECIFICATION DsSpec
CONSTANTS
    Conn = {a, b, c}
    MaxRetries = 2
    MaxRequests = 4
SYMMETRY Handles
CHECK_DEADLOCK FALSE
INVARIANTS CallFitsState
