\* One modem restart.  Every request is over in the end, and then all stops.
SPECIFICATION Spec
CONSTANTS
    MaxReq = 2
    Restarts = 1
CHECK_DEADLOCK FALSE
INVARIANTS PayloadOwned OneWaiter OneAnswer
PROPERTIES Resolved SessionFrees
