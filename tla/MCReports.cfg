CONSTANTS
    hal = "hal"
    Adapter = {"hal", "ext"}
    MAX_ADAPTERS = 2
    MaxChanges = 2
    MaxRestarts = 1
    MaxEvents = 2
    SvReport <- MCSvReport
    Position <- MCPosition
    INTERMEDIATE_POS = FALSE
SPECIFICATION ReportsSpec
INVARIANTS Subscribed ReachesOnce SentencesAgree
CHECK_DEADLOCK FALSE
