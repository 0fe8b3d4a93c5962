\* The framework stops calling.
SPECIFICATION SettingsSpec
CONSTANTS
    Number <- MCNumber
    Float <- MCFloat
    Flagged <- MCFloat
    Default <- MCDefault
    DetectTries = 2
    Device <- MCDevice
    Setting <- MCSetting
    Address = {"a"}
    MaxCalls = 3
    MaxCrashes = 2
CHECK_DEADLOCK FALSE
INVARIANTS Configured DataStatusAgrees
