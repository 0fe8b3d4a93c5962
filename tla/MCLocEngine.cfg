SPECIFICATION EngineSpec
CONSTANTS
    Aiding <- OneBit
    IntermediateFix = TRUE
    MaxInputs = 4
    MaxCrashes = 1
    MaxQueue = 3
INVARIANTS FrameworkKnows SessionMatchesModem MuteIsBounded DeferredWhileOn
PROPERTY StopHonoured
CHECK_DEADLOCK FALSE
