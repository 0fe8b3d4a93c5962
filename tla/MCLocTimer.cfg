\* The timer ends and the stoppers stop calling.
SPECIFICATION TimerSpec
CONSTANTS
    Stopper = {a, b, c}
    MaxStops = 2
CHECK_DEADLOCK FALSE
INVARIANTS StoppedInTime HolderIsSafe
PROPERTIES FreedInTheEnd
