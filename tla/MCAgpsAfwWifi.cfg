\* A NIF for one subscriber at a time that waits for the close (wifi_nif).
SPECIFICATION AfwSpec
CONSTANTS
    c1 = c1
    c2 = c2
    c3 = c3
    Subscriber <- Two
    WaitForClose = TRUE
    EnforceSingle = TRUE
    ModemClient <- None
    StaleMatch <- None
    MaxCmds = 4
INVARIANTS Owed RequestsServed
PROPERTIES CloseHeard CommandsOnce
