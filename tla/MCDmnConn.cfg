\* The thread ends and the daemons stop sending.
SPECIFICATION DmnSpec
CONSTANTS
    QUIPC = QUIPC
    GPSONE_DAEMON = GPSONE_DAEMON
    MODEM = MODEM
    Daemon = {QUIPC, GPSONE_DAEMON}
    Message <- MCMessage
    MaxSent = 3
    MaxFaults = 1
    Spurious = FALSE
CHECK_DEADLOCK FALSE
INVARIANTS InFrame RequestsKept NoStrayWrite
PROPERTIES CallsReturn
