\* The bound on the messages lets everything come to rest.
SPECIFICATION TaskSpec
CONSTANTS
    loop = loop
    Sender = {loop, t1, t2}
    Receiver = {loop}
    MaxSends = 2
CHECK_DEADLOCK FALSE
INVARIANTS Fifo NoLostWakeup Accounted ExitsWhenAsked
PROPERTIES Stops IsChannel
