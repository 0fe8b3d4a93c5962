\* agnss_nif: two ATL clients and the BIT daemon, which survives a modem restart.
SPECIFICATION AfwSpec
CONSTANTS
    c1 = c1
    c2 = c2
    c3 = c3
    Subscriber <- Three
    WaitForClose = FALSE
    EnforceSingle = FALSE
    ModemClient <- Two
    StaleMatch <- Three
    MaxCmds = 4
INVARIANTS UsersCovered NoLeak ViewsAgree
PROPERTIES Answered
