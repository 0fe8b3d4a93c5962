CONSTANTS
    Serial = {"r1", "r2"}
    Numeric = {"310260"}
    Word = {"TELUS"}
    Long = {}
    Table <- MCTable
    Version = {8}
    MaxReplies = 1
    MaxChanges = 1
SPECIFICATION RilSpec
INVARIANTS AccountedOnce ToldRight
PROPERTIES RepliedIsAnswered
CHECK_DEADLOCK FALSE
