SPECIFICATION Spec
CONSTANTS
    InSize = 3
    OutSize = 3
    Commands <- MCCommands
    MaxCommands = 4
    ShortReply = 2
    LongReply = 4
    Files <- MCFiles
INVARIANT
    NoSelfInflictedDrop
CHECK_DEADLOCK FALSE
