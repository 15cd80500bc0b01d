SPECIFICATION Spec
CONSTANTS
    u1 = u1
    u2 = u2
    long = long
    p1 = p1
    colon = colon
    rest = rest
    m1 = m1
    NoDrop = NoDrop
    NoFile = NoFile
    Names <- MCNames
    Passwords <- MCPasswords
    ValidNames <- MCNames
    ValidPasswords <- MCValidPasswords
    Mails <- MCMails
    Unfit <- MCUnfit
    Delimited <- MCDelimited
    BeforeColon <- MCBeforeColon
    AfterColon <- MCAfterColon
    InitFiles <- MCInitFiles
    StartMaxUsers = 2
    Limits <- MCLimits
    DiskFaults = FALSE
    MemoryFaults = FALSE
    NoPassword = NoPassword
    RenameTaken = FALSE
INVARIANT
    CleanStopRestarts
CHECK_DEADLOCK FALSE
