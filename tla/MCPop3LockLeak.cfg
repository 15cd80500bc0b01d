SPECIFICATION Spec
CONSTANTS
    u1 = u1
    u2 = u2
    u3 = u3
    p1 = p1
    m1 = m1
    m2 = m2
    c1 = c1
    c2 = c2
    c3 = c3
    NoDrop = NoDrop
    NoUser = NoUser
    NoManager = NoManager
    Names <- Two
    Passwords <- MCPasswords
    ValidNames <- Two
    ValidPasswords <- MCPasswords
    ArgNames <- Two
    ArgPasswords <- MCPasswords
    Mails <- TwoMails
    Connections <- TwoConnections
    InitUsers <- BothAccounts
    InitDrops <- FirstDrop
    InitMaxUsers = 2
    InitMaxConns = 2
    Limits <- MCLimits
    AdminCommands <- NoRename
    DiskFaults = FALSE
    MemoryFaults = FALSE
    NoPassword = NoPassword
    OpenFaults = FALSE
    LogFaults = FALSE
INVARIANT
    LockMeansSession
CHECK_DEADLOCK FALSE
