SPECIFICATION Spec
CONSTANTS
    u1 = u1
    u2 = u2
    u3 = u3
    p1 = p1
    m1 = m1
    m2 = m2
    c1 = c1
    c2 = c2
    c3 = c3
    NoDrop = NoDrop
    NoUser = NoUser
    NoManager = NoManager
    Names <- Two
    Passwords <- MCPasswords
    ValidNames <- Two
    ValidPasswords <- MCPasswords
    ArgNames <- Two
    ArgPasswords <- MCPasswords
    Mails <- OneMail
    Connections <- TwoConnections
    InitUsers <- BothAccounts
    InitDrops <- BothDrops
    InitMaxUsers = 2
    InitMaxConns = 2
    Limits <- MCLimits
    AdminCommands <- AllCommands
    DiskFaults = FALSE
    MemoryFaults = FALSE
    NoPassword = NoPassword
    OpenFaults = TRUE
    LogFaults = FALSE
PROPERTY
    MailSurvives
CHECK_DEADLOCK FALSE
