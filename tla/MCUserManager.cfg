SPECIFICATION Spec
CONSTANTS
    u1 = u1
    u2 = u2
    badName = badName
    p1 = p1
    badPass = badPass
    null = null
    m1 = m1
    NoDrop = NoDrop
    Names <- MCNames
    Passwords <- MCPasswords
    ValidNames <- MCValidNames
    ValidPasswords <- MCValidPasswords
    Mails <- MCMails
    DiskFaults = TRUE
    MemoryFaults = TRUE
    NoPassword = null
    InitUsers <- MCInitUsers
    InitDrops <- MCInitDrops
    MaxUsers <- MCMaxUsers
    RenameTaken = FALSE
INVARIANTS
    TypeOK
    CountIsLength
    NamesUnique
    EveryAccountHasDrop
PROPERTY
    ImplementsRegistry
CHECK_DEADLOCK FALSE
