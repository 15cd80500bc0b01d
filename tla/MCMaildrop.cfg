SPECIFICATION Spec
CONSTANTS
    m1 = m1
    m2 = m2
    m3 = m3
    Mails <- MCMails
    FileSize <- MCFileSize
    IntWidth = 16
    NoManager = NoManager
    RemoveFaults = TRUE
    AllocFaults = TRUE
INVARIANTS
    TypeOK
    WildOnlyIfDisturbed
    StatAgreesWithList
PROPERTIES
    QuitOkMeansGone
    ImplementsMaildrop
CHECK_DEADLOCK FALSE
