SPECIFICATION Spec
CONSTANTS
    secret = secret
    Token = secret
    FdSetSize = 4
    AliasFd = 3
    LastFile = 4
    MaxConns = 1
    MaxMonitors = 1
    MaxRequest = 7
    BodyLength = 3
    OutSize = 2
    Scripts <- MCScripts
INVARIANTS
    TypeOK
    WatchedAsAsked
    EventsAreFresh
    OrphansArePipesOrDirs
    ActsOnceOnWholeLine
PROPERTIES
    AnsweredOrUnanswerable
    
CHECK_DEADLOCK FALSE
