SPECIFICATION Spec
CONSTANTS
    c1 = c1
    c2 = c2
    c3 = c3
    Conns = {c1, c2, c3}
    MaxConn = 2
    MaxPost = 2
    MaxHead = 2
    SendBuffLen = 4
    TokenMax = 3
    MaxFiles = 4
    SecSize = 4
    FwSize = 6
    ReadLen = 4
    BuiltInUrls <- MCBuiltInUrls
    File <- MCFile
    Gzip = {"/zip"}
    Scenarios <- MCScenarios
    MaxSegment = 2
    NULL = NULL
INVARIANTS TypeOK FilesOwned RepliesRight UploadIntact SlotPerConn
CHECK_DEADLOCK FALSE
PROPERTIES ServerFinishes SlotsFreed
