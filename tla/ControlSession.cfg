CONSTANTS
    UserIds = {1, 2}
    LocalIPs <- MCLocal
    RemoteIPs <- MCRemote
    Names <- MCNames
    Passwords <- MCPasswords
    AdminName = "adm"
    AdminPass = "apw"
    UserPool <- MCUserPool
    WhitePool <- MCWhitePool
    MaxBatch = 1
    MsgPool <- MCMsgPool
    MaxSessions = 2
    MaxFrames = 3
    NoMsg = NoMsg
    StatTypes = {s1}
    Cap = 1
    MaxStats = 2
SPECIFICATION Spec
INVARIANT TypeOK
INVARIANT SessionConsistent
PROPERTY StatUploadBestEffort
CONSTRAINT EventBudget
