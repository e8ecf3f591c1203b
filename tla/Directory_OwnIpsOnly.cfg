CONSTANTS
    UserIds = {1, 2}
    LocalIPs <- MCLocal
    RemoteIPs <- MCRemote
    Names <- MCNames
    Passwords <- MCPasswords
    AdminName = "adm"
    AdminPass = "apw"
    UserPool <- MCUserPool
    WhitePool <- MCWhitePool
    MaxBatch = 2
SPECIFICATION Spec
INVARIANT OwnIpsOnly
