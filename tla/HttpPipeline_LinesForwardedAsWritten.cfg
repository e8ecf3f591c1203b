CONSTANTS
    adm = adm
    apw = apw
    n1 = n1
    p1 = p1
    UserIds = {1}
    LocalIPs = {"L1"}
    RemoteIPs = {"R1"}
    Names <- MCNames
    Passwords <- MCPasswords
    AdminName = adm
    AdminPass = apw
    UserPool = {}
    WhitePool = {}
    MaxBatch = 0
    Listener = "L1"
    Client = "R1"
    CredOf <- MCCredOf
    FirstRequests <- MCFirstRequests
    FollowUps <- MCFollowUps
    Socks5Requests <- MCSocks5Requests
    VersionBytes <- MCVersionBytes
    Bodies <- MCBodies
    MaxDown = 1
    NONE = NONE
    UNPARSABLE = UNPARSABLE
    Configs <- MCConfigs
    IsLocal <- MCIsLocal
SPECIFICATION Spec
INVARIANT
    LinesForwardedAsWritten
CHECK_DEADLOCK FALSE
