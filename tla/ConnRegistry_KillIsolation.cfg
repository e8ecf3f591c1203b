CONSTANTS
    Users <- MCUsers
    Ids <- MCIds
    Conns = {c1, c2, c3}
    MaxKills = 2
    NoConn = NoConn
    NoUser = NoUser
SPECIFICATION Spec
PROPERTY KillIsolation
