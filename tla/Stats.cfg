CONSTANTS
    c1 = c1  c2 = c2  u1 = u1  u2 = u2  f1 = f1  f2 = f2
    Conns <- MCConns
    Users <- MCUsers
    Flows <- MCFlows
    Sizes <- MCSizes
    MaxTraffic = 1
SPECIFICATION Spec
INVARIANTS TypeOK TrafficRoundAgrees RequestsCovered
