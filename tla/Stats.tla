------------------------------- MODULE Stats -------------------------------
(***************************************************************************)
(* Statistics (rg-stat) and the tasks that feed them:                      *)
(*   - the accept loop ProxyServer::start (proxy_server.rs), which sends a *)
(*     Request(None) and a Connection(+1) event, spawns the connection     *)
(*     task and then sends Connection(-1);                                 *)
(*   - connection tasks (dc_server.rs), which send Request(kind) once the  *)
(*     request is authenticated and a Traffic event after every write of  *)
(*     the tunnel (get_traffic_fn, io_copy);                               *)
(*   - the StatisticManager task, whose loop either applies the next event *)
(*     of the unbounded mpsc channel to its counters or, on the 60 s tick, *)
(*     runs collect_stat: every counter is read and cleared and the        *)
(*     snapshot goes to the subscribers.                                   *)
(* One task owns all counters, so applying an event and collecting are     *)
(* each one step.  SystemStat (OS sampling) is left out.  The server side  *)
(* of the snapshots is summarised by what the last collection reported     *)
(* and by the running sum of the connection deltas.                        *)
(***************************************************************************)
EXTENDS Integers, Sequences, FiniteSets, Functions

CONSTANTS
    Conns,          \* accepted connections (each accepted at most once)
    Users,          \* user_info.user_id of a connection
    Flows,          \* flow keys host-local_ip-remote_ip
    Sizes,          \* byte counts of one write
    MaxTraffic      \* bound on Traffic events per connection

Kinds == {"None", "Http", "Https", "Socks5"}   \* rg_stat::RequestType

VARIABLES
    apc,            \* accept loop: "accept", or the connection whose -1 is still to be sent
    hpc,            \* hpc[c]: "new", "auth" (spawned), "tunnel", "done"
    user, flow,     \* user[c], flow[c]: the connection's user and flow key
    ntraffic,       \* ntraffic[c]: Traffic events c has sent
    events,         \* the StatEvent channel
    total,          \* TrafficTotalStat: [total, upload, download]
    traffic_info,   \* TrafficUserStat: user -> flow -> [upload, download]
    requests,       \* RequestStat: kind -> count
    alive,          \* ConnectionStat.alive_in_connection
    lastTotal,      \* the TrafficTotal snapshot of the last collection
    lastUser,       \* the UserTraffic snapshot of the last collection
    reportedAlive,  \* the sum of all Connection snapshots so far
    reportedReq     \* kind -> the sum of all Request snapshots so far

vars == <<apc, hpc, user, flow, ntraffic, events, total, traffic_info, requests,
          alive, lastTotal, lastUser, reportedAlive, reportedReq>>

Zero3 == [total |-> 0, upload |-> 0, download |-> 0]

TrafficEvent == [type: {"Traffic"}, user: Users, flow: Flows, upload: Nat, download: Nat]
Event == TrafficEvent \cup [type: {"Request"}, kind: Kinds]
                      \cup [type: {"Connection"}, delta: {-1, 1}]

TypeOK ==
    /\ apc \in Conns \cup {"accept"}
    /\ hpc \in [Conns -> {"new", "auth", "tunnel", "done"}]
    /\ user \in [Conns -> Users] /\ flow \in [Conns -> Flows]
    /\ ntraffic \in [Conns -> 0..MaxTraffic]
    /\ events \in Seq(Event)
    /\ total \in [total: Nat, upload: Nat, download: Nat]
    /\ DOMAIN traffic_info \subseteq Users
    /\ \A u \in DOMAIN traffic_info :
          /\ DOMAIN traffic_info[u] \subseteq Flows
          /\ \A f \in DOMAIN traffic_info[u] :
                traffic_info[u][f] \in [upload: Nat, download: Nat]
    /\ requests \in [Kinds -> Nat]
    /\ alive \in Int
    /\ reportedAlive \in Int
    /\ reportedReq \in [Kinds -> Nat]

Init ==
    /\ apc = "accept"
    /\ hpc = [c \in Conns |-> "new"]
    /\ user = [c \in Conns |-> CHOOSE u \in Users : TRUE]
    /\ flow = [c \in Conns |-> CHOOSE f \in Flows : TRUE]
    /\ ntraffic = [c \in Conns |-> 0]
    /\ events = <<>>
    /\ total = Zero3
    /\ traffic_info = <<>>
    /\ requests = [k \in Kinds |-> 0]
    /\ alive = 0
    /\ lastTotal = Zero3
    /\ lastUser = <<>>
    /\ reportedAlive = 0
    /\ reportedReq = [k \in Kinds |-> 0]

-----------------------------------------------------------------------------
(* Counter operations (StatisticManager::run applying one event). *)

\* A TrafficTotalStat::add that leaves the download out of the total.
AddTotalUploadOnly(t, up, down) ==
    [total |-> t.total + up, upload |-> t.upload + up,
     download |-> t.download + down]

\* TrafficTotalStat::add(upload, download)
AddTotal(t, up, down) ==
    [total |-> t.total + up + down, upload |-> t.upload + up,
     download |-> t.download + down]

\* A TrafficUserStat::add whose inner map is keyed by the user id instead of
\* the flow key.
AddUserWrongKey(m, e) ==
    LET old == IF e.user \in DOMAIN m THEN m[e.user] ELSE <<>>
        new == [f \in DOMAIN old \cup {e.user} |->
                  IF f = e.user THEN [upload |-> e.upload, download |-> e.download]
                  ELSE old[f]]
    IN [u \in DOMAIN m \cup {e.user} |-> IF u = e.user THEN new ELSE m[u]]

\* TrafficUserStat::add(info): fold into the user's entry for the flow key,
\* or insert the record.
AddUser(m, e) ==
    LET old == IF e.user \in DOMAIN m THEN m[e.user] ELSE <<>>
        rec == IF e.flow \in DOMAIN old
                 THEN [upload |-> old[e.flow].upload + e.upload,
                       download |-> old[e.flow].download + e.download]
                 ELSE [upload |-> e.upload, download |-> e.download]
        new == [f \in DOMAIN old \cup {e.flow} |-> IF f = e.flow THEN rec ELSE old[f]]
    IN [u \in DOMAIN m \cup {e.user} |-> IF u = e.user THEN new ELSE m[u]]

\* RequestStat::add(type_): one more request of kind k.
AddRequest(r, k) == [r EXCEPT ![k] = @ + 1]

\* ConnectionStat::add(in_conn)
AddConnection(a, d) == a + d

\* The sum of one field over every record of a UserTraffic snapshot.
UserSum(m, field) ==
    LET recs == UNION {{<<u, f>> : f \in DOMAIN m[u]} : u \in DOMAIN m}
        RECURSIVE SumOver(_)
        SumOver(S) ==
            IF S = {} THEN 0
            ELSE LET x == CHOOSE x \in S : TRUE
                 IN m[x[1]][x[2]][field] + SumOver(S \ {x})
    IN SumOver(recs)

-----------------------------------------------------------------------------
(* The accept loop of ProxyServer::start. *)

\* An accept loop that does not send request_stat(None).
AcceptWithoutRequest(c) ==
    /\ apc = "accept"
    /\ hpc[c] = "new"
    /\ events' = Append(events, [type |-> "Connection", delta |-> 1])
    /\ hpc' = [hpc EXCEPT ![c] = "auth"]
    /\ apc' = c
    /\ UNCHANGED <<user, flow, ntraffic, total, traffic_info, requests, alive,
                   lastTotal, lastUser, reportedAlive, reportedReq>>

\* accept() returns c: request_stat(None), connection_stat(1), then
\* handle_connection, which sets linger and spawns the connection task.
Accept(c) ==
    /\ apc = "accept"
    /\ hpc[c] = "new"
    /\ events' = events \o << [type |-> "Request", kind |-> "None"],
                              [type |-> "Connection", delta |-> 1] >>
    /\ hpc' = [hpc EXCEPT ![c] = "auth"]
    /\ apc' = c
    /\ UNCHANGED <<user, flow, ntraffic, total, traffic_info, requests, alive,
                   lastTotal, lastUser, reportedAlive, reportedReq>>

\* handle_connection has returned (the task is spawned): connection_stat(-1).
AcceptDone ==
    /\ apc \in Conns
    /\ events' = Append(events, [type |-> "Connection", delta |-> -1])
    /\ apc' = "accept"
    /\ UNCHANGED <<hpc, user, flow, ntraffic, total, traffic_info, requests, alive,
                   lastTotal, lastUser, reportedAlive, reportedReq>>

-----------------------------------------------------------------------------
(* A connection task (HTTP path of DcServerBackend::handle_connection). *)

\* The request of user u for host flow f is parsed and authenticated:
\* request_stat(Https) for CONNECT, request_stat(Http) otherwise.
Authenticated(c, u, f, k) ==
    /\ hpc[c] = "auth"
    /\ events' = Append(events, [type |-> "Request", kind |-> k])
    /\ hpc' = [hpc EXCEPT ![c] = "tunnel"]
    /\ user' = [user EXCEPT ![c] = u]
    /\ flow' = [flow EXCEPT ![c] = f]
    /\ UNCHANGED <<apc, ntraffic, total, traffic_info, requests, alive,
                   lastTotal, lastUser, reportedAlive, reportedReq>>

\* A write of n bytes, upload (the request, or client to target) or
\* download: the traffic callback sends a Traffic event.
Traffic(c, isUpload, n) ==
    /\ hpc[c] = "tunnel"
    /\ ntraffic[c] < MaxTraffic
    /\ events' = Append(events, [type |-> "Traffic", user |-> user[c], flow |-> flow[c],
                                 upload |-> IF isUpload THEN n ELSE 0,
                                 download |-> IF isUpload THEN 0 ELSE n])
    /\ ntraffic' = [ntraffic EXCEPT ![c] = @ + 1]
    /\ UNCHANGED <<apc, hpc, user, flow, total, traffic_info, requests, alive,
                   lastTotal, lastUser, reportedAlive, reportedReq>>

\* The task ends: a failed parse, authentication, ACL check, resolve or
\* connect returns an error; a tunnel ends.
Finish(c) ==
    /\ hpc[c] \in {"auth", "tunnel"}
    /\ hpc' = [hpc EXCEPT ![c] = "done"]
    /\ UNCHANGED <<apc, user, flow, ntraffic, events, total, traffic_info, requests,
                   alive, lastTotal, lastUser, reportedAlive, reportedReq>>

-----------------------------------------------------------------------------
(* The StatisticManager task (rg-stat StatisticManager::run). *)

\* The recv branch of the select: the head event goes to its counter.
ApplyEvent ==
    /\ events # <<>>
    /\ LET e == Head(events) IN
         /\ total' = IF e.type = "Traffic" THEN AddTotal(total, e.upload, e.download)
                     ELSE total
         /\ traffic_info' = IF e.type = "Traffic" THEN AddUser(traffic_info, e)
                            ELSE traffic_info
         /\ requests' = IF e.type = "Request" THEN AddRequest(requests, e.kind)
                        ELSE requests
         /\ alive' = IF e.type = "Connection" THEN AddConnection(alive, e.delta) ELSE alive
    /\ events' = Tail(events)
    /\ UNCHANGED <<apc, hpc, user, flow, ntraffic, lastTotal, lastUser,
                   reportedAlive, reportedReq>>

(* Each counter's _collect reads every field with fetch_and(0), so the    *)
(* snapshot and the reset are one step of the manager task.               *)

\* TrafficTotalStat::_collect
CollectTotal == lastTotal' = total /\ total' = Zero3

\* TrafficUserStat::_collect: every user's flow entries, then clear().
CollectUser == lastUser' = traffic_info /\ traffic_info' = <<>>

\* RequestStat::_collect
CollectRequest ==
    /\ reportedReq' = [k \in Kinds |-> reportedReq[k] + requests[k]]
    /\ requests' = [k \in Kinds |-> 0]

\* ConnectionStat::_collect
CollectConnection == reportedAlive' = reportedAlive + alive /\ alive' = 0

\* The timer branch: collect_stat collects every subscribed counter (main.rs
\* subscribes every StatType) and sends the snapshots; no snapshot is empty.
Collect ==
    /\ CollectTotal /\ CollectUser /\ CollectRequest /\ CollectConnection
    /\ UNCHANGED <<apc, hpc, user, flow, ntraffic, events>>

-----------------------------------------------------------------------------

Next ==
    \/ \E c \in Conns : Accept(c)
    \/ AcceptDone
    \/ \E c \in Conns, u \in Users, f \in Flows, k \in {"Http", "Https"} :
          Authenticated(c, u, f, k)
    \/ \E c \in Conns, up \in BOOLEAN, n \in Sizes : Traffic(c, up, n)
    \/ \E c \in Conns : Finish(c)
    \/ ApplyEvent
    \/ Collect

Spec == Init /\ [][Next]_vars

\* The states in which every event sent so far has been applied and the
\* accept loop is between two connections.
Quiescent == events = <<>> /\ apc = "accept"

-----------------------------------------------------------------------------
(* Properties *)

\* One collection reports the same traffic in both of its snapshots: the
\* TrafficTotal snapshot's upload, download and total equal the sums over
\* the UserTraffic snapshot's records, although TrafficTotalStat::add and
\* TrafficUserStat::add keep separate counters that collect_stat clears
\* one after the other.
TrafficRoundAgrees ==
    /\ lastTotal.upload = UserSum(lastUser, "upload")
    /\ lastTotal.download = UserSum(lastUser, "download")
    /\ lastTotal.total = lastTotal.upload + lastTotal.download

\* Every request the server has been told about is also counted in the
\* total: over all Request snapshots, total_request (RequestType::None, sent
\* by the accept loop before the connection task is spawned) is at least
\* http_request + https_request (sent by that task).
RequestsCovered ==
    reportedReq["None"] >= reportedReq["Http"] + reportedReq["Https"]

\* The connection gauge counts live connections (spec: "incremented on
\* accept, decremented after handling"): once every event is applied, the
\* reported Connection deltas plus the uncollected counter equal the
\* number of connection tasks that have not ended.
ConnectionsCounted ==
    Quiescent =>
        reportedAlive + alive = Cardinality({c \in Conns : hpc[c] \in {"auth", "tunnel"}})

=============================================================================
