----------------------------- MODULE Directory -----------------------------
(***************************************************************************)
(* The user directory DcAuthenticator (rg-acl/src/auth/dc_auth.rs) and the *)
(* authentication decision the HTTP path takes with it:                    *)
(* check_is_white, then http_check_user_auth (admin back-door, then        *)
(* DcAuthenticator::check_auth), rg-proxy/src/backend/mod.rs.              *)
(*                                                                         *)
(* State: the four indices of DcAuthenticator.  Operations that change it: *)
(* the control session's UserAuth (update_all), UserWhiteList              *)
(* (update_white_list) and UpdateUser (update_user_info); each runs under  *)
(* the directory's write lock, so each is one atomic step.                 *)
(*                                                                         *)
(* Strings: an index key built with format!("{}-{}", ...) is a tuple of   *)
(* its parts; the model's ips, names and passwords contain no '-', on      *)
(* which the formatting is injective.  The bare "{}" key of an ip is the   *)
(* 1-tuple, which differs from every 3-tuple as "ip" differs from          *)
(* "ip--" in the code.                                                     *)
(***************************************************************************)
EXTENDS Naturals, Sequences, FiniteSets, SequencesExt

CONSTANTS
    UserIds,        \* user ids other than 0 (0 is UserInfo::default())
    LocalIPs,       \* listener addresses (the `ip`/`addr` argument)
    RemoteIPs,      \* client addresses
    Names,          \* non-empty usernames
    Passwords,      \* non-empty passwords
    AdminName,      \* DEFAULT_USERNAME
    AdminPass,      \* DEFAULT_PASSOWRD
    UserPool,       \* UserInfo records the server may send
    WhitePool,      \* WhiteListData records the server may send
    MaxBatch        \* longest UserAuth / UserWhiteList list

IPs == LocalIPs \cup RemoteIPs
Name == Names \cup {""}
Password == Passwords \cup {""}
IP == "IP"
PASSWORD == "PASSWORD"

UserInfo == [user_id: UserIds, username: Name, password: Password,
             white_ip: IPs, auth_type: {IP, PASSWORD}, ips: SUBSET LocalIPs,
             available: BOOLEAN]
WhiteListData == [ip: IPs, username: Name, password: Password, user_id: UserIds \cup {0}]

ASSUME
    /\ 0 \notin UserIds
    /\ AdminName \in Names /\ AdminPass \in Passwords
    /\ UserPool \subseteq UserInfo
    /\ WhitePool \subseteq WhiteListData
    /\ MaxBatch \in Nat

VARIABLES
    user_map,         \* user_id -> UserInfo
    ip_map,           \* key -> user_id; key is <<white_ip>> or <<ip, username>>
    user_white_list,  \* key -> user_id; key is <<ip>> or <<ip, username, password>>
    in_stock          \* ips named by the allowlist

vars == <<user_map, ip_map, user_white_list, in_stock>>

IpKey == {<<i>> : i \in IPs} \cup (LocalIPs \X Names)
WhiteKey == {<<i>> : i \in IPs} \cup (IPs \X Name \X Password)

\* A function f with one more point (or a new value at it).
Put(f, k, v) == [x \in DOMAIN f \cup {k} |-> IF x = k THEN v ELSE f[x]]

\* Batches the server may send; a user list names each user once.
Batches(S) == UNION {[1..n -> S] : n \in 0..MaxBatch}
UserBatches ==
    {us \in Batches(UserPool) :
        \A i, j \in DOMAIN us : us[i].user_id = us[j].user_id => i = j}

TypeOK ==
    /\ DOMAIN user_map \subseteq UserIds
    /\ \A id \in DOMAIN user_map : user_map[id] \in UserInfo
    /\ DOMAIN ip_map \subseteq IpKey
    /\ \A k \in DOMAIN ip_map : ip_map[k] \in UserIds
    /\ DOMAIN user_white_list \subseteq WhiteKey
    /\ \A k \in DOMAIN user_white_list : user_white_list[k] \in UserIds \cup {0}
    /\ in_stock \subseteq IPs

\* DcAuthenticator::default()
Init ==
    /\ user_map = <<>>
    /\ ip_map = <<>>
    /\ user_white_list = <<>>
    /\ in_stock = {}

-----------------------------------------------------------------------------
(* Mutations of the code, used to show that the properties can fail. *)

\* update_ip_map that always builds ip-username, also for users without a
\* username.
PointKeysAlwaysNamed(u) == {<<i, u.username>> : i \in u.ips}

-----------------------------------------------------------------------------
(* Index construction. *)

\* The ip_map keys update_all gives a user: its white_ip when it is an IP
\* user, else ip-username, in both cases once per entry of `ips`.
BulkKeys(u) ==
    IF u.auth_type = IP THEN {<<u.white_ip>> : i \in u.ips}
                        ELSE {<<i, u.username>> : i \in u.ips}

\* The keys update_ip_map gives a user: chosen by whether the username is
\* empty, not by auth_type.
PointKeys(u) ==
    IF u.username = "" THEN {<<u.white_ip>> : i \in u.ips}
                       ELSE {<<i, u.username>> : i \in u.ips}

\* Insert every key of ks with value v, overwriting.
PutAll(f, ks, v) == [x \in DOMAIN f \cup ks |-> IF x \in ks THEN v ELSE f[x]]

\* update_all: fresh user_map and ip_map from the list, later users win.
BuildUserMap(users) ==
    LET step(m, u) == Put(m, u.user_id, u)
    IN FoldLeft(step, <<>>, users)

BuildIpMap(users) ==
    LET step(m, u) == PutAll(m, BulkKeys(u), u.user_id)
    IN FoldLeft(step, <<>>, users)

\* update_white_list: key ip when both username and password are empty,
\* else ip-username-password.
WhiteKeyOf(w) ==
    IF w.username = "" /\ w.password = "" THEN <<w.ip>>
                                          ELSE <<w.ip, w.username, w.password>>

BuildWhiteList(ws) ==
    LET step(m, w) == Put(m, WhiteKeyOf(w), w.user_id)
    IN FoldLeft(step, <<>>, ws)

-----------------------------------------------------------------------------
(* Reads (under the read lock). *)

Accept(id) == [ok |-> TRUE, uid |-> id]
Reject == [ok |-> FALSE, uid |-> 0]

\* user_map_get(remote_ip): ip_map[remote_ip], then user_map.
HasUserAt(k) == k \in DOMAIN ip_map /\ ip_map[k] \in DOMAIN user_map
UserAt(k) == user_map[ip_map[k]]

\* check_is_white(remote_ip)
IsWhite(r) ==
    /\ HasUserAt(<<r>>)
    /\ UserAt(<<r>>).available
    /\ UserAt(<<r>>).auth_type = IP
    /\ UserAt(<<r>>).white_ip = r

\* check_auth step 1: the white user of the remote ip.
WhiteHit(r, isWhite) == isWhite /\ IsWhite(r)

\* check_auth step 2 (only when not white): the allowlist, keyed by the
\* `ip` argument, username and password.
WlKey(ip, n, p) == <<ip, n, p>>
WlHit(ip, n, p, isWhite) ==
    /\ ~isWhite
    /\ WlKey(ip, n, p) \in DOMAIN user_white_list
    /\ LET id == user_white_list[WlKey(ip, n, p)]
       IN \/ id = 0
          \/ /\ id \in DOMAIN user_map
             /\ user_map[id].available
             /\ user_map[id].auth_type = PASSWORD

\* check_auth step 3: remote_ip when the username is empty, else ip-username.
PwKey(ip, r, n) == IF n = "" THEN <<r>> ELSE <<ip, n>>
PwHit(ip, r, n, p) ==
    /\ HasUserAt(PwKey(ip, r, n))
    /\ UserAt(PwKey(ip, r, n)).password = p
    /\ UserAt(PwKey(ip, r, n)).available

\* DcAuthenticator::check_auth(username, password, ip, remote_ip, is_white)
CheckAuth(n, p, ip, r, isWhite) ==
    IF WhiteHit(r, isWhite) THEN Accept(UserAt(<<r>>).user_id)
    ELSE IF WlHit(ip, n, p, isWhite) THEN Accept(user_white_list[WlKey(ip, n, p)])
    ELSE IF PwHit(ip, r, n, p) THEN Accept(UserAt(PwKey(ip, r, n)).user_id)
    ELSE Reject

\* http_check_user_auth(conn, req, auth, local_ip, remote_ip, is_white) for a
\* request carrying credentials (n, p) (("", "") when it carries none): a
\* white client's credentials are ignored; the admin pair is accepted as
\* the default user when the listener ip is not in the allowlist.
\* isWhite is the value check_is_white returned, under an earlier read lock.
HttpCheckUserAuth(l, r, n, p, isWhite) ==
    LET un == IF isWhite THEN "" ELSE n
        pw == IF isWhite THEN "" ELSE p
    IN IF l \notin in_stock /\ un = AdminName /\ pw = AdminPass THEN Accept(0)
       ELSE CheckAuth(un, pw, l, r, isWhite)

\* Both reads against one directory state.
HttpAuth(l, r, n, p) == HttpCheckUserAuth(l, r, n, p, IsWhite(r))

-----------------------------------------------------------------------------
(* Actions: the directory handlers of handle_server_message. *)

\* ServerMessage::UserAuth -> update_all
UserAuth(users) ==
    /\ user_map' = BuildUserMap(users)
    /\ ip_map' = BuildIpMap(users)
    /\ UNCHANGED <<user_white_list, in_stock>>

\* ServerMessage::UserWhiteList -> update_white_list
UserWhiteList(ws) ==
    /\ user_white_list' = BuildWhiteList(ws)
    /\ in_stock' = {ws[i].ip : i \in DOMAIN ws}
    /\ UNCHANGED <<user_map, ip_map>>

\* ServerMessage::UpdateUser -> update_user_info: merge the user's keys into
\* ip_map (nothing is removed), then upsert the record.
UpdateUser(u) ==
    /\ ip_map' = PutAll(ip_map, PointKeys(u), u.user_id)
    /\ user_map' = Put(user_map, u.user_id, u)
    /\ UNCHANGED <<user_white_list, in_stock>>

Next ==
    \/ \E users \in UserBatches : UserAuth(users)
    \/ \E ws \in Batches(WhitePool) : UserWhiteList(ws)
    \/ \E u \in UserPool : UpdateUser(u)

Spec == Init /\ [][Next]_vars

-----------------------------------------------------------------------------
(* Properties, over every request a client can make. *)

Requests == LocalIPs \X RemoteIPs \X Name \X Password

\* A client that logs in with a username (no allowlist entry involved) is
\* accepted only as a user whose current record has that username and the
\* listener ip among its ips (spec 3: `ips` are the local ips the user may
\* egress from; indices derivable from the UserInfo set).
OwnIpsOnly ==
    \A q \in Requests :
        LET res == HttpAuth(q[1], q[2], q[3], q[4])
        IN /\ res.ok /\ res.uid # 0 /\ q[3] # ""
           /\ ~IsWhite(q[2]) /\ ~WlHit(q[1], q[3], q[4], FALSE)
           => /\ q[1] \in user_map[res.uid].ips
              /\ q[3] = user_map[res.uid].username

=============================================================================
