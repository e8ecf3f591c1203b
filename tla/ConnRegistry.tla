---------------------------- MODULE ConnRegistry ----------------------------
(***************************************************************************)
(* The connection registry ConnStat (rg-proxy/src/conn_set.rs) together   *)
(* with the two kinds of task that use it concurrently:                   *)
(*   - connection tasks, in the tunnel part of                            *)
(*     DcServerBackend::handle_connection: create the shutdown broadcast, *)
(*     register it (ConnStat::add, two separate DashMap operations), copy *)
(*     until either direction ends or the shutdown arrives, then send the *)
(*     shutdown themselves and unregister (ConnStat::remove);             *)
(*   - the kill-user task of init_kill_user_connection, fed through an    *)
(*     unbounded channel by the control session's DisableUser handler,    *)
(*     which runs ConnStat::kill_user: take the user's id set, then look  *)
(*     up and remove each id's sender and send the shutdown on it.        *)
(* A registration id is the address of the task's shutdown_tx; addresses  *)
(* are unique among live tasks but the allocator may hand a finished      *)
(* task's address to a new one, so a new task may take any id that no    *)
(* live task holds.  A connection task that finishes goes back to "idle"  *)
(* and stands for the next accepted connection.                           *)
(***************************************************************************)
EXTENDS Naturals, Sequences, FiniteSets

CONSTANTS
    Users,      \* user ids a tunnel can be registered under
    Conns,      \* connection tasks
    Ids,        \* addresses a shutdown_tx can live at
    MaxKills,   \* bound on DisableUser messages
    NoConn,     \* "no sender at this id" in connection_map
    NoUser      \* the kill task is waiting for a user id

ASSUME
    /\ Users # {} /\ Conns # {} /\ Ids # {}
    /\ MaxKills \in Nat
    /\ NoConn \notin Conns
    /\ NoUser \notin Users

VARIABLES
    pc,             \* pc[c] \in {"idle", "adding", "copying"}
    owner,          \* owner[c]: user_info.user_id of c's tunnel
    tid,            \* tid[c]: the id c registered under (&shutdown_tx)
    cancelled,      \* tasks with a shutdown signal pending on their channel
    connections,    \* ConnStat.connections: user -> set of ids
    connection_map, \* ConnStat.connection_map: id -> sender (NoConn if absent)
    killQ,          \* the channel from DisableUser to the kill task
    kills,          \* DisableUser messages handled so far
    killing,        \* user whose kill_user is running, NoUser if none
    killIds,        \* ids remove_all took and has not looked up yet
    doomedReg,      \* ghost: fully registered tunnels of `killing` when it took the set
    doomedAdding    \* ghost: tunnels of `killing` half-way through add when it took the set

vars == <<pc, owner, tid, cancelled, connections, connection_map, killQ, kills,
          killing, killIds, doomedReg, doomedAdding>>

-----------------------------------------------------------------------------
Live == {c \in Conns : pc[c] # "idle"}

\* The address of a live task's shutdown_tx is not free.
LiveIds == {tid[c] : c \in Live}

TypeOK ==
    /\ pc \in [Conns -> {"idle", "adding", "copying"}]
    /\ owner \in [Conns -> Users]
    /\ tid \in [Conns -> Ids]
    /\ cancelled \subseteq Conns
    /\ connections \in [Users -> SUBSET Ids]
    /\ connection_map \in [Ids -> Conns \cup {NoConn}]
    /\ killQ \in Seq(Users)
    /\ kills \in 0..MaxKills
    /\ killing \in Users \cup {NoUser}
    /\ killIds \subseteq Ids
    /\ doomedReg \subseteq Conns /\ doomedAdding \subseteq Conns

Init ==
    /\ pc = [c \in Conns |-> "idle"]
    /\ owner = [c \in Conns |-> CHOOSE u \in Users : TRUE]
    /\ tid = [c \in Conns |-> CHOOSE i \in Ids : TRUE]
    /\ cancelled = {}
    /\ connections = [u \in Users |-> {}]
    /\ connection_map = [i \in Ids |-> NoConn]
    /\ killQ = <<>>
    /\ kills = 0
    /\ killing = NoUser
    /\ killIds = {}
    /\ doomedReg = {}
    /\ doomedAdding = {}

-----------------------------------------------------------------------------
(* Mutations of the code, used to show that the properties below can fail. *)

\* remove() that forgets connection_map.remove(&id).
ReleaseKeepsSender(c) ==
    /\ pc[c] = "copying"
    /\ pc' = [pc EXCEPT ![c] = "idle"]
    /\ cancelled' = cancelled \ {c}
    /\ connections' = [connections EXCEPT ![owner[c]] = @ \ {tid[c]}]
    /\ doomedReg' = doomedReg \ {c}
    /\ doomedAdding' = doomedAdding \ {c}
    /\ UNCHANGED <<owner, tid, connection_map, killQ, kills, killing, killIds>>

\* remove_all() that drops the senders it removes instead of returning them.
KillCancelDropsSender(id) ==
    /\ id \in killIds
    /\ killIds' = killIds \ {id}
    /\ connection_map' = [connection_map EXCEPT ![id] = NoConn]
    /\ UNCHANGED <<pc, owner, tid, cancelled, connections, killQ, kills, killing,
                   doomedReg, doomedAdding>>

-----------------------------------------------------------------------------
(* ConnStat operations on the two maps. *)

\* ConnStat::add, first half: connections.entry(user_id) gets id.
AddToUserSet(u, id) == [connections EXCEPT ![u] = @ \cup {id}]

\* ConnStat::remove: drop id from the user's set (if the set exists) and
\* from connection_map.
RemoveFromUserSet(u, id) == [connections EXCEPT ![u] = @ \ {id}]

-----------------------------------------------------------------------------
(* Actions. *)

\* Control session: ServerMessage::DisableUser(id) is forwarded to the kill
\* task's channel.
DisableUser(u) ==
    /\ kills < MaxKills
    /\ killQ' = Append(killQ, u)
    /\ kills' = kills + 1
    /\ UNCHANGED <<pc, owner, tid, cancelled, connections, connection_map, killing,
                   killIds, doomedReg, doomedAdding>>

\* An authenticated HTTP connection of user u creates its shutdown channel at
\* a free address id and runs the first half of ConnStat::add.
Register(c, u, id) ==
    /\ pc[c] = "idle"
    /\ id \notin LiveIds
    /\ pc' = [pc EXCEPT ![c] = "adding"]
    /\ owner' = [owner EXCEPT ![c] = u]
    /\ tid' = [tid EXCEPT ![c] = id]
    /\ cancelled' = cancelled \ {c}
    /\ connections' = AddToUserSet(u, id)
    /\ UNCHANGED <<connection_map, killQ, kills, killing, killIds, doomedReg, doomedAdding>>

\* ConnStat::add, second half: connection_map.insert(id, sender); the task
\* then starts the two io_copy directions.
PublishSender(c) ==
    /\ pc[c] = "adding"
    /\ connection_map' = [connection_map EXCEPT ![tid[c]] = c]
    /\ pc' = [pc EXCEPT ![c] = "copying"]
    /\ UNCHANGED <<owner, tid, cancelled, connections, killQ, kills, killing, killIds,
                   doomedReg, doomedAdding>>

\* One io_copy direction returns (EOF, error, or the shutdown signal), the
\* select! drops the other, the task sends on its own shutdown_tx and runs
\* ConnStat::remove(user_id, id).  The self-sent signal has no receiver left.
Release(c) ==
    /\ pc[c] = "copying"
    /\ pc' = [pc EXCEPT ![c] = "idle"]
    /\ cancelled' = cancelled \ {c}
    /\ connections' = RemoveFromUserSet(owner[c], tid[c])
    /\ connection_map' = [connection_map EXCEPT ![tid[c]] = NoConn]
    /\ doomedReg' = doomedReg \ {c}
    /\ doomedAdding' = doomedAdding \ {c}
    /\ UNCHANGED <<owner, tid, killQ, kills, killing, killIds>>

\* The kill task receives a user id and runs remove_all's first step:
\* connections.remove(&user_id) takes the whole id set.
KillTake ==
    /\ killing = NoUser
    /\ killQ # <<>>
    /\ LET u == Head(killQ) IN
       /\ killQ' = Tail(killQ)
       /\ killing' = u
       /\ killIds' = connections[u]
       /\ connections' = [connections EXCEPT ![u] = {}]
       /\ doomedReg' = {c \in Live : owner[c] = u /\ tid[c] \in connections[u]
                                     /\ pc[c] = "copying"}
       /\ doomedAdding' = {c \in Live : owner[c] = u /\ tid[c] \in connections[u]
                                        /\ pc[c] = "adding"}
    /\ UNCHANGED <<pc, owner, tid, cancelled, connection_map, kills>>

\* remove_all's loop, one id (HashSet order is arbitrary): remove its sender
\* from connection_map if present; kill_user then sends the shutdown on it.
KillCancel(id) ==
    /\ id \in killIds
    /\ killIds' = killIds \ {id}
    /\ connection_map' = [connection_map EXCEPT ![id] = NoConn]
    /\ cancelled' = cancelled \cup ({connection_map[id]} \ {NoConn})
    /\ UNCHANGED <<pc, owner, tid, connections, killQ, kills, killing,
                   doomedReg, doomedAdding>>

\* kill_user returns; the kill task waits for the next user id.
KillFinish ==
    /\ killing # NoUser
    /\ killIds = {}
    /\ killing' = NoUser
    /\ UNCHANGED <<pc, owner, tid, cancelled, connections, connection_map, killQ,
                   kills, killIds, doomedReg, doomedAdding>>

Next ==
    \/ \E u \in Users : DisableUser(u)
    \/ \E c \in Conns, u \in Users, id \in Ids : Register(c, u, id)
    \/ \E c \in Conns : PublishSender(c) \/ Release(c)
    \/ KillTake
    \/ \E id \in Ids : KillCancel(id)
    \/ KillFinish

\* A task that has registered keeps running until it publishes its sender;
\* the kill task is a loop that always runs.  A tunnel is not forced to end,
\* not even with a shutdown pending: io_copy awaits write_all inside the
\* select! arm (backend/mod.rs:236/239) and does not poll the shutdown
\* receiver until the peer takes the bytes.  The client ending a tunnel, a
\* new connection arriving and the server sending DisableUser are not forced.
Fairness ==
    /\ \A c \in Conns : WF_vars(PublishSender(c))
    /\ WF_vars(KillTake)
    /\ \A id \in Ids : WF_vars(KillCancel(id))
    /\ WF_vars(KillFinish)

Spec == Init /\ [][Next]_vars /\ Fairness

-----------------------------------------------------------------------------
(* Properties. *)

\* ConnStat only refers to live tunnels, under their own user: every sender in
\* connection_map is the live task registered at that id, and every id in a
\* user's set is held by a live task of that user.  A leaked entry would let
\* a later kill_user reach whichever task reuses the address.
RegistryOnlyLive ==
    /\ \A id \in Ids : connection_map[id] # NoConn =>
            /\ connection_map[id] \in Live
            /\ tid[connection_map[id]] = id
    /\ \A u \in Users : \A id \in connections[u] :
            \E c \in Live : tid[c] = id /\ owner[c] = u

\* kill_user(u) cancels every tunnel of u that had completed ConnStat::add
\* when kill_user took u's set, unless it ended by itself meanwhile.
KillReachesRegistered ==
    killing = NoUser => doomedReg \subseteq cancelled

\* kill_user(u) cancels every tunnel of u that had started ConnStat::add
\* (its id is in u's set) when kill_user took the set (spec 4.3: kill_user
\* extracts all handles of the user atomically; scenario 5).
KillReachesAllStarted ==
    killing = NoUser => (doomedReg \cup doomedAdding) \subseteq cancelled

\* A shutdown sent by kill_user(u) only reaches tunnels of u (spec 8:
\* "other users' tunnels are unaffected").
KillIsolation ==
    [][\A c \in cancelled' \ cancelled : owner[c] = killing]_vars

=============================================================================
