--------------------------- MODULE ControlSession ---------------------------
(***************************************************************************)
(* The control session of the server binary (server/src): ServerClient::run *)
(* (the reconnect loop), the listen task WebSocketClient::listen spawns for *)
(* every session, and the handle_server_message task run spawns beside it. *)
(*                                                                         *)
(* Sessions are numbered 1..MaxSessions.  Session 1 is the one             *)
(* ServerClient::new opened (new panics when that fails); each later one   *)
(* is a successful init_backend in the reconnect loop.  The only shared    *)
(* state between the tasks is the BACKEND_STATUS flag and, per session,    *)
(* the unbounded async channel from the listen task to the handler.        *)
(*                                                                         *)
(* The handler writes the DcAuthenticator that main() created and passed   *)
(* to run (main.rs:52), instanced here as Ctl.  (The proxy authenticates   *)
(* with the one dc_server::init created, dc_server.rs:40, which nothing    *)
(* writes; HttpPipeline models that one.)                                  *)
(***************************************************************************)
EXTENDS Naturals, Sequences, FiniteSets

CONSTANTS
    UserIds, LocalIPs, RemoteIPs, Names, Passwords, AdminName, AdminPass,
    UserPool, WhitePool, MaxBatch,   \* as in Directory
    MsgPool,        \* ServerMessages the server may send
    MaxSessions,    \* bound on sessions (initial one and reconnects)
    MaxFrames,      \* bound on messages the server sends in all
    NoMsg,          \* the handler holds no message
    StatTypes, Cap, MaxStats   \* as in StatUpload

VARIABLES
    status,        \* BACKEND_STATUS
    mpc,           \* run(): "top" (check status / init_backend), "listen", "loop"
                   \* (in the select), "check" (the BACKEND_STATUS load after it)
    session,       \* the session self.backend holds
    wire,          \* wire[s]: text frames the server sent on s, not yet read
    closed,        \* closed[s]: the server closed s (a Close frame, error or end follows the frames)
    lpc,           \* lpc[s]: listen task of s: "none", "run", "done"
    chan,          \* chan[s]: the async channel from s's listen task to its handler
    hpc,           \* hpc[s]: handler of s: "none", "recv", "apply", "check", "done"
    hmsg,          \* hmsg[s]: the message the handler of s is applying
    sent,          \* messages the server has sent
    killQ,         \* the kill_user channel (DisableUser ids forwarded)
    applied,       \* ghost: sequence number of the last message a handler applied
    ctl_user_map, ctl_ip_map, ctl_user_white_list, ctl_in_stock,  \* the control plane's DcAuthenticator
    acl,           \* the rule in the control plane's AclCenter
    epc, published, ring, lagged, fpc, merged, io, uploaded   \* StatUpload

Sessions == 1..MaxSessions

\* A message on the wire carries the sequence number of its sending.
Frame == [msg: MsgPool, seq: 1..MaxFrames]

dirVars == <<ctl_user_map, ctl_ip_map, ctl_user_white_list, ctl_in_stock>>
ctlVars == <<dirVars, acl>>
sessVars == <<status, mpc, session, wire, closed, lpc, chan, hpc, hmsg, sent>>
handlerFree == <<status, mpc, session, wire, closed, lpc, chan, sent>>
statVars == <<epc, published, ring, lagged, fpc, merged, io, uploaded>>
sessionAll == <<sessVars, killQ, applied, ctlVars>>
vars == <<sessionAll, statVars>>

\* The EmitClient this ServerClient owns, and the stats it forwards.
SU == INSTANCE StatUpload

ACL == INSTANCE Acl

Ctl == INSTANCE Directory WITH
    user_map <- ctl_user_map, ip_map <- ctl_ip_map,
    user_white_list <- ctl_user_white_list, in_stock <- ctl_in_stock

ASSUME
    /\ MsgPool \subseteq
         [kind: {"DisableUser"}, body: UserIds]
           \cup [kind: {"UserAuth"}, body: Ctl!UserBatches]
           \cup [kind: {"UpdateUser"}, body: UserPool]
           \cup [kind: {"UserWhiteList"}, body: Ctl!Batches(WhitePool)]
           \cup [kind: {"AclData"}, body: STRING]
    /\ MaxSessions \in Nat \ {0} /\ MaxFrames \in Nat
    /\ NoMsg \notin Frame

TypeOK ==
    /\ status \in BOOLEAN
    /\ mpc \in {"top", "listen", "loop", "check"}
    /\ session \in Sessions
    /\ wire \in [Sessions -> Seq(Frame)]
    /\ closed \in [Sessions -> BOOLEAN]
    /\ lpc \in [Sessions -> {"none", "run", "done"}]
    /\ chan \in [Sessions -> Seq(Frame)]
    /\ hpc \in [Sessions -> {"none", "recv", "apply", "check", "done"}]
    /\ hmsg \in [Sessions -> Frame \cup {NoMsg}]
    /\ sent \in 0..MaxFrames
    /\ killQ \in Seq(UserIds)
    /\ applied \in 0..MaxFrames
    /\ Ctl!TypeOK
    /\ acl \in ACL!AclRules
    /\ SU!TypeOK

\* ServerClient::new has run init_backend once: session 1 is authenticated
\* and BACKEND_STATUS is true; run() starts at the top of its loop.
Init ==
    /\ status = TRUE
    /\ mpc = "top"
    /\ session = 1
    /\ wire = [s \in Sessions |-> <<>>]
    /\ closed = [s \in Sessions |-> FALSE]
    /\ lpc = [s \in Sessions |-> "none"]
    /\ chan = [s \in Sessions |-> <<>>]
    /\ hpc = [s \in Sessions |-> "none"]
    /\ hmsg = [s \in Sessions |-> NoMsg]
    /\ sent = 0
    /\ killQ = <<>>
    /\ applied = 0
    /\ Ctl!Init
    /\ acl = ACL!DefaultAclRule
    /\ SU!Init

-----------------------------------------------------------------------------
(* The server side and the transport. *)

\* The server sends a text frame on the session the client holds.
ServerSend(m) ==
    /\ sent < MaxFrames
    /\ ~closed[session]
    /\ wire' = [wire EXCEPT ![session] = Append(@, [msg |-> m, seq |-> sent + 1])]
    /\ sent' = sent + 1
    /\ UNCHANGED <<status, mpc, session, closed, lpc, chan, hpc, hmsg, killQ, applied,
                   ctlVars>>

\* The session ends: a Close frame, a read error or the end of the stream
\* follows the frames already sent.
ServerClose ==
    /\ ~closed[session]
    /\ closed' = [closed EXCEPT ![session] = TRUE]
    /\ UNCHANGED <<status, mpc, session, wire, lpc, chan, hpc, hmsg, sent, killQ,
                   applied, ctlVars>>

-----------------------------------------------------------------------------
(* ServerClient::run *)

\* Top of the outer loop with BACKEND_STATUS false: init_backend dials,
\* sends Authenticate and IpRange and stores true.
Reconnect ==
    /\ mpc = "top"
    /\ ~status
    /\ session < MaxSessions
    /\ session' = session + 1
    /\ status' = TRUE
    /\ mpc' = "listen"
    /\ UNCHANGED <<wire, closed, lpc, chan, hpc, hmsg, sent, killQ, applied, ctlVars>>

\* init_backend fails: log, sleep 5 s, continue.
ReconnectFails ==
    /\ mpc = "top"
    /\ ~status
    /\ UNCHANGED vars

\* Top of the outer loop with BACKEND_STATUS true (the first iteration).
KeepSession ==
    /\ mpc = "top"
    /\ status
    /\ mpc' = "listen"
    /\ UNCHANGED <<status, session, wire, closed, lpc, chan, hpc, hmsg, sent, killQ,
                   applied, ctlVars>>

\* self.backend.listen() spawns the listen task and returns its channel;
\* handle_server_message is spawned on it.
Listen ==
    /\ mpc = "listen"
    /\ lpc' = [lpc EXCEPT ![session] = "run"]
    /\ hpc' = [hpc EXCEPT ![session] = "recv"]
    /\ mpc' = "loop"
    /\ UNCHANGED <<status, session, wire, closed, chan, hmsg, sent, killQ, applied,
                   ctlVars>>

\* The select's timer branch: a ping, whose failure is only logged; the
\* status is read after the select, not before it.
Tick ==
    /\ mpc = "loop"
    /\ mpc' = "check"
    /\ UNCHANGED <<status, session, wire, closed, lpc, chan, hpc, hmsg, sent, killQ,
                   applied, ctlVars>>

\* The select's stat branch: emit_stat on the session held, which the
\* server receives only while it has not closed that session; an error is
\* only logged.
TickStat ==
    /\ mpc = "loop"
    /\ SU!EmitStat(~closed[session])
    /\ mpc' = "check"
    /\ UNCHANGED <<status, session, wire, closed, lpc, chan, hpc, hmsg, sent, killQ,
                   applied, ctlVars>>

\* After a tick or a stat the inner loop loads BACKEND_STATUS: true, select
\* again.
LoopAgain ==
    /\ mpc = "check"
    /\ status
    /\ mpc' = "loop"
    /\ UNCHANGED <<status, session, wire, closed, lpc, chan, hpc, hmsg, sent, killQ,
                   applied, ctlVars>>

\* ... false: break to the outer loop.
LoopExit ==
    /\ mpc = "check"
    /\ ~status
    /\ mpc' = "top"
    /\ UNCHANGED <<status, session, wire, closed, lpc, chan, hpc, hmsg, sent, killQ,
                   applied, ctlVars>>

-----------------------------------------------------------------------------
(* The listen task of session s. *)

\* A text frame that parses as a ServerMessage goes to the channel.
ListenRecv(s) ==
    /\ lpc[s] = "run"
    /\ wire[s] # <<>>
    /\ chan' = [chan EXCEPT ![s] = Append(@, Head(wire[s]))]
    /\ wire' = [wire EXCEPT ![s] = Tail(@)]
    /\ UNCHANGED <<status, mpc, session, closed, lpc, hpc, hmsg, sent, killQ, applied,
                   ctlVars>>

\* A listen task whose end-of-stream branch forgets to store false.
ListenEndKeepsStatus(s) ==
    /\ lpc[s] = "run"
    /\ wire[s] = <<>>
    /\ closed[s]
    /\ lpc' = [lpc EXCEPT ![s] = "done"]
    /\ UNCHANGED <<status, mpc, session, wire, closed, chan, hpc, hmsg, sent, killQ,
                   applied, ctlVars>>

\* Close frame, read error or end of stream: store false and exit, which
\* drops the channel's sender.
ListenEnd(s) ==
    /\ lpc[s] = "run"
    /\ wire[s] = <<>>
    /\ closed[s]
    /\ status' = FALSE
    /\ lpc' = [lpc EXCEPT ![s] = "done"]
    /\ UNCHANGED <<mpc, session, wire, closed, chan, hpc, hmsg, sent, killQ, applied,
                   ctlVars>>

-----------------------------------------------------------------------------
(* handle_server_message of session s. *)

\* channel.recv() returns the next message.
HandlerRecv(s) ==
    /\ hpc[s] = "recv"
    /\ chan[s] # <<>>
    /\ hmsg' = [hmsg EXCEPT ![s] = Head(chan[s])]
    /\ chan' = [chan EXCEPT ![s] = Tail(@)]
    /\ hpc' = [hpc EXCEPT ![s] = "apply"]
    /\ UNCHANGED <<status, mpc, session, wire, closed, lpc, sent, killQ, applied, ctlVars>>

\* channel.recv() fails: the channel is empty and its sender is gone.
HandlerRecvErr(s) ==
    /\ hpc[s] = "recv"
    /\ chan[s] = <<>>
    /\ lpc[s] = "done"
    /\ hpc' = [hpc EXCEPT ![s] = "check"]
    /\ UNCHANGED <<status, mpc, session, wire, closed, lpc, chan, hmsg, sent, killQ,
                   applied, ctlVars>>

\* The message the handler of s holds, and its kind.
Held(s) == hmsg[s].msg
HeldIs(s, k) == hpc[s] = "apply" /\ Held(s).kind = k

\* The handler has applied the message it held.
Done(s) ==
    /\ hpc' = [hpc EXCEPT ![s] = "check"]
    /\ hmsg' = [hmsg EXCEPT ![s] = NoMsg]
    /\ applied' = hmsg[s].seq

\* DisableUser(id): kill_user_sender.send(id) on the unbounded kill channel.
ApplyDisableUser(s) ==
    /\ HeldIs(s, "DisableUser")
    /\ killQ' = Append(killQ, Held(s).body)
    /\ Done(s)
    /\ UNCHANGED <<handlerFree, ctlVars>>

\* AclData(data): acl_center.write().await, then update(data).
ApplyAclData(s) ==
    /\ HeldIs(s, "AclData")
    /\ acl' = ACL!Update(acl, Held(s).body)
    /\ Done(s)
    /\ UNCHANGED <<handlerFree, killQ, dirVars>>

\* UserAuth(users): auth_center.write().await, then update_all.
ApplyUserAuth(s) ==
    /\ HeldIs(s, "UserAuth")
    /\ Ctl!UserAuth(Held(s).body)
    /\ Done(s)
    /\ UNCHANGED <<handlerFree, killQ, acl>>

\* UpdateUser(user): auth_center.write().await, then update_user_info.
ApplyUpdateUser(s) ==
    /\ HeldIs(s, "UpdateUser")
    /\ Ctl!UpdateUser(Held(s).body)
    /\ Done(s)
    /\ UNCHANGED <<handlerFree, killQ, acl>>

\* UserWhiteList(data): auth_center.write().await, then update_white_list.
ApplyUserWhiteList(s) ==
    /\ HeldIs(s, "UserWhiteList")
    /\ Ctl!UserWhiteList(Held(s).body)
    /\ Done(s)
    /\ UNCHANGED <<handlerFree, killQ, acl>>

\* After each recv, message or error: break when BACKEND_STATUS is false.
HandlerCheck(s) ==
    /\ hpc[s] = "check"
    /\ hpc' = [hpc EXCEPT ![s] = IF status THEN "recv" ELSE "done"]
    /\ UNCHANGED <<status, mpc, session, wire, closed, lpc, chan, hmsg, sent, killQ,
                   applied, ctlVars>>

SessionNext ==
    \/ \E m \in MsgPool : ServerSend(m)
    \/ ServerClose
    \/ Reconnect \/ ReconnectFails \/ KeepSession \/ Listen \/ Tick \/ LoopAgain \/ LoopExit
    \/ \E s \in Sessions :
          \/ ListenRecv(s) \/ ListenEnd(s)
          \/ HandlerRecv(s) \/ HandlerRecvErr(s) \/ HandlerCheck(s)
          \/ ApplyDisableUser(s) \/ ApplyUserAuth(s) \/ ApplyUpdateUser(s)
          \/ ApplyUserWhiteList(s) \/ ApplyAclData(s)

\* A step of one of the stat tasks, which leave the session alone.
StatTask(A) == A /\ UNCHANGED sessionAll

\* The session tasks, the stat tasks EmitClient::run spawned (whose only
\* link to the session is `io`) and the select's stat branch.
Next ==
    \/ SessionNext /\ UNCHANGED statVars
    \/ StatTask(SU!Tasks)
    \/ TickStat

\* Every step of the client's own tasks runs once it can: the reconnect loop
\* (the select's 5 s interval always ticks, so the status is read again)
\* (a failed init_backend retries after 5 s; it is not assumed to succeed),
\* the listen task on a frame or the end of its stream, the handler on a
\* message, an error or its status check.  The server is not fair.
Fairness ==
    /\ WF_sessionAll(KeepSession) /\ WF_sessionAll(Listen) /\ WF_sessionAll(Tick)
    /\ WF_sessionAll(LoopAgain) /\ WF_sessionAll(LoopExit)
    /\ \A s \in Sessions :
          /\ WF_sessionAll(ListenRecv(s)) /\ WF_sessionAll(ListenEnd(s))
          /\ WF_sessionAll(HandlerRecv(s)) /\ WF_sessionAll(HandlerRecvErr(s))
          /\ WF_sessionAll(HandlerCheck(s))
          /\ WF_sessionAll(ApplyDisableUser(s) \/ ApplyUserAuth(s) \/ ApplyUpdateUser(s)
                     \/ ApplyUserWhiteList(s) \/ ApplyAclData(s))
    /\ WF_statVars(StatTask(SU!Run)) /\ WF_statVars(StatTask(SU!Pump))
    /\ \A t \in StatTypes :
          WF_statVars(StatTask(SU!Forward(t))) /\ WF_statVars(StatTask(SU!ForwardLagged(t)))

Spec == Init /\ [][Next]_vars /\ Fairness

-----------------------------------------------------------------------------
(* Properties. *)

\* BACKEND_STATUS says whether the session the client holds still has its
\* reader: it is false exactly when that session's listen task has ended,
\* so the reconnect loop neither keeps a dead session nor opens a second
\* one while a reader is running; no earlier session's reader is left.
SessionConsistent ==
    /\ status = (lpc[session] # "done")
    /\ \A s \in Sessions : s # session => lpc[s] # "run"

\* Every ServerMessage the listen task passed on is handled: a handler does
\* not stop with messages left in its channel (a DisableUser left there is
\* never forwarded to kill_user).
NoMessageDropped ==
    \A s \in Sessions : hpc[s] = "done" => chan[s] = <<>>

\* Server messages are applied in the order the server sent them, across
\* reconnects: an older UserAuth is never applied after a newer one.
AppliedInOrder ==
    [][applied' # applied => applied' > applied]_vars

\* StatUpload's ImplementsBestEffort with emits racing the session's close
\* and the reconnect loop: the stat path, composed with the control
\* session, is a lossy FIFO per type.
StatUploadBestEffort == SU!ImplementsBestEffort

\* The handler of a session whose listen task has ended, once a newer
\* session is held, eventually returns: handle_server_message must not go
\* on looping on recv errors of its closed channel.
StaleHandlerEnds ==
    \A s \in Sessions :
        (lpc[s] = "done" /\ session # s) ~> hpc[s] = "done"

=============================================================================
