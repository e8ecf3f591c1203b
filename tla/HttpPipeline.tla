---------------------------- MODULE HttpPipeline ----------------------------
(***************************************************************************)
(* One connection task on the HTTP path, from accept to the end of the     *)
(* tunnel: DcServerBackend::handle_connection (dc_server.rs) with the      *)
(* steps it calls -- check_is_white, Sock5Http::socks5_or_http,            *)
(* parse_incomming_request with read_content and HttpRequest::new          *)
(* (http_impl), http_check_user_auth, resolve_host, connect_target,        *)
(* remove_headers (util.rs) and the upload half io_copy with its header    *)
(* filter.  The client and the target are the environment.                 *)
(*                                                                         *)
(* Bytes.  A byte is a symbol of a small alphabet:                         *)
(*   "G", "C"  first byte of a GET / CONNECT method token, "m" its rest;   *)
(*   "s" a space, "h" the request target, "N" a line end (CR LF);          *)
(*   "K" / "k" the name Proxy-Authorization in upper / lower case: the     *)
(*   only bytes whose upper-case form contains PROXY;                      *)
(*   "A", "B" a Basic credential token, "a" any other header byte,         *)
(*   "5" the SOCKS5 version byte.                                          *)
(* All requests are shorter than BUFF_SIZE, so every read_content is a     *)
(* single read that returns what the client's segments delivered so far.   *)
(*                                                                         *)
(* The directory is the DcAuthenticator that dc_server::init creates and   *)
(* nothing writes (main.rs passes another one to the control session), so  *)
(* it stays in Directory's initial state here.                             *)
(*                                                                         *)
(* The connection is accepted on a listener main bound at start-up, so the *)
(* process start-up of ListenerPlan comes first: neither the task nor the  *)
(* client moves before it has reached "serving".                           *)
(***************************************************************************)
EXTENDS Naturals, Sequences, SequencesExt, FiniteSets, Functions

CONSTANTS
    UserIds, LocalIPs, RemoteIPs, Names, Passwords, AdminName, AdminPass,
    UserPool, WhitePool, MaxBatch,   \* as in Directory
    Listener,       \* local_ip of the connection
    Client,         \* remote_ip of the connection
    CredOf,         \* Basic token -> <<username, password>> it decodes to
    FirstRequests,  \* byte strings the client may open with
    FollowUps,      \* byte strings the client may send after a 407
    Socks5Requests, \* SOCKS5 requests the client may send after a method reply
    VersionBytes,   \* the bytes socks5_protocol's Version::try_from accepts
    Bodies,         \* byte strings the client may send later on the connection
    MaxDown,        \* bound on response segments from the target
    Configs, IsLocal(_), NONE, UNPARSABLE   \* as in ListenerPlan

Px == INSTANCE Directory WITH
    user_map <- <<>>, ip_map <- <<>>, user_white_list <- <<>>, in_stock <- {}

\* The AclCenter dc_server::init builds beside that directory.
ACL == INSTANCE Acl
AclCenter == ACL!DefaultAclRule

RETRY_LIMIT == 3                  \* dc_server.rs

NoAuth == <<>>                   \* get_user_password() = None

VARIABLES
    pc,         \* "start", "demux", "read1", "read2", "auth", "resolve",
                \* "connect", "forward", "tunnel", "done"; on the SOCKS5
                \* branch "s5greet", "s5request", "s5connect", "s5tunnel"
    isWhite,    \* check_is_white's result
    inbox,      \* bytes the client sent that the proxy has not read
    cstage,     \* client: "idle", "sent", "retried", "more", "socks"
    cclosed,    \* the client has closed its side
    replies,    \* responses the proxy wrote to the client (HTTP status
                \* lines; SOCKS5 method and command replies)
    content,    \* req.content: the bytes parse_incomming_request returns
    creds,      \* the credentials of the request the proxy parsed
    method,     \* the method of the request the proxy parsed
    reqStat,    \* the request kind request_stat sent, "none" before it
    retry,      \* connect_target's retry counter
    upstream,   \* bytes written to the target's socket
    upTraffic,  \* sum of the upload traffic callbacks
    down,       \* response segments the target sent, not yet relayed
    sentDown,   \* response segments the target sent in all
    uclosed,    \* the target has closed its side
    chunks,     \* ghost: every byte string whose filtered form was written, in order
    wrote,      \* ghost: every request the client wrote
    raw, config, phase, plan, next, servers, refused  \* ListenerPlan's

LP == INSTANCE ListenerPlan

connVars == <<pc, isWhite, inbox, cstage, cclosed, replies, content, creds, method,
              reqStat, retry, upstream, upTraffic, down, sentDown, uclosed, chunks, wrote>>
planVars == <<raw, config, phase, plan, next, servers, refused>>
vars == <<connVars, planVars>>

Byte == {"G", "C", "m", "s", "h", "N", "K", "k", "A", "B", "a", "5", "0", "1", "2"}

\* SOCKS5 replies: method selection (VER and the method, or FF for none
\* acceptable) and the reply to a request (succeeded, command not
\* supported, or a failure to reach the target).
Socks5Reply == {"M00", "M02", "MFF", "R00", "R07", "RERR"}

TypeOK ==
    /\ pc \in {"start", "demux", "read1", "read2", "auth", "resolve", "connect",
               "forward", "tunnel", "done", "s5greet", "s5request", "s5connect",
               "s5tunnel"}
    /\ isWhite \in BOOLEAN
    /\ inbox \in Seq(Byte) /\ content \in Seq(Byte) /\ upstream \in Seq(Byte)
    /\ cstage \in {"idle", "sent", "retried", "more", "socks"}
    /\ cclosed \in BOOLEAN /\ uclosed \in BOOLEAN
    /\ replies \in Seq({"407", "401"} \cup Socks5Reply)
    /\ creds \in (Px!Name \X Px!Password) \cup {NoAuth}
    /\ method \in {"Connect", "Normal"} /\ reqStat \in {"none", "Http", "Https"}
    /\ retry \in 0..RETRY_LIMIT
    /\ upTraffic \in Nat
    /\ down \in 0..MaxDown /\ sentDown \in 0..MaxDown
    /\ chunks \in Seq(Seq(Byte)) /\ wrote \in Seq(Seq(Byte))
    /\ LP!TypeOK

Init ==
    /\ pc = "start"
    /\ isWhite = FALSE
    /\ inbox = <<>>
    /\ cstage = "idle"
    /\ cclosed = FALSE
    /\ replies = <<>>
    /\ content = <<>>
    /\ creds = NoAuth
    /\ method = "Normal"
    /\ reqStat = "none"
    /\ retry = 0
    /\ upstream = <<>>
    /\ upTraffic = 0
    /\ down = 0
    /\ sentDown = 0
    /\ uclosed = FALSE
    /\ chunks = <<>>
    /\ wrote = <<>>
    /\ LP!Init

-----------------------------------------------------------------------------
(* Byte strings.                                                           *)

IsLineEnd(b) == b = "N"

\* to_uppercase().contains("PROXY") on one line
HasProxy(line) == \E i \in DOMAIN line : line[i] \in {"K", "k"}

(***************************************************************************)
(* remove_headers(content, "PROXY"), util.rs: walk the '\n' positions from *)
(* index; keep each line (its '\n' included) whose upper-case text has no  *)
(* PROXY; append the bytes after the last '\n' unfiltered.  Every model    *)
(* byte is ASCII, so the from_utf8 test of line 11 always succeeds.        *)
(***************************************************************************)
RECURSIVE StripFrom(_, _)
StripFrom(c, index) ==
    LET lineEnd == SelectInSubSeq(c, index + 1, Len(c), IsLineEnd)
        line    == SubSeq(c, index + 1, lineEnd)
    IN IF lineEnd = 0
         THEN SubSeq(c, index + 1, Len(c))
         ELSE (IF HasProxy(line) THEN <<>> ELSE line) \o StripFrom(c, lineEnd)

\* Mutant: the bytes after the last line end are not copied.
RemoveHeadersDroppingTail(c) == StripFrom(SubSeq(c, 1, SelectLastInSeq(c, IsLineEnd)), 0)
RemoveHeaders(c) == StripFrom(c, 0)

\* The same filter stated byte by byte, as spec 4.7 words it: a byte is
\* dropped iff it belongs to a complete line that mentions PROXY.
LineAround(c, j) ==
    SubSeq(c, SelectLastInSubSeq(c, 1, j - 1, IsLineEnd) + 1,
              SelectInSubSeq(c, j, Len(c), IsLineEnd))
Kept(c, j) == SelectInSubSeq(c, j, Len(c), IsLineEnd) = 0 \/ ~HasProxy(LineAround(c, j))
RefStrip(c) == FlattenSeq([j \in 1..Len(c) |-> IF Kept(c, j) THEN <<c[j]>> ELSE <<>>])

\* The complete lines of c, without their line ends.
RECURSIVE LinesFrom(_, _)
LinesFrom(c, index) ==
    LET lineEnd == SelectInSubSeq(c, index + 1, Len(c), IsLineEnd)
    IN IF lineEnd = 0 THEN <<>>
       ELSE <<SubSeq(c, index + 1, lineEnd - 1)>> \o LinesFrom(c, lineEnd)

(***************************************************************************)
(* HttpRequest::new, https.rs, over httparse.  A request line is a method  *)
(* token, a space and the target; httparse skips empty lines before it.    *)
(* A header line is a name, ": " (the "s") and a value.  The headers are   *)
(* the complete lines up to the empty line; a request cut off in its       *)
(* headers keeps the complete ones (Status::Partial is not checked).       *)
(* The Proxy-Authorization value "Basic t" is the one byte t; an entry of  *)
(* CredOf is a token that base64-decodes to "user:pass".  HashMap::insert  *)
(* keeps the last of repeated headers.                                     *)
(***************************************************************************)
MethodByte == {"G", "C", "m"}
NameByte == {"K", "k", "a"}
IsRequestLine(l) ==
    /\ Len(l) >= 3 /\ l[Len(l) - 1] = "s" /\ l[Len(l)] = "h"
    /\ \A i \in 1..Len(l) - 2 : l[i] \in MethodByte
IsHeaderLine(l) ==
    \E i \in 2..Len(l) : l[i] = "s" /\ \A j \in 1..i - 1 : l[j] \in NameByte
HeaderName(l) == SubSeq(l, 1, SelectInSeq(l, LAMBDA b : b = "s") - 1)
HeaderValue(l) == SubSeq(l, SelectInSeq(l, LAMBDA b : b = "s") + 1, Len(l))
IsAuthHeader(l) == HeaderName(l) \in {<<"K">>, <<"k">>}

\* get_auth_header and decode_basic_auth: the value must be one token that
\* decodes to a user:pass pair; anything else is None.
AuthOf(value) ==
    IF Len(value) = 1 /\ value[1] \in DOMAIN CredOf THEN CredOf[value[1]] ELSE NoAuth

\* RequestType::from_str on the upper-cased method token.
MethodOf(l) == IF SubSeq(l, 1, Len(l) - 2) = <<"C", "m">> THEN "Connect" ELSE "Normal"

\* get_stat_request_type for ProtocolType::Http.
StatKind(m) == IF m = "Connect" THEN "Https" ELSE "Http"

Parse(c) ==
    LET all   == LinesFrom(c, 0)
        first == SelectInSeq(all, LAMBDA l : l # <<>>)
        rest  == IF first = 0 THEN <<>> ELSE SubSeq(all, first + 1, Len(all))
        stop  == SelectInSeq(rest, LAMBDA l : l = <<>>)
        hdrs  == IF stop = 0 THEN rest ELSE SubSeq(rest, 1, stop - 1)
        auth  == SelectLastInSeq(hdrs, IsAuthHeader)
    IN [ok     |-> first # 0 /\ IsRequestLine(all[first])
                   /\ \A i \in 1..Len(hdrs) : IsHeaderLine(hdrs[i]),
        method |-> IF first = 0 THEN "Normal" ELSE MethodOf(all[first]),
        auth   |-> IF auth = 0 THEN NoAuth ELSE AuthOf(HeaderValue(hdrs[auth]))]

-----------------------------------------------------------------------------
(* The connection task.                                                    *)

Take(k) == SubSeq(inbox, 1, k)
Drop(k) == SubSeq(inbox, k + 1, Len(inbox))

\* handle_connection up to the demux: check_is_white under the read lock.
Start ==
    /\ pc = "start" /\ phase = "serving"
    /\ isWhite' = Px!IsWhite(Client)
    /\ pc' = "demux"
    /\ UNCHANGED <<inbox, cstage, cclosed, replies, content, creds, method, reqStat,
                   retry, upstream, upTraffic, down, sentDown, uclosed, chunks,
                   wrote>>

\* socks5_or_http: read_exact of one byte from the inner TcpStream, which
\* consumes it, and Version::try_from of it; a version 5 goes to the SOCKS5
\* branch, any other accepted byte to the HTTP path.  Either reads on from
\* the next byte.
Demux ==
    /\ pc = "demux" /\ inbox # <<>> /\ Head(inbox) \in VersionBytes
    /\ pc' = IF Head(inbox) = "5" THEN "s5greet" ELSE "read1"
    /\ inbox' = Tail(inbox)
    /\ UNCHANGED <<isWhite, cstage, cclosed, replies, content, creds, method,
                   reqStat, retry, upstream, upTraffic, down, sentDown, uclosed,
                   chunks, wrote>>

\* Version::try_from rejects the byte: its `?` returns the error and the
\* unwrap in handle_connection (dc_server.rs:83) panics the task.
DemuxBadVersion ==
    /\ pc = "demux" /\ inbox # <<>> /\ Head(inbox) \notin VersionBytes
    /\ pc' = "done"
    /\ inbox' = Tail(inbox)
    /\ UNCHANGED <<isWhite, cstage, cclosed, replies, content, creds, method,
                   reqStat, retry, upstream, upTraffic, down, sentDown, uclosed,
                   chunks, wrote>>

\* read_exact hits EOF: the unwrap in handle_connection panics the task.
DemuxEof ==
    /\ pc = "demux" /\ inbox = <<>> /\ cclosed
    /\ pc' = "done"
    /\ UNCHANGED <<isWhite, inbox, cstage, cclosed, replies, content, creds, method,
                   reqStat, retry, upstream, upTraffic, down, sentDown, uclosed,
                   chunks, wrote>>

\* parse_incomming_request, first read_content and parse: a request that
\* does not parse ends the task; no credentials from a client that is not
\* allowlisted get a 407 and a second read.  content keeps these bytes.
ReadRequest(k) ==
    /\ pc = "read1" /\ k \in 1..Len(inbox)
    /\ LET p == Parse(Take(k)) IN
       /\ content' = Take(k)
       /\ CASE ~p.ok ->
                 pc' = "done" /\ UNCHANGED <<replies, creds, method>>
         [] ~isWhite /\ p.auth = NoAuth ->
                 pc' = "read2" /\ replies' = Append(replies, "407") /\ UNCHANGED <<creds, method>>
         [] OTHER ->
                 pc' = "auth" /\ creds' = p.auth /\ method' = p.method /\ UNCHANGED replies
    /\ inbox' = Drop(k)
    /\ UNCHANGED <<isWhite, cstage, cclosed, reqStat, retry, upstream, upTraffic,
                   down, sentDown, uclosed, chunks, wrote>>

\* After the 407: read_content and HttpRequest::new again; the protocol
\* object is replaced, req.content stays the first read's bytes.
ReadFollowUp(k) ==
    /\ pc = "read2" /\ k \in 1..Len(inbox)
    /\ LET p == Parse(Take(k)) IN
       /\ pc' = IF p.ok THEN "auth" ELSE "done"
       /\ creds' = IF p.ok THEN p.auth ELSE creds
       /\ method' = IF p.ok THEN p.method ELSE method
    /\ inbox' = Drop(k)
    /\ UNCHANGED <<isWhite, cstage, cclosed, replies, content, reqStat, retry,
                   upstream, upTraffic, down, sentDown, uclosed, chunks, wrote>>

\* Mutant: read_content without its timeout; only EOF ends a read.
ReadEndsOnEofOnly ==
    /\ pc \in {"read1", "read2"} /\ inbox = <<>> /\ cclosed
    /\ pc' = "done"
    /\ UNCHANGED <<isWhite, inbox, cstage, cclosed, replies, content, creds, method,
                   reqStat, retry, upstream, upTraffic, down, sentDown, uclosed,
                   chunks, wrote>>

\* read_content: a read of 0 bytes is EmptyRequest; a read that waits 10 s
\* is a timeout.  Either ends the task.
ReadEnds ==
    /\ pc \in {"read1", "read2"} /\ inbox = <<>>
    /\ pc' = "done"
    /\ UNCHANGED <<isWhite, inbox, cstage, cclosed, replies, content, creds, method,
                   reqStat, retry, upstream, upTraffic, down, sentDown, uclosed,
                   chunks, wrote>>

\* http_check_user_auth's decision: no credentials are the empty pair.
AuthResult(c, white) ==
    IF c = NoAuth THEN Px!HttpCheckUserAuth(Listener, Client, "", "", white)
    ELSE Px!HttpCheckUserAuth(Listener, Client, c[1], c[2], white)

\* Mutant: the result of check_auth is not tested.
AuthenticateIgnoringResult ==
    /\ pc = "auth"
    /\ pc' = "resolve"
    /\ UNCHANGED <<isWhite, inbox, cstage, cclosed, replies, content, creds, method,
                   reqStat, retry, upstream, upTraffic, down, sentDown, uclosed,
                   chunks, wrote>>

\* http_check_user_auth with the credentials of the last parse; a rejected
\* request is answered 401 and ends the task.
Authenticate ==
    /\ pc = "auth"
    /\ LET res == AuthResult(creds, isWhite)
       IN IF res.ok THEN pc' = "resolve" /\ UNCHANGED replies
                    ELSE pc' = "done" /\ replies' = Append(replies, "401")
    /\ UNCHANGED <<isWhite, inbox, cstage, cclosed, content, creds, method, reqStat,
                   retry, upstream, upTraffic, down, sentDown, uclosed, chunks,
                   wrote>>

\* request_stat, the ACL check, the port and resolve_host, which may fail
\* and end the task.  The check's other outcome, 403 Forbidden, needs a
\* rule that denies, and the AclCenter holds DefaultAclRule.
Resolve(ok) ==
    /\ pc = "resolve"
    /\ ACL!Check(AclCenter, AuthResult(creds, isWhite).uid, "h", Listener)
    /\ reqStat' = StatKind(method)
    /\ pc' = IF ok THEN "connect" ELSE "done"
    /\ UNCHANGED <<isWhite, inbox, cstage, cclosed, replies, content, creds, method,
                   retry, upstream, upTraffic, down, sentDown, uclosed, chunks,
                   wrote>>

\* Mutant: the limit is tested with >.
ConnectPastLimit(ok) ==
    /\ pc = "connect"
    /\ IF ok THEN pc' = "forward" /\ UNCHANGED retry
       ELSE /\ retry' = retry + 1
            /\ pc' = IF retry + 1 > RETRY_LIMIT THEN "done" ELSE "connect"
    /\ UNCHANGED <<isWhite, inbox, cstage, cclosed, replies, content, creds, method,
                   reqStat, upstream, upTraffic, down, sentDown, uclosed, chunks,
                   wrote>>

\* One attempt of connect_target's loop: a failed _connect_target counts a
\* retry, and the RETRY_LIMIT-th failure ends the task.
Connect(ok) ==
    /\ pc = "connect"
    /\ IF ok THEN pc' = "forward" /\ UNCHANGED retry
       ELSE /\ retry' = retry + 1
            /\ pc' = IF retry + 1 >= RETRY_LIMIT THEN "done" ELSE "connect"
    /\ UNCHANGED <<isWhite, inbox, cstage, cclosed, replies, content, creds, method,
                   reqStat, upstream, upTraffic, down, sentDown, uclosed, chunks,
                   wrote>>

\* req.content through remove_headers to the target, traffic_fn(size, true),
\* then the tunnel is registered and the two io_copy halves start.
Forward ==
    /\ pc = "forward"
    /\ upstream' = upstream \o RemoveHeaders(content)
    /\ upTraffic' = upTraffic + Len(RemoveHeaders(content))
    /\ chunks' = Append(chunks, content)
    /\ pc' = "tunnel"
    /\ UNCHANGED <<isWhite, inbox, cstage, cclosed, replies, content, creds, method,
                   reqStat, retry, down, sentDown, uclosed, wrote>>

\* t1: io_copy from the client with the header filter: one read returns what
\* has arrived, the filtered bytes are written and counted.
Upload(k) ==
    /\ pc = "tunnel" /\ k \in 1..Len(inbox)
    /\ upstream' = upstream \o RemoveHeaders(Take(k))
    /\ upTraffic' = upTraffic + Len(RemoveHeaders(Take(k)))
    /\ chunks' = Append(chunks, Take(k))
    /\ inbox' = Drop(k)
    /\ UNCHANGED <<pc, isWhite, cstage, cclosed, replies, content, creds, method,
                   reqStat, retry, down, sentDown, uclosed, wrote>>

\* write_all to a target that has reset the connection fails: in Forward
\* the `?` ends the task before traffic_fn; in t1 the `?` returns before
\* the traffic callback, select! returns, and the tunnel ends as below.
WriteFails(k) ==
    /\ \/ pc = "forward" /\ k = 0
       \/ pc = "tunnel" /\ k \in 1..Len(inbox)
    /\ uclosed
    /\ pc' = "done"
    /\ inbox' = Drop(k)
    /\ UNCHANGED <<isWhite, cstage, cclosed, replies, content, creds, method,
                   reqStat, retry, upstream, upTraffic, down, sentDown, uclosed,
                   chunks, wrote>>

\* t2: io_copy from the target, unfiltered.
Download ==
    /\ pc = "tunnel" /\ down > 0
    /\ down' = down - 1
    /\ UNCHANGED <<pc, isWhite, inbox, cstage, cclosed, replies, content, creds,
                   method, reqStat, retry, upstream, upTraffic, sentDown, uclosed,
                   chunks, wrote>>

\* Either half reads EOF and leaves its loop; select returns, the shutdown
\* is broadcast and the registry entry removed.
TunnelEnd ==
    /\ pc = "tunnel"
    /\ \/ inbox = <<>> /\ cclosed
       \/ down = 0 /\ uclosed
    /\ pc' = "done"
    /\ UNCHANGED <<isWhite, inbox, cstage, cclosed, replies, content, creds, method,
                   reqStat, retry, upstream, upTraffic, down, sentDown, uclosed,
                   chunks, wrote>>

-----------------------------------------------------------------------------
(***************************************************************************)
(* The SOCKS5 branch: ServerAuth::new(true, local_ip, remote_ip) -- the    *)
(* literal true, not check_is_white's result -- and handle(auth, stream)   *)
(* on the inner stream.  The handler (socks5_server::handle_conn) is not   *)
(* in the repository; its steps follow spec 4.8 and RFC 1928: the greeting *)
(* VER NMETHODS METHODS, the method reply, auth.execute, the request VER   *)
(* CMD target, the reply, the relay.  It gets neither the registry, the    *)
(* stat sender nor the AclCenter.  Every read is a read_exact.  The        *)
(* model's clients offer one method, so NMETHODS is the byte "1".          *)
(***************************************************************************)

\* The ServerAuth the branch builds.
Socks5Auth == [is_white |-> TRUE]

\* ServerAuth::auth_method: NoAuth ("0") for a white client, else UserPass.
AuthMethod(auth) == IF auth.is_white THEN "0" ELSE "2"

\* The method-selection reply for the selected method.
MethodReply == [m \in {"0", "2"} |-> IF m = "0" THEN "M00" ELSE "M02"]

\* A read of the greeting or the request finds a version byte other than 5,
\* or the client's EOF before the whole message: handle returns the error,
\* which is logged, and the task ends.
S5ReadFails ==
    /\ pc \in {"s5greet", "s5request"}
    /\ \/ inbox # <<>> /\ Head(inbox) # "5"
       \/ Len(inbox) < 3 /\ cclosed
    /\ pc' = "done"
    /\ UNCHANGED <<isWhite, inbox, cstage, cclosed, replies, content, creds, method,
                   reqStat, retry, upstream, upTraffic, down, sentDown, uclosed,
                   chunks, wrote>>

\* The greeting: the server's method, if offered, is selected and run; a
\* NoAuth execute returns Ok(true) at once.  Otherwise 5 FF and close.
S5Greet ==
    /\ pc = "s5greet" /\ Len(inbox) >= 3 /\ Head(inbox) = "5"
    /\ LET m == AuthMethod(Socks5Auth) IN
       IF inbox[3] = m
       THEN pc' = "s5request" /\ replies' = Append(replies, MethodReply[m])
       ELSE pc' = "done" /\ replies' = Append(replies, "MFF")
    /\ inbox' = SubSeq(inbox, 4, Len(inbox))
    /\ UNCHANGED <<isWhite, cstage, cclosed, content, creds, method, reqStat, retry,
                   upstream, upTraffic, down, sentDown, uclosed, chunks, wrote>>

\* The request: CMD 1 (CONNECT) goes on; any other command is answered
\* "command not supported" and the connection closed.
S5Request ==
    /\ pc = "s5request" /\ Len(inbox) >= 3 /\ Head(inbox) = "5"
    /\ IF inbox[2] = "1"
       THEN pc' = "s5connect" /\ UNCHANGED replies
       ELSE pc' = "done" /\ replies' = Append(replies, "R07")
    /\ inbox' = SubSeq(inbox, 4, Len(inbox))
    /\ UNCHANGED <<isWhite, cstage, cclosed, content, creds, method, reqStat, retry,
                   upstream, upTraffic, down, sentDown, uclosed, chunks, wrote>>

\* Resolve the target and connect from the local ip: the success reply and
\* the relay, or a failure reply and close.
S5Connect(ok) ==
    /\ pc = "s5connect"
    /\ pc' = IF ok THEN "s5tunnel" ELSE "done"
    /\ replies' = Append(replies, IF ok THEN "R00" ELSE "RERR")
    /\ UNCHANGED <<isWhite, inbox, cstage, cclosed, content, creds, method, reqStat,
                   retry, upstream, upTraffic, down, sentDown, uclosed, chunks,
                   wrote>>

\* The relay ends when either side closes.  Its bytes pass no filter and no
\* traffic callback, and the model leaves them out.
S5TunnelEnd ==
    /\ pc = "s5tunnel" /\ (cclosed \/ uclosed)
    /\ pc' = "done"
    /\ UNCHANGED <<isWhite, inbox, cstage, cclosed, replies, content, creds, method,
                   reqStat, retry, upstream, upTraffic, down, sentDown, uclosed,
                   chunks, wrote>>

-----------------------------------------------------------------------------
(* The client and the target.                                              *)

ClientOpen(r) ==
    /\ cstage = "idle" /\ ~cclosed /\ r \in FirstRequests /\ phase = "serving"
    /\ inbox' = inbox \o r /\ wrote' = Append(wrote, r) /\ cstage' = "sent"
    /\ UNCHANGED <<pc, isWhite, cclosed, replies, content, creds, method, reqStat,
                   retry, upstream, upTraffic, down, sentDown, uclosed, chunks>>

\* A client that got the 407 repeats its request with credentials.
ClientRetry(r) ==
    /\ cstage = "sent" /\ ~cclosed /\ r \in FollowUps /\ "407" \in Range(replies)
    /\ inbox' = inbox \o r /\ wrote' = Append(wrote, r) /\ cstage' = "retried"
    /\ UNCHANGED <<pc, isWhite, cclosed, replies, content, creds, method, reqStat,
                   retry, upstream, upTraffic, down, sentDown, uclosed, chunks>>

\* A SOCKS5 client whose greeting was answered with a method sends its request.
ClientS5Request(r) ==
    /\ cstage = "sent" /\ ~cclosed /\ r \in Socks5Requests /\ "M00" \in Range(replies)
    /\ inbox' = inbox \o r /\ wrote' = Append(wrote, r) /\ cstage' = "socks"
    /\ UNCHANGED <<pc, isWhite, cclosed, replies, content, creds, method, reqStat,
                   retry, upstream, upTraffic, down, sentDown, uclosed, chunks>>

\* A keep-alive client sends its next request on the same connection.
ClientMore(r) ==
    /\ cstage \in {"sent", "retried"} /\ ~cclosed /\ r \in Bodies
    /\ inbox' = inbox \o r /\ wrote' = Append(wrote, r) /\ cstage' = "more"
    /\ UNCHANGED <<pc, isWhite, cclosed, replies, content, creds, method, reqStat,
                   retry, upstream, upTraffic, down, sentDown, uclosed, chunks>>

ClientClose ==
    /\ ~cclosed /\ cclosed' = TRUE
    /\ UNCHANGED <<pc, isWhite, inbox, cstage, replies, content, creds, method,
                   reqStat, retry, upstream, upTraffic, down, sentDown, uclosed,
                   chunks, wrote>>

TargetSend ==
    /\ pc = "tunnel" /\ ~uclosed /\ sentDown < MaxDown
    /\ down' = down + 1 /\ sentDown' = sentDown + 1
    /\ UNCHANGED <<pc, isWhite, inbox, cstage, cclosed, replies, content, creds,
                   method, reqStat, retry, upstream, upTraffic, uclosed, chunks,
                   wrote>>

TargetClose ==
    /\ pc \in {"forward", "tunnel", "s5tunnel"} /\ ~uclosed /\ uclosed' = TRUE
    /\ UNCHANGED <<pc, isWhite, inbox, cstage, cclosed, replies, content, creds,
                   method, reqStat, retry, upstream, upTraffic, down, sentDown,
                   chunks, wrote>>

-----------------------------------------------------------------------------

Task ==
    \/ Start \/ Demux \/ DemuxBadVersion \/ DemuxEof
    \/ \E k \in 1..Len(inbox) : ReadRequest(k) \/ ReadFollowUp(k) \/ Upload(k)
    \/ \E k \in 0..Len(inbox) : WriteFails(k)
    \/ ReadEnds \/ Authenticate
    \/ \E ok \in BOOLEAN : Resolve(ok) \/ Connect(ok)
    \/ Forward \/ Download \/ TunnelEnd
    \/ S5ReadFails \/ S5Greet \/ S5Request \/ S5TunnelEnd
    \/ \E ok \in BOOLEAN : S5Connect(ok)

Environment ==
    \/ \E r \in FirstRequests : ClientOpen(r)
    \/ \E r \in FollowUps : ClientRetry(r)
    \/ \E r \in Socks5Requests : ClientS5Request(r)
    \/ \E r \in Bodies : ClientMore(r)
    \/ ClientClose \/ TargetSend \/ TargetClose

\* main, before any connection: get_config, get_local_ip_port, the bind loop.
StartUp == LP!Next /\ UNCHANGED connVars

Next ==
    \/ (Task \/ Environment) /\ UNCHANGED planVars
    \/ StartUp

\* The task is polled by the runtime whenever one of its steps is enabled,
\* and every wait in the front end is bounded by the read timeout or the
\* retry limit; the client and the target owe nothing.  Start-up is main's
\* own sequential code and needs no fairness for the properties below.
Spec == Init /\ [][Next]_vars /\ WF_vars(Task /\ UNCHANGED planVars)

-----------------------------------------------------------------------------
(* Properties.                                                             *)

\* remove_headers applied to each read chunk, as the code walks it, agrees
\* with the line-by-line statement of the filter on every chunk the
\* connection produced.
FilterMatchesReference ==
    upstream = FlattenSeq([i \in 1..Len(chunks) |-> RefStrip(chunks[i])])

\* A connection gets past http_check_user_auth only with credentials the
\* client wrote in a request of its own and the directory admits, however
\* the requests were cut into reads and whether or not a 407 intervened.
AdmittedCredentialsWritten ==
    pc \in {"resolve", "connect", "forward", "tunnel"} =>
        /\ isWhite \/ \E i \in 1..Len(wrote) : creds # NoAuth /\ Parse(wrote[i]).auth = creds
        /\ AuthResult(creds, isWhite).ok

\* Spec 4.8 and its scenario 4: a SOCKS5 client that is not allowlisted
\* gets a tunnel only after the username/password sub-negotiation with
\* credentials the directory admits.  In dc_server.rs:85 ServerAuth is
\* built with is_white = true for every client.
Socks5Authenticated ==
    pc = "s5tunnel" => isWhite \/ (creds # NoAuth /\ AuthResult(creds, FALSE).ok)

\* The front end never hangs: once the request is being read, the task
\* reaches the tunnel or ends, because each read is bounded by the timeout
\* and connect_target by RETRY_LIMIT.
FrontEndEnds == pc = "read1" ~> pc \in {"tunnel", "done"}

\* main's bind loop skips an address it cannot bind and goes on: once
\* start-up is over, every planned address with a valid port on a local
\* interface has a listener unless another process held it when tried.
ListenersCoverPlan == LP!ListenersCoverPlan

\* Spec 4.6 and 4.7: the target receives the request lines as the client
\* wrote them, with every line that mentions PROXY removed.
LinesForwardedAsWritten ==
    \A l \in Range(LinesFrom(upstream, 0)) :
        l \in Range(LinesFrom(FlattenSeq(wrote), 0)) /\ ~HasProxy(l)

=============================================================================
