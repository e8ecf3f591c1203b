---------------------------- MODULE ListenerPlan ----------------------------
(***************************************************************************)
(* Process start-up of the proxy (server/src/main.rs and utils.rs): the IP  *)
(* and port descriptor file is read once into a Config (get_config, with   *)
(* the defaults PORT_START 40000, PORT_END PORT_START+10000, OFFSET 2),    *)
(* get_local_ip_port expands every CIDR with IpRange::all_ips, moves the   *)
(* first two and the last address of each range to the end when OFFSET is *)
(* not 0, appends the extra IPs and gives the addresses ports round-robin; *)
(* main then binds a listener for each address in order, skips the ones   *)
(* that fail, and exits when none was bound.                               *)
(*                                                                         *)
(* An IPv4 address is a 4-tuple of octets; the text the code formats and  *)
(* re-parses ("a.b.c.d:port") is kept as a record [ip, port], and a port   *)
(* above 65535 is one the bind cannot parse.                               *)
(***************************************************************************)
EXTENDS Integers, Sequences, SequencesExt, Functions

CONSTANTS
    Configs,     \* descriptor files the process may start with, as parsed records
    IsLocal(_),  \* the addresses configured on the host's interfaces
    NONE,        \* a field the file does not contain (get_port returns None)
    UNPARSABLE   \* a field whose digits do not fit a u32

Octet == 0..255
IpRange == [ip: Octet \X Octet \X Octet \X Octet, mask: 0..32]

ASSUME \A c \in Configs :
         /\ \A k \in DOMAIN c.ranges : c.ranges[k] \in IpRange /\ c.ranges[k].mask >= 24
         /\ \A f \in {"port_start", "port_end", "offset"} : c[f] \in Nat \cup {NONE, UNPARSABLE}

DEFAULT_PORT_START == 40000
DEFAULT_OFFSET == 2
MAX_PORT == 65535

VARIABLES
    raw,      \* the descriptor file as parsed by the regex helpers
    config,   \* CONFIG once get_config has run
    phase,    \* "config", "plan", "bind", "serving", "exited" or "panicked"
    plan,     \* LOCAL_IPS: the addresses get_local_ip_port returned
    next,     \* index of the next address main's loop binds
    servers,  \* the listeners bound so far, in order
    refused   \* ghost: indices of plan whose bind another process refused

vars == <<raw, config, phase, plan, next, servers, refused>>

(***************************************************************************)
(* IpRange::all_ips: 2^(32-mask) addresses counted up from the range's own *)
(* address (not from its network address), carrying from the fourth octet  *)
(* into the third modulo 256 and never into the second.                    *)
(***************************************************************************)
AllIps(r) ==
    [i \in 1..2^(32 - r.mask) |->
        LET p4 == r.ip[4] + (i - 1)
        IN  <<r.ip[1], r.ip[2], (r.ip[3] + p4 \div 256) % 256, p4 % 256>>]

(* The flat_map body with OFFSET # 0: t[2..n-1] stays in place and t[0],   *)
(* t[1] and t[n-1] go to `other`, appended after every range.              *)
Inner(t) == SubSeq(t, 3, Len(t) - 1)
Outer(t) == <<t[1], t[2], t[Len(t)]>>

(* Indexing t[1] and slicing t[2..n-1] panic for a range of fewer than     *)
(* three addresses (a /31 or a /32).                                       *)
Panics(c) == c.offset # 0 /\ \E k \in DOMAIN c.ranges : Len(AllIps(c.ranges[k])) < 3

LocalIps(c) ==
    LET t == [k \in DOMAIN c.ranges |-> AllIps(c.ranges[k])]
    IN  IF c.offset # 0
        THEN FlattenSeq([k \in DOMAIN t |-> Inner(t[k])])
               \o FlattenSeq([k \in DOMAIN t |-> Outer(t[k])]) \o c.extra_ips
        ELSE FlattenSeq(t) \o c.extra_ips

(* port_end.abs_diff(port_start) + 1 *)
PortRange(c) ==
    IF c.port_end >= c.port_start THEN c.port_end - c.port_start + 1
                                  ELSE c.port_start - c.port_end + 1

(* The i-th address gets port_start + ind, ind counting modulo PortRange. *)
LocalIpPort(c) ==
    LET ips == LocalIps(c)
    IN  [i \in 1..Len(ips) |->
            [ip |-> ips[i], port |-> c.port_start + ((i - 1) % PortRange(c))]]

(* TcpListener::bind succeeds for a parsable port on a local address that *)
(* no listener holds yet.                                                  *)
CanBind(a) == a.port <= MAX_PORT /\ IsLocal(a.ip) /\ a \notin Range(servers)

-----------------------------------------------------------------------------

Init ==
    /\ raw \in Configs
    /\ config = NONE
    /\ phase = "config"
    /\ plan = <<>>
    /\ next = 1
    /\ servers = <<>>
    /\ refused = {}

(* get_port: the captured digits, or DEFAULT_PORT_START when they do not  *)
(* parse as a u32 -- for every field, OFFSET and PORT_END included.        *)
GetPort(v) == IF v = UNPARSABLE THEN DEFAULT_PORT_START ELSE v

(* get_config: fields missing from the file take their defaults; PORT_END *)
(* defaults relative to the PORT_START just chosen.                       *)
GetConfig ==
    /\ phase = "config"
    /\ LET start == IF raw.port_start = NONE THEN DEFAULT_PORT_START
                                           ELSE GetPort(raw.port_start)
           end   == IF raw.port_end = NONE THEN start + 10000 ELSE GetPort(raw.port_end)
           off   == IF raw.offset = NONE THEN DEFAULT_OFFSET ELSE GetPort(raw.offset)
       IN  config' = [raw EXCEPT !.port_start = start, !.port_end = end, !.offset = off]
    /\ phase' = "plan"
    /\ UNCHANGED <<raw, plan, next, servers, refused>>

(* get_local_ip_port, called by main: the whole list, or a panic that ends *)
(* the process.                                                            *)
GetLocalIpPort ==
    /\ phase = "plan"
    /\ IF Panics(config)
       THEN phase' = "panicked" /\ UNCHANGED plan
       ELSE phase' = "bind" /\ plan' = LocalIpPort(config)
    /\ UNCHANGED <<raw, config, next, servers, refused>>

(* A loop that gives up at the first address it cannot bind.              *)
BindStoppingAtFailure ==
    /\ phase = "bind"
    /\ next <= Len(plan)
    /\ IF CanBind(plan[next])
       THEN servers' = Append(servers, plan[next]) /\ next' = next + 1
       ELSE UNCHANGED servers /\ next' = Len(plan) + 1
    /\ UNCHANGED <<raw, config, phase, plan, refused>>

(* One iteration of main's bind loop: push a ProxyServer for the listener, *)
(* or log the error and continue with the next address.                    *)
Bind ==
    /\ phase = "bind"
    /\ next <= Len(plan)
    /\ IF CanBind(plan[next])
       THEN servers' = Append(servers, plan[next])
       ELSE UNCHANGED servers
    /\ next' = next + 1
    /\ UNCHANGED <<raw, config, phase, plan, refused>>

(* The same iteration when another process already holds the address.     *)
BindRefused ==
    /\ phase = "bind"
    /\ next <= Len(plan)
    /\ CanBind(plan[next])
    /\ refused' = refused \cup {next}
    /\ next' = next + 1
    /\ UNCHANGED <<raw, config, phase, plan, servers>>

(* After the loop: the servers are spawned and joined; with none, join_all *)
(* of nothing returns at once and main calls exit(0).                      *)
StartServers ==
    /\ phase = "bind"
    /\ next > Len(plan)
    /\ phase' = IF servers = <<>> THEN "exited" ELSE "serving"
    /\ UNCHANGED <<raw, config, plan, next, servers, refused>>

Next == GetConfig \/ GetLocalIpPort \/ Bind \/ BindRefused \/ StartServers

Spec == Init /\ [][Next]_vars

-----------------------------------------------------------------------------

TypeOK ==
    /\ raw \in Configs
    /\ phase \in {"config", "plan", "bind", "serving", "exited", "panicked"}
    /\ plan \in Seq([ip: Octet \X Octet \X Octet \X Octet, port: Nat])
    /\ next \in 1..Len(plan) + 1
    /\ Range(servers) \subseteq Range(plan)
    /\ refused \subseteq 1..Len(plan)

(* main's bind loop skips an address it cannot bind and goes on, so when  *)
(* start-up is over every planned address with a valid port on a local    *)
(* interface has a listener, unless another process held it when tried.   *)
ListenersCoverPlan ==
    phase \in {"serving", "exited"} =>
        \A i \in 1..Len(plan) :
            plan[i].port <= MAX_PORT /\ IsLocal(plan[i].ip)
                => plan[i] \in Range(servers) \/ i \in refused

=============================================================================
