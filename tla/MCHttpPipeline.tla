--------------------------- MODULE MCHttpPipeline ---------------------------
(* One connection against the proxy's never-written directory: the       *)
(* client opens with a plain GET, a GET with the admin pair, a CONNECT     *)
(* with another user's pair, a byte no Version accepts, or a SOCKS5        *)
(* greeting (the standard 5 1 0, or one with a second version byte for the *)
(* demux to consume, offering NoAuth or user/password); after a SOCKS5     *)
(* greeting it sends CONNECT or BIND; after a 407 it repeats a CONNECT     *)
(* with the admin pair; it may then send the header part of a pipelined    *)
(* request, a Proxy-Authorization line.                                    *)
EXTENDS HttpPipeline

CONSTANTS adm, apw, n1, p1

MCNames == {adm, n1}
MCPasswords == {apw, p1}
MCCredOf == [t \in {"A", "B"} |-> IF t = "A" THEN <<adm, apw>> ELSE <<n1, p1>>]

MCFirstRequests ==
    { <<"G", "m", "s", "h", "N", "N">>,
      <<"G", "m", "s", "h", "N", "K", "s", "A", "N", "N">>,
      <<"C", "m", "s", "h", "N", "k", "s", "B", "N", "N">>,
      <<"5", "1", "0">>,
      <<"5", "5", "1", "0">>,
      <<"5", "5", "1", "2">>,
      <<"a">> }
MCFollowUps == { <<"C", "m", "s", "h", "N", "k", "s", "A", "N", "N">> }
\* socks5_protocol is not in the repository.  The runs take a Version whose
\* try_from accepts 5 and the first byte of an HTTP method, the only build
\* under which the HTTP front end is reachable at all; any other first byte
\* (the request <<"a">>) is rejected and the task panics.
MCVersionBytes == {"5", "G", "C"}
MCSocks5Requests == { <<"5", "1", "h">>, <<"5", "2", "h">> }
MCBodies == { <<"K", "s", "A", "N">> }

(* Descriptor files for start-up: the defaults (OFFSET 2) on a range not   *)
(* on the host followed by a local extra IP; a range that starts off its   *)
(* network address and carries into the third octet, with ports from      *)
(* 65534 on and a PORT_END too large for a u32; a /31 whose carry passes 255 and a /32 that repeats one of    *)
(* its addresses, on the single port of the repository's test file; a /32 *)
(* with the default OFFSET; a reversed port range on a foreign range.      *)
Cfg(rs, extra, ps, pe, off) ==
    [ranges |-> rs, extra_ips |-> extra, port_start |-> ps, port_end |-> pe, offset |-> off]

MCConfigs ==
    { Cfg(<<[ip |-> <<192,168,0,4>>, mask |-> 30]>>, <<<<10,0,9,9>>>>, NONE, NONE, NONE),
      Cfg(<<[ip |-> <<10,0,0,254>>, mask |-> 30]>>, <<>>, 65534, UNPARSABLE, 0),
      Cfg(<<[ip |-> <<10,0,255,255>>, mask |-> 31], [ip |-> <<10,0,0,0>>, mask |-> 32]>>,
          <<>>, 40000, 40000, 0),
      Cfg(<<[ip |-> <<10,0,0,1>>, mask |-> 32]>>, <<>>, NONE, NONE, NONE),
      Cfg(<<[ip |-> <<192,168,0,8>>, mask |-> 31]>>, <<>>, 40001, 40000, 0) }

MCIsLocal(ip) == ip[1] = 10
=============================================================================
