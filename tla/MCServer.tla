------------------------------ MODULE MCServer ------------------------------
(* Constants for model-checking Server. *)
EXTENDS Server, TLC

CONSTANTS k1, k2

ClientSymmetry == Permutations(Clients)

Upstream(id, addr, types) ==
  [id |-> id, addr |-> addr, types |-> types, country |-> "US", floor |-> 0,
   reqs |-> 0, errs |-> 0, rsum |-> 0, rn |-> 0]

Forwarding == Upstream(1, "b", {"Http"})
Secure     == Upstream(2, "a", {"Https", "Http"})

OneUpstream    == {Secure}
TwoUpstreams   == {Forwarding, Secure}
None           == {}

Req(frontend, op, body, ip) ==
  [frontend |-> frontend, authed |-> TRUE, op |-> op, body |-> body, ip |-> ip,
   loopback |-> TRUE, header |-> NoPin, path |-> "u", addr |-> "a"]

Stranger(r) == [r EXCEPT !.authed = FALSE]
Tagged(r)   == [r EXCEPT !.header = k2]
Remote(r)   == [r EXCEPT !.loopback = FALSE]

Get     == Req("HttpForward", "origin", FALSE, k1)
Post    == Req("HttpForward", "origin", TRUE, k1)
Tunnel  == Req("HttpConnect", "origin", FALSE, k1)
Socks   == Req("Socks5", "origin", FALSE, k1)
Evict   == Req("HttpForward", "remove", FALSE, k1)
GetElse == Req("HttpForward", "origin", FALSE, k2)
Ask     == Req("HttpForward", "history", FALSE, k1)
Other   == Req("HttpForward", "other", FALSE, k1)
SocksControl == Req("Socks5", "other", FALSE, k1)

(* With credentials expected: vetted clients, one with a session header, and *)
(* unvetted ones of every frontend and of the control API.                   *)
AuthRequests ==
  {Tagged(Get), Tunnel, Evict,
   Stranger(Get), Stranger(Tunnel), Stranger(Evict), Stranger(Ask), Stranger(Other)}
(* On an open server: two peers, and an eviction from far away. *)
OpenRequests == {Get, GetElse, Post, Evict, Remote(Evict), Ask, Other, Socks, SocksControl}
GetRequests  == {Get}

PoolRequests == {[scheme |-> s, key |-> k] : s \in Schemes, k \in {k1, k2}}

=============================================================================
