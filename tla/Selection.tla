------------------------------ MODULE Selection ------------------------------
(***************************************************************************)
(* The pure part of the pool of src/server.rs: which pooled proxy a        *)
(* request is given (best_for and its helpers), and when a proxy is too    *)
(* unhealthy to go back (put_inner), over the health counters a Proxy of   *)
(* src/proxy.rs carries.                                                   *)
(*                                                                         *)
(* A proxy is a record                                                     *)
(*   id      which value it is: two values may share an address            *)
(*   addr    (host, port)                                                  *)
(*   types   the confirmed protocols                                       *)
(*   country the geo code, NoGeo when the proxy carries none               *)
(*   floor   1 - ewma_success in hundredths, 0 when there is no history    *)
(*   reqs, errs   attempts recorded, and how many of them failed           *)
(*   rsum, rn     sum (hundredths of a second) and number of runtimes      *)
(* A pooled entry is [proxy, until]: until is the end of its bench window, *)
(* and 0, which no clock is below, stands for blocked_until = None.        *)
(***************************************************************************)
EXTENDS Integers, Sequences, FiniteSets

CONSTANTS
  Strategy,       \* PoolConfig::strategy
  PreferConnect,  \* PoolConfig::prefer_connect
  MinReq,         \* PoolConfig::min_req
  MaxErrorRate,   \* PoolConfig::max_error_rate, in hundredths
  MaxRespTime,    \* PoolConfig::max_resp_time, in hundredths of a second
  Countries,      \* PoolConfig::countries: a set of codes, or AnyCountry
  AnyCountry,     \* no country filter
  NoPin           \* a client without a sticky pin

Strategies == {"Best", "RoundRobin", "Random", "Sticky"}
Schemes == {"Http", "Https"}

ASSUME ConfigAssumption ==
  /\ Strategy \in Strategies
  /\ PreferConnect \in BOOLEAN
  /\ MinReq \in Nat
  /\ MaxErrorRate \in Nat
  /\ MaxRespTime \in Nat

-----------------------------------------------------------------------------
(* proxy.rs: what a proxy can serve, and how healthy it is. *)

HttpProtos  == {"Http", "Connect80", "Socks4", "Socks5"}
HttpsProtos == {"Https", "Socks4", "Socks5"}
Protos == HttpProtos \cup HttpsProtos \cup {"Connect25"}

SchemesOf(p) ==
  {s \in Schemes : p.types \cap (IF s = "Http" THEN HttpProtos ELSE HttpsProtos) # {}}

(* round2: nearest, ties to even; the arguments are already in hundredths. *)
RoundDiv(n, d) ==
  LET q == n \div d
      r == n % d
  IN  IF 2 * r > d \/ (2 * r = d /\ q % 2 = 1) THEN q + 1 ELSE q

ErrorRate(p)   == IF p.reqs = 0 THEN 0 ELSE RoundDiv(100 * p.errs, p.reqs)
AvgRespTime(p) == IF p.rn = 0 THEN 0 ELSE RoundDiv(p.rsum, p.rn)

(* priority(): the worse of the live error rate and the history's. *)
ErrorKey(p) == IF ErrorRate(p) >= p.floor THEN ErrorRate(p) ELSE p.floor

(* record_attempt(Some(0.0), None) and record_attempt(None, Some(e)): what   *)
(* the relay and the connector record for a success and for a failure.       *)
Attempted(p)   == [p EXCEPT !.reqs = @ + 1]
RecordOk(p)    == [Attempted(p) EXCEPT !.rn = @ + 1]
RecordError(p) == [Attempted(p) EXCEPT !.errs = @ + 1]

CountryOk(p) == Countries # AnyCountry => p.country \in Countries

(* The eviction test of put_inner. *)
Unhealthy(p) ==
  /\ p.reqs >= MinReq
  /\ ErrorRate(p) > MaxErrorRate \/ AvgRespTime(p) > MaxRespTime

-----------------------------------------------------------------------------
(* negotiator.rs, connector.rs: the protocol a proxy is dialled with. *)

TunnelProtoNoHttps(types) ==
  CASE "Socks5" \in types    -> {"Socks5"}
    [] "Socks5" \notin types /\ "Socks4" \in types -> {"Socks4"}
    [] types \cap {"Socks5", "Socks4"} = {} /\ "Connect80" \in types -> {"Connect80"}
    [] OTHER -> {}

(* tunnel_proto, in preference order; None is the empty set. *)
TunnelProto(types) ==
  CASE "Socks5" \in types    -> {"Socks5"}
    [] "Socks5" \notin types /\ "Socks4" \in types -> {"Socks4"}
    [] types \cap {"Socks5", "Socks4"} = {} /\ types \cap {"Connect80", "Https"} # {} -> {"Connect80"}
    [] OTHER -> {}

(* connect_proto: a tunnel, or plain HTTP for a plain HTTP target. *)
ConnectProto(types, scheme) ==
  IF TunnelProto(types) # {} THEN TunnelProto(types)
  ELSE {p \in {"Http"} : scheme = "Http" /\ p \in types}

-----------------------------------------------------------------------------
(* server.rs: best_for.  A pool is a sequence of entries; tiers and picks    *)
(* are sets of its indices, and index order is pool order.                   *)

Eligible(pool, scheme) == {i \in DOMAIN pool : scheme \in SchemesOf(pool[i].proxy)}

Ready(entry, now) == entry.until <= now

TierUnbenched(pool, scheme, now) == Eligible(pool, scheme)

(* The ready eligible entries, or the benched ones when none is ready. *)
Tier(pool, scheme, now) ==
  LET ready == {i \in Eligible(pool, scheme) : Ready(pool[i], now)}
  IN  IF ready = {} THEN Eligible(pool, scheme) ELSE ready

HasConnect(entry) == "Connect80" \in entry.proxy.types

ConnectBiased(pool, tier) ==
  LET connect == {i \in tier : HasConnect(pool[i])}
  IN  IF PreferConnect /\ connect # {} THEN connect ELSE tier

(* a sorts strictly before b: error key, then response time, then CONNECT. *)
Before(a, b) ==
  LET cost(e) == IF PreferConnect /\ ~HasConnect(e) THEN 1 ELSE 0
  IN  \/ ErrorKey(a.proxy) < ErrorKey(b.proxy)
      \/ /\ ErrorKey(a.proxy) = ErrorKey(b.proxy)
         /\ \/ AvgRespTime(a.proxy) < AvgRespTime(b.proxy)
            \/ /\ AvgRespTime(a.proxy) = AvgRespTime(b.proxy)
               /\ cost(a) < cost(b)

BestByPriorityLast(pool, eligible) ==
  {i \in eligible : \A j \in eligible \ {i} :
     \/ Before(pool[i], pool[j])
     \/ ~Before(pool[j], pool[i]) /\ i > j}

(* min_by: the first of the minimal entries. *)
BestByPriority(pool, eligible) ==
  {i \in eligible : \A j \in eligible \ {i} :
     \/ Before(pool[i], pool[j])
     \/ ~Before(pool[j], pool[i]) /\ i < j}

(* pick[cursor % pick.len()], pick in pool order. *)
Nth(pick, cursor) ==
  {i \in pick : Cardinality({j \in pick : j < i}) = cursor % Cardinality(pick)}

(* The indices best_for may return: one of them, any for Random. *)
BestFor(pool, scheme, ctx) ==
  LET tier == Tier(pool, scheme, ctx.now)
      pinned == {i \in tier : pool[i].proxy.addr = ctx.sticky}
  IN  CASE Strategy = "Best"       -> BestByPriority(pool, tier)
        [] Strategy = "RoundRobin" -> Nth(ConnectBiased(pool, tier), ctx.cursor)
        [] Strategy = "Random"     -> ConnectBiased(pool, tier)
        [] Strategy = "Sticky"     ->
             IF pinned # {} THEN {i \in pinned : \A j \in pinned : i <= j}
             ELSE BestByPriority(pool, tier)

(* Vec::swap_remove: the last entry takes the place of the removed one. *)
SwapRemove(pool, i) ==
  [j \in 1..(Len(pool) - 1) |-> IF j = i THEN pool[Len(pool)] ELSE pool[j]]

(* The one increasing enumeration of a finite set of indices: a filtered     *)
(* vector (Vec::retain, Vec::remove) is the pool read along it.              *)
InOrder(kept) ==
  {f \in [1..Cardinality(kept) -> kept] :
     \A i, j \in 1..Cardinality(kept) : i < j => f[i] < f[j]}

Along(pool, f) == [k \in DOMAIN f |-> pool[f[k]]]

At(pool, addr) == {i \in DOMAIN pool : pool[i].proxy.addr = addr}

=============================================================================
