----------------------------- MODULE MCChecker -----------------------------
(* Instances of Checker: a handful of queries, each with the judges it needs *)
(* for its case to arise.                                                    *)
EXTENDS Checker

Own == {"v4", "v6"}

Http  == [scheme |-> "Http", ips |-> {"v4", "v6"}]
Https == [scheme |-> "Https", ips |-> {"v4"}]
Smtp  == [scheme |-> "Smtp", ips |-> {"v4"}]

Plain    == [p \in {"Http", "Socks4"} |-> {}]
HighOnly == [p \in {"Http", "Https"} |-> {"High"}]
Tunnels  == [p \in {"Socks5", "Connect80"} |-> {}]
Mail     == [p \in {"Http", "Connect25"} |-> IF p = "Http" THEN {"Anonymous", "High"} ELSE {}]

MCBundled == {Http, Smtp}

MCQueries ==
  { FindQuery([judges |-> {Http}]),
    FindQuery([types |-> Plain, judges |-> {Http}, dnsbl |-> TRUE,
               retry |-> [tries |-> 3, on |-> {"Timeout", "Reset"}]]),
    FindQuery([types |-> HighOnly, judges |-> {Http, Https}, max_tries |-> 2]),
    FindQuery([types |-> HighOnly, judges |-> {Http, Https}, strict |-> TRUE, max_tries |-> 2]),
    FindQuery([types |-> HighOnly, judges |-> {Https}, liveness |-> "Http", strict |-> TRUE]),
    FindQuery([types |-> Plain, judges |-> {Http}, liveness |-> "Https", max_tries |-> 0]),
    FindQuery([types |-> Tunnels, judges |-> {Http}, retry |-> Transient(3), max_tries |-> 2]),
    [FindQuery([types |-> Mail, max_tries |-> 2]) EXCEPT !.relaxed = TRUE, !.require =
       [cookie |-> TRUE, referer |-> FALSE, connect25 |-> TRUE, trusted |-> TRUE]],
    [FindQuery([types |-> Plain, judges |-> {Http}, max_tries |-> 2])
       EXCEPT !.trust = TRUE, !.require.trusted = TRUE] }

NewProxy(ip, expected) ==
  [ip |-> ip, expected |-> expected, types |-> <<>>, cookie |-> FALSE, referer |-> FALSE,
   trust |-> {}, requests |-> 0, errors |-> 0, probes |-> 0]

MCCandidates ==
  { NewProxy("v4", {}),
    NewProxy("v6", {"Http", "Https"}),
    [NewProxy("v4", {}) EXCEPT !.types = [p \in {"Http", "Socks5"} |->
       IF p = "Http" THEN "High" ELSE NoLevel], !.requests = 1] }

Page(marker, shows, via, proxied, cookie, referer, injected) ==
  [marker |-> marker, shows |-> shows, via |-> via, proxy |-> proxied,
   cookie |-> cookie, referer |-> referer, injected |-> injected]

MCJudgePages == {Page(TRUE, {"v4"}, v, 0, TRUE, TRUE, FALSE) : v \in 0..1}
                \cup {Page(FALSE, {"v4"}, 0, 0, TRUE, TRUE, FALSE),
                      Page(TRUE, {"v6"}, 0, 0, TRUE, TRUE, FALSE)}

MCPages == {Page(m, shows, v, 0, c, TRUE, inj) :
              m \in BOOLEAN, shows \in {{}, {"v4"}, {"v6"}, {"exit"}}, v \in 0..1,
              c \in BOOLEAN, inj \in BOOLEAN}
=============================================================================
