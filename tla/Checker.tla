------------------------------ MODULE Checker ------------------------------
(***************************************************************************)
(* One check of one proxy: Broker::build_checker, the eager probing of the *)
(* judges (judge.rs), the negotiation of each protocol (negotiator.rs),    *)
(* the retries and the verdict of Checker::check (checker.rs), and the     *)
(* capability filter check_stream applies to the result (broker.rs).       *)
(*                                                                         *)
(* The network is the environment: it chooses which endpoints answer, what *)
(* a judge echoes directly and through the proxy, and where an attempt     *)
(* fails.  A page is what is left of a response after decompression:       *)
(*   marker, cookie, referer   our own values came back                    *)
(*   shows                     the addresses in it                         *)
(*   via, proxy                how often those words occur                 *)
(*   injected                  a header line that was never sent           *)
(* Nothing else touches the proxy while it is checked, so an attempt is    *)
(* one step; the backoff between two attempts only lets time pass.         *)
(***************************************************************************)
EXTENDS Integers, Sequences, FiniteSets

CONSTANTS
  Queries,     \* the FindQuery values a run may be started with
  Bundled,     \* default_judges
  Candidates,  \* the proxies a check may start from
  OwnAddrs,    \* the external addresses this host has
  JudgePages,  \* what a judge may answer a direct request with
  Pages        \* what a judge may answer through a proxy

VARIABLES
  query,     \* the FindQuery
  phase,     \* "build", "ready", or the error that ended the build
  extIps,    \* real_ext_ips
  judges,    \* the JudgePool
  mode,      \* CheckMode
  start,     \* the proxy as it was handed to check
  proxy,     \* the proxy as the check leaves it
  pc,        \* where the check is
  todo,      \* the protocols of ngtrs it has still to try
  probe,     \* the judge or the liveness target of the current protocol
  tries,     \* the attempts made at the current protocol
  any,       \* some protocol worked
  verdict,   \* what check returned
  log        \* per protocol, the outcomes of its attempts

buildVars == <<query, phase, extIps, judges, mode>>
checkVars == <<start, proxy, pc, todo, probe, tries, any, verdict, log>>
vars      == <<buildVars, checkVars>>

-----------------------------------------------------------------------------
(* types.rs *)

AllProtos == <<"Http", "Https", "Socks4", "Socks5", "Connect80", "Connect25">>
Protos == {AllProtos[i] : i \in DOMAIN AllProtos}
NoLevel == "None"
Levels == {"Transparent", "Anonymous", "High"}

ChecksAnonLevel(p) == p = "Http"

JudgeScheme(p) ==
  CASE p = "Https"     -> "Https"
    [] p = "Connect25" -> "Smtp"
    [] OTHER           -> "Http"

(* A protocol was asked for, at this level: to types_passed no filter and an *)
(* empty one, both the empty set here, are any level.                        *)
Asked(q, p, level) == p \in DOMAIN q.types /\ (q.types[p] = {} \/ level \in q.types[p])

-----------------------------------------------------------------------------
(* The request: RetryPolicy and FindQuery, with what their builders leave.   *)

None == "None"

DefaultRetry == [tries |-> 3, on |-> {"Timeout"}]
Transient(n) == [tries |-> n, on |-> {"Timeout", "Reset", "ConnFailed", "EmptyRecv"}]

DefaultQuery ==
  [types |-> <<>>, judges |-> {}, dnsbl |-> FALSE, retry |-> DefaultRetry, strict |-> FALSE,
   liveness |-> None, relaxed |-> FALSE, trust |-> FALSE,
   require |-> [cookie |-> FALSE, referer |-> FALSE, connect25 |-> FALSE, trusted |-> FALSE]]

(* FindQueryBuilder::build: what was set, over the defaults; max_tries wins  *)
(* over the count of a policy that was set too.                              *)
FindQuery(set) ==
  LET q == [f \in DOMAIN DefaultQuery |-> IF f \in DOMAIN set THEN set[f] ELSE DefaultQuery[f]]
  IN  IF "max_tries" \in DOMAIN set THEN [q EXCEPT !.retry.tries = set.max_tries] ELSE q

(* An empty list of judges stands for the bundled one. *)
CandidateJudges == IF query.judges = {} THEN Bundled ELSE query.judges

-----------------------------------------------------------------------------
(* Building the checker. *)

Errors == {"NoTypes", "ExtIpUnknown", "NoJudges"}
NoProbe == [scheme |-> None, ip |-> None, via |-> 0, proxy |-> 0]

Init ==
  /\ query \in Queries
  /\ start \in Candidates
  /\ proxy = start
  /\ phase = "build"
  /\ extIps = {}
  /\ judges = {}
  /\ mode = None
  /\ pc = "idle"
  /\ todo = {}
  /\ probe = NoProbe
  /\ tries = 0
  /\ any = FALSE
  /\ verdict = FALSE
  /\ log = [p \in Protos |-> <<>>]

(* Broker::find and Broker::check refuse an empty request first. *)
RefuseNoTypes ==
  /\ phase = "build"
  /\ DOMAIN query.types = {}
  /\ phase' = "NoTypes"
  /\ UNCHANGED <<query, extIps, judges, mode, checkVars>>

(* external_ips: the addresses of the endpoints that answered. *)
DiscoverExtIps ==
  /\ phase = "build"
  /\ DOMAIN query.types # {}
  /\ \E found \in SUBSET OwnAddrs :
       /\ extIps' = found
       /\ phase' = IF found = {} THEN "ExtIpUnknown" ELSE "probe"
  /\ UNCHANGED <<query, judges, mode, checkVars>>

(* Judge::probe: the judge to keep, or nothing.  An SMTP judge has no page   *)
(* to verify and is kept once its host resolves.                             *)
Probed(j, ip, page) ==
  IF j.scheme = "Smtp" THEN {[scheme |-> "Smtp", ip |-> ip, via |-> 0, proxy |-> 0]}
  ELSE IF page.marker /\ page.shows \cap extIps # {}
       THEN {[scheme |-> j.scheme, ip |-> ip, via |-> page.via, proxy |-> page.proxy]}
       ELSE {}

(* What probing j may leave: nothing when its host does not resolve, when it *)
(* does not answer, or answers other than 200.                               *)
ProbeResults(j) ==
  {{}} \cup {Probed(j, ip, page) : ip \in j.ips, page \in JudgePages}

(* LivenessTarget::resolve of the URL, which the host may fail to resolve. *)
LivenessTargets ==
  {[scheme |-> query.liveness, ip |-> ip, via |-> 0, proxy |-> 0] : ip \in {"v4", "v6"}}

(* JudgePool::probe_all: what each of the candidates leaves, together. *)
JudgePools ==
  {UNION {kept[j] : j \in CandidateJudges} :
     kept \in {f \in [CandidateJudges -> UNION {ProbeResults(j) : j \in CandidateJudges}] :
                 \A j \in CandidateJudges : f[j] \in ProbeResults(j)}}

ProbeAllUnverified ==
  /\ phase = "probe"
  /\ judges' \in {{}, {NoProbe}}
  /\ mode' = "Judged" /\ phase' = "ready"
  /\ UNCHANGED <<query, extIps, checkVars>>

(* Checker::new, once the judges are probed. *)
ProbeAll ==
  /\ phase = "probe"
  /\ judges' \in JudgePools
  /\ \/ /\ judges' # {}
        /\ mode' = "Judged" /\ phase' = "ready" /\ UNCHANGED probe
     \/ /\ judges' = {}
        /\ query.liveness \in {"Http", "Https"}
        /\ probe' \in LivenessTargets
        /\ mode' = "Liveness" /\ phase' = "ready"
     \/ /\ judges' = {}
        /\ phase' = "NoJudges" /\ UNCHANGED <<mode, probe>>
  /\ UNCHANGED <<query, extIps, start, proxy, pc, todo, tries, any, verdict, log>>

-----------------------------------------------------------------------------
(* One attempt: the sets of outcomes the network can produce. *)

DialErrors == {"Timeout", "ConnFailed"}
HttpConnect == {"Timeout", "Reset", "EmptyRecv", "BadResponse", "BadStatus"}
ReadSmtpBanner == {"Timeout", "Reset", "BadStatus"}
TlsUpgrade == {"Timeout", "BadResponse"}

Socks == {"Timeout", "BadResponse"}

(* SOCKS4 has no name support: it needs an IPv4 target. *)
CanNegotiate(p, target) == p = "Socks4" => target.ip = "v4"

(* negotiate: the ways it can fail. *)
NegotiateErrors(p, target) ==
  CASE ~CanNegotiate(p, target)   -> {"BadResponse"}
    [] p = "Http"                 -> {}
    [] p \in {"Socks4", "Socks5"} -> Socks
    [] p = "Connect80"            -> HttpConnect
    [] p = "Connect25"            -> HttpConnect \cup ReadSmtpBanner
    [] p = "Https"                -> HttpConnect \cup TlsUpgrade

(* The test request: write, read_response, status. *)
ExchangeErrors == {"Timeout", "Reset", "EmptyRecv", "BadResponse", "BadStatus"}

ProxyErrors == DialErrors \cup HttpConnect \cup ExchangeErrors

(* What the types of the code guarantee of a request, of a judge and of a    *)
(* proxy that has not been probed in this run yet.                           *)
Signals == {"CanaryMismatch", "InjectedHeader"}
KnownTypes == UNION {[S -> Levels \cup {NoLevel}] : S \in SUBSET Protos}

Proxy ==
  [ip : {"v4", "v6"}, expected : SUBSET Protos, types : KnownTypes,
   cookie : BOOLEAN, referer : BOOLEAN, trust : SUBSET Signals,
   requests : Nat, errors : Nat, probes : Nat]

ASSUME CheckerAssumption ==
  /\ \A q \in Queries :
       /\ DOMAIN q.types \subseteq Protos
       /\ \A p \in DOMAIN q.types : q.types[p] \subseteq Levels
       /\ q.retry.tries \in Nat /\ q.retry.on \subseteq ProxyErrors
       /\ \A j \in q.judges \cup Bundled : j.scheme \in {"Http", "Https", "Smtp"}
       /\ q.strict \in BOOLEAN
  /\ \A p \in Candidates : p \in Proxy /\ p.probes = 0
  /\ \A page \in Pages : page.cookie \in BOOLEAN /\ page.referer \in BOOLEAN

ResponseIsValid(page) ==
  /\ page.marker /\ page.shows # {}
  /\ query.relaxed \/ (page.referer /\ page.cookie)

AnonymityLevel(page, judge) ==
  IF page.shows \cap extIps # {} THEN "Transparent"
  ELSE IF page.via > judge.via \/ page.proxy > judge.proxy THEN "Anonymous"
  ELSE "High"

(* build_checker turns the assessment on for --require-trusted too. *)
TrustCheck == query.trust \/ query.require.trusted

(* TrustReport::assess. *)
Assess(page) ==
  IF ~TrustCheck THEN {}
  ELSE (IF page.marker THEN {} ELSE {"CanaryMismatch"})
       \cup (IF page.injected THEN {"InjectedHeader"} ELSE {})

Outcome(kind) ==
  [kind |-> kind, level |-> NoLevel, cookie |-> FALSE, referer |-> FALSE, trust |-> {}]

(* What a 200 with this page makes of the attempt. *)
Judged(p, judge, page) ==
  IF ~ResponseIsValid(page) THEN Outcome("Invalid")
  ELSE [kind    |-> "Working",
        level   |-> IF ChecksAnonLevel(p) THEN AnonymityLevel(page, judge) ELSE NoLevel,
        cookie  |-> page.cookie,
        referer |-> page.referer,
        trust   |-> Assess(page)]

(* Checker::attempt.  A granted CONNECT:25 tunnel and a live liveness URL    *)
(* are the whole check.                                                      *)
Attempts(p, target) ==
  {Outcome(e) : e \in DialErrors \cup NegotiateErrors(p, target)}
  \cup
  IF ~CanNegotiate(p, target) THEN {}
  ELSE IF p = "Connect25" THEN {Outcome("Working")}
  ELSE {Outcome(e) : e \in ExchangeErrors}
       \cup IF mode = "Liveness" THEN {Outcome("Working")}
            ELSE {Judged(p, target, page) : page \in Pages}

-----------------------------------------------------------------------------
(* Checker::check. *)

(* The expected protocols that were requested; an empty expectation means    *)
(* unknown, and every requested protocol is tried.                           *)
Ngtrs ==
  {p \in Protos : p \in DOMAIN query.types /\ (start.expected = {} \/ p \in start.expected)}

(* The loop over ngtrs is in Proto::ALL order: the first protocol left. *)
Current ==
  AllProtos[CHOOSE i \in DOMAIN AllProtos :
              AllProtos[i] \in todo /\ \A j \in 1..(i - 1) : AllProtos[j] \notin todo]

(* in_dnsbl comes first: a listed IPv4 address is rejected untried.  IPv6 is *)
(* never looked up.                                                          *)
RejectListed ==
  /\ phase = "ready" /\ pc = "idle"
  /\ query.dnsbl /\ start.ip = "v4"
  /\ pc' = "listed"
  /\ UNCHANGED <<buildVars, start, proxy, todo, probe, tries, any, verdict, log>>

BeginCheck ==
  /\ phase = "ready" /\ pc = "idle"
  /\ pc' = "proto"
  /\ todo' = Ngtrs
  /\ UNCHANGED <<buildVars, start, proxy, probe, tries, any, verdict, log>>

Bucket(scheme) == {j \in judges : j.scheme = scheme}

PickJudgeWaits ==
  /\ pc = "proto" /\ todo # {}
  /\ mode = "Judged"
  /\ \/ /\ probe' \in Bucket(JudgeScheme(Current))
        /\ pc' = "attempt"
        /\ tries' = 0
     \/ /\ Bucket(JudgeScheme(Current)) = {}
        /\ UNCHANGED <<probe, pc, tries>>
  /\ UNCHANGED <<buildVars, start, proxy, todo, any, verdict, log>>

(* check_one, judged: one random judge of the scheme serves every attempt at *)
(* the protocol; without one the protocol is given up, untried.              *)
PickJudge ==
  /\ pc = "proto" /\ todo # {}
  /\ mode = "Judged"
  /\ \/ /\ probe' \in Bucket(JudgeScheme(Current))
        /\ pc' = "attempt"
        /\ tries' = 0
        /\ UNCHANGED todo
     \/ /\ Bucket(JudgeScheme(Current)) = {}
        /\ todo' = todo \ {Current}
        /\ UNCHANGED <<probe, pc, tries>>
  /\ UNCHANGED <<buildVars, start, proxy, any, verdict, log>>

(* check_one, liveness: every protocol probes the one liveness target. *)
ProbeLiveness ==
  /\ pc = "proto" /\ todo # {}
  /\ mode = "Liveness"
  /\ pc' = "attempt"
  /\ tries' = 0
  /\ UNCHANGED <<buildVars, start, proxy, todo, probe, any, verdict, log>>

AddType(types, p, level) == [q \in DOMAIN types \cup {p} |-> IF q = p THEN level ELSE types[q]]

RecordTrustLatest(p, o) == [p EXCEPT !.trust = o.trust]

(* record_trust: the signals of every protocol, together. *)
RecordTrust(p, o) == [p EXCEPT !.trust = @ \cup o.trust]

(* record_caps: a capability once shown is kept. *)
RecordCaps(p, o) == [p EXCEPT !.cookie = @ \/ o.cookie, !.referer = @ \/ o.referer]

(* record_attempt and, for a success, record_probe_latency. *)
RecordAttempt(p, worked) ==
  [p EXCEPT !.requests = @ + 1, !.errors = IF worked THEN @ ELSE @ + 1,
            !.probes = IF worked THEN @ + 1 ELSE @]

(* One attempt is made and recorded. *)
Attempted(o) ==
  /\ pc = "attempt"
  /\ tries < query.retry.tries
  /\ log' = [log EXCEPT ![Current] = Append(@, o)]

RetryableTimeout(o) == o.kind = "Timeout" /\ tries + 1 < query.retry.tries

Retryable(o) == o.kind \in query.retry.on /\ tries + 1 < query.retry.tries

Works(o) ==
  /\ Attempted(o)
  /\ o.kind = "Working"
  /\ LET worked == RecordTrust(RecordCaps(RecordAttempt(proxy, TRUE), o), o)
     IN  proxy' = [worked EXCEPT !.types = AddType(@, Current, o.level)]
  /\ any' = TRUE
  /\ todo' = todo \ {Current}
  /\ pc' = "proto"
  /\ UNCHANGED <<buildVars, start, probe, tries, verdict>>

(* Invalid, or an error the policy does not retry, or no attempt left. *)
Fails(o) ==
  /\ Attempted(o)
  /\ o.kind # "Working" /\ ~Retryable(o)
  /\ proxy' = RecordAttempt(proxy, FALSE)
  /\ todo' = todo \ {Current}
  /\ pc' = "proto"
  /\ UNCHANGED <<buildVars, start, probe, tries, any, verdict>>

Retries(o) ==
  /\ Attempted(o)
  /\ Retryable(o)
  /\ proxy' = RecordAttempt(proxy, FALSE)
  /\ tries' = tries + 1
  /\ UNCHANGED <<buildVars, start, todo, pc, probe, any, verdict>>

(* The loop of check_one runs out, at once under a policy of no attempts. *)
OutOfTries ==
  /\ pc = "attempt"
  /\ tries >= query.retry.tries
  /\ todo' = todo \ {Current}
  /\ pc' = "proto"
  /\ UNCHANGED <<buildVars, start, proxy, probe, tries, any, verdict, log>>

MatchesAnyTunnel(p, level) ==
  \/ p \notin DOMAIN query.types
  \/ query.types[p] = {}
  \/ ~ChecksAnonLevel(p)
  \/ level \in query.types[p]

(* types_passed, one confirmed type: a level filter binds HTTP alone in      *)
(* strict mode, and no tunnel type passes one otherwise.                     *)
Matches(p, level) ==
  \/ p \notin DOMAIN query.types
  \/ query.types[p] = {}
  \/ IF ChecksAnonLevel(p) THEN level \in query.types[p] ELSE query.strict

(* Strict mode strips the types that do not match. *)
Stripped(types) ==
  IF query.strict THEN [p \in {p \in DOMAIN types : Matches(p, types[p])} |-> types[p]]
  ELSE types

TypesPassed(types) == \E p \in DOMAIN types : Matches(p, types[p])

(* The verdict.  Without a protocol that worked types_passed is not called,  *)
(* and nothing is stripped.                                                  *)
Conclude ==
  /\ pc = "proto" /\ todo = {}
  /\ pc' = "checked"
  /\ verdict' = (any /\ TypesPassed(proxy.types))
  /\ proxy' = IF any THEN [proxy EXCEPT !.types = Stripped(@)] ELSE proxy
  /\ UNCHANGED <<buildVars, start, todo, probe, tries, any, log>>

(* CapsFilter::passes. *)
CapsPass(p) ==
  /\ query.require.cookie => p.cookie
  /\ query.require.referer => p.referer
  /\ query.require.connect25 => "Connect25" \in DOMAIN p.types
  /\ query.require.trusted => p.trust = {}

(* check_stream hands a proxy on when both agree. *)
Emitted == pc = "checked" /\ verdict /\ CapsPass(proxy)

-----------------------------------------------------------------------------
Build == RefuseNoTypes \/ DiscoverExtIps \/ ProbeAll

AttemptStep ==
  pc = "attempt" /\ \E o \in Attempts(Current, probe) : Works(o) \/ Fails(o) \/ Retries(o)

CheckStep ==
  \/ RejectListed \/ BeginCheck
  \/ PickJudge \/ ProbeLiveness
  \/ AttemptStep \/ OutOfTries
  \/ Conclude

Returned == pc \in {"checked", "listed"}

Over == (Returned \/ phase \in Errors) /\ UNCHANGED vars

Next == Build \/ CheckStep \/ Over

Spec == Init /\ [][Next]_vars

(* Every network step of the build and of a check is under a timeout. *)
FairSpec == Spec /\ WF_vars(Build) /\ WF_vars(CheckStep)

-----------------------------------------------------------------------------
Last(p) == log[p][Len(log[p])]
Worked(p) == log[p] # <<>> /\ Last(p).kind = "Working"

Made == UNION {{p} \X DOMAIN log[p] : p \in Protos}
Failures == {a \in Made : log[a[1]][a[2]].kind # "Working"}

(* The protocols check_one has returned from. *)
Left == {p \in Ngtrs \ todo : pc \in {"proto", "attempt", "checked"}}

(* The types; and a checker exists only over its baseline: the addresses of  *)
(* this host, and a pool of verified judges or, for want of one, a liveness  *)
(* target.                                                                   *)
CheckerTypeOK ==
  /\ query \in Queries
  /\ phase \in {"build", "probe", "ready"} \cup Errors
  /\ extIps \subseteq OwnAddrs
  /\ \A j \in judges : j.scheme \in {"Http", "Https", "Smtp"}
  /\ mode \in {None, "Judged", "Liveness"}
  /\ pc \in {"idle", "proto", "attempt", "checked", "listed"}
  /\ tries \in 0..query.retry.tries
  /\ any \in BOOLEAN /\ verdict \in BOOLEAN
  /\ DOMAIN proxy.types \subseteq Protos
  /\ \A p \in DOMAIN proxy.types : proxy.types[p] \in Levels \cup {NoLevel}
  /\ \A p \in Protos, i \in 1..query.retry.tries :
       i \in DOMAIN log[p] => log[p][i].kind \in ProxyErrors \cup {"Working", "Invalid"}
  /\ phase = "ready" =>
       /\ extIps # {}
       /\ mode = "Judged" <=> judges # {}
       /\ mode = "Liveness" <=> judges = {} /\ probe.scheme \in {"Http", "Https"}
  /\ pc # "idle" => phase = "ready"

(* check_one retries what the policy retries and nothing else, and it does   *)
(* not give up early: only the last attempt at a protocol may be other than  *)
(* a retryable error, a protocol left on a retryable error has used every    *)
(* attempt, one that has a judge is tried, and the proxy is charged with     *)
(* exactly the attempts made.                                                *)
RetriesAreLawful ==
  /\ \A p \in Protos :
       /\ Len(log[p]) <= query.retry.tries
       /\ \A i \in DOMAIN log[p] : i < Len(log[p]) => log[p][i].kind \in query.retry.on
  /\ \A p \in Left :
       /\ log[p] = <<>> => query.retry.tries = 0 \/ Bucket(JudgeScheme(p)) = {}
       /\ log[p] # <<>> /\ Last(p).kind \in query.retry.on => Len(log[p]) = query.retry.tries
  /\ proxy.requests = start.requests + Cardinality(Made)
  /\ proxy.errors = start.errors + Cardinality(Failures)
  /\ proxy.probes = Cardinality(Made \ Failures)

(* What check decides is what was asked for.  A proxy never checked before   *)
(* passes iff some protocol worked at a level that was asked for or, in      *)
(* strict mode, some tunnel worked; a strict pass leaves it with no type     *)
(* that was asked for at another level; and whatever it was known to do, it  *)
(* passes only if something worked now.                                      *)
VerdictMatchesRequest ==
  Returned =>
    LET wanted(p, level) == \/ Asked(query, p, level)
                            \/ query.strict /\ ~ChecksAnonLevel(p)
    IN  /\ verdict => \E p \in Protos : Worked(p)
        /\ verdict /\ query.strict =>
             \A p \in DOMAIN proxy.types \cap DOMAIN query.types : wanted(p, proxy.types[p])
        /\ DOMAIN start.types = {} =>
             (verdict <=> \E p \in Protos : Worked(p) /\ wanted(p, Last(p).level))

(* --require-trusted lets no proxy through that a judge saw tamper on any    *)
(* protocol, whatever the other protocols showed and in whatever order.      *)
EmittedIsTrusted ==
  Emitted /\ query.require.trusted => \A a \in Made : log[a[1]][a[2]].trust = {}

(* A build ends in a checker or an error, and a check in a verdict, whatever *)
(* fails on the way: no judge is waited for.                                 *)
CheckEnds == <>(Returned \/ phase \in Errors)

=============================================================================
