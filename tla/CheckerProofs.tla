---------------------------- MODULE CheckerProofs ----------------------------
(***************************************************************************)
(* What one check of one proxy promises, for any request, any judges, any  *)
(* retry policy and any answers of the network: the retries are lawful and *)
(* charged, the verdict is the one that was asked for, and a proxy that    *)
(* tampered is never let through as trusted.                               *)
(***************************************************************************)
EXTENDS Checker, FiniteSetTheorems, TLAPS

-----------------------------------------------------------------------------
(* The inductive invariant. *)

(* What an attempt may come to. *)
Result ==
  [kind : ProxyErrors \cup {"Working", "Invalid"}, level : Levels \cup {NoLevel},
   cookie : BOOLEAN, referer : BOOLEAN, trust : SUBSET Signals]

CheckTyped ==
  /\ query \in Queries /\ start \in Candidates
  /\ proxy \in Proxy
  /\ pc \in {"idle", "proto", "attempt", "checked", "listed"}
  /\ todo \subseteq Ngtrs
  /\ tries \in Nat /\ tries <= query.retry.tries
  /\ any \in BOOLEAN /\ verdict \in BOOLEAN
  /\ log \in [Protos -> Seq(Result)]

(* A checker exists only over its baseline. *)
Baseline ==
  /\ phase \in {"build", "probe", "ready"} \cup Errors
  /\ extIps \subseteq OwnAddrs
  /\ phase \in {"probe", "ready"} => extIps # {}
  /\ \A j \in judges : j.scheme \in {"Http", "Https", "Smtp"}
  /\ mode \in {None, "Judged", "Liveness"}
  /\ phase = "ready" =>
       /\ mode = "Judged" <=> judges # {}
       /\ mode = "Liveness" <=> judges = {} /\ probe.scheme \in {"Http", "Https"}
  /\ pc # "idle" => phase = "ready"

(* How far check has come: nothing is logged for a protocol whose turn has   *)
(* not come, and behind an attempt there are only retryable errors.          *)
InTurn ==
  /\ pc \in {"idle", "listed"} => \A p \in Protos : log[p] = <<>>
  /\ \A p \in Protos \ Ngtrs : log[p] = <<>>
  /\ \A p \in todo : log[p] = <<>> \/ (pc = "attempt" /\ p = Current)
  /\ pc = "attempt" =>
       /\ todo # {}
       /\ Len(log[Current]) = tries
       /\ \A i \in DOMAIN log[Current] : log[Current][i].kind \in query.retry.on
       /\ tries = 0 \/ tries < query.retry.tries

(* What RetriesAreLawful says of the log. *)
LogLawful ==
  /\ \A p \in Protos :
       /\ Len(log[p]) <= query.retry.tries
       /\ \A i \in DOMAIN log[p] : i < Len(log[p]) => log[p][i].kind \in query.retry.on
  /\ \A p \in Left :
       /\ log[p] = <<>> => query.retry.tries = 0 \/ Bucket(JudgeScheme(p)) = {}
       /\ log[p] # <<>> /\ Last(p).kind \in query.retry.on => Len(log[p]) = query.retry.tries

(* What it says of the counters. *)
Charged ==
  /\ IsFiniteSet(Made)
  /\ proxy.requests = start.requests + Cardinality(Made)
  /\ proxy.errors = start.errors + Cardinality(Failures)
  /\ proxy.probes = Cardinality(Made \ Failures)

(* Every signal a judge saw is on the proxy, and a level is one of HTTP. *)
Noted ==
  \A p \in Protos : \A i \in DOMAIN log[p] :
    /\ log[p][i].trust \subseteq proxy.trust
    /\ ChecksAnonLevel(p) \/ log[p][i].level = NoLevel

(* Up to the verdict the proxy has the types it came with and the ones that  *)
(* worked, at the level they worked at last.                                 *)
TypesRecorded ==
  /\ any <=> \E p \in Protos : Worked(p)
  /\ pc # "checked" =>
       /\ ~verdict
       /\ DOMAIN proxy.types = DOMAIN start.types \cup {p \in Protos : Worked(p)}
       /\ \A p \in Protos : Worked(p) => proxy.types[p] = Last(p).level

CheckInv ==
  /\ CheckTyped /\ Baseline /\ InTurn /\ LogLawful /\ Charged /\ Noted /\ TypesRecorded
  /\ VerdictMatchesRequest

-----------------------------------------------------------------------------
LEMMA QueryFacts ==
  ASSUME CheckTyped
  PROVE  /\ DOMAIN query.types \subseteq Protos
         /\ \A p \in DOMAIN query.types : query.types[p] \subseteq Levels
         /\ query.retry.tries \in Nat /\ query.retry.on \subseteq ProxyErrors
         /\ query.strict \in BOOLEAN
         /\ start \in Proxy /\ start.probes = 0
         /\ Ngtrs \subseteq Protos /\ Ngtrs \subseteq DOMAIN query.types
         /\ todo \subseteq Protos
  BY CheckerAssumption DEF CheckTyped, Ngtrs

LEMMA KindFacts == "Working" \notin ProxyErrors /\ "Invalid" \notin ProxyErrors
  BY DEF ProxyErrors, DialErrors, HttpConnect, ExchangeErrors

(* The loop over ngtrs has a next protocol as long as one is left. *)
LEMMA CurrentIsLeft ==
  ASSUME todo \subseteq Protos, todo # {}
  PROVE  Current \in todo
<1> DEFINE First(i) == AllProtos[i] \in todo /\ \A j \in 1..(i - 1) : AllProtos[j] \notin todo
<1>1. DOMAIN AllProtos = {1, 2, 3, 4, 5, 6}
  <2>1. DOMAIN AllProtos = 1..6 /\ 1..6 = {1, 2, 3, 4, 5, 6}
    BY DEF AllProtos
  <2> QED BY <2>1
<1>2. \E i \in DOMAIN AllProtos : AllProtos[i] \in todo
  BY DEF Protos
<1>3. /\ 1..(1 - 1) = {} /\ 1..(2 - 1) = {1} /\ 1..(3 - 1) = {1, 2} /\ 1..(4 - 1) = {1, 2, 3}
      /\ 1..(5 - 1) = {1, 2, 3, 4} /\ 1..(6 - 1) = {1, 2, 3, 4, 5}
  OBVIOUS
<1>4. First(1) \/ First(2) \/ First(3) \/ First(4) \/ First(5) \/ First(6)
  BY <1>1, <1>2, <1>3, Zenon
<1>5. \E i \in DOMAIN AllProtos : First(i)
  BY <1>1, <1>4
<1> QED BY <1>5 DEF Current

LEMMA AttemptFacts ==
  ASSUME CheckTyped, NEW p \in Protos, NEW target, NEW o \in Attempts(p, target)
  PROVE  /\ o \in Result
         /\ ChecksAnonLevel(p) \/ o.level = NoLevel
         /\ o.kind # "Working" => o.trust = {}
<1>1. ASSUME NEW k \in ProxyErrors \cup {"Working", "Invalid"}
      PROVE  /\ Outcome(k) \in Result /\ Outcome(k).level = NoLevel /\ Outcome(k).trust = {}
  BY DEF Outcome, Result, NoLevel
<1>2. NegotiateErrors(p, target) \subseteq ProxyErrors
  BY DEF NegotiateErrors, ProxyErrors, Socks, HttpConnect, ReadSmtpBanner, TlsUpgrade,
         ExchangeErrors, DialErrors, Protos, AllProtos
<1>3. ASSUME NEW page \in Pages, o = Judged(p, target, page)
      PROVE  /\ o \in Result
             /\ ChecksAnonLevel(p) \/ o.level = NoLevel
             /\ o.kind # "Working" => o.trust = {}
  <2>1. AnonymityLevel(page, target) \in Levels
    BY DEF AnonymityLevel, Levels
  <2>2. Assess(page) \in SUBSET Signals
    BY DEF Assess, Signals
  <2>3. page.cookie \in BOOLEAN /\ page.referer \in BOOLEAN
    BY CheckerAssumption
  <2>4. CASE ResponseIsValid(page)
    <3>1. o = [kind |-> "Working",
               level |-> IF ChecksAnonLevel(p) THEN AnonymityLevel(page, target) ELSE NoLevel,
               cookie |-> page.cookie, referer |-> page.referer, trust |-> Assess(page)]
      BY <1>3, <2>4 DEF Judged
    <3> QED BY <2>1, <2>2, <2>3, <3>1 DEF Result
  <2>5. CASE ~ResponseIsValid(page)
    BY <1>1, <1>3, <2>5 DEF Judged
  <2> QED BY <2>4, <2>5
<1>4. DialErrors \subseteq ProxyErrors /\ ExchangeErrors \subseteq ProxyErrors
  BY DEF ProxyErrors
<1>5. \/ \E k \in ProxyErrors \cup {"Working", "Invalid"} : o = Outcome(k)
      \/ \E page \in Pages : o = Judged(p, target, page)
  BY <1>2, <1>4 DEF Attempts
<1> QED BY <1>1, <1>3, <1>5

-----------------------------------------------------------------------------
(* Steps that make no attempt. *)

LEMMA NoAttempt ==
  ASSUME CheckInv, UNCHANGED <<query, start, proxy, any, verdict, log>>,
         pc # "checked", pc' # "checked", pc' = "listed" => pc = "idle"
  PROVE  Charged' /\ Noted' /\ TypesRecorded' /\ VerdictMatchesRequest'
<1>1. Made' = Made /\ Failures' = Failures
  BY DEF Made, Failures
<1>2. Charged'
  BY <1>1 DEF CheckInv, Charged
<1>3. Noted'
  BY DEF CheckInv, Noted
<1>4. \A p \in Protos : Worked(p)' = Worked(p) /\ Last(p)' = Last(p)
  BY DEF Worked, Last
<1>5. TypesRecorded'
  BY <1>4 DEF CheckInv, TypesRecorded
<1>6. VerdictMatchesRequest'
  <2> SUFFICES ASSUME pc' = "listed" PROVE VerdictMatchesRequest'
    BY DEF VerdictMatchesRequest, Returned
  <2>1. ~verdict'
    BY DEF CheckInv, TypesRecorded
  <2>2. \A p \in Protos : ~Worked(p)'
    BY <1>4 DEF CheckInv, InTurn, Worked
  <2> QED BY <2>1, <2>2 DEF VerdictMatchesRequest
<1> QED BY <1>2, <1>3, <1>5, <1>6

LEMMA BuildSteps ==
  ASSUME CheckInv, Build
  PROVE  CheckInv'
<1> USE DEF buildVars, checkVars
<1>1. /\ UNCHANGED <<query, start, proxy, pc, todo, tries, any, verdict, log>>
      /\ phase \in {"build", "probe"}
  BY DEF Build, RefuseNoTypes, DiscoverExtIps, ProbeAll
<1>2. pc = "idle"
  BY <1>1 DEF CheckInv, Baseline
<1>3. CheckTyped'
  BY <1>1 DEF CheckInv, CheckTyped, Ngtrs
<1>4. InTurn'
  BY <1>1, <1>2 DEF CheckInv, InTurn, Ngtrs
<1>5. LogLawful'
  <2>1. Left' = {}
    BY <1>1, <1>2 DEF Left
  <2> QED BY <1>1, <2>1 DEF CheckInv, LogLawful
<1>6. Charged' /\ Noted' /\ TypesRecorded' /\ VerdictMatchesRequest'
  BY <1>1, <1>2, NoAttempt
<1>7. ASSUME RefuseNoTypes PROVE Baseline'
  BY <1>1, <1>2, <1>7 DEF RefuseNoTypes, CheckInv, Baseline, Errors
<1>8. ASSUME DiscoverExtIps PROVE Baseline'
  <2>1. PICK found \in SUBSET OwnAddrs :
          extIps' = found /\ phase' = IF found = {} THEN "ExtIpUnknown" ELSE "probe"
    BY <1>8 DEF DiscoverExtIps
  <2> QED BY <1>1, <1>2, <1>8, <2>1 DEF DiscoverExtIps, CheckInv, Baseline, Errors
<1>9. ASSUME ProbeAll PROVE Baseline'
  <2>1. \A j \in judges' : j.scheme \in {"Http", "Https", "Smtp"}
    <3> SUFFICES ASSUME NEW j \in judges' PROVE j.scheme \in {"Http", "Https", "Smtp"}
      OBVIOUS
    <3>1. PICK c \in CandidateJudges : \E r \in ProbeResults(c) : j \in r
      <4>1. judges' \in JudgePools
        BY <1>9 DEF ProbeAll
      <4> QED BY <4>1 DEF JudgePools
    <3>2. PICK ip, page : j \in Probed(c, ip, page)
      BY <3>1 DEF ProbeResults
    <3>3. c.scheme \in {"Http", "Https", "Smtp"}
      BY CheckerAssumption DEF CandidateJudges, CheckInv, CheckTyped
    <3> QED BY <3>2, <3>3 DEF Probed
  <2>2. phase = "probe" /\ extIps' = extIps /\ phase' \in {"ready", "NoJudges"}
    BY <1>9 DEF ProbeAll
  <2>3. \/ judges' # {} /\ mode' = "Judged"
        \/ judges' = {} /\ mode' = "Liveness" /\ probe'.scheme \in {"Http", "Https"}
        \/ phase' = "NoJudges" /\ mode' = mode
    <3>1. CASE /\ judges' = {} /\ query.liveness \in {"Http", "Https"}
               /\ probe' \in LivenessTargets /\ mode' = "Liveness"
      BY <3>1 DEF LivenessTargets
    <3> QED BY <1>9, <3>1 DEF ProbeAll
  <2> QED BY <1>1, <1>2, <2>1, <2>2, <2>3 DEF CheckInv, Baseline, Errors
<1>10. Baseline'
  BY <1>7, <1>8, <1>9 DEF Build
<1> QED BY <1>3, <1>4, <1>5, <1>6, <1>10 DEF CheckInv

(* The protocol whose turn it is has been left. *)
LEMMA OneMoreLeft ==
  ASSUME CheckTyped, UNCHANGED <<query, start>>, pc \in {"proto", "attempt"}, pc' = "proto",
         todo # {}, todo' = todo \ {Current}
  PROVE  /\ Left' = Left \cup {Current} /\ Current \in todo /\ Current \in Protos
         /\ todo' \subseteq Ngtrs'
<1>1. Current \in todo /\ todo \subseteq Ngtrs /\ todo \subseteq Protos
  BY CurrentIsLeft, QueryFacts DEF CheckTyped
<1> QED BY <1>1 DEF Left, Ngtrs

LEMMA LoopSteps ==
  ASSUME CheckInv, RejectListed \/ BeginCheck \/ PickJudge \/ ProbeLiveness \/ OutOfTries
  PROVE  CheckInv'
<1> USE DEF buildVars
<1>0. /\ UNCHANGED <<query, phase, extIps, judges, mode, start, proxy, any, verdict, log>>
      /\ pc \in {"idle", "proto", "attempt"} /\ pc' \in {"listed", "proto", "attempt"}
      /\ pc' = "listed" => pc = "idle"
  BY DEF RejectListed, BeginCheck, PickJudge, ProbeLiveness, OutOfTries
<1>1. Charged' /\ Noted' /\ TypesRecorded' /\ VerdictMatchesRequest'
  BY <1>0, NoAttempt
<1>2. Ngtrs' = Ngtrs /\ \A p : Bucket(JudgeScheme(p))' = Bucket(JudgeScheme(p))
  BY <1>0 DEF Ngtrs, Bucket
<1>3. CheckTyped /\ Baseline /\ InTurn /\ LogLawful /\ query.retry.tries \in Nat
  BY QueryFacts DEF CheckInv
<1>4. ASSUME RejectListed PROVE CheckTyped' /\ Baseline' /\ InTurn' /\ LogLawful'
  <2>1. /\ pc = "idle" /\ pc' = "listed" /\ phase = "ready"
        /\ UNCHANGED <<todo, probe, tries>>
    BY <1>4 DEF RejectListed
  <2>2. Left' = {}
    BY <2>1 DEF Left
  <2>3. CheckTyped' /\ Baseline'
    BY <1>0, <1>2, <1>3, <2>1 DEF CheckTyped, Baseline
  <2>4. InTurn'
    BY <1>0, <1>2, <1>3, <2>1 DEF InTurn
  <2> QED BY <1>0, <1>3, <2>2, <2>3, <2>4 DEF LogLawful
<1>5. ASSUME BeginCheck PROVE CheckTyped' /\ Baseline' /\ InTurn' /\ LogLawful'
  <2>1. /\ pc = "idle" /\ pc' = "proto" /\ phase = "ready" /\ todo' = Ngtrs
        /\ UNCHANGED <<probe, tries>>
    BY <1>5 DEF BeginCheck
  <2>2. Left' = {}
    BY <1>2, <2>1 DEF Left
  <2>3. CheckTyped' /\ Baseline'
    BY <1>0, <1>2, <1>3, <2>1 DEF CheckTyped, Baseline
  <2>4. \A p \in Protos : log[p] = <<>>
    BY <1>3, <2>1 DEF InTurn
  <2>5. InTurn'
    BY <1>0, <1>2, <1>3, <2>1, <2>4, QueryFacts DEF InTurn
  <2> QED BY <1>0, <1>3, <2>2, <2>3, <2>5 DEF LogLawful
<1>6. ASSUME pc = "proto", pc' = "attempt", todo # {}, UNCHANGED todo, tries' = 0,
             mode = "Judged" \/ UNCHANGED probe
      PROVE  CheckTyped' /\ Baseline' /\ InTurn' /\ LogLawful'
  <2>1. Current' = Current /\ Current \in todo /\ Current \in Protos
    BY <1>3, <1>6, CurrentIsLeft, QueryFacts DEF Current
  <2>2. Left' = Left
    BY <1>2, <1>6 DEF Left
  <2>3. CheckTyped'
    BY <1>0, <1>2, <1>3, <1>6 DEF CheckTyped
  <2>4. Baseline'
    BY <1>0, <1>3, <1>6 DEF Baseline
  <2>5. log[Current] = <<>> /\ Len(log[Current]) = 0 /\ DOMAIN log[Current] = {}
    BY <1>3, <1>6, <2>1 DEF InTurn
  <2>6. InTurn'
    BY <1>0, <1>2, <1>3, <1>6, <2>1, <2>5 DEF InTurn
  <2>7. LogLawful'
    BY <1>0, <1>2, <1>3, <2>2 DEF LogLawful, Last
  <2> QED BY <2>3, <2>4, <2>6, <2>7
<1>7. ASSUME pc \in {"proto", "attempt"}, pc' = "proto", todo # {}, todo' = todo \ {Current},
             UNCHANGED <<probe, tries>>, log[Current] = <<>>,
             query.retry.tries = 0 \/ Bucket(JudgeScheme(Current)) = {}
      PROVE  CheckTyped' /\ Baseline' /\ InTurn' /\ LogLawful'
  <2>1. Left' = Left \cup {Current} /\ Current \in Protos /\ todo' \subseteq Ngtrs'
    BY <1>0, <1>3, <1>7, OneMoreLeft
  <2>2. CheckTyped'
    BY <1>0, <1>3, <1>7, <2>1 DEF CheckTyped
  <2>3. Baseline'
    BY <1>0, <1>3, <1>7 DEF Baseline
  <2>4. InTurn'
    BY <1>0, <1>2, <1>3, <1>7 DEF InTurn
  <2>5. LogLawful'
    BY <1>0, <1>2, <1>3, <1>7, <2>1 DEF LogLawful, Last
  <2> QED BY <2>2, <2>3, <2>4, <2>5
<1>8. ASSUME PickJudge PROVE CheckTyped' /\ Baseline' /\ InTurn' /\ LogLawful'
  <2>1. ASSUME pc = "proto", todo # {} PROVE log[Current] = <<>>
    BY <1>3, <2>1, CurrentIsLeft, QueryFacts DEF InTurn
  <2> QED BY <1>6, <1>7, <1>8, <2>1 DEF PickJudge
<1>9. ASSUME ProbeLiveness PROVE CheckTyped' /\ Baseline' /\ InTurn' /\ LogLawful'
  BY <1>6, <1>9 DEF ProbeLiveness
<1>10. ASSUME OutOfTries PROVE CheckTyped' /\ Baseline' /\ InTurn' /\ LogLawful'
  <2>1. /\ pc = "attempt" /\ pc' = "proto" /\ tries >= query.retry.tries
        /\ todo' = todo \ {Current} /\ UNCHANGED <<probe, tries>>
    BY <1>10 DEF OutOfTries
  <2>2. /\ todo # {} /\ Len(log[Current]) = tries /\ tries \in Nat
        /\ tries = 0 \/ tries < query.retry.tries
    BY <1>3, <2>1 DEF InTurn, CheckTyped
  <2>3. query.retry.tries = 0 /\ tries = 0
    BY <1>3, <2>1, <2>2
  <2>4. log[Current] \in Seq(Result)
    BY <1>3, <2>2, CurrentIsLeft, QueryFacts DEF CheckTyped
  <2>5. log[Current] = <<>>
    BY <2>2, <2>3, <2>4
  <2> QED BY <1>7, <2>1, <2>2, <2>3, <2>5
<1> QED BY <1>1, <1>4, <1>5, <1>8, <1>9, <1>10 DEF CheckInv

-----------------------------------------------------------------------------
(* What an attempt records on the proxy. *)

LEMMA AttemptRecorded ==
  ASSUME NEW p \in Proxy
  PROVE  LET ok == RecordAttempt(p, TRUE)
             err == RecordAttempt(p, FALSE)
         IN  /\ ok \in Proxy /\ ok.types = p.types /\ ok.trust = p.trust
             /\ ok.requests = p.requests + 1 /\ ok.errors = p.errors /\ ok.probes = p.probes + 1
             /\ err \in Proxy /\ err.types = p.types /\ err.trust = p.trust
             /\ err.requests = p.requests + 1 /\ err.errors = p.errors + 1
             /\ err.probes = p.probes
<1> DEFINE R(E, T, S) == [ip : {"v4", "v6"}, expected : E, types : T, cookie : BOOLEAN,
                          referer : BOOLEAN, trust : S,
                          requests : Nat, errors : Nat, probes : Nat]
           With(r, a, b, d) == [r EXCEPT !.requests = a, !.errors = b, !.probes = d]
           Set(q, r, a, b, d) == /\ q.types = r.types /\ q.trust = r.trust
                                 /\ q.requests = a /\ q.errors = b /\ q.probes = d
<1>1. ASSUME NEW E, NEW T, NEW S, NEW r \in R(E, T, S),
             NEW a \in Nat, NEW b \in Nat, NEW d \in Nat
      PROVE  With(r, a, b, d) \in R(E, T, S) /\ Set(With(r, a, b, d), r, a, b, d)
  OBVIOUS
<1>2. Proxy = R(SUBSET Protos, KnownTypes, SUBSET Signals)
  BY DEF Proxy
<1>3. /\ p.requests \in Nat /\ p.errors \in Nat /\ p.probes \in Nat
      /\ p.requests + 1 \in Nat /\ p.errors + 1 \in Nat /\ p.probes + 1 \in Nat
  BY DEF Proxy
<1>4. /\ RecordAttempt(p, TRUE) = With(p, p.requests + 1, p.errors, p.probes + 1)
      /\ RecordAttempt(p, FALSE) = With(p, p.requests + 1, p.errors + 1, p.probes)
  BY DEF RecordAttempt
<1>5. ASSUME NEW a \in Nat, NEW b \in Nat, NEW d \in Nat
      PROVE  With(p, a, b, d) \in Proxy /\ Set(With(p, a, b, d), p, a, b, d)
  <2>1. p \in R(SUBSET Protos, KnownTypes, SUBSET Signals)
    BY <1>2
  <2> HIDE DEF R, With, Set
  <2>2. /\ With(p, a, b, d) \in R(SUBSET Protos, KnownTypes, SUBSET Signals)
        /\ Set(With(p, a, b, d), p, a, b, d)
    BY <1>1, <2>1
  <2> QED BY <1>2, <2>2
<1> HIDE DEF R, With, Set
<1>6. /\ With(p, p.requests + 1, p.errors, p.probes + 1) \in Proxy
      /\ Set(With(p, p.requests + 1, p.errors, p.probes + 1),
             p, p.requests + 1, p.errors, p.probes + 1)
  BY <1>3, <1>5
<1>7. /\ With(p, p.requests + 1, p.errors + 1, p.probes) \in Proxy
      /\ Set(With(p, p.requests + 1, p.errors + 1, p.probes),
             p, p.requests + 1, p.errors + 1, p.probes)
  BY <1>3, <1>5
<1>8. /\ RecordAttempt(p, TRUE) \in Proxy
      /\ Set(RecordAttempt(p, TRUE), p, p.requests + 1, p.errors, p.probes + 1)
  BY <1>4, <1>6, Zenon
<1>9. /\ RecordAttempt(p, FALSE) \in Proxy
      /\ Set(RecordAttempt(p, FALSE), p, p.requests + 1, p.errors + 1, p.probes)
  BY <1>4, <1>7, Zenon
<1> QED BY <1>8, <1>9 DEF Set

LEMMA SignsRecorded ==
  ASSUME NEW p \in Proxy, NEW o \in Result
  PROVE  LET q == RecordTrust(RecordCaps(p, o), o)
         IN  /\ q \in Proxy /\ q.types = p.types /\ q.trust = p.trust \cup o.trust
             /\ q.requests = p.requests /\ q.errors = p.errors /\ q.probes = p.probes
<1> DEFINE R(E, T) == [ip : {"v4", "v6"}, expected : E, types : T, cookie : BOOLEAN,
                       referer : BOOLEAN, trust : SUBSET Signals,
                       requests : Nat, errors : Nat, probes : Nat]
           Same(q, r) == /\ q.types = r.types /\ q.requests = r.requests
                         /\ q.errors = r.errors /\ q.probes = r.probes
<1>0. o.cookie \in BOOLEAN /\ o.referer \in BOOLEAN /\ o.trust \in SUBSET Signals
  BY DEF Result
<1>1. ASSUME NEW E, NEW T, NEW r \in R(E, T)
      PROVE  /\ RecordCaps(r, o) \in R(E, T) /\ Same(RecordCaps(r, o), r)
             /\ RecordCaps(r, o).trust = r.trust
  BY <1>0 DEF RecordCaps
<1>2. ASSUME NEW E, NEW T, NEW r \in R(E, T)
      PROVE  /\ RecordTrust(r, o) \in R(E, T) /\ Same(RecordTrust(r, o), r)
             /\ RecordTrust(r, o).trust = r.trust \cup o.trust
  BY <1>0 DEF RecordTrust
<1>3. Proxy = R(SUBSET Protos, KnownTypes)
  BY DEF Proxy
<1> HIDE DEF R
<1>4. /\ RecordCaps(p, o) \in Proxy /\ Same(RecordCaps(p, o), p)
      /\ RecordCaps(p, o).trust = p.trust
  BY <1>1, <1>3
<1>5. /\ RecordTrust(RecordCaps(p, o), o) \in Proxy
      /\ Same(RecordTrust(RecordCaps(p, o), o), RecordCaps(p, o))
      /\ RecordTrust(RecordCaps(p, o), o).trust = RecordCaps(p, o).trust \cup o.trust
  BY <1>2, <1>3, <1>4
<1> QED BY <1>4, <1>5

LEMMA TypesReplaced ==
  ASSUME NEW p \in Proxy, NEW t \in KnownTypes
  PROVE  LET q == [p EXCEPT !.types = t]
         IN  /\ q \in Proxy /\ q.types = t /\ q.trust = p.trust
             /\ q.requests = p.requests /\ q.errors = p.errors /\ q.probes = p.probes
<1> DEFINE R(E, T, S) == [ip : {"v4", "v6"}, expected : E, types : T, cookie : BOOLEAN,
                          referer : BOOLEAN, trust : S,
                          requests : Nat, errors : Nat, probes : Nat]
<1>1. ASSUME NEW E, NEW T, NEW S, NEW r \in R(E, T, S), NEW x \in T
      PROVE  /\ [r EXCEPT !.types = x] \in R(E, T, S) /\ [r EXCEPT !.types = x].types = x
             /\ [r EXCEPT !.types = x].trust = r.trust
             /\ [r EXCEPT !.types = x].requests = r.requests
             /\ [r EXCEPT !.types = x].errors = r.errors
             /\ [r EXCEPT !.types = x].probes = r.probes
  OBVIOUS
<1>2. Proxy = R(SUBSET Protos, KnownTypes, SUBSET Signals)
  BY DEF Proxy
<1> HIDE DEF R
<1> QED BY <1>1, <1>2

LEMMA KnownTypesFacts ==
  ASSUME NEW t \in KnownTypes
  PROVE  /\ DOMAIN t \subseteq Protos
         /\ \A p \in DOMAIN t : t[p] \in Levels \cup {NoLevel}
         /\ \A c \in Protos, l \in Levels \cup {NoLevel} : AddType(t, c, l) \in KnownTypes
         /\ \A S \in SUBSET DOMAIN t : [p \in S |-> t[p]] \in KnownTypes
<1>1. PICK D \in SUBSET Protos : t \in [D -> Levels \cup {NoLevel}]
  BY DEF KnownTypes
<1>2. DOMAIN t = D
  BY <1>1
<1>3. ASSUME NEW c \in Protos, NEW l \in Levels \cup {NoLevel}
      PROVE  AddType(t, c, l) \in KnownTypes
  <2>1. AddType(t, c, l) \in [D \cup {c} -> Levels \cup {NoLevel}]
    BY <1>1 DEF AddType
  <2>2. D \cup {c} \in SUBSET Protos
    OBVIOUS
  <2> QED BY <2>1, <2>2 DEF KnownTypes
<1>4. ASSUME NEW S \in SUBSET DOMAIN t PROVE [p \in S |-> t[p]] \in KnownTypes
  <2>1. [p \in S |-> t[p]] \in [S -> Levels \cup {NoLevel}] /\ S \in SUBSET Protos
    BY <1>1, <1>2
  <2> QED BY <2>1 DEF KnownTypes
<1> QED BY <1>1, <1>2, <1>3, <1>4

-----------------------------------------------------------------------------
(* One more attempt in the log. *)

LEMMA AppendFacts ==
  ASSUME NEW S, NEW s \in Seq(S), NEW x \in S
  PROVE  /\ Append(s, x) \in Seq(S) /\ Len(Append(s, x)) = Len(s) + 1
         /\ DOMAIN Append(s, x) = DOMAIN s \cup {Len(s) + 1}
         /\ Len(s) + 1 \notin DOMAIN s /\ Len(s) \in Nat /\ DOMAIN s = 1..Len(s)
         /\ Append(s, x)[Len(s) + 1] = x
         /\ \A i \in DOMAIN s : Append(s, x)[i] = s[i]
  OBVIOUS

Logged(c, o) ==
  /\ log' \in [Protos -> Seq(Result)]
  /\ \A p \in Protos \ {c} : log'[p] = log[p]
  /\ DOMAIN log'[c] = DOMAIN log[c] \cup {tries + 1} /\ DOMAIN log[c] = 1..tries
  /\ Len(log'[c]) = tries + 1 /\ log'[c][tries + 1] = o
  /\ \A i \in DOMAIN log[c] : log'[c][i] = log[c][i] /\ log[c][i].kind \in query.retry.on

LEMMA AttemptIsLogged ==
  ASSUME CheckInv, NEW o \in Result, Attempted(o)
  PROVE  /\ Current \in todo /\ Current \in Protos /\ todo # {} /\ pc = "attempt"
         /\ tries < query.retry.tries /\ tries \in Nat
         /\ Logged(Current, o)
<1>1. pc = "attempt" /\ tries < query.retry.tries
      /\ log' = [log EXCEPT ![Current] = Append(log[Current], o)]
  BY DEF Attempted
<1>2. /\ todo # {} /\ Len(log[Current]) = tries /\ tries \in Nat
      /\ \A i \in DOMAIN log[Current] : log[Current][i].kind \in query.retry.on
      /\ log \in [Protos -> Seq(Result)]
  BY <1>1 DEF CheckInv, InTurn, CheckTyped
<1>3. Current \in todo /\ Current \in Protos
  BY <1>2, CurrentIsLeft, QueryFacts DEF CheckInv
<1>4. log[Current] \in Seq(Result)
  BY <1>2, <1>3
<1>5. log'[Current] = Append(log[Current], o) /\ \A p \in Protos \ {Current} : log'[p] = log[p]
  BY <1>1, <1>2, <1>3
<1>6. log' \in [Protos -> Seq(Result)]
  <2>1. Append(log[Current], o) \in Seq(Result)
    BY <1>4, AppendFacts
  <2> QED BY <1>1, <1>2, <2>1
<1>7. /\ DOMAIN log'[Current] = DOMAIN log[Current] \cup {tries + 1}
      /\ DOMAIN log[Current] = 1..tries
      /\ Len(log'[Current]) = tries + 1 /\ log'[Current][tries + 1] = o
      /\ \A i \in DOMAIN log[Current] : log'[Current][i] = log[Current][i]
  BY <1>2, <1>4, <1>5, AppendFacts
<1> QED BY <1>1, <1>2, <1>3, <1>5, <1>6, <1>7 DEF Logged

(* The attempt is one more of those the proxy is charged with. *)
LEMMA AttemptIsCharged ==
  ASSUME CheckInv, NEW c \in Protos, NEW o \in Result, Logged(c, o), tries \in Nat,
         proxy \in Proxy, start \in Proxy,
         UNCHANGED start, proxy'.requests = proxy.requests + 1,
         o.kind = "Working" => proxy'.errors = proxy.errors /\ proxy'.probes = proxy.probes + 1,
         o.kind # "Working" => proxy'.errors = proxy.errors + 1 /\ proxy'.probes = proxy.probes
  PROVE  Charged'
<1> DEFINE new == <<c, tries + 1>>
<1>1. Made' = Made \cup {new}
  BY DEF Logged, Made
<1>2. new \notin Made
  <2>1. tries + 1 \notin DOMAIN log[c]
    BY DEF Logged
  <2> QED BY <2>1 DEF Made
<1>3. \A a \in Made : log'[a[1]][a[2]] = log[a[1]][a[2]]
  <2> SUFFICES ASSUME NEW a \in Made PROVE log'[a[1]][a[2]] = log[a[1]][a[2]]
    OBVIOUS
  <2>1. PICK p \in Protos : a \in {p} \X DOMAIN log[p]
    BY DEF Made
  <2>2. a[1] = p /\ a[2] \in DOMAIN log[p]
    BY <2>1
  <2>3. log'[p][a[2]] = log[p][a[2]]
    BY <2>2 DEF Logged
  <2> QED BY <2>2, <2>3
<1>4. log'[new[1]][new[2]] = o
  BY DEF Logged
<1>5. /\ IsFiniteSet(Made) /\ Cardinality(Made) \in Nat
      /\ proxy.requests = start.requests + Cardinality(Made)
      /\ proxy.errors = start.errors + Cardinality(Failures)
      /\ proxy.probes = Cardinality(Made \ Failures)
  BY FS_CardinalityType DEF CheckInv, Charged
<1>6. /\ IsFiniteSet(Failures) /\ Cardinality(Failures) \in Nat
      /\ IsFiniteSet(Made \ Failures) /\ Cardinality(Made \ Failures) \in Nat
  BY <1>5, FS_CardinalityType, FS_Subset DEF Failures
<1>7. start.requests \in Nat /\ start.errors \in Nat
  BY DEF Proxy
<1> HIDE DEF new
<1>8. IsFiniteSet(Made') /\ Cardinality(Made') = Cardinality(Made) + 1
  BY <1>1, <1>2, <1>5, FS_AddElement
<1>9. ASSUME o.kind = "Working" PROVE Charged'
  <2>1. Failures' = Failures
    BY <1>1, <1>3, <1>4, <1>9 DEF Failures
  <2> DEFINE good == Made \ Failures
  <2>2. Made' \ Failures' = good \cup {new} /\ new \notin good
    BY <1>1, <1>2, <2>1 DEF Failures
  <2>3. Cardinality(Made' \ Failures') = Cardinality(Made \ Failures) + 1
    <3>1. IsFiniteSet(good)
      BY <1>6
    <3> HIDE DEF good
    <3>2. Cardinality(good \cup {new}) = Cardinality(good) + 1
      BY <2>2, <3>1, FS_AddElement
    <3> QED BY <2>2, <3>2 DEF good
  <2> QED BY <1>5, <1>6, <1>7, <1>8, <1>9, <2>1, <2>3 DEF Charged
<1>10. ASSUME o.kind # "Working" PROVE Charged'
  <2>1. Failures' = Failures \cup {new} /\ new \notin Failures
    BY <1>1, <1>2, <1>3, <1>4, <1>10 DEF Failures
  <2>2. Made' \ Failures' = Made \ Failures
    BY <1>1, <1>2, <2>1
  <2>3. Cardinality(Failures') = Cardinality(Failures) + 1
    BY <1>6, <2>1, FS_AddElement
  <2> QED BY <1>5, <1>6, <1>7, <1>8, <1>10, <2>2, <2>3 DEF Charged
<1> QED BY <1>9, <1>10

LEMMA AttemptIsNoted ==
  ASSUME CheckInv, NEW c \in Protos, NEW o \in Result, Logged(c, o),
         proxy.trust \subseteq proxy'.trust, o.trust \subseteq proxy'.trust,
         ChecksAnonLevel(c) \/ o.level = NoLevel
  PROVE  Noted'
<1> SUFFICES ASSUME NEW p \in Protos, NEW i \in DOMAIN log'[p]
             PROVE  /\ log'[p][i].trust \subseteq proxy'.trust
                    /\ ChecksAnonLevel(p) \/ log'[p][i].level = NoLevel
  BY DEF Noted, ChecksAnonLevel
<1>1. \/ i \in DOMAIN log[p] /\ log'[p][i] = log[p][i]
      \/ p = c /\ log'[p][i] = o
  BY DEF Logged
<1> QED BY <1>1 DEF CheckInv, Noted

(* Up to its last attempt a protocol has not worked. *)
LEMMA WorkedNow ==
  ASSUME CheckInv, NEW c \in Protos, NEW o \in Result, Logged(c, o), tries \in Nat
  PROVE  /\ ~Worked(c) /\ Last(c)' = o /\ (Worked(c)' <=> o.kind = "Working")
         /\ log'[c] # <<>>
         /\ \A p \in Protos \ {c} : Last(p)' = Last(p) /\ (Worked(p)' <=> Worked(p))
<1>1. query.retry.on \subseteq ProxyErrors /\ log[c] \in Seq(Result)
  BY QueryFacts DEF CheckInv, CheckTyped
<1>2. ~Worked(c)
  <2> SUFFICES ASSUME log[c] # <<>> PROVE Last(c).kind # "Working"
    BY DEF Worked
  <2>1. Len(log[c]) \in DOMAIN log[c]
    BY <1>1
  <2>2. Last(c).kind \in query.retry.on
    BY <2>1 DEF Logged, Last
  <2> QED BY <1>1, <2>2, KindFacts
<1>3. Last(c)' = o /\ log'[c] # <<>>
  BY DEF Logged, Last
<1>4. \A p \in Protos \ {c} : Last(p)' = Last(p) /\ (Worked(p)' <=> Worked(p))
  BY DEF Logged, Last, Worked
<1> QED BY <1>2, <1>3, <1>4 DEF Worked

(* What the last attempt at a protocol leaves to be shown, and a retry. *)
LEMMA AttemptLeaves ==
  ASSUME CheckInv, NEW o \in Result, Attempted(o), pc' = "proto", todo' = todo \ {Current},
         UNCHANGED <<buildVars, start, probe, tries, verdict>>,
         o.kind \in query.retry.on => tries + 1 = query.retry.tries,
         proxy' \in Proxy, any' \in BOOLEAN
  PROVE  CheckTyped' /\ Baseline' /\ InTurn' /\ LogLawful'
<1> USE DEF buildVars
<1>0. PICK c : c = Current
  OBVIOUS
<1>1. /\ c \in todo /\ c \in Protos /\ todo # {} /\ pc = "attempt"
      /\ tries < query.retry.tries /\ tries \in Nat /\ Logged(c, o)
  BY <1>0, AttemptIsLogged
<1>2. CheckTyped /\ Baseline /\ InTurn /\ LogLawful /\ query.retry.tries \in Nat
      /\ Ngtrs' = Ngtrs
  BY QueryFacts DEF CheckInv, Ngtrs
<1>3. /\ Left' = Left \cup {c} /\ todo' \subseteq Ngtrs' /\ todo \subseteq Ngtrs
      /\ todo' = todo \ {c}
  BY <1>0, <1>1, <1>2, OneMoreLeft DEF CheckTyped
<1>4. CheckTyped'
  BY <1>1, <1>2, <1>3 DEF CheckTyped, Logged
<1>5. Baseline'
  BY <1>1, <1>2 DEF Baseline
<1>6. InTurn'
  <2>1. \A p \in Protos \ Ngtrs : log'[p] = <<>>
    BY <1>1, <1>2, <1>3 DEF InTurn, Logged
  <2>2. \A p \in todo' : log'[p] = <<>>
    <3> SUFFICES ASSUME NEW p \in todo' PROVE log'[p] = <<>>
      OBVIOUS
    <3>1. p \in todo /\ p # c /\ p \in Protos
      BY <1>2, <1>3, QueryFacts
    <3>2. log[p] = <<>>
      BY <1>0, <1>2, <3>1 DEF InTurn
    <3> QED BY <1>1, <3>1, <3>2 DEF Logged
  <2> QED BY <1>2, <2>1, <2>2 DEF InTurn
<1>7. /\ Last(c)' = o /\ log'[c] # <<>>
      /\ \A p \in Protos \ {c} : Last(p)' = Last(p)
  BY <1>1, WorkedNow
<1>8. ASSUME NEW p \in Protos
      PROVE  /\ Len(log'[p]) <= query'.retry.tries
             /\ \A i \in DOMAIN log'[p] :
                  i < Len(log'[p]) => log'[p][i].kind \in query'.retry.on
  BY <1>1, <1>2 DEF Logged, LogLawful
<1>9. ASSUME NEW p \in Left'
      PROVE  /\ log'[p] = <<>> => query'.retry.tries = 0 \/ Bucket(JudgeScheme(p))' = {}
             /\ log'[p] # <<>> /\ Last(p)'.kind \in query'.retry.on
                  => Len(log'[p]) = query'.retry.tries
  <2>1. CASE p = c
    BY <1>1, <1>7, <2>1 DEF Logged
  <2>2. CASE p # c
    <3>1. p \in Left /\ p \in Protos
      BY <1>3, <2>2, QueryFacts, <1>2 DEF Left
    <3>2. log'[p] = log[p] /\ Last(p)' = Last(p) /\ Bucket(JudgeScheme(p))' = Bucket(JudgeScheme(p))
      BY <1>1, <1>7, <2>2, <3>1 DEF Logged, Bucket
    <3> QED BY <1>2, <3>1, <3>2 DEF LogLawful
  <2> QED BY <2>1, <2>2
<1>10. LogLawful'
  BY <1>8, <1>9 DEF LogLawful
<1> QED BY <1>4, <1>5, <1>6, <1>10

LEMMA RetryStep ==
  ASSUME CheckInv, NEW o \in Result, o.trust = {} \/ o.kind = "Working",
         ChecksAnonLevel(Current) \/ o.level = NoLevel, Retries(o)
  PROVE  CheckInv'
<1> USE DEF buildVars
<1>1. /\ Attempted(o) /\ o.kind \in query.retry.on /\ tries + 1 < query.retry.tries
      /\ proxy' = RecordAttempt(proxy, FALSE) /\ tries' = tries + 1
      /\ UNCHANGED <<query, phase, extIps, judges, mode, start, todo, pc, probe, any, verdict>>
  BY DEF Retries, Retryable
<1>0. PICK c : c = Current
  OBVIOUS
<1>2. /\ c \in todo /\ c \in Protos /\ todo # {} /\ pc = "attempt"
      /\ tries < query.retry.tries /\ tries \in Nat /\ Logged(c, o)
  BY <1>0, <1>1, AttemptIsLogged
<1>3. /\ CheckTyped /\ Baseline /\ InTurn /\ LogLawful /\ query.retry.tries \in Nat
      /\ Ngtrs' = Ngtrs /\ c = Current' /\ proxy \in Proxy /\ start \in Proxy
      /\ query.retry.on \subseteq ProxyErrors
  BY <1>0, <1>1, QueryFacts DEF CheckInv, Ngtrs, CheckTyped, Current
<1>4. o.kind # "Working" /\ o.trust = {}
  BY <1>1, <1>3, KindFacts
<1>5. /\ proxy' \in Proxy /\ proxy'.types = proxy.types /\ proxy'.trust = proxy.trust
      /\ proxy'.requests = proxy.requests + 1 /\ proxy'.errors = proxy.errors + 1
      /\ proxy'.probes = proxy.probes
  BY <1>1, <1>3, AttemptRecorded
<1>6. CheckTyped'
  <2>1. log' \in [Protos -> Seq(Result)]
    BY <1>2 DEF Logged
  <2>2. tries' \in Nat /\ tries' <= query.retry.tries
    BY <1>1, <1>2, <1>3
  <2> QED BY <1>1, <1>3, <1>5, <2>1, <2>2 DEF CheckTyped
<1>7. Baseline'
  BY <1>1, <1>3 DEF Baseline
<1>8. InTurn'
  <2>1. todo \subseteq Ngtrs /\ todo \subseteq Protos
    BY <1>3, QueryFacts DEF CheckTyped
  <2>2. \A i \in DOMAIN log'[c] : log'[c][i].kind \in query.retry.on
    BY <1>1, <1>2 DEF Logged
  <2> QED BY <1>0, <1>1, <1>2, <1>3, <2>1, <2>2 DEF InTurn, Logged
<1>9. Left' = Left /\ Left \subseteq Protos /\ c \notin Left
  BY <1>1, <1>2, <1>3, QueryFacts DEF Left
<1>10. /\ ~Worked(c) /\ ~Worked(c)'
       /\ \A p \in Protos \ {c} : Last(p)' = Last(p) /\ (Worked(p)' <=> Worked(p))
  BY <1>2, <1>4, WorkedNow
<1>11. LogLawful'
  <2>1. ASSUME NEW p \in Protos
        PROVE  /\ Len(log'[p]) <= query'.retry.tries
               /\ \A i \in DOMAIN log'[p] :
                    i < Len(log'[p]) => log'[p][i].kind \in query'.retry.on
    <3>1. CASE p = c
      <4>1. /\ DOMAIN log'[c] = DOMAIN log[c] \cup {tries + 1} /\ Len(log'[c]) = tries + 1
            /\ \A i \in DOMAIN log[c] : log'[c][i].kind \in query.retry.on
        BY <1>2 DEF Logged
      <4> QED BY <1>1, <1>2, <1>3, <3>1, <4>1
    <3>2. CASE p # c
      <4>1. log'[p] = log[p] /\ query' = query
        BY <1>1, <1>2, <3>2 DEF Logged
      <4> QED BY <1>3, <4>1 DEF LogLawful
    <3> QED BY <3>1, <3>2
  <2>2. ASSUME NEW p \in Left'
        PROVE  /\ log'[p] = <<>> => query'.retry.tries = 0 \/ Bucket(JudgeScheme(p))' = {}
               /\ log'[p] # <<>> /\ Last(p)'.kind \in query'.retry.on
                    => Len(log'[p]) = query'.retry.tries
    <3>1. p \in Left /\ p \in Protos /\ p # c
      BY <1>9
    <3>2. /\ log'[p] = log[p] /\ Last(p)' = Last(p)
          /\ Bucket(JudgeScheme(p))' = Bucket(JudgeScheme(p))
      BY <1>1, <1>2, <1>10, <3>1 DEF Logged, Bucket
    <3> QED BY <1>1, <1>3, <3>1, <3>2 DEF LogLawful
  <2> QED BY <2>1, <2>2 DEF LogLawful
<1>12. Charged'
  BY <1>1, <1>2, <1>3, <1>4, <1>5, AttemptIsCharged
<1>13. Noted'
  BY <1>0, <1>2, <1>4, <1>5, AttemptIsNoted
<1>14. TypesRecorded'
  <2>1. \A p \in Protos : (Worked(p)' <=> Worked(p)) /\ (Worked(p) => Last(p)' = Last(p))
    BY <1>10
  <2>2. {p \in Protos : Worked(p)'} = {p \in Protos : Worked(p)}
    BY <2>1
  <2> QED BY <1>1, <1>5, <2>1, <2>2 DEF CheckInv, TypesRecorded
<1>15. VerdictMatchesRequest'
  BY <1>1, <1>2 DEF VerdictMatchesRequest, Returned
<1> QED BY <1>6, <1>7, <1>8, <1>11, <1>12, <1>13, <1>14, <1>15 DEF CheckInv

LEMMA FailStep ==
  ASSUME CheckInv, NEW o \in Result, o.trust = {} \/ o.kind = "Working",
         ChecksAnonLevel(Current) \/ o.level = NoLevel, Fails(o)
  PROVE  CheckInv'
<1>0. PICK c : c = Current
  OBVIOUS
<1>1. /\ Attempted(o) /\ o.kind # "Working" /\ ~Retryable(o)
      /\ proxy' = RecordAttempt(proxy, FALSE) /\ todo' = todo \ {Current} /\ pc' = "proto"
      /\ UNCHANGED <<buildVars, start, probe, tries, verdict>> /\ any' = any
  BY DEF Fails
<1>2. /\ c \in Protos /\ pc = "attempt" /\ tries < query.retry.tries /\ tries \in Nat
      /\ Logged(c, o)
  BY <1>0, <1>1, AttemptIsLogged
<1>3. /\ query.retry.tries \in Nat /\ proxy \in Proxy /\ start \in Proxy /\ any \in BOOLEAN
  BY QueryFacts DEF CheckInv, CheckTyped
<1>4. o.kind \in query.retry.on => tries + 1 = query.retry.tries
  BY <1>1, <1>2, <1>3 DEF Retryable
<1>5. /\ proxy' \in Proxy /\ proxy'.types = proxy.types /\ proxy'.trust = proxy.trust
      /\ proxy'.requests = proxy.requests + 1 /\ proxy'.errors = proxy.errors + 1
      /\ proxy'.probes = proxy.probes
  BY <1>1, <1>3, AttemptRecorded
<1>6. CheckTyped' /\ Baseline' /\ InTurn' /\ LogLawful'
  BY <1>1, <1>3, <1>4, <1>5, AttemptLeaves
<1>7. Charged'
  BY <1>1, <1>2, <1>3, <1>5, AttemptIsCharged
<1>8. Noted'
  BY <1>0, <1>1, <1>2, <1>5, AttemptIsNoted
<1>9. TypesRecorded'
  <2>1. \A p \in Protos : (Worked(p)' <=> Worked(p)) /\ (Worked(p) => Last(p)' = Last(p))
    BY <1>1, <1>2, WorkedNow
  <2>2. {p \in Protos : Worked(p)'} = {p \in Protos : Worked(p)}
    BY <2>1
  <2> QED BY <1>1, <1>2, <1>5, <2>1, <2>2 DEF CheckInv, TypesRecorded
<1>10. VerdictMatchesRequest'
  BY <1>1 DEF VerdictMatchesRequest, Returned
<1> QED BY <1>6, <1>7, <1>8, <1>9, <1>10 DEF CheckInv

LEMMA WorkStep ==
  ASSUME CheckInv, NEW o \in Result, ChecksAnonLevel(Current) \/ o.level = NoLevel, Works(o)
  PROVE  CheckInv'
<1>0. PICK c : c = Current
  OBVIOUS
<1> DEFINE tried == RecordAttempt(proxy, TRUE)
           worked == RecordTrust(RecordCaps(tried, o), o)
<1>1. /\ Attempted(o) /\ o.kind = "Working"
      /\ proxy' = [worked EXCEPT !.types = AddType(worked.types, c, o.level)]
      /\ todo' = todo \ {Current} /\ pc' = "proto"
      /\ UNCHANGED <<buildVars, start, probe, tries, verdict>> /\ any' = TRUE
  BY <1>0 DEF Works
<1>2. /\ c \in Protos /\ pc = "attempt" /\ tries < query.retry.tries /\ tries \in Nat
      /\ Logged(c, o)
  BY <1>0, <1>1, AttemptIsLogged
<1>3. /\ proxy \in Proxy /\ start \in Proxy /\ query.retry.on \subseteq ProxyErrors
  BY QueryFacts DEF CheckInv, CheckTyped
<1>4. /\ tried \in Proxy /\ tried.types = proxy.types /\ tried.trust = proxy.trust
      /\ tried.requests = proxy.requests + 1 /\ tried.errors = proxy.errors
      /\ tried.probes = proxy.probes + 1
  BY <1>3, AttemptRecorded
<1> HIDE DEF tried
<1>5. /\ worked \in Proxy /\ worked.types = proxy.types
      /\ worked.trust = proxy.trust \cup o.trust
      /\ worked.requests = proxy.requests + 1 /\ worked.errors = proxy.errors
      /\ worked.probes = proxy.probes + 1
  BY <1>4, SignsRecorded
<1> HIDE DEF worked
<1>6. AddType(worked.types, c, o.level) \in KnownTypes
  <2>1. proxy.types \in KnownTypes /\ o.level \in Levels \cup {NoLevel}
    BY <1>3 DEF Proxy, Result
  <2> QED BY <1>2, <1>5, <2>1, KnownTypesFacts
<1>7. /\ proxy' \in Proxy /\ proxy'.types = AddType(proxy.types, c, o.level)
      /\ proxy'.trust = proxy.trust \cup o.trust
      /\ proxy'.requests = proxy.requests + 1 /\ proxy'.errors = proxy.errors
      /\ proxy'.probes = proxy.probes + 1
  BY <1>1, <1>5, <1>6, TypesReplaced
<1>8. CheckTyped' /\ Baseline' /\ InTurn' /\ LogLawful'
  BY <1>1, <1>3, <1>7, KindFacts, AttemptLeaves
<1>9. Charged'
  BY <1>1, <1>2, <1>3, <1>7, AttemptIsCharged
<1>10. Noted'
  BY <1>0, <1>2, <1>7, AttemptIsNoted
<1>11. TypesRecorded'
  <2>1. /\ Worked(c)' /\ Last(c)' = o
        /\ \A p \in Protos \ {c} : Last(p)' = Last(p) /\ (Worked(p)' <=> Worked(p))
    BY <1>1, <1>2, WorkedNow
  <2>2. {p \in Protos : Worked(p)'} = {p \in Protos : Worked(p)} \cup {c}
    BY <1>2, <2>1
  <2>3. /\ ~verdict /\ DOMAIN proxy.types = DOMAIN start.types \cup {p \in Protos : Worked(p)}
        /\ \A p \in Protos : Worked(p) => proxy.types[p] = Last(p).level
    BY <1>2 DEF CheckInv, TypesRecorded
  <2>4. DOMAIN proxy'.types = DOMAIN proxy.types \cup {c} /\ proxy'.types[c] = o.level
        /\ \A p \in DOMAIN proxy.types \ {c} : proxy'.types[p] = proxy.types[p]
    BY <1>7 DEF AddType
  <2>5. \A p \in Protos : Worked(p)' => proxy'.types[p] = Last(p)'.level
    BY <2>1, <2>3, <2>4
  <2>6. \E p \in Protos : Worked(p)'
    BY <1>2, <2>1
  <2> QED BY <1>1, <2>2, <2>3, <2>4, <2>5, <2>6 DEF TypesRecorded
<1>12. VerdictMatchesRequest'
  BY <1>1 DEF VerdictMatchesRequest, Returned
<1> QED BY <1>8, <1>9, <1>10, <1>11, <1>12 DEF CheckInv

-----------------------------------------------------------------------------
(* The verdict. *)

Wanted(p, level) == Asked(query, p, level) \/ (query.strict /\ ~ChecksAnonLevel(p))

(* types_passed agrees with TypeSpec::accepts on whatever worked. *)
LEMMA MatchesIsWanted ==
  ASSUME CheckTyped, NEW p \in DOMAIN query.types, NEW level,
         ChecksAnonLevel(p) \/ level = NoLevel
  PROVE  Matches(p, level) <=> Wanted(p, level)
<1>1. NoLevel \notin Levels
  BY DEF NoLevel, Levels
<1>2. query.types[p] \subseteq Levels
  BY QueryFacts
<1> QED BY <1>1, <1>2 DEF Matches, Wanted, Asked

LEMMA ConcludeStep ==
  ASSUME CheckInv, Conclude
  PROVE  CheckInv'
<1> USE DEF buildVars
<1>1. /\ pc = "proto" /\ todo = {} /\ pc' = "checked"
      /\ verdict' = (any /\ TypesPassed(proxy.types))
      /\ UNCHANGED <<query, phase, extIps, judges, mode, start, todo, probe, tries, any, log>>
  BY DEF Conclude
<1>2. proxy' = IF any THEN [proxy EXCEPT !.types = Stripped(proxy.types)] ELSE proxy
  BY DEF Conclude
<1>3. /\ CheckTyped /\ Baseline /\ InTurn /\ LogLawful /\ Charged /\ Noted /\ TypesRecorded
      /\ proxy \in Proxy /\ any \in BOOLEAN /\ query.strict \in BOOLEAN
      /\ proxy.types \in KnownTypes
  BY QueryFacts DEF CheckInv, CheckTyped, Proxy
<1>4. Stripped(proxy.types) \in KnownTypes
  BY <1>3, KnownTypesFacts DEF Stripped
<1>5. /\ proxy' \in Proxy /\ proxy'.trust = proxy.trust /\ proxy'.requests = proxy.requests
      /\ proxy'.errors = proxy.errors /\ proxy'.probes = proxy.probes
      /\ any => proxy'.types = Stripped(proxy.types)
  BY <1>2, <1>3, <1>4, TypesReplaced
<1>6. Ngtrs' = Ngtrs /\ Left' = Left
  BY <1>1 DEF Ngtrs, Left
<1>7. \A p : Last(p)' = Last(p) /\ (Worked(p)' <=> Worked(p))
             /\ Bucket(JudgeScheme(p))' = Bucket(JudgeScheme(p))
  BY <1>1 DEF Last, Worked, Bucket
<1>8. Made' = Made /\ Failures' = Failures
  BY <1>1 DEF Made, Failures
<1>9. CheckTyped'
  BY <1>1, <1>3, <1>5, <1>6 DEF CheckTyped
<1>10. Baseline'
  BY <1>1, <1>3 DEF Baseline
<1>11. InTurn'
  BY <1>1, <1>3, <1>6 DEF InTurn
<1>12. LogLawful'
  BY <1>1, <1>3, <1>6, <1>7 DEF LogLawful
<1>13. Charged' /\ Noted'
  BY <1>1, <1>3, <1>5, <1>8 DEF Charged, Noted
<1>14. TypesRecorded'
  BY <1>1, <1>3, <1>7 DEF TypesRecorded
<1>15. ASSUME NEW p \in Protos, Worked(p)
       PROVE  p \in DOMAIN query.types /\ (ChecksAnonLevel(p) \/ Last(p).level = NoLevel)
  <2>1. p \in Ngtrs /\ log[p] # <<>> /\ log[p] \in Seq(Result)
    BY <1>3, <1>15 DEF InTurn, Worked, CheckTyped
  <2>2. Len(log[p]) \in DOMAIN log[p]
    BY <2>1
  <2> QED BY <1>3, <2>1, <2>2 DEF Noted, Last, Ngtrs
<1>16. verdict' => any /\ \E p \in Protos : Worked(p)
  BY <1>1, <1>3 DEF TypesRecorded
<1>17. ASSUME verdict', query.strict, NEW p \in DOMAIN proxy'.types \cap DOMAIN query.types
       PROVE  Wanted(p, proxy'.types[p])
  <2>1. proxy'.types = Stripped(proxy.types)
    BY <1>5, <1>16, <1>17
  <2>2. p \in DOMAIN proxy.types /\ Matches(p, proxy.types[p]) /\ proxy'.types[p] = proxy.types[p]
    BY <1>17, <2>1 DEF Stripped
  <2> QED BY <1>17, <2>2 DEF Matches, Wanted, Asked
<1>18. ASSUME DOMAIN start.types = {}
       PROVE  verdict' <=> \E p \in Protos : Worked(p) /\ Wanted(p, Last(p).level)
  <2>1. /\ DOMAIN proxy.types = {p \in Protos : Worked(p)}
        /\ \A p \in Protos : Worked(p) => proxy.types[p] = Last(p).level
    BY <1>1, <1>3, <1>18 DEF TypesRecorded
  <2>2. TypesPassed(proxy.types) <=> \E p \in Protos : Worked(p) /\ Matches(p, Last(p).level)
    BY <2>1 DEF TypesPassed
  <2>3. \A p \in Protos : Worked(p) => (Matches(p, Last(p).level) <=> Wanted(p, Last(p).level))
    BY <1>3, <1>15, MatchesIsWanted
  <2>4. (\E p \in Protos : Worked(p)) => any
    BY <1>3 DEF TypesRecorded
  <2> QED BY <1>1, <2>2, <2>3, <2>4
<1>19. VerdictMatchesRequest'
  <2>1. verdict' => \E p \in Protos : Worked(p)'
    BY <1>7, <1>16
  <2>2. verdict' /\ query'.strict =>
          \A p \in DOMAIN proxy'.types \cap DOMAIN query'.types : Wanted(p, proxy'.types[p])
    BY <1>1, <1>17
  <2>3. DOMAIN start'.types = {} =>
          (verdict' <=> \E p \in Protos : Worked(p)' /\ Wanted(p, Last(p)'.level))
    BY <1>1, <1>7, <1>18
  <2> QED BY <1>1, <2>1, <2>2, <2>3 DEF VerdictMatchesRequest, Wanted, Asked
<1> QED BY <1>9, <1>10, <1>11, <1>12, <1>13, <1>14, <1>19 DEF CheckInv

-----------------------------------------------------------------------------
LEMMA InitCheck ==
  ASSUME Init
  PROVE  CheckInv
<1>1. /\ query \in Queries /\ start \in Candidates /\ proxy = start /\ phase = "build"
      /\ extIps = {} /\ judges = {} /\ mode = None /\ pc = "idle" /\ todo = {} /\ tries = 0
      /\ any = FALSE /\ verdict = FALSE /\ log = [p \in Protos |-> <<>>]
  BY DEF Init
<1>2. start \in Proxy /\ start.probes = 0 /\ query.retry.tries \in Nat
  BY <1>1, CheckerAssumption
<1>3. log \in [Protos -> Seq(Result)] /\ \A p \in Protos : log[p] = <<>>
  BY <1>1
<1>4. CheckTyped
  <2>1. any \in BOOLEAN /\ verdict \in BOOLEAN
    BY <1>1
  <2>2. tries \in Nat /\ tries <= query.retry.tries
    BY <1>1, <1>2
  <2> QED BY <1>1, <1>2, <1>3, <2>1, <2>2 DEF CheckTyped
<1>5. Baseline
  BY <1>1 DEF Baseline
<1>6. InTurn
  BY <1>1, <1>3 DEF InTurn
<1>7. Left = {}
  BY <1>1 DEF Left
<1>8. \A p \in Protos : DOMAIN log[p] = {} /\ Len(log[p]) = 0 /\ ~Worked(p)
  BY <1>3 DEF Worked
<1>9. LogLawful
  BY <1>2, <1>7, <1>8 DEF LogLawful
<1>10. Made = {} /\ Failures = {}
  BY <1>8 DEF Made, Failures
<1>11. Charged
  <2>1. IsFiniteSet({}) /\ Cardinality({}) = 0 /\ {} \ {} = {}
    BY FS_EmptySet
  <2>2. start.requests \in Nat /\ start.errors \in Nat
    BY <1>2 DEF Proxy
  <2> QED BY <1>1, <1>2, <1>10, <2>1, <2>2 DEF Charged
<1>12. Noted
  BY <1>8 DEF Noted
<1>13. TypesRecorded
  <2>1. {p \in Protos : Worked(p)} = {}
    BY <1>8
  <2> QED BY <1>1, <1>8, <2>1 DEF TypesRecorded
<1>14. VerdictMatchesRequest
  BY <1>1 DEF VerdictMatchesRequest, Returned
<1> QED BY <1>4, <1>5, <1>6, <1>9, <1>11, <1>12, <1>13, <1>14 DEF CheckInv

LEMMA CheckNext ==
  ASSUME CheckInv, [Next]_vars
  PROVE  CheckInv'
<1>1. ASSUME Build PROVE CheckInv'
  BY <1>1, BuildSteps
<1>2. ASSUME RejectListed \/ BeginCheck \/ PickJudge \/ ProbeLiveness \/ OutOfTries
      PROVE  CheckInv'
  BY <1>2, LoopSteps
<1>3. ASSUME AttemptStep PROVE CheckInv'
  <2>1. PICK o \in Attempts(Current, probe) : Works(o) \/ Fails(o) \/ Retries(o)
    BY <1>3 DEF AttemptStep
  <2>2. CheckTyped /\ Current \in Protos
    <3>1. CheckTyped /\ todo # {}
      BY <1>3 DEF AttemptStep, CheckInv, InTurn
    <3> QED BY <3>1, CurrentIsLeft, QueryFacts
  <2>3. /\ o \in Result /\ (ChecksAnonLevel(Current) \/ o.level = NoLevel)
        /\ (o.trust = {} \/ o.kind = "Working")
    BY <2>2, AttemptFacts
  <2> QED BY <2>1, <2>3, WorkStep, FailStep, RetryStep
<1>4. ASSUME Conclude PROVE CheckInv'
  BY <1>4, ConcludeStep
<1>5. ASSUME UNCHANGED vars PROVE CheckInv'
  <2> USE <1>5 DEF vars, buildVars, checkVars
  <2>1. /\ Ngtrs' = Ngtrs /\ Current' = Current /\ Left' = Left /\ Made' = Made
        /\ Failures' = Failures /\ Returned' = Returned
    BY DEF Ngtrs, Current, Left, Made, Failures, Returned
  <2>2. \A p : Last(p)' = Last(p) /\ Worked(p)' = Worked(p)
               /\ Bucket(JudgeScheme(p))' = Bucket(JudgeScheme(p))
    BY DEF Last, Worked, Bucket
  <2>3. CheckTyped' /\ Baseline'
    BY <2>1 DEF CheckInv, CheckTyped, Baseline
  <2>4. InTurn'
    BY <2>1 DEF CheckInv, InTurn
  <2>5. LogLawful'
    BY <2>1, <2>2 DEF CheckInv, LogLawful
  <2>6. Charged' /\ Noted'
    BY <2>1 DEF CheckInv, Charged, Noted
  <2>7. TypesRecorded'
    BY <2>2 DEF CheckInv, TypesRecorded
  <2>8. VerdictMatchesRequest'
    BY <2>1, <2>2 DEF CheckInv, VerdictMatchesRequest, Asked
  <2> QED BY <2>3, <2>4, <2>5, <2>6, <2>7, <2>8 DEF CheckInv
<1> QED BY <1>1, <1>2, <1>3, <1>4, <1>5 DEF Next, CheckStep, Over

(* The invariant behind the theorems below. *)
LEMMA CheckIsSound == Spec => []CheckInv
  BY InitCheck, CheckNext, PTL DEF Spec

(* A checker exists only over its baseline (the addresses of this host, and  *)
(* verified judges or a liveness target), and a check never makes more       *)
(* attempts, nor records other types or levels, than there are.              *)
THEOREM CheckerTypeCorrect == Spec => []CheckerTypeOK
<1>1. ASSUME CheckInv PROVE CheckerTypeOK
  <2>1. CheckTyped /\ Baseline /\ query.retry.tries \in Nat /\ proxy.types \in KnownTypes
    BY <1>1, QueryFacts DEF CheckInv, CheckTyped, Proxy
  <2>2. ASSUME NEW p \in Protos, NEW i \in DOMAIN log[p]
        PROVE  log[p][i].kind \in ProxyErrors \cup {"Working", "Invalid"}
    <3>1. log[p] \in Seq(Result)
      BY <2>1 DEF CheckTyped
    <3>2. log[p][i] \in Result
      BY <3>1
    <3> QED BY <3>2 DEF Result
  <2> QED BY <2>1, <2>2, KnownTypesFacts DEF CheckTyped, Baseline, CheckerTypeOK
<1> QED BY <1>1, CheckIsSound, PTL

(* check_one retries exactly what the policy retries, up to its last         *)
(* attempt, and charges the proxy with exactly the attempts it made.         *)
THEOREM RetriesLawful == Spec => []RetriesAreLawful
<1>1. CheckInv => RetriesAreLawful
  BY DEF CheckInv, LogLawful, Charged, RetriesAreLawful
<1> QED BY <1>1, CheckIsSound, PTL

(* The verdict of check is the one the request asked for. *)
THEOREM VerdictIsAsAsked == Spec => []VerdictMatchesRequest
<1>1. CheckInv => VerdictMatchesRequest
  BY DEF CheckInv
<1> QED BY <1>1, CheckIsSound, PTL

(* No proxy a judge saw tamper gets past --require-trusted. *)
THEOREM OnlyTrustedEmitted == Spec => []EmittedIsTrusted
<1>1. ASSUME CheckInv PROVE EmittedIsTrusted
  <2> SUFFICES ASSUME Emitted, query.require.trusted, NEW a \in Made
               PROVE  log[a[1]][a[2]].trust = {}
    BY DEF EmittedIsTrusted
  <2>1. proxy.trust = {}
    BY DEF Emitted, CapsPass
  <2>2. PICK p \in Protos : a \in {p} \X DOMAIN log[p]
    BY DEF Made
  <2>3. a[1] = p /\ a[2] \in DOMAIN log[p]
    BY <2>2
  <2>4. log[p][a[2]].trust \subseteq proxy.trust
    BY <1>1, <2>3 DEF CheckInv, Noted
  <2> QED BY <2>1, <2>3, <2>4
<1> QED BY <1>1, CheckIsSound, PTL

=============================================================================
