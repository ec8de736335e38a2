--------------------------- MODULE ConnectorProofs ---------------------------
(***************************************************************************)
(* The rotating connector uses the pool as the pool is meant to be used,   *)
(* whatever the strategy, the proxies and the number of connections under  *)
(* way: its steps are steps of Pool, it always finds a protocol to dial    *)
(* with, and it gives back what it checked out; and a task that rotates    *)
(* alone leaves no proxy out.                                              *)
(***************************************************************************)
EXTENDS Connector, PoolProofs

Ask(c) == [scheme |-> scheme[c], key |-> AnyClient]

ConnectTyped ==
  /\ stage \in [Callers -> {"idle", "try", "get", "dial"}]
  /\ scheme \in [Callers -> Schemes]
  /\ tries \in [Callers -> 0..MaxTries]

(* Where a connect is in its loop tells where it is in the pool. *)
InStep(c) ==
  /\ stage[c] # "idle" => Ask(c) \in Requests
  /\ stage[c] \in {"idle", "try"} => pc[c] = "idle"
  /\ stage[c] = "get" => pc[c] \notin {"idle", "gate", "gateWait", "open"} /\ req[c] = Ask(c)
  /\ stage[c] = "dial" => pc[c] = "leased"

ConnectInv == Typed /\ LeaseServes /\ ConnectTyped /\ \A c \in Callers : InStep(c)

(* A proxy that get handed to a connect can be dialled for its scheme. *)
GotCanDial ==
  \A c \in Callers : stage[c] = "get" /\ pc[c] = "leased" =>
    /\ ConnectProto(lease[c].types, scheme[c]) # {}
    /\ "Https" \notin ConnectProto(lease[c].types, scheme[c])

LEMMA CanDial == ASSUME ConnectInv PROVE GotCanDial
<1> SUFFICES ASSUME NEW c \in Callers, stage[c] = "get", pc[c] = "leased"
             PROVE  /\ ConnectProto(lease[c].types, scheme[c]) # {}
                    /\ "Https" \notin ConnectProto(lease[c].types, scheme[c])
  BY DEF GotCanDial
<1>1. lease[c] \in Proxy /\ req[c].scheme \in SchemesOf(lease[c])
  BY DEF ConnectInv, Typed, HeldIsProxy, LeaseServes, Holding
<1>2. req[c].scheme = scheme[c]
  <2>1. req[c] = Ask(c)
    BY DEF ConnectInv, InStep
  <2> QED BY <2>1 DEF Ask
<1> QED BY <1>1, <1>2, EligibleCanTunnel

-----------------------------------------------------------------------------
(* What one connect does is one call on the pool, or none. *)

LEMMA ConnectStepOnPool ==
  ASSUME ConnectInv, NEW c \in Callers, Call(c) \/ ConnectStep(c) \/ Dropped(c)
  PROVE  \/ UNCHANGED vars
         \/ CallGet(c) \/ GetStep(c) \/ ReturnOk(c) \/ ReturnFailed(c) \/ GiveUp(c)
         \/ Abandon(c) /\ Dropped(c)
<1>1. CASE Call(c) \/ OutOfTries(c)
  BY <1>1 DEF Call, OutOfTries
<1>2. CASE TryNext(c)
  <2>1. Ask(c) \in Requests /\ BeginGet(c, Ask(c)) /\ c \notin Gates
    BY <1>2, ConnectorAssumption DEF TryNext, ConnectInv, InStep, Ask
  <2> QED BY <2>1 DEF CallGet
<1>3. CASE Got(c)
  <2>1. stage[c] = "get" /\ pc[c] = "leased"
    BY <1>3 DEF Got, Here
  <2> QED BY <1>3, <2>1, CanDial DEF Got, GotCanDial
<1>4. CASE Getting(c) \/ NotConnected(c) \/ DialOk(c) \/ DialFails(c) \/ Dropped(c)
  BY <1>4 DEF Getting, NotConnected, DialOk, DialFails, Dropped
<1> QED BY <1>1, <1>2, <1>3, <1>4 DEF ConnectStep

LEMMA PoolStepOnPool ==
  ASSUME PoolStep \/ AllConnected \/ UNCHANGED allVars
  PROVE  \/ Import \/ SourceEnds \/ Tick \/ UNCHANGED vars
         \/ \E t \in Callers \cup {Importer} : Notify(t)
  BY DEF PoolStep, Feeding, AllConnected, allVars

LEMMA ConnectStepIsPoolStep ==
  ASSUME ConnectInv, [ConnectNext]_allVars
  PROVE  [Next]_vars
<1>1. ASSUME NEW c \in Callers, Call(c) \/ ConnectStep(c) \/ Dropped(c) PROVE [Next]_vars
  BY <1>1, ConnectStepOnPool DEF Next, CallerStep
<1>2. ASSUME PoolStep \/ AllConnected \/ UNCHANGED allVars PROVE [Next]_vars
  BY <1>2, PoolStepOnPool DEF Next
<1> QED BY <1>1, <1>2 DEF ConnectNext

-----------------------------------------------------------------------------
LEMMA InitConnect == ASSUME ConnectInit PROVE ConnectInv
<1>1. Init /\ Typed
  BY InitTyped DEF ConnectInit
<1>2. LeaseServes /\ \A c \in Callers : pc[c] = "idle"
  BY <1>1 DEF Init, LeaseServes, Holding
<1>3. ConnectTyped
  <2>1. 0 \in 0..MaxTries
    BY ConnectorAssumption
  <2> QED BY <2>1 DEF ConnectInit, ConnectTyped, Schemes
<1>4. \A c \in Callers : InStep(c)
  BY <1>2 DEF ConnectInit, InStep
<1> QED BY <1>1, <1>2, <1>3, <1>4 DEF ConnectInv

(* A connect that is not at work stays where it is. *)
LEMMA OthersStay ==
  ASSUME NEW d, InStep(d), UNCHANGED <<stage[d], scheme[d], pc[d], req[d]>>
  PROVE  InStep(d)'
  BY DEF InStep, Ask

LEMMA ConnectKeepsTyped ==
  ASSUME ConnectInv, NEW c \in Callers, Call(c) \/ ConnectStep(c) \/ Dropped(c)
  PROVE  /\ ConnectTyped'
         /\ \A d \in Callers \ {c} : UNCHANGED <<stage[d], scheme[d], pc[d], req[d]>>
<1>0. /\ stage \in [Callers -> {"idle", "try", "get", "dial"}]
      /\ scheme \in [Callers -> Schemes] /\ tries \in [Callers -> 0..MaxTries]
      /\ MaxTries \in Nat
      /\ pc \in [Callers -> Places] /\ req \in [Callers -> Requests \cup {NoReq}]
  BY ConnectorAssumption DEF ConnectInv, ConnectTyped, Typed, TypeOK
<1>1. /\ stage' \in [Callers -> {"idle", "try", "get", "dial"}]
      /\ \A d \in Callers \ {c} : stage'[d] = stage[d]
  BY <1>0 DEF Call, ConnectStep, TryNext, OutOfTries, Getting, NotConnected, Got, DialOk,
              DialFails, Dropped, ToStage
<1>2. /\ scheme' \in [Callers -> Schemes]
      /\ \A d \in Callers \ {c} : scheme'[d] = scheme[d]
  <2>1. \A r \in Requests : r.scheme \in Schemes
    BY PoolAssumption
  <2> QED BY <1>0, <2>1 DEF Call, ConnectStep, TryNext, OutOfTries, Getting, NotConnected, Got,
                            DialOk, DialFails, Dropped
<1>3. tries' \in [Callers -> 0..MaxTries]
  <2>1. CASE Call(c)
    BY <1>0, <2>1 DEF Call
  <2>2. CASE TryNext(c)
    BY <1>0, <2>2 DEF TryNext
  <2> QED BY <1>0, <2>1, <2>2 DEF ConnectStep, OutOfTries, Getting, NotConnected, Got, DialOk,
                                  DialFails, Dropped
<1>4. \A d \in Callers \ {c} : pc'[d] = pc[d] /\ req'[d] = req[d]
  <2>1. CASE UNCHANGED vars
    BY <2>1 DEF vars, callVars
  <2>2. CASE CallGet(c) \/ GetStep(c)
    BY <1>0, <2>2 DEF CallGet, BeginGet, GetStep, Arm, Select, Take, Miss, Record,
        CheckExhausted, Wake, VerifyPassed, VerifyFailed, Goto
  <2>3. CASE ReturnOk(c) \/ ReturnFailed(c) \/ GiveUp(c) \/ Abandon(c)
    BY <1>0, <2>3 DEF ReturnOk, ReturnFailed, GiveUp, Abandon, Finish, Goto
  <2> QED BY <2>1, <2>2, <2>3, ConnectStepOnPool
<1> QED BY <1>1, <1>2, <1>3, <1>4 DEF ConnectTyped

LEMMA ConnectKeepsStep ==
  ASSUME ConnectInv, NEW c \in Callers, Call(c) \/ ConnectStep(c) \/ Dropped(c)
  PROVE  InStep(c)'
<1>0. /\ stage \in [Callers -> {"idle", "try", "get", "dial"}]
      /\ scheme \in [Callers -> Schemes] /\ InStep(c) /\ LeaseServes
      /\ pc \in [Callers -> Places] /\ req \in [Callers -> Requests \cup {NoReq}]
  BY DEF ConnectInv, ConnectTyped, Typed, TypeOK
<1>1. ASSUME Finish(c) PROVE pc'[c] = "idle"
  BY <1>0, <1>1 DEF Finish, Goto
<1>2. CASE Call(c)
  <2>1. PICK r \in Requests : scheme' = [scheme EXCEPT ![c] = r.scheme]
    BY <1>2 DEF Call
  <2>2. r \in [scheme : Schemes, key : Keys] /\ r.key = AnyClient
    BY PoolAssumption, ConnectorAssumption
  <2>3. scheme'[c] = r.scheme /\ r = [scheme |-> r.scheme, key |-> AnyClient]
    BY <1>0, <2>1, <2>2
  <2>4. Ask(c)' \in Requests
    BY <2>3 DEF Ask
  <2>5. stage'[c] = "try" /\ pc'[c] = "idle"
    BY <1>0, <1>2 DEF Call, ToStage, InStep, vars, callVars
  <2> QED BY <2>4, <2>5 DEF InStep
<1>3. CASE TryNext(c)
  <2>1. stage'[c] = "get" /\ pc'[c] = "arm" /\ req'[c] = Ask(c) /\ Ask(c)' = Ask(c)
        /\ Ask(c) \in Requests
    BY <1>0, <1>3 DEF TryNext, ToStage, BeginGet, Goto, Ask, InStep
  <2> QED BY <2>1 DEF InStep
<1>4. CASE OutOfTries(c)
  <2>1. stage'[c] = "idle" /\ pc'[c] = "idle"
    BY <1>0, <1>4 DEF OutOfTries, ToStage, InStep, vars, callVars
  <2> QED BY <2>1 DEF InStep
<1>5. CASE Getting(c)
  <2>1. /\ stage[c] = "get" /\ stage'[c] = "get" /\ Ask(c)' = Ask(c)
        /\ Ask(c) \in Requests /\ req[c] = Ask(c)
    BY <1>0, <1>5 DEF Getting, Ask, InStep
  <2>2. req'[c] = req[c] /\ pc'[c] \notin {"idle", "gate", "gateWait", "open"}
    BY <1>0, <1>5 DEF Getting, GetStep, Arm, Select, Take, Miss, Record, CheckExhausted, Wake,
        VerifyPassed, VerifyFailed, Goto, Chosen
  <2> QED BY <2>1, <2>2 DEF InStep
<1>6. CASE Got(c)
  <2>1. stage[c] = "get" /\ pc[c] = "leased"
    BY <1>6 DEF Got, Here
  <2>2. stage'[c] = "dial" /\ UNCHANGED vars /\ UNCHANGED scheme
    BY <1>0, <1>6, <2>1, CanDial DEF Got, GotCanDial, ToStage
  <2>3. pc'[c] = "leased" /\ Ask(c)' = Ask(c) /\ Ask(c) \in Requests
    BY <1>0, <2>1, <2>2 DEF vars, callVars, Ask, InStep
  <2> QED BY <2>2, <2>3 DEF InStep
<1>7. CASE DialFails(c)
  <2>1. stage'[c] = "try" /\ pc'[c] = "idle" /\ Ask(c)' = Ask(c) /\ Ask(c) \in Requests
    BY <1>0, <1>1, <1>7 DEF DialFails, ToStage, ReturnFailed, Ask, InStep
  <2> QED BY <2>1 DEF InStep
<1>8. CASE NotConnected(c) \/ DialOk(c) \/ Dropped(c)
  <2>1. stage'[c] = "idle" /\ pc'[c] = "idle"
    BY <1>0, <1>1, <1>8 DEF NotConnected, DialOk, Dropped, ToStage, GiveUp, ReturnOk, Abandon
  <2> QED BY <2>1 DEF InStep
<1> QED BY <1>2, <1>3, <1>4, <1>5, <1>6, <1>7, <1>8 DEF ConnectStep

LEMMA ConnectInvStep == ConnectInv /\ [ConnectNext]_allVars => ConnectInv'
<1> SUFFICES ASSUME ConnectInv, [ConnectNext]_allVars PROVE ConnectInv'
  OBVIOUS
<1>1. Typed' /\ LeaseServes'
  BY ConnectStepIsPoolStep, TypedStep, LeaseServesStep DEF ConnectInv
<1>2. ASSUME NEW c \in Callers, Call(c) \/ ConnectStep(c) \/ Dropped(c)
      PROVE  ConnectTyped' /\ \A d \in Callers : InStep(d)'
  <2>1. ConnectTyped' /\ InStep(c)'
    BY <1>2, ConnectKeepsTyped, ConnectKeepsStep
  <2>2. ASSUME NEW d \in Callers \ {c} PROVE InStep(d)'
    <3>1. UNCHANGED <<stage[d], scheme[d], pc[d], req[d]>>
      BY <1>2, ConnectKeepsTyped
    <3> QED BY <3>1, OthersStay DEF ConnectInv
  <2> QED BY <2>1, <2>2
<1>3. ASSUME PoolStep \/ AllConnected \/ UNCHANGED allVars
      PROVE  ConnectTyped' /\ \A d \in Callers : InStep(d)'
  <2>1. UNCHANGED <<stage, scheme, tries, pc, req>>
    BY <1>3 DEF PoolStep, Feeding, Import, SourceEnds, Notify, Tick, AllConnected, allVars, vars,
                connectVars, callVars
  <2> QED BY <2>1 DEF ConnectInv, ConnectTyped, InStep, Ask
<1> QED BY <1>1, <1>2, <1>3 DEF ConnectNext, ConnectInv

LEMMA ConnectIsSound == ConnectSpec => []ConnectInv
  BY InitConnect, ConnectInvStep, PTL DEF ConnectSpec

-----------------------------------------------------------------------------
(* Whatever connect does to the pool is an operation of the pool. *)
THEOREM ConnectorImplementsPool == ConnectSpec => Spec
<1>1. ConnectInit => Init
  BY DEF ConnectInit
<1>2. ConnectInv /\ [ConnectNext]_allVars => [Next]_vars
  BY ConnectStepIsPoolStep
<1> QED BY <1>1, <1>2, ConnectIsSound, PTL DEF ConnectSpec, Spec

(* So the pool under the connector keeps every invariant proved of it. *)
THEOREM ConnectorPoolIsSound == ConnectSpec => []PoolInv
  BY ConnectorImplementsPool, PoolIsSound, PTL

(* connect_proto finds a protocol for every proxy get hands to a connect,    *)
(* and never the one that terminates the caller's TLS: the put_ok of a proxy *)
(* that cannot be used is never reached.                                     *)
THEOREM EveryLeaseIsDialled == ConnectSpec => []GotCanDial
  BY ConnectIsSound, CanDial, PTL

(* connect gives its proxy back on every path: one leaves only by a counted  *)
(* eviction, or with the future that held it.                                *)
THEOREM ConnectorLosesNoProxy == ConnectSpec => LostOnlyWithFuture
<1> DEFINE Keeps == \/ InPool \cup InHands \subseteq InPool' \cup InHands'
                    \/ evictions' = evictions + 1
                    \/ \E c \in Callers : Dropped(c)
<1>1. ASSUME ConnectInv, [ConnectNext]_allVars PROVE Keeps
  <2>0. Typed
    BY <1>1 DEF ConnectInv
  <2>1. ASSUME NEW c \in Callers, Call(c) \/ ConnectStep(c) \/ Dropped(c) PROVE Keeps
    <3>1. UNCHANGED vars => KeepsAll
      BY <2>0, FeedKeepsAll
    <3> QED BY <1>1, <2>0, <2>1, <3>1, ConnectStepOnPool, CallerKeepsAll DEF KeepsAll
  <2>2. ASSUME PoolStep \/ AllConnected \/ UNCHANGED allVars PROVE Keeps
    BY <2>0, <2>2, PoolStepOnPool, FeedKeepsAll DEF KeepsAll
  <2> QED BY <1>1, <2>1, <2>2 DEF ConnectNext
<1>2. ConnectInv /\ [ConnectNext]_allVars => [Keeps]_allVars
  BY <1>1
<1> QED BY <1>2, ConnectIsSound, PTL DEF ConnectSpec, LostOnlyWithFuture

(***************************************************************************)
(* Rotation starves nobody.  swap_remove and push move two entries at each *)
(* turn, so the vector is not a queue; but in a row of turns its last      *)
(* entry is always the one dialled last, a turn exchanges that entry with  *)
(* the one under the cursor, and so each place holds what was dialled just *)
(* before the cursor last stood there (InRotation).                        *)
(***************************************************************************)

(* The entries of a vector that are ready at a time. *)
ReadyIn(v, now) == {i \in DOMAIN v : Ready(v[i], now)}

(* How many turns ago the cursor, modulo k, last stood at r. *)
Age(r, cursor, k) ==
  LET at == cursor % k
  IN  IF r < at THEN at - 1 - r ELSE at - 1 - r + k

(* A vector in a row of turns: its last entry is the one dialled last, and   *)
(* each other ready place holds the one dialled just before the cursor last  *)
(* stood at it, once it has.                                                 *)
InRotation(v, now, cursor, row) ==
  row # <<>> =>
    LET R == ReadyIn(v, now)
        age(i) == Age(Rank(R, i), cursor, Cardinality(R))
    IN  /\ Len(v) \in R
        /\ v[Len(v)].proxy.addr = row[Len(row)]
        /\ \A i \in R \ {Len(v)} :
             Len(row) > age(i) + 1 => v[i].proxy.addr = row[Len(row) - 1 - age(i)]

(* The cursor and its remainder move on together. *)
LEMMA OneRemainder ==
  ASSUME NEW k \in Nat, NEW a \in Int, NEW b \in Int,
         NEW r \in 0..(k - 1), NEW s \in 0..(k - 1), k * a + r = k * b + s
  PROVE  r = s
<1>1. k * a \in Int /\ k * b \in Int
  OBVIOUS
<1>2. CASE a = b
  BY <1>1, <1>2
<1>3. CASE a < b
  <2>1. k * a + k <= k * b
    BY <1>3, TimesGrows
  <2> QED BY <1>1, <2>1
<1>4. CASE b < a
  <2>1. k * b + k <= k * a
    BY <1>4, TimesGrows
  <2> QED BY <1>1, <2>1
<1> QED BY <1>2, <1>3, <1>4

LEMMA NextRemainder ==
  ASSUME NEW k \in Nat \ {0}, NEW c \in Nat
  PROVE  (c + 1) % k = IF c % k = k - 1 THEN 0 ELSE (c % k) + 1
<1> DEFINE q == c \div k
           r == c % k
           t == (c + 1) \div k
           s == (c + 1) % k
<1>1. q \in Int /\ r \in 0..(k - 1) /\ c = k * q + r
  OBVIOUS
<1>2. t \in Int /\ s \in 0..(k - 1) /\ c + 1 = k * t + s
  OBVIOUS
<1> HIDE DEF q, r, t, s
<1>3. k * q \in Int /\ k * t \in Int /\ k * (q + 1) = k * q + k
  BY <1>1, <1>2
<1>4. CASE r = k - 1
  <2>1. k * (q + 1) + 0 = k * t + s /\ q + 1 \in Int /\ 0 \in 0..(k - 1)
    BY <1>1, <1>2, <1>3, <1>4
  <2>2. s = 0
    BY <1>2, <2>1, OneRemainder
  <2> QED BY <1>4, <2>2 DEF r, s
<1>5. CASE r # k - 1
  <2>1. k * q + (r + 1) = k * t + s /\ r + 1 \in 0..(k - 1)
    BY <1>1, <1>2, <1>3, <1>5
  <2>2. s = r + 1
    BY <1>1, <1>2, <2>1, OneRemainder
  <2> QED BY <1>5, <2>2 DEF r, s
<1> QED BY <1>4, <1>5

(* At a turn the place under the cursor becomes new, every other one older. *)
LEMMA NextAge ==
  ASSUME NEW k \in Nat, NEW r \in 0..(k - 1), NEW cursor \in Nat
  PROVE  /\ Age(r, cursor, k) \in 0..(k - 1)
         /\ Age(r, cursor + 1, k) = IF r = cursor % k THEN 0 ELSE Age(r, cursor, k) + 1
<1> DEFINE at == cursor % k
           next == (cursor + 1) % k
<1>1. at \in 0..(k - 1)
  OBVIOUS
<1>2. next = IF at = k - 1 THEN 0 ELSE at + 1
  <2>1. k \in Nat \ {0}
    OBVIOUS
  <2> QED BY <2>1, NextRemainder
<1>3. Age(r, cursor, k) = IF r < at THEN at - 1 - r ELSE at - 1 - r + k
  BY DEF Age
<1>4. Age(r, cursor + 1, k) = IF r < next THEN next - 1 - r ELSE next - 1 - r + k
  BY DEF Age
<1> HIDE DEF at, next
<1>5. /\ Age(r, cursor, k) \in 0..(k - 1)
      /\ Age(r, cursor + 1, k) = IF r = at THEN 0 ELSE Age(r, cursor, k) + 1
  BY <1>1, <1>2, <1>3, <1>4
<1> QED BY <1>5 DEF at

LEMMA ReadyInFacts ==
  ASSUME NEW v \in Seq(Pooled), NEW now \in Nat
  PROVE  LET R == ReadyIn(v, now)
         IN  /\ R \subseteq 1..Len(v) /\ R \in SUBSET Nat /\ IsFiniteSet(R)
             /\ Cardinality(R) \in Nat
             /\ \A i \in R : Rank(R, i) \in 0..(Cardinality(R) - 1)
<1> DEFINE R == ReadyIn(v, now)
<1>1. Len(v) \in Nat /\ R \subseteq 1..Len(v)
  BY DEF ReadyIn
<1>2. IsFiniteSet(1..Len(v))
  BY <1>1, FS_Interval
<1> HIDE DEF R
<1>3. R \in SUBSET Nat /\ IsFiniteSet(R)
  <2>1. R \in SUBSET Nat
    BY <1>1
  <2> QED BY <1>1, <1>2, <2>1, FS_Subset
<1>4. Cardinality(R) \in Nat /\ \A i \in R : Rank(R, i) \in 0..(Cardinality(R) - 1)
  BY <1>3, RankFacts
<1> QED BY <1>1, <1>3, <1>4 DEF R

(* One dial is a row. *)
LEMMA RowStarts ==
  ASSUME NEW v \in Seq(Pooled), NEW p \in Proxy, NEW now \in Nat, NEW cursor \in Nat
  PROVE  InRotation(Append(v, Fresh(p)), now, cursor, Append(<<>>, p.addr))
<1> DEFINE w == Append(v, Fresh(p))
           R == ReadyIn(w, now)
           row == Append(<<>>, p.addr)
<1>1. w \in Seq(Pooled) /\ Len(w) \in DOMAIN w /\ w[Len(w)] = Fresh(p)
  BY DEF Fresh, Pooled
<1>2. Fresh(p).proxy = p /\ Fresh(p).until = 0
  BY DEF Fresh
<1>3. Len(w) \in R
  BY <1>1, <1>2 DEF ReadyIn, Ready
<1>4. Len(row) = 1 /\ row[Len(row)] = p.addr
  OBVIOUS
<1> HIDE DEF w, row
<1>5. \A i \in R : Age(Rank(R, i), cursor, Cardinality(R)) \in Nat
  <2>1. Cardinality(R) \in Nat /\ \A i \in R : Rank(R, i) \in 0..(Cardinality(R) - 1)
    BY <1>1, ReadyInFacts
  <2> HIDE DEF R
  <2>2. \A i \in R : Age(Rank(R, i), cursor, Cardinality(R)) \in 0..(Cardinality(R) - 1)
    BY <2>1, NextAge
  <2> QED BY <2>1, <2>2
<1> HIDE DEF R
<1>6. InRotation(w, now, cursor, row)
  BY <1>1, <1>2, <1>3, <1>4, <1>5 DEF InRotation, R
<1> QED BY <1>6 DEF w, row

(* Health counters are no part of it. *)
LEMMA RotationBlind ==
  ASSUME NEW v \in Seq(Pooled), NEW w \in Seq(Pooled), NEW now, NEW cursor, NEW row,
         InRotation(v, now, cursor, row), Len(v) = Len(w),
         \A i \in DOMAIN v : v[i].until = w[i].until /\ v[i].proxy.addr = w[i].proxy.addr
  PROVE  InRotation(w, now, cursor, row)
<1>1. DOMAIN v = DOMAIN w
  OBVIOUS
<1>2. ReadyIn(v, now) = ReadyIn(w, now) /\ ReadyIn(v, now) \subseteq DOMAIN v
  BY <1>1 DEF ReadyIn, Ready
<1> QED BY <1>1, <1>2 DEF InRotation

(* A turn: swap_remove of the entry under the cursor and the push of its     *)
(* proxy keep the row going.                                                 *)
LEMMA RowGoesOn ==
  ASSUME NEW v \in Seq(Pooled), NEW now \in Nat, NEW cursor \in Nat,
         NEW row \in Seq(Addrs), row # <<>>, InRotation(v, now, cursor, row),
         NEW i \in Nth(ReadyIn(v, now), cursor)
  PROVE  InRotation(Append(SwapRemove(v, i), Fresh(v[i].proxy)), now, cursor + 1,
                    Append(row, v[i].proxy.addr))
<1> DEFINE R == ReadyIn(v, now)
           n == Len(v)
           k == Cardinality(R)
           m == Len(row)
           p == v[i].proxy
           w == Append(SwapRemove(v, i), Fresh(p))
           next == Append(row, p.addr)
           age(j) == Age(Rank(R, j), cursor, k)
           later(j) == Age(Rank(R, j), cursor + 1, k)
<1>1. /\ R \subseteq 1..n /\ R \in SUBSET Nat /\ IsFiniteSet(R) /\ k \in Nat
      /\ \A j \in R : Rank(R, j) \in 0..(k - 1)
  BY ReadyInFacts
<1>2. i \in R /\ Rank(R, i) = cursor % k /\ \A j \in R : Rank(R, j) = cursor % k => j = i
  <2>1. i \in R /\ Rank(R, i) = cursor % k
    BY DEF Nth, Rank
  <2> QED BY <1>1, <2>1, RankFacts
<1>3. /\ n \in R /\ v[n].proxy.addr = row[m]
      /\ \A j \in R \ {n} : m > age(j) + 1 => v[j].proxy.addr = row[m - 1 - age(j)]
  BY DEF InRotation
<1>4. n \in Nat /\ i \in 1..n /\ n \in 1..n /\ DOMAIN v = 1..n /\ v[i] \in Pooled /\ p \in Proxy
  <2>1. n \in Nat /\ DOMAIN v = 1..n /\ i \in 1..n /\ n \in 1..n
    <3> HIDE DEF R
    <3> QED BY <1>1, <1>2, <1>3
  <2>2. v[i] \in Pooled
    BY <2>1
  <2> QED BY <2>1, <2>2 DEF Pooled
<1>5. m \in Nat /\ m # 0 /\ Len(next) = m + 1 /\ next[m + 1] = p.addr
      /\ \A j \in 1..m : next[j] = row[j]
  OBVIOUS
<1>6. /\ Len(w) = n /\ DOMAIN w = 1..n /\ w[n] = Fresh(p)
      /\ \A j \in 1..(n - 1) : w[j] = IF j = i THEN v[n] ELSE v[j]
      /\ w \in Seq(Pooled)
  <2> DEFINE s == SwapRemove(v, i)
  <2>1. /\ s \in Seq(Pooled) /\ DOMAIN s = 1..(n - 1)
        /\ \A j \in 1..(n - 1) : s[j] = v[IF j = i THEN n ELSE j]
    BY <1>4, SwapRemoveFacts
  <2>2. Fresh(p) \in Pooled
    BY <1>4 DEF Fresh, Pooled
  <2> HIDE DEF s
  <2>3. Len(s) = n - 1
    <3> HIDE DEF n
    <3> QED BY <1>4, <2>1
  <2> HIDE DEF n
  <2>4. w = Append(s, Fresh(p))
    BY DEF s
  <2>5. /\ Append(s, Fresh(p)) \in Seq(Pooled) /\ Len(Append(s, Fresh(p))) = n
        /\ DOMAIN Append(s, Fresh(p)) = 1..n
        /\ Append(s, Fresh(p))[n] = Fresh(p)
        /\ \A j \in 1..(n - 1) : Append(s, Fresh(p))[j] = s[j]
    <3> HIDE DEF p
    <3> QED BY <1>4, <2>1, <2>2, <2>3
  <2> QED BY <2>1, <2>4, <2>5
<1>7. Fresh(p).proxy = p /\ Ready(Fresh(p), now)
  BY DEF Fresh, Ready
<1>8. ReadyIn(w, now) = R
  <2>1. \A j \in 1..n : j \in R <=> Ready(v[j], now)
    BY <1>4 DEF ReadyIn
  <2> HIDE DEF R, n, w, p
  <2>2. \A j \in 1..n : Ready(w[j], now) <=> j \in R
    <3> TAKE j \in 1..n
    <3>1. CASE j = n
      BY <1>3, <1>6, <1>7, <3>1
    <3>2. CASE j # n
      <4>1. j \in 1..(n - 1)
        BY <1>4, <3>2
      <4> QED BY <1>2, <1>3, <1>4, <1>6, <2>1, <4>1
    <3> QED BY <3>1, <3>2
  <2> QED BY <1>1, <1>6, <2>2 DEF ReadyIn
<1>9. \A j \in R : /\ age(j) \in 0..(k - 1)
                   /\ later(j) = IF j = i THEN 0 ELSE age(j) + 1
  <2>1. \A j \in R : /\ age(j) \in 0..(k - 1)
                     /\ later(j) = IF Rank(R, j) = cursor % k THEN 0 ELSE age(j) + 1
    <3> HIDE DEF R, k
    <3> QED BY <1>1, NextAge
  <2> HIDE DEF R, k, age, later
  <2> QED BY <1>2, <2>1
<1> HIDE DEF R, n, k, m, p, w, next
<1>10. ASSUME NEW j \in R \ {n}, m + 1 > later(j) + 1
       PROVE  w[j].proxy.addr = next[(m + 1) - 1 - later(j)]
  <2>0. j \in 1..(n - 1)
    BY <1>1, <1>4
  <2>1. CASE j = i
    <3>1. later(j) = 0
      BY <1>9, <2>1
    <3>2. (m + 1) - 1 - later(j) = m
      BY <1>5, <3>1
    <3>3. w[j] = v[n]
      BY <1>6, <2>0, <2>1
    <3>4. m \in 1..m
      BY <1>5
    <3> QED BY <1>3, <1>5, <3>2, <3>3, <3>4
  <2>2. CASE j # i
    <3>1. later(j) = age(j) + 1 /\ age(j) \in 0..(k - 1)
      BY <1>9, <2>2
    <3> HIDE DEF age, later
    <3>2. m > age(j) + 1 /\ (m + 1) - 1 - later(j) = m - 1 - age(j) /\ m - 1 - age(j) \in 1..m
      BY <1>1, <1>5, <1>10, <3>1
    <3>3. w[j] = v[j]
      BY <1>6, <2>0, <2>2
    <3> QED BY <1>3, <1>5, <3>2, <3>3
  <2> QED BY <2>1, <2>2
<1>11. InRotation(w, now, cursor + 1, next)
  BY <1>3, <1>5, <1>6, <1>7, <1>8, <1>10 DEF InRotation, k
<1> QED BY <1>11 DEF w, next, p

(* The row as it will be once the proxy in hand is back. *)
RotationInv ==
  /\ turns \in Seq(Addrs)
  /\ \A c \in Callers :
       /\ pc[c] \notin Holding => InRotation(state, clock, round_robin, turns)
       /\ pc[c] \in {"record", "recordLast"} =>
            InRotation(Append(state, Fresh(lease[c])), clock, round_robin + 1,
                       Append(turns, lease[c].addr))
       /\ pc[c] \in {"verify", "leased"} =>
            InRotation(Append(state, Fresh(lease[c])), clock, round_robin,
                       Append(turns, lease[c].addr))
       /\ pc[c] \in {"select", "last"} =>
            ctx[c].cursor = round_robin /\ (turns # <<>> => ctx[c].now = clock)

(* Every entry serves the request, so the tier is what is ready. *)
LEMMA TierIsReady ==
  ASSUME Rotating, Typed, AllDescend, NEW r \in Requests, NEW now,
         ReadyIn(state, now) # {}
  PROVE  Tier(state, r.scheme, now) = ReadyIn(state, now)
<1>1. ASSUME NEW i \in DOMAIN state PROVE r.scheme \in SchemesOf(state[i].proxy)
  <2>1. PICK p \in Feed \cup Extra : After(p, state[i].proxy)
    BY DEF AllDescend, Descends
  <2>2. r.scheme \in SchemesOf(p) /\ state[i].proxy.types = p.types
    BY <2>1 DEF Rotating, After
  <2> QED BY <2>2 DEF SchemesOf
<1>2. Eligible(state, r.scheme) = DOMAIN state
  BY <1>1 DEF Eligible
<1> QED BY <1>2 DEF Tier, ReadyIn

(* Distinct entries are at distinct addresses. *)
LEMMA ReadyAddrsCount ==
  ASSUME Rotating, Typed, AllDescend, ExclusiveLease
  PROVE  Cardinality(ReadyAddrs) = Cardinality(ReadyIn(state, clock))
<1> DEFINE R == ReadyIn(state, clock)
           f == [i \in R |-> state[i].proxy.addr]
<1>0. state \in Seq(Pooled) /\ clock \in Nat
  BY DEF Typed, TypeOK
<1>1. IsFiniteSet(R)
  BY <1>0, ReadyInFacts
<1>2. ReadyAddrs = {state[i].proxy.addr : i \in R}
  BY DEF ReadyAddrs, ReadyIn
<1>3. ASSUME NEW i \in R, NEW j \in R, state[i].proxy.addr = state[j].proxy.addr PROVE i = j
  <2>0. i \in DOMAIN state /\ j \in DOMAIN state
    BY DEF ReadyIn
  <2>1. PICK p \in Feed \cup Extra : After(p, state[i].proxy)
    BY <2>0 DEF AllDescend, Descends
  <2>2. PICK q \in Feed \cup Extra : After(q, state[j].proxy)
    BY <2>0 DEF AllDescend, Descends
  <2>3. p.addr = q.addr
    BY <1>3, <2>1, <2>2 DEF After
  <2>4. p = q
    BY <2>3 DEF Rotating
  <2>5. state[i].proxy.id = state[j].proxy.id
    BY <2>1, <2>2, <2>4 DEF After
  <2> QED BY <2>0, <2>5 DEF ExclusiveLease
<1> HIDE DEF R
<1>4. f \in Surjection(R, ReadyAddrs)
  BY <1>2 DEF Surjection
<1>5. f \in Injection(R, ReadyAddrs)
  BY <1>2, <1>3 DEF Injection, IsInjective
<1> HIDE DEF f
<1> QED BY <1>1, <1>4, <1>5, FS_Surjection DEF R

(* The select of a connect takes the turn the cursor names. *)
LEMMA SelectTakesTurn ==
  ASSUME Rotating, Typed, AllDescend, RotationInv, NEW c \in Callers, Select(c)
  PROVE  /\ pc'[c] \in {"record", "recordLast"} /\ lease'[c] \in Proxy
         /\ InRotation(Append(state', Fresh(lease'[c])), clock, round_robin + 1,
                       Append(turns, lease'[c].addr))
<1>0. /\ state \in Seq(Pooled) /\ clock \in Nat /\ round_robin \in Nat
      /\ pc \in [Callers -> Places] /\ lease \in [Callers -> Proxy \cup {NoProxy}]
      /\ round_robin + 1 \in Nat
  BY DEF Typed, TypeOK
<1>1. pc[c] \in {"select", "last"} /\ pc[c] \notin Holding
  BY DEF Select, Here, Holding
<1>2. PICK i \in BestFor(state, req[c].scheme, ctx[c]) : Take(c, i)
  BY DEF Select
<1>3. i \in DOMAIN state
  BY <1>2, BestForInPool
<1>4. /\ state' = SwapRemove(state, i) /\ lease'[c] = state[i].proxy
      /\ pc'[c] \in {"record", "recordLast"}
  BY <1>0, <1>2 DEF Take, Goto, Recording, Rotating
<1>5. state[i].proxy \in Proxy
  <2>1. state[i] \in Pooled
    BY <1>0, <1>3
  <2> QED BY <2>1 DEF Pooled
<1>6. SwapRemove(state, i) \in Seq(Pooled)
  BY <1>0, <1>3, SwapRemoveFacts
<1>7. CASE turns = <<>>
  BY <1>0, <1>4, <1>5, <1>6, <1>7, RowStarts
<1>8. CASE turns # <<>>
  <2>1. InRotation(state, clock, round_robin, turns) /\ turns \in Seq(Addrs)
        /\ ctx[c].cursor = round_robin /\ ctx[c].now = clock
    BY <1>1, <1>8 DEF RotationInv
  <2>2. ReadyIn(state, clock) # {}
    BY <1>8, <2>1 DEF InRotation
  <2>3. req[c] \in Requests
    BY <1>1 DEF Typed, AsksForRequest
  <2>4. Tier(state, req[c].scheme, ctx[c].now) = ReadyIn(state, clock)
    BY <2>1, <2>2, <2>3, TierIsReady
  <2>5. BestFor(state, req[c].scheme, ctx[c]) = Nth(ReadyIn(state, clock), round_robin)
    BY <2>1, <2>4 DEF BestFor, ConnectBiased, Rotating
  <2>6. i \in Nth(ReadyIn(state, clock), round_robin)
    BY <1>2, <2>5
  <2>7. InRotation(Append(SwapRemove(state, i), Fresh(state[i].proxy)), clock, round_robin + 1,
                   Append(turns, state[i].proxy.addr))
    BY <1>0, <1>8, <2>1, <2>6, RowGoesOn
  <2> QED BY <1>4, <1>5, <2>7
<1> QED BY <1>7, <1>8

LEMMA InitRotation == ConnectInit => RotationInv
<1> SUFFICES ASSUME ConnectInit PROVE RotationInv
  OBVIOUS
<1>1. turns = <<>> /\ \A c \in Callers : pc[c] = "idle"
  BY DEF ConnectInit, Init
<1> QED BY <1>1 DEF RotationInv, InRotation, Holding

(* A broken row leaves the proxy in hand as the first turn of the next. *)
LEMMA RowBreaks ==
  ASSUME Typed', RotationInv, turns' = <<>>,
         \A c \in Callers : pc'[c] \in {"select", "last"} => ctx'[c].cursor = round_robin'
  PROVE  RotationInv'
<1>1. /\ state' \in Seq(Pooled) /\ clock' \in Nat /\ round_robin' \in Nat
      /\ round_robin' + 1 \in Nat
  <2>1. state' \in Seq(Pooled) /\ clock' \in Nat /\ round_robin' \in Nat
    BY DEF Typed, TypeOK
  <2>2. \A x \in Nat : x + 1 \in Nat
    OBVIOUS
  <2> QED BY <2>1, <2>2
<1>2. InRotation(state', clock', round_robin', turns')
  BY DEF InRotation
<1>3. ASSUME NEW c \in Callers, pc'[c] \in Holding
      PROVE  /\ InRotation(Append(state', Fresh(lease'[c])), clock', round_robin' + 1,
                           Append(turns', lease'[c].addr))
             /\ InRotation(Append(state', Fresh(lease'[c])), clock', round_robin',
                           Append(turns', lease'[c].addr))
  <2>1. lease'[c] \in Proxy
    BY <1>3 DEF Typed, HeldIsProxy
  <2> QED BY <1>1, <2>1, RowStarts
<1> QED BY <1>2, <1>3 DEF RotationInv, Holding

(* The proxy dialled comes back with one more success to its name. *)
LEMMA DialEndsTurn ==
  ASSUME Typed, RotationInv, NEW c \in Callers, DialOk(c), turns' # <<>>
  PROVE  turns' \in Seq(Addrs) /\ InRotation(state', clock, round_robin, turns')
<1>0. /\ state \in Seq(Pooled) /\ evictions \in Nat /\ pc[c] = "leased" /\ lease[c] \in Proxy
      /\ turns \in Seq(Addrs)
  BY DEF Typed, TypeOK, HeldIsProxy, Holding, DialOk, ReturnOk, Here, RotationInv
<1>1. lease[c].addr \in Addrs
  BY <1>0 DEF Proxy
<1> DEFINE e == [proxy |-> RecordOk(lease[c]), until |-> 0]
<1>2. turns' = Append(turns, lease[c].addr) /\ state' = Append(state, e)
  BY <1>0 DEF DialOk, ReturnOk, PutOk, PutInner
<1>3. InRotation(Append(state, Fresh(lease[c])), clock, round_robin, Append(turns, lease[c].addr))
  BY <1>0 DEF RotationInv
<1>4. /\ e \in Pooled /\ Fresh(lease[c]) \in Pooled
      /\ e.until = Fresh(lease[c]).until /\ e.proxy.addr = Fresh(lease[c]).proxy.addr
  BY <1>0, RecordFacts DEF Fresh, Pooled
<1> HIDE DEF e
<1>5. InRotation(Append(state, e), clock, round_robin, Append(turns, lease[c].addr))
  <2> DEFINE v == Append(state, Fresh(lease[c]))
             w == Append(state, e)
  <2>1. /\ v \in Seq(Pooled) /\ w \in Seq(Pooled) /\ Len(v) = Len(w)
        /\ DOMAIN v = 1..(Len(state) + 1)
        /\ \A i \in 1..Len(state) : v[i] = state[i] /\ w[i] = state[i]
        /\ v[Len(state) + 1] = Fresh(lease[c]) /\ w[Len(state) + 1] = e
    BY <1>0, <1>4
  <2> HIDE DEF v, w
  <2>2. \A i \in DOMAIN v : v[i].until = w[i].until /\ v[i].proxy.addr = w[i].proxy.addr
    <3> TAKE i \in DOMAIN v
    <3>1. i \in 1..Len(state) \/ i = Len(state) + 1
      BY <1>0, <2>1
    <3> QED BY <1>4, <2>1, <3>1
  <2>3. InRotation(v, clock, round_robin, Append(turns, lease[c].addr))
    BY <1>3 DEF v
  <2>4. InRotation(w, clock, round_robin, Append(turns, lease[c].addr))
    BY <2>1, <2>2, <2>3, RotationBlind
  <2> QED BY <2>4 DEF w
<1> QED BY <1>0, <1>1, <1>2, <1>5

(* Every step of a connect and of the tasks around it keeps the row's order. *)
LEMMA RotationStep ==
  ASSUME Rotating, ConnectInv, AllDescend, RotationInv, [ConnectNext]_allVars
  PROVE  RotationInv'
<1>0. /\ Typed /\ Typed' /\ ConnectInv'
      /\ pc \in [Callers -> Places]
      /\ ctx \in [Callers -> [sticky : Addrs \cup {NoPin}, cursor : Nat, now : Nat]]
      /\ lease \in [Callers -> Proxy \cup {NoProxy}]
      /\ failed \in [Callers -> Nat]
  BY ConnectInvStep DEF ConnectInv, Typed, TypeOK
<1>1. PICK c : Callers = {c}
  BY DEF Rotating
<1> USE DEF poolVars, feedVars, callVars, vars
<1>2. ASSUME UNCHANGED <<state, clock, round_robin, turns, lease>>,
             pc[c] \notin Holding, pc'[c] \notin Holding,
             pc'[c] \in {"select", "last"} =>
               ctx'[c].cursor = round_robin /\ (turns # <<>> => ctx'[c].now = clock)
      PROVE  RotationInv'
  BY <1>1, <1>2 DEF RotationInv, Holding
<1>3. ASSUME UNCHANGED <<state, clock, round_robin, turns, lease, pc, ctx>> PROVE RotationInv'
  BY <1>3 DEF RotationInv
<1>4. ASSUME turns' = <<>>, pc'[c] \in {"select", "last"} => ctx'[c].cursor = round_robin'
      PROVE  RotationInv'
  BY <1>0, <1>1, <1>4, RowBreaks
<1>5. CASE Call(c) \/ OutOfTries(c)
  BY <1>3, <1>5 DEF Call, OutOfTries
<1>6. CASE TryNext(c)
  <2>1. pc[c] = "idle" /\ pc'[c] = "arm" /\ UNCHANGED <<state, clock, round_robin, turns, lease>>
    BY <1>0, <1>1, <1>6 DEF TryNext, BeginGet, Here, Goto
  <2> QED BY <1>2, <2>1 DEF Holding
<1>7. CASE Getting(c)
  <2>0. GetStep(c) /\ turns' = IF failed'[c] > failed[c] THEN <<>> ELSE turns
    BY <1>7 DEF Getting
  <2>1. failed' = failed => turns' = turns
    BY <1>0, <1>1, <2>0
  <2>2. CASE Arm(c) \/ CheckExhausted(c)
    <3>1. /\ UNCHANGED <<state, clock, round_robin, turns, lease>>
          /\ pc[c] \notin Holding /\ pc'[c] \notin Holding
      BY <1>0, <1>1, <2>1, <2>2 DEF Arm, CheckExhausted, Here, Goto, Holding
    <3>2. pc'[c] \in {"select", "last"} => ctx'[c] = CtxNow(c)
      BY <1>0, <1>1, <2>2 DEF Arm, CheckExhausted, Goto
    <3>3. CtxNow(c).cursor = round_robin /\ CtxNow(c).now = clock
      BY DEF CtxNow
    <3> QED BY <1>2, <3>1, <3>2, <3>3
  <2>3. CASE Miss(c) \/ Wake(c)
    <3>1. /\ UNCHANGED <<state, clock, round_robin, turns, lease>>
          /\ pc[c] \notin Holding /\ pc'[c] \in {"missed", "none", "arm"}
      BY <1>0, <1>1, <2>1, <2>3 DEF Miss, Wake, Here, Goto, Holding
    <3> QED BY <1>2, <3>1 DEF Holding
  <2>4. CASE Select(c)
    <3>1. /\ pc'[c] \in {"record", "recordLast"}
          /\ InRotation(Append(state', Fresh(lease'[c])), clock, round_robin + 1,
                        Append(turns, lease'[c].addr))
      BY <1>0, <1>1, <2>4, SelectTakesTurn
    <3>2. UNCHANGED <<clock, round_robin, turns>>
      BY <2>1, <2>4 DEF Select
    <3> QED BY <1>1, <3>1, <3>2 DEF RotationInv, Holding
  <2>5. CASE Record(c)
    <3>1. /\ pc[c] \in {"record", "recordLast"} /\ pc'[c] \in {"verify", "leased"}
          /\ round_robin' = round_robin + 1
          /\ UNCHANGED <<state, clock, turns, lease>>
      BY <1>0, <1>1, <2>1, <2>5 DEF Record, Here, Goto, Chosen, Rotating
    <3> QED BY <1>1, <3>1 DEF RotationInv, Holding
  <2>6. CASE VerifyPassed(c)
    <3>1. /\ pc[c] = "verify" /\ pc'[c] = "leased"
          /\ UNCHANGED <<state, clock, turns, lease, round_robin>>
      BY <1>0, <1>1, <2>1, <2>6 DEF VerifyPassed, Here, Goto
    <3> QED BY <1>1, <3>1 DEF RotationInv, Holding
  <2>7. CASE VerifyFailed(c)
    <3>1. failed'[c] = failed[c] + 1 /\ pc'[c] \in {"none", "arm"}
      BY <1>0, <1>1, <2>7 DEF VerifyFailed, Goto
    <3>2. turns' = <<>>
      BY <1>0, <1>1, <2>0, <3>1
    <3> QED BY <1>4, <3>1, <3>2
  <2> QED BY <2>0, <2>2, <2>3, <2>4, <2>5, <2>6, <2>7 DEF GetStep
<1>8. CASE Got(c)
  <2>1. stage[c] = "get" /\ pc[c] = "leased"
    BY <1>8 DEF Got, Here
  <2>2. UNCHANGED <<vars, turns>>
    BY <1>1, <1>8, <2>1, CanDial DEF Got, GotCanDial
  <2> QED BY <1>3, <2>2
<1>9. CASE NotConnected(c)
  <2>1. /\ UNCHANGED <<state, clock, round_robin, turns>> /\ pc[c] = "none" /\ pc'[c] = "idle"
    BY <1>0, <1>1, <1>9 DEF NotConnected, GiveUp, Here, Finish, Goto
  <2> QED BY <1>1, <2>1 DEF RotationInv, Holding
<1>10. CASE DialFails(c) \/ Dropped(c)
  <2>1. turns' = <<>> /\ pc'[c] = "idle"
    BY <1>0, <1>1, <1>10 DEF DialFails, Dropped, ReturnFailed, Abandon, Finish, Goto
  <2> QED BY <1>4, <2>1
<1>11. CASE DialOk(c)
  <2>1. UNCHANGED <<clock, round_robin>> /\ pc'[c] = "idle"
    BY <1>0, <1>1, <1>11 DEF DialOk, ReturnOk, Finish, Goto
  <2>2. CASE turns' = <<>>
    BY <1>4, <2>1, <2>2
  <2>3. CASE turns' # <<>>
    <3>1. turns' \in Seq(Addrs) /\ InRotation(state', clock, round_robin, turns')
      BY <1>0, <1>1, <1>11, <2>3, DialEndsTurn
    <3> QED BY <1>1, <2>1, <3>1 DEF RotationInv, Holding
  <2> QED BY <2>2, <2>3
<1>12. CASE PoolStep
  <2>1. CASE Feeding /\ Import
    <3>1. turns' = <<>> \/ (UNCHANGED turns /\ SourceEnds)
      BY <2>1 DEF Feeding
    <3>2. CASE turns' = <<>>
      <4>1. UNCHANGED <<pc, ctx, round_robin>>
        BY <2>1 DEF Import
      <4> QED BY <1>1, <1>4, <3>2, <4>1 DEF RotationInv
    <3>3. CASE UNCHANGED turns /\ SourceEnds
      BY <1>3, <3>3 DEF SourceEnds
    <3> QED BY <3>1, <3>2, <3>3
  <2>2. CASE Feeding /\ ~Import
    BY <1>3, <2>2 DEF Feeding, SourceEnds
  <2>3. ASSUME NEW t \in Callers \cup {Importer}, Notify(t), UNCHANGED connectVars
        PROVE  RotationInv'
    BY <1>3, <2>3 DEF Notify, connectVars
  <2>4. CASE Tick /\ turns' = <<>>
    <3>1. UNCHANGED <<pc, ctx, round_robin>>
      BY <2>4 DEF Tick
    <3> QED BY <1>1, <1>4, <2>4, <3>1 DEF RotationInv
  <2> QED BY <1>12, <2>1, <2>2, <2>3, <2>4 DEF PoolStep
<1>13. CASE AllConnected \/ UNCHANGED allVars
  BY <1>3, <1>13 DEF AllConnected, allVars, connectVars
<1> QED BY <1>1, <1>5, <1>6, <1>7, <1>8, <1>9, <1>10, <1>11, <1>12, <1>13
        DEF ConnectNext, ConnectStep

(* After one turn more than there are ready proxies, each had one. *)
LEMMA RotationVisitsAll ==
  ASSUME Rotating, Typed, AllDescend, ExclusiveLease, RotationInv
  PROVE  NobodyStarves
<1> DEFINE n == Cardinality(ReadyAddrs)
           last == (Len(turns) - n)..Len(turns)
           R == ReadyIn(state, clock)
           k == Cardinality(R)
           m == Len(turns)
           age(i) == Age(Rank(R, i), round_robin, k)
<1> SUFFICES ASSUME m > n, \A c \in Callers : pc[c] = "idle", NEW a \in ReadyAddrs
             PROVE  a \in {turns[l] : l \in last}
  BY DEF NobodyStarves
<1>0. state \in Seq(Pooled) /\ clock \in Nat /\ round_robin \in Nat /\ turns \in Seq(Addrs)
      /\ m \in Nat
  BY DEF Typed, TypeOK, RotationInv
<1>1. n = k
  BY ReadyAddrsCount
<1>2. k \in Nat /\ \A i \in R : Rank(R, i) \in 0..(k - 1)
  BY <1>0, ReadyInFacts
<1>3. InRotation(state, clock, round_robin, turns)
  <2>1. PICK c : c \in Callers
    BY DEF Rotating
  <2>2. pc[c] \notin Holding
    BY <2>1 DEF Holding
  <2> QED BY <2>1, <2>2 DEF RotationInv
<1>4. turns # <<>>
  BY <1>0, <1>1, <1>2
<1>5. /\ state[Len(state)].proxy.addr = turns[m]
      /\ \A i \in R \ {Len(state)} : m > age(i) + 1 => state[i].proxy.addr = turns[m - 1 - age(i)]
  BY <1>3, <1>4 DEF InRotation
<1>6. PICK i \in R : a = state[i].proxy.addr
  BY DEF ReadyAddrs, ReadyIn
<1>7. age(i) \in 0..(k - 1)
  <2> HIDE DEF R, k
  <2> QED BY <1>0, <1>2, NextAge
<1> HIDE DEF n, R, k, m, age
<1>8. last = (m - k)..m
  BY <1>1 DEF m, n
<1> HIDE DEF last
<1>9. CASE i = Len(state)
  <2>1. m \in last
    BY <1>0, <1>2, <1>8
  <2> QED BY <1>5, <1>6, <1>9, <2>1
<1>10. CASE i # Len(state)
  <2>1. m > age(i) + 1 /\ m - 1 - age(i) \in last
    BY <1>0, <1>1, <1>2, <1>7, <1>8
  <2>2. a = turns[m - 1 - age(i)]
    BY <1>5, <1>6, <1>10, <2>1
  <2> QED BY <2>1, <2>2
<1> QED BY <1>9, <1>10

(* Round robin, one connect at a time, over proxies that all serve its       *)
(* requests: n + 1 successful dials in a row over n ready proxies have used  *)
(* every one of them, whatever n is and wherever the cursor stood, although  *)
(* swap_remove and push reorder the vector at every turn.                    *)
THEOREM RotationStarvesNobody ==
  ASSUME Rotating
  PROVE  ConnectSpec => []NobodyStarves
<1>1. ConnectInv /\ AllDescend /\ RotationInv /\ [ConnectNext]_allVars => RotationInv'
  BY RotationStep
<1>2. ConnectInv /\ AllDescend /\ PoolInv /\ RotationInv => NobodyStarves
  BY RotationVisitsAll DEF ConnectInv, PoolInv
<1>3. ConnectSpec => []AllDescend
  BY ConnectorImplementsPool, ProxiesKeepTheirRecord, PTL
<1> QED BY <1>1, <1>2, <1>3, InitRotation, ConnectIsSound, ConnectorPoolIsSound, PTL DEF ConnectSpec

=============================================================================
