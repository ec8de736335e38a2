----------------------------- MODULE PoolProofs -----------------------------
(* Safety of Pool for every configuration, strategy, caller set and feed. *)
EXTENDS SelectionCheck, FiniteSetTheorems, TLAPS

(***************************************************************************)
(* The vector operations.                                                  *)
(***************************************************************************)

(* swap_remove keeps a vector of pooled entries one, and each entry it keeps *)
(* comes from one place other than the removed one.                          *)
LEMMA SwapRemoveFacts ==
  ASSUME NEW S, NEW s \in Seq(S), NEW i \in DOMAIN s
  PROVE  /\ SwapRemove(s, i) \in Seq(S)
         /\ DOMAIN SwapRemove(s, i) = 1..(Len(s) - 1)
         /\ Len(SwapRemove(s, i)) < Len(s)
         /\ \A j \in 1..(Len(s) - 1) :
              SwapRemove(s, i)[j] = s[IF j = i THEN Len(s) ELSE j]
         /\ \A j \in 1..(Len(s) - 1) : (IF j = i THEN Len(s) ELSE j) \in DOMAIN s \ {i}
  BY DEF SwapRemove

LEMMA SwapRemoveKeeps ==
  ASSUME NEW S, NEW s \in Seq(S), NEW i \in DOMAIN s
  PROVE  \A j \in DOMAIN SwapRemove(s, i) : \E k \in DOMAIN s : SwapRemove(s, i)[j] = s[k]
  BY DEF SwapRemove

LEMMA AppendFacts ==
  ASSUME NEW S, NEW s \in Seq(S), NEW x \in S
  PROVE  /\ Append(s, x) \in Seq(S)
         /\ DOMAIN Append(s, x) = DOMAIN s \cup {Len(s) + 1}
         /\ Len(s) + 1 \notin DOMAIN s
         /\ Append(s, x)[Len(s) + 1] = x
         /\ \A i \in DOMAIN s : Append(s, x)[i] = s[i]
  OBVIOUS

(* Reading a vector along an increasing choice of its indices. *)
LEMMA AlongFacts ==
  ASSUME NEW S, NEW s \in Seq(S), NEW K \in SUBSET DOMAIN s, NEW f \in InOrder(K)
  PROVE  /\ Along(s, f) \in Seq(S)
         /\ DOMAIN Along(s, f) = DOMAIN f
         /\ Len(Along(s, f)) <= Len(s)
         /\ \A k \in DOMAIN f : f[k] \in K /\ Along(s, f)[k] = s[f[k]]
         /\ \A k, l \in DOMAIN f : f[k] = f[l] => k = l
<1>1. IsFiniteSet(DOMAIN s) /\ Cardinality(DOMAIN s) = Len(s)
  <2>1. DOMAIN s = 1..Len(s) /\ Len(s) \in Nat
    OBVIOUS
  <2>2. /\ IsFiniteSet(1..Len(s))
        /\ Cardinality(1..Len(s)) = IF 1 > Len(s) THEN 0 ELSE Len(s) - 1 + 1
    BY <2>1, FS_Interval
  <2> QED BY <2>1, <2>2
<1>2. Cardinality(K) \in Nat /\ Cardinality(K) <= Len(s)
  BY <1>1, FS_Subset, FS_CardinalityType
<1>3. DOMAIN f = 1..Cardinality(K) /\ \A k \in DOMAIN f : f[k] \in K
  BY DEF InOrder
<1>4. \A k, l \in DOMAIN f : f[k] = f[l] => k = l
  <2> SUFFICES ASSUME NEW k \in DOMAIN f, NEW l \in DOMAIN f, f[k] = f[l], k # l
               PROVE  FALSE
    OBVIOUS
  <2>1. k \in Nat /\ l \in Nat
    BY <1>2, <1>3
  <2>2. f[k] \in Int /\ f[l] \in Int
    BY <1>3
  <2> QED BY <1>2, <1>3, <2>1, <2>2 DEF InOrder
<1> QED BY <1>2, <1>3, <1>4 DEF Along

(* Recording an attempt changes the counters of a proxy and nothing else. *)
LEMMA RecordFacts ==
  ASSUME NEW p \in Proxy
  PROVE  /\ RecordOk(p) \in Proxy /\ RecordOk(p).id = p.id /\ RecordOk(p).addr = p.addr
         /\ RecordError(p) \in Proxy /\ RecordError(p).id = p.id
         /\ RecordError(p).addr = p.addr
<1> DEFINE R(I, A, T, C) == [id : I, addr : A, types : T, country : C, floor : Nat,
                             reqs : Nat, errs : Nat, rsum : Nat, rn : Nat]
<1> DEFINE Same(q, r) == q.id = r.id /\ q.addr = r.addr
<1>1. ASSUME NEW I, NEW A, NEW T, NEW C, NEW r \in R(I, A, T, C)
      PROVE  /\ RecordOk(r) \in R(I, A, T, C) /\ Same(RecordOk(r), r)
             /\ RecordError(r) \in R(I, A, T, C) /\ Same(RecordError(r), r)
  <2>1. Attempted(r) \in R(I, A, T, C) /\ Same(Attempted(r), r)
    BY DEF Attempted
  <2>2. ASSUME NEW q \in R(I, A, T, C)
        PROVE  /\ [q EXCEPT !.rn = @ + 1] \in R(I, A, T, C)
               /\ Same([q EXCEPT !.rn = @ + 1], q)
               /\ [q EXCEPT !.errs = @ + 1] \in R(I, A, T, C)
               /\ Same([q EXCEPT !.errs = @ + 1], q)
    OBVIOUS
  <2> HIDE DEF R
  <2> QED BY <2>1, <2>2 DEF RecordOk, RecordError
<1>2. Proxy = R(Ids, Addrs, SUBSET Protos, Codes)
  BY DEF Proxy
<1> HIDE DEF R
<1> QED BY <1>1, <1>2

(* What put_inner does to the pool. *)
LEMMA PutFacts ==
  ASSUME TypeOK, NEW c \in Callers, NEW p \in Proxy, NEW u \in Nat, PutInner(c, p, u)
  PROVE  /\ state' \in Seq(Pooled)
         /\ evictions' \in Nat
         /\ owes' \subseteq Callers \cup {Importer}
         /\ \/ state' = state /\ owes' = owes /\ Unhealthy(p)
            \/ /\ state' = Append(state, [proxy |-> p, until |-> u])
               /\ owes' = owes \cup {c}
               /\ ~Unhealthy(p)
<1>1. [proxy |-> p, until |-> u] \in Pooled
  BY DEF Pooled
<1>2. state \in Seq(Pooled) /\ evictions \in Nat /\ owes \subseteq Callers \cup {Importer}
  BY DEF TypeOK
<1>3. CASE Unhealthy(p) /\ evictions' = evictions + 1 /\ UNCHANGED <<state, owes>>
  BY <1>2, <1>3
<1>4. CASE /\ ~Unhealthy(p)
           /\ state' = Append(state, [proxy |-> p, until |-> u])
           /\ owes' = owes \cup {c}
           /\ UNCHANGED evictions
  BY <1>1, <1>2, <1>4, AppendFacts
<1> QED BY <1>3, <1>4 DEF PutInner

(* best_for answers with an index of the pool, in its ready tier if any. *)
LEMMA BestForInTier ==
  ASSUME NEW pool, NEW scheme, NEW x
  PROVE  BestFor(pool, scheme, x) \subseteq Tier(pool, scheme, x.now)
  BY ConfigAssumption DEF BestFor, BestByPriority, Nth, ConnectBiased, Strategies

LEMMA BestForInPool ==
  ASSUME NEW pool, NEW scheme, NEW x
  PROVE  BestFor(pool, scheme, x) \subseteq Eligible(pool, scheme)
         /\ BestFor(pool, scheme, x) \subseteq DOMAIN pool
  BY BestForInTier DEF Tier, Eligible

(***************************************************************************)
(* Typing, with what a caller in the middle of a get holds and asked for.  *)
(***************************************************************************)
Typed == TypeOK /\ HeldIsProxy /\ AsksForRequest

LEMMA InitTyped == Init => Typed
<1> SUFFICES ASSUME Init PROVE Typed
  OBVIOUS
<1>1. state \in Seq(Pooled) /\ outside \subseteq Feed \cup Extra
  <2>1. CASE Spawn
    BY <2>1 DEF Spawn
  <2>2. CASE FromProxies
    <3> DEFINE S == {p \in Feed : CountryOk(p)}
    <3>1. Cardinality(S) \in Nat
      BY PoolAssumption, FS_Subset, FS_CardinalityType
    <3>2. PICK f \in Orders(S) : state = [i \in DOMAIN f |-> Fresh(f[i])]
      BY <2>2 DEF FromProxies
    <3>3. DOMAIN f = 1..Cardinality(S) /\ \A i \in DOMAIN f : f[i] \in Proxy
      BY <3>2, PoolAssumption DEF Orders
    <3>4. \A i \in DOMAIN f : Fresh(f[i]) \in Pooled
      BY <3>3 DEF Fresh, Pooled
    <3>5. state \in [1..Cardinality(S) -> Pooled]
      BY <3>2, <3>3, <3>4
    <3> HIDE DEF S
    <3> QED BY <2>2, <3>1, <3>5 DEF FromProxies
  <2> QED BY <2>1, <2>2 DEF Init
<1>2. exhausted \in BOOLEAN /\ importing \in BOOLEAN
  BY DEF Init, Spawn, FromProxies
<1>3. NoCtx \in [sticky : Addrs \cup {NoPin}, cursor : Nat, now : Nat]
  BY DEF NoCtx
<1>4. TypeOK
  BY <1>1, <1>2, <1>3 DEF Init, TypeOK, Places
<1> QED BY <1>4 DEF Init, Typed, HeldIsProxy, AsksForRequest, Holding

LEMMA TypedStep == Typed /\ [Next]_vars => Typed'
<1> SUFFICES ASSUME Typed, [Next]_vars PROVE Typed'
  OBVIOUS
<1> USE DEF Typed, poolVars, feedVars, callVars, Places
<1>1. ASSUME NEW c \in Callers, CallGet(c) PROVE Typed'
  BY <1>1 DEF CallGet, BeginGet, Here, Goto, TypeOK, HeldIsProxy, AsksForRequest, Holding
<1>2. ASSUME NEW c \in Callers, Arm(c) PROVE Typed'
  <2>1. CtxNow(c) \in [sticky : Addrs \cup {NoPin}, cursor : Nat, now : Nat]
    BY DEF CtxNow, TypeOK
  <2> QED BY <1>2, <2>1 DEF Arm, Here, Goto, TypeOK, HeldIsProxy, AsksForRequest, Holding
<1>3. ASSUME NEW c \in Callers, Select(c) PROVE Typed'
  <2>1. PICK i \in BestFor(state, req[c].scheme, ctx[c]) : Take(c, i)
    BY <1>3 DEF Select
  <2>2. i \in DOMAIN state
    BY <2>1, BestForInPool
  <2>3. state' \in Seq(Pooled) /\ state[i].proxy \in Proxy
    <3>1. state \in Seq(Pooled)
      BY DEF TypeOK
    <3>2. state[i] \in Pooled
      BY <2>2, <3>1
    <3> QED BY <2>1, <2>2, <3>1, <3>2, SwapRemoveFacts DEF Take, Pooled
  <2>4. pc' \in [Callers -> Places]
    BY <2>1 DEF Take, Goto, TypeOK, Chosen
  <2> QED BY <1>3, <2>1, <2>3, <2>4
        DEF Select, Take, Here, Goto, TypeOK, HeldIsProxy, AsksForRequest, Holding
<1>4. ASSUME NEW c \in Callers, Miss(c) PROVE Typed'
  BY <1>4 DEF Miss, Here, Goto, TypeOK, HeldIsProxy, AsksForRequest, Holding
<1>5. ASSUME NEW c \in Callers, Record(c) PROVE Typed'
  <2>1. req[c].key \in Keys /\ lease[c].addr \in Addrs
    BY <1>5 DEF Record, Here, AsksForRequest, HeldIsProxy, Holding, Keys, Proxy
  <2>2. /\ DOMAIN sessions' \subseteq Keys
        /\ \A k \in DOMAIN sessions' : sessions'[k] \in Addrs
    <3>1. /\ DOMAIN sessions \subseteq Keys
          /\ \A k \in DOMAIN sessions : sessions[k] \in Addrs
      BY DEF TypeOK
    <3>2. CASE UNCHANGED sessions
      BY <3>1, <3>2
    <3>3. CASE RecordSession(req[c].key, lease[c].addr)
      <4>1. PICK S \in SUBSET DOMAIN sessions :
              sessions' = [k \in S \cup {req[c].key} |->
                             IF k = req[c].key THEN lease[c].addr ELSE sessions[k]]
        BY <3>3, Zenon DEF RecordSession
      <4> QED BY <2>1, <3>1, <4>1
    <3> QED BY <1>5, <3>2, <3>3 DEF Record
  <2>3. round_robin' \in Nat
    BY <1>5 DEF Record, TypeOK
  <2>4. pc' \in [Callers -> Places]
    BY <1>5 DEF Record, Goto, TypeOK, Chosen
  <2> QED BY <1>5, <2>2, <2>3, <2>4
        DEF Record, Here, Goto, TypeOK, HeldIsProxy, AsksForRequest, Holding, Chosen
<1>6. ASSUME NEW c \in Callers, CheckExhausted(c) PROVE Typed'
  <2>1. CtxNow(c) \in [sticky : Addrs \cup {NoPin}, cursor : Nat, now : Nat]
    BY DEF CtxNow, TypeOK
  <2> QED BY <1>6, <2>1
        DEF CheckExhausted, Here, Goto, TypeOK, HeldIsProxy, AsksForRequest, Holding
<1>7. ASSUME NEW c \in Callers, Wake(c) PROVE Typed'
  BY <1>7 DEF Wake, Here, Goto, TypeOK, HeldIsProxy, AsksForRequest, Holding
<1>8. ASSUME NEW c \in Callers, VerifyPassed(c) PROVE Typed'
  BY <1>8 DEF VerifyPassed, Here, Goto, TypeOK, HeldIsProxy, AsksForRequest, Holding
<1>9. ASSUME NEW c \in Callers, VerifyFailed(c) PROVE Typed'
  <2>1. lease[c] \in Proxy /\ clock + FailTimeout \in Nat
    BY <1>9, PoolAssumption DEF VerifyFailed, Here, HeldIsProxy, Holding, TypeOK
  <2>2. /\ state' \in Seq(Pooled) /\ evictions' \in Nat
        /\ owes' \subseteq Callers \cup {Importer}
    BY <1>9, <2>1, PutFacts DEF VerifyFailed, PutFailed
  <2>3. pc' \in [Callers -> Places]
    BY <1>9 DEF VerifyFailed, Goto, TypeOK
  <2> QED BY <1>9, <2>2, <2>3
        DEF VerifyFailed, Here, Goto, TypeOK, HeldIsProxy, AsksForRequest, Holding
<1>10. NoCtx \in [sticky : Addrs \cup {NoPin}, cursor : Nat, now : Nat]
  BY DEF NoCtx
<1>11. ASSUME NEW c \in Callers, ReturnOk(c) PROVE Typed'
  <2>1. RecordOk(lease[c]) \in Proxy
    BY <1>11, RecordFacts DEF ReturnOk, Here, HeldIsProxy, Holding
  <2>2. /\ state' \in Seq(Pooled) /\ evictions' \in Nat
        /\ owes' \subseteq Callers \cup {Importer}
    BY <1>11, <2>1, PutFacts DEF ReturnOk, PutOk
  <2> QED BY <1>10, <1>11, <2>2
        DEF ReturnOk, Finish, Goto, TypeOK, HeldIsProxy, AsksForRequest, Holding
<1>12. ASSUME NEW c \in Callers, ReturnFailed(c) PROVE Typed'
  <2>1. RecordError(lease[c]) \in Proxy /\ clock + FailTimeout \in Nat
    BY <1>12, RecordFacts, PoolAssumption
    DEF ReturnFailed, Here, HeldIsProxy, Holding, TypeOK
  <2>2. /\ state' \in Seq(Pooled) /\ evictions' \in Nat
        /\ owes' \subseteq Callers \cup {Importer}
    BY <1>12, <2>1, PutFacts DEF ReturnFailed, PutFailed
  <2> QED BY <1>10, <1>12, <2>2
        DEF ReturnFailed, Finish, Goto, TypeOK, HeldIsProxy, AsksForRequest, Holding
<1>13. ASSUME NEW c \in Callers, GiveUp(c) \/ Abandon(c) PROVE Typed'
  <2>1. Finish(c) /\ UNCHANGED <<poolVars, feedVars, calls, owes, clock>>
    BY <1>13 DEF GiveUp, Abandon
  <2> QED BY <1>10, <2>1
        DEF Finish, Goto, TypeOK, HeldIsProxy, AsksForRequest, Holding
<1>14. ASSUME NEW t \in Callers \cup {Importer}, Notify(t) PROVE Typed'
  BY <1>14 DEF Notify, Wakened, TypeOK, HeldIsProxy, AsksForRequest
<1>15. ASSUME NEW p \in Feed \cup Extra
       PROVE  Append(state, Fresh(p)) \in Seq(Pooled)
  <2>1. Fresh(p) \in Pooled
    BY PoolAssumption DEF Fresh, Pooled
  <2> QED BY <2>1, AppendFacts DEF TypeOK
<1>16. ASSUME Import PROVE Typed'
  <2>1. PICK p \in outside \cap Feed :
          state' = state \/ state' = Append(state, Fresh(p))
    BY <1>16 DEF Import
  <2>2. state' \in Seq(Pooled)
    BY <1>15, <2>1 DEF TypeOK
  <2>3. owes' \subseteq Callers \cup {Importer} /\ outside' \subseteq Feed \cup Extra
    BY <1>16 DEF Import, TypeOK
  <2> QED BY <1>16, <2>2, <2>3 DEF Import, TypeOK, HeldIsProxy, AsksForRequest
<1>17. ASSUME SourceEnds PROVE Typed'
  BY <1>17 DEF SourceEnds, TypeOK, HeldIsProxy, AsksForRequest
<1>18. ASSUME NEW p \in Extra, Add(p) PROVE Typed'
  <2>1. state' \in Seq(Pooled)
    BY <1>15, <1>18 DEF Add, TypeOK
  <2>2. outside' \subseteq Feed \cup Extra /\ woken' \subseteq Callers
    BY <1>18 DEF Add, Wakened, TypeOK
  <2> QED BY <1>18, <2>1, <2>2 DEF Add, TypeOK, HeldIsProxy, AsksForRequest
<1>19. ASSUME NEW a \in Addrs, Remove(a) PROVE Typed'
  <2>1. PICK f \in InOrder(DOMAIN state \ At(state, a)) : state' = Along(state, f)
    BY <1>19 DEF Remove
  <2>2. state' \in Seq(Pooled)
    BY <2>1, AlongFacts DEF TypeOK
  <2> QED BY <1>19, <2>2 DEF Remove, TypeOK, HeldIsProxy, AsksForRequest
<1>20. ASSUME Tick PROVE Typed'
  BY <1>20 DEF Tick, TypeOK, HeldIsProxy, AsksForRequest
<1>21. ASSUME UNCHANGED vars PROVE Typed'
  BY <1>21 DEF vars, TypeOK, HeldIsProxy, AsksForRequest
<1>22. ASSUME NEW c \in Callers, CallWaitReady(c) \/ CheckReady(c) \/ WakeGate(c) PROVE Typed'
  BY <1>22 DEF CallWaitReady, CheckReady, WakeGate, Here, Goto, TypeOK, HeldIsProxy,
               AsksForRequest, Holding
<1> QED BY <1>1, <1>2, <1>3, <1>4, <1>5, <1>6, <1>7, <1>8, <1>9, <1>11, <1>12, <1>13,
           <1>14, <1>16, <1>17, <1>18, <1>19, <1>20, <1>21, <1>22
        DEF Next, CallerStep, GetStep, GateStep, Quiet

(* Every reachable state of the pool is well typed. *)
THEOREM TypeCorrect == Spec => []TypeOK
<1>1. Spec => []Typed
  BY InitTyped, TypedStep, PTL DEF Spec
<1> QED BY <1>1, PTL DEF Typed

(***************************************************************************)
(* Exclusive leases.                                                       *)
(***************************************************************************)
Exclusive == ExclusiveLease /\ OutsideIsNew

LEMMA InitExclusive == Init => Exclusive
<1> SUFFICES ASSUME Init PROVE Exclusive
  OBVIOUS
<1>1. \A c \in Callers : pc[c] \notin Holding
  BY DEF Init, Holding
<1>2. CASE Spawn
  BY <1>1, <1>2 DEF Spawn, Exclusive, ExclusiveLease, OutsideIsNew
<1>3. CASE FromProxies
  <2>1. PICK f \in Orders({p \in Feed : CountryOk(p)}) :
          state = [i \in DOMAIN f |-> Fresh(f[i])]
    BY <1>3 DEF FromProxies
  <2>2. \A i, j \in DOMAIN f : f[i] \in Feed /\ (f[i] = f[j] => i = j)
    BY <2>1 DEF Orders
  <2>3. \A i \in DOMAIN f : state[i].proxy = f[i]
    BY <2>1 DEF Fresh
  <2>4. outside = Extra
    BY <1>3 DEF FromProxies
  <2> QED BY <1>1, <2>1, <2>2, <2>3, <2>4, PoolAssumption
        DEF Exclusive, ExclusiveLease, OutsideIsNew
<1> QED BY <1>2, <1>3 DEF Init

(* A step that moves no proxy keeps leases exclusive. *)
LEMMA NothingMoves ==
  ASSUME Exclusive, UNCHANGED <<state, lease>>, outside' \subseteq outside,
         \A c \in Callers : pc'[c] \in Holding => pc[c] \in Holding
  PROVE  Exclusive'
  BY DEF Exclusive, ExclusiveLease, OutsideIsNew

(* A caller that lets go of its proxy: it is dropped, or goes back to the pool. *)
LEMMA LettingGo ==
  ASSUME Typed, Exclusive, NEW c \in Callers, pc[c] \in Holding,
         pc'[c] \notin Holding,
         \A d \in Callers \ {c} : pc'[d] = pc[d] /\ lease'[d] = lease[d],
         outside' = outside,
         \/ state' = state
         \/ \E e \in Pooled : state' = Append(state, e) /\ e.proxy.id = lease[c].id
  PROVE  Exclusive'
<1>1. state \in Seq(Pooled)
  BY DEF Typed, TypeOK
<1>2. CASE state' = state
  BY <1>2 DEF Exclusive, ExclusiveLease, OutsideIsNew
<1>3. CASE \E e \in Pooled : state' = Append(state, e) /\ e.proxy.id = lease[c].id
  <2>1. PICK e \in Pooled : state' = Append(state, e) /\ e.proxy.id = lease[c].id
    BY <1>3
  <2>2. /\ DOMAIN state' = DOMAIN state \cup {Len(state) + 1}
        /\ state'[Len(state) + 1].proxy.id = lease[c].id
        /\ \A i \in DOMAIN state : state'[i] = state[i]
    BY <1>1, <2>1, AppendFacts
  <2> QED BY <2>2 DEF Exclusive, ExclusiveLease, OutsideIsNew
<1> QED BY <1>2, <1>3

(* A new proxy enters the pool. *)
LEMMA Entering ==
  ASSUME Typed, Exclusive, NEW p \in outside,
         state' = Append(state, Fresh(p)),
         outside' = outside \ {p}, UNCHANGED <<pc, lease>>
  PROVE  Exclusive'
<1>1. state \in Seq(Pooled) /\ p \in Feed \cup Extra /\ outside \subseteq Feed \cup Extra
  BY DEF Typed, TypeOK
<1>2. Fresh(p) \in Pooled
  BY <1>1, PoolAssumption DEF Fresh, Pooled
<1>3. /\ DOMAIN state' = DOMAIN state \cup {Len(state) + 1}
      /\ state'[Len(state) + 1].proxy = p
      /\ \A i \in DOMAIN state : state'[i] = state[i]
  BY <1>1, <1>2, AppendFacts DEF Fresh
<1>4. \A q \in outside' : q.id # p.id
  BY <1>1, PoolAssumption
<1> QED BY <1>3, <1>4 DEF Exclusive, ExclusiveLease, OutsideIsNew

LEMMA ExclusiveStep == Typed /\ Exclusive /\ [Next]_vars => Exclusive'
<1> SUFFICES ASSUME Typed, Exclusive, [Next]_vars PROVE Exclusive'
  OBVIOUS
<1> USE DEF poolVars, feedVars, callVars, Places
<1>0. pc \in [Callers -> Places]
      /\ lease \in [Callers -> Proxy \cup {NoProxy}]
      /\ state \in Seq(Pooled)
  BY DEF Typed, TypeOK
<1>1. ASSUME NEW c \in Callers,
             CallGet(c) \/ Arm(c) \/ Miss(c) \/ CheckExhausted(c) \/ Wake(c) \/ GateStep(c)
      PROVE  Exclusive'
  <2>1. UNCHANGED <<state, lease, outside>>
    BY <1>1 DEF CallGet, BeginGet, Arm, Miss, CheckExhausted, Wake,
                GateStep, CallWaitReady, CheckReady, WakeGate
  <2>2. \E to \in {"arm", "select", "missed", "none", "last", "wait",
                  "gate", "gateWait", "open"} : Goto(c, to)
    BY <1>1 DEF CallGet, BeginGet, Arm, Miss, CheckExhausted, Wake,
                GateStep, CallWaitReady, CheckReady, WakeGate
  <2>3. \A d \in Callers : pc'[d] \in Holding => pc[d] \in Holding
    BY <1>0, <2>2 DEF Goto, Holding
  <2> QED BY <2>1, <2>3, NothingMoves
<1>2. ASSUME NEW c \in Callers, Record(c) \/ VerifyPassed(c) PROVE Exclusive'
  <2>1. UNCHANGED <<state, lease, outside>> /\ pc[c] \in Holding
    BY <1>2 DEF Record, VerifyPassed, Here, Holding
  <2>2. \A d \in Callers : pc'[d] \in Holding => pc[d] \in Holding
    BY <1>0, <1>2, <2>1 DEF Record, VerifyPassed, Goto
  <2> QED BY <2>1, <2>2, NothingMoves
<1>3. ASSUME NEW c \in Callers, Select(c) PROVE Exclusive'
  <2>1. PICK i \in BestFor(state, req[c].scheme, ctx[c]) : Take(c, i)
    BY <1>3 DEF Select
  <2>2. i \in DOMAIN state
    BY <2>1, BestForInPool
  <2> DEFINE from(j) == IF j = i THEN Len(state) ELSE j
  <2>3. /\ DOMAIN state' = 1..(Len(state) - 1)
        /\ \A j \in DOMAIN state' : state'[j] = state[from(j)] /\ from(j) \in DOMAIN state \ {i}
    <3>1. state' = SwapRemove(state, i)
      BY <2>1 DEF Take
    <3>2. /\ DOMAIN state' = 1..(Len(state) - 1)
          /\ \A j \in 1..(Len(state) - 1) : state'[j] = state[IF j = i THEN Len(state) ELSE j]
          /\ \A j \in 1..(Len(state) - 1) :
               (IF j = i THEN Len(state) ELSE j) \in DOMAIN state \ {i}
      BY <1>0, <2>2, <3>1, SwapRemoveFacts
    <3> QED BY ONLY <3>2
  <2>4. \A j, k \in DOMAIN state' : from(j) = from(k) => j = k
    BY <1>0, <2>2, <2>3
  <2>5. lease' = [lease EXCEPT ![c] = state[i].proxy] /\ outside' = outside
    BY <1>3, <2>1 DEF Take, Select
  <2>6. \A d \in Callers \ {c} : pc'[d] = pc[d] /\ lease'[d] = lease[d]
    BY <1>0, <2>1, <2>5 DEF Take, Goto
  <2>7. lease'[c] = state[i].proxy
    BY <1>0, <2>5
  <2> HIDE DEF from
  <2> QED BY <2>2, <2>3, <2>4, <2>5, <2>6, <2>7 DEF Exclusive, ExclusiveLease, OutsideIsNew
<1>4. ASSUME NEW c \in Callers, VerifyFailed(c) PROVE Exclusive'
  <2>1. pc[c] \in Holding /\ lease[c] \in Proxy /\ clock + FailTimeout \in Nat
    BY <1>4, PoolAssumption DEF VerifyFailed, Here, Holding, Typed, HeldIsProxy, TypeOK
  <2>2. \/ state' = state
        \/ \E e \in Pooled : state' = Append(state, e) /\ e.proxy.id = lease[c].id
    BY <1>4, <2>1 DEF VerifyFailed, PutFailed, PutInner, Pooled
  <2>3. /\ pc'[c] \notin Holding
        /\ \A d \in Callers \ {c} : pc'[d] = pc[d] /\ lease'[d] = lease[d]
        /\ outside' = outside
    BY <1>0, <1>4 DEF VerifyFailed, Goto, Holding
  <2> QED BY <2>1, <2>2, <2>3, LettingGo
<1>5. ASSUME NEW c \in Callers, Finish(c)
      PROVE  /\ pc'[c] \notin Holding
             /\ \A d \in Callers \ {c} : pc'[d] = pc[d] /\ lease'[d] = lease[d]
  BY <1>0, <1>5 DEF Finish, Goto, Holding
<1>6. ASSUME NEW c \in Callers, ReturnOk(c) \/ ReturnFailed(c) PROVE Exclusive'
  <2>1. pc[c] \in Holding /\ lease[c] \in Proxy /\ clock + FailTimeout \in Nat
    BY <1>6, PoolAssumption
    DEF ReturnOk, ReturnFailed, Here, Holding, Typed, HeldIsProxy, TypeOK
  <2>2. PICK p \in Proxy, u \in Nat : p.id = lease[c].id /\ PutInner(c, p, u)
    BY <1>6, <2>1, RecordFacts DEF ReturnOk, ReturnFailed, PutOk, PutFailed
  <2>3. \/ state' = state
        \/ \E e \in Pooled : state' = Append(state, e) /\ e.proxy.id = lease[c].id
    BY <2>2 DEF PutInner, Pooled
  <2>4. Finish(c) /\ outside' = outside
    BY <1>6 DEF ReturnOk, ReturnFailed
  <2> QED BY <1>5, <2>1, <2>3, <2>4, LettingGo
<1>7. ASSUME NEW c \in Callers, GiveUp(c) \/ Abandon(c) PROVE Exclusive'
  <2>1. Finish(c) /\ UNCHANGED <<state, outside>>
    BY <1>7 DEF GiveUp, Abandon
  <2>2. CASE pc[c] \in Holding
    BY <1>5, <2>1, <2>2, LettingGo
  <2>3. CASE pc[c] \notin Holding
    BY <1>5, <2>1, <2>3 DEF Exclusive, ExclusiveLease, OutsideIsNew
  <2> QED BY <2>2, <2>3
<1>8. ASSUME NEW t \in Callers \cup {Importer}, Notify(t) PROVE Exclusive'
  BY <1>8, NothingMoves DEF Notify
<1>9. ASSUME Import PROVE Exclusive'
  <2>1. PICK p \in outside \cap Feed :
          /\ outside' = outside \ {p}
          /\ state' = state \/ state' = Append(state, Fresh(p))
          /\ UNCHANGED <<pc, lease>>
    BY <1>9 DEF Import
  <2> QED BY <2>1, NothingMoves, Entering
<1>10. ASSUME SourceEnds \/ Tick \/ UNCHANGED vars PROVE Exclusive'
  BY <1>10, NothingMoves DEF SourceEnds, Tick, vars
<1>11. ASSUME NEW p \in Extra, Add(p) PROVE Exclusive'
  <2>1. /\ p \in outside /\ outside' = outside \ {p}
        /\ state' = state \/ state' = Append(state, Fresh(p))
        /\ UNCHANGED <<pc, lease>>
    BY <1>11 DEF Add
  <2> QED BY <2>1, NothingMoves, Entering
<1>12. ASSUME NEW a \in Addrs, Remove(a) PROVE Exclusive'
  <2>1. PICK f \in InOrder(DOMAIN state \ At(state, a)) : state' = Along(state, f)
    BY <1>12 DEF Remove
  <2>2. /\ DOMAIN state' = DOMAIN f
        /\ \A k \in DOMAIN f : f[k] \in DOMAIN state /\ state'[k] = state[f[k]]
        /\ \A k, l \in DOMAIN f : f[k] = f[l] => k = l
    BY <1>0, <2>1, AlongFacts
  <2>3. UNCHANGED <<pc, lease, outside>>
    BY <1>12 DEF Remove
  <2> QED BY <2>2, <2>3 DEF Exclusive, ExclusiveLease, OutsideIsNew
<1> QED BY <1>1, <1>2, <1>3, <1>4, <1>6, <1>7, <1>8, <1>9, <1>10, <1>11, <1>12
        DEF Next, CallerStep, GetStep, GateStep, Quiet

(* No proxy value is ever in two hands, or in a hand and in the pool. *)
THEOREM LeasesAreExclusive == Spec => []ExclusiveLease
<1>1. Spec => [](Typed /\ Exclusive)
  BY InitTyped, TypedStep, InitExclusive, ExclusiveStep, PTL DEF Spec
<1> QED BY <1>1, PTL DEF Exclusive

(***************************************************************************)
(* No lost wakeup.                                                         *)
(***************************************************************************)
Wakeups == MissIsCurrent /\ SleepsOnlyOnLiveSource /\ GateIsCurrent

Asleep == {"missed", "wait", "gateWait"}

LEMMA InitWakeups == Init => Wakeups
  BY DEF Init, Wakeups, MissIsCurrent, SleepsOnlyOnLiveSource, GateIsCurrent

(* A tier is empty only when no pooled proxy serves the scheme. *)
LEMMA EmptyTier ==
  ASSUME NEW pool, NEW scheme, NEW now, Tier(pool, scheme, now) = {}
  PROVE  Eligible(pool, scheme) = {}
  BY DEF Tier

(* Steps after which every caller asleep was asleep before, nothing new is   *)
(* eligible, and a wakeup under way is still under way.                      *)
LEMMA NothingArrives ==
  ASSUME Wakeups,
         \A c \in Callers : pc'[c] \in Asleep => pc'[c] = pc[c] /\ req'[c] = req[c],
         owes \subseteq owes', exhausted' = exhausted,
         \A c \in Callers : pc'[c] \in Asleep /\ c \notin woken' => c \notin woken,
         \A sc : Eligible(state, sc) = {} => Eligible(state', sc) = {},
         Len(state) < MinQueue => Len(state') < MinQueue
  PROVE  Wakeups'
  BY DEF Asleep, Wakeups, MissIsCurrent, SleepsOnlyOnLiveSource, GateIsCurrent

LEMMA WakeupsStep == Typed /\ Wakeups /\ [Next]_vars => Wakeups'
<1> SUFFICES ASSUME Typed, Wakeups, [Next]_vars PROVE Wakeups'
  OBVIOUS
<1> USE DEF poolVars, feedVars, callVars, Places, Asleep
<1>0. /\ pc \in [Callers -> Places]
      /\ req \in [Callers -> Requests \cup {NoReq}]
      /\ state \in Seq(Pooled)
  BY DEF Typed, TypeOK
<1>1. ASSUME NEW c \in Callers,
             CallGet(c) \/ Arm(c) \/ Wake(c) \/ Record(c) \/ VerifyPassed(c)
             \/ CallWaitReady(c) \/ WakeGate(c)
      PROVE  Wakeups'
  <2>1. UNCHANGED <<state, owes, exhausted>> /\ woken \ {c} \subseteq woken'
    BY <1>1 DEF CallGet, BeginGet, Arm, Wake, Record, VerifyPassed, CallWaitReady, WakeGate
  <2>2. \E to \in {"arm", "select", "verify", "leased", "gate"} : Goto(c, to)
    BY <1>1 DEF CallGet, BeginGet, Arm, Wake, Record, VerifyPassed, CallWaitReady, WakeGate, Chosen
  <2>3. \A d \in Callers \ {c} : pc'[d] = pc[d] /\ req'[d] = req[d]
    BY <1>0, <1>1, <2>2
       DEF CallGet, BeginGet, Arm, Wake, Record, VerifyPassed, CallWaitReady, WakeGate, Goto
  <2>4. pc'[c] \notin Asleep
    BY <1>0, <2>2 DEF Goto
  <2> QED BY <2>1, <2>3, <2>4, NothingArrives
<1>2. ASSUME NEW c \in Callers, Select(c) PROVE Wakeups'
  <2>1. PICK i \in BestFor(state, req[c].scheme, ctx[c]) : Take(c, i)
    BY <1>2 DEF Select
  <2>2. i \in DOMAIN state
    BY <2>1, BestForInPool
  <2>3. ASSUME NEW sc, Eligible(state, sc) = {} PROVE Eligible(state', sc) = {}
    <3>1. state' = SwapRemove(state, i)
      BY <2>1 DEF Take
    <3>2. \A j \in DOMAIN state' : \E k \in DOMAIN state : state'[j] = state[k]
      BY <1>0, <2>2, <3>1, SwapRemoveKeeps
    <3> QED BY <2>3, <3>2 DEF Eligible
  <2>5. Len(state') < Len(state) /\ Len(state') \in Nat /\ Len(state) \in Nat
    <3>1. state' = SwapRemove(state, i)
      BY <2>1 DEF Take
    <3> QED BY <1>0, <2>2, <3>1, SwapRemoveFacts
  <2>6. Len(state) < MinQueue => Len(state') < MinQueue
    BY <2>5, PoolAssumption
  <2>4. /\ UNCHANGED <<owes, exhausted, woken, req>>
        /\ pc'[c] \notin Asleep
        /\ \A d \in Callers \ {c} : pc'[d] = pc[d]
    BY <1>0, <1>2, <2>1 DEF Select, Take, Goto, Chosen
  <2> QED BY <2>3, <2>4, <2>6, NothingArrives
<1>3. ASSUME NEW c \in Callers, Miss(c) PROVE Wakeups'
  <2>1. UNCHANGED <<state, owes, exhausted, woken, req>>
    BY <1>3 DEF Miss
  <2>2. Eligible(state, req[c].scheme) = {}
    BY <1>3, EmptyTier DEF Miss
  <2>3. pc'[c] \notin {"wait", "gateWait"} /\ \A d \in Callers \ {c} : pc'[d] = pc[d]
    BY <1>0, <1>3 DEF Miss, Goto
  <2> QED BY <2>1, <2>2, <2>3 DEF Wakeups, MissIsCurrent, SleepsOnlyOnLiveSource, GateIsCurrent
<1>4. ASSUME NEW c \in Callers, CheckExhausted(c) PROVE Wakeups'
  <2>1. UNCHANGED <<state, owes, exhausted, woken, req>> /\ pc[c] = "missed"
    BY <1>4 DEF CheckExhausted, Here
  <2>2. /\ pc'[c] \in {"last", "wait"} /\ (pc'[c] = "wait" => ~exhausted)
        /\ \A d \in Callers \ {c} : pc'[d] = pc[d]
    BY <1>0, <1>4 DEF CheckExhausted, Goto
  <2> QED BY <2>1, <2>2 DEF Wakeups, MissIsCurrent, SleepsOnlyOnLiveSource, GateIsCurrent
<1>16. ASSUME NEW c \in Callers, CheckReady(c) PROVE Wakeups'
  <2>1. UNCHANGED <<state, owes, exhausted, woken, req>>
    BY <1>16 DEF CheckReady
  <2>2. /\ pc'[c] \in {"open", "gateWait"}
        /\ pc'[c] = "gateWait" => ~exhausted /\ Len(state) < MinQueue
        /\ \A d \in Callers \ {c} : pc'[d] = pc[d]
    BY <1>0, <1>16 DEF CheckReady, Goto
  <2> QED BY <2>1, <2>2 DEF Wakeups, MissIsCurrent, SleepsOnlyOnLiveSource, GateIsCurrent
<1>5. ASSUME NEW c \in Callers, NEW p, NEW u, PutInner(c, p, u), exhausted' = exhausted,
             woken \ {c} \subseteq woken', pc'[c] \notin Asleep,
             \A d \in Callers \ {c} : pc'[d] = pc[d] /\ req'[d] = req[d]
      PROVE  Wakeups'
  <2>1. CASE UNCHANGED <<state, owes>>
    BY <1>5, <2>1, NothingArrives
  <2>2. CASE owes' = owes \cup {c}
    BY <2>2 DEF Wakeups, MissIsCurrent, SleepsOnlyOnLiveSource, GateIsCurrent
  <2> QED BY <1>5, <2>1, <2>2 DEF PutInner
<1>6. ASSUME NEW c \in Callers, VerifyFailed(c) PROVE Wakeups'
  <2>1. /\ PutInner(c, lease[c], clock + FailTimeout) /\ UNCHANGED <<exhausted, woken, req>>
        /\ pc'[c] \notin Asleep
        /\ \A d \in Callers \ {c} : pc'[d] = pc[d]
    BY <1>0, <1>6 DEF VerifyFailed, PutFailed, Goto
  <2> QED BY <1>5, <2>1
<1>7. ASSUME NEW c \in Callers, Finish(c)
      PROVE  /\ woken \ {c} \subseteq woken' /\ pc'[c] \notin Asleep
             /\ \A d \in Callers \ {c} : pc'[d] = pc[d] /\ req'[d] = req[d]
  BY <1>0, <1>7 DEF Finish, Goto
<1>8. ASSUME NEW c \in Callers, ReturnOk(c) \/ ReturnFailed(c) PROVE Wakeups'
  <2>1. PICK p, u : PutInner(c, p, u)
    BY <1>8 DEF ReturnOk, ReturnFailed, PutOk, PutFailed
  <2>2. Finish(c) /\ exhausted' = exhausted
    BY <1>8 DEF ReturnOk, ReturnFailed
  <2> QED BY <1>5, <1>7, <2>1, <2>2
<1>9. ASSUME NEW c \in Callers, GiveUp(c) \/ Abandon(c) PROVE Wakeups'
  <2>1. Finish(c) /\ UNCHANGED <<state, owes, exhausted>>
    BY <1>9 DEF GiveUp, Abandon
  <2> QED BY <1>7, <2>1, NothingArrives
<1>10. ASSUME NEW t \in Callers \cup {Importer}, Notify(t) PROVE Wakeups'
  <2>1. pc' = pc /\ \A c \in Callers : pc[c] \in Asleep => c \in woken'
    BY <1>10 DEF Notify, Wakened, Armed
  <2> QED BY <2>1 DEF Wakeups, MissIsCurrent, SleepsOnlyOnLiveSource, GateIsCurrent
<1>11. ASSUME Import PROVE Wakeups'
  <2>1. UNCHANGED <<pc, req, woken, exhausted>>
    BY <1>11 DEF Import
  <2>2. CASE UNCHANGED <<state, owes>>
    BY <2>1, <2>2, NothingArrives
  <2>3. CASE owes' = owes \cup {Importer}
    BY <2>3 DEF Wakeups, MissIsCurrent, SleepsOnlyOnLiveSource, GateIsCurrent
  <2> QED BY <1>11, <2>2, <2>3 DEF Import
<1>12. ASSUME SourceEnds PROVE Wakeups'
  BY <1>12 DEF SourceEnds, Wakeups, MissIsCurrent, SleepsOnlyOnLiveSource, GateIsCurrent
<1>13. ASSUME NEW p \in Extra, Add(p) PROVE Wakeups'
  <2>1. UNCHANGED <<pc, req, owes, exhausted>>
    BY <1>13 DEF Add
  <2>2. CASE UNCHANGED <<state, woken>>
    BY <2>1, <2>2, NothingArrives
  <2>3. CASE woken' = Wakened
    BY <2>1, <2>3 DEF Wakened, Armed, Wakeups, MissIsCurrent, SleepsOnlyOnLiveSource, GateIsCurrent
  <2> QED BY <1>13, <2>2, <2>3 DEF Add
<1>14. ASSUME NEW a \in Addrs, Remove(a) PROVE Wakeups'
  <2>1. PICK f \in InOrder(DOMAIN state \ At(state, a)) : state' = Along(state, f)
    BY <1>14 DEF Remove
  <2>2. \A j \in DOMAIN state' : \E k \in DOMAIN state : state'[j] = state[k]
    BY <1>0, <2>1, AlongFacts
  <2>3. \A sc : Eligible(state, sc) = {} => Eligible(state', sc) = {}
    BY <2>2 DEF Eligible
  <2>4. UNCHANGED <<pc, req, owes, exhausted, woken>>
    BY <1>14 DEF Remove
  <2>5. Len(state') <= Len(state) /\ Len(state') \in Nat /\ Len(state) \in Nat
    BY <1>0, <2>1, AlongFacts
  <2>6. Len(state) < MinQueue => Len(state') < MinQueue
    BY <2>5, PoolAssumption
  <2> QED BY <2>3, <2>4, <2>6, NothingArrives
<1>15. ASSUME Tick \/ UNCHANGED vars PROVE Wakeups'
  BY <1>15, NothingArrives DEF Tick, vars
<1> QED BY <1>1, <1>2, <1>3, <1>4, <1>6, <1>8, <1>9, <1>10, <1>11, <1>12, <1>13, <1>14, <1>15, <1>16
        DEF Next, CallerStep, GetStep, GateStep, Quiet

(* A get() that sleeps with no wakeup under way has nothing to wait for. *)
THEOREM WakeupsAreNotLost == Spec => []NoLostWakeup
<1>1. Spec => [](Typed /\ Wakeups)
  BY InitTyped, TypedStep, InitWakeups, WakeupsStep, PTL DEF Spec
<1>2. Wakeups => NoLostWakeup
  BY DEF Wakeups, MissIsCurrent, SleepsOnlyOnLiveSource, GateIsCurrent, NoLostWakeup
<1> QED BY <1>1, <1>2, PTL

(***************************************************************************)
(* The health gate of put_inner.                                           *)
(***************************************************************************)
LEMMA InitServed == Init => ServedAreHealthy
<1> SUFFICES ASSUME Init PROVE ServedAreHealthy
  OBVIOUS
<1>1. CASE Spawn
  BY <1>1 DEF Spawn, ServedAreHealthy
<1>2. CASE FromProxies
  <2>1. PICK f \in Orders({p \in Feed : CountryOk(p)}) :
          state = [i \in DOMAIN f |-> Fresh(f[i])]
    BY <1>2 DEF FromProxies
  <2>2. \A i \in DOMAIN state : state[i].proxy \in Feed
    BY <2>1 DEF Orders, Fresh
  <2> QED BY <2>2 DEF ServedAreHealthy
<1> QED BY <1>1, <1>2 DEF Init

(* Every entry was there before, or is healthy, or has just entered. *)
LEMMA ServedPreserved ==
  ASSUME ServedAreHealthy,
         \A j \in DOMAIN state' :
           \/ \E k \in DOMAIN state : state'[j] = state[k]
           \/ ~Unhealthy(state'[j].proxy)
           \/ state'[j].proxy \in Feed \cup Extra
  PROVE  ServedAreHealthy'
  BY DEF ServedAreHealthy

LEMMA ServedStep == Typed /\ ServedAreHealthy /\ [Next]_vars => ServedAreHealthy'
<1> SUFFICES ASSUME Typed, ServedAreHealthy, [Next]_vars PROVE ServedAreHealthy'
  OBVIOUS
<1> USE DEF poolVars, feedVars, callVars, Places
<1>0. state \in Seq(Pooled)
  BY DEF Typed, TypeOK
<1>1. ASSUME UNCHANGED state PROVE ServedAreHealthy'
  BY <1>1, ServedPreserved
<1>2. ASSUME NEW c \in Callers, Select(c) PROVE ServedAreHealthy'
  <2>1. PICK i \in BestFor(state, req[c].scheme, ctx[c]) : Take(c, i)
    BY <1>2 DEF Select
  <2>2. i \in DOMAIN state
    BY <2>1, BestForInPool
  <2>3. \A j \in DOMAIN state' : \E k \in DOMAIN state : state'[j] = state[k]
    <3>1. state' = SwapRemove(state, i)
      BY <2>1 DEF Take
    <3> QED BY <1>0, <2>2, <3>1, SwapRemoveKeeps
  <2> QED BY <2>3, ServedPreserved
<1>3. ASSUME NEW e \in Pooled, state' = Append(state, e),
             ~Unhealthy(e.proxy) \/ e.proxy \in Feed \cup Extra
      PROVE  ServedAreHealthy'
  <2>1. \A j \in DOMAIN state' : (\E k \in DOMAIN state : state'[j] = state[k]) \/ state'[j] = e
    BY <1>0, <1>3, AppendFacts
  <2> QED BY <1>3, <2>1, ServedPreserved
<1>4. ASSUME NEW c \in Callers, NEW p \in Proxy, NEW u \in Nat, PutInner(c, p, u)
      PROVE  ServedAreHealthy'
  <2>1. [proxy |-> p, until |-> u] \in Pooled
    BY DEF Pooled
  <2> QED BY <1>1, <1>3, <1>4, <2>1 DEF PutInner
<1>5. ASSUME NEW c \in Callers, VerifyFailed(c) \/ ReturnOk(c) \/ ReturnFailed(c)
      PROVE  ServedAreHealthy'
  <2>1. lease[c] \in Proxy /\ clock + FailTimeout \in Nat
    BY <1>5, PoolAssumption
    DEF VerifyFailed, ReturnOk, ReturnFailed, Here, Holding, Typed, HeldIsProxy, TypeOK
  <2>2. PICK p \in Proxy, u \in Nat : PutInner(c, p, u)
    BY <1>5, <2>1, RecordFacts DEF VerifyFailed, ReturnOk, ReturnFailed, PutOk, PutFailed
  <2> QED BY <1>4, <2>2
<1>6. ASSUME NEW p \in Feed \cup Extra, state' = Append(state, Fresh(p))
      PROVE  ServedAreHealthy'
  <2>1. Fresh(p) \in Pooled /\ Fresh(p).proxy = p
    BY PoolAssumption DEF Fresh, Pooled
  <2> QED BY <1>3, <1>6, <2>1
<1>7. ASSUME Import PROVE ServedAreHealthy'
  BY <1>1, <1>6, <1>7 DEF Import
<1>8. ASSUME NEW p \in Extra, Add(p) PROVE ServedAreHealthy'
  BY <1>1, <1>6, <1>8 DEF Add
<1>9. ASSUME NEW a \in Addrs, Remove(a) PROVE ServedAreHealthy'
  <2>1. PICK f \in InOrder(DOMAIN state \ At(state, a)) : state' = Along(state, f)
    BY <1>9 DEF Remove
  <2>2. \A j \in DOMAIN state' : \E k \in DOMAIN state : state'[j] = state[k]
    BY <1>0, <2>1, AlongFacts
  <2> QED BY <2>2, ServedPreserved
<1>10. ASSUME NEW c \in Callers,
              CallGet(c) \/ Arm(c) \/ Miss(c) \/ Record(c) \/ CheckExhausted(c) \/ Wake(c)
              \/ VerifyPassed(c) \/ GiveUp(c) \/ Abandon(c) \/ GateStep(c)
       PROVE  ServedAreHealthy'
  BY <1>1, <1>10 DEF CallGet, BeginGet, Arm, Miss, Record, CheckExhausted, Wake, VerifyPassed,
                     GiveUp, Abandon, GateStep, CallWaitReady, CheckReady, WakeGate
<1>11. ASSUME NEW t \in Callers \cup {Importer}, Notify(t) PROVE ServedAreHealthy'
  BY <1>1, <1>11 DEF Notify
<1>12. ASSUME SourceEnds \/ Tick \/ UNCHANGED vars PROVE ServedAreHealthy'
  BY <1>1, <1>12 DEF SourceEnds, Tick, vars
<1> QED BY <1>2, <1>5, <1>7, <1>8, <1>9, <1>10, <1>11, <1>12
        DEF Next, CallerStep, GetStep, GateStep, Quiet

(* No put lets an unhealthy proxy back into the pool. *)
THEOREM OnlyHealthyReturn == Spec => []ServedAreHealthy
  BY InitTyped, TypedStep, InitServed, ServedStep, PTL DEF Spec

(***************************************************************************)
(* When get answers None.                                                  *)
(***************************************************************************)

(* A caller takes its last look only at a pool whose source is exhausted,    *)
(* and exhausted is never reset.                                             *)
LastIsExhausted == \A c \in Callers : pc[c] = "last" => exhausted

LEMMA LastStep == Typed /\ LastIsExhausted /\ [Next]_vars => LastIsExhausted'
<1> SUFFICES ASSUME Typed, LastIsExhausted, [Next]_vars PROVE LastIsExhausted'
  OBVIOUS
<1> USE DEF poolVars, feedVars, callVars
<1>0. pc \in [Callers -> Places]
  BY DEF Typed, TypeOK
<1>1. ASSUME NEW c \in Callers, CheckExhausted(c) PROVE LastIsExhausted'
  BY <1>0, <1>1 DEF CheckExhausted, Goto, LastIsExhausted
<1>2. ASSUME NEW c \in Callers, NEW to, Goto(c, to), to # "last", exhausted' = exhausted
      PROVE  LastIsExhausted'
  BY <1>0, <1>2 DEF Goto, LastIsExhausted
<1>3. ASSUME NEW c \in Callers, CallerStep(c), ~CheckExhausted(c) PROVE LastIsExhausted'
  <2>1. exhausted' = exhausted
    BY <1>3 DEF CallerStep, CallGet, BeginGet, GetStep, Arm, Select, Miss, Record, Wake,
                VerifyPassed, VerifyFailed, GateStep, CallWaitReady, CheckReady, WakeGate,
                ReturnOk, ReturnFailed, GiveUp, Abandon
  <2>2. \E to : Goto(c, to) /\ to # "last"
    <3>1. CASE CallGet(c) \/ Arm(c) \/ Miss(c) \/ Wake(c) \/ VerifyPassed(c) \/ VerifyFailed(c)
      BY <3>1 DEF CallGet, BeginGet, Arm, Miss, Wake, VerifyPassed, VerifyFailed
    <3>2. CASE Select(c) \/ Record(c)
      BY <3>2 DEF Select, Take, Record, Chosen
    <3>3. CASE GateStep(c)
      BY <3>3 DEF GateStep, CallWaitReady, CheckReady, WakeGate
    <3>4. CASE ReturnOk(c) \/ ReturnFailed(c) \/ GiveUp(c) \/ Abandon(c)
      BY <3>4 DEF ReturnOk, ReturnFailed, GiveUp, Abandon, Finish
    <3> QED BY <1>3, <3>1, <3>2, <3>3, <3>4 DEF CallerStep, GetStep
  <2> QED BY <1>2, <2>1, <2>2
<1>4. ASSUME UNCHANGED pc, exhausted' = exhausted \/ exhausted' = TRUE PROVE LastIsExhausted'
  BY <1>4 DEF LastIsExhausted
<1>5. ASSUME NEW t \in Callers \cup {Importer}, Notify(t) PROVE LastIsExhausted'
  BY <1>4, <1>5 DEF Notify
<1>6. CASE Import \/ SourceEnds \/ Tick \/ UNCHANGED vars
  BY <1>4, <1>6 DEF Import, SourceEnds, Tick, vars
<1>7. ASSUME NEW p \in Extra, Add(p) PROVE LastIsExhausted'
  BY <1>4, <1>7 DEF Add
<1>8. ASSUME NEW a \in Addrs, Remove(a) PROVE LastIsExhausted'
  BY <1>4, <1>8 DEF Remove
<1> QED BY <1>1, <1>3, <1>5, <1>6, <1>7, <1>8 DEF Next, Quiet

(* get answers None only for want of a proxy: its verify budget is spent, or *)
(* the source is exhausted and nothing in the pool, at that moment, serves   *)
(* the request.                                                              *)
THEOREM NoneOnlyWhenDry == Spec => NoneMeansDry
<1> DEFINE Dry(c) == \/ failed'[c] >= VerifyMaxAttempts
                     \/ exhausted /\ Eligible(state, req[c].scheme) = {}
           Answer == \A c \in Callers : pc[c] # "none" /\ pc'[c] = "none" => Dry(c)
<1>1. Init => LastIsExhausted
  BY DEF Init, LastIsExhausted
<1>2. Typed /\ LastIsExhausted /\ [Next]_vars => [Answer]_vars
  <2> SUFFICES ASSUME Typed, LastIsExhausted, Next,
                      NEW c \in Callers, pc[c] # "none", pc'[c] = "none"
               PROVE  Dry(c)
    OBVIOUS
  <2> USE DEF poolVars, feedVars, callVars
  <2>0. pc \in [Callers -> Places] /\ failed \in [Callers -> Nat]
    BY DEF Typed, TypeOK
  <2>1. ASSUME NEW d \in Callers, NEW to, Goto(d, to) PROVE d = c /\ to = "none"
    BY <2>0, <2>1 DEF Goto
  <2>2. ASSUME NEW d \in Callers, Miss(d) PROVE Dry(c)
    <3>1. d = c /\ pc[c] = "last"
      BY <2>1, <2>2 DEF Miss, Here
    <3> QED BY <2>2, <3>1, EmptyTier DEF Miss, LastIsExhausted
  <2>3. ASSUME NEW d \in Callers, VerifyFailed(d) PROVE Dry(c)
    <3>1. d = c /\ failed[c] + 1 >= VerifyMaxAttempts
      BY <2>1, <2>3 DEF VerifyFailed
    <3> QED BY <2>0, <2>3, <3>1 DEF VerifyFailed
  <2>4. ASSUME NEW d \in Callers, CallerStep(d), ~Miss(d), ~VerifyFailed(d) PROVE FALSE
    <3>1. CASE CallGet(d) \/ Arm(d) \/ CheckExhausted(d) \/ Wake(d) \/ VerifyPassed(d)
      BY <2>1, <3>1 DEF CallGet, BeginGet, Arm, CheckExhausted, Wake, VerifyPassed
    <3>2. CASE Select(d) \/ Record(d)
      BY <2>1, <3>2 DEF Select, Take, Record, Chosen
    <3>3. CASE GateStep(d)
      BY <2>1, <3>3 DEF GateStep, CallWaitReady, CheckReady, WakeGate
    <3>4. CASE ReturnOk(d) \/ ReturnFailed(d) \/ GiveUp(d) \/ Abandon(d)
      BY <2>1, <3>4 DEF ReturnOk, ReturnFailed, GiveUp, Abandon, Finish
    <3> QED BY <2>4, <3>1, <3>2, <3>3, <3>4 DEF CallerStep, GetStep
  <2>5. pc' # pc
    OBVIOUS
  <2> QED BY <2>2, <2>3, <2>4, <2>5
          DEF Next, Notify, Import, SourceEnds, Add, Remove, Tick, Quiet, vars
<1> QED BY <1>1, <1>2, InitTyped, TypedStep, LastStep, PTL DEF Spec, NoneMeansDry

(***************************************************************************)
(* What a caller holds, and the sticky map.                                *)
(***************************************************************************)

(* A caller comes to hold a proxy by try_select alone, and what it holds and *)
(* what it asked for stay put until it lets go.                              *)
LEMMA HoldsBySelect ==
  ASSUME Typed, [Next]_vars, NEW c \in Callers, pc'[c] \in Holding
  PROVE  /\ req'[c] = req[c]
         /\ \/ pc[c] \in Holding /\ lease'[c] = lease[c]
            \/ /\ pc[c] \in {"select", "last"}
               /\ \E i \in BestFor(state, req[c].scheme, ctx[c]) :
                    i \in DOMAIN state /\ state[i].proxy = lease'[c]
<1> USE DEF poolVars, feedVars, callVars
<1> DEFINE Kept == req'[c] = req[c] /\ pc[c] \in Holding /\ lease'[c] = lease[c]
<1>0. /\ pc \in [Callers -> Places] /\ req \in [Callers -> Requests \cup {NoReq}]
      /\ lease \in [Callers -> Proxy \cup {NoProxy}]
  BY DEF Typed, TypeOK
<1>1. ASSUME NEW d \in Callers, Select(d), d = c
      PROVE  /\ req'[c] = req[c] /\ pc[c] \in {"select", "last"}
             /\ \E i \in BestFor(state, req[c].scheme, ctx[c]) :
                  i \in DOMAIN state /\ state[i].proxy = lease'[c]
  <2>1. PICK i \in BestFor(state, req[c].scheme, ctx[c]) : Take(c, i)
    BY <1>1 DEF Select
  <2>2. i \in DOMAIN state
    BY <2>1, BestForInPool
  <2>3. lease'[c] = state[i].proxy
    BY <1>0, <2>1 DEF Take
  <2> QED BY <1>1, <2>1, <2>2, <2>3 DEF Select, Here
<1>2. ASSUME UNCHANGED <<pc, req, lease>> PROVE Kept
  BY <1>2
<1>3. ASSUME NEW d \in Callers, d # c, NEW to, Goto(d, to),
             \A e \in Callers \ {d} : req'[e] = req[e] /\ lease'[e] = lease[e]
      PROVE  Kept
  BY <1>0, <1>3 DEF Goto
<1>4. ASSUME NEW d \in Callers, CallerStep(d), d # c PROVE Kept
  <2>1. \A e \in Callers \ {d} : req'[e] = req[e] /\ lease'[e] = lease[e]
    BY <1>0, <1>4 DEF CallerStep, CallGet, BeginGet, GetStep, Arm, Select, Take, Miss, Record,
        CheckExhausted, Wake, VerifyPassed, VerifyFailed, GateStep, CallWaitReady, CheckReady,
        WakeGate, ReturnOk, ReturnFailed, GiveUp, Abandon, Finish
  <2>2. \E to : Goto(d, to)
    BY <1>4 DEF CallerStep, CallGet, BeginGet, GetStep, Arm, Select, Take, Miss, Record,
        CheckExhausted, Wake, VerifyPassed, VerifyFailed, GateStep, CallWaitReady, CheckReady,
        WakeGate, ReturnOk, ReturnFailed, GiveUp, Abandon, Finish
  <2> QED BY <1>3, <1>4, <2>1, <2>2
<1>5. ASSUME CallerStep(c), ~Select(c) PROVE Kept
  <2>1. CASE CallGet(c) \/ Arm(c) \/ CheckExhausted(c) \/ Wake(c) \/ Miss(c)
    BY <1>0, <2>1 DEF CallGet, BeginGet, Arm, CheckExhausted, Wake, Miss, Goto, Holding
  <2>2. CASE GateStep(c) \/ ReturnOk(c) \/ ReturnFailed(c) \/ GiveUp(c) \/ Abandon(c)
    BY <1>0, <2>2 DEF GateStep, CallWaitReady, CheckReady, WakeGate, ReturnOk, ReturnFailed,
                      GiveUp, Abandon, Finish, Goto, Holding
  <2>3. CASE Record(c) \/ VerifyPassed(c)
    BY <1>0, <2>3 DEF Record, VerifyPassed, Here, Holding
  <2>4. CASE VerifyFailed(c)
    BY <1>0, <2>4 DEF VerifyFailed, Goto, Holding
  <2> QED BY <1>5, <2>1, <2>2, <2>3, <2>4 DEF CallerStep, GetStep
<1>6. ASSUME NEW t \in Callers \cup {Importer}, Notify(t) PROVE Kept
  BY <1>2, <1>6 DEF Notify
<1>7. CASE Import \/ SourceEnds \/ Tick \/ UNCHANGED vars
  BY <1>2, <1>7 DEF Import, SourceEnds, Tick, vars
<1>8. ASSUME NEW p \in Extra, Add(p) PROVE Kept
  BY <1>2, <1>8 DEF Add
<1>9. ASSUME NEW a \in Addrs, Remove(a) PROVE Kept
  BY <1>2, <1>9 DEF Remove
<1> QED BY <1>1, <1>4, <1>5, <1>6, <1>7, <1>8, <1>9 DEF Next, Quiet

(* The proxy in a caller's hands serves the scheme the caller asked for. *)
LeaseServes == \A c \in Callers : pc[c] \in Holding => req[c].scheme \in SchemesOf(lease[c])

LEMMA LeaseServesStep == Typed /\ LeaseServes /\ [Next]_vars => LeaseServes'
<1> SUFFICES ASSUME Typed, LeaseServes, [Next]_vars, NEW c \in Callers, pc'[c] \in Holding
             PROVE  req'[c].scheme \in SchemesOf(lease'[c])
  BY DEF LeaseServes
<1>1. CASE pc[c] \in Holding /\ lease'[c] = lease[c] /\ req'[c] = req[c]
  BY <1>1 DEF LeaseServes
<1>2. ASSUME NEW i \in BestFor(state, req[c].scheme, ctx[c]),
             state[i].proxy = lease'[c], req'[c] = req[c]
      PROVE  req'[c].scheme \in SchemesOf(lease'[c])
  BY <1>2, BestForInPool DEF Eligible
<1> QED BY <1>1, <1>2, HoldsBySelect

(* get never hands out a proxy that cannot serve the scheme it was asked     *)
(* for, whatever the strategy, the pins and the benches.                     *)
THEOREM LeasesServeTheirScheme == Spec => []LeaseServes
<1>1. Init => LeaseServes
  BY DEF Init, LeaseServes, Holding
<1> QED BY <1>1, InitTyped, TypedStep, LeaseServesStep, PTL DEF Spec

SessionsInv == IsFiniteSet(DOMAIN sessions) /\ SessionsBounded

LEMMA SessionsStep == Typed /\ SessionsInv /\ [Next]_vars => SessionsInv'
<1> SUFFICES ASSUME Typed, SessionsInv, [Next]_vars PROVE SessionsInv'
  OBVIOUS
<1> USE DEF poolVars, feedVars, callVars
<1>1. ASSUME NEW key, NEW addr, RecordSession(key, addr) PROVE SessionsInv'
  <2> DEFINE D == DOMAIN sessions
             cap == IF MaxSessions = 0 THEN 1 ELSE MaxSessions
             full == Cardinality(D) >= MaxSessions /\ key \notin D
  <2>1. IsFiniteSet(D) /\ Cardinality(D) \in Nat /\ Cardinality(D) <= cap /\ cap \in Nat
    BY FS_CardinalityType, PoolAssumption DEF SessionsInv, SessionsBounded
  <2>2. PICK S : /\ sessions' = [k \in S \cup {key} |-> IF k = key THEN addr ELSE sessions[k]]
                 /\ \/ full /\ D # {} /\ \E k \in D : S = D \ {k}
                    \/ ~(full /\ D # {}) /\ S = D
    BY <1>1 DEF RecordSession
  <2>3. DOMAIN sessions' = S \cup {key}
    BY <2>2
  <2>4. CASE full /\ D # {}
    <3>1. PICK k \in D : S = D \ {k}
      BY <2>2, <2>4
    <3>2. IsFiniteSet(S) /\ Cardinality(S) = Cardinality(D) - 1 /\ key \notin S
      BY <2>1, <2>4, <3>1, FS_RemoveElement
    <3>3. IsFiniteSet(S \cup {key}) /\ Cardinality(S \cup {key}) = Cardinality(S) + 1
      BY <3>2, FS_AddElement
    <3>4. Cardinality(S \cup {key}) = Cardinality(D)
      BY <2>1, <3>2, <3>3
    <3> QED BY <2>1, <2>3, <3>3, <3>4 DEF SessionsInv, SessionsBounded
  <2>5. CASE full /\ D = {}
    <3>1. S \cup {key} = {key}
      BY <2>2, <2>5
    <3>2. IsFiniteSet({key}) /\ Cardinality({key}) = 1
      BY FS_Singleton
    <3>3. 1 <= cap
      BY PoolAssumption
    <3> QED BY <2>3, <3>1, <3>2, <3>3 DEF SessionsInv, SessionsBounded
  <2>6. CASE key \in D
    <3>1. S \cup {key} = D
      BY <2>2, <2>6
    <3> QED BY <2>1, <2>3, <3>1 DEF SessionsInv, SessionsBounded
  <2>7. CASE Cardinality(D) < MaxSessions /\ key \notin D
    <3>1. S = D
      BY <2>1, <2>2, <2>7, PoolAssumption
    <3>2. IsFiniteSet(D \cup {key}) /\ Cardinality(D \cup {key}) = Cardinality(D) + 1
      BY <2>1, <2>7, FS_AddElement
    <3> QED BY <2>1, <2>3, <2>7, <3>1, <3>2, PoolAssumption DEF SessionsInv, SessionsBounded
  <2>8. Cardinality(D) >= MaxSessions \/ Cardinality(D) < MaxSessions
    BY <2>1, PoolAssumption
  <2> QED BY <2>4, <2>5, <2>6, <2>7, <2>8
<1>2. ASSUME UNCHANGED sessions PROVE SessionsInv'
  BY <1>2 DEF SessionsInv, SessionsBounded
<1>3. ASSUME NEW c \in Callers, CallerStep(c), ~Record(c) PROVE SessionsInv'
  BY <1>2, <1>3 DEF CallerStep, CallGet, BeginGet, GetStep, Arm, Select, Miss,
        CheckExhausted, Wake, VerifyPassed, VerifyFailed, GateStep, CallWaitReady, CheckReady,
        WakeGate, ReturnOk, ReturnFailed, GiveUp, Abandon
<1>4. ASSUME NEW c \in Callers, Record(c) PROVE SessionsInv'
  BY <1>1, <1>2, <1>4 DEF Record
<1>5. ASSUME NEW t \in Callers \cup {Importer}, Notify(t) PROVE SessionsInv'
  BY <1>2, <1>5 DEF Notify
<1>6. CASE Import \/ SourceEnds \/ Tick \/ UNCHANGED vars
  BY <1>2, <1>6 DEF Import, SourceEnds, Tick, vars
<1>7. ASSUME NEW p \in Extra, Add(p) PROVE SessionsInv'
  BY <1>2, <1>7 DEF Add
<1>8. ASSUME NEW a \in Addrs, Remove(a) PROVE SessionsInv'
  BY <1>2, <1>8 DEF Remove
<1> QED BY <1>3, <1>4, <1>5, <1>6, <1>7, <1>8 DEF Next, Quiet

LEMMA InitSessions == Init => SessionsInv
<1> SUFFICES ASSUME Init PROVE SessionsInv
  OBVIOUS
<1>1. DOMAIN sessions = {}
  BY DEF Init
<1>2. IsFiniteSet({}) /\ Cardinality({}) = 0
  BY FS_EmptySet
<1> QED BY <1>1, <1>2, PoolAssumption DEF SessionsInv, SessionsBounded

(* The sticky map never outgrows its cap, whatever keys the clients choose:  *)
(* record_session drops a pin before it inserts a new client's.              *)
THEOREM StickyMapIsBounded == Spec => []SessionsBounded
<1>1. Spec => []SessionsInv
  BY InitTyped, TypedStep, InitSessions, SessionsStep, PTL DEF Spec
<1> QED BY <1>1, PTL DEF SessionsInv

(***************************************************************************)
(* Pool implements AddrPool.                                               *)
(***************************************************************************)

(* How many entries a vector holds at an address, after each operation. *)
LEMMA AtFinite ==
  ASSUME NEW s \in Seq(Pooled), NEW a
  PROVE  IsFiniteSet(At(s, a)) /\ Cardinality(At(s, a)) \in Nat
         /\ (At(s, a) = {} <=> Cardinality(At(s, a)) = 0)
<1>1. DOMAIN s = 1..Len(s) /\ Len(s) \in Nat
  OBVIOUS
<1>2. IsFiniteSet(DOMAIN s)
  BY <1>1, FS_Interval
<1>3. At(s, a) \in SUBSET DOMAIN s
  BY DEF At
<1> QED BY <1>2, <1>3, FS_Subset, FS_CardinalityType, FS_EmptySet

LEMMA AtAppend ==
  ASSUME NEW s \in Seq(Pooled), NEW e \in Pooled, NEW a
  PROVE  Cardinality(At(Append(s, e), a))
           = IF e.proxy.addr = a THEN Cardinality(At(s, a)) + 1 ELSE Cardinality(At(s, a))
<1>1. At(Append(s, e), a) = IF e.proxy.addr = a THEN At(s, a) \cup {Len(s) + 1} ELSE At(s, a)
  BY AppendFacts DEF At
<1>2. Len(s) + 1 \notin At(s, a)
  BY AppendFacts DEF At
<1> QED BY <1>1, <1>2, AtFinite, FS_AddElement

LEMMA AtSwapRemove ==
  ASSUME NEW s \in Seq(Pooled), NEW i \in DOMAIN s, NEW a
  PROVE  Cardinality(At(SwapRemove(s, i), a))
           = IF s[i].proxy.addr = a THEN Cardinality(At(s, a)) - 1 ELSE Cardinality(At(s, a))
<1> DEFINE t == SwapRemove(s, i)
           last == Len(s)
           rest == At(s, a) \ {i}
<1>1. /\ DOMAIN s = 1..last /\ last \in DOMAIN s /\ last \in Nat
      /\ DOMAIN t = 1..(last - 1)
      /\ \A j \in 1..(last - 1) : t[j] = IF j = i THEN s[last] ELSE s[j]
  BY DEF SwapRemove
<1>2. /\ IsFiniteSet(rest) /\ Cardinality(rest) \in Nat
      /\ Cardinality(rest)
           = IF s[i].proxy.addr = a THEN Cardinality(At(s, a)) - 1 ELSE Cardinality(At(s, a))
  <2>1. i \in At(s, a) <=> s[i].proxy.addr = a
    BY DEF At
  <2> QED BY <2>1, AtFinite, FS_RemoveElement, FS_CardinalityType
<1> HIDE DEF t, last
<1>3. CASE last \notin rest
  <2>1. At(t, a) = rest
    BY <1>1, <1>3 DEF At
  <2> QED BY <1>2, <2>1 DEF t
<1>4. CASE last \in rest
  <2>1. At(t, a) = (rest \ {last}) \cup {i} /\ i \notin rest \ {last}
    BY <1>1, <1>4 DEF At
  <2> HIDE DEF rest
  <2>2. IsFiniteSet(rest \ {last}) /\ Cardinality(rest \ {last}) = Cardinality(rest) - 1
    BY <1>2, <1>4, FS_RemoveElement
  <2>3. Cardinality(At(t, a)) = Cardinality(rest \ {last}) + 1
    BY <2>1, <2>2, FS_AddElement
  <2>4. Cardinality(At(t, a)) = Cardinality(rest)
    BY <1>2, <2>2, <2>3
  <2> QED BY <1>2, <2>4 DEF t
<1> QED BY <1>3, <1>4

(* An increasing enumeration of the kept indices reaches each of them. *)
LEMMA InOrderCovers ==
  ASSUME NEW K, IsFiniteSet(K), NEW f \in InOrder(K),
         \A k, l \in DOMAIN f : f[k] = f[l] => k = l
  PROVE  \A x \in K : \E k \in DOMAIN f : f[k] = x
<1>1. f \in [1..Cardinality(K) -> K] /\ Cardinality(K) \in Nat
  BY FS_CardinalityType DEF InOrder
<1>2. /\ IsFiniteSet(1..Cardinality(K))
      /\ Cardinality(1..Cardinality(K)) = Cardinality(K)
  BY <1>1, FS_Interval
<1>3. f \in Injection(1..Cardinality(K), K)
  BY <1>1 DEF Injection, IsInjective
<1>4. f \in Surjection(1..Cardinality(K), K)
  BY <1>2, <1>3, FS_Injection
<1> QED BY <1>4 DEF Surjection

LEMMA AtRemoved ==
  ASSUME NEW s \in Seq(Pooled), NEW a, NEW f \in InOrder(DOMAIN s \ At(s, a)), NEW b
  PROVE  Cardinality(At(Along(s, f), b)) = IF b = a THEN 0 ELSE Cardinality(At(s, b))
<1> DEFINE t == Along(s, f)
           K == DOMAIN s \ At(s, a)
<1>1. /\ DOMAIN t = DOMAIN f
      /\ \A k \in DOMAIN f : f[k] \in K /\ t[k] = s[f[k]]
      /\ \A k, l \in DOMAIN f : f[k] = f[l] => k = l
  BY AlongFacts
<1>2. IsFiniteSet(K)
  <2>1. DOMAIN s = 1..Len(s) /\ Len(s) \in Nat
    OBVIOUS
  <2>2. IsFiniteSet(DOMAIN s) /\ K \in SUBSET DOMAIN s
    BY <2>1, FS_Interval
  <2> QED BY <2>2, FS_Subset
<1>3. \A x \in K : \E k \in DOMAIN f : f[k] = x
  BY <1>1, <1>2, InOrderCovers
<1> HIDE DEF t
<1>4. CASE b = a
  <2>1. At(t, b) = {}
    BY <1>1, <1>4 DEF At
  <2> QED BY <1>4, <2>1, FS_EmptySet DEF t
<1>5. CASE b # a
  <2> DEFINE g == [k \in At(t, b) |-> f[k]]
  <2>1. \A k \in At(t, b) : f[k] \in At(s, b) /\ k \in DOMAIN f
    BY <1>1 DEF At
  <2>2. \A x \in At(s, b) : x \in K
    BY <1>5 DEF At
  <2>3. \A x \in At(s, b) : \E k \in At(t, b) : f[k] = x
    BY <1>1, <1>3, <2>2 DEF At
  <2>4. g \in [At(t, b) -> At(s, b)]
    BY <2>1
  <2>5. g \in Injection(At(t, b), At(s, b))
    BY <1>1, <2>1, <2>4 DEF Injection, IsInjective
  <2>6. g \in Surjection(At(t, b), At(s, b))
    BY <2>3, <2>4 DEF Surjection
  <2>7. IsFiniteSet(At(s, b))
    BY AtFinite
  <2>8. Cardinality(At(t, b)) = Cardinality(At(s, b))
    BY <2>5, <2>6, <2>7, FS_Injection
  <2> QED BY <1>5, <2>8 DEF t
<1> QED BY <1>4, <1>5

LEMMA HoldersFinite ==
  ASSUME NEW H \in SUBSET Callers
  PROVE  IsFiniteSet(H) /\ Cardinality(H) \in Nat
  BY PoolAssumption, FS_Subset, FS_CardinalityType

(* Callers keep what they hold. *)
LEMMA SameHolders ==
  ASSUME \A c \in Callers : /\ pc'[c] \in Holding <=> pc[c] \in Holding
                            /\ pc[c] \in Holding => lease'[c] = lease[c]
  PROVE  HeldAt' = HeldAt
<1>1. \A a : {c \in Callers : pc'[c] \in Holding /\ lease'[c].addr = a}
              = {c \in Callers : pc[c] \in Holding /\ lease[c].addr = a}
  OBVIOUS
<1> QED BY <1>1 DEF HeldAt

(* One caller takes a proxy. *)
LEMMA OneMoreHolder ==
  ASSUME NEW c \in Callers, pc[c] \notin Holding, pc'[c] \in Holding,
         \A d \in Callers \ {c} : pc'[d] = pc[d] /\ lease'[d] = lease[d]
  PROVE  HeldAt' = ByAddress!More(HeldAt, lease'[c].addr)
<1> DEFINE H(a) == {d \in Callers : pc[d] \in Holding /\ lease[d].addr = a}
           G(a) == {d \in Callers : pc'[d] \in Holding /\ lease'[d].addr = a}
<1>1. \A a : G(a) = IF lease'[c].addr = a THEN H(a) \cup {c} ELSE H(a)
  OBVIOUS
<1>2. \A a : c \notin H(a) /\ IsFiniteSet(H(a)) /\ Cardinality(H(a)) \in Nat
  BY HoldersFinite
<1>3. HeldAt = [a \in Addrs |-> Cardinality(H(a))] /\ HeldAt' = [a \in Addrs |-> Cardinality(G(a))]
  BY DEF HeldAt
<1> HIDE DEF H, G
<1>4. \A a : Cardinality(G(a))
              = IF lease'[c].addr = a THEN Cardinality(H(a)) + 1 ELSE Cardinality(H(a))
  BY <1>1, <1>2, FS_AddElement
<1> QED BY <1>3, <1>4 DEF ByAddress!More

(* One caller lets go of its proxy. *)
LEMMA OneHolderLess ==
  ASSUME NEW c \in Callers, pc[c] \in Holding, pc'[c] \notin Holding,
         lease[c].addr \in Addrs,
         \A d \in Callers \ {c} : pc'[d] = pc[d] /\ lease'[d] = lease[d]
  PROVE  /\ HeldAt' = ByAddress!Less(HeldAt, lease[c].addr)
         /\ HeldAt[lease[c].addr] > 0
<1> DEFINE H(a) == {d \in Callers : pc[d] \in Holding /\ lease[d].addr = a}
           G(a) == {d \in Callers : pc'[d] \in Holding /\ lease'[d].addr = a}
<1>1. \A a : G(a) = IF lease[c].addr = a THEN H(a) \ {c} ELSE H(a)
  OBVIOUS
<1>2. /\ \A a : IsFiniteSet(H(a)) /\ Cardinality(H(a)) \in Nat
      /\ \A a : lease[c].addr = a => c \in H(a)
  BY HoldersFinite
<1>3. HeldAt = [a \in Addrs |-> Cardinality(H(a))] /\ HeldAt' = [a \in Addrs |-> Cardinality(G(a))]
  BY DEF HeldAt
<1> HIDE DEF H, G
<1>4. \A a : Cardinality(G(a))
              = IF lease[c].addr = a THEN Cardinality(H(a)) - 1 ELSE Cardinality(H(a))
  BY <1>1, <1>2, FS_RemoveElement
<1>5. H(lease[c].addr) # {}
  BY <1>2
<1>6. Cardinality(H(lease[c].addr)) > 0
  BY <1>2, <1>5, FS_EmptySet
<1> QED BY <1>3, <1>4, <1>6 DEF ByAddress!Less

(* The vector by address, after each of its operations. *)
LEMMA PooledMoves ==
  ASSUME state \in Seq(Pooled)
  PROVE  /\ state' = state => PooledAt' = PooledAt
         /\ \A e \in Pooled :
              state' = Append(state, e) => PooledAt' = ByAddress!More(PooledAt, e.proxy.addr)
         /\ \A i \in DOMAIN state :
              state' = SwapRemove(state, i) =>
                /\ PooledAt' = ByAddress!Less(PooledAt, state[i].proxy.addr)
                /\ PooledAt[state[i].proxy.addr] > 0
         /\ \A a \in Addrs : \A f \in InOrder(DOMAIN state \ At(state, a)) :
              state' = Along(state, f) => PooledAt' = [PooledAt EXCEPT ![a] = 0]
<1>1. PooledAt = [a \in Addrs |-> Cardinality(At(state, a))]
      /\ PooledAt' = [a \in Addrs |-> Cardinality(At(state', a))]
  BY DEF PooledAt
<1>2. state' = state => PooledAt' = PooledAt
  BY <1>1
<1>3. ASSUME NEW e \in Pooled, state' = Append(state, e)
      PROVE  PooledAt' = ByAddress!More(PooledAt, e.proxy.addr)
  BY <1>1, <1>3, AtAppend DEF ByAddress!More
<1>4. ASSUME NEW i \in DOMAIN state, state' = SwapRemove(state, i)
      PROVE  /\ PooledAt' = ByAddress!Less(PooledAt, state[i].proxy.addr)
             /\ PooledAt[state[i].proxy.addr] > 0
  <2>1. PooledAt' = ByAddress!Less(PooledAt, state[i].proxy.addr)
    BY <1>1, <1>4, AtSwapRemove DEF ByAddress!Less
  <2>2. i \in At(state, state[i].proxy.addr)
    BY DEF At
  <2>3. state[i].proxy.addr \in Addrs
    <3>1. state[i] \in Pooled
      OBVIOUS
    <3>2. state[i].proxy \in Proxy
      BY <3>1 DEF Pooled
    <3> QED BY <3>2 DEF Proxy
  <2>4. Cardinality(At(state, state[i].proxy.addr)) > 0
    BY <2>2, AtFinite
  <2> QED BY <1>1, <2>1, <2>3, <2>4
<1>5. ASSUME NEW a \in Addrs, NEW f \in InOrder(DOMAIN state \ At(state, a)),
             state' = Along(state, f)
      PROVE  PooledAt' = [PooledAt EXCEPT ![a] = 0]
  BY <1>1, <1>5, AtRemoved
<1> QED BY <1>2, <1>3, <1>4, <1>5

LEMMA InitByAddress == Init => ByAddress!AddrInit
<1> SUFFICES ASSUME Init PROVE ByAddress!AddrInit
  OBVIOUS
<1>1. state \in Seq(Pooled)
  BY InitTyped DEF Typed, TypeOK
<1>2. PooledAt \in [Addrs -> Nat]
  BY <1>1, AtFinite DEF PooledAt
<1>3. \A a : {c \in Callers : pc[c] \in Holding /\ lease[c].addr = a} = {}
  BY DEF Init, Holding
<1>4. HeldAt = [a \in Addrs |-> 0]
  BY <1>3, FS_EmptySet DEF HeldAt
<1> QED BY <1>2, <1>4 DEF ByAddress!AddrInit

(* A caller that lets go of its proxy gives it back or dismisses it. *)
LEMMA LettingGoByAddress ==
  ASSUME Typed, NEW c \in Callers, pc[c] \in Holding, pc'[c] \notin Holding,
         \A d \in Callers \ {c} : pc'[d] = pc[d] /\ lease'[d] = lease[d],
         \/ state' = state
         \/ \E e \in Pooled : state' = Append(state, e) /\ e.proxy.addr = lease[c].addr
  PROVE  ByAddress!AddrNext
<1>1. state \in Seq(Pooled) /\ lease[c].addr \in Addrs
  BY DEF Typed, TypeOK, HeldIsProxy, Proxy
<1>2. /\ HeldAt' = ByAddress!Less(HeldAt, lease[c].addr)
      /\ HeldAt[lease[c].addr] > 0
  BY <1>1, OneHolderLess
<1>3. CASE state' = state
  <2>1. ByAddress!Dismiss(lease[c].addr)
    BY <1>1, <1>2, <1>3, PooledMoves DEF ByAddress!Dismiss
  <2> QED BY <1>1, <2>1 DEF ByAddress!AddrNext
<1>4. ASSUME NEW e \in Pooled, state' = Append(state, e), e.proxy.addr = lease[c].addr
      PROVE  ByAddress!AddrNext
  <2>1. ByAddress!GiveBack(lease[c].addr)
    BY <1>1, <1>2, <1>4, PooledMoves DEF ByAddress!GiveBack
  <2> QED BY <1>1, <2>1 DEF ByAddress!AddrNext
<1> QED BY <1>3, <1>4

(* Every step of Pool is one of AddrPool's operations, or none. *)
LEMMA StepByAddress == Typed /\ [Next]_vars => [ByAddress!AddrNext]_(ByAddress!addrVars)
<1> SUFFICES ASSUME Typed, [Next]_vars
             PROVE  ByAddress!AddrNext \/ UNCHANGED ByAddress!addrVars
  OBVIOUS
<1> USE DEF poolVars, feedVars, callVars
<1>0. /\ pc \in [Callers -> Places]
      /\ lease \in [Callers -> Proxy \cup {NoProxy}]
      /\ state \in Seq(Pooled)
  BY DEF Typed, TypeOK
<1>1. ASSUME UNCHANGED <<state, lease>>, \A c \in Callers : pc'[c] \in Holding <=> pc[c] \in Holding
      PROVE  UNCHANGED ByAddress!addrVars
  BY <1>0, <1>1, SameHolders, PooledMoves DEF ByAddress!addrVars
<1>2. ASSUME NEW c \in Callers,
             CallGet(c) \/ Arm(c) \/ Miss(c) \/ CheckExhausted(c) \/ Wake(c) \/ GateStep(c)
      PROVE  UNCHANGED ByAddress!addrVars
  <2>1. UNCHANGED <<state, lease>>
    BY <1>2 DEF CallGet, BeginGet, Arm, Miss, CheckExhausted, Wake,
                GateStep, CallWaitReady, CheckReady, WakeGate
  <2>2. pc[c] \notin Holding
    BY <1>2 DEF CallGet, BeginGet, Arm, Miss, CheckExhausted, Wake, Here, Holding,
                GateStep, CallWaitReady, CheckReady, WakeGate
  <2>3. \E to \in {"arm", "select", "missed", "none", "last", "wait",
                  "gate", "gateWait", "open"} : Goto(c, to)
    BY <1>2 DEF CallGet, BeginGet, Arm, Miss, CheckExhausted, Wake,
                GateStep, CallWaitReady, CheckReady, WakeGate
  <2>4. \A d \in Callers : pc'[d] \in Holding <=> pc[d] \in Holding
    BY <1>0, <2>2, <2>3 DEF Goto, Holding
  <2> QED BY <1>1, <2>1, <2>4
<1>3. ASSUME NEW c \in Callers, Record(c) \/ VerifyPassed(c)
      PROVE  UNCHANGED ByAddress!addrVars
  <2>1. UNCHANGED <<state, lease>> /\ pc[c] \in Holding
    BY <1>3 DEF Record, VerifyPassed, Here, Holding
  <2>2. \E to \in {"verify", "leased"} : Goto(c, to)
    BY <1>3 DEF Record, VerifyPassed, Chosen
  <2>3. \A d \in Callers : pc'[d] \in Holding <=> pc[d] \in Holding
    BY <1>0, <2>1, <2>2 DEF Goto, Holding
  <2> QED BY <1>1, <2>1, <2>3
<1>4. ASSUME NEW c \in Callers, Select(c) PROVE ByAddress!AddrNext
  <2>1. PICK i \in BestFor(state, req[c].scheme, ctx[c]) : Take(c, i)
    BY <1>4 DEF Select
  <2>2. i \in DOMAIN state
    BY <2>1, BestForInPool
  <2> DEFINE a == state[i].proxy.addr
  <2>3. a \in Addrs
    <3>1. state[i] \in Pooled
      BY <1>0, <2>2
    <3>2. state[i].proxy \in Proxy
      BY <3>1 DEF Pooled
    <3> QED BY <3>2 DEF Proxy
  <2>4. /\ state' = SwapRemove(state, i)
        /\ lease'[c] = state[i].proxy
        /\ \A d \in Callers \ {c} : pc'[d] = pc[d] /\ lease'[d] = lease[d]
    BY <1>0, <2>1 DEF Take, Goto
  <2>5. pc[c] \notin Holding /\ pc'[c] \in Holding
    BY <1>0, <1>4, <2>1 DEF Select, Take, Goto, Here, Chosen, Holding
  <2>6. HeldAt' = ByAddress!More(HeldAt, a)
    BY <2>4, <2>5, OneMoreHolder
  <2>7. PooledAt' = ByAddress!Less(PooledAt, a) /\ PooledAt[a] > 0
    BY <1>0, <2>2, <2>4, PooledMoves
  <2> QED BY <2>3, <2>6, <2>7 DEF ByAddress!CheckOut, ByAddress!AddrNext
<1>5. ASSUME NEW c \in Callers, VerifyFailed(c) PROVE ByAddress!AddrNext
  <2>1. pc[c] \in Holding /\ lease[c] \in Proxy /\ clock + FailTimeout \in Nat
    BY <1>5, PoolAssumption DEF VerifyFailed, Here, Holding, Typed, HeldIsProxy, TypeOK
  <2>2. \/ state' = state
        \/ \E e \in Pooled : state' = Append(state, e) /\ e.proxy.addr = lease[c].addr
    BY <1>5, <2>1 DEF VerifyFailed, PutFailed, PutInner, Pooled
  <2>3. /\ pc'[c] \notin Holding
        /\ \A d \in Callers \ {c} : pc'[d] = pc[d] /\ lease'[d] = lease[d]
    BY <1>0, <1>5 DEF VerifyFailed, Goto, Holding
  <2> QED BY <2>1, <2>2, <2>3, LettingGoByAddress
<1>6. ASSUME NEW c \in Callers, Finish(c)
      PROVE  /\ pc'[c] \notin Holding
             /\ \A d \in Callers \ {c} : pc'[d] = pc[d] /\ lease'[d] = lease[d]
  BY <1>0, <1>6 DEF Finish, Goto, Holding
<1>7. ASSUME NEW c \in Callers, ReturnOk(c) \/ ReturnFailed(c) PROVE ByAddress!AddrNext
  <2>1. pc[c] \in Holding /\ lease[c] \in Proxy /\ clock + FailTimeout \in Nat
    BY <1>7, PoolAssumption
    DEF ReturnOk, ReturnFailed, Here, Holding, Typed, HeldIsProxy, TypeOK
  <2>2. PICK p \in Proxy, u \in Nat : p.addr = lease[c].addr /\ PutInner(c, p, u)
    BY <1>7, <2>1, RecordFacts DEF ReturnOk, ReturnFailed, PutOk, PutFailed
  <2>3. \/ state' = state
        \/ \E e \in Pooled : state' = Append(state, e) /\ e.proxy.addr = lease[c].addr
    BY <2>2 DEF PutInner, Pooled
  <2>4. Finish(c)
    BY <1>7 DEF ReturnOk, ReturnFailed
  <2> QED BY <1>6, <2>1, <2>3, <2>4, LettingGoByAddress
<1>8. ASSUME NEW c \in Callers, GiveUp(c) \/ Abandon(c)
      PROVE  ByAddress!AddrNext \/ UNCHANGED ByAddress!addrVars
  <2>1. Finish(c) /\ UNCHANGED state
    BY <1>8 DEF GiveUp, Abandon
  <2>2. CASE pc[c] \in Holding
    BY <1>6, <2>1, <2>2, LettingGoByAddress
  <2>3. CASE pc[c] \notin Holding
    BY <1>0, <1>6, <2>1, <2>3, SameHolders, PooledMoves DEF ByAddress!addrVars
  <2> QED BY <2>2, <2>3
<1>9. ASSUME NEW p \in Feed \cup Extra, UNCHANGED <<pc, lease>>, state' = Append(state, Fresh(p))
      PROVE  /\ p.addr \in Addrs
             /\ PooledAt' = ByAddress!More(PooledAt, p.addr) /\ HeldAt' = HeldAt
  <2>1. Fresh(p) \in Pooled /\ Fresh(p).proxy = p
    BY PoolAssumption DEF Fresh, Pooled
  <2> QED BY <1>0, <1>9, <2>1, PooledMoves, SameHolders DEF Addrs
<1>10. ASSUME Import PROVE ByAddress!AddrNext \/ UNCHANGED ByAddress!addrVars
  <2>1. PICK p \in outside \cap Feed : state' = state \/ state' = Append(state, Fresh(p))
    BY <1>10 DEF Import
  <2>2. UNCHANGED <<pc, lease>>
    BY <1>10 DEF Import
  <2>3. CASE state' = state
    BY <1>1, <2>2, <2>3
  <2>4. CASE state' = Append(state, Fresh(p))
    BY <1>9, <2>2, <2>4 DEF ByAddress!Admit, ByAddress!AddrNext
  <2> QED BY <2>1, <2>3, <2>4
<1>11. ASSUME NEW p \in Extra, Add(p) PROVE ByAddress!AddrNext \/ UNCHANGED ByAddress!addrVars
  <2>1. UNCHANGED <<pc, lease>>
    BY <1>11 DEF Add
  <2>2. CASE state' = state
    BY <1>1, <2>1, <2>2
  <2>3. CASE At(state, p.addr) = {} /\ state' = Append(state, Fresh(p))
    <3>1. /\ p.addr \in Addrs
          /\ PooledAt' = ByAddress!More(PooledAt, p.addr) /\ HeldAt' = HeldAt
      BY <1>9, <2>1, <2>3
    <3>2. PooledAt[p.addr] = 0
      BY <2>3, <3>1, FS_EmptySet DEF PooledAt
    <3>3. ByAddress!AddAddr(p.addr)
      BY <3>1, <3>2 DEF ByAddress!AddAddr, ByAddress!Added
    <3> QED BY <3>1, <3>3 DEF ByAddress!AddrNext
  <2> QED BY <1>11, <2>2, <2>3 DEF Add
<1>12. ASSUME NEW a \in Addrs, Remove(a) PROVE ByAddress!AddrNext
  <2>1. PICK f \in InOrder(DOMAIN state \ At(state, a)) : state' = Along(state, f)
    BY <1>12 DEF Remove
  <2>2. PooledAt' = [PooledAt EXCEPT ![a] = 0]
    BY <1>0, <2>1, PooledMoves
  <2>3. HeldAt' = HeldAt
    BY <1>12, SameHolders DEF Remove
  <2> QED BY <2>2, <2>3 DEF ByAddress!RemoveAddr, ByAddress!AddrNext
<1>13. ASSUME NEW t \in Callers \cup {Importer}, Notify(t) PROVE UNCHANGED ByAddress!addrVars
  BY <1>1, <1>13 DEF Notify
<1>14. ASSUME SourceEnds \/ Tick \/ UNCHANGED vars PROVE UNCHANGED ByAddress!addrVars
  BY <1>1, <1>14 DEF SourceEnds, Tick, vars
<1> QED BY <1>2, <1>3, <1>4, <1>5, <1>7, <1>8, <1>10, <1>11, <1>12, <1>13, <1>14
        DEF Next, CallerStep, GetStep, GateStep, Quiet

(* Pool implements AddrPool, the pool that LivePool composes with the tasks  *)
(* around it: counted by address, its vector and its leases only ever change *)
(* by an admission, an add, a remove, a check-out, a return or a dismissal.  *)
THEOREM PoolImplementsAddrPool == Spec => ImplementsAddrPool
  BY InitTyped, TypedStep, InitByAddress, StepByAddress, PTL
  DEF Spec, ImplementsAddrPool, ByAddress!AddrSpec

(* The whole inductive invariant: leases, sleepers and health together. *)
THEOREM PoolIsSound == Spec => []PoolInv
<1>1. Spec => [](Typed /\ Exclusive /\ Wakeups /\ ServedAreHealthy)
  BY InitTyped, TypedStep, InitExclusive, ExclusiveStep, InitWakeups, WakeupsStep,
     InitServed, ServedStep, PTL DEF Spec
<1>2. Typed /\ Exclusive /\ Wakeups /\ ServedAreHealthy => PoolInv
  BY DEF Typed, Exclusive, Wakeups, PoolInv
<1> QED BY <1>1, <1>2, PTL

(***************************************************************************)
(* What a caller does with a proxy keeps it in the pool or in its hands.   *)
(***************************************************************************)

(* A caller that returns its proxy puts it in the pool, or evicts it. *)
LEMMA ReturnKeepsPooled ==
  ASSUME Typed, NEW c \in Callers, pc[c] \in Holding, NEW p \in Proxy, p.id = lease[c].id,
         NEW u \in Nat, PutInner(c, p, u)
  PROVE  evictions' = evictions + 1 \/ InPool' = InPool \cup {lease[c].id}
<1>1. CASE Unhealthy(p)
  BY <1>1 DEF PutInner
<1>2. CASE ~Unhealthy(p)
  <2> DEFINE e == [proxy |-> p, until |-> u]
  <2>1. state' = Append(state, e)
    BY <1>2 DEF PutInner
  <2>2. state \in Seq(Pooled) /\ e \in Pooled /\ e.proxy = p
    BY DEF Typed, TypeOK, Pooled
  <2> HIDE DEF e
  <2>3. /\ DOMAIN state' = DOMAIN state \cup {Len(state) + 1}
        /\ state'[Len(state) + 1] = e
        /\ \A i \in DOMAIN state : state'[i] = state[i]
    BY <2>1, <2>2, AppendFacts
  <2>4. InPool' = InPool \cup {lease[c].id}
    BY <2>2, <2>3 DEF InPool
  <2> QED BY <2>4
<1> QED BY <1>1, <1>2

(* A selection moves one entry into the caller's hands and loses no other. *)
LEMMA SelectMoves ==
  ASSUME Typed, NEW c \in Callers, Select(c)
  PROVE  \E i \in DOMAIN state :
           /\ pc[c] \notin Holding /\ pc'[c] \in Holding /\ lease'[c] = state[i].proxy
           /\ \A d \in Callers \ {c} : pc'[d] = pc[d] /\ lease'[d] = lease[d]
           /\ \A j \in DOMAIN state : j # i => \E k \in DOMAIN state' : state'[k] = state[j]
<1>0. /\ pc \in [Callers -> Places] /\ state \in Seq(Pooled)
      /\ lease \in [Callers -> Proxy \cup {NoProxy}]
  BY DEF Typed, TypeOK
<1>1. PICK i \in BestFor(state, req[c].scheme, ctx[c]) : Take(c, i)
  BY DEF Select
<1>2. i \in DOMAIN state
  BY <1>1, BestForInPool
<1>3. /\ pc'[c] \in Holding /\ lease'[c] = state[i].proxy
      /\ \A d \in Callers \ {c} : pc'[d] = pc[d] /\ lease'[d] = lease[d]
      /\ pc[c] \notin Holding
  BY <1>0, <1>1 DEF Take, Goto, Chosen, Select, Here, Holding
<1>4. \A j \in DOMAIN state : j # i => \E k \in DOMAIN state' : state'[k] = state[j]
  <2> TAKE j \in DOMAIN state
  <2> HAVE j # i
  <2>1. /\ DOMAIN state' = 1..(Len(state) - 1)
        /\ \A k \in 1..(Len(state) - 1) : state'[k] = state[IF k = i THEN Len(state) ELSE k]
    BY <1>0, <1>1, <1>2, SwapRemoveFacts DEF Take
  <2>2. DOMAIN state = 1..Len(state) /\ Len(state) \in Nat
    BY <1>0
  <2>3. CASE j = Len(state)
    <3>1. i \in 1..(Len(state) - 1)
      BY <1>2, <2>2, <2>3
    <3> QED BY <2>1, <2>3, <3>1
  <2>4. CASE j # Len(state)
    <3>1. j \in 1..(Len(state) - 1)
      BY <2>2, <2>4
    <3> QED BY <2>1, <3>1
  <2> QED BY <2>3, <2>4
<1> QED BY <1>2, <1>3, <1>4

(* Nothing in the pool or in a caller's hands is gone. *)
KeepsAll == InPool \cup InHands \subseteq InPool' \cup InHands'

(* Every step of a get in progress and every return keeps the proxy, or      *)
(* evicts it and counts that.                                                *)
LEMMA CallerKeepsAll ==
  ASSUME Typed, NEW c \in Callers,
         CallGet(c) \/ GetStep(c) \/ ReturnOk(c) \/ ReturnFailed(c) \/ GiveUp(c)
  PROVE  KeepsAll \/ evictions' = evictions + 1
<1> USE DEF poolVars, feedVars
<1>0. /\ pc \in [Callers -> Places] /\ state \in Seq(Pooled)
      /\ lease \in [Callers -> Proxy \cup {NoProxy}] /\ clock + FailTimeout \in Nat
  BY PoolAssumption DEF Typed, TypeOK
<1>1. CASE Select(c)
  <2>1. PICK i \in DOMAIN state :
          /\ pc[c] \notin Holding /\ pc'[c] \in Holding /\ lease'[c] = state[i].proxy
          /\ \A d \in Callers \ {c} : pc'[d] = pc[d] /\ lease'[d] = lease[d]
          /\ \A j \in DOMAIN state : j # i => \E k \in DOMAIN state' : state'[k] = state[j]
    BY <1>1, SelectMoves
  <2>2. state[i].proxy.id \in InHands' /\ InHands \subseteq InHands'
    BY <2>1 DEF InHands
  <2>3. InPool \subseteq InPool' \cup InHands'
    BY <2>1, <2>2 DEF InPool
  <2> QED BY <2>2, <2>3 DEF KeepsAll
<1>2. ASSUME pc[c] \in Holding, lease[c] \in Proxy, NEW p \in Proxy, p.id = lease[c].id,
             NEW u \in Nat, PutInner(c, p, u),
             \A d \in Callers \ {c} : pc'[d] = pc[d] /\ lease'[d] = lease[d]
      PROVE  KeepsAll \/ evictions' = evictions + 1
  <2>1. evictions' = evictions + 1 \/ InPool' = InPool \cup {lease[c].id}
    BY <1>2, ReturnKeepsPooled
  <2>2. InHands \subseteq InHands' \cup {lease[c].id}
    BY <1>2 DEF InHands
  <2> QED BY <2>1, <2>2 DEF KeepsAll
<1>3. CASE ReturnOk(c) \/ ReturnFailed(c) \/ VerifyFailed(c)
  <2>1. pc[c] \in Holding /\ lease[c] \in Proxy
    BY <1>3 DEF ReturnOk, ReturnFailed, VerifyFailed, Here, Holding, Typed, HeldIsProxy
  <2>2. \A d \in Callers \ {c} : pc'[d] = pc[d] /\ lease'[d] = lease[d]
    BY <1>0, <1>3 DEF ReturnOk, ReturnFailed, VerifyFailed, Finish, Goto
  <2>3. PICK p \in Proxy, u \in Nat : p.id = lease[c].id /\ PutInner(c, p, u)
    BY <1>0, <1>3, <2>1, RecordFacts
    DEF ReturnOk, ReturnFailed, VerifyFailed, PutOk, PutFailed
  <2> QED BY <1>2, <2>1, <2>2, <2>3
<1>4. CASE CallGet(c) \/ Arm(c) \/ Miss(c) \/ CheckExhausted(c) \/ Wake(c) \/ GiveUp(c)
  <2>1. UNCHANGED state /\ pc[c] \notin Holding
        /\ \A d \in Callers \ {c} : pc'[d] = pc[d] /\ lease'[d] = lease[d]
    BY <1>0, <1>4 DEF CallGet, BeginGet, Arm, Miss, CheckExhausted, Wake, GiveUp, Finish, Goto,
                      Here, Holding
  <2>2. InPool' = InPool /\ InHands \subseteq InHands'
    BY <2>1 DEF InPool, InHands
  <2> QED BY <2>2 DEF KeepsAll
<1>5. CASE Record(c) \/ VerifyPassed(c)
  <2>1. UNCHANGED <<state, lease>> /\ pc'[c] \in Holding
        /\ \A d \in Callers \ {c} : pc'[d] = pc[d]
    BY <1>0, <1>5 DEF Record, VerifyPassed, Goto, Chosen, Holding
  <2>2. InPool' = InPool /\ InHands \subseteq InHands'
    BY <2>1 DEF InPool, InHands
  <2> QED BY <2>2 DEF KeepsAll
<1> QED BY <1>1, <1>3, <1>4, <1>5 DEF GetStep

(* So do the importer, the clock and a notify. *)
LEMMA FeedKeepsAll ==
  ASSUME Typed,
         Import \/ SourceEnds \/ Tick \/ UNCHANGED vars
         \/ \E t \in Callers \cup {Importer} : Notify(t)
  PROVE  KeepsAll
<1> USE DEF poolVars, feedVars, callVars
<1>1. /\ UNCHANGED <<pc, lease>>
      /\ UNCHANGED state \/ \E p \in Feed : state' = Append(state, Fresh(p))
  BY DEF Import, SourceEnds, Tick, Notify, vars
<1>2. InHands' = InHands
  BY <1>1 DEF InHands
<1>3. CASE UNCHANGED state
  BY <1>2, <1>3 DEF InPool, KeepsAll
<1>4. ASSUME NEW p \in Feed, state' = Append(state, Fresh(p)) PROVE KeepsAll
  <2>1. state \in Seq(Pooled) /\ Fresh(p) \in Pooled
    BY PoolAssumption DEF Typed, TypeOK, Fresh, Pooled
  <2>2. DOMAIN state \subseteq DOMAIN state' /\ \A i \in DOMAIN state : state'[i] = state[i]
    BY <1>4, <2>1, AppendFacts
  <2>3. InPool \subseteq InPool'
    BY <2>2 DEF InPool
  <2> QED BY <1>2, <2>3 DEF KeepsAll
<1> QED BY <1>1, <1>3, <1>4

(* Whatever a proxy that can serve a scheme has confirmed, connect_proto     *)
(* finds a protocol to dial it with, and never the one that would terminate  *)
(* the caller's TLS: the connector's put_ok of a proxy it cannot use is      *)
(* never reached, and costs no try.                                          *)
THEOREM EligibleCanTunnel ==
  ASSUME NEW p \in Proxy, NEW scheme \in SchemesOf(p)
  PROVE  /\ ConnectProto(p.types, scheme) # {}
         /\ "Https" \notin ConnectProto(p.types, scheme)
<1>1. CASE TunnelProto(p.types) # {}
  <2>1. "Https" \notin TunnelProto(p.types)
    BY DEF TunnelProto
  <2> QED BY <1>1, <2>1 DEF ConnectProto
<1>2. CASE TunnelProto(p.types) = {}
  <2>1. p.types \cap {"Socks5", "Socks4", "Connect80", "Https"} = {}
    BY <1>2 DEF TunnelProto
  <2>2. scheme = "Http" /\ "Http" \in p.types
    BY <2>1 DEF SchemesOf, Schemes, HttpProtos, HttpsProtos
  <2>3. ConnectProto(p.types, scheme) = {"Http"}
    BY <1>2, <2>2 DEF ConnectProto
  <2> QED BY <2>3
<1> QED BY <1>1, <1>2

(***************************************************************************)
(* Induction over the positions of a vector: a least element, and a set    *)
(* closed under the next position holds them all.                          *)
(***************************************************************************)
LEMMA LeastElement ==
  ASSUME NEW S \in SUBSET Nat, S # {}
  PROVE  \E m \in S : \A n \in S : m <= n
<1> DEFINE R == OpToRel(<, Nat)
<1>1. IsWellFoundedOn(R, Nat)
  BY NatLessThanWellFounded
<1>2. PICK m \in S : \A n \in S : <<n, m>> \notin R
  <2> HIDE DEF R
  <2> QED BY <1>1, WFMin
<1>3. \A n \in S : ~(n < m)
  BY <1>2 DEF OpToRel
<1> HIDE DEF R
<1>4. \A n \in S : m <= n
  BY <1>3
<1> QED BY <1>4

(* What holds at 0 and goes from each position to the next holds up to n. *)
LEMMA UpTo ==
  ASSUME NEW S, NEW n \in Nat, 0 \in S, \A k \in 0..(n - 1) : k \in S => k + 1 \in S
  PROVE  0..n \subseteq S
<1> DEFINE B == (0..n) \ S
<1> SUFFICES ASSUME B # {} PROVE FALSE
  OBVIOUS
<1>1. B \in SUBSET Nat
  OBVIOUS
<1>2. PICK m \in B : \A k \in B : m <= k
  <2> HIDE DEF B
  <2> QED BY <1>1, LeastElement
<1>3. m - 1 \in 0..(n - 1) /\ m - 1 \in S
  BY <1>2
<1> QED BY <1>2, <1>3

(***************************************************************************)
(* best_for: the loop of min_by, the cursor, and the bench.                *)
(***************************************************************************)
LEMMA RoundDivIsNat ==
  ASSUME NEW n \in Nat, NEW d \in Nat \ {0}
  PROVE  RoundDiv(n, d) \in Nat
  BY DEF RoundDiv

LEMMA KeysAreNat ==
  ASSUME NEW p \in Proxy
  PROVE  ErrorKey(p) \in Nat /\ AvgRespTime(p) \in Nat
<1>1. p.reqs \in Nat /\ p.errs \in Nat /\ p.rsum \in Nat /\ p.rn \in Nat /\ p.floor \in Nat
  BY DEF Proxy
<1>2. ErrorRate(p) \in Nat
  <2>1. 100 * p.errs \in Nat
    BY <1>1
  <2> QED BY <1>1, <2>1, RoundDivIsNat DEF ErrorRate
<1>3. AvgRespTime(p) \in Nat
  BY <1>1, RoundDivIsNat DEF AvgRespTime
<1> QED BY <1>1, <1>2, <1>3 DEF ErrorKey

(* The sort key orders the entries, with ties. *)
LEMMA BeforeIsWeakOrder ==
  ASSUME NEW a \in Pooled, NEW b \in Pooled, NEW e \in Pooled
  PROVE  /\ ~(Before(a, b) /\ Before(b, a))
         /\ Before(a, b) => Before(a, e) \/ Before(e, b)
         /\ Before(a, b) /\ Before(b, e) => Before(a, e)
<1> DEFINE cost(x) == IF PreferConnect /\ ~HasConnect(x) THEN 1 ELSE 0
<1>1. \A x \in {a, b, e} :
        ErrorKey(x.proxy) \in Nat /\ AvgRespTime(x.proxy) \in Nat /\ cost(x) \in Nat
  BY KeysAreNat DEF Pooled
<1> HIDE DEF cost
<1>2. \A x, y \in {a, b, e} : Before(x, y) <=>
        \/ ErrorKey(x.proxy) < ErrorKey(y.proxy)
        \/ /\ ErrorKey(x.proxy) = ErrorKey(y.proxy)
           /\ \/ AvgRespTime(x.proxy) < AvgRespTime(y.proxy)
              \/ /\ AvgRespTime(x.proxy) = AvgRespTime(y.proxy)
                 /\ cost(x) < cost(y)
  BY DEF Before, cost
<1> QED BY <1>1, <1>2

(* The minimum among the first n entries, as a set and as the loop holds it. *)
BestUpTo(pool, E, n) == BestByPriority(pool, E \cap (1..n))

MinUpTo(pool, E, n) ==
  IF E \cap (1..n) = {} THEN 0 ELSE CHOOSE b \in E \cap (1..n) : BestUpTo(pool, E, n) = {b}

(* One turn of the min_by loop: the first eligible entry, and a later one    *)
(* against the running minimum.                                              *)
LEMMA MinByStarts ==
  ASSUME NEW pool \in Seq(Pooled), NEW E \in SUBSET DOMAIN pool,
         NEW k \in 0..(Len(pool) - 1), k + 1 \in E, E \cap (1..k) = {}
  PROVE  BestUpTo(pool, E, k + 1) = {k + 1}
<1>1. E \cap (1..(k + 1)) = {k + 1}
  OBVIOUS
<1> QED BY <1>1 DEF BestUpTo, BestByPriority

LEMMA MinByTurn ==
  ASSUME NEW pool \in Seq(Pooled), NEW E \in SUBSET DOMAIN pool,
         NEW k \in 0..(Len(pool) - 1), k + 1 \in E,
         NEW b \in E \cap (1..k), BestUpTo(pool, E, k) = {b}
  PROVE  BestUpTo(pool, E, k + 1) = IF Before(pool[k + 1], pool[b]) THEN {k + 1} ELSE {b}
<1> DEFINE S == E \cap (1..k)
           Wins(i, T) == \A j \in T \ {i} :
             \/ Before(pool[i], pool[j])
             \/ ~Before(pool[j], pool[i]) /\ i < j
<1>0. /\ k \in Nat /\ k + 1 \in Nat /\ DOMAIN pool = 1..Len(pool) /\ Len(pool) \in Nat
      /\ \A i \in DOMAIN pool : pool[i] \in Pooled
      /\ E \cap (1..(k + 1)) = S \cup {k + 1}
  OBVIOUS
<1>1. /\ \A i \in S \cup {k + 1} : pool[i] \in Pooled /\ i \in Nat
      /\ \A i \in S : i < k + 1
      /\ k + 1 \notin S /\ b \in S
  BY <1>0
<1>2. BestUpTo(pool, E, k + 1) = {i \in S \cup {k + 1} : Wins(i, S \cup {k + 1})}
  BY <1>0 DEF BestUpTo, BestByPriority
<1>3. Wins(b, S)
  <2>1. b \in BestByPriority(pool, S)
    BY DEF BestUpTo
  <2> QED BY <2>1 DEF BestByPriority
<1> HIDE DEF S
<1>4. \A x, y, z \in S \cup {k + 1} :
        /\ ~(Before(pool[x], pool[y]) /\ Before(pool[y], pool[x]))
        /\ Before(pool[x], pool[y]) => Before(pool[x], pool[z]) \/ Before(pool[z], pool[y])
        /\ Before(pool[x], pool[y]) /\ Before(pool[y], pool[z]) => Before(pool[x], pool[z])
  BY <1>1, BeforeIsWeakOrder
<1>5. CASE Before(pool[k + 1], pool[b])
  <2>1. \A j \in S : Before(pool[k + 1], pool[j])
    BY <1>1, <1>3, <1>4, <1>5
  <2>2. Wins(k + 1, S \cup {k + 1})
    BY <2>1
  <2>3. ASSUME NEW i \in S PROVE ~Wins(i, S \cup {k + 1})
    <3>1. k + 1 \in (S \cup {k + 1}) \ {i}
      BY <1>1
    <3>2. Before(pool[k + 1], pool[i]) /\ ~Before(pool[i], pool[k + 1])
      BY <1>4, <2>1
    <3> QED BY <3>1, <3>2
  <2> QED BY <1>2, <1>5, <2>2, <2>3
<1>6. CASE ~Before(pool[k + 1], pool[b])
  <2>1. Wins(b, S \cup {k + 1})
    BY <1>1, <1>3, <1>6
  <2>2. ASSUME NEW i \in S \cup {k + 1}, i # b PROVE ~Wins(i, S \cup {k + 1})
    <3>1. CASE i = k + 1
      BY <1>1, <1>6, <3>1
    <3>2. CASE i \in S
      BY <1>1, <1>3, <1>4, <2>2, <3>2
    <3> QED BY <3>1, <3>2
  <2> QED BY <1>1, <1>2, <1>6, <2>1, <2>2
<1> QED BY <1>5, <1>6

(* After n entries the loop has one minimum, once an eligible entry was met. *)
LEMMA OneMinimum ==
  ASSUME NEW pool \in Seq(Pooled), NEW E \in SUBSET DOMAIN pool
  PROVE  \A n \in 0..Len(pool) : E \cap (1..n) # {} =>
           /\ MinUpTo(pool, E, n) \in E \cap (1..n)
           /\ BestUpTo(pool, E, n) = {MinUpTo(pool, E, n)}
<1> DEFINE S == {n \in 0..Len(pool) : E \cap (1..n) # {} =>
                  \E b \in E \cap (1..n) : BestUpTo(pool, E, n) = {b}}
<1>0. Len(pool) \in Nat
  OBVIOUS
<1>1. 0 \in S
  BY <1>0
<1>2. ASSUME NEW k \in 0..(Len(pool) - 1), k \in S PROVE k + 1 \in S
  <2>0. k \in Nat /\ k + 1 \in 0..Len(pool)
    BY <1>0
  <2>1. CASE k + 1 \notin E
    <3>1. E \cap (1..(k + 1)) = E \cap (1..k)
      BY <2>0, <2>1
    <3> QED BY <1>2, <2>0, <3>1 DEF BestUpTo
  <2>2. CASE k + 1 \in E /\ E \cap (1..k) = {}
    <3>1. BestUpTo(pool, E, k + 1) = {k + 1}
      BY <2>2, MinByStarts
    <3>2. k + 1 \in E \cap (1..(k + 1))
      BY <2>0, <2>2
    <3> QED BY <2>0, <3>1, <3>2
  <2>3. ASSUME k + 1 \in E, NEW b \in E \cap (1..k), BestUpTo(pool, E, k) = {b} PROVE k + 1 \in S
    <3>1. BestUpTo(pool, E, k + 1) = IF Before(pool[k + 1], pool[b]) THEN {k + 1} ELSE {b}
      BY <2>3, MinByTurn
    <3>2. k + 1 \in E \cap (1..(k + 1)) /\ b \in E \cap (1..(k + 1))
      BY <2>0, <2>3
    <3> QED BY <2>0, <3>1, <3>2
  <2> QED BY <1>2, <2>1, <2>2, <2>3
<1> HIDE DEF S
<1>3. 0..Len(pool) \subseteq S
  BY <1>0, <1>1, <1>2, UpTo
<1> QED BY <1>3 DEF S, MinUpTo

(* The loop of MinBy is at MinUpTo after n entries. *)
LEMMA MinByIsMinUpTo ==
  ASSUME NEW pool \in Seq(Pooled), NEW E \in SUBSET DOMAIN pool
  PROVE  MinBy(pool, E) = MinUpTo(pool, E, Len(pool))
<1> DEFINE turn(f, n) == IF n = 0 THEN 0
                         ELSE IF n \in E /\ (f[n - 1] = 0 \/ Before(pool[n], pool[f[n - 1]]))
                              THEN n ELSE f[n - 1]
           Loop(f) == f = [n \in 0..Len(pool) |-> turn(f, n)]
           h == [n \in 0..Len(pool) |-> MinUpTo(pool, E, n)]
<1>0. Len(pool) \in Nat /\ DOMAIN pool = 1..Len(pool)
  OBVIOUS
<1>1. ASSUME NEW k \in 0..(Len(pool) - 1), NEW f, f[k] = MinUpTo(pool, E, k)
      PROVE  turn(f, k + 1) = MinUpTo(pool, E, k + 1)
  <2> DEFINE n == k + 1
             b == MinUpTo(pool, E, k)
  <2>0. k \in Nat /\ k \in 0..Len(pool) /\ n \in 0..Len(pool) /\ n # 0 /\ n - 1 = k
    BY <1>0
  <2>1. turn(f, n) = IF n \in E /\ (b = 0 \/ Before(pool[n], pool[b])) THEN n ELSE b
    BY <1>1, <2>0
  <2>2. n \in E => n \in E \cap (1..n)
    BY <2>0
  <2>3. n \notin E => E \cap (1..n) = E \cap (1..k)
    BY <2>0
  <2>4. E \cap (1..k) # {} => b \in E \cap (1..k) /\ BestUpTo(pool, E, k) = {b}
    BY <2>0, OneMinimum
  <2>5. n \in E => BestUpTo(pool, E, n) = {MinUpTo(pool, E, n)}
    BY <2>0, <2>2, OneMinimum
  <2>6. n \in E /\ E \cap (1..k) = {} => BestUpTo(pool, E, n) = {n}
    BY MinByStarts
  <2>12. ASSUME n \in E, E \cap (1..k) # {}
        PROVE  BestUpTo(pool, E, n) = IF Before(pool[n], pool[b]) THEN {n} ELSE {b}
    <3>1. b \in E \cap (1..k) /\ BestUpTo(pool, E, k) = {b}
      BY <2>4, <2>12
    <3> HIDE DEF b
    <3> QED BY <2>12, <3>1, MinByTurn
  <2>7. E \cap (1..k) = {} => b = 0
    BY DEF MinUpTo
  <2>8. E \cap (1..k) # {} => b # 0
    BY <2>0, <2>4
  <2>9. CASE n \notin E
    BY <2>1, <2>3, <2>9 DEF MinUpTo, BestUpTo
  <2> HIDE DEF b, turn
  <2>10. CASE n \in E /\ E \cap (1..k) = {}
    BY <2>1, <2>5, <2>6, <2>7, <2>10
  <2>11. CASE n \in E /\ E \cap (1..k) # {}
    BY <2>1, <2>5, <2>12, <2>8, <2>11
  <2> QED BY <2>9, <2>10, <2>11
<1>2. turn(h, 0) = 0 /\ MinUpTo(pool, E, 0) = 0
  BY DEF MinUpTo
<1>3. Loop(h)
  <2>1. ASSUME NEW n \in 0..Len(pool) PROVE turn(h, n) = MinUpTo(pool, E, n)
    <3>1. CASE n = 0
      BY <1>2, <3>1
    <3>2. CASE n # 0
      <4>1. n - 1 \in 0..(Len(pool) - 1) /\ h[n - 1] = MinUpTo(pool, E, n - 1) /\ (n - 1) + 1 = n
        BY <1>0, <3>2
      <4> HIDE DEF turn, h
      <4> QED BY <1>1, <4>1
    <3> QED BY <3>1, <3>2
  <2> HIDE DEF turn
  <2> QED BY <2>1
<1> DEFINE g == CHOOSE f : Loop(f)
<1>4. Loop(g)
  <2> HIDE DEF h, Loop
  <2> QED BY <1>3
<1>5. MinBy(pool, E) = g[Len(pool)]
  BY DEF MinBy
<1> DEFINE S == {n \in 0..Len(pool) : g[n] = MinUpTo(pool, E, n)}
<1>6. 0..Len(pool) \subseteq S
  <2> HIDE DEF g
  <2>1. \A n \in 0..Len(pool) : g[n] = turn(g, n)
    <3> HIDE DEF turn
    <3> QED BY <1>4
  <2>2. 0 \in S
    BY <1>0, <1>2, <2>1 DEF MinUpTo
  <2>3. ASSUME NEW k \in 0..(Len(pool) - 1), k \in S PROVE k + 1 \in S
    <3>1. k + 1 \in 0..Len(pool) /\ g[k] = MinUpTo(pool, E, k)
      BY <1>0, <2>3
    <3>2. turn(g, k + 1) = MinUpTo(pool, E, k + 1)
      <4> HIDE DEF turn
      <4> QED BY <1>1, <3>1
    <3> HIDE DEF turn
    <3> QED BY <2>1, <3>1, <3>2
  <2> HIDE DEF S
  <2> QED BY <1>0, <2>2, <2>3, UpTo
<1>7. g[Len(pool)] = MinUpTo(pool, E, Len(pool))
  <2> HIDE DEF g
  <2> QED BY <1>0, <1>6
<1> QED BY <1>5, <1>7

(* best_by_priority finds the one entry the min_by loop finds. *)
LEMMA MinByIsBest ==
  ASSUME NEW pool \in Seq(Pooled), NEW E \in SUBSET DOMAIN pool, E # {}
  PROVE  BestByPriority(pool, E) = {MinBy(pool, E)}
<1>1. Len(pool) \in 0..Len(pool) /\ E \cap (1..Len(pool)) = E
  OBVIOUS
<1>2. BestUpTo(pool, E, Len(pool)) = {MinUpTo(pool, E, Len(pool))}
  BY <1>1, OneMinimum
<1> QED BY <1>1, <1>2, MinByIsMinUpTo DEF BestUpTo

(* How many of a set of indices come before one. *)
Rank(R, i) == Cardinality({j \in R : j < i})

LEMMA RankGrows ==
  ASSUME NEW R \in SUBSET Nat, IsFiniteSet(R), NEW i \in R, NEW j \in R, i < j
  PROVE  Rank(R, i) \in Nat /\ Rank(R, j) \in Nat /\ Rank(R, i) < Rank(R, j)
<1> DEFINE A == {x \in R : x < i}
           B == {x \in R : x < j}
<1>1. A \subseteq R /\ B \subseteq R /\ i \in B /\ i \notin A /\ A \cup {i} \subseteq B
  <2>1. \A x \in R : x \in Int /\ (x < i => x < j) /\ ~(i < i)
    OBVIOUS
  <2> QED BY <2>1
<1> HIDE DEF A, B
<1>2. IsFiniteSet(A) /\ IsFiniteSet(B)
  BY <1>1, FS_Subset
<1>3. IsFiniteSet(A \cup {i}) /\ Cardinality(A \cup {i}) = Cardinality(A) + 1
  BY <1>1, <1>2, FS_AddElement
<1>4. Cardinality(A \cup {i}) <= Cardinality(B)
  BY <1>1, <1>2, FS_Subset
<1>5. Cardinality(A) \in Nat /\ Cardinality(B) \in Nat
  BY <1>2, FS_CardinalityType
<1>6. Cardinality(A) < Cardinality(B)
  BY <1>3, <1>4, <1>5
<1> QED BY <1>5, <1>6 DEF Rank, A, B

(* Ranks number a finite set of indices from 0, each once. *)
LEMMA RankFacts ==
  ASSUME NEW R \in SUBSET Nat, IsFiniteSet(R)
  PROVE  /\ Cardinality(R) \in Nat
         /\ \A i \in R : Rank(R, i) \in 0..(Cardinality(R) - 1)
         /\ \A i, j \in R : Rank(R, i) = Rank(R, j) => i = j
         /\ \A r \in 0..(Cardinality(R) - 1) : \E i \in R : Rank(R, i) = r
<1> DEFINE n == Cardinality(R)
           f == [i \in R |-> Rank(R, i)]
<1>1. n \in Nat
  BY FS_CardinalityType
<1>2. ASSUME NEW i \in R PROVE Rank(R, i) \in 0..(n - 1)
  <2> DEFINE A == {j \in R : j < i}
  <2>1. A \subseteq R \ {i} /\ Rank(R, i) = Cardinality(A)
    BY DEF Rank
  <2>2. IsFiniteSet(R \ {i}) /\ Cardinality(R \ {i}) = n - 1
    BY FS_RemoveElement
  <2> HIDE DEF A, n
  <2>3. IsFiniteSet(A) /\ Cardinality(A) <= n - 1
    BY <2>1, <2>2, FS_Subset
  <2>4. Cardinality(A) \in Nat
    BY <2>3, FS_CardinalityType
  <2> QED BY <1>1, <2>1, <2>3, <2>4
<1> HIDE DEF n
<1>3. ASSUME NEW i \in R, NEW j \in R, Rank(R, i) = Rank(R, j) PROVE i = j
  <2>1. ~(i < j) /\ ~(j < i)
    BY <1>3, RankGrows
  <2> QED BY <2>1
<1>4. f \in Injection(R, 0..(n - 1))
  BY <1>2, <1>3 DEF Injection, IsInjective
<1>5. IsFiniteSet(0..(n - 1)) /\ Cardinality(0..(n - 1)) = n
  <2>1. /\ IsFiniteSet(0..(n - 1))
        /\ Cardinality(0..(n - 1)) = IF 0 > n - 1 THEN 0 ELSE (n - 1) - 0 + 1
    BY <1>1, FS_Interval
  <2> QED BY <1>1, <2>1
<1> HIDE DEF f
<1>6. f \in Surjection(R, 0..(n - 1))
  BY <1>4, <1>5, FS_Injection DEF n
<1>7. \A r \in 0..(n - 1) : \E i \in R : f[i] = r
  BY <1>6 DEF Surjection
<1>8. \A i \in R : f[i] = Rank(R, i)
  BY DEF f
<1>9. \A r \in 0..(n - 1) : \E i \in R : Rank(R, i) = r
  BY <1>7, <1>8
<1> QED BY <1>1, <1>2, <1>3, <1>9 DEF n

(* pick[cursor % pick.len()] is one entry. *)
LEMMA NthIsOne ==
  ASSUME NEW pick \in SUBSET Nat, IsFiniteSet(pick), pick # {}, NEW cursor \in Nat
  PROVE  \E i \in pick : Nth(pick, cursor) = {i} /\ Rank(pick, i) = cursor % Cardinality(pick)
<1> DEFINE n == Cardinality(pick)
<1>1. n \in Nat /\ n # 0
  BY FS_EmptySet, FS_CardinalityType
<1> HIDE DEF n
<1>2. cursor % n \in 0..(n - 1)
  BY <1>1
<1>3. PICK i \in pick : Rank(pick, i) = cursor % n
  BY <1>2, RankFacts DEF n
<1>4. \A j \in pick : Rank(pick, j) = cursor % n => j = i
  BY <1>3, RankFacts
<1>5. Nth(pick, cursor) = {j \in pick : Rank(pick, j) = cursor % n}
  BY DEF Nth, Rank, n
<1>6. Nth(pick, cursor) = {i}
  BY <1>3, <1>4, <1>5
<1> QED BY <1>3, <1>6 DEF n

(***************************************************************************)
(* A caller chooses by a clock it read in the past.                        *)
(***************************************************************************)
ChoosesInThePast == \A c \in Callers : ctx[c].now <= clock

LEMMA ChoosesInThePastStep == Typed /\ ChoosesInThePast /\ [Next]_vars => ChoosesInThePast'
<1> SUFFICES ASSUME Typed, ChoosesInThePast, [Next]_vars PROVE ChoosesInThePast'
  OBVIOUS
<1> USE DEF poolVars, feedVars, callVars
<1>0. /\ ctx \in [Callers -> [sticky : Addrs \cup {NoPin}, cursor : Nat, now : Nat]]
      /\ clock \in Nat /\ clock' \in Nat
  BY TypedStep DEF Typed, TypeOK
<1>1. ASSUME UNCHANGED clock,
             UNCHANGED ctx
             \/ \E c \in Callers : \E x \in {CtxNow(c), NoCtx} : ctx' = [ctx EXCEPT ![c] = x]
      PROVE  ChoosesInThePast'
  <2>1. \A c \in Callers : CtxNow(c).now = clock /\ NoCtx.now = 0
    BY DEF CtxNow, NoCtx
  <2>2. \A d \in Callers : ctx'[d] = ctx[d] \/ ctx'[d].now = clock \/ ctx'[d].now = 0
    BY <1>0, <1>1, <2>1
  <2> QED BY <1>0, <1>1, <2>2 DEF ChoosesInThePast
<1>2. ASSUME NEW c \in Callers, CallerStep(c) PROVE ChoosesInThePast'
  <2>1. UNCHANGED clock
    BY <1>2 DEF CallerStep, CallGet, BeginGet, GetStep, GateStep, Arm, Select, Miss, Record,
         CheckExhausted, Wake, VerifyPassed, VerifyFailed, CallWaitReady, CheckReady, WakeGate,
         ReturnOk, ReturnFailed, GiveUp, Abandon
  <2>2. UNCHANGED ctx \/ \E x \in {CtxNow(c), NoCtx} : ctx' = [ctx EXCEPT ![c] = x]
    BY <1>2 DEF CallerStep, CallGet, BeginGet, GetStep, GateStep, Arm, Select, Miss, Record,
         CheckExhausted, Wake, VerifyPassed, VerifyFailed, CallWaitReady, CheckReady, WakeGate,
         ReturnOk, ReturnFailed, GiveUp, Abandon, Finish
  <2> QED BY <1>1, <2>1, <2>2
<1>3. ASSUME Tick PROVE ChoosesInThePast'
  BY <1>0, <1>3 DEF Tick, ChoosesInThePast
<1>4. ASSUME UNCHANGED <<ctx, clock>> PROVE ChoosesInThePast'
  BY <1>1, <1>4
<1>5. ASSUME NEW t \in Callers \cup {Importer}, Notify(t) PROVE ChoosesInThePast'
  BY <1>4, <1>5 DEF Notify
<1>6. ASSUME NEW p \in Extra, Add(p) PROVE ChoosesInThePast'
  BY <1>4, <1>6 DEF Add
<1>7. ASSUME NEW a \in Addrs, Remove(a) PROVE ChoosesInThePast'
  BY <1>4, <1>7 DEF Remove
<1>8. ASSUME Import \/ SourceEnds \/ UNCHANGED vars PROVE ChoosesInThePast'
  BY <1>4, <1>8 DEF Import, SourceEnds, vars
<1> QED BY <1>2, <1>3, <1>5, <1>6, <1>7, <1>8 DEF Next, Quiet

(* Choosing by such a clock and any cursor obeys SelectsBest. *)
LEMMA SelectionLaw == Typed /\ ChoosesInThePast => SelectsBest
<1> SUFFICES ASSUME Typed, ChoosesInThePast, NEW c \in Callers,
                    Eligible(state, req[c].scheme) # {}
             PROVE  LET tier == Tier(state, req[c].scheme, ctx[c].now)
                    IN  /\ BestByPriority(state, tier) = {MinBy(state, tier)}
                        /\ \A cursor \in 0..Len(state) :
                             Cardinality(Nth(ConnectBiased(state, tier), cursor)) = 1
                        /\ \A i \in BestFor(state, req[c].scheme, ctx[c]) :
                             \/ Ready(state[i], clock)
                             \/ \A j \in Eligible(state, req[c].scheme) :
                                  ~Ready(state[j], ctx[c].now)
  BY DEF SelectsBest
<1> DEFINE eligible == Eligible(state, req[c].scheme)
           tier == Tier(state, req[c].scheme, ctx[c].now)
           pick == ConnectBiased(state, tier)
<1>0. /\ state \in Seq(Pooled) /\ clock \in Nat /\ ctx[c].now \in Nat /\ ctx[c].now <= clock
      /\ DOMAIN state = 1..Len(state) /\ Len(state) \in Nat
  BY DEF Typed, TypeOK, ChoosesInThePast
<1>1. tier \in SUBSET DOMAIN state /\ tier # {}
  BY DEF Tier, Eligible
<1>2. pick \in SUBSET DOMAIN state /\ pick # {}
  BY <1>1 DEF ConnectBiased
<1>3. \A i \in tier :
        Ready(state[i], ctx[c].now) \/ \A j \in eligible : ~Ready(state[j], ctx[c].now)
  BY DEF Tier
<1>4. \A i \in BestFor(state, req[c].scheme, ctx[c]) : i \in tier
  BY BestForInTier
<1> HIDE DEF tier, pick, eligible
<1>5. BestByPriority(state, tier) = {MinBy(state, tier)}
  BY <1>0, <1>1, MinByIsBest
<1>6. ASSUME NEW cursor \in 0..Len(state) PROVE Cardinality(Nth(pick, cursor)) = 1
  <2>1. cursor \in Nat /\ pick \in SUBSET Nat
    BY <1>0, <1>2
  <2>2. IsFiniteSet(pick)
    <3>1. IsFiniteSet(1..Len(state))
      BY <1>0, FS_Interval
    <3> QED BY <1>0, <1>2, <3>1, FS_Subset
  <2>3. PICK i : Nth(pick, cursor) = {i}
    BY <1>2, <2>1, <2>2, NthIsOne
  <2> QED BY <2>3, FS_Singleton
<1>7. \A i \in tier : Ready(state[i], ctx[c].now) => Ready(state[i], clock)
  <2>1. \A i \in tier : state[i] \in Pooled
    BY <1>0, <1>1
  <2>2. \A i \in tier : state[i].until \in Nat
    BY <2>1 DEF Pooled
  <2> QED BY <1>0, <2>2 DEF Ready
<1>8. \A i \in BestFor(state, req[c].scheme, ctx[c]) :
        Ready(state[i], clock) \/ \A j \in eligible : ~Ready(state[j], ctx[c].now)
  BY <1>3, <1>4, <1>7
<1> QED BY <1>5, <1>6, <1>8 DEF tier, pick, eligible

(* However callers interleave, best_by_priority answers what the min_by loop *)
(* computes entry by entry, a cursor names exactly one entry, and a proxy    *)
(* that is benched now is chosen only when none was ready at the caller's    *)
(* reading of the clock.                                                     *)
THEOREM SelectionIsLawful == Spec => []SelectsBest
<1>1. Init => ChoosesInThePast
  BY DEF Init, ChoosesInThePast, NoCtx
<1> QED BY <1>1, InitTyped, TypedStep, ChoosesInThePastStep, SelectionLaw, PTL DEF Spec

(* best_for answers whenever something can serve the request, and answers    *)
(* one entry unless the strategy is Random: try_select's early return means  *)
(* that nothing pooled serves the scheme, whatever the strategy, the cursor, *)
(* the pin and the bench windows.                                            *)
THEOREM BestForAnswers ==
  ASSUME NEW pool \in Seq(Pooled), NEW scheme, Eligible(pool, scheme) # {},
         NEW x \in [sticky : Addrs \cup {NoPin}, cursor : Nat, now : Nat]
  PROVE  /\ BestFor(pool, scheme, x) # {}
         /\ Strategy # "Random" => \E i \in DOMAIN pool : BestFor(pool, scheme, x) = {i}
<1> DEFINE tier == Tier(pool, scheme, x.now)
           pick == ConnectBiased(pool, tier)
           pinned == {i \in tier : pool[i].proxy.addr = x.sticky}
<1>0. DOMAIN pool = 1..Len(pool) /\ Len(pool) \in Nat /\ x.cursor \in Nat
  OBVIOUS
<1>1. tier \in SUBSET DOMAIN pool /\ tier # {}
  BY DEF Tier, Eligible
<1>2. pick \in SUBSET DOMAIN pool /\ pick # {}
  BY <1>1 DEF ConnectBiased
<1>3. pinned \in SUBSET DOMAIN pool
  BY <1>1
<1>4. BestFor(pool, scheme, x) =
        CASE Strategy = "Best"       -> BestByPriority(pool, tier)
          [] Strategy = "RoundRobin" -> Nth(pick, x.cursor)
          [] Strategy = "Random"     -> pick
          [] Strategy = "Sticky"     ->
               IF pinned # {} THEN {i \in pinned : \A j \in pinned : i <= j}
               ELSE BestByPriority(pool, tier)
  BY DEF BestFor
<1> HIDE DEF tier, pick, pinned
<1>5. \E i \in DOMAIN pool : BestByPriority(pool, tier) = {i}
  <2>1. BestByPriority(pool, tier) = {MinBy(pool, tier)}
    BY <1>1, MinByIsBest
  <2>2. BestByPriority(pool, tier) \subseteq tier
    BY DEF BestByPriority
  <2> QED BY <1>1, <2>1, <2>2
<1>6. \E i \in DOMAIN pool : Nth(pick, x.cursor) = {i}
  <2>1. IsFiniteSet(1..Len(pool))
    BY <1>0, FS_Interval
  <2>2. IsFiniteSet(pick) /\ pick \in SUBSET Nat
    BY <1>0, <1>2, <2>1, FS_Subset
  <2> QED BY <1>0, <1>2, <2>2, NthIsOne
<1>7. pinned # {} => \E i \in DOMAIN pool : {k \in pinned : \A j \in pinned : k <= j} = {i}
  <2> SUFFICES ASSUME pinned # {}
               PROVE  \E i \in DOMAIN pool : {k \in pinned : \A j \in pinned : k <= j} = {i}
    OBVIOUS
  <2>1. pinned \in SUBSET Nat
    BY <1>0, <1>3
  <2>2. PICK i \in pinned : \A j \in pinned : i <= j
    BY <2>1, LeastElement
  <2>3. \A k \in pinned : (\A j \in pinned : k <= j) => k = i
    <3> SUFFICES ASSUME NEW k \in pinned, \A j \in pinned : k <= j PROVE k = i
      OBVIOUS
    <3>1. k <= i /\ i <= k /\ i \in Nat /\ k \in Nat
      BY <2>1, <2>2
    <3> QED BY <3>1
  <2> QED BY <1>3, <2>2, <2>3
<1>8. Strategy \in {"Best", "RoundRobin", "Random", "Sticky"}
  BY ConfigAssumption DEF Strategies
<1>9. CASE Strategy = "Best"
  BY <1>4, <1>5, <1>9
<1>10. CASE Strategy = "RoundRobin"
  BY <1>4, <1>6, <1>10
<1>11. CASE Strategy = "Random"
  BY <1>2, <1>4, <1>11
<1>12. CASE Strategy = "Sticky"
  BY <1>4, <1>5, <1>7, <1>12
<1> QED BY <1>8, <1>9, <1>10, <1>11, <1>12

(***************************************************************************)
(* A proxy in circulation is one that was fed.                             *)
(***************************************************************************)

(* q is p after some attempts: its counters moved, each attempt was counted  *)
(* once, as a success or as a failure, and nothing else changed.             *)
After(p, q) ==
  /\ q.id = p.id /\ q.addr = p.addr /\ q.types = p.types
  /\ q.country = p.country /\ q.floor = p.floor /\ q.rsum = p.rsum
  /\ q.errs >= p.errs /\ q.rn >= p.rn
  /\ q.reqs - p.reqs = (q.errs - p.errs) + (q.rn - p.rn)

Descends(q) == \E p \in Feed \cup Extra : After(p, q)

LEMMA FedDescends ==
  ASSUME NEW p \in Feed \cup Extra
  PROVE  Descends(p)
<1>1. p \in Proxy
  BY PoolAssumption
<1>2. p.reqs \in Nat /\ p.errs \in Nat /\ p.rn \in Nat
  BY <1>1 DEF Proxy
<1>3. After(p, p)
  BY <1>2 DEF After
<1> QED BY <1>3 DEF Descends

LEMMA RecordDescends ==
  ASSUME NEW q \in Proxy, Descends(q)
  PROVE  Descends(RecordOk(q)) /\ Descends(RecordError(q))
<1>1. PICK p \in Feed \cup Extra : After(p, q)
  BY DEF Descends
<1>2. p \in Proxy
  BY PoolAssumption
<1> DEFINE Counts(r) == r.reqs \in Nat /\ r.errs \in Nat /\ r.rn \in Nat
           Same(r) == /\ r.id = q.id /\ r.addr = q.addr /\ r.types = q.types
                      /\ r.country = q.country /\ r.floor = q.floor /\ r.rsum = q.rsum
<1>3. Counts(p) /\ Counts(q)
  BY <1>2 DEF Proxy
<1>4. /\ Same(RecordOk(q)) /\ RecordOk(q).reqs = q.reqs + 1
      /\ RecordOk(q).rn = q.rn + 1 /\ RecordOk(q).errs = q.errs
  BY DEF RecordOk, Attempted, Proxy
<1>5. /\ Same(RecordError(q)) /\ RecordError(q).reqs = q.reqs + 1
      /\ RecordError(q).rn = q.rn /\ RecordError(q).errs = q.errs + 1
  BY DEF RecordError, Attempted, Proxy
<1>6. After(p, RecordOk(q))
  BY <1>1, <1>3, <1>4 DEF After
<1>7. After(p, RecordError(q))
  BY <1>1, <1>3, <1>5 DEF After
<1> QED BY <1>6, <1>7 DEF Descends

(* In the pool and in the callers' hands. *)
AllDescend ==
  /\ \A i \in DOMAIN state : Descends(state[i].proxy)
  /\ \A c \in Callers : pc[c] \in Holding => Descends(lease[c])

LEMMA InitDescends == Init => AllDescend
<1> SUFFICES ASSUME Init PROVE AllDescend
  OBVIOUS
<1>1. \A i \in DOMAIN state : state[i].proxy \in Feed
  <2>1. CASE Spawn
    BY <2>1 DEF Spawn
  <2>2. CASE FromProxies
    BY <2>2 DEF FromProxies, Orders, Fresh
  <2> QED BY <2>1, <2>2 DEF Init
<1>2. \A c \in Callers : pc[c] \notin Holding
  BY DEF Init, Holding
<1> QED BY <1>1, <1>2, FedDescends DEF AllDescend

(* What a step leaves in the pool was there, was in the hands of the caller  *)
(* that steps, with or without an attempt recorded, or enters now.           *)
LEMMA EntersThePool ==
  ASSUME Typed, [Next]_vars, NEW j \in DOMAIN state'
  PROVE  \/ \E k \in DOMAIN state : state'[j] = state[k]
         \/ state'[j].proxy \in Feed \cup Extra
         \/ \E c \in Callers :
              /\ pc[c] \in Holding
              /\ state'[j].proxy \in {lease[c], RecordOk(lease[c]), RecordError(lease[c])}
<1> USE DEF poolVars, feedVars, callVars
<1> DEFINE Stays == \E k \in DOMAIN state : state'[j] = state[k]
           Comes == state'[j].proxy \in Feed \cup Extra
           Returns(c) ==
             /\ pc[c] \in Holding
             /\ state'[j].proxy \in {lease[c], RecordOk(lease[c]), RecordError(lease[c])}
<1>0. state \in Seq(Pooled) /\ clock + FailTimeout \in Nat
  BY PoolAssumption DEF Typed, TypeOK
<1>1. ASSUME UNCHANGED state PROVE Stays
  BY <1>1
<1>2. ASSUME NEW c \in Callers, Select(c) PROVE Stays
  <2>1. PICK i \in BestFor(state, req[c].scheme, ctx[c]) : Take(c, i)
    BY <1>2 DEF Select
  <2>2. i \in DOMAIN state /\ state' = SwapRemove(state, i)
    BY <2>1, BestForInPool DEF Take
  <2> QED BY <1>0, <2>2, SwapRemoveKeeps
<1>3. ASSUME NEW e \in Pooled, state' = Append(state, e) PROVE Stays \/ state'[j] = e
  BY <1>0, <1>3, AppendFacts
<1>4. ASSUME NEW c \in Callers, VerifyFailed(c) \/ ReturnOk(c) \/ ReturnFailed(c)
      PROVE  Stays \/ Returns(c)
  <2>1. lease[c] \in Proxy /\ pc[c] \in Holding
    BY <1>4 DEF VerifyFailed, ReturnOk, ReturnFailed, Here, Holding, Typed, HeldIsProxy
  <2>2. {lease[c], RecordOk(lease[c]), RecordError(lease[c])} \subseteq Proxy
    BY <2>1, RecordFacts
  <2>3. PICK p \in {lease[c], RecordOk(lease[c]), RecordError(lease[c])}, u \in Nat :
          PutInner(c, p, u)
    BY <1>0, <1>4, <2>1 DEF VerifyFailed, ReturnOk, ReturnFailed, PutOk, PutFailed
  <2>4. [proxy |-> p, until |-> u] \in Pooled /\ [proxy |-> p, until |-> u].proxy = p
    BY <2>2 DEF Pooled
  <2> QED BY <1>1, <1>3, <2>1, <2>3, <2>4 DEF PutInner
<1>5. ASSUME NEW p \in Feed \cup Extra, state' = Append(state, Fresh(p)) PROVE Stays \/ Comes
  <2>1. Fresh(p) \in Pooled /\ Fresh(p).proxy = p
    BY PoolAssumption DEF Fresh, Pooled
  <2> QED BY <1>3, <1>5, <2>1
<1>6. ASSUME Import PROVE Stays \/ Comes
  BY <1>1, <1>5, <1>6 DEF Import
<1>7. ASSUME NEW p \in Extra, Add(p) PROVE Stays \/ Comes
  BY <1>1, <1>5, <1>7 DEF Add
<1>8. ASSUME NEW a \in Addrs, Remove(a) PROVE Stays
  <2>1. PICK f \in InOrder(DOMAIN state \ At(state, a)) : state' = Along(state, f)
    BY <1>8 DEF Remove
  <2> QED BY <1>0, <2>1, AlongFacts
<1>9. ASSUME NEW c \in Callers,
             CallGet(c) \/ Arm(c) \/ Miss(c) \/ Record(c) \/ CheckExhausted(c) \/ Wake(c)
             \/ VerifyPassed(c) \/ GiveUp(c) \/ Abandon(c) \/ GateStep(c)
      PROVE  Stays
  BY <1>1, <1>9 DEF CallGet, BeginGet, Arm, Miss, Record, CheckExhausted, Wake, VerifyPassed,
                    GiveUp, Abandon, GateStep, CallWaitReady, CheckReady, WakeGate
<1>10. ASSUME NEW t \in Callers \cup {Importer}, Notify(t) PROVE Stays
  BY <1>1, <1>10 DEF Notify
<1>11. ASSUME SourceEnds \/ Tick \/ UNCHANGED vars PROVE Stays
  BY <1>1, <1>11 DEF SourceEnds, Tick, vars
<1> HIDE DEF Stays, Comes, Returns
<1>12. Stays \/ Comes \/ \E c \in Callers : Returns(c)
  BY <1>2, <1>4, <1>6, <1>7, <1>8, <1>9, <1>10, <1>11
  DEF Next, CallerStep, GetStep, GateStep, Quiet
<1> QED BY <1>12 DEF Stays, Comes, Returns

LEMMA DescendsStep == Typed /\ AllDescend /\ [Next]_vars => AllDescend'
<1> SUFFICES ASSUME Typed, AllDescend, [Next]_vars PROVE AllDescend'
  OBVIOUS
<1>1. ASSUME NEW j \in DOMAIN state' PROVE Descends(state'[j].proxy)
  <2>1. ASSUME NEW c \in Callers, pc[c] \in Holding
        PROVE  Descends(lease[c]) /\ Descends(RecordOk(lease[c])) /\ Descends(RecordError(lease[c]))
    BY <2>1, RecordDescends DEF AllDescend, Typed, HeldIsProxy
  <2> QED BY <2>1, EntersThePool, FedDescends DEF AllDescend
<1>2. ASSUME NEW c \in Callers, pc'[c] \in Holding PROVE Descends(lease'[c])
  BY <1>2, HoldsBySelect DEF AllDescend
<1> QED BY <1>1, <1>2 DEF AllDescend, Descends

(* Every proxy in the pool and in a caller's hands is one that was fed, with *)
(* its address, protocols and history, and with each attempt since counted   *)
(* once (record_attempt by the relay and the connector): no order of leases, *)
(* probes, returns, evictions, adds and removes makes up or mixes up one.    *)
THEOREM ProxiesKeepTheirRecord == Spec => []AllDescend
  BY InitTyped, TypedStep, InitDescends, DescendsStep, PTL DEF Spec

LEMMA TimesGrows ==
  ASSUME NEW k \in Nat, NEW a \in Int, NEW b \in Int, a < b
  PROVE  k * a + k <= k * b
<1>1. PICK d \in Nat : b = a + 1 + d
  <2>1. b - a - 1 \in Nat /\ b = a + 1 + (b - a - 1)
    OBVIOUS
  <2> QED BY <2>1
<1>2. k * b = k * a + k + k * d
  BY <1>1
<1>3. k * d \in Nat /\ k * a \in Int
  OBVIOUS
<1> QED BY <1>2, <1>3

(* A share of at most the whole rounds to at most 100 per cent. *)
LEMMA RoundedShare ==
  ASSUME NEW e \in Nat, NEW r \in Nat \ {0}, e <= r
  PROVE  RoundDiv(100 * e, r) \in 0..100
<1> DEFINE n == 100 * e
           q == n \div r
           s == n % r
<1>1. n \in Nat /\ n <= r * 100
  OBVIOUS
<1> HIDE DEF n
<1>2. q \in Int /\ s \in 0..(r - 1) /\ n = r * q + s
  BY <1>1
<1>3. RoundDiv(n, r) = IF 2 * s > r \/ (2 * s = r /\ q % 2 = 1) THEN q + 1 ELSE q
  BY DEF RoundDiv
<1> HIDE DEF q, s
<1>4. r * q \in Int /\ r * 100 \in Int
  BY <1>2
<1>5. 0 <= q
  <2>1. CASE q < 0
    <3>1. r * q + r <= r * 0
      BY <1>2, <2>1, TimesGrows
    <3>2. r * 0 = 0
      OBVIOUS
    <3> QED BY <1>1, <1>2, <1>4, <3>1, <3>2
  <2> QED BY <1>2, <2>1
<1>6. q <= 100
  <2>1. CASE 100 < q
    <3>1. r * 100 + r <= r * q
      BY <1>2, <2>1, TimesGrows
    <3> QED BY <1>1, <1>2, <1>4, <3>1
  <2> QED BY <1>2, <2>1
<1>7. q = 100 => s = 0
  BY <1>1, <1>2, <1>4
<1>8. RoundDiv(n, r) \in {q, q + 1} /\ (s = 0 => RoundDiv(n, r) = q)
  BY <1>2, <1>3
<1>9. RoundDiv(n, r) \in 0..100
  BY <1>2, <1>5, <1>6, <1>7, <1>8
<1> QED BY <1>9 DEF n

(* The error rate of everything in circulation is a percentage. *)
RatesAreShares ==
  /\ \A i \in DOMAIN state : ErrorRate(state[i].proxy) \in 0..100
  /\ \A c \in Callers : pc[c] \in Holding => ErrorRate(lease[c]) \in 0..100

(* As long as no proxy is fed with more errors than attempts, no error rate  *)
(* exceeds 100 per cent, whatever is recorded in whatever order: a           *)
(* max_error_rate of 1.0 evicts nothing for its errors.                      *)
THEOREM ErrorRateIsAShare ==
  ASSUME \A p \in Feed \cup Extra : p.errs <= p.reqs
  PROVE  Spec => []RatesAreShares
<1>1. ASSUME NEW q \in Proxy, Descends(q) PROVE ErrorRate(q) \in 0..100
  <2>1. PICK p \in Feed \cup Extra : After(p, q)
    BY <1>1 DEF Descends
  <2>2. p \in Proxy /\ p.errs <= p.reqs
    BY PoolAssumption
  <2>3. /\ p.errs \in Nat /\ p.reqs \in Nat /\ p.rn \in Nat
        /\ q.errs \in Nat /\ q.reqs \in Nat /\ q.rn \in Nat
    BY <2>2 DEF Proxy
  <2>4. q.errs <= q.reqs
    BY <2>1, <2>2, <2>3 DEF After
  <2> QED BY <2>3, <2>4, RoundedShare DEF ErrorRate
<1>2. Typed /\ AllDescend => RatesAreShares
  <2> SUFFICES ASSUME Typed, AllDescend PROVE RatesAreShares
    OBVIOUS
  <2>1. \A i \in DOMAIN state : state[i].proxy \in Proxy
    <3>1. state \in Seq(Pooled)
      BY DEF Typed, TypeOK
    <3>2. \A i \in DOMAIN state : state[i] \in Pooled
      BY <3>1
    <3> QED BY <3>2 DEF Pooled
  <2>2. \A c \in Callers : pc[c] \in Holding => lease[c] \in Proxy
    BY DEF Typed, HeldIsProxy
  <2> QED BY <1>1, <2>1, <2>2 DEF AllDescend, RatesAreShares
<1>3. Spec => []Typed
  BY InitTyped, TypedStep, PTL DEF Spec
<1> QED BY <1>2, <1>3, ProxiesKeepTheirRecord, PTL

=============================================================================
