-------------------------------- MODULE Pool --------------------------------
(***************************************************************************)
(* The shared proxy pool of src/server.rs: Pool::from_proxies, the spawned *)
(* importer, get / try_select / record_session, put_ok / put_failed, add   *)
(* and remove.  Callers are the tasks that check proxies out: the server's *)
(* client handlers and the connector's dials.                              *)
(*                                                                         *)
(* Every critical section of the code is one action: the sessions lock,    *)
(* the state lock, each atomic and each notify_waiters() are separate      *)
(* steps of separate tasks.  get() is the loop                             *)
(*   arm -> select -> (record) -> (verify) -> leased                       *)
(*             `-> missed -> wait -> arm ...                               *)
(*                      `-> last -> (record) -> leased, or none            *)
(* and wait_ready() the loop gate -> gateWait -> gate ... -> open.         *)
(***************************************************************************)
EXTENDS Selection

CONSTANTS
  Callers,        \* tasks that wait on the pool
  Gates,          \* the callers that call wait_ready; the others call get
  Importer,       \* the task spawned by Pool::spawn
  Feed,           \* the proxies of the source stream, or of from_proxies
  Extra,          \* the proxies other tasks pass to add
  MinQueue,       \* the n of wait_ready(n)
  Requests,       \* the (scheme, key) pairs callers ask for
  VerifyOnLease,  \* PoolConfig::verify_on_lease is set
  VerifyMaxAttempts, \* get's constant of that name (8 in the code)
  FailTimeout,    \* PoolConfig::fail_timeout, in clock ticks
  MaxSessions,    \* PoolConfig::max_sessions
  NoProxy,        \* a caller that holds nothing
  MaxCalls,       \* bound: calls of get in a behaviour
  MaxClock        \* bound: clock ticks in a behaviour

VARIABLES
  state,       \* Pool.state: the pooled entries, in vector order
  sessions,    \* Pool.sessions: client key -> pinned address
  round_robin, \* Pool.round_robin
  exhausted,   \* Pool.exhausted
  evictions,   \* Pool.evictions
  outside,     \* the proxies that have not entered the pool yet
  owes,        \* tasks between a push (or the exhausted store) and notify_waiters
  importing,   \* the importer has not seen the end of its stream
  pc,          \* where each caller is in get
  req,         \* what each caller asked for
  ctx,         \* the SelectCtx each caller last built
  woken,       \* callers whose Notified future has fired
  failed,      \* verify_attempts of each caller
  lease,       \* the proxy each caller holds
  clock,       \* tokio::time::Instant::now()
  calls        \* calls of get so far

poolVars == <<state, sessions, round_robin, exhausted, evictions>>
feedVars == <<outside, importing>>
callVars == <<pc, req, ctx, failed, lease, calls>>
vars == <<poolVars, feedVars, callVars, owes, woken, clock>>

Ids   == {p.id : p \in Feed \cup Extra}
Addrs == {p.addr : p \in Feed \cup Extra}
Codes == {p.country : p \in Feed \cup Extra}
Keys  == {r.key : r \in Requests}

(* A proxy keeps its identity and what it can do; its counters move. *)
Proxy ==
  [id : Ids, addr : Addrs, types : SUBSET Protos,
   country : Codes, floor : Nat,
   reqs : Nat, errs : Nat, rsum : Nat, rn : Nat]

Pooled == [proxy : Proxy, until : Nat]

ASSUME PoolAssumption ==
  /\ Feed \subseteq Proxy
  /\ Extra \subseteq Proxy
  /\ IsFiniteSet(Feed) /\ IsFiniteSet(Callers)
  /\ \A p, q \in Feed \cup Extra : p.id = q.id => p = q
  /\ Feed \cap Extra = {}
  /\ Requests \subseteq [scheme : Schemes, key : Keys]
  /\ Importer \notin Callers
  /\ Gates \subseteq Callers
  /\ MinQueue \in Nat
  /\ VerifyOnLease \in BOOLEAN
  /\ VerifyMaxAttempts \in Nat
  /\ FailTimeout \in Nat
  /\ MaxSessions \in Nat
  /\ MaxCalls \in Nat
  /\ MaxClock \in Nat
  /\ NoProxy \notin Proxy
  /\ NoPin \notin Addrs

NoCtx == [sticky |-> NoPin, cursor |-> 0, now |-> 0]
NoReq == [scheme |-> "Http", key |-> NoPin]

Fresh(p) == [proxy |-> p, until |-> 0]

-----------------------------------------------------------------------------
(* Two constructors: spawn starts empty with an importer, from_proxies holds *)
(* the screened proxies (in the order given) and is exhausted at once.       *)

Orders(S) ==
  {f \in [1..Cardinality(S) -> S] : \A i, j \in 1..Cardinality(S) : f[i] = f[j] => i = j}

Spawn ==
  /\ state = <<>>
  /\ exhausted = FALSE
  /\ importing = TRUE
  /\ outside = Feed \cup Extra

FromProxies ==
  /\ \E f \in Orders({p \in Feed : CountryOk(p)}) :
       state = [i \in DOMAIN f |-> Fresh(f[i])]
  /\ exhausted = TRUE
  /\ importing = FALSE
  /\ outside = Extra

Init ==
  /\ Spawn \/ FromProxies
  /\ sessions = << >>
  /\ round_robin = 0
  /\ evictions = 0
  /\ owes = {}
  /\ pc = [c \in Callers |-> "idle"]
  /\ req = [c \in Callers |-> NoReq]
  /\ ctx = [c \in Callers |-> NoCtx]
  /\ woken = {}
  /\ failed = [c \in Callers |-> 0]
  /\ lease = [c \in Callers |-> NoProxy]
  /\ clock = 0
  /\ calls = 0

-----------------------------------------------------------------------------
(* Notify: notify_waiters() wakes every Notified future created before it.   *)

Armed == {"select", "missed", "wait", "gate", "gateWait"}

Wakened == woken \cup {c \in Callers : pc[c] \in Armed}

Notify(t) ==
  /\ t \in owes
  /\ owes' = owes \ {t}
  /\ woken' = Wakened
  /\ UNCHANGED <<poolVars, feedVars, callVars, clock>>

Goto(c, to) == pc' = [pc EXCEPT ![c] = to]

(* A caller runs its own code only when it does not owe a notify. *)
Here(c, at) == pc[c] = at /\ c \notin owes

-----------------------------------------------------------------------------
(* The importer: screen, push, notify; at the end of the stream, exhausted.  *)

ImportSilent ==
  /\ importing
  /\ \E p \in outside \cap Feed :
       /\ outside' = outside \ {p}
       /\ \/ CountryOk(p) /\ state' = Append(state, Fresh(p))
          \/ ~CountryOk(p) /\ UNCHANGED state
  /\ UNCHANGED <<sessions, round_robin, exhausted, evictions, importing,
                 owes, callVars, woken, clock>>

Import ==
  /\ importing
  /\ Importer \notin owes
  /\ \E p \in outside \cap Feed :
       /\ outside' = outside \ {p}
       /\ \/ /\ CountryOk(p)
             /\ state' = Append(state, Fresh(p))
             /\ owes' = owes \cup {Importer}
          \/ /\ ~CountryOk(p)
             /\ UNCHANGED <<state, owes>>
  /\ UNCHANGED <<sessions, round_robin, exhausted, evictions, importing,
                 callVars, woken, clock>>

SourceEndsSilently ==
  /\ importing
  /\ Importer \notin owes
  /\ importing' = FALSE
  /\ exhausted' = TRUE
  /\ UNCHANGED <<state, sessions, round_robin, evictions, outside,
                 callVars, owes, woken, clock>>

(* A stream may end before it has yielded every proxy of Feed. *)
SourceEnds ==
  /\ importing
  /\ Importer \notin owes
  /\ importing' = FALSE
  /\ exhausted' = TRUE
  /\ owes' = owes \cup {Importer}
  /\ UNCHANGED <<state, sessions, round_robin, evictions, outside,
                 callVars, woken, clock>>

-----------------------------------------------------------------------------
(* get *)

BeginGet(c, r) ==
  /\ Here(c, "idle")
  /\ calls < MaxCalls
  /\ calls' = calls + 1
  /\ req' = [req EXCEPT ![c] = r]
  /\ Goto(c, "arm")
  /\ UNCHANGED <<poolVars, feedVars, ctx, failed, lease, owes, woken, clock>>

CallGet(c) == c \notin Gates /\ \E r \in Requests : BeginGet(c, r)

(* What try_select reads before it takes the state lock. *)
CtxNow(c) ==
  [sticky |-> IF Strategy = "Sticky" /\ req[c].key \in DOMAIN sessions
              THEN sessions[req[c].key] ELSE NoPin,
   cursor |-> round_robin,
   now    |-> clock]

(* A new iteration: notified() is created, then the SelectCtx is built. *)
Arm(c) ==
  /\ Here(c, "arm")
  /\ woken' = woken \ {c}
  /\ ctx' = [ctx EXCEPT ![c] = CtxNow(c)]
  /\ Goto(c, "select")
  /\ UNCHANGED <<poolVars, feedVars, req, failed, lease, calls, owes, clock>>

Recording == Strategy \in {"RoundRobin", "Sticky"}

(* Where get goes once try_select has returned a proxy: the last look hands  *)
(* it out as it is.                                                          *)
Chosen(at) == IF at = "select" /\ VerifyOnLease THEN "verify" ELSE "leased"

TakeCopy(c, i) ==
  /\ UNCHANGED state
  /\ lease' = [lease EXCEPT ![c] = state[i].proxy]
  /\ Goto(c, IF ~Recording THEN Chosen(pc[c])
             ELSE IF pc[c] = "select" THEN "record" ELSE "recordLast")

(* The critical section of try_select. *)
Take(c, i) ==
  /\ state' = SwapRemove(state, i)
  /\ lease' = [lease EXCEPT ![c] = state[i].proxy]
  /\ Goto(c, IF ~Recording THEN Chosen(pc[c])
             ELSE IF pc[c] = "select" THEN "record" ELSE "recordLast")

Select(c) ==
  /\ Here(c, "select") \/ Here(c, "last")
  /\ Tier(state, req[c].scheme, ctx[c].now) # {}
  /\ \E i \in BestFor(state, req[c].scheme, ctx[c]) : Take(c, i)
  /\ UNCHANGED <<sessions, round_robin, exhausted, evictions, feedVars,
                 req, ctx, failed, calls, owes, woken, clock>>

Miss(c) ==
  /\ Here(c, "select") \/ Here(c, "last")
  /\ Tier(state, req[c].scheme, ctx[c].now) = {}
  /\ Goto(c, IF pc[c] = "select" THEN "missed" ELSE "none")
  /\ UNCHANGED <<poolVars, feedVars, req, ctx, failed, lease, calls, owes, woken, clock>>

RecordSessionUncapped(key, addr) ==
  sessions' = [k \in DOMAIN sessions \cup {key} |-> IF k = key THEN addr ELSE sessions[k]]

(* record_session: at the cap a new client drops one arbitrary pin. *)
RecordSession(key, addr) ==
  LET full == Cardinality(DOMAIN sessions) >= MaxSessions /\ key \notin DOMAIN sessions
      kept == IF full /\ DOMAIN sessions # {}
              THEN {DOMAIN sessions \ {k} : k \in DOMAIN sessions}
              ELSE {DOMAIN sessions}
  IN  \E S \in kept :
        sessions' = [k \in S \cup {key} |-> IF k = key THEN addr ELSE sessions[k]]

RecordStuck(c) ==
  /\ Here(c, "record") \/ Here(c, "recordLast")
  /\ Goto(c, IF pc[c] = "record" THEN Chosen("select") ELSE "leased")
  /\ UNCHANGED <<poolVars, feedVars, req, ctx, failed, lease, calls, owes, woken, clock>>

(* The bookkeeping of try_select, after the state lock is released. *)
Record(c) ==
  /\ Here(c, "record") \/ Here(c, "recordLast")
  /\ \/ /\ Strategy = "RoundRobin"
        /\ round_robin' = round_robin + 1
        /\ UNCHANGED sessions
     \/ /\ Strategy = "Sticky"
        /\ RecordSession(req[c].key, lease[c].addr)
        /\ UNCHANGED round_robin
  /\ Goto(c, IF pc[c] = "record" THEN Chosen("select") ELSE "leased")
  /\ UNCHANGED <<state, exhausted, evictions, feedVars, req, ctx, failed, lease,
                 calls, owes, woken, clock>>

CheckExhaustedOnce(c) ==
  /\ Here(c, "missed")
  /\ \/ exhausted /\ Goto(c, "none") /\ UNCHANGED ctx
     \/ ~exhausted /\ Goto(c, "wait") /\ UNCHANGED ctx
  /\ UNCHANGED <<poolVars, feedVars, req, failed, lease, calls, owes, woken, clock>>

(* Nothing selected: one last look once the source is exhausted, else wait. *)
CheckExhausted(c) ==
  /\ Here(c, "missed")
  /\ \/ /\ exhausted
        /\ ctx' = [ctx EXCEPT ![c] = CtxNow(c)]
        /\ Goto(c, "last")
     \/ /\ ~exhausted
        /\ UNCHANGED ctx
        /\ Goto(c, "wait")
  /\ UNCHANGED <<poolVars, feedVars, req, failed, lease, calls, owes, woken, clock>>

Wake(c) ==
  /\ Here(c, "wait")
  /\ c \in woken
  /\ Goto(c, "arm")
  /\ UNCHANGED <<poolVars, feedVars, req, ctx, failed, lease, calls, owes, woken, clock>>

-----------------------------------------------------------------------------
(* wait_ready: the waker is created, then len and exhausted are read.  A     *)
(* push or the end of the source between the two reads fires the waker, so   *)
(* reading both at once loses no behaviour.                                  *)

CallWaitReady(c) ==
  /\ c \in Gates
  /\ Here(c, "idle")
  /\ Goto(c, "gate")
  /\ woken' = woken \ {c}
  /\ UNCHANGED <<poolVars, feedVars, req, ctx, failed, lease, calls, owes, clock>>

CheckReadyLenOnly(c) ==
  /\ Here(c, "gate")
  /\ \/ Len(state) >= MinQueue /\ Goto(c, "open")
     \/ Len(state) < MinQueue /\ Goto(c, "gateWait")
  /\ UNCHANGED <<poolVars, feedVars, req, ctx, failed, lease, calls, owes, woken, clock>>

CheckReady(c) ==
  /\ Here(c, "gate")
  /\ \/ /\ Len(state) >= MinQueue \/ exhausted
        /\ Goto(c, "open")
     \/ /\ Len(state) < MinQueue /\ ~exhausted
        /\ Goto(c, "gateWait")
  /\ UNCHANGED <<poolVars, feedVars, req, ctx, failed, lease, calls, owes, woken, clock>>

WakeGate(c) ==
  /\ Here(c, "gateWait")
  /\ c \in woken
  /\ woken' = woken \ {c}
  /\ Goto(c, "gate")
  /\ UNCHANGED <<poolVars, feedVars, req, ctx, failed, lease, calls, owes, clock>>

-----------------------------------------------------------------------------
(* put_ok, put_failed *)

PutUngated(c, p, until) ==
  /\ state' = Append(state, [proxy |-> p, until |-> until])
  /\ owes' = owes \cup {c}
  /\ UNCHANGED evictions

(* put_inner: an unhealthy proxy is evicted, any other goes back. *)
PutInner(c, p, until) ==
  \/ /\ Unhealthy(p)
     /\ evictions' = evictions + 1
     /\ UNCHANGED <<state, owes>>
  \/ /\ ~Unhealthy(p)
     /\ state' = Append(state, [proxy |-> p, until |-> until])
     /\ owes' = owes \cup {c}
     /\ UNCHANGED evictions

PutOk(c, p) == PutInner(c, p, 0)

PutFailedInThePast(c, p) == PutInner(c, p, clock - FailTimeout)

PutFailed(c, p) == PutInner(c, p, clock + FailTimeout)

(* The verify-on-lease probe answers. *)
VerifyPassed(c) ==
  /\ Here(c, "verify")
  /\ Goto(c, "leased")
  /\ UNCHANGED <<poolVars, feedVars, req, ctx, failed, lease, calls, owes, woken, clock>>

VerifyFailed(c) ==
  /\ Here(c, "verify")
  /\ PutFailed(c, lease[c])
  /\ lease' = [lease EXCEPT ![c] = NoProxy]
  /\ failed' = [failed EXCEPT ![c] = @ + 1]
  /\ Goto(c, IF failed[c] + 1 >= VerifyMaxAttempts THEN "none" ELSE "arm")
  /\ UNCHANGED <<sessions, round_robin, exhausted, feedVars, req, ctx, calls, woken, clock>>

(* The caller's locals when it is done with the call. *)
Finish(c) ==
  /\ Goto(c, "idle")
  /\ req' = [req EXCEPT ![c] = NoReq]
  /\ ctx' = [ctx EXCEPT ![c] = NoCtx]
  /\ failed' = [failed EXCEPT ![c] = 0]
  /\ lease' = [lease EXCEPT ![c] = NoProxy]
  /\ woken' = woken \ {c}

(* A caller records how its proxy did and gives it back. *)
ReturnOk(c) ==
  /\ Here(c, "leased")
  /\ PutOk(c, RecordOk(lease[c]))
  /\ Finish(c)
  /\ UNCHANGED <<sessions, round_robin, exhausted, feedVars, calls, clock>>

ReturnFailed(c) ==
  /\ Here(c, "leased")
  /\ PutFailed(c, RecordError(lease[c]))
  /\ Finish(c)
  /\ UNCHANGED <<sessions, round_robin, exhausted, feedVars, calls, clock>>

(* get returned None. *)
GiveUp(c) ==
  /\ Here(c, "none")
  /\ Finish(c)
  /\ UNCHANGED <<poolVars, feedVars, calls, owes, clock>>

(* The future is dropped at an await point; a proxy it holds goes with it. *)
Abandon(c) ==
  /\ Here(c, "wait") \/ Here(c, "verify") \/ Here(c, "leased")
  /\ Finish(c)
  /\ UNCHANGED <<poolVars, feedVars, calls, owes, clock>>

-----------------------------------------------------------------------------
(* add and remove, called by other tasks on a live pool. *)

(* add: no-op when the address is pooled; the notify is under the lock. *)
Add(p) ==
  /\ p \in outside
  /\ outside' = outside \ {p}
  /\ \/ /\ At(state, p.addr) # {}
        /\ UNCHANGED <<state, woken>>
     \/ /\ At(state, p.addr) = {}
        /\ state' = Append(state, Fresh(p))
        /\ woken' = Wakened
  /\ UNCHANGED <<sessions, round_robin, exhausted, evictions, importing, callVars, owes, clock>>

(* remove: every pooled proxy at the address. *)
Remove(addr) ==
  /\ At(state, addr) # {}
  /\ \E f \in InOrder(DOMAIN state \ At(state, addr)) : state' = Along(state, f)
  /\ UNCHANGED <<sessions, round_robin, exhausted, evictions, feedVars, callVars, owes, woken, clock>>

Tick ==
  /\ clock < MaxClock
  /\ clock' = clock + 1
  /\ UNCHANGED <<poolVars, feedVars, callVars, owes, woken>>

-----------------------------------------------------------------------------
(* The steps of a get in progress; the caller is not free to postpone them. *)
GetStep(c) ==
  \/ Arm(c) \/ Select(c) \/ Miss(c) \/ Record(c) \/ CheckExhausted(c) \/ Wake(c)
  \/ VerifyPassed(c) \/ VerifyFailed(c)

GateStep(c) == CallWaitReady(c) \/ CheckReady(c) \/ WakeGate(c)

CallerStep(c) ==
  \/ CallGet(c) \/ GetStep(c) \/ GateStep(c)
  \/ ReturnOk(c) \/ ReturnFailed(c) \/ GiveUp(c) \/ Abandon(c)

(* Every call the bound allows has been made and has ended. *)
Quiet ==
  /\ calls = MaxCalls
  /\ \A c \in Callers : pc[c] = IF c \in Gates THEN "open" ELSE "idle"
  /\ UNCHANGED vars

Next ==
  \/ \E c \in Callers : CallerStep(c)
  \/ \E t \in Callers \cup {Importer} : Notify(t)
  \/ Import
  \/ SourceEnds
  \/ \E p \in Extra : Add(p)
  \/ \E a \in Addrs : Remove(a)
  \/ Tick
  \/ Quiet

Spec == Init /\ [][Next]_vars

-----------------------------------------------------------------------------
Places ==
  {"idle", "arm", "select", "record", "verify", "leased", "missed", "wait", "last",
   "recordLast", "none", "gate", "gateWait", "open"}

TypeOK ==
  /\ state \in Seq(Pooled)
  /\ DOMAIN sessions \subseteq Keys
  /\ \A k \in DOMAIN sessions : sessions[k] \in Addrs
  /\ round_robin \in Nat
  /\ exhausted \in BOOLEAN
  /\ evictions \in Nat
  /\ outside \subseteq Feed \cup Extra
  /\ owes \subseteq Callers \cup {Importer}
  /\ importing \in BOOLEAN
  /\ pc \in [Callers -> Places]
  /\ req \in [Callers -> Requests \cup {NoReq}]
  /\ ctx \in [Callers -> [sticky : Addrs \cup {NoPin}, cursor : Nat, now : Nat]]
  /\ woken \subseteq Callers
  /\ failed \in [Callers -> Nat]
  /\ lease \in [Callers -> Proxy \cup {NoProxy}]
  /\ clock \in Nat
  /\ calls \in Nat

(* A caller holds a proxy between the select and the put. *)
Holding == {"record", "recordLast", "verify", "leased"}

(* Checking a proxy out is exclusive: no value is in two callers' hands, in  *)
(* a caller's hands and in the pool, or twice in the pool (try_select moves  *)
(* it out under the lock, put_inner moves it back).                          *)
ExclusiveLease ==
  /\ \A i, j \in DOMAIN state : state[i].proxy.id = state[j].proxy.id => i = j
  /\ \A c, d \in Callers :
       pc[c] \in Holding /\ pc[d] \in Holding /\ lease[c].id = lease[d].id => c = d
  /\ \A c \in Callers, i \in DOMAIN state :
       pc[c] \in Holding => lease[c].id # state[i].proxy.id

(* No wakeup is lost: a get() that sleeps on its Notified future without a   *)
(* wakeup under way has nothing to wait for in the pool, and the source is   *)
(* still running (the waker is created before the pool is inspected); a      *)
(* wait_ready() asleep is still below its n.                                 *)
NoLostWakeup ==
  \A c \in Callers :
    c \notin woken /\ owes = {} =>
      /\ pc[c] = "wait" => ~exhausted /\ Eligible(state, req[c].scheme) = {}
      /\ pc[c] = "gateWait" => ~exhausted /\ Len(state) < MinQueue

(* put never lets an unhealthy proxy back: one that sits in the pool is as   *)
(* it was when it entered, never leased since (put_inner's eviction).        *)
ServedAreHealthy ==
  \A i \in DOMAIN state :
    Unhealthy(state[i].proxy) => state[i].proxy \in Feed \cup Extra

(* get answers None only when its verify budget is spent, or when the source *)
(* is exhausted and, at that moment, nothing pooled could serve the request  *)
(* (the last look of get).                                                   *)
NoneMeansDry ==
  [][\A c \in Callers : pc[c] # "none" /\ pc'[c] = "none" =>
       \/ failed'[c] >= VerifyMaxAttempts
       \/ exhausted /\ Eligible(state, req[c].scheme) = {}]_vars

InPool  == {state[i].proxy.id : i \in DOMAIN state}
InHands == {lease[c].id : c \in {d \in Callers : pc[d] \in Holding}}

(* The sticky map stays within its cap; a cap of zero still admits the one   *)
(* pin that record_session inserts.                                          *)
SessionsBounded ==
  Cardinality(DOMAIN sessions) <= IF MaxSessions = 0 THEN 1 ELSE MaxSessions

(* What the verify_on_lease documentation says: a proxy is re-probed before  *)
(* it is handed out.                                                         *)
VerifiedBeforeLease ==
  [][\A c \in Callers :
       VerifyOnLease /\ pc[c] # "leased" /\ pc'[c] = "leased" => pc[c] = "verify"]_vars

-----------------------------------------------------------------------------
(* The inductive invariant behind the safety properties. *)

HeldIsProxy == \A c \in Callers : pc[c] \in Holding => lease[c] \in Proxy

AsksForRequest ==
  \A c \in Callers : pc[c] \notin {"idle", "gate", "gateWait", "open"} => req[c] \in Requests

(* A proxy that has not entered is nowhere else. *)
OutsideIsNew ==
  \A p \in outside :
    /\ \A i \in DOMAIN state : state[i].proxy.id # p.id
    /\ \A c \in Callers : pc[c] \in Holding => lease[c].id # p.id

(* What NoLostWakeup needs to be inductive: from the select that found       *)
(* nothing to the sleep, a push is either visible as an owed notify or has   *)
(* already fired the caller's waker.                                         *)
MissIsCurrent ==
  \A c \in Callers :
    pc[c] \in {"missed", "wait"} /\ c \notin woken /\ owes = {} =>
      Eligible(state, req[c].scheme) = {}

SleepsOnlyOnLiveSource ==
  \A c \in Callers :
    pc[c] \in {"wait", "gateWait"} /\ c \notin woken /\ owes = {} => ~exhausted

GateIsCurrent ==
  \A c \in Callers :
    pc[c] = "gateWait" /\ c \notin woken /\ owes = {} => Len(state) < MinQueue

PoolInv ==
  /\ TypeOK
  /\ HeldIsProxy
  /\ AsksForRequest
  /\ ExclusiveLease
  /\ OutsideIsNew
  /\ MissIsCurrent
  /\ SleepsOnlyOnLiveSource
  /\ GateIsCurrent
  /\ ServedAreHealthy

=============================================================================
