------------------------------ MODULE Connector ------------------------------
(***************************************************************************)
(* The rotating connector of src/connector.rs on top of Pool: connect(), a *)
(* loop of at most max_tries iterations, each checking a proxy out, picking*)
(* its protocol, dialling and giving it back.  A caller of the pool is a   *)
(* task that makes one connection after another.                           *)
(***************************************************************************)
EXTENDS Pool

CONSTANTS
  MaxTries,  \* RotateConfig::max_tries
  AnyClient  \* the ClientKey of every connect: the unspecified address

VARIABLES
  stage,  \* where each connect is
  scheme, \* the scheme of its URI
  tries,  \* iterations begun
  turns   \* the addresses dialled in a row, all with success

connectVars == <<stage, scheme, tries, turns>>
allVars     == <<vars, connectVars>>

ASSUME ConnectorAssumption ==
  /\ MaxTries \in Nat
  /\ Gates = {}
  /\ \A r \in Requests : r.key = AnyClient

ConnectInit ==
  /\ Init
  /\ stage = [c \in Callers |-> "idle"]
  /\ scheme = [c \in Callers |-> "Http"]
  /\ tries = [c \in Callers |-> 0]
  /\ turns = <<>>

ToStage(c, there) == stage' = [stage EXCEPT ![c] = there]

-----------------------------------------------------------------------------
(* A URI with a host (one without fails at once and touches nothing); a host *)
(* that does not resolve is left to the proxy.  The bound on calls leaves    *)
(* room for every try.                                                       *)
Call(c) ==
  /\ stage[c] = "idle"
  /\ c \notin owes
  /\ calls + MaxTries * Cardinality(Callers) <= MaxCalls
  /\ \E r \in Requests : scheme' = [scheme EXCEPT ![c] = r.scheme]
  /\ tries' = [tries EXCEPT ![c] = 0]
  /\ ToStage(c, "try")
  /\ UNCHANGED <<vars, turns>>

TryNext(c) ==
  /\ stage[c] = "try"
  /\ tries[c] < MaxTries
  /\ BeginGet(c, [scheme |-> scheme[c], key |-> AnyClient])
  /\ tries' = [tries EXCEPT ![c] = @ + 1]
  /\ ToStage(c, "get")
  /\ UNCHANGED <<scheme, turns>>

(* The last error, or "all proxies failed". *)
OutOfTries(c) ==
  /\ stage[c] = "try"
  /\ c \notin owes
  /\ tries[c] = MaxTries
  /\ ToStage(c, "idle")
  /\ UNCHANGED <<vars, scheme, tries, turns>>

(* A failed verify probe is a failure of its proxy: it breaks the row. *)
Getting(c) ==
  /\ stage[c] = "get"
  /\ GetStep(c)
  /\ turns' = IF failed'[c] > failed[c] THEN <<>> ELSE turns
  /\ UNCHANGED <<stage, scheme, tries>>

(* get answered None: NotConnected. *)
NotConnected(c) ==
  /\ stage[c] = "get"
  /\ GiveUp(c)
  /\ ToStage(c, "idle")
  /\ UNCHANGED <<scheme, tries, turns>>

(* A proxy without a protocol for the scheme goes back untouched. *)
Got(c) ==
  /\ stage[c] = "get"
  /\ Here(c, "leased")
  /\ IF ConnectProto(lease[c].types, scheme[c]) # {}
     THEN ToStage(c, "dial") /\ UNCHANGED vars
     ELSE /\ PutOk(c, lease[c])
          /\ Finish(c)
          /\ ToStage(c, "try")
          /\ UNCHANGED <<sessions, round_robin, exhausted, feedVars, calls, clock>>
  /\ UNCHANGED <<scheme, tries, turns>>

(* dial: the socket and the tunnel, each under the timeout. *)
DialOk(c) ==
  /\ stage[c] = "dial"
  /\ ReturnOk(c)
  /\ turns' = IF evictions' > evictions THEN <<>> ELSE Append(turns, lease[c].addr)
  /\ ToStage(c, "idle")
  /\ UNCHANGED <<scheme, tries>>

DialFailsKeeps(c) ==
  /\ stage[c] = "dial"
  /\ Here(c, "leased")
  /\ Finish(c)
  /\ turns' = <<>>
  /\ ToStage(c, "try")
  /\ UNCHANGED <<poolVars, feedVars, calls, owes, clock, scheme, tries>>

DialFails(c) ==
  /\ stage[c] = "dial"
  /\ ReturnFailed(c)
  /\ turns' = <<>>
  /\ ToStage(c, "try")
  /\ UNCHANGED <<scheme, tries>>

(* hyper drops the connect future at an await. *)
Dropped(c) ==
  /\ stage[c] \in {"get", "dial"}
  /\ Abandon(c)
  /\ turns' = <<>>
  /\ ToStage(c, "idle")
  /\ UNCHANGED <<scheme, tries>>

-----------------------------------------------------------------------------
ConnectStep(c) ==
  \/ TryNext(c) \/ OutOfTries(c) \/ Getting(c) \/ NotConnected(c) \/ Got(c)
  \/ DialOk(c) \/ DialFails(c)

(* The rest of the pool; one that changes starts a new row. *)
Feeding ==
  /\ \/ Import /\ turns' = <<>>
     \/ SourceEnds /\ UNCHANGED turns
  /\ UNCHANGED <<stage, scheme, tries>>

PoolStep ==
  \/ Feeding
  \/ \E t \in Callers \cup {Importer} : Notify(t) /\ UNCHANGED connectVars
  \/ Tick /\ turns' = <<>> /\ UNCHANGED <<stage, scheme, tries>>

AllConnected ==
  /\ calls + MaxTries * Cardinality(Callers) > MaxCalls
  /\ \A c \in Callers : stage[c] = "idle"
  /\ UNCHANGED allVars

ConnectNext ==
  \/ \E c \in Callers : Call(c) \/ ConnectStep(c) \/ Dropped(c)
  \/ PoolStep
  \/ AllConnected

ConnectSpec == ConnectInit /\ [][ConnectNext]_allVars

(* The tasks are scheduled, a dial and a probe are under a timeout, and the  *)
(* stream that feeds the pool ends.                                          *)
FairConnect ==
  /\ ConnectSpec
  /\ \A c \in Callers : WF_allVars(ConnectStep(c))
  /\ \A t \in Callers \cup {Importer} : WF_allVars(Notify(t) /\ UNCHANGED connectVars)
  /\ WF_allVars(Feeding)

-----------------------------------------------------------------------------
(* One task that connects round-robin through proxies at different           *)
(* addresses, each of which serves every request it may make.                *)
Rotating ==
  /\ Strategy = "RoundRobin" /\ ~PreferConnect
  /\ \E c \in Callers : Callers = {c}
  /\ \A p \in Feed \cup Extra, r \in Requests : r.scheme \in SchemesOf(p)
  /\ \A p, q \in Feed \cup Extra : p.addr = q.addr => p = q

ReadyAddrs == {state[i].proxy.addr : i \in {j \in DOMAIN state : Ready(state[j], clock)}}

(* Rotation starves nobody, though swap_remove and push reorder the vector   *)
(* at every turn: n + 1 successful dials in a row, one at a time, from a     *)
(* pool of n ready proxies nothing else changes, have used every one.        *)
NobodyStarves ==
  LET n == Cardinality(ReadyAddrs)
      last == (Len(turns) - n)..Len(turns)
  IN  Len(turns) > n /\ (\A c \in Callers : pc[c] = "idle") =>
        ReadyAddrs \subseteq {turns[k] : k \in last}

(* connect gives its proxy back on every path: one leaves only by a counted  *)
(* eviction, or with the future that held it.                                *)
LostOnlyWithFuture ==
  [][InPool \cup InHands \subseteq InPool' \cup InHands'
     \/ evictions' = evictions + 1
     \/ \E c \in Callers : Dropped(c)]_allVars

(* Every connect ends, with a stream or with an error, whatever the proxies  *)
(* it draws do and however little the source yields.                         *)
ConnectEnds == \A c \in Callers : stage[c] = "try" ~> stage[c] = "idle"

=============================================================================
