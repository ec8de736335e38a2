------------------------------- MODULE Server -------------------------------
(***************************************************************************)
(* The local proxy server of src/server.rs on top of Pool: the accept loop *)
(* of serve (startup gate, connection permits, shutdown) and one           *)
(* handle_client task per connection (parse, 407 gate, proxycontrol, the   *)
(* retry loop around relay).  A client is one connection; its task is a    *)
(* caller of the pool, and the accept loop is the pool's gate.             *)
(*                                                                         *)
(* relay is cut where it awaits: dial (connect + negotiate), forward (the  *)
(* buffered request goes upstream), peek (the status line comes back),     *)
(* commit (the first byte to the client), splice (copy_bidirectional).     *)
(***************************************************************************)
EXTENDS Pool

CONSTANTS
  Acceptor,       \* the accept-loop task
  ClientRequests, \* what clients may send
  ExpectAuth,     \* serve's auth is Some
  StickyHeader,   \* PoolConfig::sticky_header is Some
  MaxTries,       \* PoolConfig::max_tries
  MaxClients,     \* PoolConfig::max_clients
  HistoryCap,     \* History::CAP
  NoRequest       \* a client whose request is not parsed yet

VARIABLES
  acceptor,   \* where the accept loop is
  cancelled,  \* the CancellationToken of ServerHandle
  slots,      \* free permits of the connection semaphore
  phase,      \* where each handle_client is
  want,       \* the ClientRequest of each client
  attempt,    \* iterations of the retry loop begun
  sent,       \* upstreams that took the whole buffered request
  heard,      \* what the client's socket was given after its request, in order
  lastFailed, \* the proxy value whose failure this client saw last
  rotations,  \* Pool.rotations
  history     \* History.map: (peer, request-target) -> address

Clients == Callers \ {Acceptor}

loopVars   == <<acceptor, cancelled, slots>>
clientVars == <<phase, want, attempt, sent, heard, lastFailed>>
serverVars == <<loopVars, clientVars, rotations, history>>
allVars    == <<vars, serverVars>>

ClientRequest ==
  [frontend : {"HttpForward", "HttpConnect", "Socks5"},
   authed : BOOLEAN,             \* the credentials match AuthExpect
   op : {"origin", "remove", "history", "other"}, \* origin, or a proxycontrol operation
   body : BOOLEAN,               \* request_has_body
   ip : Keys, loopback : BOOLEAN, header : Keys \cup {NoPin},
   path : STRING, addr : Addrs]  \* request-target; the address of a remove

ASSUME ServerAssumption ==
  /\ Gates = {Acceptor}
  /\ ClientRequests \subseteq ClientRequest
  /\ [scheme : Schemes, key : Keys] \subseteq Requests
  /\ ExpectAuth \in BOOLEAN /\ StickyHeader \in BOOLEAN
  /\ MaxTries \in Nat /\ MaxClients \in Nat /\ HistoryCap \in Nat
  /\ NoRequest \notin ClientRequest
  /\ MaxCalls >= MaxTries * Cardinality(Clients)

(* Semaphore::new(max_clients.max(1)) *)
Permits == IF MaxClients = 0 THEN 1 ELSE MaxClients

ServerInit ==
  /\ Init
  /\ acceptor = "gate"
  /\ cancelled = FALSE
  /\ slots = Permits
  /\ phase = [c \in Clients |-> "away"]
  /\ want = [c \in Clients |-> NoRequest]
  /\ attempt = [c \in Clients |-> 0]
  /\ sent = [c \in Clients |-> 0]
  /\ heard = [c \in Clients |-> <<>>]
  /\ lastFailed = [c \in Clients |-> 0]
  /\ rotations = 0
  /\ history = << >>

-----------------------------------------------------------------------------
(* serve: the accept loop *)

Shutdown ==
  /\ ~cancelled
  /\ cancelled' = TRUE
  /\ UNCHANGED <<vars, acceptor, slots, clientVars, rotations, history>>

(* wait_ready under select! with the token. *)
GateWaits ==
  /\ acceptor = "gate"
  /\ GateStep(Acceptor)
  /\ UNCHANGED serverVars

GateOpened ==
  /\ acceptor = "gate"
  /\ pc[Acceptor] = "open"
  /\ acceptor' = "acquire"
  /\ UNCHANGED <<vars, cancelled, slots, clientVars, rotations, history>>

AcquirePermit ==
  /\ acceptor = "acquire"
  /\ slots > 0
  /\ slots' = slots - 1
  /\ acceptor' = "accept"
  /\ UNCHANGED <<vars, cancelled, clientVars, rotations, history>>

Accept(c) ==
  /\ acceptor = "accept"
  /\ phase[c] = "away"
  /\ phase' = [phase EXCEPT ![c] = "parse"]
  /\ acceptor' = "acquire"
  /\ UNCHANGED <<vars, cancelled, slots, want, attempt, sent, heard, lastFailed,
                 rotations, history>>

AcceptErrorKeepsPermit ==
  /\ acceptor = "accept"
  /\ acceptor' = "acquire"
  /\ UNCHANGED <<vars, cancelled, slots, clientVars, rotations, history>>

(* accept failed: continue drops the permit. *)
AcceptError ==
  /\ acceptor = "accept"
  /\ acceptor' = "acquire"
  /\ slots' = slots + 1
  /\ UNCHANGED <<vars, cancelled, clientVars, rotations, history>>

(* The cancelled branch of the select!s; a permit in hand is dropped. *)
Stop ==
  /\ cancelled
  /\ acceptor \in {"gate", "acquire", "accept"}
  /\ slots' = IF acceptor = "accept" THEN slots + 1 ELSE slots
  /\ acceptor' = "stopped"
  /\ UNCHANGED <<vars, cancelled, clientVars, rotations, history>>

-----------------------------------------------------------------------------
(* handle_client: the request *)

To(c, there) == phase' = [phase EXCEPT ![c] = there]

Says(c, kind, from) ==
  heard' = [heard EXCEPT ![c] = Append(@, [kind |-> kind, from |-> from])]

(* Timeout, end of stream, or a request the parser rejects. *)
ParseFails(c) ==
  /\ phase[c] = "parse"
  /\ To(c, "done")
  /\ UNCHANGED <<vars, loopVars, want, attempt, sent, heard, lastFailed, rotations, history>>

(* A SOCKS5 client without the credentials is rejected by the parser. *)
Parse(c) ==
  /\ phase[c] = "parse"
  /\ \E r \in ClientRequests :
       /\ r.frontend = "Socks5" /\ ExpectAuth => r.authed
       /\ want' = [want EXCEPT ![c] = r]
  /\ To(c, "parsed")
  /\ UNCHANGED <<vars, loopVars, attempt, sent, heard, lastFailed, rotations, history>>

MustRefuse(r) == r.frontend # "Socks5" /\ ExpectAuth /\ ~r.authed

(* The 407, before anything else is looked at. *)
Refuse(c) ==
  /\ phase[c] = "parsed"
  /\ MustRefuse(want[c])
  /\ Says(c, "refused", 0)
  /\ To(c, "done")
  /\ UNCHANGED <<vars, loopVars, want, attempt, sent, lastFailed, rotations, history>>

VettedExceptRemove(c, op) ==
  phase[c] = "parsed" /\ (op = "remove" \/ ~MustRefuse(want[c])) /\ want[c].op = op

Vetted(c, op) == phase[c] = "parsed" /\ ~MustRefuse(want[c]) /\ want[c].op = op

(* control_remove_allowed *)
RemoveAllowed(r) == ExpectAuth \/ r.loopback

(* serve_control answers in HTTP; its 403, its 204s and its body are one     *)
(* kind of reply, "control", told apart from the 407 of the gate.            *)

(* proxycontrol remove: 403, or remove and 204 whether or not it matched. *)
ControlRemove(c) ==
  /\ Vetted(c, "remove")
  /\ \/ RemoveAllowed(want[c]) /\ Remove(want[c].addr)
     \/ RemoveAllowed(want[c]) /\ At(state, want[c].addr) = {} /\ UNCHANGED vars
     \/ ~RemoveAllowed(want[c]) /\ UNCHANGED vars
  /\ Says(c, "control", 0)
  /\ To(c, "done")
  /\ UNCHANGED <<loopVars, want, attempt, sent, lastFailed, rotations, history>>

HistoryKey(r) == <<r.ip, r.path>>

(* proxycontrol history: the recorded upstream, or 204. *)
ControlHistory(c) ==
  /\ Vetted(c, "history")
  /\ \/ /\ HistoryKey(want[c]) \in DOMAIN history
        /\ Says(c, "control", history[HistoryKey(want[c])])
     \/ /\ HistoryKey(want[c]) \notin DOMAIN history
        /\ Says(c, "control", 0)
  /\ To(c, "done")
  /\ UNCHANGED <<vars, loopVars, want, attempt, sent, lastFailed, rotations, history>>

ControlOther(c) ==
  /\ Vetted(c, "other")
  /\ Says(c, "control", 0)
  /\ To(c, "done")
  /\ UNCHANGED <<vars, loopVars, want, attempt, sent, lastFailed, rotations, history>>

(* The target is resolved; a failure to resolve is left to the upstream. *)
Resolve(c) ==
  /\ Vetted(c, "origin")
  /\ To(c, "try")
  /\ UNCHANGED <<vars, loopVars, want, attempt, sent, heard, lastFailed, rotations, history>>

-----------------------------------------------------------------------------
(* handle_client: the retry loop *)

SchemeOf(r) == IF r.frontend = "HttpForward" THEN "Http" ELSE "Https"

(* client_key *)
ClientKey(r) ==
  IF SchemeOf(r) = "Http" /\ StickyHeader /\ r.header # NoPin THEN r.header ELSE r.ip

TerminalFailure(frontend) == IF frontend = "Socks5" THEN "socks" ELSE "http"

TryNext(c) ==
  /\ phase[c] = "try"
  /\ attempt[c] < MaxTries
  /\ BeginGet(c, [scheme |-> SchemeOf(want[c]), key |-> ClientKey(want[c])])
  /\ attempt' = [attempt EXCEPT ![c] = @ + 1]
  /\ To(c, "get")
  /\ UNCHANGED <<loopVars, want, sent, heard, lastFailed, rotations, history>>

OutOfTries(c) ==
  /\ phase[c] = "try"
  /\ attempt[c] = MaxTries
  /\ c \notin owes
  /\ Says(c, TerminalFailure(want[c].frontend), 0)
  /\ To(c, "done")
  /\ UNCHANGED <<vars, loopVars, want, attempt, sent, lastFailed, rotations, history>>

Getting(c) ==
  /\ phase[c] = "get"
  /\ GetStep(c)
  /\ UNCHANGED serverVars

NothingLeft(c) ==
  /\ phase[c] = "get"
  /\ GiveUp(c)
  /\ Says(c, TerminalFailure(want[c].frontend), 0)
  /\ To(c, "done")
  /\ UNCHANGED <<loopVars, want, attempt, sent, lastFailed, rotations, history>>

Got(c) ==
  /\ phase[c] = "get"
  /\ Here(c, "leased")
  /\ rotations' = IF attempt[c] > 1 THEN rotations + 1 ELSE rotations
  /\ To(c, "dial")
  /\ UNCHANGED <<vars, loopVars, want, attempt, sent, heard, lastFailed, history>>

-----------------------------------------------------------------------------
(* relay *)

(* The protocols choose_proto finds before its fallback. *)
ChooseProto(types, scheme) ==
  IF scheme = "Https" THEN TunnelProto(types)
  ELSE LET order == <<"Http", "Connect80", "Socks5", "Socks4">>
       IN  {order[i] : i \in {j \in 1..4 : order[j] \in types /\ \A k \in 1..(j - 1) : order[k] \notin types}}

(* RetryableFailure: charged, benched, and on to the next iteration. *)
Retry(c) ==
  /\ ReturnFailed(c)
  /\ lastFailed' = [lastFailed EXCEPT ![c] = lease[c].id]
  /\ To(c, "try")
  /\ UNCHANGED <<loopVars, want, attempt, heard, rotations, history>>

CommittedRetries(c) ==
  /\ ReturnFailed(c)
  /\ lastFailed' = [lastFailed EXCEPT ![c] = lease[c].id]
  /\ To(c, "try")
  /\ UNCHANGED <<loopVars, want, attempt, rotations, history>>

(* A splice error after the commit: charged, benched, and no retry. *)
Committed(c) ==
  /\ ReturnFailed(c)
  /\ lastFailed' = [lastFailed EXCEPT ![c] = lease[c].id]
  /\ To(c, "done")
  /\ UNCHANGED <<loopVars, want, attempt, rotations, history>>

DialFails(c) ==
  /\ phase[c] = "dial"
  /\ Retry(c)
  /\ UNCHANGED sent

Dial(c) ==
  /\ phase[c] = "dial"
  /\ To(c, IF want[c].frontend = "HttpForward" THEN "forward" ELSE "commit")
  /\ UNCHANGED <<vars, loopVars, want, attempt, sent, heard, lastFailed, rotations, history>>

ForwardFails(c) ==
  /\ phase[c] = "forward"
  /\ Retry(c)
  /\ UNCHANGED sent

ForwardAlwaysPeeks(c) ==
  /\ phase[c] = "forward"
  /\ sent' = [sent EXCEPT ![c] = @ + 1]
  /\ To(c, "peek")
  /\ UNCHANGED <<vars, loopVars, want, attempt, heard, lastFailed, rotations, history>>

(* The request is upstream; one with a body is spliced without a peek. *)
Forward(c) ==
  /\ phase[c] = "forward"
  /\ sent' = [sent EXCEPT ![c] = @ + 1]
  /\ To(c, IF want[c].body THEN "splice" ELSE "peek")
  /\ UNCHANGED <<vars, loopVars, want, attempt, heard, lastFailed, rotations, history>>

(* No status line, or one outside http_allowed_codes. *)
PeekFails(c) ==
  /\ phase[c] = "peek"
  /\ Retry(c)
  /\ UNCHANGED sent

Peek(c) ==
  /\ phase[c] = "peek"
  /\ To(c, "commit")
  /\ UNCHANGED <<vars, loopVars, want, attempt, sent, heard, lastFailed, rotations, history>>

(* The 200 ack, the SOCKS5 reply or the status line reaches the client. *)
Commit(c) ==
  /\ phase[c] = "commit"
  /\ Says(c, IF want[c].frontend = "Socks5" THEN "socks" ELSE "http", lease[c].id)
  /\ To(c, "splice")
  /\ UNCHANGED <<vars, loopVars, want, attempt, sent, lastFailed, rotations, history>>

ClientGoneKeeps(c) ==
  /\ phase[c] = "commit"
  /\ Here(c, "leased")
  /\ To(c, "done")
  /\ UNCHANGED <<vars, loopVars, want, attempt, sent, heard, lastFailed, rotations, history>>

(* That write failed: the proxy goes back with a success on its record. *)
ClientGone(c) ==
  /\ phase[c] = "commit"
  /\ ReturnOk(c)
  /\ To(c, "done")
  /\ UNCHANGED <<loopVars, want, attempt, sent, heard, lastFailed, rotations, history>>

(* copy_bidirectional ends; bytes of the upstream may have gone through. *)
Spliced(c) == Says(c, "bytes", lease[c].id) \/ UNCHANGED heard

SpliceFails(c) ==
  /\ phase[c] = "splice"
  /\ Spliced(c)
  /\ Committed(c)
  /\ UNCHANGED sent

(* History::record: at the cap a new key clears the map. *)
RecordHistory(key, addr) ==
  LET kept == IF Cardinality(DOMAIN history) >= HistoryCap /\ key \notin DOMAIN history
              THEN {} ELSE DOMAIN history
  IN  history' = [k \in kept \cup {key} |-> IF k = key THEN addr ELSE history[k]]

SpliceOk(c) ==
  /\ phase[c] = "splice"
  /\ Spliced(c)
  /\ RecordHistory(HistoryKey(want[c]), lease[c].addr)
  /\ To(c, "return")
  /\ UNCHANGED <<vars, loopVars, want, attempt, sent, lastFailed, rotations>>

PutBack(c) ==
  /\ phase[c] = "return"
  /\ ReturnOk(c)
  /\ To(c, "done")
  /\ UNCHANGED <<loopVars, want, attempt, sent, heard, lastFailed, rotations, history>>

(* The task ends and its permit is released. *)
Close(c) ==
  /\ phase[c] = "done"
  /\ c \notin owes
  /\ To(c, "closed")
  /\ slots' = slots + 1
  /\ UNCHANGED <<vars, acceptor, cancelled, want, attempt, sent, heard, lastFailed,
                 rotations, history>>

-----------------------------------------------------------------------------
HandlerStep(c) ==
  \/ ParseFails(c) \/ Parse(c) \/ Refuse(c)
  \/ ControlRemove(c) \/ ControlHistory(c) \/ ControlOther(c)
  \/ Resolve(c) \/ TryNext(c) \/ OutOfTries(c) \/ Getting(c) \/ NothingLeft(c) \/ Got(c)
  \/ DialFails(c) \/ Dial(c) \/ PeekFails(c) \/ Peek(c)
  \/ Commit(c) \/ ClientGone(c) \/ PutBack(c) \/ Close(c)

(* The awaits under no timeout: the write of the request head (up to 64 KiB) *)
(* to the upstream, and the splice.                                          *)
UntimedStep(c) == ForwardFails(c) \/ Forward(c) \/ SpliceFails(c) \/ SpliceOk(c)

AcceptLoop ==
  \/ GateWaits \/ GateOpened \/ AcquirePermit \/ AcceptError \/ Stop
  \/ \E c \in Clients : Accept(c)

PoolStep ==
  /\ \/ \E t \in Callers \cup {Importer} : Notify(t)
     \/ Import
     \/ SourceEnds
     \/ Tick
  /\ UNCHANGED serverVars

Served ==
  /\ acceptor = "stopped"
  /\ \A c \in Clients : phase[c] \in {"away", "closed"}
  /\ UNCHANGED allVars

ServerNext ==
  \/ Shutdown
  \/ AcceptLoop
  \/ \E c \in Clients : HandlerStep(c) \/ UntimedStep(c)
  \/ PoolStep
  \/ Served

ServerSpec == ServerInit /\ [][ServerNext]_allVars

(* A HandlerStep is scheduled code, an await bounded by a timeout, or the    *)
(* first write, of a few hundred bytes, to a client's empty socket buffer.   *)
(* Nothing bounds an UntimedStep: it lasts as long as its peers like.        *)
FairServer ==
  /\ ServerSpec
  /\ \A c \in Clients : WF_allVars(HandlerStep(c))
  /\ WF_allVars(Stop)
  /\ WF_allVars(GateWaits \/ GateOpened)
  /\ \A t \in Callers \cup {Importer} : WF_allVars(Notify(t) /\ UNCHANGED serverVars)
  /\ WF_allVars((Import \/ SourceEnds) /\ UNCHANGED serverVars)

-----------------------------------------------------------------------------
Phases ==
  {"away", "parse", "parsed", "try", "get", "dial", "forward", "peek", "commit", "splice",
   "return", "done", "closed"}

ServerTypeOK ==
  /\ TypeOK
  /\ SessionsBounded
  /\ acceptor \in {"gate", "acquire", "accept", "stopped"}
  /\ cancelled \in BOOLEAN
  /\ slots \in 0..Permits
  /\ phase \in [Clients -> Phases]
  /\ want \in [Clients -> ClientRequests \cup {NoRequest}]
  /\ attempt \in [Clients -> 0..MaxTries]
  /\ sent \in [Clients -> 0..MaxTries]
  /\ \A c \in Clients : Len(heard[c]) \in Nat
  /\ lastFailed \in [Clients -> Ids \cup {0}]
  /\ rotations \in Nat
  /\ \A k \in DOMAIN history : history[k] \in Addrs

(* A SOCKS5 client is answered in SOCKS5, an HTTP client in HTTP, except     *)
(* that serve_control knows one protocol.                                    *)
InProtocol(c) ==
  \A i \in DOMAIN heard[c] :
    \/ heard[c][i].kind = "bytes"
    \/ (heard[c][i].kind = "socks") = (want[c].frontend = "Socks5" /\ want[c].op = "origin")

(* The commit boundary of relay: a client is opened with one reply, in its   *)
(* protocol, local or from one upstream; what follows is the byte stream of  *)
(* that upstream.  No retry, 502 or second status line is ever laid over a   *)
(* response.                                                                 *)
CommitOnce ==
  \A c \in Clients :
    /\ InProtocol(c)
    /\ \A i, j \in DOMAIN heard[c] :
         i < j => /\ heard[c][i].kind # "bytes"
                  /\ heard[c][j].kind = "bytes"
                  /\ heard[c][j].from = heard[c][i].from

(* A request with a body is consumed by the first upstream that takes it:    *)
(* the loop never forwards it to a second one.                               *)
BodySentOnce == \A c \in Clients : want[c] # NoRequest /\ sent[c] > 1 => ~want[c].body

(* A proxy is in use while a handler is in get or in relay. *)
InUse ==
  {lease[c].id : c \in {d \in Clients :
     pc[d] \in Holding /\ phase[d] \in {"get", "dial", "forward", "peek", "commit", "splice", "return"}}}

MayEvict(r) == IF ExpectAuth THEN r.authed ELSE r.loopback

(* The pool never shrinks behind the operator's back: handle_client gives    *)
(* its proxy back on every path, so one leaves only by a counted eviction or *)
(* by a proxycontrol remove, authenticated or, on an open server, local.     *)
ServerKeepsProxies ==
  [][InPool \cup InUse \subseteq InPool' \cup InUse'
     \/ evictions' = evictions + 1
     \/ \E c \in Clients : ControlRemove(c) /\ MayEvict(want[c])]_allVars

InFlight == {c \in Clients : phase[c] \notin {"away", "closed"}}

(* Permits are neither leaked nor minted: accept errors, shutdown and every  *)
(* way a handler can end give theirs back, so max_clients bounds the         *)
(* connections in flight and the server never wedges below it.               *)
PermitsConserved ==
  slots + Cardinality(InFlight) + (IF acceptor = "accept" THEN 1 ELSE 0) = Permits

(* The gate before the control API and the pool: with auth on, a client      *)
(* without the credentials is given a 407, whatever it asks for, and nothing *)
(* else.  It takes no proxy and proxycontrol neither answers nor obeys it.   *)
(* A client that has them, or an open server's, is never given one.          *)
OnlyVettedClients ==
  \A c \in Clients : want[c] # NoRequest =>
    IF ExpectAuth /\ ~want[c].authed
    THEN /\ phase[c] \in {"parsed", "done", "closed"}
         /\ heard[c] = IF phase[c] = "parsed" THEN <<>> ELSE <<[kind |-> "refused", from |-> 0]>>
    ELSE \A i \in DOMAIN heard[c] : heard[c][i].kind # "refused"

(* choose_proto never falls back: a proxy handed out for a scheme has a      *)
(* confirmed protocol for it, and a tunnel never terminates TLS itself.      *)
ProtoIsConfirmed ==
  \A c \in Clients : phase[c] = "dial" =>
    LET found == ChooseProto(lease[c].types, SchemeOf(want[c]))
    IN  found # {} /\ "Https" \notin found

(* A retry takes the proxy that has just failed it only when its bench is    *)
(* over or nothing else could serve the request at that moment.              *)
RotationAvoidsBenched ==
  [][\A c \in Clients :
       pc[c] \in {"select", "last"} /\ pc'[c] \in Holding /\ lease'[c].id = lastFailed[c] =>
         \E i \in DOMAIN state :
           /\ state[i].proxy = lease'[c]
           /\ \/ Ready(state[i], ctx[c].now)
              \/ \A j \in Eligible(state, req[c].scheme) : ~Ready(state[j], ctx[c].now)]_allVars

(* Every accepted connection ends or reaches its splice: no handler is stuck *)
(* in the retry loop, unless an upstream never takes the request it is sent. *)
HandlersEnd ==
  \A c \in Clients :
    \/ phase[c] = "parse" ~> phase[c] \in {"splice", "closed"}
    \/ <>[](phase[c] = "forward")

(* The accept loop never hangs: the startup gate opens even when the source  *)
(* yields fewer proxies than it waits for, and shutdown stops the loop       *)
(* wherever it is, at the gate, waiting for a permit or in accept.           *)
AcceptLoopLives ==
  /\ <>(acceptor # "gate")
  /\ cancelled ~> acceptor = "stopped"

=============================================================================
