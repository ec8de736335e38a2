---------------------------- MODULE ServerProofs ----------------------------
(***************************************************************************)
(* What the local proxy server promises, for any number of clients,        *)
(* proxies, permits and tries: Server implements Pool (so that every       *)
(* theorem of PoolProofs holds of a running server), a client is answered  *)
(* once, a body is sent once, permits are conserved, and nobody without    *)
(* credentials gets past the refusal.                                      *)
(***************************************************************************)
EXTENDS Server, PoolProofs

Relaying == {"dial", "forward", "peek", "commit", "splice", "return"}
Trying   == {"try", "get"} \cup Relaying
Opened   == {"splice", "return", "done", "closed"}

-----------------------------------------------------------------------------
(* The inductive invariant. *)

LoopTyped ==
  /\ acceptor \in {"gate", "acquire", "accept", "stopped"}
  /\ cancelled \in BOOLEAN
  /\ slots \in Nat
  /\ rotations \in Nat
  /\ \A k \in DOMAIN history : history[k] \in Addrs

ClientsTyped ==
  /\ phase \in [Clients -> Phases]
  /\ want \in [Clients -> ClientRequests \cup {NoRequest}]
  /\ attempt \in [Clients -> 0..MaxTries]
  /\ sent \in [Clients -> Nat]
  /\ DOMAIN heard = Clients
  /\ lastFailed \in [Clients -> Ids \cup {0}]

(* Where a handler is decides what it knows of its request and where its     *)
(* task is in the pool: it holds a proxy for its own scheme all through      *)
(* relay, and is idle everywhere but there and in get.                       *)
InPlace(c) ==
  /\ phase[c] \in {"away", "parse"} => want[c] = NoRequest
  /\ phase[c] \in Trying \cup {"parsed"} => want[c] \in ClientRequests
  /\ phase[c] \in Trying => want[c].op = "origin" /\ ~MustRefuse(want[c])
  /\ phase[c] \notin Relaying \cup {"get"} => pc[c] = "idle"
  /\ phase[c] \in Relaying => pc[c] = "leased"
  /\ phase[c] \in Relaying \cup {"get"} => req[c].scheme = SchemeOf(want[c])

(* One iteration sends the request at most once, and a request with a body   *)
(* is never behind a handler that may still come round.                      *)
Counted(c) ==
  /\ sent[c] <= attempt[c]
  /\ phase[c] \in {"get", "dial", "forward"} => sent[c] < attempt[c]
  /\ phase[c] \in {"away", "parse"} => sent[c] = 0
  /\ want[c] # NoRequest /\ want[c].body =>
       /\ sent[c] <= 1
       /\ phase[c] \notin Opened => sent[c] = 0
       /\ phase[c] # "peek"

(* What CommitOnce asks of one client's socket; and a refusal is said to     *)
(* none but those who have to be refused.                                    *)
OpensOnce(s, r) ==
  /\ \A i \in DOMAIN s :
       \/ s[i].kind = "bytes"
       \/ (s[i].kind = "socks") = (r.frontend = "Socks5" /\ r.op = "origin")
  /\ \A i \in DOMAIN s : s[i].kind = "refused" => MustRefuse(r)
  /\ \A i, j \in DOMAIN s :
       i < j => s[i].kind # "bytes" /\ s[j].kind = "bytes" /\ s[j].from = s[i].from

OpeningKind(r) == IF r.frontend = "Socks5" THEN "socks" ELSE "http"

(* Nothing is said before the commit, and a splice starts behind the reply   *)
(* of the proxy it copies from, or behind none.                              *)
Answered(c) ==
  /\ phase[c] \notin Opened => heard[c] = <<>>
  /\ phase[c] = "splice" =>
       \/ heard[c] = <<>>
       \/ heard[c] = <<[kind |-> OpeningKind(want[c]), from |-> lease[c].id]>>
  /\ OpensOnce(heard[c], want[c])
  /\ Len(heard[c]) \in 0..2

(* A client without the credentials is not a SOCKS5 one (the parser rejects  *)
(* those), and gets no further than its refusal, which it does get.          *)
Barred(c) ==
  ExpectAuth /\ want[c] # NoRequest /\ ~want[c].authed =>
    /\ want[c].frontend # "Socks5"
    /\ phase[c] \in {"parsed", "done", "closed"}
    /\ heard[c] = IF phase[c] = "parsed" THEN <<>> ELSE <<[kind |-> "refused", from |-> 0]>>

HandlerOK(c) == InPlace(c) /\ Counted(c) /\ Answered(c) /\ Barred(c)

HandlersOK == \A c \in Clients : HandlerOK(c)

ServerTyped == LoopTyped /\ ClientsTyped

-----------------------------------------------------------------------------
LEMMA ClientFacts ==
  ASSUME NEW c \in Clients
  PROVE  c \in Callers /\ c \notin Gates
  BY ServerAssumption DEF Clients

LEMMA RequestFacts ==
  ASSUME NEW r \in ClientRequests
  PROVE  /\ r # NoRequest
         /\ r.frontend \in {"HttpForward", "HttpConnect", "Socks5"}
         /\ r.authed \in BOOLEAN /\ r.body \in BOOLEAN
         /\ r.addr \in Addrs
         /\ SchemeOf(r) \in Schemes
         /\ [scheme |-> SchemeOf(r), key |-> ClientKey(r)] \in Requests
<1>1. r \in ClientRequest
  BY ServerAssumption
<1>2. SchemeOf(r) \in Schemes
  BY DEF SchemeOf, Schemes
<1>3. ClientKey(r) \in Keys
  BY <1>1 DEF ClientKey, ClientRequest
<1>4. [scheme |-> SchemeOf(r), key |-> ClientKey(r)] \in Requests
  BY <1>2, <1>3, ServerAssumption
<1> QED BY <1>1, <1>2, <1>4, ServerAssumption DEF ClientRequest

(***************************************************************************)
(* Server implements Pool.                                                 *)
(***************************************************************************)

(* Everything the server does to the pool is an operation of the pool. *)
LEMMA ServerStepIsPoolStep ==
  ASSUME HandlersOK, [ServerNext]_allVars
  PROVE  [Next]_vars
<1>1. ASSUME NEW c \in Clients, HandlerStep(c) \/ UntimedStep(c) PROVE [Next]_vars
  <2>0. c \in Callers /\ c \notin Gates
    BY ClientFacts
  <2>1. CASE CallerStep(c) \/ UNCHANGED vars
    BY <2>0, <2>1 DEF Next
  <2>2. CASE TryNext(c)
    <3>1. want[c] \in ClientRequests
      BY <2>2 DEF TryNext, HandlersOK, HandlerOK, InPlace, Trying
    <3>2. CallGet(c)
      BY <2>0, <2>2, <3>1, RequestFacts DEF TryNext, CallGet
    <3> QED BY <2>1, <3>2 DEF CallerStep
  <2>3. CASE ControlRemove(c)
    <3>1. want[c] \in ClientRequests
      BY <2>3 DEF ControlRemove, Vetted, HandlersOK, HandlerOK, InPlace
    <3>2. want[c].addr \in Addrs
      BY <3>1, RequestFacts
    <3> QED BY <2>1, <2>3, <3>2 DEF ControlRemove, Next
  <2>4. CASE ParseFails(c) \/ Parse(c) \/ Refuse(c) \/ ControlHistory(c) \/ ControlOther(c)
             \/ Resolve(c) \/ OutOfTries(c) \/ Got(c) \/ Dial(c) \/ Peek(c) \/ Commit(c)
             \/ Close(c) \/ Forward(c) \/ SpliceOk(c)
    <3>1. UNCHANGED vars
      BY <2>4 DEF ParseFails, Parse, Refuse, ControlHistory, ControlOther, Resolve, OutOfTries,
                  Got, Dial, Peek, Commit, Close, Forward, SpliceOk
    <3> QED BY <3>1
  <2>5. CASE Getting(c) \/ NothingLeft(c) \/ DialFails(c) \/ PeekFails(c) \/ ClientGone(c)
             \/ PutBack(c) \/ ForwardFails(c) \/ SpliceFails(c)
    <3>1. CallerStep(c)
      BY <2>5 DEF Getting, NothingLeft, DialFails, PeekFails, ClientGone, PutBack,
                  ForwardFails, SpliceFails, Retry, Committed, CallerStep
    <3> QED BY <2>1, <3>1
  <2> QED BY <1>1, <2>2, <2>3, <2>4, <2>5 DEF HandlerStep, UntimedStep
<1>2. ASSUME AcceptLoop PROVE [Next]_vars
  <2>1. CASE GateWaits
    <3>1. Acceptor \in Callers
      BY ServerAssumption, PoolAssumption
    <3> QED BY <2>1, <3>1 DEF GateWaits, Next, CallerStep
  <2>2. CASE GateOpened \/ AcquirePermit \/ AcceptError \/ Stop \/ \E c \in Clients : Accept(c)
    BY <2>2 DEF GateOpened, AcquirePermit, AcceptError, Stop, Accept
  <2> QED BY <1>2, <2>1, <2>2 DEF AcceptLoop
<1>3. ASSUME PoolStep PROVE [Next]_vars
  BY <1>3 DEF PoolStep, Next
<1>4. CASE Shutdown \/ Served \/ UNCHANGED allVars
  BY <1>4 DEF Shutdown, Served, allVars
<1> QED BY <1>1, <1>2, <1>3, <1>4 DEF ServerNext

(* A step of one caller leaves the others where they are. *)
LEMMA OthersKeep ==
  ASSUME Typed, NEW c \in Callers, NEW d \in Callers \ {c},
         CallerStep(c) \/ \E r \in Requests : BeginGet(c, r)
  PROVE  pc'[d] = pc[d] /\ req'[d] = req[d] /\ lease'[d] = lease[d]
<1> USE DEF poolVars, feedVars, callVars
<1>1. /\ pc \in [Callers -> Places] /\ req \in [Callers -> Requests \cup {NoReq}]
      /\ lease \in [Callers -> Proxy \cup {NoProxy}]
  BY DEF Typed, TypeOK
<1> QED
  BY <1>1 DEF CallerStep, CallGet, BeginGet, GetStep, Arm, Select, Take, Miss, Record,
       CheckExhausted, Wake, VerifyPassed, VerifyFailed, GateStep, CallWaitReady, CheckReady,
       WakeGate, ReturnOk, ReturnFailed, GiveUp, Abandon, Finish, Goto

(***************************************************************************)
(* Steps of one handler, seen by the others.                               *)
(***************************************************************************)

Untouched(d) ==
  /\ phase'[d] = phase[d] /\ want'[d] = want[d] /\ attempt'[d] = attempt[d]
  /\ sent'[d] = sent[d] /\ heard'[d] = heard[d]
  /\ pc'[d] = pc[d] /\ req'[d] = req[d] /\ lease'[d] = lease[d]

LEMMA UntouchedStaysOK ==
  ASSUME NEW d, HandlerOK(d), Untouched(d)
  PROVE  HandlerOK(d)'
  BY DEF HandlerOK, InPlace, Counted, Answered, Barred, Untouched

LEMMA OthersUntouched ==
  ASSUME Typed, ClientsTyped, HandlersOK, NEW c \in Clients, NEW d \in Clients \ {c},
         HandlerStep(c) \/ UntimedStep(c)
  PROVE  Untouched(d)
<1> USE DEF ClientsTyped, poolVars, feedVars, callVars, loopVars, clientVars, serverVars
<1>0. c \in Callers /\ d \in Callers \ {c}
  BY DEF Clients
<1>1. pc'[d] = pc[d] /\ req'[d] = req[d] /\ lease'[d] = lease[d]
  <2>1. CASE CallerStep(c)
    BY <1>0, <2>1, OthersKeep
  <2>2. CASE TryNext(c)
    <3>1. want[c] \in ClientRequests
      BY <2>2 DEF TryNext, HandlersOK, HandlerOK, InPlace, Trying
    <3>2. \E r \in Requests : BeginGet(c, r)
      BY <2>2, <3>1, RequestFacts DEF TryNext
    <3> QED BY <1>0, <3>2, OthersKeep
  <2>3. CASE ControlRemove(c)
    BY <2>3 DEF ControlRemove, Remove, vars
  <2>4. CASE ParseFails(c) \/ Parse(c) \/ Refuse(c) \/ ControlHistory(c) \/ ControlOther(c)
             \/ Resolve(c) \/ OutOfTries(c) \/ Got(c) \/ Dial(c) \/ Peek(c) \/ Commit(c)
             \/ Close(c) \/ Forward(c) \/ SpliceOk(c)
    <3>1. UNCHANGED vars
      BY <2>4 DEF ParseFails, Parse, Refuse, ControlHistory, ControlOther, Resolve, OutOfTries,
                  Got, Dial, Peek, Commit, Close, Forward, SpliceOk
    <3> QED BY <3>1 DEF vars
  <2>5. CASE Getting(c) \/ NothingLeft(c) \/ DialFails(c) \/ PeekFails(c) \/ ClientGone(c)
             \/ PutBack(c) \/ ForwardFails(c) \/ SpliceFails(c)
    <3>1. CallerStep(c)
      BY <2>5 DEF Getting, NothingLeft, DialFails, PeekFails, ClientGone, PutBack,
                  ForwardFails, SpliceFails, Retry, Committed, CallerStep
    <3> QED BY <2>1, <3>1
  <2> QED BY <2>2, <2>3, <2>4, <2>5 DEF HandlerStep, UntimedStep
<1>2. phase'[d] = phase[d] /\ want'[d] = want[d] /\ attempt'[d] = attempt[d]
      /\ sent'[d] = sent[d] /\ heard'[d] = heard[d]
  <2> USE DEF To, Says
  <2>1. CASE ParseFails(c) \/ Parse(c) \/ Refuse(c) \/ ControlRemove(c) \/ ControlHistory(c)
             \/ ControlOther(c) \/ Resolve(c)
    BY <2>1 DEF ParseFails, Parse, Refuse, ControlRemove, ControlHistory, ControlOther, Resolve
  <2>2. CASE TryNext(c) \/ OutOfTries(c) \/ Getting(c) \/ NothingLeft(c) \/ Got(c)
    BY <2>2 DEF TryNext, OutOfTries, Getting, NothingLeft, Got
  <2>3. CASE DialFails(c) \/ PeekFails(c) \/ ForwardFails(c) \/ SpliceFails(c)
    BY <2>3 DEF DialFails, PeekFails, ForwardFails, SpliceFails, Retry, Committed, Spliced
  <2>4. CASE Dial(c) \/ Peek(c) \/ Commit(c) \/ ClientGone(c) \/ PutBack(c) \/ Close(c)
             \/ Forward(c) \/ SpliceOk(c)
    BY <2>4 DEF Dial, Peek, Commit, ClientGone, PutBack, Close, Forward, SpliceOk, Spliced
  <2> QED BY <2>1, <2>2, <2>3, <2>4 DEF HandlerStep, UntimedStep
<1> QED BY <1>1, <1>2 DEF Untouched

(***************************************************************************)
(* Types.                                                                  *)
(***************************************************************************)

LEMMA HeldByHandler ==
  ASSUME Typed, NEW c \in Clients, HandlerOK(c), phase[c] \in Relaying
  PROVE  /\ lease[c] \in Proxy /\ lease[c].id \in Ids /\ lease[c].addr \in Addrs
         /\ want[c] \in ClientRequests
<1>1. pc[c] \in Holding /\ want[c] \in ClientRequests
  BY DEF HandlerOK, InPlace, Holding, Trying
<1>2. lease[c] \in Proxy
  BY <1>1, ClientFacts DEF Typed, HeldIsProxy
<1> QED BY <1>1, <1>2 DEF Proxy

LEMMA HandlerStepTyped ==
  ASSUME Typed, ServerTyped, NEW c \in Clients, HandlerOK(c),
         HandlerStep(c) \/ UntimedStep(c)
  PROVE  ServerTyped'
<1> USE DEF ServerTyped, LoopTyped, ClientsTyped, loopVars, clientVars, serverVars, To, Says, Phases
<1>1. CASE ParseFails(c)
  BY <1>1 DEF ParseFails
<1>2. CASE Parse(c)
  <2>1. PICK r \in ClientRequests : want' = [want EXCEPT ![c] = r]
    BY <1>2 DEF Parse
  <2> QED BY <1>2, <2>1 DEF Parse
<1>3. CASE Refuse(c) \/ ControlOther(c)
  BY <1>3 DEF Refuse, ControlOther
<1>4. CASE ControlRemove(c)
  BY <1>4 DEF ControlRemove
<1>5. CASE ControlHistory(c)
  BY <1>5 DEF ControlHistory
<1>6. CASE Resolve(c) \/ Dial(c) \/ Peek(c)
  BY <1>6 DEF Resolve, Dial, Peek
<1>7. CASE TryNext(c)
  BY <1>7, ServerAssumption DEF TryNext
<1>8. CASE OutOfTries(c) \/ NothingLeft(c)
  BY <1>8 DEF OutOfTries, NothingLeft
<1>9. CASE Getting(c)
  BY <1>9 DEF Getting
<1>10. CASE Got(c)
  BY <1>10 DEF Got
<1>11. CASE DialFails(c) \/ PeekFails(c) \/ ForwardFails(c) \/ SpliceFails(c)
  <2>1. phase[c] \in Relaying
    BY <1>11 DEF DialFails, PeekFails, ForwardFails, SpliceFails, Relaying
  <2>2. lease[c].id \in Ids
    BY <2>1, HeldByHandler
  <2>3. CASE DialFails(c) \/ PeekFails(c) \/ ForwardFails(c)
    BY <2>2, <2>3 DEF DialFails, PeekFails, ForwardFails, Retry
  <2>4. CASE SpliceFails(c)
    BY <2>2, <2>4 DEF SpliceFails, Committed, Spliced
  <2> QED BY <1>11, <2>3, <2>4
<1>12. CASE Commit(c)
  BY <1>12 DEF Commit
<1>13. CASE ClientGone(c) \/ PutBack(c)
  BY <1>13 DEF ClientGone, PutBack
<1>14. CASE Close(c)
  BY <1>14 DEF Close
<1>15. CASE Forward(c)
  BY <1>15 DEF Forward
<1>16. CASE SpliceOk(c)
  <2>1. lease[c].addr \in Addrs
    BY <1>16, HeldByHandler DEF SpliceOk, Relaying
  <2>2. \A k \in DOMAIN history' : history'[k] \in Addrs
    BY <1>16, <2>1 DEF SpliceOk, RecordHistory
  <2> QED BY <1>16, <2>2 DEF SpliceOk, Spliced
<1> QED BY <1>1, <1>2, <1>3, <1>4, <1>5, <1>6, <1>7, <1>8, <1>9, <1>10, <1>11, <1>12, <1>13,
           <1>14, <1>15, <1>16 DEF HandlerStep, UntimedStep

(***************************************************************************)
(* Steps of one handler, seen by itself.                                   *)
(***************************************************************************)

LEMMA NothingSaid ==
  ASSUME NEW r
  PROVE  OpensOnce(<<>>, r) /\ Len(<<>>) \in 0..2
  BY DEF OpensOnce

LEMMA OneThingSaid ==
  ASSUME NEW r, NEW kind, NEW from,
         \/ kind = "bytes"
         \/ (kind = "socks") = (r.frontend = "Socks5" /\ r.op = "origin"),
         kind = "refused" => MustRefuse(r)
  PROVE  /\ OpensOnce(<<[kind |-> kind, from |-> from]>>, r)
         /\ Len(<<[kind |-> kind, from |-> from]>>) \in 0..2
         /\ Append(<<>>, [kind |-> kind, from |-> from]) = <<[kind |-> kind, from |-> from]>>
  BY DEF OpensOnce

LEMMA ReplyThenBytes ==
  ASSUME NEW r, NEW from, r.op = "origin"
  PROVE  LET s == Append(<<[kind |-> OpeningKind(r), from |-> from]>>,
                         [kind |-> "bytes", from |-> from])
         IN  OpensOnce(s, r) /\ Len(s) \in 0..2
<1> DEFINE reply == [kind |-> OpeningKind(r), from |-> from]
           bytes == [kind |-> "bytes", from |-> from]
           s == Append(<<reply>>, bytes)
<1>1. /\ reply.kind \notin {"bytes", "refused"} /\ bytes.kind = "bytes" /\ bytes.from = reply.from
      /\ (reply.kind = "socks") = (r.frontend = "Socks5" /\ r.op = "origin")
  BY DEF OpeningKind
<1> HIDE DEF reply, bytes
<1>2. <<reply>> \in Seq({reply, bytes}) /\ Len(<<reply>>) = 1 /\ <<reply>>[1] = reply
  OBVIOUS
<1>3. DOMAIN s = {1, 2} /\ s[1] = reply /\ s[2] = bytes /\ Len(s) = 2
  BY <1>2, AppendFacts
<1> HIDE DEF s
<1>4. OpensOnce(s, r)
  <2>1. \A i \in DOMAIN s : s[i].kind = "bytes"
                            \/ (s[i].kind = "socks") = (r.frontend = "Socks5" /\ r.op = "origin")
    BY <1>1, <1>3
  <2>2. \A i, j \in DOMAIN s :
          i < j => s[i].kind # "bytes" /\ s[j].kind = "bytes" /\ s[j].from = s[i].from
    BY <1>1, <1>3
  <2>3. \A i \in DOMAIN s : s[i].kind # "refused"
    BY <1>1, <1>3
  <2> QED BY <2>1, <2>2, <2>3 DEF OpensOnce
<1> QED BY <1>3, <1>4 DEF reply, bytes, s

(* A handler that answers its client and is done. *)
LEMMA SaysAndEnds ==
  ASSUME ClientsTyped, NEW c \in Clients, HandlerOK(c), NEW kind, NEW from,
         phase[c] \notin Opened, want[c] \in ClientRequests,
         (kind = "socks") = (want[c].frontend = "Socks5" /\ want[c].op = "origin"),
         kind = "refused" <=> MustRefuse(want[c]), MustRefuse(want[c]) => from = 0,
         Says(c, kind, from), To(c, "done"), UNCHANGED <<want, attempt, sent>>,
         pc'[c] = "idle"
  PROVE  HandlerOK(c)'
<1>1. /\ phase'[c] = "done" /\ heard'[c] = <<[kind |-> kind, from |-> from]>>
      /\ OpensOnce(heard'[c], want[c]) /\ Len(heard'[c]) \in 0..2
  BY OneThingSaid DEF ClientsTyped, Says, To, HandlerOK, Answered
<1>2. want'[c] = want[c] /\ attempt'[c] = attempt[c] /\ sent'[c] = sent[c]
  OBVIOUS
<1>3. InPlace(c)'
  BY <1>1, <1>2 DEF InPlace, Trying, Relaying
<1>4. Counted(c)'
  BY <1>1, <1>2 DEF HandlerOK, Counted, Opened
<1>5. Answered(c)'
  BY <1>1, <1>2 DEF Answered, Opened
<1>6. Barred(c)'
  BY <1>1, <1>2, RequestFacts DEF HandlerOK, Barred, MustRefuse
<1> QED BY <1>3, <1>4, <1>5, <1>6 DEF HandlerOK

(* A handler that goes on without a word to its client. *)
LEMMA GoesOn ==
  ASSUME ClientsTyped, NEW c \in Clients, HandlerOK(c), NEW there, To(c, there),
         UNCHANGED <<want, heard>>, InPlace(c)', Counted(c)', Barred(c)',
         phase[c] \in Opened \/ there # "splice" \/ heard[c] = <<>>,
         phase[c] \in Opened => there \in Opened \ {"splice"}
  PROVE  HandlerOK(c)'
<1>1. phase'[c] = there /\ want'[c] = want[c] /\ heard'[c] = heard[c]
  BY DEF ClientsTyped, To
<1>2. Answered(c)'
  BY <1>1 DEF HandlerOK, Answered
<1> QED BY <1>2 DEF HandlerOK

(* Up to the first answer. *)
LEMMA RequestSteps ==
  ASSUME Typed, ClientsTyped, NEW c \in Clients, HandlerOK(c),
         \/ ParseFails(c) \/ Parse(c) \/ Refuse(c)
         \/ ControlRemove(c) \/ ControlHistory(c) \/ ControlOther(c) \/ Resolve(c)
  PROVE  HandlerOK(c)'
<1> USE DEF poolVars, feedVars, callVars, loopVars
<1>1. CASE ParseFails(c)
  <2>1. /\ To(c, "done") /\ phase[c] = "parse" /\ phase'[c] = "done"
        /\ UNCHANGED <<want, attempt, sent, heard, pc, req, lease>>
    BY <1>1 DEF ParseFails, To, ClientsTyped, vars
  <2>2. InPlace(c)' /\ Counted(c)' /\ Barred(c)'
    BY <2>1 DEF HandlerOK, InPlace, Counted, Barred, Trying, Relaying, Opened
  <2> QED BY <2>1, <2>2, GoesOn DEF Opened
<1>2. CASE Parse(c)
  <2>1. PICK r \in ClientRequests :
          (r.frontend = "Socks5" /\ ExpectAuth => r.authed) /\ want' = [want EXCEPT ![c] = r]
    BY <1>2 DEF Parse
  <2>2. /\ phase[c] = "parse" /\ phase'[c] = "parsed" /\ want'[c] = r
        /\ UNCHANGED <<attempt, sent, heard, pc, req, lease>>
    BY <1>2, <2>1 DEF Parse, To, ClientsTyped, vars
  <2>3. heard[c] = <<>> /\ sent[c] = 0 /\ pc[c] = "idle" /\ sent[c] <= attempt[c]
    BY <2>2 DEF HandlerOK, Answered, Opened, Counted, InPlace, Relaying
  <2>4. InPlace(c)'
    BY <2>1, <2>2, <2>3 DEF InPlace, Trying, Relaying
  <2>5. Counted(c)'
    BY <2>1, <2>2, <2>3 DEF Counted
  <2>6. Barred(c)'
    BY <2>1, <2>2, <2>3, RequestFacts DEF Barred
  <2>7. Answered(c)'
    BY <2>2, <2>3, NothingSaid DEF Answered
  <2> QED BY <2>4, <2>5, <2>6, <2>7 DEF HandlerOK
<1>3. ASSUME phase[c] = "parsed"
      PROVE  phase[c] \notin Opened /\ want[c] \in ClientRequests /\ pc[c] = "idle"
  BY <1>3 DEF HandlerOK, InPlace, Opened, Relaying
<1>4. CASE Refuse(c)
  <2>1. /\ phase[c] = "parsed" /\ MustRefuse(want[c]) /\ Says(c, "refused", 0) /\ To(c, "done")
        /\ UNCHANGED <<want, attempt, sent, pc>>
    BY <1>4 DEF Refuse, vars
  <2>2. want[c].frontend # "Socks5"
    BY <2>1 DEF MustRefuse
  <2> QED BY <1>3, <2>1, <2>2, SaysAndEnds
<1>5. CASE ControlRemove(c) \/ ControlOther(c)
  <2>1. /\ phase[c] = "parsed" /\ ~MustRefuse(want[c]) /\ want[c].op # "origin"
        /\ Says(c, "control", 0) /\ To(c, "done") /\ UNCHANGED <<want, attempt, sent, pc>>
    BY <1>5 DEF ControlRemove, ControlOther, Vetted, Remove, vars
  <2> QED BY <1>3, <2>1, SaysAndEnds
<1>6. CASE ControlHistory(c)
  <2>1. /\ phase[c] = "parsed" /\ ~MustRefuse(want[c]) /\ want[c].op # "origin"
        /\ To(c, "done") /\ UNCHANGED <<want, attempt, sent, pc>>
    BY <1>6 DEF ControlHistory, Vetted, vars
  <2>2. \/ Says(c, "control", history[HistoryKey(want[c])])
        \/ Says(c, "control", 0)
    BY <1>6 DEF ControlHistory
  <2>3. ASSUME NEW f, Says(c, "control", f) PROVE HandlerOK(c)'
    BY <1>3, <2>1, <2>3, SaysAndEnds
  <2> QED BY <2>2, <2>3
<1>7. CASE Resolve(c)
  <2>1. /\ phase[c] = "parsed" /\ ~MustRefuse(want[c]) /\ want[c].op = "origin"
        /\ To(c, "try") /\ phase'[c] = "try"
        /\ UNCHANGED <<want, attempt, sent, heard, pc, req, lease>>
    BY <1>7 DEF Resolve, Vetted, To, ClientsTyped, vars
  <2>2. InPlace(c)'
    BY <1>3, <2>1 DEF InPlace, Trying, Relaying
  <2>3. Counted(c)'
    BY <2>1 DEF HandlerOK, Counted, Opened
  <2>4. Barred(c)'
    BY <1>3, <2>1, RequestFacts DEF HandlerOK, Barred, MustRefuse
  <2> QED BY <1>3, <2>1, <2>2, <2>3, <2>4, GoesOn
<1> QED BY <1>1, <1>2, <1>4, <1>5, <1>6, <1>7

(* A caller that returns its proxy, or gives up, is idle again. *)
LEMMA FinishIdles ==
  ASSUME Typed, NEW c \in Callers, Finish(c)
  PROVE  pc'[c] = "idle"
  BY DEF Finish, Goto, Typed, TypeOK

(* The retry loop outside relay. *)
LEMMA LoopSteps ==
  ASSUME Typed, ClientsTyped, NEW c \in Clients, HandlerOK(c),
         TryNext(c) \/ OutOfTries(c) \/ Getting(c) \/ NothingLeft(c) \/ Got(c)
  PROVE  HandlerOK(c)'
<1> USE DEF poolVars, feedVars, callVars, loopVars, clientVars, serverVars
<1>0. c \in Callers /\ pc \in [Callers -> Places] /\ req \in [Callers -> Requests \cup {NoReq}]
      /\ phase \in [Clients -> Phases] /\ attempt \in [Clients -> 0..MaxTries]
      /\ sent \in [Clients -> Nat]
  BY ClientFacts DEF Typed, TypeOK, ClientsTyped
<1>1. ASSUME phase[c] \in {"try", "get"}
      PROVE  /\ phase[c] \notin Opened /\ want[c] \in ClientRequests
             /\ want[c].op = "origin" /\ ~MustRefuse(want[c])
  BY <1>1 DEF HandlerOK, InPlace, Opened, Trying
<1>2. ASSUME phase[c] \in {"try", "get"}
      PROVE  ExpectAuth => want[c].authed
  BY <1>1, <1>2, RequestFacts DEF HandlerOK, Barred, MustRefuse
<1>3. CASE TryNext(c)
  <2>1. /\ phase[c] = "try" /\ To(c, "get") /\ phase'[c] = "get" /\ pc'[c] = "arm"
        /\ req'[c] = [scheme |-> SchemeOf(want[c]), key |-> ClientKey(want[c])]
        /\ attempt'[c] = attempt[c] + 1 /\ UNCHANGED <<want, sent, heard>>
    BY <1>0, <1>3 DEF TryNext, To, BeginGet, Goto
  <2>2. InPlace(c)'
    BY <1>1, <2>1 DEF InPlace, Trying, Relaying
  <2>3. Counted(c)'
    <3>1. sent[c] <= attempt[c] /\ sent[c] \in Nat /\ attempt[c] \in Nat
      BY <1>0, ServerAssumption DEF HandlerOK, Counted
    <3> QED BY <2>1, <3>1 DEF HandlerOK, Counted, Opened
  <2>4. Barred(c)'
    BY <1>2, <2>1 DEF Barred
  <2> QED BY <1>1, <2>1, <2>2, <2>3, <2>4, GoesOn
<1>4. ASSUME NEW f, f = want[c].frontend, phase[c] \in {"try", "get"}
      PROVE  /\ (TerminalFailure(f) = "socks") = (f = "Socks5" /\ want[c].op = "origin")
             /\ TerminalFailure(f) # "refused"
  BY <1>1, <1>4 DEF TerminalFailure
<1>5. CASE OutOfTries(c)
  <2>1. /\ phase[c] = "try" /\ Says(c, TerminalFailure(want[c].frontend), 0) /\ To(c, "done")
        /\ UNCHANGED <<want, attempt, sent, pc>>
    BY <1>5 DEF OutOfTries, vars
  <2>2. pc'[c] = "idle"
    BY <2>1 DEF HandlerOK, InPlace, Relaying
  <2> QED BY <1>1, <1>4, <2>1, <2>2, SaysAndEnds
<1>6. CASE NothingLeft(c)
  <2>1. /\ phase[c] = "get" /\ Says(c, TerminalFailure(want[c].frontend), 0) /\ To(c, "done")
        /\ UNCHANGED <<want, attempt, sent>>
    BY <1>6 DEF NothingLeft
  <2>2. pc'[c] = "idle"
    BY <1>0, <1>6, FinishIdles DEF NothingLeft, GiveUp
  <2> QED BY <1>1, <1>4, <2>1, <2>2, SaysAndEnds
<1>7. CASE Getting(c)
  <2>1. /\ phase[c] = "get" /\ phase'[c] = "get" /\ req'[c] = req[c]
        /\ UNCHANGED <<want, attempt, sent, heard>>
    BY <1>0, <1>7 DEF Getting, GetStep, Arm, Select, Miss, Record, CheckExhausted, Wake,
                      VerifyPassed, VerifyFailed
  <2>2. InPlace(c)'
    BY <2>1 DEF HandlerOK, InPlace, Trying, Relaying
  <2>3. Counted(c)' /\ Barred(c)'
    BY <2>1 DEF HandlerOK, Counted, Barred
  <2>4. Answered(c)'
    BY <2>1 DEF HandlerOK, Answered
  <2> QED BY <2>2, <2>3, <2>4 DEF HandlerOK
<1>8. CASE Got(c)
  <2>1. /\ phase[c] = "get" /\ To(c, "dial") /\ phase'[c] = "dial" /\ pc[c] = "leased"
        /\ UNCHANGED <<want, attempt, sent, heard, pc, req, lease>>
    BY <1>0, <1>8 DEF Got, To, Here, vars
  <2>2. InPlace(c)'
    BY <2>1 DEF HandlerOK, InPlace, Trying, Relaying
  <2>3. Counted(c)'
    BY <2>1 DEF HandlerOK, Counted, Opened
  <2>4. Barred(c)'
    BY <1>2, <2>1 DEF Barred
  <2> QED BY <1>1, <2>1, <2>2, <2>3, <2>4, GoesOn
<1> QED BY <1>3, <1>5, <1>6, <1>7, <1>8

(* A handler in relay holds its proxy for a vetted origin request. *)
LEMMA RelayFacts ==
  ASSUME NEW c \in Clients, HandlerOK(c), phase[c] \in Relaying
  PROVE  /\ want[c] \in ClientRequests /\ want[c].op = "origin" /\ pc[c] = "leased"
         /\ ExpectAuth => want[c].authed
<1>1. want[c] \in ClientRequests /\ want[c].op = "origin" /\ ~MustRefuse(want[c])
      /\ pc[c] = "leased"
  BY DEF HandlerOK, InPlace, Trying
<1> QED BY <1>1, RequestFacts DEF HandlerOK, Barred, MustRefuse

(* Dial and peek: on to the commit, or back to the loop. *)
LEMMA UncommittedSteps ==
  ASSUME Typed, ClientsTyped, NEW c \in Clients, HandlerOK(c),
         \/ DialFails(c) \/ Dial(c) \/ PeekFails(c) \/ Peek(c)
         \/ ForwardFails(c) \/ Forward(c)
  PROVE  HandlerOK(c)'
<1> USE DEF poolVars, feedVars, callVars, loopVars
<1>0. /\ c \in Callers /\ phase[c] \in {"dial", "forward", "peek"}
      /\ phase \in [Clients -> Phases] /\ attempt \in [Clients -> 0..MaxTries]
      /\ sent \in [Clients -> Nat]
  BY ClientFacts DEF ClientsTyped, DialFails, Dial, PeekFails, Peek, ForwardFails, Forward
<1>1. /\ phase[c] \in Relaying /\ phase[c] \notin Opened
      /\ want[c] \in ClientRequests /\ want[c].op = "origin" /\ pc[c] = "leased"
      /\ ExpectAuth => want[c].authed
  BY <1>0, RelayFacts DEF Relaying, Opened
<1>2. ~MustRefuse(want[c]) /\ req[c].scheme = SchemeOf(want[c]) /\ heard[c] = <<>>
  BY <1>1 DEF HandlerOK, InPlace, Trying, Answered
<1>3. ASSUME want'[c] = want[c] PROVE Barred(c)'
  BY <1>1, <1>3 DEF Barred
<1>4. CASE DialFails(c) \/ PeekFails(c) \/ ForwardFails(c)
  <2>1. ReturnFailed(c) /\ To(c, "try") /\ UNCHANGED <<want, attempt, sent, heard>>
    BY <1>4 DEF DialFails, PeekFails, ForwardFails, Retry
  <2>2. phase'[c] = "try" /\ pc'[c] = "idle" /\ want'[c] = want[c]
    BY <1>0, <2>1, FinishIdles DEF To, ReturnFailed
  <2>3. InPlace(c)'
    BY <1>1, <1>2, <2>2 DEF InPlace, Trying, Relaying
  <2>4. Counted(c)'
    BY <1>1, <2>1, <2>2 DEF HandlerOK, Counted
  <2> QED BY <1>1, <1>3, <2>1, <2>2, <2>3, <2>4, GoesOn
<1>5. CASE Dial(c) \/ Peek(c)
  <2>1. PICK there \in {"forward", "commit"} :
          /\ To(c, there) /\ (there = "forward" => phase[c] = "dial")
          /\ UNCHANGED <<want, attempt, sent, heard, pc, req, lease>>
    BY <1>5 DEF Dial, Peek, vars
  <2>2. phase'[c] = there
    BY <1>0, <2>1 DEF To
  <2>3. InPlace(c)'
    BY <1>1, <1>2, <2>1, <2>2 DEF InPlace, Trying, Relaying
  <2>4. Counted(c)'
    BY <1>1, <2>1, <2>2 DEF HandlerOK, Counted
  <2> QED BY <1>1, <1>3, <2>1, <2>2, <2>3, <2>4, GoesOn
<1>6. CASE Forward(c)
  <2> DEFINE there == IF want[c].body THEN "splice" ELSE "peek"
  <2>1. /\ phase[c] = "forward" /\ To(c, there) /\ phase'[c] = there
        /\ sent'[c] = sent[c] + 1
        /\ UNCHANGED <<want, attempt, heard, pc, req, lease>>
    BY <1>0, <1>6 DEF Forward, To, vars
  <2>2. InPlace(c)'
    BY <1>1, <1>2, <2>1 DEF InPlace, Trying, Relaying
  <2>3. sent[c] < attempt[c] /\ sent[c] \in Nat /\ attempt[c] \in Nat
        /\ (want[c].body => sent[c] = 0)
    BY <1>0, <1>1, <2>1, RequestFacts, ServerAssumption DEF HandlerOK, Counted
  <2>4. Counted(c)'
    BY <1>1, <2>1, <2>3 DEF Counted, Opened
  <2> QED BY <1>1, <1>2, <1>3, <2>1, <2>2, <2>4, GoesOn
<1> QED BY <1>4, <1>5, <1>6

(* From the first byte to the client to the end of the task. *)
LEMMA CommittedSteps ==
  ASSUME Typed, ClientsTyped, NEW c \in Clients, HandlerOK(c),
         \/ Commit(c) \/ ClientGone(c) \/ SpliceFails(c) \/ SpliceOk(c) \/ PutBack(c)
         \/ Close(c)
  PROVE  HandlerOK(c)'
<1> USE DEF poolVars, feedVars, callVars, loopVars
<1>0. /\ c \in Callers /\ phase \in [Clients -> Phases] /\ DOMAIN heard = Clients
  BY ClientFacts DEF ClientsTyped
<1>1. ASSUME phase[c] \in Relaying
      PROVE  /\ want[c] \in ClientRequests /\ want[c].op = "origin" /\ pc[c] = "leased"
             /\ ~MustRefuse(want[c]) /\ req[c].scheme = SchemeOf(want[c])
             /\ (want'[c] = want[c] => Barred(c)')
  <2>1. ExpectAuth => want[c].authed
    BY <1>1, RelayFacts
  <2> QED BY <1>1, <2>1, RelayFacts DEF HandlerOK, InPlace, Trying, Barred
<1>2. CASE Commit(c)
  <2>1. /\ phase[c] = "commit" /\ phase'[c] = "splice"
        /\ Says(c, OpeningKind(want[c]), lease[c].id)
        /\ UNCHANGED <<want, attempt, sent, pc, req, lease>>
    BY <1>0, <1>2 DEF Commit, To, OpeningKind, vars
  <2>2. phase[c] \in Relaying /\ heard[c] = <<>>
    BY <2>1 DEF Relaying, HandlerOK, Answered, Opened
  <2>3. (OpeningKind(want[c]) = "socks") = (want[c].frontend = "Socks5" /\ want[c].op = "origin")
    BY <1>1, <2>2 DEF OpeningKind
  <2>refusal. OpeningKind(want[c]) # "refused"
    BY DEF OpeningKind
  <2>4. /\ heard'[c] = <<[kind |-> OpeningKind(want[c]), from |-> lease[c].id]>>
        /\ OpensOnce(heard'[c], want[c]) /\ Len(heard'[c]) \in 0..2
    BY <1>0, <2>1, <2>2, <2>3, <2>refusal, OneThingSaid DEF Says
  <2>5. InPlace(c)'
    BY <1>1, <2>1, <2>2 DEF InPlace, Trying, Relaying
  <2>6. Counted(c)'
    BY <2>1 DEF HandlerOK, Counted, Opened
  <2>7. Answered(c)'
    BY <2>1, <2>4 DEF Answered, Opened
  <2> QED BY <1>1, <2>1, <2>2, <2>5, <2>6, <2>7 DEF HandlerOK
<1>3. CASE ClientGone(c) \/ PutBack(c)
  <2>1. /\ phase[c] \in {"commit", "return"} /\ phase'[c] = "done" /\ pc'[c] = "idle"
        /\ UNCHANGED <<want, attempt, sent, heard>>
    BY <1>0, <1>3, FinishIdles DEF ClientGone, PutBack, To, ReturnOk
  <2>2. phase[c] \in Relaying
    BY <2>1 DEF Relaying
  <2>3. InPlace(c)'
    BY <2>1 DEF InPlace, Trying, Relaying
  <2>4. Counted(c)'
    BY <2>1 DEF HandlerOK, Counted, Opened
  <2>5. Answered(c)'
    BY <2>1 DEF HandlerOK, Answered, Opened
  <2> QED BY <1>1, <2>1, <2>2, <2>3, <2>4, <2>5 DEF HandlerOK
<1>4. ASSUME Spliced(c), phase[c] = "splice", UNCHANGED want
      PROVE  OpensOnce(heard'[c], want'[c]) /\ Len(heard'[c]) \in 0..2
  <2>1. CASE UNCHANGED heard
    BY <1>4, <2>1 DEF HandlerOK, Answered
  <2>2. CASE Says(c, "bytes", lease[c].id)
    <3>1. heard'[c] = Append(heard[c], [kind |-> "bytes", from |-> lease[c].id])
      BY <1>0, <2>2 DEF Says
    <3>2. CASE heard[c] = <<>>
      BY <1>4, <3>1, <3>2, OneThingSaid
    <3>3. CASE heard[c] = <<[kind |-> OpeningKind(want[c]), from |-> lease[c].id]>>
      <4>1. want[c].op = "origin"
        BY <1>1, <1>4 DEF Relaying
      <4> QED BY <1>4, <3>1, <3>3, <4>1, ReplyThenBytes
    <3> QED BY <1>4, <3>2, <3>3 DEF HandlerOK, Answered
  <2> QED BY <1>4, <2>1, <2>2 DEF Spliced
<1>5. CASE SpliceFails(c)
  <2>1. /\ phase[c] = "splice" /\ phase'[c] = "done" /\ pc'[c] = "idle" /\ Spliced(c)
        /\ UNCHANGED <<want, attempt, sent>>
    BY <1>0, <1>5, FinishIdles DEF SpliceFails, Committed, To, ReturnFailed
  <2>2. InPlace(c)'
    BY <2>1 DEF InPlace, Trying, Relaying
  <2>3. Counted(c)'
    BY <2>1 DEF HandlerOK, Counted, Opened
  <2>4. Answered(c)'
    BY <1>4, <2>1 DEF Answered, Opened
  <2> QED BY <1>1, <2>1, <2>2, <2>3, <2>4 DEF HandlerOK, Relaying
<1>6. CASE SpliceOk(c)
  <2>1. /\ phase[c] = "splice" /\ phase'[c] = "return" /\ Spliced(c)
        /\ UNCHANGED <<want, attempt, sent, pc, req, lease>>
    BY <1>0, <1>6 DEF SpliceOk, To, vars
  <2>2. InPlace(c)'
    BY <1>1, <2>1 DEF InPlace, Trying, Relaying
  <2>3. Counted(c)'
    BY <2>1 DEF HandlerOK, Counted, Opened
  <2>4. Answered(c)'
    BY <1>4, <2>1 DEF Answered, Opened
  <2> QED BY <1>1, <2>1, <2>2, <2>3, <2>4 DEF HandlerOK, Relaying
<1>7. CASE Close(c)
  <2>1. /\ phase[c] = "done" /\ phase'[c] = "closed"
        /\ UNCHANGED <<want, attempt, sent, heard, pc, req, lease>>
    BY <1>0, <1>7 DEF Close, To, vars
  <2>2. InPlace(c)'
    BY <2>1 DEF HandlerOK, InPlace, Trying, Relaying
  <2>3. Counted(c)'
    BY <2>1 DEF HandlerOK, Counted, Opened
  <2>4. Answered(c)' /\ Barred(c)'
    BY <2>1 DEF HandlerOK, Answered, Barred, Opened
  <2> QED BY <2>2, <2>3, <2>4 DEF HandlerOK
<1> QED BY <1>2, <1>3, <1>5, <1>6, <1>7

(***************************************************************************)
(* The invariant of the server.                                            *)
(***************************************************************************)

ServerInv == Typed /\ LeaseServes /\ SessionsInv /\ ServerTyped /\ HandlersOK

LEMMA InitServer == ServerInit => ServerInv
<1> SUFFICES ASSUME ServerInit PROVE ServerInv
  OBVIOUS
<1>1. Typed /\ LeaseServes /\ SessionsInv
  BY InitTyped, InitSessions DEF ServerInit, Init, LeaseServes, Holding
<1>2. LoopTyped
  <2>1. slots \in Nat
    BY ServerAssumption DEF ServerInit, Permits
  <2>2. DOMAIN history = {}
    BY DEF ServerInit
  <2> QED BY <2>1, <2>2 DEF ServerInit, LoopTyped
<1>3. ClientsTyped
  BY ServerAssumption DEF ServerInit, ClientsTyped, Phases
<1>4. ASSUME NEW c \in Clients PROVE HandlerOK(c)
  <2>1. /\ phase[c] = "away" /\ want[c] = NoRequest /\ attempt[c] = 0 /\ sent[c] = 0
        /\ heard[c] = <<>> /\ pc[c] = "idle"
    BY ClientFacts DEF ServerInit, Init
  <2>2. InPlace(c) /\ Counted(c) /\ Barred(c)
    BY <2>1 DEF InPlace, Counted, Barred, Trying, Relaying
  <2>3. Answered(c)
    BY <2>1, NothingSaid DEF Answered
  <2> QED BY <2>2, <2>3 DEF HandlerOK
<1> QED BY <1>1, <1>2, <1>3, <1>4 DEF ServerInv, ServerTyped, HandlersOK

LEMMA ServerInvStep == ServerInv /\ [ServerNext]_allVars => ServerInv'
<1> SUFFICES ASSUME ServerInv, [ServerNext]_allVars PROVE ServerInv'
  OBVIOUS
<1> USE DEF poolVars, feedVars, callVars, loopVars, clientVars, serverVars
<1>0. [Next]_vars
  BY ServerStepIsPoolStep DEF ServerInv
<1>1. Typed' /\ LeaseServes' /\ SessionsInv'
  BY <1>0, TypedStep, LeaseServesStep, SessionsStep DEF ServerInv
<1>2. ASSUME NEW c \in Clients, HandlerStep(c) \/ UntimedStep(c)
      PROVE  ServerTyped' /\ HandlersOK'
  <2>1. Typed /\ ServerTyped /\ ClientsTyped /\ HandlersOK /\ HandlerOK(c)
    BY DEF ServerInv, ServerTyped, HandlersOK
  <2>2. ServerTyped'
    BY <1>2, <2>1, HandlerStepTyped
  <2>3. HandlerOK(c)'
    BY <1>2, <2>1, RequestSteps, LoopSteps, UncommittedSteps, CommittedSteps
    DEF HandlerStep, UntimedStep
  <2>4. ASSUME NEW d \in Clients \ {c} PROVE HandlerOK(d)'
    <3>1. HandlerOK(d)
      BY DEF ServerInv, HandlersOK
    <3>2. Untouched(d)
      BY <1>2, <2>1, OthersUntouched
    <3> QED BY <3>1, <3>2, UntouchedStaysOK
  <2> QED BY <2>2, <2>3, <2>4 DEF HandlersOK
<1>3. ASSUME \A d \in Clients : Untouched(d) PROVE HandlersOK'
  BY <1>3, UntouchedStaysOK DEF ServerInv, HandlersOK
<1>4. ASSUME Shutdown \/ GateOpened \/ AcquirePermit \/ AcceptError \/ Stop \/ Served
             \/ UNCHANGED allVars
      PROVE  ServerTyped' /\ HandlersOK'
  <2>1. \A d \in Clients : Untouched(d)
    BY <1>4 DEF Shutdown, GateOpened, AcquirePermit, AcceptError, Stop, Served, allVars, vars,
                Untouched
  <2>2. UNCHANGED <<clientVars, rotations, history>>
    BY <1>4 DEF Shutdown, GateOpened, AcquirePermit, AcceptError, Stop, Served, allVars
  <2>3. LoopTyped => acceptor' \in {"gate", "acquire", "accept", "stopped"} /\ slots' \in Nat
    <3>1. slots' \in {slots, slots + 1} \/ (slots > 0 /\ slots' = slots - 1)
      BY <1>4 DEF Shutdown, GateOpened, AcquirePermit, AcceptError, Stop, Served, allVars
    <3>2. acceptor' \in {acceptor, "acquire", "accept", "stopped"}
      BY <1>4 DEF Shutdown, GateOpened, AcquirePermit, AcceptError, Stop, Served, allVars
    <3> QED BY <3>1, <3>2 DEF LoopTyped
  <2>4. cancelled' = cancelled \/ cancelled' = TRUE
    BY <1>4 DEF Shutdown, GateOpened, AcquirePermit, AcceptError, Stop, Served, allVars
  <2>5. LoopTyped => cancelled' \in BOOLEAN
    BY <2>4 DEF LoopTyped
  <2>6. ServerTyped'
    BY <2>2, <2>3, <2>5 DEF ServerInv, ServerTyped, LoopTyped, ClientsTyped
  <2> QED BY <1>3, <2>1, <2>6
<1>5. ASSUME NEW c \in Clients, Accept(c) PROVE ServerTyped' /\ HandlersOK'
  <2>1. ServerTyped'
    BY <1>5 DEF Accept, ServerInv, ServerTyped, LoopTyped, ClientsTyped, Phases
  <2>2. /\ phase[c] = "away" /\ phase'[c] = "parse"
        /\ \A d \in Clients \ {c} : phase'[d] = phase[d]
        /\ UNCHANGED <<want, attempt, sent, heard, pc, req, lease>>
    BY <1>5 DEF Accept, ServerInv, ServerTyped, ClientsTyped, vars
  <2>3. HandlerOK(c)
    BY DEF ServerInv, HandlersOK
  <2>4. HandlerOK(c)'
    <3>1. InPlace(c)' /\ Counted(c)' /\ Barred(c)'
      BY <2>2, <2>3 DEF HandlerOK, InPlace, Counted, Barred, Trying, Relaying, Opened
    <3>2. Answered(c)'
      BY <2>2, <2>3 DEF HandlerOK, Answered, Opened
    <3> QED BY <3>1, <3>2 DEF HandlerOK
  <2>5. ASSUME NEW d \in Clients \ {c} PROVE HandlerOK(d)'
    BY <2>2, UntouchedStaysOK DEF Untouched, ServerInv, HandlersOK
  <2> QED BY <2>1, <2>4, <2>5 DEF HandlersOK
<1>6. ASSUME UNCHANGED serverVars PROVE ServerTyped'
  BY <1>6 DEF ServerInv, ServerTyped, LoopTyped, ClientsTyped
<1>7. ASSUME GateWaits PROVE ServerTyped' /\ HandlersOK'
  <2>1. ASSUME NEW d \in Clients PROVE Untouched(d)
    <3>1. Acceptor \in Callers /\ d \in Callers \ {Acceptor}
      BY ServerAssumption, PoolAssumption DEF Clients
    <3>2. pc'[d] = pc[d] /\ req'[d] = req[d] /\ lease'[d] = lease[d]
      BY <1>7, <3>1, OthersKeep DEF GateWaits, CallerStep, ServerInv
    <3> QED BY <1>7, <3>2 DEF GateWaits, Untouched
  <2> QED BY <1>3, <1>6, <1>7, <2>1 DEF GateWaits
<1>8. ASSUME PoolStep PROVE ServerTyped' /\ HandlersOK'
  <2>1. UNCHANGED <<pc, req, lease>> /\ UNCHANGED serverVars
    BY <1>8 DEF PoolStep, Notify, Import, SourceEnds, Tick
  <2>2. \A d \in Clients : Untouched(d)
    BY <2>1 DEF Untouched
  <2> QED BY <1>3, <1>6, <2>1, <2>2
<1>9. ServerTyped' /\ HandlersOK'
  BY <1>2, <1>4, <1>5, <1>7, <1>8 DEF ServerNext, AcceptLoop
<1> QED BY <1>1, <1>9 DEF ServerInv

(* Every reachable state of the server satisfies the invariant. *)
LEMMA ServerIsSound == ServerSpec => []ServerInv
  BY InitServer, ServerInvStep, PTL DEF ServerSpec

(* Server implements Pool: whatever the accept loop, the handlers and their  *)
(* clients do, the pool sees only its own operations.                        *)
THEOREM ServerImplementsPool == ServerSpec => Spec
<1>1. ServerInit => Init
  BY DEF ServerInit
<1>2. ServerInv /\ [ServerNext]_allVars => [Next]_vars
  BY ServerStepIsPoolStep DEF ServerInv
<1> QED BY <1>1, <1>2, ServerIsSound, PTL DEF ServerSpec, Spec

(* So a running server leases every proxy to one handler at a time, loses no *)
(* wakeup of a handler that waits for a proxy, and serves no proxy that a    *)
(* put should have evicted: the pool's inductive invariant holds of it.      *)
THEOREM ServerPoolIsSound == ServerSpec => []PoolInv
  BY ServerImplementsPool, PoolIsSound, PTL

(* The commit boundary of relay, for any clients and any retries: a client   *)
(* is opened with one reply, in its protocol, and what follows is the byte   *)
(* stream of the upstream that reply came from.                              *)
THEOREM ClientsAreAnsweredOnce == ServerSpec => []CommitOnce
<1>1. HandlersOK => CommitOnce
  <2> SUFFICES ASSUME NEW c \in Clients, OpensOnce(heard[c], want[c])
               PROVE  /\ InProtocol(c)
                      /\ \A i, j \in DOMAIN heard[c] :
                           i < j => /\ heard[c][i].kind # "bytes"
                                    /\ heard[c][j].kind = "bytes"
                                    /\ heard[c][j].from = heard[c][i].from
    BY DEF HandlersOK, HandlerOK, Answered, CommitOnce
  <2> QED BY DEF OpensOnce, InProtocol
<1> QED BY <1>1, ServerIsSound, PTL DEF ServerInv

(* A request with a body reaches at most one upstream, however often the     *)
(* retry loop runs.                                                          *)
THEOREM BodiesAreSentOnce == ServerSpec => []BodySentOnce
<1>1. ServerTyped /\ HandlersOK => BodySentOnce
  <2> SUFFICES ASSUME ServerTyped, HandlersOK, NEW c \in Clients, want[c] # NoRequest,
                      sent[c] > 1, want[c].body
               PROVE  FALSE
    BY DEF BodySentOnce
  <2>1. sent[c] <= 1 /\ sent[c] \in Nat
    BY DEF HandlersOK, HandlerOK, Counted, ServerTyped, ClientsTyped
  <2> QED BY <2>1
<1> QED BY <1>1, ServerIsSound, PTL DEF ServerInv

(* With auth on, a client without the credentials is given its 407 and       *)
(* nothing else: no proxy, no answer of proxycontrol and no remove carried   *)
(* out, since each says something else; and nobody else is refused.          *)
THEOREM StrangersAreRefused == ServerSpec => []OnlyVettedClients
<1>1. HandlersOK => OnlyVettedClients
  <2> SUFFICES ASSUME NEW c \in Clients, HandlerOK(c), want[c] # NoRequest
               PROVE  IF ExpectAuth /\ ~want[c].authed
                      THEN /\ phase[c] \in {"parsed", "done", "closed"}
                           /\ heard[c] = IF phase[c] = "parsed" THEN <<>>
                                         ELSE <<[kind |-> "refused", from |-> 0]>>
                      ELSE \A i \in DOMAIN heard[c] : heard[c][i].kind # "refused"
    BY DEF HandlersOK, OnlyVettedClients
  <2>1. Barred(c) /\ \A i \in DOMAIN heard[c] : heard[c][i].kind = "refused" => MustRefuse(want[c])
    BY DEF HandlerOK, Answered, OpensOnce
  <2> QED BY <2>1 DEF Barred, MustRefuse
<1> QED BY <1>1, ServerIsSound, PTL DEF ServerInv

(* Whatever protocols a proxy that serves a scheme has confirmed,            *)
(* choose_proto finds one of them, and a tunnel is never HTTPS itself.       *)
LEMMA ChoosesProto ==
  ASSUME NEW p \in Proxy, NEW scheme \in SchemesOf(p)
  PROVE  /\ ChooseProto(p.types, scheme) # {}
         /\ "Https" \notin ChooseProto(p.types, scheme)
<1>1. CASE scheme = "Https"
  <2>1. p.types \cap HttpsProtos # {}
    BY <1>1 DEF SchemesOf
  <2>2. TunnelProto(p.types) # {} /\ "Https" \notin TunnelProto(p.types)
    BY <2>1 DEF TunnelProto, HttpsProtos
  <2> QED BY <1>1, <2>2 DEF ChooseProto
<1>2. CASE scheme = "Http"
  <2> DEFINE order == <<"Http", "Connect80", "Socks5", "Socks4">>
             found == {order[i] : i \in {j \in 1..4 : order[j] \in p.types
                                           /\ \A k \in 1..(j - 1) : order[k] \notin p.types}}
  <2>1. ChooseProto(p.types, scheme) = found
    BY <1>2 DEF ChooseProto
  <2>2. /\ order[1] = "Http" /\ order[2] = "Connect80" /\ order[3] = "Socks5"
        /\ order[4] = "Socks4" /\ 1..4 = {1, 2, 3, 4}
    OBVIOUS
  <2>3. \E j \in {1, 2, 3, 4} : order[j] \in p.types
    <3>1. p.types \cap HttpProtos # {}
      BY <1>2 DEF SchemesOf
    <3> HIDE DEF order
    <3> QED BY <2>2, <3>1 DEF HttpProtos
  <2> HIDE DEF order
  <2>4. \A i \in 1..4 : order[i] # "Https"
    BY <2>2
  <2>5. \E j \in 1..4 : order[j] \in p.types /\ \A k \in 1..(j - 1) : order[k] \notin p.types
    <3>1. CASE order[1] \in p.types
      <4>1. 1..(1 - 1) = {}
        OBVIOUS
      <4> QED BY <3>1, <4>1
    <3>2. CASE order[1] \notin p.types /\ order[2] \in p.types
      <4>1. 1..(2 - 1) = {1}
        OBVIOUS
      <4> QED BY <3>2, <4>1
    <3>3. CASE order[1] \notin p.types /\ order[2] \notin p.types /\ order[3] \in p.types
      <4>1. 1..(3 - 1) = {1, 2}
        OBVIOUS
      <4> QED BY <3>3, <4>1
    <3>4. CASE /\ order[1] \notin p.types /\ order[2] \notin p.types
               /\ order[3] \notin p.types /\ order[4] \in p.types
      <4>1. 1..(4 - 1) = {1, 2, 3}
        OBVIOUS
      <4> QED BY <3>4, <4>1
    <3> QED BY <2>3, <3>1, <3>2, <3>3, <3>4
  <2> QED BY <2>1, <2>4, <2>5
<1> QED BY <1>1, <1>2 DEF SchemesOf, Schemes

(* choose_proto never needs its fallback in the server: the proxy a handler  *)
(* dials has a confirmed protocol for the client's scheme.                   *)
THEOREM DialedProtoIsConfirmed == ServerSpec => []ProtoIsConfirmed
<1>1. ServerInv => ProtoIsConfirmed
  <2> SUFFICES ASSUME ServerInv, NEW c \in Clients, phase[c] = "dial"
               PROVE  LET found == ChooseProto(lease[c].types, SchemeOf(want[c]))
                      IN  found # {} /\ "Https" \notin found
    BY DEF ProtoIsConfirmed
  <2>1. HandlerOK(c) /\ Typed /\ phase[c] \in Relaying /\ c \in Callers
    BY ClientFacts DEF ServerInv, HandlersOK, Relaying
  <2>2. pc[c] \in Holding /\ req[c].scheme = SchemeOf(want[c]) /\ lease[c] \in Proxy
    BY <2>1, HeldByHandler DEF HandlerOK, InPlace, Holding
  <2>3. SchemeOf(want[c]) \in SchemesOf(lease[c])
    BY <2>1, <2>2 DEF ServerInv, LeaseServes
  <2> QED BY <2>2, <2>3, ChoosesProto
<1> QED BY <1>1, ServerIsSound, PTL

(***************************************************************************)
(* Permits.                                                                *)
(***************************************************************************)

LEMMA InFlightFinite == IsFiniteSet(InFlight) /\ Cardinality(InFlight) \in Nat
<1>1. InFlight \subseteq Callers
  BY DEF InFlight, Clients
<1> QED BY <1>1, HoldersFinite

(* The connections in flight change by an accept and by the end of a task. *)
LEMMA InFlightMoves ==
  ASSUME ClientsTyped, NEW c \in Clients, NEW there, To(c, there)
  PROVE  /\ phase[c] \notin {"away", "closed"} /\ there \notin {"away", "closed"} =>
              InFlight' = InFlight
         /\ phase[c] = "away" /\ there \notin {"away", "closed"} =>
              Cardinality(InFlight') = Cardinality(InFlight) + 1
         /\ phase[c] \notin {"away", "closed"} /\ there = "closed" =>
              Cardinality(InFlight') = Cardinality(InFlight) - 1
<1>1. phase'[c] = there /\ \A d \in Clients \ {c} : phase'[d] = phase[d]
  BY DEF ClientsTyped, To
<1>2. ASSUME phase[c] \notin {"away", "closed"}, there \notin {"away", "closed"}
      PROVE  InFlight' = InFlight
  BY <1>1, <1>2 DEF InFlight
<1>3. ASSUME phase[c] = "away", there \notin {"away", "closed"}
      PROVE  Cardinality(InFlight') = Cardinality(InFlight) + 1
  <2>1. InFlight' = InFlight \cup {c} /\ c \notin InFlight
    BY <1>1, <1>3 DEF InFlight
  <2> QED BY <2>1, InFlightFinite, FS_AddElement
<1>4. ASSUME phase[c] \notin {"away", "closed"}, there = "closed"
      PROVE  Cardinality(InFlight') = Cardinality(InFlight) - 1
  <2>1. InFlight' = InFlight \ {c} /\ c \in InFlight
    BY <1>1, <1>4 DEF InFlight
  <2> QED BY <2>1, InFlightFinite, FS_RemoveElement
<1> QED BY <1>2, <1>3, <1>4

LEMMA PermitsStep ==
  ASSUME ServerTyped, PermitsConserved, [ServerNext]_allVars
  PROVE  PermitsConserved'
<1> USE DEF loopVars, clientVars, serverVars
<1> DEFINE n == Cardinality(InFlight)
           m == Cardinality(InFlight)'
<1>0. n \in Nat /\ slots \in Nat /\ ClientsTyped
  BY InFlightFinite DEF ServerTyped, LoopTyped
<1>1. ASSUME UNCHANGED phase PROVE m = n
  <2>1. InFlight' = InFlight
    BY <1>1 DEF InFlight
  <2> QED BY <2>1
<1>2. ASSUME m = n, UNCHANGED <<slots, acceptor>> PROVE PermitsConserved'
  BY <1>2 DEF PermitsConserved
<1>3. ASSUME NEW c \in Clients, HandlerStep(c) \/ UntimedStep(c) PROVE PermitsConserved'
  <2>1. CASE Close(c)
    <3>1. To(c, "closed") /\ phase[c] = "done" /\ slots' = slots + 1 /\ acceptor' = acceptor
      BY <2>1 DEF Close
    <3>2. m = n - 1
      BY <1>0, <3>1, InFlightMoves
    <3> HIDE DEF n, m
    <3> QED BY <1>0, <3>1, <3>2 DEF PermitsConserved, n, m
  <2>2. CASE ~Close(c)
    <3>1. UNCHANGED <<slots, acceptor>>
      BY <1>3, <2>2 DEF HandlerStep, UntimedStep, ParseFails, Parse, Refuse, ControlRemove,
           ControlHistory, ControlOther, Resolve, TryNext, OutOfTries, Getting, NothingLeft, Got,
           DialFails, Dial, PeekFails, Peek, Commit, ClientGone, PutBack, ForwardFails, Forward,
           SpliceFails, SpliceOk, Retry, Committed
    <3>2. \/ UNCHANGED phase
          \/ /\ phase[c] \notin {"away", "closed"}
             /\ \E there : there \notin {"away", "closed"} /\ To(c, there)
      <4>1. CASE ParseFails(c) \/ Parse(c) \/ Refuse(c) \/ ControlRemove(c) \/ ControlHistory(c)
                 \/ ControlOther(c) \/ Resolve(c) \/ TryNext(c) \/ OutOfTries(c) \/ Getting(c)
                 \/ NothingLeft(c) \/ Got(c)
        BY <4>1 DEF ParseFails, Parse, Refuse, ControlRemove, ControlHistory, ControlOther,
                    Vetted, Resolve, TryNext, OutOfTries, Getting, NothingLeft, Got
      <4>2. CASE DialFails(c) \/ PeekFails(c) \/ ForwardFails(c) \/ SpliceFails(c)
        BY <4>2 DEF DialFails, PeekFails, ForwardFails, SpliceFails, Retry, Committed
      <4>3. CASE Dial(c) \/ Peek(c) \/ Commit(c) \/ ClientGone(c) \/ PutBack(c) \/ Forward(c)
                 \/ SpliceOk(c)
        BY <4>3 DEF Dial, Peek, Commit, ClientGone, PutBack, Forward, SpliceOk
      <4> QED BY <1>3, <2>2, <4>1, <4>2, <4>3 DEF HandlerStep, UntimedStep
    <3>3. m = n
      BY <1>0, <1>1, <3>2, InFlightMoves
    <3> QED BY <1>2, <3>1, <3>3
  <2> QED BY <2>1, <2>2
<1>4. ASSUME NEW c \in Clients, Accept(c) PROVE PermitsConserved'
  <2>1. /\ To(c, "parse") /\ phase[c] = "away" /\ slots' = slots
        /\ acceptor = "accept" /\ acceptor' = "acquire"
    BY <1>4 DEF Accept, To
  <2>2. m = n + 1
    BY <1>0, <2>1, InFlightMoves
  <2> HIDE DEF n, m
  <2> QED BY <1>0, <2>1, <2>2 DEF PermitsConserved, n, m
<1>5. ASSUME AcquirePermit \/ AcceptError \/ Stop PROVE PermitsConserved'
  <2>1. m = n
    BY <1>1, <1>5 DEF AcquirePermit, AcceptError, Stop
  <2> HIDE DEF n, m
  <2>2. CASE AcquirePermit
    BY <1>0, <2>1, <2>2 DEF PermitsConserved, AcquirePermit, n, m
  <2>3. CASE AcceptError
    BY <1>0, <2>1, <2>3 DEF PermitsConserved, AcceptError, n, m
  <2>4. CASE Stop
    BY <1>0, <2>1, <2>4 DEF PermitsConserved, Stop, n, m
  <2> QED BY <1>5, <2>2, <2>3, <2>4
<1>6. ASSUME GateOpened PROVE PermitsConserved'
  BY <1>1, <1>6 DEF GateOpened, PermitsConserved
<1>7. ASSUME Shutdown \/ Served \/ PoolStep \/ GateWaits \/ UNCHANGED allVars
      PROVE  PermitsConserved'
  <2>1. UNCHANGED <<phase, slots, acceptor>>
    BY <1>7 DEF Shutdown, Served, PoolStep, GateWaits, allVars
  <2> QED BY <1>1, <1>2, <2>1
<1> QED BY <1>3, <1>4, <1>5, <1>6, <1>7 DEF ServerNext, AcceptLoop

LEMMA InitPermits == ServerInit => PermitsConserved
<1> SUFFICES ASSUME ServerInit PROVE PermitsConserved
  OBVIOUS
<1>1. InFlight = {} /\ slots = Permits /\ acceptor = "gate" /\ Permits \in Nat
  BY ServerAssumption DEF ServerInit, InFlight, Permits
<1>2. Cardinality({}) = 0
  BY FS_EmptySet
<1> QED BY <1>1, <1>2 DEF PermitsConserved

(* Permits are neither leaked nor minted, whichever way an accept, a handler *)
(* or the loop itself ends: at most max_clients connections are in flight,   *)
(* and all the permits are back when none is.                                *)
THEOREM PermitsAreConserved == ServerSpec => []PermitsConserved
<1>1. ServerInv /\ PermitsConserved /\ [ServerNext]_allVars => PermitsConserved'
  BY PermitsStep DEF ServerInv
<1> QED BY <1>1, InitPermits, ServerIsSound, PTL DEF ServerSpec

(* Every reachable state of the server is well typed; no handler starts more *)
(* than max_tries iterations, and the sticky map is within its cap.          *)
THEOREM ServerTypeCorrect == ServerSpec => []ServerTypeOK
<1>1. ServerInv /\ PermitsConserved => ServerTypeOK
  <2> SUFFICES ASSUME ServerInv, PermitsConserved PROVE ServerTypeOK
    OBVIOUS
  <2>1. LoopTyped /\ ClientsTyped /\ TypeOK /\ SessionsBounded
    BY DEF ServerInv, ServerTyped, Typed, SessionsInv
  <2>2. slots \in 0..Permits
    <3>1. Cardinality(InFlight) \in Nat /\ slots \in Nat /\ Permits \in Nat
      BY <2>1, InFlightFinite, ServerAssumption DEF LoopTyped, Permits
    <3> QED BY <3>1 DEF PermitsConserved
  <2>3. sent \in [Clients -> 0..MaxTries]
    <3>1. \A c \in Clients : sent[c] <= attempt[c]
      BY DEF ServerInv, HandlersOK, HandlerOK, Counted
    <3>2. \A c \in Clients : sent[c] \in 0..MaxTries
      BY <2>1, <3>1, ServerAssumption DEF ClientsTyped
    <3> QED BY <2>1, <3>2 DEF ClientsTyped
  <2>4. \A c \in Clients : Len(heard[c]) \in Nat
    BY DEF ServerInv, HandlersOK, HandlerOK, Answered
  <2> QED BY <2>1, <2>2, <2>3, <2>4 DEF ServerTypeOK, LoopTyped, ClientsTyped
<1> QED BY <1>1, ServerIsSound, PermitsAreConserved, PTL

(***************************************************************************)
(* What a step of the server may do.                                       *)
(***************************************************************************)

(* A proxy on the bench is selected only when every eligible one is. *)
LEMMA SelectsFromTier ==
  ASSUME NEW c \in Callers, NEW i \in BestFor(state, req[c].scheme, ctx[c])
  PROVE  \/ Ready(state[i], ctx[c].now)
         \/ \A j \in Eligible(state, req[c].scheme) : ~Ready(state[j], ctx[c].now)
  BY BestForInTier DEF Tier

(* A retry goes back to the proxy that failed it only when its bench is over *)
(* or every proxy that could serve the request is benched.                   *)
THEOREM RotationsAvoidTheBench == ServerSpec => RotationAvoidsBenched
<1> DEFINE Excused(c) ==
             \E i \in DOMAIN state :
               /\ state[i].proxy = lease'[c]
               /\ \/ Ready(state[i], ctx[c].now)
                  \/ \A j \in Eligible(state, req[c].scheme) : ~Ready(state[j], ctx[c].now)
           Avoids == \A c \in Clients :
             pc[c] \in {"select", "last"} /\ pc'[c] \in Holding /\ lease'[c].id = lastFailed[c] =>
               Excused(c)
<1>1. ServerInv /\ [ServerNext]_allVars => [Avoids]_allVars
  <2> SUFFICES ASSUME ServerInv, [ServerNext]_allVars, NEW c \in Clients,
                      pc[c] \in {"select", "last"}, pc'[c] \in Holding
               PROVE  Excused(c)
    OBVIOUS
  <2>1. c \in Callers /\ Typed /\ [Next]_vars /\ pc[c] \notin Holding
    BY ClientFacts, ServerStepIsPoolStep DEF ServerInv, Holding
  <2>2. PICK i \in BestFor(state, req[c].scheme, ctx[c]) :
          i \in DOMAIN state /\ state[i].proxy = lease'[c]
    BY <2>1, HoldsBySelect
  <2> QED BY <2>1, <2>2, SelectsFromTier
<1> QED BY <1>1, ServerIsSound, PTL DEF ServerSpec, RotationAvoidsBenched

(* A selection moves the proxy from the pool into the handler's hands. *)
LEMMA SelectKeepsUsed ==
  ASSUME Typed, ClientsTyped, NEW c \in Clients, phase[c] = "get", Select(c),
         UNCHANGED phase
  PROVE  InPool \cup InUse \subseteq InPool' \cup InUse'
<1>1. PICK i \in DOMAIN state :
        /\ pc[c] \notin Holding /\ pc'[c] \in Holding /\ lease'[c] = state[i].proxy
        /\ \A d \in Callers \ {c} : pc'[d] = pc[d] /\ lease'[d] = lease[d]
        /\ \A j \in DOMAIN state : j # i => \E k \in DOMAIN state' : state'[k] = state[j]
  BY ClientFacts, SelectMoves
<1>2. state[i].proxy.id \in InUse'
  BY <1>1 DEF InUse
<1>3. InPool \subseteq InPool' \cup InUse'
  BY <1>1, <1>2 DEF InPool
<1>4. InUse \subseteq InUse'
  BY <1>1 DEF InUse, Clients
<1> QED BY <1>3, <1>4

(* The other handlers keep what they hold. *)
LEMMA OthersInUse ==
  ASSUME NEW c \in Clients, \A d \in Clients \ {c} : Untouched(d)
  PROVE  InUse \subseteq InUse' \cup {lease[c].id}
  BY DEF InUse, Untouched

LEMMA ServerKeepsStep ==
  ASSUME ServerInv, ServerNext
  PROVE  \/ InPool \cup InUse \subseteq InPool' \cup InUse'
         \/ evictions' = evictions + 1
         \/ \E c \in Clients : ControlRemove(c) /\ MayEvict(want[c])
<1> USE DEF poolVars, feedVars, callVars, loopVars, clientVars, serverVars
<1> DEFINE Kept == InPool \cup InUse \subseteq InPool' \cup InUse'
<1>0. Typed /\ ClientsTyped /\ HandlersOK
  BY DEF ServerInv, ServerTyped
<1>1. ASSUME UNCHANGED <<state, pc, lease, phase>> PROVE Kept
  <2>1. InPool' = InPool
    BY <1>1 DEF InPool
  <2>2. InUse' = InUse
    BY <1>1 DEF InUse
  <2> QED BY <2>1, <2>2
<1>2. ASSUME NEW c \in Clients, HandlerStep(c) \/ UntimedStep(c)
      PROVE  Kept \/ evictions' = evictions + 1 \/ (ControlRemove(c) /\ MayEvict(want[c]))
  <2>0. /\ HandlerOK(c) /\ c \in Callers /\ \A d \in Clients \ {c} : Untouched(d)
    BY <1>0, <1>2, ClientFacts, OthersUntouched DEF HandlersOK
  <2>1. InUse \subseteq InUse' \cup {lease[c].id}
    BY <2>0, OthersInUse
  <2>2. CASE ReturnOk(c) \/ ReturnFailed(c)
    <3>1. PICK p \in Proxy : p.id = lease[c].id /\ \E u \in Nat : PutInner(c, p, u)
      <4>1. pc[c] = "leased" /\ lease[c] \in Proxy
        BY <1>0, <2>0, <2>2 DEF ReturnOk, ReturnFailed, Here, Typed, HeldIsProxy, Holding
      <4>2. clock + FailTimeout \in Nat
        BY <1>0, PoolAssumption DEF Typed, TypeOK
      <4> QED BY <2>2, <4>1, <4>2, RecordFacts DEF ReturnOk, ReturnFailed, PutOk, PutFailed
    <3>2. pc[c] \in Holding
      BY <2>2 DEF ReturnOk, ReturnFailed, Here, Holding
    <3>3. evictions' = evictions + 1 \/ InPool' = InPool \cup {lease[c].id}
      BY <1>0, <2>0, <3>1, <3>2, ReturnKeepsPooled
    <3> QED BY <2>1, <3>3
  <2>3. ASSUME InPool' = InPool, InUse \subseteq InUse' PROVE Kept
    BY <2>3
  <2>4. ASSUME UNCHANGED vars,
               phase[c] \notin {"get"} \cup Relaying \/ phase'[c] \in {"get"} \cup Relaying
        PROVE  Kept
    <3>1. InPool' = InPool
      BY <2>4 DEF InPool, vars
    <3>2. InUse \subseteq InUse'
      BY <2>0, <2>4 DEF InUse, vars, Untouched, Relaying
    <3> QED BY <3>1, <3>2
  <2>5. CASE ParseFails(c) \/ Parse(c) \/ Refuse(c) \/ ControlHistory(c) \/ ControlOther(c)
             \/ Resolve(c) \/ OutOfTries(c) \/ Close(c)
    <3>1. UNCHANGED vars /\ phase[c] \in {"parse", "parsed", "try", "done"}
      BY <2>5 DEF ParseFails, Parse, Refuse, ControlHistory, ControlOther, Vetted, Resolve,
                  OutOfTries, Close
    <3> QED BY <2>4, <3>1 DEF Relaying
  <2>6. CASE Got(c) \/ Dial(c) \/ Peek(c) \/ Commit(c) \/ Forward(c) \/ SpliceOk(c)
    <3>1. UNCHANGED vars /\ phase'[c] \in Relaying
      BY <1>0, <2>6 DEF ClientsTyped, To, Got, Dial, Peek, Commit, Forward, SpliceOk, Relaying
    <3> QED BY <2>4, <3>1
  <2>7. ASSUME InPool' = InPool, pc[c] \notin Holding PROVE Kept
    <3>1. InUse \subseteq InUse'
      BY <2>0, <2>7 DEF InUse, Untouched
    <3> QED BY <2>3, <2>7, <3>1
  <2>8. CASE TryNext(c) \/ NothingLeft(c)
    <3>1. UNCHANGED state /\ pc[c] \in {"idle", "none"}
      BY <2>8 DEF TryNext, NothingLeft, BeginGet, GiveUp, Here
    <3>2. InPool' = InPool /\ pc[c] \notin Holding
      BY <3>1 DEF InPool, Holding
    <3> QED BY <2>7, <3>2
  <2>9. CASE DialFails(c) \/ PeekFails(c) \/ ClientGone(c) \/ PutBack(c) \/ ForwardFails(c)
             \/ SpliceFails(c)
    BY <2>2, <2>9 DEF DialFails, PeekFails, ClientGone, PutBack, ForwardFails, SpliceFails,
                      Retry, Committed
  <2>10. CASE ControlRemove(c)
    <3>1. phase[c] = "parsed" /\ ~MustRefuse(want[c])
      BY <2>10 DEF ControlRemove, Vetted
    <3>2. want[c] \in ClientRequests /\ Barred(c)
      BY <2>0, <3>1 DEF HandlerOK, InPlace
    <3>3. CASE RemoveAllowed(want[c])
      <4>1. MayEvict(want[c])
        BY <3>1, <3>2, <3>3, RequestFacts DEF MayEvict, RemoveAllowed, MustRefuse, Barred
      <4> QED BY <2>10, <4>1
    <3>4. CASE ~RemoveAllowed(want[c])
      <4>1. UNCHANGED vars
        BY <2>10, <3>4 DEF ControlRemove
      <4> QED BY <2>4, <3>1, <4>1 DEF Relaying
    <3> QED BY <3>3, <3>4
  <2>11. CASE Getting(c)
    <3>1. phase[c] = "get" /\ UNCHANGED phase
      BY <2>11 DEF Getting
    <3>2. CASE Select(c)
      BY <1>0, <3>1, <3>2, SelectKeepsUsed
    <3>3. CASE VerifyFailed(c)
      <4>1. pc[c] \in Holding /\ lease[c] \in Proxy
        BY <1>0, <2>0, <3>3 DEF VerifyFailed, Here, Typed, HeldIsProxy, Holding
      <4>2. clock + FailTimeout \in Nat
        BY <1>0, PoolAssumption DEF Typed, TypeOK
      <4>3. PutInner(c, lease[c], clock + FailTimeout)
        BY <3>3 DEF VerifyFailed, PutFailed
      <4>4. evictions' = evictions + 1 \/ InPool' = InPool \cup {lease[c].id}
        BY <1>0, <2>0, <4>1, <4>2, <4>3, ReturnKeepsPooled
      <4> QED BY <2>1, <4>4
    <3>4. CASE Arm(c) \/ Miss(c) \/ CheckExhausted(c) \/ Wake(c)
      <4>1. UNCHANGED state /\ pc[c] \notin Holding
        BY <3>4 DEF Arm, Miss, CheckExhausted, Wake, Here, Holding
      <4>2. InPool' = InPool
        BY <4>1 DEF InPool
      <4> QED BY <2>7, <4>1, <4>2
    <3>5. CASE Record(c) \/ VerifyPassed(c)
      <4>1. UNCHANGED <<state, lease>> /\ pc'[c] \in Holding
        BY <1>0, <2>0, <3>5
        DEF Record, VerifyPassed, Goto, Chosen, Holding, Typed, TypeOK
      <4>2. InPool' = InPool
        BY <4>1 DEF InPool
      <4>3. InUse \subseteq InUse'
        BY <2>0, <3>1, <4>1 DEF InUse, Untouched
      <4> QED BY <2>3, <4>2, <4>3
    <3> QED BY <2>11, <3>2, <3>3, <3>4, <3>5 DEF Getting, GetStep
  <2> QED BY <1>2, <2>5, <2>6, <2>8, <2>9, <2>10, <2>11 DEF HandlerStep, UntimedStep
<1>3. ASSUME Shutdown \/ GateOpened \/ AcquirePermit \/ AcceptError \/ Stop \/ Served PROVE Kept
  <2>1. UNCHANGED vars /\ UNCHANGED phase
    BY <1>3 DEF Shutdown, GateOpened, AcquirePermit, AcceptError, Stop, Served, allVars
  <2> QED BY <1>1, <2>1 DEF vars
<1>4. ASSUME \A d \in Clients : Untouched(d), InPool \subseteq InPool' PROVE Kept
  <2>1. InUse' = InUse
    BY <1>4 DEF InUse, Untouched
  <2> QED BY <1>4, <2>1
<1>5. ASSUME NEW c \in Clients, Accept(c) PROVE Kept
  <2>1. UNCHANGED vars /\ phase[c] = "away" /\ \A d \in Clients \ {c} : phase'[d] = phase[d]
    BY <1>0, <1>5 DEF Accept, ClientsTyped
  <2>2. InPool' = InPool
    BY <2>1 DEF InPool, vars
  <2>3. InUse \subseteq InUse'
    BY <2>1 DEF InUse, vars
  <2> QED BY <2>2, <2>3
<1>6. ASSUME GateWaits PROVE Kept
  <2>1. ASSUME NEW d \in Clients PROVE Untouched(d)
    <3>1. Acceptor \in Callers /\ d \in Callers \ {Acceptor}
      BY ServerAssumption, PoolAssumption DEF Clients
    <3>2. pc'[d] = pc[d] /\ req'[d] = req[d] /\ lease'[d] = lease[d]
      BY <1>0, <1>6, <3>1, OthersKeep DEF GateWaits, CallerStep
    <3> QED BY <1>6, <3>2 DEF GateWaits, Untouched
  <2>2. UNCHANGED state
    BY <1>6 DEF GateWaits, GateStep, CallWaitReady, CheckReady, WakeGate
  <2>3. InPool' = InPool
    BY <2>2 DEF InPool
  <2> QED BY <1>4, <2>1, <2>3
<1>7. ASSUME PoolStep PROVE Kept
  <2>1. UNCHANGED <<pc, lease, phase>>
    BY <1>7 DEF PoolStep, Notify, Import, SourceEnds, Tick
  <2>2. \/ UNCHANGED state
        \/ \E p \in Feed : state' = Append(state, Fresh(p))
    BY <1>7 DEF PoolStep, Notify, Import, SourceEnds, Tick
  <2>3. CASE UNCHANGED state
    BY <1>1, <2>1, <2>3
  <2>4. ASSUME NEW p \in Feed, state' = Append(state, Fresh(p)) PROVE Kept
    <3>1. state \in Seq(Pooled) /\ Fresh(p) \in Pooled
      BY <1>0, PoolAssumption DEF Typed, TypeOK, Fresh, Pooled
    <3>2. DOMAIN state \subseteq DOMAIN state' /\ \A i \in DOMAIN state : state'[i] = state[i]
      BY <2>4, <3>1, AppendFacts
    <3>3. InPool \subseteq InPool'
      BY <3>2 DEF InPool
    <3>4. InUse' = InUse
      BY <2>1 DEF InUse
    <3> QED BY <3>3, <3>4
  <2> QED BY <2>2, <2>3, <2>4
<1> QED BY <1>2, <1>3, <1>5, <1>6, <1>7 DEF ServerNext, AcceptLoop

(* The pool never shrinks behind the operator's back: a proxy leaves a       *)
(* running server only by a counted eviction or by a proxycontrol remove     *)
(* from a client that may ask for one.                                       *)
THEOREM ServerLosesNoProxy == ServerSpec => ServerKeepsProxies
<1> DEFINE Keeps == \/ InPool \cup InUse \subseteq InPool' \cup InUse'
                    \/ evictions' = evictions + 1
                    \/ \E c \in Clients : ControlRemove(c) /\ MayEvict(want[c])
<1>1. ServerInv /\ [ServerNext]_allVars => [Keeps]_allVars
  BY ServerKeepsStep
<1> QED BY <1>1, ServerIsSound, PTL DEF ServerSpec, ServerKeepsProxies

=============================================================================
