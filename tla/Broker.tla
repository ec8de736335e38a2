------------------------------- MODULE Broker -------------------------------
(***************************************************************************)
(* The three requests of src/broker.rs, from their source to their stream: *)
(*   find   providers are fetched, a few at a time, their pages scanned    *)
(*          for addresses; new ones of an allowed country are checked      *)
(*   check  the same pipeline over addresses the user typed                *)
(*   grab   the gathered addresses, unchecked, up to the limit             *)
(* find and check run CheckStream on what their source yields.             *)
(*                                                                         *)
(* A page is a sequence of tokens, each an address as it is spelt or a     *)
(* port; NoPort stands for the empty match.  A fetch, buffered by          *)
(* buffer_unordered, makes progress only while its stream is polled.       *)
(***************************************************************************)
EXTENDS CheckStream, Sequences

CONSTANTS
  Kinds,         \* which requests are made
  Bundled,       \* bundled_registry
  Configs,       \* the files of --provider-dir
  ProvidersOnly, \* --providers-only
  Pages,         \* the page of each provider
  UserText,      \* what check reads: a sequence of lines, each of tokens
  Spelt,         \* spelling -> the host it means, whether strictly so, and its
                 \* first octet of two digits or more, or NoPort
  NoHost,        \* not an address
  Unspecified,   \* 0.0.0.0 or ::
  Located,       \* the country of each host
  Requested,     \* --countries, as typed
  MaxFetches     \* MAX_CONCURRENT_PROVIDERS (3 in the code)

VARIABLES
  kind,      \* the request
  waiting,   \* providers not fetched yet
  fetching,  \* providers whose page is under way
  batch,     \* candidates of the page last received, not looked at yet
  seen,      \* the addresses seen so far
  grab,      \* where grab_task is
  picked,    \* the proxy it is sending
  given,     \* its sent
  queue,     \* the channel of its stream
  taken,     \* what its consumer has received
  listening  \* its stream is alive

sourceVars == <<kind, waiting, fetching, batch, seen>>
grabVars   == <<grab, picked, given, queue, taken, listening>>
brokerVars == <<csVars, sourceVars, grabVars>>

-----------------------------------------------------------------------------
(* Providers: the bundled ones, unless they are turned off, and every config *)
(* file that is enabled, parses and is of a supported type.                  *)

LoadProviderDir(files) ==
  {f.id : f \in {g \in files :
     /\ g.ext \in {"yaml", "yml", "json"}
     /\ ~g.disabled
     /\ g.parses
     /\ g.type \in {"none", "simple"}}}

(* run refuses an empty list. *)
Providers == (IF ProvidersOnly THEN {} ELSE Bundled) \cup LoadProviderDir(Configs)

ASSUME SomeProvider == Providers # {}

-----------------------------------------------------------------------------
(* parse.rs, resolver.rs, utils.rs: finding addresses in text. *)

NoPort == -1
IsIp(token) == token.is = "ip"

(* Every address, with the port that follows it before the next address; the *)
(* last one only if something follows.                                       *)
FindAddrsGlobal(page) ==
  {[host |-> page[k].of, port |-> IF IsIp(page[k + 1]) THEN NoPort ELSE page[k + 1].of] :
     k \in {j \in 1..(Len(page) - 1) : IsIp(page[j])}}

(* The first run of two digits or more in a token: a port's, or an octet's.  *)
DigitRun(token) == IF IsIp(token) THEN Spelt[token.of].octet ELSE token.of

(* The first address of each line, with the first run of digits after it:    *)
(* the octet of a second address is taken for the port.                      *)
FindAddrsLine(text) ==
  LET first(line) == {k \in DOMAIN line : IsIp(line[k]) /\ \A j \in 1..(k - 1) : ~IsIp(line[j])}
      port(line, k) == {m \in DOMAIN line :
                          /\ m > k /\ DigitRun(line[m]) # NoPort
                          /\ \A j \in (k + 1)..(m - 1) : DigitRun(line[j]) = NoPort}
      found(line, n) == UNION {{[host |-> line[k].of, port |-> DigitRun(line[m]), line |-> n] :
                                  m \in port(line, k)} : k \in first(line)}
  IN  UNION {found(text[n], n) : n \in DOMAIN text}

CanonicalizeIp(s)  == IF Spelt[s].strict THEN Spelt[s].host ELSE NoHost
ParseIpLenient(s)  == Spelt[s].host

(* ProviderSpec::extract: canonical, specified hosts with a port that is a   *)
(* u16 and not 0.  A candidate of a page has no line.                        *)
Extract(page) ==
  {[host |-> CanonicalizeIp(r.host), port |-> r.port, line |-> 0] :
     r \in {q \in FindAddrsGlobal(page) :
       /\ q.port \in 1..65535
       /\ CanonicalizeIp(q.host) \notin {NoHost, Unspecified}}}

(* parse_proxy_lines: what the user typed, each line on its own. *)
ParseProxyLines(text) ==
  {[host |-> ParseIpLenient(r.host), port |-> r.port, line |-> r.line] :
     r \in {q \in FindAddrsLine(text) : q.port \in 0..65535 /\ ParseIpLenient(q.host) # NoHost}}

(* Items holds whatever the pages and the user's text name. *)
ASSUME BrokerAssumption ==
  /\ \A p \in Providers : Extract(Pages[p]) \subseteq Items
  /\ ParseProxyLines(UserText) \subseteq Items

(* Country codes are compared in upper case. *)
Upper(code) == CASE code = "us" -> "US" [] OTHER -> code
UppercaseSet(codes) == {Upper(c) : c \in codes}

(* country_ok after attach_geo. *)
CountryOk(i) == Requested = {} \/ Located[i.host] \in UppercaseSet(Requested)

-----------------------------------------------------------------------------
BrokerInit ==
  /\ Init
  /\ kind \in Kinds
  /\ waiting = IF kind = "check" THEN {} ELSE Providers
  /\ fetching = {}
  /\ batch = IF kind = "check" THEN ParseProxyLines(UserText) ELSE {}
  /\ seen = {}
  /\ grab = "pull"
  /\ picked = Nobody
  /\ given = 0
  /\ queue = {}
  /\ taken = {}
  /\ listening = TRUE

-----------------------------------------------------------------------------
(* The source.  The next page is asked for when the last one is used up. *)

Polled == batch = {} /\ (IF kind = "grab" THEN grab = "pull" ELSE loop = "pull")

StartFetch(p) ==
  /\ Polled
  /\ p \in waiting
  /\ Cardinality(fetching) < MaxFetches
  /\ waiting' = waiting \ {p}
  /\ fetching' = fetching \cup {p}
  /\ UNCHANGED <<kind, batch, seen, grabVars, csVars>>

(* The page arrives, or the fetch fails and yields nothing. *)
FetchEnds(p) ==
  /\ Polled
  /\ p \in fetching
  /\ fetching' = fetching \ {p}
  /\ batch' \in {Extract(Pages[p]), {}}
  /\ UNCHANGED <<kind, waiting, seen, grabVars, csVars>>

Wanted(i) == i \notin seen /\ CountryOk(i)

LookAgainAt(i) ==
  /\ batch' = batch \ {i}
  /\ UNCHANGED <<kind, waiting, fetching, seen>>

LookAt(i) ==
  /\ batch' = batch \ {i}
  /\ seen' = seen \cup {i}
  /\ UNCHANGED <<kind, waiting, fetching>>

(* filter_map drops a candidate ... *)
Skip(i) ==
  /\ kind # "grab"
  /\ loop = "pull"
  /\ i \in batch
  /\ ~Wanted(i)
  /\ LookAt(i)
  /\ UNCHANGED <<grabVars, csVars>>

(* ... or yields it to the check loop. *)
Yield(i) ==
  /\ kind # "grab"
  /\ i \in batch
  /\ Wanted(i)
  /\ LookAt(i)
  /\ PullOne(i)
  /\ UNCHANGED grabVars

NothingLeft == waiting = {} /\ fetching = {} /\ batch = {}

SourceDone ==
  /\ kind # "grab"
  /\ NothingLeft
  /\ SourceEnds
  /\ UNCHANGED <<sourceVars, grabVars>>

-----------------------------------------------------------------------------
(* grab_task *)

GrabEnds ==
  /\ kind = "grab"
  /\ grab = "pull"
  /\ NothingLeft \/ (batch # {} /\ Reached(given))
  /\ grab' = "ended"
  /\ UNCHANGED <<picked, given, queue, taken, listening, sourceVars, csVars>>

(* The limit is looked at before each candidate. *)
GrabNext(i) ==
  /\ kind = "grab"
  /\ grab = "pull"
  /\ i \in batch
  /\ ~Reached(given)
  /\ LookAt(i)
  /\ IF Wanted(i) THEN grab' = "send" /\ picked' = i ELSE UNCHANGED <<grab, picked>>
  /\ UNCHANGED <<given, queue, taken, listening, csVars>>

(* send waits while the channel is full; a stream that is gone ends the task. *)
GrabSend ==
  /\ grab = "send"
  /\ \/ /\ listening
        /\ Cardinality(queue) < Capacity
        /\ queue' = queue \cup {picked}
        /\ given' = given + 1
        /\ grab' = "pull"
     \/ /\ ~listening
        /\ grab' = "ended"
        /\ UNCHANGED <<queue, given>>
  /\ picked' = Nobody
  /\ UNCHANGED <<taken, listening, sourceVars, csVars>>

GrabReceive ==
  /\ listening
  /\ \E i \in queue : queue' = queue \ {i} /\ taken' = taken \cup {i}
  /\ UNCHANGED <<grab, picked, given, listening, sourceVars, csVars>>

(* The stream of grab carries no token: the task learns of its drop from the *)
(* next send.                                                                *)
GrabDrop ==
  /\ kind = "grab"
  /\ listening
  /\ listening' = FALSE
  /\ queue' = {}
  /\ UNCHANGED <<grab, picked, given, taken, sourceVars, csVars>>

-----------------------------------------------------------------------------
Gathering ==
  \/ \E p \in Providers : StartFetch(p) \/ FetchEnds(p)
  \/ \E i \in batch : Skip(i) \/ Yield(i)
  \/ SourceDone

Grabbing == GrabEnds \/ GrabSend \/ \E i \in batch : GrabNext(i)

(* The rest of the pipeline, and its consumer. *)
Checking ==
  /\ kind # "grab"
  /\ \/ SpawnCheck \/ Drain \/ Receive \/ DropStream \/ CancelOnDrop
     \/ \E i \in Items : TaskStep(i)
  /\ UNCHANGED <<sourceVars, grabVars>>

Over ==
  /\ IF kind = "grab" THEN grab = "ended" /\ queue = {} ELSE loop = "ended" /\ channel = {}
  /\ UNCHANGED brokerVars

BrokerNext == Gathering \/ Grabbing \/ GrabReceive \/ GrabDrop \/ Checking \/ Over

BrokerSpec == BrokerInit /\ [][BrokerNext]_brokerVars

(* The tasks are scheduled, a fetch ends within its timeout, a check within  *)
(* its own, and a consumer that keeps its stream keeps polling it.           *)
FairBroker ==
  /\ BrokerSpec
  /\ WF_brokerVars(Gathering)
  /\ WF_brokerVars(Grabbing)
  /\ WF_brokerVars(GrabReceive)
  /\ WF_brokerVars(kind # "grab" /\ (SpawnCheck \/ Drain) /\ UNCHANGED <<sourceVars, grabVars>>)
  /\ WF_brokerVars(kind # "grab" /\ (Receive \/ CancelOnDrop) /\ UNCHANGED <<sourceVars, grabVars>>)
  /\ \A i \in Items :
       WF_brokerVars(kind # "grab" /\ TaskStep(i) /\ UNCHANGED <<sourceVars, grabVars>>)

-----------------------------------------------------------------------------
Grabbed == queue \cup taken

(* Providers repeat one another and their pages arrive in any order, yet no  *)
(* address is checked twice (what the source would yield next has not been   *)
(* given to the pipeline, so the guard of PullOne never blocks it) and none  *)
(* is forgotten: a stream kept to its end has looked at every provider, and  *)
(* carries its limit or every new address of an allowed country, checked or, *)
(* for grab, as it is.                                                       *)
GathersAll ==
  LET due == {i \in seen : CountryOk(i)}
  IN  /\ kind # "grab" => \A i \in batch : Wanted(i) => i \in source
      /\ kind # "grab" /\ loop = "ended" /\ open /\ ~Reached(sent) =>
           NothingLeft /\ due = recorded
      /\ kind = "grab" /\ grab = "ended" /\ listening =>
           IF Reached(given) THEN Cardinality(Grabbed) = Limit ELSE NothingLeft /\ due = Grabbed

(* The request ends, kept or dropped, whatever its providers do. *)
RunEnds == <>(IF kind = "grab" THEN grab = "ended" ELSE loop = "ended")

=============================================================================
