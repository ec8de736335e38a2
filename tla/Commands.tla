------------------------------ MODULE Commands ------------------------------
(***************************************************************************)
(* The commands of src/bin/proxybroker.rs that share state across runs:    *)
(* find, check and serve, with --state (the durable store), --save and     *)
(* --load (the NDJSON file), --watch and --recheck, and their crashes.     *)
(*                                                                         *)
(* The pool is the bag of the proxies in it, the file the bag of what its  *)
(* lines read as: nothing keeps an address from being there twice.  What a *)
(* request records in the proxy it leased is in Pool and never reaches the *)
(* store; how the tasks of a pool interleave is in LivePool.  Here a check *)
(* and the upsert of its outcome are one step, what becomes of the proxy   *)
(* is a later one.                                                         *)
(***************************************************************************)
EXTENDS Store, Bags, BagsExt, Functions

CONSTANTS
  Backends,   \* the backends --state may name
  Versions,   \* the schema versions a store may be found with
  Options,    \* the command lines
  Geo,        \* what the country database says of each address
  UserFiles,  \* what a user may put in the file --load names
  Typed,      \* the addresses in the text check is given
  MaxLeased,  \* bound: proxies that clients hold
  MaxRuns,    \* bound: commands started in a behaviour
  MaxFolds    \* bound: checks in a behaviour

VARIABLES
  backend,   \* of the --state store
  version,   \* its schema
  rows,      \* its rows, by address
  mem,       \* the rows of the MemoryStore
  cmd,       \* the command that runs
  todo,      \* addresses find or check has still to check
  stream,    \* proxies it has emitted and nobody has received
  pool,      \* the served pool
  leased,    \* proxies that clients hold
  retrying,  \* addresses the re-checker pulled and still probes
  file,      \* the lines of the NDJSON file
  torn,      \* its last line is cut short
  dirty,     \* an event on the file is not handled yet
  runs,
  folds,
  attempts,  \* per address, the attempts in upserts that succeeded
  proven     \* addresses some upsert found working

storeVars == <<backend, version, rows>>
fileVars  == <<file, torn, dirty>>
procVars  == <<mem, cmd, todo, stream, pool, leased, retrying>>
pastVars  == <<runs, folds, attempts, proven>>
vars      == <<storeVars, fileVars, procVars, pastVars>>

(* check has no --state.  The counts stay below u32::MAX, where the backends *)
(* part ways.                                                                *)
ASSUME CommandsAssumption ==
  /\ Backends \subseteq {"sqlite", "redis"}
  /\ \A o \in Options :
       /\ o.kind \in {"find", "check", "serve"}
       /\ o.kind = "check" => ~o.state
       /\ o.watch => o.load
  /\ MaxFolds \in Nat
  /\ \A c \in Checks : (MaxFolds + 1) * c.requests <= U32

Idle == [kind |-> "idle", state |-> FALSE, load |-> FALSE, save |-> FALSE,
         recheck |-> FALSE, watch |-> FALSE, countries |-> {}]

Init ==
  /\ backend \in Backends
  /\ version \in Versions
  /\ rows = << >>
  /\ mem = << >>
  /\ cmd = Idle
  /\ todo = EmptyBag
  /\ stream = EmptyBag
  /\ pool = EmptyBag
  /\ leased = EmptyBag
  /\ retrying = {}
  /\ file \in UserFiles
  /\ torn = FALSE
  /\ dirty = FALSE
  /\ runs = 0
  /\ folds = 0
  /\ attempts = [a \in Addrs |-> 0]
  /\ proven = {}

-----------------------------------------------------------------------------
(* country_ok: a set filter rejects a proxy of unknown country. *)
CountryOk(o, p) == o.countries = {} \/ p.geo \in o.countries

AddrsOf(B) == {p.addr : p \in BagToSet(B)}

(* A saved line keeps the address, the country and the confirmed types; read *)
(* back, it is a proxy without a past.                                       *)
Reread(p) == [NewProxy(p.addr) EXCEPT !.types = p.types, !.geo = p.geo]

UnionSecondWins(primary, secondary) ==
  secondary (+) Restrict(primary, {p \in BagToSet(primary) : p.addr \notin AddrsOf(secondary)})

(* union_dedup: the primary wins an address.  What the secondary lists twice *)
(* and the primary does not have is there twice.                             *)
UnionDedup(primary, secondary) ==
  primary (+) Restrict(secondary, {p \in BagToSet(secondary) : p.addr \notin AddrsOf(primary)})

(* The addresses to check: what the providers list, once each, or what check *)
(* was given, as often as the text has it, in the countries asked for.       *)
Source(o) ==
  LET given == IF o.kind = "check" THEN Typed ELSE SetToBag(Addrs)
  IN  Restrict(given, {a \in BagToSet(given) : o.countries = {} \/ Geo[a] \in o.countries})

(* open_state opens and loads the store, the command sets the rest up.  A    *)
(* pool filled by find starts with the history, before find's first proxy.   *)
(* check --load checks nothing: it streams the file to its output.           *)
Setup(o) ==
  LET past == SetToBag(IF o.state THEN Load(backend, rows) ELSE {})
      born == IF o.load THEN UnionDedup(past, file) ELSE past
  IN  /\ pool' = IF o.kind = "serve"
               THEN Restrict(born, {p \in BagToSet(born) : CountryOk(o, p)}) ELSE EmptyBag
      /\ todo' = IF o.load THEN EmptyBag ELSE Source(o)
      /\ stream' = IF o.load /\ o.kind = "check" THEN file ELSE EmptyBag

(* File::create empties the file --save names, after --load has read it. *)
Truncate(o) ==
  \/ o.save /\ file' = EmptyBag /\ torn' = FALSE /\ UNCHANGED dirty
  \/ ~o.save /\ UNCHANGED fileVars

Start(o) ==
  /\ cmd = Idle
  /\ runs < MaxRuns
  /\ runs' = runs + 1
  /\ o.state => Opens(backend, version)
  /\ o.load => ~torn
  /\ version' = IF o.state THEN Migrated(backend, version) ELSE version
  /\ cmd' = o
  /\ Setup(o)
  /\ Truncate(o)
  /\ UNCHANGED <<backend, rows, mem, leased, retrying, folds, attempts, proven>>

(* The command ends with an error before it has done anything: the store     *)
(* does not open or, when it did, the file is not there or has a line that   *)
(* does not parse, no judge answers, the port is taken.                      *)
StartFails(o) ==
  /\ cmd = Idle
  /\ runs < MaxRuns
  /\ runs' = runs + 1
  /\ \/ UNCHANGED version
     \/ o.state /\ Opens(backend, version) /\ version' = Migrated(backend, version)
  /\ UNCHANGED <<backend, rows, fileVars, procVars, folds, attempts, proven>>

-----------------------------------------------------------------------------
(* A finished check. *)

Counted(p, c) ==
  /\ attempts' = [attempts EXCEPT ![p.addr] = @ + c.requests]
  /\ proven' = IF IsWorking(p) THEN proven \cup {p.addr} ELSE proven

(* upsert on the --state store; an error is logged or dropped. *)
Upsert(p, c) ==
  \/ /\ rows' = Upserted(backend, rows, p)
     /\ Counted(p, c)
  \/ UNCHANGED <<rows, attempts, proven>>

(* check_stream, under find, check and serve: the observer sees every proxy, *)
(* the stream those that pass.                                               *)
StreamChecks(a, c) ==
  LET p == CheckedAs([NewProxy(a) EXCEPT !.geo = Geo[a]], c)
  IN  /\ BagIn(a, todo)
      /\ folds < MaxFolds
      /\ folds' = folds + 1
      /\ todo' = BagRemove(todo, a)
      /\ \/ cmd.state /\ Upsert(p, c)
         \/ ~cmd.state /\ UNCHANGED <<rows, attempts, proven>>
      /\ stream' = IF c.verdict THEN BagAdd(stream, p) ELSE stream
      /\ UNCHANGED <<backend, version, fileVars, mem, cmd, pool, leased, retrying, runs>>

(* The importer of the pool takes the next proxy ... *)
Imported(p) ==
  /\ cmd.kind = "serve"
  /\ pool' = IF CountryOk(cmd, p) THEN BagAdd(pool, p) ELSE pool
  /\ UNCHANGED fileVars

(* ... or write_stream prints it and saves its line. *)
Written(p) ==
  /\ cmd.kind \in {"find", "check"}
  /\ file' = IF cmd.save THEN BagAdd(file, Reread(p)) ELSE file
  /\ UNCHANGED <<pool, torn, dirty>>

Receive ==
  /\ \E p \in BagToSet(stream) :
       /\ stream' = BagRemove(stream, p)
       /\ Imported(p) \/ Written(p)
  /\ UNCHANGED <<storeVars, mem, cmd, todo, leased, retrying, pastVars>>

-----------------------------------------------------------------------------
(* serve --recheck: a fresh proxy for the address is checked and folded into *)
(* the --state store, or into memory without one.                            *)

PooledForCheck(a) ==
  IF a \in AddrsOf(pool) THEN CHOOSE p \in BagToSet(pool) : p.addr = a ELSE NewProxy(a)

FreshForCheck(a) == NewProxy(a)

(* Pool::add looks for the address under the lock. *)
AddTo(B, p) == IF p.addr \in AddrsOf(B) THEN B ELSE BagAdd(B, p)

RecheckedWorks(p) ==
  /\ pool' = AddTo(pool, p)
  /\ retrying' = retrying \ {p.addr}

RecheckedFails(p) ==
  /\ pool' = Restrict(pool, {q \in BagToSet(pool) : q.addr # p.addr})
  /\ retrying' \in {retrying \cup {p.addr}, retrying \ {p.addr}}

Recheck(a, c) ==
  LET p == CheckedAs(FreshForCheck(a), c)
  IN  /\ cmd.recheck
      /\ a \in AddrsOf(pool) \cup retrying
      /\ folds < MaxFolds
      /\ folds' = folds + 1
      /\ \/ cmd.state /\ Upsert(p, c) /\ UNCHANGED mem
         \/ ~cmd.state /\ mem' = Upserted("memory", mem, p) /\ UNCHANGED <<rows, attempts, proven>>
      /\ IF c.verdict THEN RecheckedWorks(p) ELSE RecheckedFails(p)
      /\ UNCHANGED <<backend, version, fileVars, cmd, todo, stream, leased, runs>>

-----------------------------------------------------------------------------
(* serve --load --watch: the pool follows the file; a file that does not     *)
(* parse leaves the pool alone.                                              *)

EditFile ==
  /\ cmd.watch
  /\ file' \in UserFiles
  /\ torn' \in BOOLEAN
  /\ dirty' = TRUE
  /\ UNCHANGED <<storeVars, procVars, pastVars>>

(* What the file does not list is removed, what it lists and the pool does   *)
(* not have is added, once, from one of its lines.  What clients hold is in  *)
(* nobody's sight: it is added though it will come back.                     *)
Reconcile ==
  LET missing == AddrsOf(file) \ AddrsOf(pool)
      listed  == {p \in BagToSet(pool) : p.addr \in AddrsOf(file)}
  IN  /\ dirty
      /\ dirty' = FALSE
      /\ \/ torn /\ UNCHANGED pool
         \/ /\ ~torn
            /\ \E line \in [missing -> BagToSet(file)] :
                 /\ \A a \in missing : line[a].addr = a
                 /\ pool' = Restrict(pool, listed) (+) SetToBag(Range(line))
      /\ UNCHANGED <<storeVars, file, torn, mem, cmd, todo, stream, leased, retrying, pastVars>>

(* A request leases a proxy that speaks a protocol (get) ... *)
ClientTakes ==
  /\ cmd.kind = "serve"
  /\ BagCardinality(leased) < MaxLeased
  /\ \E p \in BagToSet(pool) :
       /\ IsWorking(p)
       /\ pool' = BagRemove(pool, p)
       /\ leased' = BagAdd(leased, p)
  /\ UNCHANGED <<storeVars, fileVars, mem, cmd, todo, stream, retrying, pastVars>>

(* ... and gives it back without looking for the address, or evicts it (put). *)
ClientReturns ==
  /\ \E p \in BagToSet(leased) :
       /\ leased' = BagRemove(leased, p)
       /\ pool' \in {pool, BagAdd(pool, p)}
  /\ UNCHANGED <<storeVars, fileVars, mem, cmd, todo, stream, retrying, pastVars>>

(* The command ends, by itself, by a signal or by a crash: what is in memory *)
(* is gone, and a line being saved may be cut short.                         *)
Stop ==
  /\ cmd # Idle
  /\ cmd' = Idle
  /\ mem' = << >>
  /\ todo' = EmptyBag
  /\ stream' = EmptyBag
  /\ pool' = EmptyBag
  /\ leased' = EmptyBag
  /\ retrying' = {}
  /\ \/ UNCHANGED torn
     \/ cmd.save /\ stream # EmptyBag /\ torn' = TRUE
  /\ dirty' = FALSE
  /\ UNCHANGED <<storeVars, file, pastVars>>

-----------------------------------------------------------------------------
Finished == cmd = Idle /\ runs = MaxRuns /\ UNCHANGED vars

Next ==
  \/ \E o \in Options : Start(o) \/ StartFails(o)
  \/ \E a \in Addrs, c \in Checks : StreamChecks(a, c) \/ Recheck(a, c)
  \/ Receive \/ EditFile \/ Reconcile \/ ClientTakes \/ ClientReturns \/ Stop
  \/ Finished

Spec == Init /\ [][Next]_vars

-----------------------------------------------------------------------------
(* The three backends remember the same thing: on every row a command can    *)
(* leave behind (and it can be stopped at any moment), the next check folds  *)
(* to the same row and loads as the same proxy, whichever backend does it    *)
(* (persist.rs promises it "byte-for-byte").                                 *)
BackendsAgree ==
  cmd = Idle =>
    \A a \in DOMAIN rows :
      /\ \A c \in Checks :
           LET p == CheckedAs(NewProxy(a), c)
               others == [b \in DOMAIN rows \ {a} |-> rows[b]]
           IN  \A known \in {rows, others} :
                 /\ Upserted("redis", known, p) = Upserted("sqlite", known, p)
                 /\ Upserted("memory", known, p) = Upserted("sqlite", known, p)
      /\ Restored("redis", a, rows[a]) = Restored("sqlite", a, rows[a])
      /\ Restored("memory", a, rows[a]) = Restored("sqlite", a, rows[a])

(* Every attempt is counted once, over restarts, warm starts and concurrent  *)
(* find and re-check upserts: a row holds the attempts of the checks that    *)
(* were folded into it and nothing of what it was loaded with.               *)
CountedOnce == \A a \in DOMAIN rows : rows[a].requests = attempts[a]

(* A proxy found working once is never remembered without a protocol, so a   *)
(* warm start can select it, whatever fails after that.                      *)
TypesRemembered == \A a \in proven : a \in DOMAIN rows /\ rows[a].types # NoTypes

(* A working proxy's score k checks later is at least least[k], whatever     *)
(* they found: Unit is large enough for no score to be rounded to 0.         *)
Precise(least) ==
  /\ least \in [0..MaxFolds -> Nat \ {0}]
  /\ \A k \in 0..MaxFolds : least[k] <= Blend(Unit, 0)
  /\ \A k \in 1..MaxFolds : least[k] <= Blend(0, least[k - 1])

(* The score means what priority() takes it for: a probability, 0 exactly    *)
(* for a proxy that never worked, with no more errors than attempts.         *)
ScoreIsLawful ==
  \A a \in DOMAIN rows :
    /\ 0 <= rows[a].ewma /\ rows[a].ewma <= Unit
    /\ rows[a].ewma = 0 <=> rows[a].uptime = 0
    /\ rows[a].errors <= rows[a].requests

EntriesAt(B, a) == {p \in BagToSet(B) : p.addr = a}

(* Warm start: whatever file is loaded beside the store, a pool that serves  *)
(* every country begins with one entry for each address the store has, the   *)
(* store's own: it counts every attempt the earlier commands recorded, has   *)
(* the score they left, and what worked once can be selected at once         *)
(* (serve_cmd: "history wins on (host,port) since it carries score").        *)
WarmStart ==
  [][cmd = Idle /\ cmd'.kind = "serve" /\ cmd'.state /\ cmd'.countries = {} =>
       \A a \in DOMAIN rows : \E p \in BagToSet(pool') :
         /\ EntriesAt(pool', a) = {p} /\ pool'[p] = 1
         /\ p.requests = attempts[a] /\ p.ewma = rows[a].ewma
         /\ a \in proven => IsWorking(p)]_vars

=============================================================================
