# proxybroker-rs in TLA+

Models, model-checking runs and machine-checked proofs about proxybroker-rs: how it
gathers proxies, checks them, remembers them, keeps a pool of them in service and
serves clients from it. `PROJECT.json` records, for every definition, the source lines
it models, and for every property the run that checks it and a mutated definition that
breaks it.

To repeat a run: `tlc -workers 2 -config pool.cfg MCPool` (section 3 lists the
module of each configuration). To repeat a proof: `tlapm PoolProofs.tla`.

## 1. The system

proxybroker-rs finds public proxies, checks them and serves them behind one local
address. It is one process on tokio: every component below is a task, a shared value
behind a lock, or a function called by a task.

| Component | State | Operations | Correct when |
|---|---|---|---|
| **Pool** (`server.rs`) | vector of pooled proxies with their bench deadlines, sticky pins, rotation cursor, `exhausted`, `evictions`, a `Notify` | `spawn`/`from_proxies`, `get`, `put_ok`, `put_failed`, `add`, `remove`, `wait_ready`, `try_get` | a proxy is in one place; no sleeper misses its wakeup; unhealthy proxies do not return; `None` means there is nothing to wait for |
| **Proxy health** (`proxy.rs`) | per-proxy request, error, latency, capability and trust records | `record_*`, `error_rate`, `priority`, `schemes`, `restored` | the ranking and the thresholds see the rounded rates the code computes |
| **Selection** (`server.rs`) | none (a function of the pool) | `best_for`, `connect_biased`, `best_by_priority` | picks inside the tier of ready, eligible proxies; the minimum wins; rotation starves nobody |
| **Local server** (`server.rs`) | accept loop, connection permits, shutdown token, per-connection handler, history map | `serve`, `handle_client`, `relay`, `serve_control`, `ServerHandle` | one response per client, bodies sent once, leases and permits returned, only vetted clients served, every handler ends |
| **Connector** (`connector.rs`) | the retry loop of a connect | `call`, `connect`, `dial` | every path gives its proxy back; every connect ends |
| **Broker queries** (`broker.rs`) | provider streams, the seen set, grab's channel | `grab`, `find`, `check` | each address once, none forgotten, filters applied, every request ends |
| **Providers, parsing** (`provider.rs`, `parse.rs`) | the registry | `bundled_registry`, `load_provider_dir`, `extract`, `parse_proxy_lines` | an address is what its spelling means, a port is in range |
| **Check pipeline** (`broker.rs`) | source, semaphore, atomic counter, channel, cancellation token, stats | `check_stream`, `ProxyStream` | at most `limit` proxies, none owed is cut off, stats complete, the stream ends |
| **Checker, judges, negotiator** (`checker.rs`, `judge.rs`, `negotiator.rs`) | external addresses, judge lists per scheme, mode; per check the protocols left and the record in the proxy | `build_checker`, `probe_all`, `random`, `check`, `check_one`, `attempt`, `negotiate` | retries follow the policy, the verdict is what was asked for, tampering is not forgotten |
| **Re-check scheduler** (`scheduler.rs`) | heap of due addresses, `ewma`, `last_ok`, `retrying` | `spawn_rechecker`, `RecheckHandle` | each pooled address is probed again and again, once per interval |
| **File watcher** (`watch.rs`) | the watched file's addresses | `spawn_watch`, `reconcile` | the pool follows the file, a torn file empties nothing |
| **MCP tools** (`mcp.rs`) | none of their own | `get_proxy`, `report_dead`, `pool_status` | they leave the pool consistent |
| **Durable store** (`persist.rs`) | one row per address, schema version | `open`, `upsert`, `load` of SQLite, memory and Redis | a check is folded once and alike by every backend |
| **Commands** (`bin/proxybroker.rs`) | the store and the NDJSON file across runs | `find`, `check`, `serve` with `--state`, `--save`, `--load`, `--watch`, `--recheck`, `--countries` | what a run learned survives its end; a warm start serves what the store remembers |
| Resolver, geo, stats, metrics, TUI | | I/O, aggregation, text, drawing | |

How they interact:

* `find` and `check` feed `check_stream` from a stream of addresses: the pages of the
  providers, or text. `check_stream` runs the checker on each and hands the ones that
  pass to a `ProxyStream`; an observer upserts every checked proxy into the store.
* Handlers, the accept loop, the connector and the MCP tools are *callers* of one
  `Pool`. The pool's importer task takes proxies from a `ProxyStream` or from a file and
  the store, and ends by setting `exhausted`.
* The re-check loop, the watcher, the MCP tools and the proxycontrol API change the
  same pool through `add`, `remove`, `try_get` and `put`. Each call holds the lock
  once; everything between two calls interleaves with everything else.
* Wakeups go through one `Notify`. `notify_waiters` stores nothing: it wakes only
  futures that exist, which is why `get` creates its future before it looks.
* Shutdown and the end of a stream are cancellation tokens, looked at only at some
  awaits.
* A run leaves the store and a saved file behind; the next one starts from them.

What is hard: the order of "look, then sleep" against "push, then notify"; values read
under one lock and used under another; a proxy that is *out* and so invisible to
`add`, `remove` and `reconcile`; the commit boundary of a relayed response; limits
counted by racing tasks; permits that have to survive errors and shutdown; waits that
nothing bounds; providers that repeat one another; three implementations of one fold; a
warm start that is checked, and counted, again. The list with its source lines is
`hazards` in `PROJECT.json`.

## 2. The modules

| Module | Models |
|---|---|
| `Selection` | the pure part of `server.rs` and `proxy.rs`: tier, ranking, rotation, rates rounded as `round2` does, vector operations (`swap_remove`, `retain`), `choose_proto` |
| `Pool` | `Pool`, its importer and its callers |
| `AddrPool` | what `Pool` promises the tasks around it, by address: the abstract specification |
| `PoolRefines` | the mapping from `Pool`, which it extends, to `AddrPool` |
| `SelectionCheck` | `best_for` against the iterator loop it is written as, on the pools `Pool` reaches; extends `PoolRefines` |
| `Connector` | the rotating connector: extends `Pool`, whose callers are its connects |
| `Server` | `serve`, `handle_client`, `relay`, proxycontrol: extends `Pool`, whose callers are the handlers |
| `CheckStream` | `check_stream` and `ProxyStream` |
| `Broker` | providers, extraction, `find`, `check` and `grab`: extends `CheckStream`, whose source it is |
| `Checker` | the build of a checker and one check: judges, negotiation, retries, verdict, capability filter |
| `LivePool` | re-check loop, watcher, importer, MCP tools and callers: extends `AddrPool` |
| `Store` | rows, the fold and the load of the three backends, the schema guard |
| `Commands` | `find`, `check` and `serve` over store and file, the clients of a served pool, ends and crashes: extends `Store` |
| `PoolProofs`, `ServerProofs`, `ConnectorProofs`, `CheckStreamProofs`, `BrokerProofs`, `CheckerProofs`, `LivePoolProofs`, `CommandsProofs` | theorems; each extends the module it is about, and `ServerProofs` and `ConnectorProofs` extend `PoolProofs` as `BrokerProofs` extends `CheckStreamProofs` |
| `MCPool`, `MCConnector`, `MCServer`, `MCCheckStream`, `MCBroker`, `MCChecker`, `MCLivePool`, `MCCommands` | instances for TLC |

**Pool.** `state` is the vector, in order, because selection and `swap_remove` depend
on it. A caller's `get` is cut where other tasks can run between two of its steps:
create the waker and read pin, cursor and clock (`Arm`); lock, choose and take
(`Select`, `Miss`); record the pin or the cursor (`Record`); probe (`VerifyPassed`,
`VerifyFailed`); read `exhausted` (`CheckExhausted`); sleep (`Wake`); the last look.
A push and the `notify_waiters` that follows it are two steps: a task that has pushed
*owes* a notify (`owes`), and `woken` is the set of callers whose future has fired.
The clock is a counter of bench windows. Counters, rates and thresholds are integers;
rates are per cent, rounded to the nearest with ties to even as `round2` rounds. A caller
future may be dropped at any await (`Abandon`): a proxy it holds goes with it, as in the
code.

**Connector.** A connect is `try`, `get`, `dial`: `TryNext` begins one iteration of the
loop, the steps of `get` are `Pool`'s, and each way out of the dial gives the proxy back.
`Dropped` is hyper dropping the future. `turns` records the proxies dialled in a row with
success, for the rotation property; whatever else changes the pool, an eviction and the
clock included, starts a new row.

**Server.** A client is one connection and one `handle_client`. Parsing is its
outcome: rejected, or one of a set of requests. `relay` is cut at its awaits: dial,
forward, peek, commit, splice. `heard` is what the client's socket was given, in
order; `sent` counts the upstreams that took the whole request.

**CheckStream.** The spawning loop, one task per check and the consumer are separate
processes; a check is `checking`, `recorded`, `sending`, `cancelling`, `done`. The
checker is its verdict. Drop and end of the stream may come at any moment.

**Broker.** A page is a sequence of tokens, addresses as they are spelt and ports, so that
pairing, strict and lenient spelling and range checks are what the code does; how a regular
expression finds a token is left out. A spelling knows its first octet of two digits or more,
which `parse_proxy_lines` takes for the port when a second address stands between an address
and its port. At most `MaxFetches` pages are under way, and they
advance only while the stream is polled. The candidates of a page are looked at in any
order: the properties do not tell the order apart. `check` takes each line as an item of
its own, since it does not deduplicate.

**Checker.** The network chooses: which endpoints answer, what a judge echoes directly and
through the proxy, where an attempt fails. A page is the facts the code tests. Nothing else
touches the proxy during its check, so an attempt is one step. `log` keeps the outcomes per
protocol for the properties.

**LivePool.** The pool is counted by address (`pooled`, `held`), which is exactly what
these tasks can see of it; the refinement run shows that `Pool` allows nothing else.
`reconcile` is one removal or addition at a time. A pool is either loaded from a file, which
is watched, or filled by the importer (`pending`), which pushes what its source yields without
looking for the address; `watched` tells them apart, as `--watch` needs `--load`. Due times are left out: any scheduled
address may come due next. The decayed score is its verdict, retry or evict.

**Store, Commands.** A row holds what `load` reads. The averages are integers in units of
1/`Unit`; a fold divides by ten, so with `Unit = 1000` three folds are exact. An upsert is
one statement or script and so one step, and it may fail. `Commands` starts, ends and
crashes commands over one store and one file; it counts a check and its upsert as one step
and the fate of the proxy as a later one. File, stream, pool and the proxies that clients hold
are bags: nothing in the code keeps an address from being there twice. A request is a lease
and a return (`ClientTakes`, `ClientReturns`); what it records in the proxy never reaches the
store.

## 3. What the runs check

| Run | Module | Distinct states | Shows |
|---|---|---|---|
| `pool` | `MCPool` | 1,214,000 | `TypeOK`, `ExclusiveLease`, `NoLostWakeup`, `ServedAreHealthy`, `SelectsBest`, `NoneMeansDry`, and that `Pool` implements `AddrPool` (`ImplementsAddrPool`) |
| `connector` | `MCConnector` | 1,090,000 | `NobodyStarves`, `LostOnlyWithFuture`, `ConnectEnds` |
| `server` | `MCServer` | 3,800,000 | `CommitOnce`, `BodySentOnce`, `PermitsConserved`, `ServerKeepsProxies` on an open server with verify-on-lease |
| `server_rotate` | `MCServer` | 2,592,000 | `ServerTypeOK` (with the bound on the pins), `ProtoIsConfirmed`, `OnlyVettedClients`, `RotationAvoidsBenched` with credentials, sticky keys and two upstreams |
| `server_live` | `MCServer` | 232,000 | `HandlersEnd`, `AcceptLoopLives` |
| `find` | `MCBroker` | 46,600 | `StreamInv` (the inductive invariant), `EmitsWithinLimit`, `LimitIsMet`, `StatsCover`, `GathersAll`, `RunEnds`, for `find`, `check` and `grab` |
| `checker` | `MCChecker` | 256,000 | `CheckerTypeOK`, `RetriesAreLawful`, `VerdictMatchesRequest`, `EmittedIsTrusted`, `CheckEnds` |
| `live_pool` | `MCLivePool` | 297,000 | `ScheduledOnce`, `AddNeverDuplicates`, `KeepsChecking`, `FileTakesEffect` |
| `store` | `MCCommands` | 1,476,000 | `BackendsAgree`, `CountedOnce`, `TypesRemembered`, `ScoreIsLawful`, `WarmStart` |
| `verify_doc` | `MCPool` | violated | `VerifiedBeforeLease` |
| `limit_doc` | `MCCheckStream` | violated | `LimitEndsStream` |
| `recheck_doc` | `MCLivePool` | violated | `NeverResurrects` |

Every property is stated in words above its definition.

**Bounds, and why they are enough.**

* *pool*: two callers and a gate race each other, the importer, `add` and `remove`. Two
  proxies have one address, so that `add` meets a pooled and a leased duplicate, and equal
  health, so that selection meets a full tie. Two calls (`MaxCalls`), each with a budget of
  two verify probes, let a proxy be leased, failed, benched, redrawn and leased again; one
  tick (`MaxClock`) ends a bench. Eviction needs `MinReq = 2` attempts, and both proxies
  start with one, slow, behind them: one failure evicts by response time. The gate waits
  for two proxies, so it opens by the second or by exhaustion.
* *connector*: one task connecting again and again over three proxies that tunnel in
  different ways and one the country filter rejects, under round robin. Two tries per
  connect, five calls: enough for n + 1 successful dials in a row from three ready proxies
  (`NobodyStarves` needs four), for a connect that uses both tries, and for one that finds
  the pool dry. Interleavings of several callers are `pool`'s.
* *server*: two handlers and the accept loop; one upstream with two protocols makes them
  compete and makes a retry meet the proxy that failed it; two tries, a verify probe before
  each lease; a history of one entry, so that it overflows. *server_rotate*: two upstreams
  and one permit, so that the second connection waits for the first and finds what it left
  (pins, history, benches); clients without credentials ask for an origin, a tunnel and
  every operation of the control API. `MaxCalls` is at least tries times clients, so it never binds.
* *find*: two bundled providers and four configuration files, of which one is enabled and
  supported. Their pages share addresses and hold a leading-zero spelling, the unspecified
  address, a foreign host, ports 0 and 65536, an address followed by another and one at the
  end; the typed list repeats an address. Two of three fetches are under way at once. For
  the pipeline: a limit of two, two permits, a channel of one, so a check waits for the
  channel, one draws a slot past the limit and the loop waits for a permit.
* *checker*: nine queries, one for each case of the code: no type at all; DNSBL; a level
  filter, plain and strict; liveness with and without judges, and with no tries; transient
  retries of tunnels; the bundled judges with an SMTP one and every capability required;
  trust. The proxy is new, of an unknown or a known kind, or comes with types from before.
* *live_pool*: two addresses. A loaded pool begins with one of them and its file is edited
  twice (an edit may be torn); a found pool gets one address twice and the other once, in any
  order. One proxy per address is out with callers.
* *store*: two addresses of different countries, five outcomes of a check (retried; faster
  than the clock and at a level not asked for; stripped; listed; dead), a typed list that has
  an address twice, seven command lines, of which one watches its file and three re-check
  without watching (the interleavings of the two are `live_pool`'s), one proxy out with
  clients, three commands one after another, three folds: a row is inserted, folded and folded again, or a warm start is
  folded into. `Unit = 1000` makes three folds exact; `U32 = 1000` is never reached, so the
  counts are compared below overflow. The store is found without a schema or with one
  from a newer release.

Strategies: Sticky in `pool` and `server_rotate`, RoundRobin in `connector`, Best in the other
server runs. Random may take any proxy of the tier; it has no run of its own and is covered by
the theorems of section 5, which hold for every strategy.

Callers and clients that run the same code are interchangeable (`CallerSymmetry`,
`ClientSymmetry`); symmetry is used in safety runs only.

**Fairness.** All of it is weak fairness of a task that is ready, which tokio gives, plus
these, each named where the specification is defined:

* `FairConnect`, `FairServer`: the stream that feeds the importer yields again or ends. With
  a source that stays pending, a `get` on an empty pool waits, as the code intends.
  A dial and a probe end within their timeouts.
* `FairServer`: a handler's awaits are bounded by the code's timeouts, except the write of
  the request head upstream (`server.rs:1264`) and the splice. These are `UntimedStep`,
  get no fairness, and are the exception `HandlersEnd` states. The first reply, a few
  hundred bytes into an empty socket buffer, is taken not to block.
* `FairBroker`: a fetch and a check end within their timeouts, and a consumer that keeps a
  stream polls it; dropping it is free. `RunEnds` holds of a source that ends, as the
  providers' does. `limit_doc` uses `FairTasks`, where the source may stay pending.
* `FairLive`: strong fairness of `Pop(a)`: the heap pops the soonest due first and whatever
  is pushed meanwhile is due later, so a scheduled address comes up. The watcher is
  scheduled and not shut down.
* `Checker`'s `FairSpec`: every network step of a build and of a check is under a timeout.

## 4. Where the code and its documentation differ

Three differences have a run that shows the behaviour (`findings` in `PROJECT.json`):

* `verify_doc`: the last look of `get` (`server.rs:251`) leases without the
  verify-on-lease probe; `server.rs:88` says a proxy is re-probed before it is handed out.
  In the run a proxy is imported after the first look found nothing, and then the source ends.
* `limit_doc`: `check_stream` looks at the limit and the token only when its source
  yields (`broker.rs:621`), so a stream at its limit stays open while the source is pending;
  `broker.rs:807` says it ends when the limit is reached.
* `recheck_doc`: the re-check loop adds a proxy back after a probe without a second look
  (`scheduler.rs:222`), so one the watcher removed meanwhile returns; `scheduler.rs:197` says
  it never resurrects a proxy the user just deleted.

Others were met while modelling; the model has the code's behaviour and no property claims
the documented one. In the pool and the server:

* A retry may be given the proxy that just failed, when it is the only eligible one or its
  bench is over, and is counted as a rotation (`server.rs:911`; the comment at `:907` says
  "a *different* one"). `RotationAvoidsBenched` states what does hold.
* A sticky client whose pinned proxy is benched is re-pinned although the proxy is still in
  the pool (`server.rs:565`; `:41` says "while it stays in the pool").
* Under round robin `swap_remove` and `push` reorder the vector, so n turns do not visit n
  proxies in order (`docs/roadmap/wave-2-serving-selection-resilience.md:268`).
  `NobodyStarves` states what does hold: n + 1 turns visit all. That too is for one connect at
  a time: the cursor is read before the lock is taken and advanced after it is released
  (`server.rs:285`, `:295`), so two connects under way may take turns the cursor does not count,
  and n + 1 of them may leave a proxy out.
* Requests with a body skip the status gate (`server.rs:1276`; `:84` exempts tunnels only).
* A SOCKS5 client asking for the host `proxycontrol` is answered in HTTP
  (`server.rs:1092`); `CommitOnce` names the exception.
* The country allow-list screens import and `from_proxies` only; `add` by the watcher or the
  re-checker is not screened (`server.rs:66`).
* A proxy that is out while `reconcile` runs returns to the pool although the file no longer
  lists it (`watch.rs:31`; `:23` says "to exactly `desired`").
* A `report_dead` that races a `get_proxy` of the same address is undone by its `add`
  (`mcp.rs:78`).

In gathering and checking:

* Discovery of the external addresses keeps the endpoints that answered (`resolver.rs:98`).
  On a dual-stack host with one of them down, a page that shows the other address is graded
  Anonymous or High; `types.rs:134` says Transparent is "The judge saw our real external IP".
* `TypeSpec` levels and `--lvl` are documented as ignored for protocols other than HTTP
  (`types.rs:215`, `bin/proxybroker.rs:1069`); without `--strict`, `types_passed` lets no
  tunnel pass a level filter. `VerdictMatchesRequest` states the two readings.
* `parse_proxy_lines` is documented as using "the same lenient IP parsing as the provider
  path" (`parse.rs:92`); the provider path canonicalises strictly and drops leading-zero
  spellings. `Broker::check` does not deduplicate, and takes port 0 and the unspecified
  address, which the provider path drops.
* An address two providers list keeps the protocols of the first page to arrive.

In the store and the commands:

* A proxy restored from the store has no country, so `serve --countries` rejects the whole
  history, and `union_dedup` lets such an entry win over the `--load` line that had one.
* `check` does not deduplicate what it is given (`bin/proxybroker.rs:1264`) and saves an address
  as often as it passed; `union_dedup` compares the file with the history only (`:1154`), so
  `serve --load` starts with both entries; `:1151` says the union is "deduped on
  `(host, port)`". `WarmStart` states what does hold: what the store knows is there once.
* `serve --state` fed by `find` imports history and find's proxies without deduplication
  (`server.rs:205`), and a `put` does not look for the address either (`server.rs:341`): a
  proxy that was out while the watcher added its address back is then pooled twice.
  `AddNeverDuplicates` says that nothing else does it. Rows without a type are loaded too.
* The store's sample is `is_working()`, not the verdict of the check: a proxy that failed a
  level filter counts as a success; the scheduler's own score and the stored one differ.
* `persist.rs:266` says `load` never surfaces the score; it does (`:343`).
* A count past `u32::MAX` loads wrapped from SQLite, as 0 from Redis, saturated from memory.
* `find --save` truncates its file before it has anything to save, and one torn line makes
  the next `--load` refuse the file.

## 5. What is proved

Every safety property of the passing runs is a theorem, for every value of the constants that
satisfies the modules' assumptions: any feed, number of callers and clients, thresholds,
strategy, limit, capacity, pages, queries, addresses and sequence of commands. Two of these
theorems have a hypothesis of their own, given below: `RotationStarvesNobody` and
`ScoresAreLawful`.

| Theorem | States |
|---|---|
| `PoolProofs!TypeCorrect` | `Spec => []TypeOK` |
| `PoolProofs!LeasesAreExclusive` | `Spec => []ExclusiveLease` |
| `PoolProofs!WakeupsAreNotLost` | `Spec => []NoLostWakeup` |
| `PoolProofs!OnlyHealthyReturn` | `Spec => []ServedAreHealthy` |
| `PoolProofs!PoolIsSound` | `Spec => []PoolInv`, the inductive invariant |
| `PoolProofs!NoneOnlyWhenDry` | `Spec => NoneMeansDry` |
| `PoolProofs!LeasesServeTheirScheme` | `Spec => []LeaseServes` |
| `PoolProofs!StickyMapIsBounded` | `Spec => []SessionsBounded` |
| `PoolProofs!PoolImplementsAddrPool` | `Spec => ImplementsAddrPool`, the refinement |
| `PoolProofs!EligibleCanTunnel` | a proxy that can serve a scheme has a protocol the connector can dial it by |
| `PoolProofs!SelectionIsLawful` | `Spec => []SelectsBest` |
| `PoolProofs!BestForAnswers` | `best_for` answers whenever the scheme is served, with one entry unless the strategy is Random |
| `PoolProofs!ProxiesKeepTheirRecord` | `Spec => []AllDescend`: what circulates was fed, each attempt counted once |
| `PoolProofs!ErrorRateIsAShare` | `Spec => []RatesAreShares`: error rates stay within 100 per cent |
| `ServerProofs!ServerImplementsPool` | `ServerSpec => Spec`, `Pool`'s |
| `ServerProofs!ServerPoolIsSound` | `ServerSpec => []PoolInv` |
| `ServerProofs!ServerTypeCorrect` | `ServerSpec => []ServerTypeOK` |
| `ServerProofs!ClientsAreAnsweredOnce` | `ServerSpec => []CommitOnce` |
| `ServerProofs!BodiesAreSentOnce` | `ServerSpec => []BodySentOnce` |
| `ServerProofs!StrangersAreRefused` | `ServerSpec => []OnlyVettedClients` |
| `ServerProofs!DialedProtoIsConfirmed` | `ServerSpec => []ProtoIsConfirmed` |
| `ServerProofs!PermitsAreConserved` | `ServerSpec => []PermitsConserved` |
| `ServerProofs!RotationsAvoidTheBench` | `ServerSpec => RotationAvoidsBenched` |
| `ServerProofs!ServerLosesNoProxy` | `ServerSpec => ServerKeepsProxies` |
| `ConnectorProofs!ConnectorImplementsPool` | `ConnectSpec => Spec`, `Pool`'s |
| `ConnectorProofs!ConnectorPoolIsSound` | `ConnectSpec => []PoolInv` |
| `ConnectorProofs!EveryLeaseIsDialled` | `ConnectSpec => []GotCanDial` |
| `ConnectorProofs!ConnectorLosesNoProxy` | `ConnectSpec => LostOnlyWithFuture` |
| `ConnectorProofs!RotationStarvesNobody` | `ConnectSpec => []NobodyStarves`, if `Rotating` |
| `CheckStreamProofs!Invariance` | `Spec => []StreamInv` |
| `CheckStreamProofs!LimitHolds` | `Spec => []EmitsWithinLimit` |
| `CheckStreamProofs!StatsAreComplete` | `Spec => []StatsCover` |
| `CheckStreamProofs!NothingOwedIsLost` | `Spec => []LimitIsMet` |
| `BrokerProofs!BrokerRunsCheckStream` | `BrokerSpec => Spec`, `CheckStream`'s |
| `BrokerProofs!BrokerStreams` | `BrokerSpec => []` of the four properties above |
| `BrokerProofs!NothingIsForgotten` | `BrokerSpec => []GathersAll` |
| `CheckerProofs!CheckerTypeCorrect` | `Spec => []CheckerTypeOK` |
| `CheckerProofs!RetriesLawful` | `Spec => []RetriesAreLawful` |
| `CheckerProofs!VerdictIsAsAsked` | `Spec => []VerdictMatchesRequest` |
| `CheckerProofs!OnlyTrustedEmitted` | `Spec => []EmittedIsTrusted` |
| `LivePoolProofs!ScheduleIsSound` | `LiveSpec => []ScheduledOnce` |
| `LivePoolProofs!AddsAreDeduplicated` | `LiveSpec => AddNeverDuplicates` |
| `LivePoolProofs!LiveTasksUseThePool` | `LiveSpec => AddrSpec`, the specification `Pool` implements |
| `CommandsProofs!RowsAreSound` | `Spec => []RowsInv`, the inductive invariant |
| `CommandsProofs!AttemptsCountedOnce` | `Spec => []CountedOnce` |
| `CommandsProofs!WorkingKeepsTypes` | `Spec => []TypesRemembered` |
| `CommandsProofs!BackendsRememberAlike` | `Spec => []BackendsAgree` |
| `CommandsProofs!ScoresAreLawful` | `Spec => []ScoreIsLawful`, for a precise unit |
| `CommandsProofs!WarmStartsFromHistory` | `Spec => WarmStart` |

The inductive invariants were checked by TLC on the instances of the runs before they were
proved. For `ConnectInv`, with two connects at once, that was a search of ten million states
that was not run to its end; `RotationInv` was also searched with a proxy that successes evict and
with verify-on-lease, twenty million states.

**Assumptions.** They are the `ASSUME`s of the modules, which TLC evaluates on every run. Most
give a constant its type. The others:

* `PoolAssumption`: finitely many callers and proxies, a proxy is known by its `id`.
* `ServerAssumption`: a handler may ask the pool for either scheme with any key, and `MaxCalls`,
  the bound on calls, leaves every client its tries.
* `ConnectorAssumption`: `connect` is not sticky: it asks with one key.
* `BrokerAssumption`: `Items`, the universe of the pipeline, has all that the pages and the typed
  text name.
* `CheckerAssumption`: the candidates have not been probed, a policy retries only errors that an
  attempt can end in.
* `CommandsAssumption`: `check` has no `--state`, `--watch` comes with `--load`, and
  `MaxFolds + 1` checks count at most `U32` attempts: the theorems about counts hold below
  overflow, which section 4 describes.
* `RotationStarvesNobody` assumes `Rotating`: round robin without `prefer_connect`, one task that
  connects, proxies at different addresses that serve every request it makes. `MCConnector`
  assumes it too, so TLC shows that the instance of the run meets it. It is needed: with two
  connects at once, or requests that only some proxies serve, the property fails (section 4).
* `ErrorRateIsAShare` assumes that no proxy is fed with more errors than attempts.
* `ScoresAreLawful` has a hypothesis of its own: a lower bound `least` on the score of a proxy
  that ever worked, which `Precise` says survives each integer fold.
  `10^(MaxFolds + 1)` is such a unit; the floating point numbers of the code are finer.

**Pool.** The inductive invariant is `PoolInv`, proved in layers.

1. Types: `TypeOK` with `HeldIsProxy` and `AsksForRequest`. A selected index has to be known
   to be in the vector (`BestForInPool`) and a caller that holds something to hold a proxy.
2. Exclusive leases need `OutsideIsNew`: a value that has not entered the pool yet is nowhere
   else. Each action either moves nothing (`NothingMoves`), lets a lease go (`LettingGo`) or
   brings in a new value (`Entering`).
3. Wakeups: `NoLostWakeup` speaks of sleepers only. What makes it inductive is
   `MissIsCurrent`: from the look that found nothing to the sleep, every push is still owed as
   a notify or has fired this caller's future. `SleepsOnlyOnLiveSource` and `GateIsCurrent`
   are the same for `exhausted` and for the gate. The argument fails at once if the future is
   created after the look.
4. Health: only `put_inner` brings back a proxy that was out, and it looks first.

The lemmas below them say what `swap_remove`, `retain`, `record_attempt` and `best_for`
preserve. `NoneMeansDry` is an action property: the last look of `get` is one step, so what it
saw is what is there. The refinement of `AddrPool` counts the vector and the hands by address;
its lemmas say what an append, a `swap_remove` and a change of hands do to those counts.

`SelectsBest` compares a set defined by a quantifier with a loop, a recursive function over the
positions of the vector. The induction is done with sets: the order of the numbers is well
founded, so a set of numbers has a least element (`LeastElement`), so a set that holds 0 and the
successor of each position it holds has them all (`UpTo`). The set is first that of the
lengths at which a prefix has exactly one minimum (`OneMinimum`, from the fact that the sort
key is a weak order), which gives a solution of the loop's recurrence, and then that of the
lengths at which the loop agrees with it (`MinByIsMinUpTo`). That a cursor names one entry is a
count: ranks are an injection of the indices into as many numbers, so a bijection (`RankFacts`).
`ChoosesInThePast` carries the bench: a caller's clock is never ahead.

`AllDescend` says that each proxy in the vector or in hand is a fed one whose attempts since are
its errors and successes since; `EntersThePool` lists what a step can leave in the vector.

**Server.** A handler's `phase` and its task's `pc` are two programs in step, and no property is
inductive before that is said. `ServerInv` adds to the pool's types and `LeaseServes`, for each
handler: `InPlace` (where it is decides what it knows and what it holds), `Counted` (an iteration
sends at most once, and a request with a body never comes round again), `Answered` (nothing is
said before the commit), `Barred` (a client without credentials hears its refusal and stops; nobody else hears one). The theorem
that each step is a step of `Pool` needs `InPlace`, and gives the server all that is proved
of the pool. Permits are conserved by counting the connections in flight.

**Connector.** The same with `ConnectInv`: `InStep` ties the stage of a connect to its place in
`get`. `CanDial` rests on `LeaseServes` and `EligibleCanTunnel`: the branch of `connect` for a
proxy without a usable protocol is dead.

Rotation is not a queue: a turn takes the entry under the cursor, the last one fills its place
and the taken one becomes the last. In a row of turns the last entry is ready, so a turn only
exchanges two ready places, and which places are ready does not change. Hence the invariant
`InRotation`: the last entry is the one dialled last, and every other ready place of rank r holds
what was dialled just before the cursor last stood at r, `Age` turns ago. The place under the
cursor becomes new and every other one a turn older (`NextAge`, with the arithmetic of
remainders below it), and no age exceeds n - 1, so n + 1 turns have named everyone.
`RotationInv` says this of the vector as it will be once the proxy in hand is back. That the n
ready entries are at n addresses needs `ExclusiveLease` and `AllDescend`.

**CheckStream.** `StreamInv`: slots are drawn once and below the counter, only a slot below
the limit is sent, a check is recorded before it draws its slot, each proxy has one task.
`SlotsCountEmitted` turns distinct slots below the limit into the bound on the number emitted,
by an injection into `0..Limit-1`. That the limit also is *met* needs the converse, `LimitInv`:
slots have no gap, only the limit cancels a stream that is kept, what was pulled is checked, a
slot below the limit that is past its send has arrived.

**Broker.** Its steps are `CheckStream`'s or leave it alone. `GatherInv` relates the seen set to
the source: what was seen and wanted is what the pipeline has had (`Yielded`), below the limit
the loop ends only with the providers (`SourceIsSpent`), and `grab` counts what it sends.

**Checker.** `CheckInv` is about the log: nothing before a protocol's turn (`InTurn`), only
retryable errors behind an attempt (`LogLawful`), the counters are the cardinalities of what the
log holds (`Charged`), every signal is on the proxy (`Noted`), the types are those that worked at
the level they worked at last (`TypesRecorded`).

**LivePool.** `LiveInv` adds to `ScheduledOnce` that there is a job exactly during a probe and
that the tool's proxy is one of those held. That is also why each step is `AddrPool`'s: a probe
names an address, and the `add` that ends `get_proxy` is a return, or the loss of the value it
held when the address came back meanwhile. With `PoolImplementsAddrPool` the two meet: what these
tasks do is what `Pool` offers.

**Commands.** Every step folds one check into the store or leaves the rows alone (`StoreSteps`).
`RowInv` bounds a row's counts by the folds behind it, which keeps the casts of the three backends
harmless; the folds of Redis and memory are shown to write the row that SQLite writes. `WarmStart`
is about the step that starts a `serve`: the entries of the union at an address the primary has
are the primary's (`PrimaryWins`), and the history has one entry per row, which restores what
the row counts (`HistoryIsTheRows`); `RowsInv` says that these are the recorded attempts.

**Only model-checked.** Liveness under fairness, which is outside the prover's reach:
`ConnectEnds`, `HandlersEnd`, `AcceptLoopLives`, `RunEnds`, `CheckEnds`, `KeepsChecking`,
`FileTakesEffect`.

## 6. What is not modelled

* Bytes: regular expressions, request and response text, header rewriting, handshakes,
  base64, decompression, TLS. They are the outcome that the control flow branches on.
* Name lookups and the country database: a function or a free choice.
* Time as a quantity: the clock counts bench windows; timeouts are steps that may be taken;
  backoff only lets time pass; the store's timestamps are written and never read.
* A connect to a URI without a host, which fails before it touches anything.
* Statistics totals and percentiles, metrics text, terminal dashboard, the MCP transport,
  output formats and argument parsing: text or drawing without shared state that changes
  under concurrency.
* Read-only snapshots of the pool (`len`, `proxies`, `addrs`, counters), except where a task
  acts on one.
* Counter overflow, except of the store's 32-bit counts on load: the others are `usize` or
  `u64` and grow by one per request.

## 7. Plan

Done, in this order: `Selection` and `Pool`; `PoolProofs`; `Server`; `CheckStream` and its
proofs; `AddrPool`, `LivePool` and their proofs; `PoolRefines`; `Connector`; `Broker`;
`Checker`; `Store` and `Commands`.

The theorems followed in this order: `Commands`, `Pool` (`NoneMeansDry`, the refinement),
`Server`, `Checker`, the limit of `CheckStream`, `Broker`, `Connector`; then `best_for` against
its loop, the rotation, and `LivePool` on `AddrPool`.

Next:

1. What rotation still guarantees with several connects at once: which k turns, for how many
   connects under way, visit every ready proxy.
2. A run and a property for the hazards that have none (`hazards` in `PROJECT.json` says why).
