--------------------------- MODULE CommandsProofs ---------------------------
(***************************************************************************)
(* Proofs about the durable store and the commands that share it: the      *)
(* three backends fold and load alike, no attempt is counted twice or      *)
(* lost, a working proxy keeps a protocol, a score is a probability, and a *)
(* warm start serves from the store's own entries.                         *)
(***************************************************************************)
EXTENDS Commands, TLAPS

(* A row, as any of the backends leaves it. *)
Row ==
  [types : {c.types : c \in Checks}, requests : Nat, errors : Nat,
   ewma : Nat, latency : Nat, uptime : Nat]

(* What a check of a proxy without a past makes of it. *)
IsOutcome(p, c) ==
  /\ p.types = c.types /\ p.requests = c.requests /\ p.errors = c.errors
  /\ p.latency = c.latency

-----------------------------------------------------------------------------
(* The folds of persist.rs *)

(* A check records in a new proxy its own counts and nothing else. *)
LEMMA NewProxyChecked ==
  ASSUME NEW a, NEW c \in Checks, NEW g
  PROVE  LET p == CheckedAs(NewProxy(a), c)
             q == CheckedAs([NewProxy(a) EXCEPT !.geo = g], c)
         IN  p.addr = a /\ IsOutcome(p, c) /\ q.addr = a /\ IsOutcome(q, c)
  BY StoreAssumption DEF CheckedAs, NewProxy, IsOutcome

(* Blending keeps a score between 0 and what both its arguments are below,   *)
(* and a sample of 1.0 or a score above 0 show in the result.                *)
LEMMA BlendFacts ==
  ASSUME NEW new \in Nat, NEW old \in Nat
  PROVE  /\ Blend(new, old) \in Nat
         /\ \A n \in Nat : new <= n /\ old <= n => Blend(new, old) <= n
         /\ \A m \in Nat : m <= old => Blend(0, m) <= Blend(new, old)
         /\ \A m \in Nat : m <= new => Blend(m, 0) <= Blend(new, old)
         /\ Blend(0, old) <= old
         /\ Blend(0, 0) = 0
  BY DEF Blend

(* The record of a fold: the shape and the types of a row. *)
LEMMA FoldTyped ==
  ASSUME NEW row \in Row, NEW c \in Checks, NEW p, IsOutcome(p, c)
  PROVE  FoldSqlite(row, p) \in Row /\ Inserted(p) \in Row
<1>1. /\ Sample(p) \in Nat /\ Uptime(p) \in Nat
      /\ p.requests \in Nat /\ p.errors \in Nat /\ p.latency \in Nat
  BY StoreAssumption DEF IsOutcome, Sample, Uptime
<1>2. Blend(Sample(p), row.ewma) \in Nat /\ Blend(p.latency, row.latency) \in Nat
  BY <1>1, BlendFacts DEF Row
<1> QED
  BY <1>1, <1>2 DEF Row, FoldSqlite, Inserted, IsOutcome

(* UPSERT_LUA folds into an absent hash what INSERT stores, and into a       *)
(* stored one what ON CONFLICT computes.                                     *)
LEMMA RedisIsSqlite ==
  ASSUME NEW row \in Row, NEW c \in Checks, NEW p, IsOutcome(p, c)
  PROVE  FoldRedis(<< >>, p) = Inserted(p) /\ FoldRedis(row, p) = FoldSqlite(row, p)
<1>1. /\ p.requests \in Nat /\ p.errors \in Nat /\ p.latency \in Nat
      /\ Uptime(p) \in Nat
  BY StoreAssumption DEF IsOutcome, Uptime
<1>2. DOMAIN << >> = {}
  OBVIOUS
<1>3. DOMAIN row = {"types", "requests", "errors", "ewma", "latency", "uptime"}
  BY DEF Row
<1>4. row # << >>
  BY <1>2, <1>3
<1>5. FoldRedis(<< >>, p) = Inserted(p)
  BY <1>1, <1>2 DEF FoldRedis, Inserted
<1>6. FoldRedis(row, p) = FoldSqlite(row, p)
  BY <1>1, <1>3, <1>4 DEF FoldRedis, FoldSqlite, Row
<1> QED  BY <1>5, <1>6

(* MemoryStore saturates where SQLite goes on: below that they agree. *)
LEMMA MemoryIsSqlite ==
  ASSUME NEW row \in Row, NEW c \in Checks, NEW p, IsOutcome(p, c),
         row.requests + c.requests <= U32, row.errors + c.errors <= U32
  PROVE  FoldMemory(row, p) = FoldSqlite(row, p)
<1>1. /\ SaturatingAdd(row.requests, p.requests) = row.requests + p.requests
      /\ SaturatingAdd(row.errors, p.errors) = row.errors + p.errors
  BY StoreAssumption DEF SaturatingAdd, IsOutcome, Row
<1> DEFINE Fields == {"types", "requests", "errors", "ewma", "latency", "uptime"}
           memory == FoldMemory(row, p)
           sqlite == FoldSqlite(row, p)
<1>2. DOMAIN row = Fields
  BY DEF Row
<1>3. /\ memory = [f \in Fields |-> memory[f]]
      /\ sqlite = [f \in Fields |-> sqlite[f]]
  BY <1>2 DEF FoldMemory, FoldSqlite
<1>4. \A f \in Fields : memory[f] = sqlite[f]
  <2>1. memory.types = sqlite.types
    BY <1>2 DEF FoldMemory, FoldSqlite, IsWorking
  <2>2. memory.requests = sqlite.requests
    BY <1>1, <1>2 DEF FoldMemory, FoldSqlite
  <2>3. memory.errors = sqlite.errors
    BY <1>1, <1>2 DEF FoldMemory, FoldSqlite
  <2>4. memory.ewma = sqlite.ewma
    BY <1>2 DEF FoldMemory, FoldSqlite
  <2>5. memory.latency = sqlite.latency
    BY <1>2 DEF FoldMemory, FoldSqlite
  <2>6. memory.uptime = sqlite.uptime
    BY <1>2 DEF FoldMemory, FoldSqlite
  <2> QED  BY <2>1, <2>2, <2>3, <2>4, <2>5, <2>6
<1> HIDE DEF memory, sqlite
<1>5. memory = sqlite
  BY <1>3, <1>4
<1> QED
  BY <1>5 DEF memory, sqlite

(* The row upsert leaves at the address of p: what SQLite would. *)
Folded(stored, p) ==
  IF p.addr \in DOMAIN stored THEN FoldSqlite(stored[p.addr], p) ELSE Inserted(p)

WithFolded(stored, p) ==
  [a \in DOMAIN stored \cup {p.addr} |-> IF a = p.addr THEN Folded(stored, p) ELSE stored[a]]

(* An upsert writes one row and no other; Redis writes what SQLite does. *)
LEMMA UpsertedRow ==
  ASSUME NEW b \in {"sqlite", "redis"}, NEW stored, NEW c \in Checks, NEW p, IsOutcome(p, c),
         \A a \in DOMAIN stored : stored[a] \in Row
  PROVE  Upserted(b, stored, p) = WithFolded(stored, p)
<1>1. CASE p.addr \in DOMAIN stored
  <2>1. FoldRedis(stored[p.addr], p) = FoldSqlite(stored[p.addr], p)
    BY <1>1, RedisIsSqlite
  <2> QED  BY <1>1, <2>1 DEF Upserted, WithFolded, Folded
<1>2. CASE p.addr \notin DOMAIN stored
  <2>1. Row # {}
    <3>1. [types |-> c.types, requests |-> 0, errors |-> 0, ewma |-> 0, latency |-> 0,
           uptime |-> 0] \in Row
      BY DEF Row
    <3> QED  BY <3>1
  <2>2. FoldRedis(<< >>, p) = Inserted(p)
    BY <2>1, RedisIsSqlite
  <2>3. FoldRedis(IF p.addr \in DOMAIN stored THEN stored[p.addr] ELSE << >>, p) = Inserted(p)
    BY <1>2, <2>2
  <2> QED  BY <1>2, <2>3 DEF Upserted, WithFolded, Folded
<1> QED  BY <1>1, <1>2

(* MemoryStore writes the same row, below u32::MAX. *)
LEMMA UpsertedInMemory ==
  ASSUME NEW stored, NEW c \in Checks, NEW p, IsOutcome(p, c),
         \A a \in DOMAIN stored :
           /\ stored[a] \in Row
           /\ stored[a].requests + c.requests <= U32
           /\ stored[a].errors + c.errors <= U32
  PROVE  Upserted("memory", stored, p) = Upserted("sqlite", stored, p)
<1>1. p.addr \in DOMAIN stored => FoldMemory(stored[p.addr], p) = FoldSqlite(stored[p.addr], p)
  BY MemoryIsSqlite
<1> QED  BY <1>1 DEF Upserted

(* Below u32::MAX a count survives the way to the store and back, whichever  *)
(* cast the backend makes of it.                                             *)
LEMMA CountsSurvive ==
  ASSUME NEW n \in 0..U32
  PROVE  LoadCount("sqlite", n) = n /\ LoadCount("redis", n) = n /\ LoadCount("memory", n) = n
  BY StoreAssumption DEF LoadCount

-----------------------------------------------------------------------------
(* What the rows remember *)

(* The counts of a row come from at most folds checks, each of which is      *)
(* small enough for MaxFolds + 1 of them to stay below u32::MAX.             *)
RowInv(a) ==
  /\ rows[a] \in Row
  /\ rows[a].requests = attempts[a]
  /\ rows[a].errors <= rows[a].requests
  /\ rows[a].ewma <= Unit
  /\ rows[a].uptime = 0 => rows[a].ewma = 0
  /\ (MaxFolds + 1) * rows[a].requests <= folds * U32

(* Nothing is counted for an address without a row. *)
RowsInv ==
  /\ backend \in {"sqlite", "redis"}
  /\ folds \in 0..MaxFolds
  /\ attempts \in [Addrs -> Nat]
  /\ DOMAIN rows \subseteq Addrs
  /\ \A a \in DOMAIN rows : RowInv(a)
  /\ \A a \in Addrs \ DOMAIN rows : attempts[a] = 0
  /\ TypesRemembered

ScoreInv(least) == \A a \in DOMAIN rows : rows[a].uptime > 0 => rows[a].ewma >= least[folds]

-----------------------------------------------------------------------------
(* The fold of one check keeps the invariant of the row it is folded into. *)
LEMMA FoldKeeps ==
  ASSUME NEW c \in Checks, NEW p, IsOutcome(p, c), NEW stored, NEW n \in Nat, NEW k \in Nat,
         p.addr \in DOMAIN stored =>
           /\ stored[p.addr] \in Row
           /\ stored[p.addr].requests = n
           /\ stored[p.addr].errors <= n
           /\ stored[p.addr].ewma <= Unit
           /\ stored[p.addr].uptime = 0 => stored[p.addr].ewma = 0
           /\ (MaxFolds + 1) * n <= k * U32,
         p.addr \notin DOMAIN stored => n = 0
  PROVE  LET row == Folded(stored, p)
         IN  /\ row \in Row
             /\ row.requests = n + c.requests
             /\ row.errors <= n + c.requests
             /\ row.ewma <= Unit
             /\ row.uptime = 0 => row.ewma = 0
             /\ (MaxFolds + 1) * row.requests <= (k + 1) * U32
             /\ IsWorking(p) => row.types # NoTypes
             /\ p.addr \in DOMAIN stored /\ stored[p.addr].types # NoTypes => row.types # NoTypes
<1>1. /\ c.requests \in Nat /\ c.errors \in Nat /\ c.errors <= c.requests /\ c.latency \in Nat
      /\ Unit \in Nat /\ U32 \in Nat /\ MaxFolds \in Nat
      /\ (MaxFolds + 1) * c.requests <= U32
  BY StoreAssumption, CommandsAssumption
<1>2. /\ p.types = c.types /\ p.requests = c.requests /\ p.errors = c.errors
      /\ Sample(p) \in Nat /\ Sample(p) <= Unit
      /\ Uptime(p) \in Nat /\ (Uptime(p) = 0 => Sample(p) = 0)
  BY <1>1 DEF IsOutcome, Sample, Uptime
<1>3. CASE p.addr \notin DOMAIN stored
  <2>1. (MaxFolds + 1) * c.requests <= (k + 1) * U32
    <3>1. U32 <= (k + 1) * U32
      BY <1>1
    <3>2. (MaxFolds + 1) * c.requests \in Nat /\ (k + 1) * U32 \in Nat
      BY <1>1
    <3> QED  BY <1>1, <3>1, <3>2
  <2>2. Inserted(p) \in Row
    <3>1. PICK r : r = [types |-> c.types, requests |-> 0, errors |-> 0, ewma |-> 0,
                        latency |-> 0, uptime |-> 0]
      OBVIOUS
    <3>2. r \in Row
      BY <3>1 DEF Row
    <3> QED  BY <3>2, FoldTyped
  <2> QED  BY <1>1, <1>2, <1>3, <2>1, <2>2 DEF Folded, Inserted, IsWorking
<1>4. CASE p.addr \in DOMAIN stored
  <2> DEFINE row == stored[p.addr]
  <2>1. row \in Row
    BY <1>4
  <2>2. FoldSqlite(row, p) \in Row
    BY <2>1, FoldTyped
  <2>3. /\ Blend(Sample(p), row.ewma) <= Unit
        /\ Sample(p) = 0 /\ row.ewma = 0 => Blend(Sample(p), row.ewma) = 0
    <3>1. row.ewma \in Nat /\ row.ewma <= Unit
      BY <1>4, <2>1 DEF Row
    <3> QED  BY <1>1, <1>2, <3>1 DEF Blend
  <2>4. (MaxFolds + 1) * (n + c.requests) <= (k + 1) * U32
    <3>1. (MaxFolds + 1) * (n + c.requests) = (MaxFolds + 1) * n + (MaxFolds + 1) * c.requests
      BY <1>1
    <3>2. (k + 1) * U32 = k * U32 + U32
      BY <1>1
    <3>3. (MaxFolds + 1) * n \in Nat /\ (MaxFolds + 1) * c.requests \in Nat /\ k * U32 \in Nat
      BY <1>1
    <3> QED  BY <1>1, <1>4, <3>1, <3>2, <3>3
  <2> QED
    BY <1>1, <1>2, <1>4, <2>1, <2>2, <2>3, <2>4 DEF Folded, FoldSqlite, IsWorking, Row
<1> QED  BY <1>3, <1>4

(* A step folds a check into one row, or leaves the store alone: an upsert   *)
(* that fails is dropped.                                                    *)
Folding(a, c, p) ==
  /\ p.addr = a /\ IsOutcome(p, c)
  /\ folds < MaxFolds /\ folds' = folds + 1
  /\ backend' = backend
  /\ rows' = Upserted(backend, rows, p)
  /\ Counted(p, c)

Untouched ==
  /\ UNCHANGED <<backend, rows, attempts, proven>>
  /\ folds' = folds \/ (folds < MaxFolds /\ folds' = folds + 1)

LEMMA StoreSteps ==
  ASSUME [Next]_vars
  PROVE  Untouched \/ \E a \in Addrs, c \in Checks : \E p : Folding(a, c, p)
<1>1. ASSUME NEW o \in Options, Start(o) \/ StartFails(o) PROVE Untouched
  BY <1>1 DEF Start, StartFails, Untouched
<1>2. ASSUME NEW a \in Addrs, NEW c \in Checks, StreamChecks(a, c)
      PROVE  Untouched \/ \E p : Folding(a, c, p)
  <2> DEFINE p == CheckedAs([NewProxy(a) EXCEPT !.geo = Geo[a]], c)
  <2>1. p.addr = a /\ IsOutcome(p, c)
    BY NewProxyChecked
  <2>2. (cmd.state /\ Upsert(p, c)) \/ UNCHANGED <<rows, attempts, proven>>
    BY <1>2 DEF StreamChecks
  <2>3. folds < MaxFolds /\ folds' = folds + 1 /\ backend' = backend
    BY <1>2 DEF StreamChecks
  <2> HIDE DEF p
  <2> QED  BY <2>1, <2>2, <2>3 DEF Upsert, Folding, Untouched
<1>3. ASSUME NEW a \in Addrs, NEW c \in Checks, Recheck(a, c)
      PROVE  Untouched \/ \E p : Folding(a, c, p)
  <2> DEFINE p == CheckedAs(FreshForCheck(a), c)
  <2>1. p.addr = a /\ IsOutcome(p, c)
    BY NewProxyChecked DEF FreshForCheck
  <2>2. (cmd.state /\ Upsert(p, c)) \/ UNCHANGED <<rows, attempts, proven>>
    BY <1>3 DEF Recheck
  <2>3. folds < MaxFolds /\ folds' = folds + 1 /\ backend' = backend
    BY <1>3 DEF Recheck
  <2> HIDE DEF p
  <2> QED  BY <2>1, <2>2, <2>3 DEF Upsert, Folding, Untouched
<1>4. CASE Receive \/ EditFile \/ Reconcile \/ ClientTakes \/ ClientReturns \/ Stop
  BY <1>4 DEF Receive, EditFile, Reconcile, ClientTakes, ClientReturns, Stop, storeVars, pastVars,
     Untouched
<1>5. CASE Finished \/ UNCHANGED vars
  BY <1>5 DEF Finished, vars, storeVars, pastVars, Untouched
<1> QED  BY <1>1, <1>2, <1>3, <1>4, <1>5 DEF Next

(* An upsert that succeeds keeps every row right. *)
LEMMA FoldingKeeps ==
  ASSUME RowsInv, NEW a \in Addrs, NEW c \in Checks, NEW p, Folding(a, c, p)
  PROVE  RowsInv'
<1>bounds. /\ folds' \in 0..MaxFolds /\ MaxFolds \in Nat /\ U32 \in Nat
      /\ backend' \in {"sqlite", "redis"} /\ folds' = folds + 1
      /\ folds * U32 <= (folds + 1) * U32 /\ folds * U32 \in Nat /\ (folds + 1) * U32 \in Nat
  BY StoreAssumption, CommandsAssumption DEF RowsInv, Folding
<1>checked. p.addr = a /\ IsOutcome(p, c)
  BY DEF Folding
<1>typed. \A x \in DOMAIN rows :
        rows[x] \in Row /\ (MaxFolds + 1) * rows[x].requests \in Nat
  BY <1>bounds DEF RowsInv, RowInv, Row
<1>1. rows' = [x \in DOMAIN rows \cup {a} |-> IF x = a THEN Folded(rows, p) ELSE rows[x]]
  <2>1. backend \in {"sqlite", "redis"} /\ \A x \in DOMAIN rows : rows[x] \in Row
    BY <1>typed DEF RowsInv
  <2>2. Upserted(backend, rows, p) = WithFolded(rows, p)
    BY <1>checked, <2>1, UpsertedRow
  <2> QED  BY <1>checked, <2>2 DEF WithFolded, Folding
<1>2. /\ c.requests \in Nat
      /\ attempts' = [attempts EXCEPT ![a] = @ + c.requests]
      /\ proven' \in {proven, proven \cup {a}}
      /\ IsWorking(p) \/ proven' = proven
  BY <1>checked, StoreAssumption DEF Folding, Counted
<1>3. attempts \in [Addrs -> Nat] /\ attempts' \in [Addrs -> Nat]
  BY <1>2 DEF RowsInv
<1>4. LET row == Folded(rows, p)
      IN  /\ row \in Row
          /\ row.requests = attempts[a] + c.requests
          /\ row.errors <= attempts[a] + c.requests
          /\ row.ewma <= Unit
          /\ row.uptime = 0 => row.ewma = 0
          /\ (MaxFolds + 1) * row.requests <= (folds + 1) * U32
          /\ IsWorking(p) => row.types # NoTypes
          /\ a \in DOMAIN rows /\ rows[a].types # NoTypes => row.types # NoTypes
  <2>1. /\ attempts[a] \in Nat /\ folds \in Nat
        /\ a \in DOMAIN rows =>
             /\ rows[a] \in Row
             /\ rows[a].requests = attempts[a]
             /\ rows[a].errors <= attempts[a]
             /\ rows[a].ewma <= Unit
             /\ rows[a].uptime = 0 => rows[a].ewma = 0
             /\ (MaxFolds + 1) * attempts[a] <= folds * U32
        /\ a \notin DOMAIN rows => attempts[a] = 0
    BY <1>3 DEF RowsInv, RowInv
  <2> QED  BY <1>checked, <2>1, FoldKeeps
<1>5. DOMAIN rows' = DOMAIN rows \cup {a} /\ DOMAIN rows' \subseteq Addrs
  BY <1>1 DEF RowsInv
<1>6. ASSUME NEW x \in DOMAIN rows'  PROVE RowInv(x)'
  <2>1. CASE x = a
    <3>1. rows'[x] = Folded(rows, p) /\ attempts'[x] = attempts[a] + c.requests
      BY <1>1, <1>2, <1>3, <1>5, <2>1
    <3> QED  BY <1>bounds, <1>4, <3>1 DEF RowInv
  <2>2. CASE x # a
    <3>1. rows'[x] = rows[x] /\ attempts'[x] = attempts[x] /\ x \in DOMAIN rows
      BY <1>1, <1>2, <1>3, <1>5, <2>2
    <3> QED  BY <1>bounds, <1>typed, <3>1 DEF RowsInv, RowInv
  <2> QED  BY <2>1, <2>2
<1>7. \A x \in Addrs \ DOMAIN rows' : attempts'[x] = 0
  BY <1>2, <1>3, <1>5 DEF RowsInv
<1>8. TypesRemembered'
  BY <1>1, <1>2, <1>4, <1>5 DEF RowsInv, TypesRemembered
<1> QED  BY <1>bounds, <1>3, <1>5, <1>6, <1>7, <1>8 DEF RowsInv

(* A step that leaves the store alone keeps every row right. *)
LEMMA UntouchedKeeps ==
  ASSUME RowsInv, Untouched
  PROVE  RowsInv'
<1>1. /\ folds' \in 0..MaxFolds /\ MaxFolds \in Nat /\ U32 \in Nat
      /\ folds * U32 <= folds' * U32 /\ folds * U32 \in Nat /\ folds' * U32 \in Nat
  BY StoreAssumption, CommandsAssumption DEF RowsInv, Untouched
<1>2. ASSUME NEW x \in DOMAIN rows  PROVE RowInv(x)'
  <2>1. (MaxFolds + 1) * rows[x].requests \in Nat
    BY <1>1 DEF RowsInv, RowInv, Row
  <2> QED  BY <1>1, <2>1 DEF RowsInv, RowInv, Untouched
<1> QED  BY <1>1, <1>2 DEF RowsInv, TypesRemembered, Untouched

LEMMA InitRows == Init => RowsInv
<1> SUFFICES ASSUME Init PROVE RowsInv
  OBVIOUS
<1>1. DOMAIN rows = {}
  BY DEF Init
<1> QED  BY <1>1, CommandsAssumption DEF Init, RowsInv, TypesRemembered

LEMMA RowsStep == RowsInv /\ [Next]_vars => RowsInv'
  BY StoreSteps, FoldingKeeps, UntouchedKeeps

(* What the store remembers of every address is right, over any number of    *)
(* commands, crashes, failed upserts and checks of any outcome.              *)
THEOREM RowsAreSound == Spec => []RowsInv
<1> QED  BY InitRows, RowsStep, PTL DEF Spec

(* CountedOnce: a row holds the attempts folded into it, each once. *)
THEOREM AttemptsCountedOnce == Spec => []CountedOnce
<1>1. RowsInv => CountedOnce
  BY DEF RowsInv, RowInv, CountedOnce
<1> QED  BY <1>1, RowsAreSound, PTL

(* TypesRemembered: what worked once is remembered with a protocol. *)
THEOREM WorkingKeepsTypes == Spec => []TypesRemembered
<1>1. RowsInv => TypesRemembered
  BY DEF RowsInv
<1> QED  BY <1>1, RowsAreSound, PTL

-----------------------------------------------------------------------------
(* The backends agree *)

LEMMA SmallFactor ==
  ASSUME NEW m \in Nat, NEW x \in Nat, NEW y \in Nat, (m + 1) * x <= (m + 1) * y
  PROVE  x <= y
  OBVIOUS

LEMMA OneMoreFits ==
  ASSUME NEW m \in Nat, NEW x \in Nat, NEW y \in Nat, NEW u \in Nat,
         (m + 1) * x <= m * u, (m + 1) * y <= u
  PROVE  x + y <= u
<1> DEFINE X == (m + 1) * x
           Y == (m + 1) * y
           U == m * u
<1>1. (m + 1) * (x + y) = X + Y /\ (m + 1) * u = U + u
  OBVIOUS
<1>2. X \in Nat /\ Y \in Nat /\ U \in Nat /\ X <= U /\ Y <= u
  OBVIOUS
<1> HIDE DEF X, Y, U
<1>3. X + Y <= U + u
  BY <1>2
<1>4. (m + 1) * (x + y) <= (m + 1) * u
  BY <1>1, <1>3
<1>5. x + y \in Nat
  OBVIOUS
<1> QED  BY <1>4, <1>5, SmallFactor

(* One more check of any address stays below u32::MAX. *)
LEMMA CountsStayBelow ==
  ASSUME RowsInv, NEW a \in DOMAIN rows
  PROVE  /\ rows[a].requests \in 0..U32 /\ rows[a].errors \in 0..U32
         /\ \A c \in Checks : /\ rows[a].requests + c.requests <= U32
                              /\ rows[a].errors + c.errors <= U32
<1> DEFINE r == rows[a].requests
<1>1. /\ r \in Nat /\ rows[a].errors \in Nat /\ rows[a].errors <= r
      /\ (MaxFolds + 1) * r <= folds * U32
      /\ MaxFolds \in Nat /\ U32 \in Nat /\ folds \in 0..MaxFolds
  BY StoreAssumption, CommandsAssumption DEF RowsInv, RowInv, Row
<1> HIDE DEF r
<1>2. folds * U32 <= MaxFolds * U32 /\ folds * U32 \in Nat /\ MaxFolds * U32 \in Nat
  BY <1>1
<1>3. (MaxFolds + 1) * U32 = MaxFolds * U32 + U32
  BY <1>1
<1>4. (MaxFolds + 1) * r \in Nat
  BY <1>1
<1>5. r <= U32
  <2>1. (MaxFolds + 1) * r <= (MaxFolds + 1) * U32
    BY <1>1, <1>2, <1>3, <1>4
  <2> QED  BY <1>1, <2>1, SmallFactor
<1>6. ASSUME NEW c \in Checks
      PROVE  r + c.requests <= U32 /\ rows[a].errors + c.errors <= U32
  <2>1. /\ c.requests \in Nat /\ c.errors \in Nat /\ c.errors <= c.requests
        /\ (MaxFolds + 1) * c.requests <= U32
    BY StoreAssumption, CommandsAssumption
  <2>2. (MaxFolds + 1) * r <= MaxFolds * U32
    BY <1>1, <1>2, <1>4
  <2>4. r + c.requests <= U32
    BY <1>1, <2>1, <2>2, OneMoreFits
  <2> QED  BY <1>1, <2>1, <2>4
<1> QED  BY <1>1, <1>5, <1>6 DEF r

(* BackendsAgree: whatever a command left in the store, the next check folds *)
(* to the same rows in SQLite, in Redis and in memory, and a row loads as    *)
(* the same proxy.                                                           *)
THEOREM BackendsRememberAlike == Spec => []BackendsAgree
<1>1. ASSUME RowsInv, NEW a \in DOMAIN rows, NEW c \in Checks, NEW known,
             DOMAIN known \subseteq DOMAIN rows, \A x \in DOMAIN known : known[x] = rows[x]
      PROVE  LET p == CheckedAs(NewProxy(a), c)
             IN  /\ Upserted("redis", known, p) = Upserted("sqlite", known, p)
                 /\ Upserted("memory", known, p) = Upserted("sqlite", known, p)
  <2> DEFINE p == CheckedAs(NewProxy(a), c)
  <2>1. IsOutcome(p, c)
    BY NewProxyChecked
  <2> HIDE DEF p
  <2>2. \A x \in DOMAIN known :
          /\ known[x] \in Row
          /\ known[x].requests + c.requests <= U32
          /\ known[x].errors + c.errors <= U32
    BY <1>1, CountsStayBelow DEF RowsInv, RowInv
  <2>3. Upserted("memory", known, p) = Upserted("sqlite", known, p)
    BY <2>1, <2>2, UpsertedInMemory
  <2>4. /\ Upserted("redis", known, p) = WithFolded(known, p)
        /\ Upserted("sqlite", known, p) = WithFolded(known, p)
    BY <2>1, <2>2, UpsertedRow
  <2> QED  BY <2>3, <2>4 DEF p
<1>2. ASSUME RowsInv, NEW a \in DOMAIN rows
      PROVE  /\ Restored("redis", a, rows[a]) = Restored("sqlite", a, rows[a])
             /\ Restored("memory", a, rows[a]) = Restored("sqlite", a, rows[a])
  BY <1>2, CountsStayBelow, CountsSurvive DEF Restored
<1>3. RowsInv => BackendsAgree
  <2> SUFFICES ASSUME RowsInv, NEW a \in DOMAIN rows, NEW c \in Checks,
                      NEW known \in {rows, [b \in DOMAIN rows \ {a} |-> rows[b]]}
               PROVE  LET p == CheckedAs(NewProxy(a), c)
                      IN  /\ Upserted("redis", known, p) = Upserted("sqlite", known, p)
                          /\ Upserted("memory", known, p) = Upserted("sqlite", known, p)
    BY <1>2 DEF BackendsAgree
  <2>1. DOMAIN known \subseteq DOMAIN rows /\ \A x \in DOMAIN known : known[x] = rows[x]
    OBVIOUS
  <2> QED  BY <1>1, <2>1
<1> QED  BY <1>3, RowsAreSound, PTL

-----------------------------------------------------------------------------
(* Scores *)

(* A fold lowers a score to no less than the next of the sequence. *)
LEMMA ScoreFolds ==
  ASSUME NEW least, Precise(least), NEW k \in 0..MaxFolds, k < MaxFolds,
         NEW c \in Checks, NEW p, IsOutcome(p, c), NEW stored,
         \A a \in DOMAIN stored :
           stored[a] \in Row /\ (stored[a].uptime > 0 => stored[a].ewma >= least[k])
  PROVE  /\ least[k + 1] <= least[k] /\ least[k] \in Nat /\ least[k + 1] \in Nat
         /\ Folded(stored, p).uptime > 0 => Folded(stored, p).ewma >= least[k + 1]
<1>1. /\ Unit \in Nat \ {0} /\ MaxFolds \in Nat /\ k + 1 \in 1..MaxFolds
      /\ least[k] \in Nat /\ least[k + 1] \in Nat
      /\ least[k + 1] <= Blend(0, least[k]) /\ least[k + 1] <= Blend(Unit, 0)
  BY StoreAssumption, CommandsAssumption DEF Precise
<1>2. least[k + 1] <= least[k] /\ least[k + 1] <= Unit
  BY <1>1 DEF Blend
<1>3. ASSUME p.addr \notin DOMAIN stored, Folded(stored, p).uptime > 0
      PROVE  Folded(stored, p).ewma >= least[k + 1]
  BY <1>1, <1>2, <1>3 DEF Folded, Inserted, Uptime, Sample
<1>4. ASSUME p.addr \in DOMAIN stored, Folded(stored, p).uptime > 0
      PROVE  Folded(stored, p).ewma >= least[k + 1]
  <2> DEFINE row == stored[p.addr]
  <2>1. /\ row.ewma \in Nat /\ row.uptime \in Nat
        /\ row.uptime > 0 => row.ewma >= least[k]
    BY <1>4 DEF Row
  <2>2. /\ Folded(stored, p).ewma = Blend(Sample(p), row.ewma)
        /\ row.uptime + Uptime(p) > 0
    BY <1>4 DEF Folded, FoldSqlite
  <2> HIDE DEF row
  <2>3. CASE IsWorking(p)
    BY <1>1, <2>1, <2>2, <2>3 DEF Sample, Blend
  <2>4. CASE ~IsWorking(p)
    BY <1>1, <2>1, <2>2, <2>4 DEF Sample, Uptime, Blend
  <2> QED  BY <2>3, <2>4
<1> QED  BY <1>1, <1>2, <1>3, <1>4

LEMMA ScoreStep ==
  ASSUME NEW least, Precise(least), RowsInv, ScoreInv(least), [Next]_vars
  PROVE  ScoreInv(least)'
<1>1. folds \in 0..MaxFolds /\ MaxFolds \in Nat
  BY CommandsAssumption DEF RowsInv
<1>2. \A a \in DOMAIN rows :
        rows[a] \in Row /\ (rows[a].uptime > 0 => rows[a].ewma >= least[folds])
  BY DEF RowsInv, RowInv, ScoreInv
<1>3. CASE Untouched
  <2>1. CASE folds' = folds
    BY <1>3, <2>1 DEF Untouched, ScoreInv
  <2>2. CASE folds < MaxFolds /\ folds' = folds + 1
    <3>1. least[folds + 1] <= least[folds] /\ least[folds] \in Nat /\ least[folds + 1] \in Nat
      <4>1. /\ folds + 1 \in 1..MaxFolds /\ (folds + 1) - 1 = folds
            /\ least[folds] \in Nat /\ least[folds + 1] \in Nat
        BY <1>1, <2>2 DEF Precise
      <4>2. least[folds + 1] <= Blend(0, least[folds])
        BY <4>1 DEF Precise
      <4> QED  BY <4>1, <4>2 DEF Blend
    <3> QED  BY <1>2, <1>3, <2>2, <3>1 DEF Untouched, ScoreInv, Row
  <2> QED  BY <1>3, <2>1, <2>2 DEF Untouched
<1>4. ASSUME NEW a \in Addrs, NEW c \in Checks, NEW p, Folding(a, c, p)
      PROVE  ScoreInv(least)'
  <2>1. IsOutcome(p, c) /\ p.addr = a /\ folds < MaxFolds /\ folds' = folds + 1
    BY <1>4 DEF Folding
  <2>2. /\ least[folds + 1] <= least[folds] /\ least[folds] \in Nat /\ least[folds + 1] \in Nat
        /\ Folded(rows, p).uptime > 0 => Folded(rows, p).ewma >= least[folds + 1]
    BY <1>1, <1>2, <2>1, ScoreFolds
  <2>3. rows' = WithFolded(rows, p)
    BY <1>2, <1>4, <2>1, UpsertedRow DEF Folding, RowsInv
  <2>4. \A x \in DOMAIN rows' :
          rows'[x] = Folded(rows, p) \/ (x \in DOMAIN rows /\ rows'[x] = rows[x])
    BY <2>3 DEF WithFolded
  <2> QED  BY <1>2, <2>1, <2>2, <2>4 DEF ScoreInv, Row
<1> QED  BY <1>3, <1>4, StoreSteps

(* ScoreIsLawful: the average is a probability and 0 exactly for a proxy     *)
(* that never worked, as long as the unit is precise enough for the folds    *)
(* (10^(MaxFolds + 1) is, with least[k] = 3 * 7^k * 10^(MaxFolds - k)).      *)
THEOREM ScoresAreLawful ==
  ASSUME NEW least, Precise(least)
  PROVE  Spec => []ScoreIsLawful
<1>1. Init => ScoreInv(least)
  BY DEF Init, ScoreInv
<1>2. RowsInv /\ ScoreInv(least) /\ [Next]_vars => ScoreInv(least)'
  BY ScoreStep
<1>3. RowsInv /\ ScoreInv(least) => ScoreIsLawful
  <2> SUFFICES ASSUME RowsInv, ScoreInv(least), NEW a \in DOMAIN rows
               PROVE  /\ 0 <= rows[a].ewma /\ rows[a].ewma <= Unit
                      /\ rows[a].ewma = 0 <=> rows[a].uptime = 0
                      /\ rows[a].errors <= rows[a].requests
    BY DEF ScoreIsLawful
  <2>1. RowInv(a) /\ (rows[a].uptime > 0 => rows[a].ewma >= least[folds])
    BY DEF RowsInv, ScoreInv
  <2>2. least[folds] \in Nat \ {0}
    BY DEF RowsInv, Precise
  <2> QED  BY <2>1, <2>2 DEF RowInv, Row
<1> QED  BY <1>1, <1>2, <1>3, RowsAreSound, PTL DEF Spec

-----------------------------------------------------------------------------
(* Warm starts *)

(* What the primary has at an address is what the union has there. *)
LEMMA PrimaryWins ==
  ASSUME NEW A, NEW B, NEW a \in AddrsOf(A), IsABag(A)
  PROVE  /\ EntriesAt(UnionDedup(A, B), a) = EntriesAt(A, a)
         /\ \A p \in EntriesAt(A, a) : UnionDedup(A, B)[p] = A[p]
<1> DEFINE rest == {p \in DOMAIN B : p.addr \notin AddrsOf(A)}
           R == [p \in rest |-> B[p]]
<1>1. UnionDedup(A, B) = A (+) R
  BY DEF UnionDedup, Restrict, BagToSet
<1>2. DOMAIN R = rest /\ \A p \in rest : p.addr # a
  OBVIOUS
<1>3. /\ DOMAIN (A (+) R) = DOMAIN A \cup rest
      /\ \A p \in DOMAIN A \ rest : (A (+) R)[p] = A[p] + 0
  BY <1>2 DEF (+)
<1>4. \A p \in DOMAIN A : A[p] + 0 = A[p]
  BY DEF IsABag
<1> QED  BY <1>1, <1>2, <1>3, <1>4 DEF EntriesAt, BagToSet

(* The history has one entry per row, and it is the row: the counts are      *)
(* below u32::MAX, so no cast on the way back changes them.                  *)
LEMMA HistoryIsTheRows ==
  ASSUME RowsInv, NEW a \in DOMAIN rows
  PROVE  LET past == SetToBag(Load(backend, rows))
             p == Restored(backend, a, rows[a])
         IN  /\ EntriesAt(past, a) = {p} /\ past[p] = 1 /\ IsABag(past)
             /\ p.requests = attempts[a] /\ p.ewma = rows[a].ewma
             /\ a \in proven => IsWorking(p)
<1> DEFINE past == SetToBag(Load(backend, rows))
           p == Restored(backend, a, rows[a])
<1>1. \A b \in DOMAIN rows : Restored(backend, b, rows[b]).addr = b
  BY DEF Restored
<1>2. DOMAIN past = {Restored(backend, b, rows[b]) : b \in DOMAIN rows}
  BY DEF SetToBag, Load
<1>3. EntriesAt(past, a) = {p}
  BY <1>1, <1>2 DEF EntriesAt, BagToSet
<1>4. past[p] = 1 /\ IsABag(past)
  BY <1>2 DEF SetToBag, IsABag, Load
<1>5. p.requests = attempts[a]
  BY CountsStayBelow, CountsSurvive DEF Restored, RowsInv, RowInv
<1>6. p.ewma = rows[a].ewma /\ (a \in proven => IsWorking(p))
  BY DEF Restored, IsWorking, RowsInv, TypesRemembered
<1> QED  BY <1>3, <1>4, <1>5, <1>6

(* WarmStart: a pool that serves every country begins with exactly one entry *)
(* for each address of the store, which carries all the attempts recorded so *)
(* far, their score and the types of what worked, whatever the file lists,   *)
(* and however often.                                                        *)
THEOREM WarmStartsFromHistory == Spec => WarmStart
<1>1. ASSUME RowsInv, [Next]_vars, cmd = Idle, cmd' # Idle
      PROVE  \E o \in Options : cmd' = o /\ Start(o)
  <2>1. ~UNCHANGED cmd
    BY <1>1
  <2> QED
    BY <1>1, <2>1 DEF Next, vars, procVars, StartFails, StreamChecks, Recheck, Receive, EditFile,
       Reconcile, ClientTakes, ClientReturns, Stop, Finished, Start
<1>2. ASSUME RowsInv, NEW o \in Options, Start(o), o.kind = "serve", o.state, o.countries = {},
             NEW a \in DOMAIN rows
      PROVE  \E p \in BagToSet(pool') :
               /\ EntriesAt(pool', a) = {p} /\ pool'[p] = 1
               /\ p.requests = attempts[a] /\ p.ewma = rows[a].ewma
               /\ a \in proven => IsWorking(p)
  <2> DEFINE past == SetToBag(Load(backend, rows))
             born == IF o.load THEN UnionDedup(past, file) ELSE past
             p == Restored(backend, a, rows[a])
  <2>1. /\ EntriesAt(past, a) = {p} /\ past[p] = 1 /\ IsABag(past)
        /\ p.requests = attempts[a] /\ p.ewma = rows[a].ewma
        /\ a \in proven => IsWorking(p)
    BY <1>2, HistoryIsTheRows
  <2>2. pool' = [q \in DOMAIN born |-> born[q]]
    <3>1. \A q : CountryOk(o, q)
      BY <1>2 DEF CountryOk
    <3>2. pool' = Restrict(born, {q \in BagToSet(born) : CountryOk(o, q)})
      BY <1>2 DEF Start, Setup
    <3>3. {q \in BagToSet(born) : CountryOk(o, q)} = DOMAIN born
      BY <3>1 DEF BagToSet
    <3> QED  BY <3>2, <3>3 DEF Restrict
  <2> HIDE DEF past, p
  <2>3. a \in AddrsOf(past)
    BY <2>1 DEF AddrsOf, EntriesAt
  <2>4. EntriesAt(born, a) = {p} /\ born[p] = 1
    BY <2>1, <2>3, PrimaryWins
  <2> HIDE DEF born
  <2>5. EntriesAt(pool', a) = {p} /\ pool'[p] = 1 /\ p \in BagToSet(pool')
    BY <2>2, <2>4 DEF EntriesAt, BagToSet
  <2> QED  BY <2>1, <2>5
<1>3. RowsInv /\ [Next]_vars =>
        [cmd = Idle /\ cmd'.kind = "serve" /\ cmd'.state /\ cmd'.countries = {} =>
           \A a \in DOMAIN rows : \E p \in BagToSet(pool') :
             /\ EntriesAt(pool', a) = {p} /\ pool'[p] = 1
             /\ p.requests = attempts[a] /\ p.ewma = rows[a].ewma
             /\ a \in proven => IsWorking(p)]_vars
  <2> SUFFICES ASSUME RowsInv, [Next]_vars, cmd = Idle, cmd'.kind = "serve", cmd'.state,
                      cmd'.countries = {}, NEW a \in DOMAIN rows
               PROVE  \E p \in BagToSet(pool') :
                        /\ EntriesAt(pool', a) = {p} /\ pool'[p] = 1
                        /\ p.requests = attempts[a] /\ p.ewma = rows[a].ewma
                        /\ a \in proven => IsWorking(p)
    OBVIOUS
  <2>1. cmd' # Idle
    BY DEF Idle
  <2> QED  BY <1>1, <1>2, <2>1
<1> QED  BY <1>3, RowsAreSound, PTL DEF Spec, WarmStart

=============================================================================
