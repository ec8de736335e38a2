------------------------------- MODULE Store -------------------------------
(***************************************************************************)
(* The durable store of src/persist.rs: one row per address, the fold of a *)
(* finished check into it by each of the three backends (SQLite's ON       *)
(* CONFLICT, MemoryStore's entry API, Redis' Lua script), the conversion   *)
(* of a row into a Proxy on load, and the schema guard of open.            *)
(*                                                                         *)
(* An upsert is one SQL statement or one script: it is one step, and one   *)
(* that fails changes nothing.  first_seen and last_seen are written and   *)
(* never read; they are left out.                                          *)
(*                                                                         *)
(* The averages are kept in units of 1 / Unit.  A fold divides by 10, so   *)
(* Unit = 10^n makes n folds of a row exact.                               *)
(***************************************************************************)
EXTENDS Integers, FiniteSets

CONSTANTS
  Addrs,   \* the (host, port) pairs
  Checks,  \* what a check may make of a fresh Proxy
  Unit,    \* 1.0
  U32,     \* u32::MAX
  NoGeo    \* Proxy.geo is None

NoTypes == << >>
NoScore == -1

ASSUME StoreAssumption ==
  /\ Unit \in Nat \ {0}
  /\ U32 \in Nat
  /\ \A c \in Checks : c.requests \in Nat /\ c.errors \in 0..c.requests /\ c.latency \in Nat

(* The part of a Proxy that a check, the store and a saved file touch.       *)
(* latency stands for runtimes: its mean, 0 when there are none.             *)
NewProxy(a) ==
  [addr |-> a, types |-> NoTypes, geo |-> NoGeo,
   requests |-> 0, errors |-> 0, latency |-> 0, ewma |-> NoScore]

(* check records its attempts in the proxy, on top of what it came with. *)
CheckedAs(p, c) ==
  [p EXCEPT !.types = c.types, !.requests = @ + c.requests, !.errors = @ + c.errors,
            !.latency = c.latency]

IsWorking(p) == p.types # NoTypes

-----------------------------------------------------------------------------
(* upsert *)

Sample(p) == IF IsWorking(p) THEN Unit ELSE 0
Uptime(p) == IF IsWorking(p) THEN 1 ELSE 0

(* 0.3 of the sample and 0.7 of what was there. *)
Blend(new, old) == (3 * new + 7 * old) \div 10

InsertedUnproven(p) ==
  [types |-> p.types, requests |-> p.requests, errors |-> p.errors,
   ewma |-> 0, latency |-> p.latency, uptime |-> Uptime(p)]

(* The first sample seeds the row as it is. *)
Inserted(p) ==
  [types |-> p.types, requests |-> p.requests, errors |-> p.errors,
   ewma |-> Sample(p), latency |-> p.latency, uptime |-> Uptime(p)]

FoldSqliteForgets(row, p) ==
  [types    |-> p.types,
   requests |-> row.requests + p.requests,
   errors   |-> row.errors + p.errors,
   ewma     |-> Blend(Sample(p), row.ewma),
   latency  |-> IF p.latency > 0 THEN Blend(p.latency, row.latency) ELSE row.latency,
   uptime   |-> row.uptime + Uptime(p)]

FoldSqlite(row, p) ==
  [types    |-> IF p.types # NoTypes THEN p.types ELSE row.types,
   requests |-> row.requests + p.requests,
   errors   |-> row.errors + p.errors,
   ewma     |-> Blend(Sample(p), row.ewma),
   latency  |-> IF p.latency > 0 THEN Blend(p.latency, row.latency) ELSE row.latency,
   uptime   |-> row.uptime + Uptime(p)]

SaturatingAdd(n, k) == IF n + k > U32 THEN U32 ELSE n + k

FoldMemory(row, p) ==
  [row EXCEPT
     !.types    = IF IsWorking(p) THEN p.types ELSE @,
     !.requests = SaturatingAdd(@, p.requests),
     !.errors   = SaturatingAdd(@, p.errors),
     !.ewma     = Blend(Sample(p), @),
     !.latency  = IF p.latency > 0 THEN Blend(p.latency, @) ELSE @,
     !.uptime   = @ + Uptime(p)]

FoldRedisBlendsZero(cur, p) ==
  LET first == cur = << >>
      num(f) == IF f \in DOMAIN cur THEN cur[f] ELSE 0
  IN  [types    |-> IF p.types = NoTypes /\ ~first THEN cur.types ELSE p.types,
       requests |-> num("requests") + p.requests,
       errors   |-> num("errors") + p.errors,
       ewma     |-> IF first THEN Sample(p) ELSE Blend(Sample(p), num("ewma")),
       latency  |-> IF first THEN p.latency ELSE Blend(p.latency, num("latency")),
       uptime   |-> num("uptime") + Uptime(p)]

(* UPSERT_LUA on the hash it read; an absent hash is empty, and num() of an  *)
(* absent field is 0.                                                        *)
FoldRedis(cur, p) ==
  LET first == cur = << >>
      num(f) == IF f \in DOMAIN cur THEN cur[f] ELSE 0
  IN  [types    |-> IF p.types = NoTypes /\ ~first THEN cur.types ELSE p.types,
       requests |-> num("requests") + p.requests,
       errors   |-> num("errors") + p.errors,
       ewma     |-> IF first THEN Sample(p) ELSE Blend(Sample(p), num("ewma")),
       latency  |-> IF first THEN p.latency
                    ELSE IF p.latency > 0 THEN Blend(p.latency, num("latency"))
                    ELSE num("latency"),
       uptime   |-> num("uptime") + Uptime(p)]

(* The rows after upsert(p) on a store of the given backend. *)
Upserted(backend, rows, p) ==
  LET known == p.addr \in DOMAIN rows
      row == CASE backend = "redis" -> FoldRedis(IF known THEN rows[p.addr] ELSE << >>, p)
               [] backend = "sqlite" -> IF known THEN FoldSqlite(rows[p.addr], p) ELSE Inserted(p)
               [] backend = "memory" -> IF known THEN FoldMemory(rows[p.addr], p) ELSE Inserted(p)
  IN  [a \in DOMAIN rows \cup {p.addr} |-> IF a = p.addr THEN row ELSE rows[a]]

-----------------------------------------------------------------------------
(* load: a stored count becomes a u32 again.  SQLite's i64 is cast, which    *)
(* wraps; a Redis field that does not parse counts as 0.                     *)

LoadCount(backend, n) ==
  CASE backend = "sqlite" -> n % (U32 + 1)
    [] backend = "redis"  -> IF n > U32 THEN 0 ELSE n
    [] backend = "memory" -> n

(* Proxy::restored, with_ewma.  A mean of 0 is no sample, and no sample has  *)
(* the mean 0.  Where the proxy is was not stored.                           *)
Restored(backend, a, row) ==
  [addr |-> a, types |-> row.types, geo |-> NoGeo,
   requests |-> LoadCount(backend, row.requests), errors |-> LoadCount(backend, row.errors),
   latency |-> row.latency, ewma |-> row.ewma]

Load(backend, rows) == {Restored(backend, a, rows[a]) : a \in DOMAIN rows}

-----------------------------------------------------------------------------
(* open: the version the store is left with, and whether it opens at all.    *)
(* SQLite migrates an older one and takes a newer one as it is; Redis        *)
(* accepts none or its own.                                                  *)

SchemaVersion == 1
NoSchema == 0

Opens(backend, version) == backend = "redis" => version \in {NoSchema, SchemaVersion}

Migrated(backend, version) == IF version < SchemaVersion THEN SchemaVersion ELSE version

=============================================================================
