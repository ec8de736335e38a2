------------------------------ MODULE LivePool ------------------------------
(***************************************************************************)
(* The tasks that change a pool in service, on the pool seen by address:   *)
(* the re-check loop of src/scheduler.rs, the file watcher of src/watch.rs *)
(* (reconcile), the importer of a pool that find fills, the tools of       *)
(* src/mcp.rs, and the callers that check proxies out meanwhile.  Each     *)
(* holds the pool's lock for one call at a time; everything between two    *)
(* calls interleaves.                                                      *)
(*                                                                         *)
(* Due times are left out: which scheduled address comes due next is any.  *)
(* The decayed score is its verdict, retry or evict.                       *)
(***************************************************************************)
EXTENDS AddrPool

CONSTANTS
  Loaded,   \* the entries of a pool loaded from a file, by address
  Found,    \* what the source of a pool filled by find yields, by address
  Nowhere,  \* no address
  MaxHeld,  \* bound: proxies at one address checked out by callers at once
  MaxEdits  \* bound: writes to the watched file

VARIABLES
  pending,   \* what the importer has still to push, by address
  watched,   \* the pool was loaded from a file, which is watched
  rc,        \* where the re-check loop is
  tracked,   \* keys of ewma (and of last_ok)
  heap,      \* entries of the next-check heap, by address
  retrying,  \* failed and pulled from the pool, still scheduled
  job,       \* the address under probe
  stopping,  \* RecheckHandle's token
  file,      \* the addresses the watched file lists
  torn,      \* the file is half-written and does not parse
  dirty,     \* an event on the file is not handled yet
  dropping,  \* what reconcile has still to remove ...
  joining,   \* ... and, after that, to add
  edits,
  deleted,   \* addresses the watcher removed and has not added since
  tool       \* the address get_proxy has checked out

recheckVars == <<rc, tracked, heap, retrying, job, stopping>>
importVars  == <<pending, watched>>
watchVars   == <<file, torn, dirty, dropping, joining, edits, deleted>>
liveVars    == <<addrVars, importVars, recheckVars, watchVars, tool>>

ASSUME LiveAssumption ==
  /\ IsFiniteSet(Addrs)
  /\ Loaded \in [Addrs -> Nat] /\ Found \in [Addrs -> Nat]
  /\ Nowhere \notin Addrs
  /\ MaxHeld \in Nat /\ MaxEdits \in Nat

Zero == [a \in Addrs |-> 0]

PooledAddrs == {a \in Addrs : pooled[a] > 0}

(* serve --load --watch, or a pool that find fills: --watch needs --load. *)
LiveInit ==
  /\ \/ watched = TRUE /\ pooled = Loaded /\ pending = Zero
     \/ watched = FALSE /\ pooled = Zero /\ pending = Found
  /\ held = Zero
  /\ rc = "enroll"
  /\ tracked = {}
  /\ heap = Zero
  /\ retrying = {}
  /\ job = Nowhere
  /\ stopping = FALSE
  /\ file = PooledAddrs
  /\ torn = FALSE
  /\ dirty = FALSE
  /\ dropping = {}
  /\ joining = {}
  /\ edits = 0
  /\ deleted = {}
  /\ tool = Nowhere

-----------------------------------------------------------------------------
(* spawn_rechecker *)

EnrollAlways ==
  /\ rc = "enroll"
  /\ tracked' = tracked \cup PooledAddrs
  /\ heap' = [a \in Addrs |-> IF a \in PooledAddrs THEN heap[a] + 1 ELSE heap[a]]
  /\ rc' = "wait"
  /\ UNCHANGED <<addrVars, importVars, retrying, job, stopping, watchVars, tool>>

(* A pass starts: every pooled address not tracked yet is scheduled. *)
Enroll ==
  /\ rc = "enroll"
  /\ tracked' = tracked \cup PooledAddrs
  /\ heap' = [a \in Addrs |-> IF a \in PooledAddrs \ tracked THEN heap[a] + 1 ELSE heap[a]]
  /\ rc' = "wait"
  /\ UNCHANGED <<addrVars, importVars, retrying, job, stopping, watchVars, tool>>

(* min_interval passes with nothing due: back to enrolling. *)
Rewake ==
  /\ rc = "wait"
  /\ rc' = "enroll"
  /\ UNCHANGED <<addrVars, importVars, tracked, heap, retrying, job, stopping, watchVars, tool>>

(* An address comes due: one that left the pool, and that the loop did not   *)
(* pull itself, is dropped; any other is probed.                             *)
Pop(a) ==
  /\ rc = "wait"
  /\ heap[a] > 0
  /\ heap' = Less(heap, a)
  /\ \/ /\ a \notin retrying /\ a \notin PooledAddrs
        /\ tracked' = tracked \ {a}
        /\ rc' = "enroll"
        /\ UNCHANGED job
     \/ /\ a \in retrying \/ a \in PooledAddrs
        /\ job' = a
        /\ rc' = "probe"
        /\ UNCHANGED tracked
  /\ UNCHANGED <<addrVars, importVars, retrying, stopping, watchVars, tool>>

(* checker.check answers; the loop waits for it, cancelled or not. *)
ProbePasses ==
  /\ rc = "probe"
  /\ AddAddr(job)
  /\ tracked' = tracked \cup {job}
  /\ retrying' = retrying \ {job}
  /\ heap' = More(heap, job)
  /\ job' = Nowhere
  /\ rc' = "enroll"
  /\ UNCHANGED <<importVars, stopping, watchVars, tool>>

EvictKeepsScore ==
  /\ retrying' = retrying \ {job}
  /\ UNCHANGED <<tracked, heap>>

(* The decayed score is below the floor: all bookkeeping goes. *)
Evict ==
  /\ tracked' = tracked \ {job}
  /\ retrying' = retrying \ {job}
  /\ UNCHANGED heap

KeepRetrying ==
  /\ tracked' = tracked \cup {job}
  /\ retrying' = retrying \cup {job}
  /\ heap' = More(heap, job)

ProbeFails ==
  /\ rc = "probe"
  /\ RemoveAddr(job)
  /\ KeepRetrying \/ Evict
  /\ job' = Nowhere
  /\ rc' = "enroll"
  /\ UNCHANGED <<importVars, stopping, watchVars, tool>>

ShutdownRecheck ==
  /\ ~stopping
  /\ stopping' = TRUE
  /\ UNCHANGED <<addrVars, importVars, rc, tracked, heap, retrying, job, watchVars, tool>>

(* The token is looked at in the waits only. *)
StopRecheck ==
  /\ stopping
  /\ rc = "wait"
  /\ rc' = "stopped"
  /\ UNCHANGED <<addrVars, importVars, tracked, heap, retrying, job, stopping, watchVars, tool>>

-----------------------------------------------------------------------------
(* spawn_watch and reconcile *)

(* The user saves the file; while it is half-written, file keeps the last    *)
(* content that parses.                                                      *)
Write(content, half) ==
  /\ watched
  /\ edits < MaxEdits
  /\ edits' = edits + 1
  /\ file' = content
  /\ torn' = half
  /\ dirty' = TRUE
  /\ UNCHANGED <<addrVars, importVars, recheckVars, dropping, joining, deleted, tool>>

(* The debounced event: the file is parsed and the pool's addresses are      *)
(* read, once; a file that does not parse leaves the pool alone.             *)
Reload ==
  /\ dirty
  /\ dropping = {} /\ joining = {}
  /\ dirty' = FALSE
  /\ \/ /\ ~torn
        /\ dropping' = PooledAddrs \ file
        /\ joining' = file \ PooledAddrs
     \/ /\ torn
        /\ UNCHANGED <<dropping, joining>>
  /\ UNCHANGED <<addrVars, importVars, recheckVars, file, torn, edits, deleted, tool>>

DropOne(a) ==
  /\ a \in dropping
  /\ dropping' = dropping \ {a}
  /\ RemoveAddr(a)
  /\ deleted' = deleted \cup {a}
  /\ UNCHANGED <<importVars, recheckVars, file, torn, dirty, joining, edits, tool>>

JoinOneDrains(a) ==
  /\ dropping = {}
  /\ a \in joining
  /\ joining' = joining \ {a}
  /\ AddAddr(a)
  /\ deleted' = deleted \ {a}
  /\ dirty' = FALSE
  /\ UNCHANGED <<importVars, recheckVars, file, torn, dropping, edits, tool>>

JoinOne(a) ==
  /\ dropping = {}
  /\ a \in joining
  /\ joining' = joining \ {a}
  /\ AddAddr(a)
  /\ deleted' = deleted \ {a}
  /\ UNCHANGED <<importVars, recheckVars, file, torn, dirty, dropping, edits, tool>>

-----------------------------------------------------------------------------
(* Pool::spawn's task pushes what its source yields, without a look for the  *)
(* address.                                                                  *)
Import(a) ==
  /\ pending[a] > 0
  /\ pending' = Less(pending, a)
  /\ Admit(a)
  /\ UNCHANGED <<watched, recheckVars, watchVars, tool>>

-----------------------------------------------------------------------------
(* The MCP tools: get_proxy checks a proxy out and adds it back, report_dead *)
(* removes an address.                                                       *)

ToolGet(a) ==
  /\ tool = Nowhere
  /\ CheckOut(a)
  /\ tool' = a
  /\ UNCHANGED <<importVars, recheckVars, watchVars>>

ToolPutBack ==
  /\ tool # Nowhere
  /\ held' = Less(held, tool)
  /\ pooled' = Added(pooled, tool)
  /\ tool' = Nowhere
  /\ UNCHANGED <<importVars, recheckVars, watchVars>>

ReportDead(a) ==
  /\ RemoveAddr(a)
  /\ UNCHANGED <<importVars, recheckVars, watchVars, tool>>

-----------------------------------------------------------------------------
(* Callers of get and put: the server's handlers and the connector. *)

InCallers(a) == held[a] - (IF tool = a THEN 1 ELSE 0)

CallerTakes(a) ==
  /\ InCallers(a) < MaxHeld
  /\ CheckOut(a)
  /\ UNCHANGED <<importVars, recheckVars, watchVars, tool>>

CallerReturns(a) ==
  /\ InCallers(a) > 0
  /\ GiveBack(a) \/ Dismiss(a)
  /\ UNCHANGED <<importVars, recheckVars, watchVars, tool>>

-----------------------------------------------------------------------------
Watching ==
  \/ \E content \in SUBSET Addrs : Write(content, FALSE)
  \/ Write(file, TRUE)
  \/ Reload
  \/ \E a \in Addrs : DropOne(a) \/ JoinOne(a)

Rechecking ==
  \/ Enroll \/ Rewake \/ ProbePasses \/ ProbeFails \/ ShutdownRecheck \/ StopRecheck
  \/ \E a \in Addrs : Pop(a)

Tools == ToolPutBack \/ \E a \in Addrs : ToolGet(a) \/ ReportDead(a)

Calling == \E a \in Addrs : CallerTakes(a) \/ CallerReturns(a)

Importing == \E a \in Addrs : Import(a)

LiveNext == Watching \/ Rechecking \/ Importing \/ Tools \/ Calling

LiveSpec == LiveInit /\ [][LiveNext]_liveVars

(* The loop is a scheduled task, its sleeps end after min_interval and a     *)
(* check ends within its timeouts.  A scheduled address comes due: the heap  *)
(* pops the soonest first, and what is pushed meanwhile is due later.  The   *)
(* watcher polls its events and is not shut down.                            *)
FairLive ==
  /\ LiveSpec
  /\ WF_liveVars(Enroll)
  /\ WF_liveVars(Rewake)
  /\ WF_liveVars(ProbePasses \/ ProbeFails)
  /\ \A a \in Addrs : SF_liveVars(Pop(a))
  /\ WF_liveVars(Reload)
  /\ \A a \in Addrs : WF_liveVars(DropOne(a)) /\ WF_liveVars(JoinOne(a))

-----------------------------------------------------------------------------
LiveTypeOK ==
  /\ pooled \in [Addrs -> Nat]
  /\ held \in [Addrs -> Nat]
  /\ pending \in [Addrs -> Nat]
  /\ watched \in BOOLEAN
  /\ rc \in {"enroll", "wait", "probe", "stopped"}
  /\ tracked \subseteq Addrs
  /\ heap \in [Addrs -> Nat]
  /\ retrying \subseteq Addrs
  /\ job \in Addrs \cup {Nowhere}
  /\ stopping \in BOOLEAN
  /\ file \subseteq Addrs
  /\ torn \in BOOLEAN
  /\ dirty \in BOOLEAN
  /\ dropping \subseteq Addrs
  /\ joining \subseteq Addrs
  /\ edits \in Nat
  /\ deleted \subseteq Addrs
  /\ tool \in Addrs \cup {Nowhere}

(* The loop's bookkeeping agrees with its heap whatever the other tasks do   *)
(* to the pool: a tracked address is scheduled, or under probe, exactly once *)
(* (never probed twice, never forgotten), and one pulled for a retry is      *)
(* tracked.                                                                  *)
ScheduledOnce ==
  /\ \A a \in Addrs :
       heap[a] + (IF job = a THEN 1 ELSE 0) = IF a \in tracked THEN 1 ELSE 0
  /\ retrying \subseteq tracked

(* What ScheduledOnce rests on: there is a job exactly during a probe, and   *)
(* the tool's proxy is one of those held.                                    *)
JobIsProbed == job = Nowhere <=> rc # "probe"

ToolHolds == tool # Nowhere => held[tool] > 0

LiveInv == LiveTypeOK /\ JobIsProbed /\ ToolHolds /\ ScheduledOnce

(* add is deduplicated against every other task: of all that happens to a    *)
(* pool in service, an address is pooled a second time only by the put of a  *)
(* proxy that was out while its address came back, or by the importer, which *)
(* does not look whether the address came by another way first.              *)
AddNeverDuplicates ==
  [][\A a \in Addrs :
       pooled'[a] > 1 /\ pooled'[a] > pooled[a] => GiveBack(a) \/ Import(a)]_liveVars

(* While the loop runs, an address that stays in the pool is probed again    *)
(* and again, however often others remove it and add it back.                *)
KeepsChecking ==
  \A a \in Addrs : []<>(job = a \/ pooled[a] = 0 \/ stopping)

(* No edit of the watched file is lost, not even one made while an earlier   *)
(* one is being applied, and a half-written file undoes none: an address the *)
(* file lists comes to be pooled or in use, one it does not list comes to be *)
(* out of the pool, unless the file changes again.                           *)
FileTakesEffect ==
  \A a \in Addrs :
    /\ dirty /\ ~torn /\ a \in file ~> pooled[a] + held[a] > 0 \/ torn \/ a \notin file
    /\ dirty /\ ~torn /\ a \notin file ~> pooled[a] = 0 \/ torn \/ a \in file

(* What the loop's comment says: its probe never resurrects a proxy the      *)
(* watcher removed.                                                          *)
NeverResurrects ==
  [][\A a \in deleted : ProbePasses /\ job = a /\ pooled[a] = 0 => pooled'[a] = 0]_liveVars

=============================================================================
