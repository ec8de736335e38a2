--------------------------- MODULE LivePoolProofs ---------------------------
(***************************************************************************)
(* Theorems about LivePool for every set of addresses, every file the      *)
(* watcher may read and any number of proxies checked out.                 *)
(***************************************************************************)
EXTENDS LivePool, TLAPS

(* A loaded pool and one to be filled start in the invariant. *)
LEMMA LiveInitEstablishes == LiveInit => LiveInv
<1> SUFFICES ASSUME LiveInit PROVE LiveInv
  OBVIOUS
<1>1. LiveTypeOK
  <2>1. /\ pooled \in [Addrs -> Nat] /\ held \in [Addrs -> Nat] /\ heap \in [Addrs -> Nat]
        /\ pending \in [Addrs -> Nat] /\ PooledAddrs \subseteq Addrs
    BY LiveAssumption DEF LiveInit, Zero, PooledAddrs
  <2>2. watched \in BOOLEAN /\ stopping \in BOOLEAN /\ torn \in BOOLEAN /\ dirty \in BOOLEAN
    BY DEF LiveInit
  <2> QED
    BY <2>1, <2>2, LiveAssumption DEF LiveInit, LiveTypeOK
<1>2. JobIsProbed /\ ToolHolds
  BY DEF LiveInit, JobIsProbed, ToolHolds
<1>3. ScheduledOnce
  BY LiveAssumption DEF LiveInit, ScheduledOnce, Zero
<1> QED
  BY <1>1, <1>2, <1>3 DEF LiveInv

(* Every step of the re-check loop keeps the invariant: it alone changes the *)
(* bookkeeping.                                                              *)
LEMMA RecheckPreserves == LiveInv /\ Rechecking => LiveInv'
<1> SUFFICES ASSUME LiveInv, Rechecking PROVE LiveInv'
  OBVIOUS
<1> USE LiveAssumption
    DEF LiveInv, LiveTypeOK, JobIsProbed, ToolHolds, ScheduledOnce, watchVars, addrVars,
        importVars
<1>1. CASE Enroll
  BY <1>1 DEF Enroll, PooledAddrs
<1>2. CASE Rewake
  BY <1>2 DEF Rewake
<1>3. ASSUME NEW a \in Addrs, Pop(a) PROVE LiveInv'
  BY <1>3 DEF Pop, Less
<1>4. CASE ProbePasses
  BY <1>4 DEF ProbePasses, AddAddr, Added, More
<1>5. CASE ProbeFails
  <2>1. CASE KeepRetrying
    BY <1>5, <2>1 DEF ProbeFails, RemoveAddr, KeepRetrying, More
  <2>2. CASE Evict
    BY <1>5, <2>2 DEF ProbeFails, RemoveAddr, Evict
  <2> QED BY <1>5, <2>1, <2>2 DEF ProbeFails
<1>6. CASE ShutdownRecheck
  BY <1>6 DEF ShutdownRecheck
<1>7. CASE StopRecheck
  BY <1>7 DEF StopRecheck
<1> QED
  BY <1>1, <1>2, <1>3, <1>4, <1>5, <1>6, <1>7 DEF Rechecking

(* The watcher, the importer, the tools and the callers only touch the pool  *)
(* and what is checked out of it.                                            *)
LEMMA OthersPreserve == LiveInv /\ (Watching \/ Importing \/ Tools \/ Calling) => LiveInv'
<1> SUFFICES ASSUME LiveInv, Watching \/ Importing \/ Tools \/ Calling PROVE LiveInv'
  OBVIOUS
<1> USE LiveAssumption
    DEF LiveInv, LiveTypeOK, JobIsProbed, ToolHolds, ScheduledOnce, recheckVars, importVars
<1>1. ASSUME NEW content \in SUBSET Addrs, NEW half \in BOOLEAN, Write(content, half)
      PROVE  LiveInv'
  BY <1>1 DEF Write, addrVars
<1>2. CASE Reload
  BY <1>2 DEF Reload, addrVars, PooledAddrs
<1>3. ASSUME NEW a \in Addrs, DropOne(a) PROVE LiveInv'
  BY <1>3 DEF DropOne, RemoveAddr
<1>4. ASSUME NEW a \in Addrs, JoinOne(a) PROVE LiveInv'
  BY <1>4 DEF JoinOne, AddAddr, Added, More
<1>5. ASSUME NEW a \in Addrs, ToolGet(a) PROVE LiveInv'
  BY <1>5 DEF ToolGet, CheckOut, Less, More, watchVars
<1>6. CASE ToolPutBack
  BY <1>6 DEF ToolPutBack, Added, Less, More, watchVars
<1>7. ASSUME NEW a \in Addrs, ReportDead(a) PROVE LiveInv'
  BY <1>7 DEF ReportDead, RemoveAddr, watchVars
<1>8. ASSUME NEW a \in Addrs, CallerTakes(a) PROVE LiveInv'
  BY <1>8 DEF CallerTakes, CheckOut, Less, More, watchVars
<1>9. ASSUME NEW a \in Addrs, CallerReturns(a) PROVE LiveInv'
  BY <1>9 DEF CallerReturns, InCallers, GiveBack, Dismiss, Less, More, watchVars
<1>10. ASSUME NEW a \in Addrs, Import(a) PROVE LiveInv'
  BY <1>10 DEF Import, Admit, Less, More, watchVars
<1> QED
  BY <1>1, <1>2, <1>3, <1>4, <1>5, <1>6, <1>7, <1>8, <1>9, <1>10
     DEF Watching, Importing, Tools, Calling

(* So every step of the composition keeps it. *)
LEMMA LiveStepPreserves == LiveInv /\ [LiveNext]_liveVars => LiveInv'
<1>1. LiveInv /\ UNCHANGED liveVars => LiveInv'
  BY DEF LiveInv, LiveTypeOK, JobIsProbed, ToolHolds, ScheduledOnce, liveVars, addrVars,
         importVars, recheckVars, watchVars
<1> QED
  BY <1>1, RecheckPreserves, OthersPreserve DEF LiveNext

(* Whatever the watcher, importer, tools and callers do to the pool, the       *)
(* re-check loop keeps every address it tracks on its schedule exactly once. *)
THEOREM ScheduleIsSound == LiveSpec => []ScheduledOnce
<1>1. LiveInv => ScheduledOnce
  BY DEF LiveInv
<1> QED
  BY LiveInitEstablishes, LiveStepPreserves, <1>1, PTL DEF LiveSpec

(* No task but a put and the importer ever doubles an address: add, the      *)
(* re-check, the watcher and get_proxy are deduplicated against each other.  *)
THEOREM AddsAreDeduplicated == LiveSpec => AddNeverDuplicates
<1> DEFINE Doubles(a) == pooled'[a] > 1 /\ pooled'[a] > pooled[a]
<1>1. ASSUME LiveInv, [LiveNext]_liveVars, NEW a \in Addrs, Doubles(a)
      PROVE  GiveBack(a) \/ Import(a)
  <2> USE LiveAssumption DEF LiveInv, LiveTypeOK
  <2>1. pooled' # pooled
    BY <1>1
  <2>2. CASE Rechecking
    BY <2>2, <2>1, <1>1
       DEF Rechecking, Enroll, Rewake, Pop, ProbePasses, ProbeFails, ShutdownRecheck,
           StopRecheck, AddAddr, Added, More, RemoveAddr, addrVars, JobIsProbed
  <2>3. CASE Watching
    BY <2>3, <2>1, <1>1
       DEF Watching, Write, Reload, DropOne, JoinOne, AddAddr, Added, More, RemoveAddr, addrVars
  <2>4. CASE Tools
    BY <2>4, <2>1, <1>1
       DEF Tools, ToolGet, ToolPutBack, ReportDead, CheckOut, Added, More, Less, RemoveAddr
  <2>5. CASE Calling
    <3>1. PICK b \in Addrs : CallerTakes(b) \/ CallerReturns(b)
      BY <2>5 DEF Calling
    <3>2. CASE CallerTakes(b)
      BY <3>2, <1>1 DEF CallerTakes, CheckOut, Less
    <3>3. CASE CallerReturns(b)
      BY <3>3, <1>1, <2>1 DEF CallerReturns, GiveBack, Dismiss, More, Less
    <3> QED BY <3>1, <3>2, <3>3
  <2>6. CASE Importing
    <3>1. PICK b \in Addrs : Import(b)
      BY <2>6 DEF Importing
    <3>2. pooled' = [pooled EXCEPT ![b] = @ + 1]
      BY <3>1 DEF Import, Admit, More
    <3>3. a = b
      BY <1>1, <3>2
    <3> QED BY <3>1, <3>3
  <2> QED
    BY <1>1, <2>1, <2>2, <2>3, <2>4, <2>5, <2>6 DEF LiveNext, liveVars, addrVars
<1>2. LiveInv /\ [LiveNext]_liveVars
      => [\A a \in Addrs :
            pooled'[a] > 1 /\ pooled'[a] > pooled[a] => GiveBack(a) \/ Import(a)]_liveVars
  BY <1>1
<1> QED
  BY LiveInitEstablishes, LiveStepPreserves, <1>2, PTL DEF LiveSpec, AddNeverDuplicates

(***************************************************************************)
(* The tasks change the pool by the operations the pool offers.            *)
(***************************************************************************)

(* get_proxy's add of the proxy it holds is a return, or, when the address   *)
(* was pooled again meanwhile, the loss of the value it holds.               *)
LEMMA PutBackIsReturn ==
  ASSUME LiveInv, ToolPutBack
  PROVE  AddrNext
<1>1. tool \in Addrs /\ held[tool] > 0
  BY DEF ToolPutBack, LiveInv, LiveTypeOK, ToolHolds
<1>2. held' = Less(held, tool) /\ pooled' = Added(pooled, tool)
  BY DEF ToolPutBack
<1>3. CASE pooled[tool] > 0
  <2>1. Dismiss(tool)
    BY <1>1, <1>2, <1>3 DEF Dismiss, Added
  <2> QED BY <1>1, <2>1 DEF AddrNext
<1>4. CASE ~(pooled[tool] > 0)
  <2>1. GiveBack(tool)
    BY <1>1, <1>2, <1>4 DEF GiveBack, Added
  <2> QED BY <1>1, <2>1 DEF AddrNext
<1> QED BY <1>3, <1>4

LEMMA LiveStepByAddress == LiveInv /\ [LiveNext]_liveVars => [AddrNext]_addrVars
<1> SUFFICES ASSUME LiveInv, [LiveNext]_liveVars PROVE AddrNext \/ UNCHANGED addrVars
  OBVIOUS
<1>1. CASE Watching
  <2>1. ASSUME NEW a \in Addrs, DropOne(a) \/ JoinOne(a) PROVE AddrNext
    BY <2>1 DEF DropOne, JoinOne, AddrNext
  <2> QED BY <1>1, <2>1 DEF Watching, Write, Reload
<1>2. CASE Rechecking
  <2>1. ASSUME ProbePasses \/ ProbeFails PROVE AddrNext
    <3>1. job \in Addrs
      BY <2>1 DEF ProbePasses, ProbeFails, LiveInv, LiveTypeOK, JobIsProbed
    <3> QED BY <2>1, <3>1 DEF ProbePasses, ProbeFails, AddrNext
  <2> QED BY <1>2, <2>1 DEF Rechecking, Enroll, Rewake, ShutdownRecheck, StopRecheck, Pop
<1>3. CASE Tools
  <2>1. ASSUME NEW a \in Addrs, ToolGet(a) \/ ReportDead(a) PROVE AddrNext
    BY <2>1 DEF ToolGet, ReportDead, AddrNext
  <2> QED BY <1>3, <2>1, PutBackIsReturn DEF Tools
<1>4. CASE Calling
  BY <1>4 DEF Calling, CallerTakes, CallerReturns, AddrNext
<1>5. CASE Importing
  BY <1>5 DEF Importing, Import, AddrNext
<1> QED BY <1>1, <1>2, <1>3, <1>4, <1>5 DEF LiveNext, liveVars, addrVars

(* The re-check loop, watcher, importer, tools and callers change the pool   *)
(* only by what Pool is proved to offer (PoolProofs, PoolImplementsAddrPool):*)
(* a probe always names an address, and get_proxy gives back only what it    *)
(* checked out, even after a report_dead or a reload of the same address.    *)
THEOREM LiveTasksUseThePool == LiveSpec => AddrSpec
<1>1. LiveInit => AddrInit
  BY LiveAssumption DEF LiveInit, AddrInit, Zero
<1> QED BY <1>1, LiveInitEstablishes, LiveStepPreserves, LiveStepByAddress, PTL
        DEF LiveSpec, AddrSpec

=============================================================================
