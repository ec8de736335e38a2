---------------------------- MODULE CheckStream ----------------------------
(***************************************************************************)
(* The check pipeline of src/broker.rs, check_stream, shared by            *)
(* Broker::find and Broker::check, with the ProxyStream it feeds: a source *)
(* of proxies, a loop that spawns one check per proxy under a semaphore, a *)
(* limit counted by an atomic, a bounded channel, and a token cancelled by *)
(* the limit or by the drop of the stream.                                 *)
(*                                                                         *)
(* A check task is cut where other tasks can interleave:                   *)
(*   checking -> recorded -> sending -> (cancelling) -> done               *)
(*       `-> done (aborted)    `-> cancelling -> done                      *)
(* The checker itself is its verdict: dead, filtered (it works, and the    *)
(* capability filter drops it) or passes.                                  *)
(***************************************************************************)
EXTENDS Integers, FiniteSets

CONSTANTS
  Items,    \* the proxies the source may yield
  MaxConn,  \* max_conn
  Limit,    \* limit: a number, or NoLimit
  NoLimit,
  Capacity, \* CHANNEL_CAPACITY (256 in the code)
  Nobody    \* the loop holds no proxy

ASSUME CheckStreamAssumption ==
  /\ IsFiniteSet(Items)
  /\ MaxConn \in Nat
  /\ NoLimit \notin Int
  /\ Limit \in Nat \cup {NoLimit}
  /\ Capacity \in Nat \ {0}
  /\ Nobody \notin Items

VARIABLES
  source,    \* what the source has not yielded
  loop,      \* where the spawning loop is
  item,      \* the proxy it has pulled
  free,      \* permits of the semaphore
  task,      \* where each check task is
  verdict,   \* what the checker said of each proxy
  slot,      \* the n each task drew from sent; -1 for none
  sent,      \* the AtomicUsize
  cancelled, \* the CancellationToken
  open,      \* the ProxyStream, and with it the receiver, is alive
  channel,   \* the proxies in the mpsc channel
  received,  \* the proxies the consumer has taken
  recorded,  \* the proxies in the stats and given to the observer
  aborted    \* the proxies whose check the token cut short

loopVars == <<source, loop, item>>
taskVars == <<task, verdict, slot, recorded, aborted>>
pipeVars == <<channel, received, open>>
csVars   == <<loopVars, taskVars, pipeVars, free, sent, cancelled>>

NoSlot == -1

Init ==
  /\ source = Items
  /\ loop = "pull"
  /\ item = Nobody
  /\ free = MaxConn
  /\ task = [i \in Items |-> "none"]
  /\ verdict = [i \in Items |-> "unknown"]
  /\ slot = [i \in Items |-> NoSlot]
  /\ sent = 0
  /\ cancelled = FALSE
  /\ open = TRUE
  /\ channel = {}
  /\ received = {}
  /\ recorded = {}
  /\ aborted = {}

(* is_limit_reached, of a value of the counter. *)
Reached(n) == Limit # NoLimit /\ n >= Limit

-----------------------------------------------------------------------------
(* The loop.  Token and counter only grow, so reading both at once finds     *)
(* what the code's two reads find.                                           *)

PullOne(i) ==
  /\ loop = "pull"
  /\ i \in source
  /\ source' = source \ {i}
  /\ \/ /\ cancelled \/ Reached(sent)
        /\ loop' = "drain"
        /\ UNCHANGED item
     \/ /\ ~cancelled /\ ~Reached(sent)
        /\ loop' = "permit"
        /\ item' = i
  /\ UNCHANGED <<taskVars, pipeVars, free, sent, cancelled>>

Pull == \E i \in source : PullOne(i)

(* The source may end before it has yielded every proxy of Items. *)
SourceEnds ==
  /\ loop = "pull"
  /\ loop' = "drain"
  /\ UNCHANGED <<source, item, taskVars, pipeVars, free, sent, cancelled>>

(* The permit is acquired before the task is spawned. *)
SpawnCheck ==
  /\ loop = "permit"
  /\ free > 0
  /\ free' = free - 1
  /\ task' = [task EXCEPT ![item] = "checking"]
  /\ loop' = "pull"
  /\ item' = Nobody
  /\ UNCHANGED <<source, verdict, slot, recorded, aborted, pipeVars, sent, cancelled>>

DrainAtOnce ==
  /\ loop = "drain"
  /\ loop' = "ended"
  /\ UNCHANGED <<source, item, taskVars, pipeVars, free, sent, cancelled>>

(* tracker.close, tracker.wait; the return drops tx and ends the stream. *)
Drain ==
  /\ loop = "drain"
  /\ \A i \in Items : task[i] \in {"none", "done"}
  /\ loop' = "ended"
  /\ UNCHANGED <<source, item, taskVars, pipeVars, free, sent, cancelled>>

-----------------------------------------------------------------------------
(* A check task; its permit is freed when it is done. *)

At(i, here) == task[i] = here

DoneKeepsPermit(i) ==
  /\ task' = [task EXCEPT ![i] = "done"]
  /\ UNCHANGED free

Done(i) ==
  /\ task' = [task EXCEPT ![i] = "done"]
  /\ free' = free + 1

AbortAnywhere(i) ==
  /\ task[i] \in {"checking", "recorded", "sending"}
  /\ cancelled
  /\ aborted' = aborted \cup {i}
  /\ Done(i)
  /\ UNCHANGED <<loopVars, verdict, slot, recorded, pipeVars, sent, cancelled>>

(* The cancelled branch of select!. *)
Abort(i) ==
  /\ At(i, "checking")
  /\ cancelled
  /\ aborted' = aborted \cup {i}
  /\ Done(i)
  /\ UNCHANGED <<loopVars, verdict, slot, recorded, pipeVars, sent, cancelled>>

CheckUnrecorded(i) ==
  /\ At(i, "checking")
  /\ \E v \in {"dead", "filtered", "passes"} :
       /\ verdict' = [verdict EXCEPT ![i] = v]
       /\ recorded' = IF v = "dead" THEN recorded ELSE recorded \cup {i}
       /\ IF v = "passes"
          THEN task' = [task EXCEPT ![i] = "recorded"] /\ UNCHANGED free
          ELSE Done(i)
  /\ UNCHANGED <<loopVars, slot, aborted, pipeVars, sent, cancelled>>

(* The check completes: stats.record and the observer, whatever the verdict; *)
(* a proxy that is dead or filtered out goes no further.                     *)
Check(i) ==
  /\ At(i, "checking")
  /\ recorded' = recorded \cup {i}
  /\ \/ /\ \E v \in {"dead", "filtered"} : verdict' = [verdict EXCEPT ![i] = v]
        /\ Done(i)
     \/ /\ verdict' = [verdict EXCEPT ![i] = "passes"]
        /\ task' = [task EXCEPT ![i] = "recorded"]
        /\ UNCHANGED free
  /\ UNCHANGED <<loopVars, slot, aborted, pipeVars, sent, cancelled>>

ReserveOneMore(i) ==
  /\ At(i, "recorded")
  /\ sent' = sent + 1
  /\ slot' = [slot EXCEPT ![i] = sent]
  /\ task' = [task EXCEPT ![i] = IF Limit # NoLimit /\ sent > Limit THEN "cancelling" ELSE "sending"]
  /\ UNCHANGED <<loopVars, verdict, recorded, aborted, pipeVars, free, cancelled>>

(* fetch_add: a slot at or past the limit is not sent. *)
Reserve(i) ==
  /\ At(i, "recorded")
  /\ sent' = sent + 1
  /\ slot' = [slot EXCEPT ![i] = sent]
  /\ task' = [task EXCEPT ![i] = IF Reached(sent) THEN "cancelling" ELSE "sending"]
  /\ UNCHANGED <<loopVars, verdict, recorded, aborted, pipeVars, free, cancelled>>

(* tx.send waits while the channel is full and fails once the receiver is    *)
(* gone; whoever sent the last slot cancels.                                 *)
Send(i) ==
  /\ At(i, "sending")
  /\ \/ /\ open
        /\ Cardinality(channel) < Capacity
        /\ channel' = channel \cup {i}
     \/ /\ ~open
        /\ UNCHANGED channel
  /\ \/ /\ Reached(slot[i] + 1)
        /\ task' = [task EXCEPT ![i] = "cancelling"]
        /\ UNCHANGED free
     \/ /\ ~Reached(slot[i] + 1)
        /\ Done(i)
  /\ UNCHANGED <<loopVars, verdict, slot, recorded, aborted, received, open, sent, cancelled>>

Cancel(i) ==
  /\ At(i, "cancelling")
  /\ cancelled' = TRUE
  /\ Done(i)
  /\ UNCHANGED <<loopVars, verdict, slot, recorded, aborted, pipeVars, sent>>

-----------------------------------------------------------------------------
(* The consumer of the ProxyStream. *)

Receive ==
  /\ open
  /\ \E i \in channel :
       /\ channel' = channel \ {i}
       /\ received' = received \cup {i}
  /\ UNCHANGED <<loopVars, taskVars, open, free, sent, cancelled>>

(* The fields of the stream drop in order: the receiver ... *)
DropStream ==
  /\ open
  /\ open' = FALSE
  /\ channel' = {}
  /\ UNCHANGED <<loopVars, taskVars, received, free, sent, cancelled>>

(* ... then the guard of the token. *)
CancelOnDrop ==
  /\ ~open
  /\ ~cancelled
  /\ cancelled' = TRUE
  /\ UNCHANGED <<loopVars, taskVars, pipeVars, free, sent>>

-----------------------------------------------------------------------------
TaskStep(i) ==
  Abort(i) \/ Check(i) \/ Reserve(i) \/ Send(i) \/ Cancel(i)

Ended ==
  /\ loop = "ended"
  /\ channel = {}
  /\ UNCHANGED csVars

Next ==
  \/ Pull \/ SourceEnds \/ SpawnCheck \/ Drain
  \/ \E i \in Items : TaskStep(i)
  \/ Receive \/ DropStream \/ CancelOnDrop
  \/ Ended

Spec == Init /\ [][Next]_csVars

(* Tasks are scheduled, a check is bounded by its timeouts, a consumer that  *)
(* keeps the stream keeps polling it; the source is free to stay pending.    *)
FairTasks ==
  /\ Spec
  /\ WF_csVars(SpawnCheck)
  /\ WF_csVars(Drain)
  /\ \A i \in Items : WF_csVars(TaskStep(i))
  /\ WF_csVars(Receive)
  /\ WF_csVars(CancelOnDrop)

-----------------------------------------------------------------------------
Emitted == channel \cup received

TypeOK ==
  /\ source \subseteq Items
  /\ loop \in {"pull", "permit", "drain", "ended"}
  /\ item \in Items \cup {Nobody}
  /\ free \in Int
  /\ task \in [Items -> {"none", "checking", "recorded", "sending", "cancelling", "done"}]
  /\ verdict \in [Items -> {"unknown", "dead", "filtered", "passes"}]
  /\ slot \in [Items -> Int]
  /\ sent \in Nat
  /\ cancelled \in BOOLEAN
  /\ open \in BOOLEAN
  /\ channel \subseteq Items
  /\ received \subseteq Items
  /\ recorded \subseteq Items
  /\ aborted \subseteq Items

(* However the checks interleave, the stream carries at most limit proxies   *)
(* (the fetch_add that reserves a slot).                                     *)
EmitsWithinLimit == Limit # NoLimit => Cardinality(Emitted) <= Limit

(* The cancellation the limit triggers cuts nothing short that was owed: a   *)
(* stream its consumer kept to the end has carried exactly limit proxies, or *)
(* every passing proxy the source yielded.                                   *)
LimitIsMet ==
  loop = "ended" /\ open =>
    \/ Limit # NoLimit /\ Cardinality(Emitted) = Limit
    \/ \A i \in Items \ source :
         i \in recorded /\ (verdict[i] = "passes" => i \in Emitted)

(* The stats are complete where the ProxyStream docs say to read them: a     *)
(* proxy is recorded before it can be received, and at the end of the stream *)
(* every check that was not aborted has been recorded.                       *)
StatsCover ==
  /\ Emitted \subseteq recorded
  /\ loop = "ended" => \A i \in Items : task[i] # "none" => i \in recorded \cup aborted

(* What the ProxyStream documentation says: the stream ends when the limit   *)
(* is reached.                                                               *)
LimitEndsStream ==
  (Limit # NoLimit /\ Cardinality(received) = Limit) ~> (loop = "ended")

-----------------------------------------------------------------------------
(* The inductive invariant behind EmitsWithinLimit: slots are drawn once,    *)
(* below the counter, and only a slot below the limit is ever sent.          *)

SlotsAreDistinct ==
  /\ \A i \in Items : NoSlot <= slot[i] /\ slot[i] < sent
  /\ \A i, j \in Items : slot[i] # NoSlot /\ slot[i] = slot[j] => i = j

SentBelowLimit ==
  \A i \in Items : task[i] = "sending" \/ i \in Emitted =>
    slot[i] # NoSlot /\ ~Reached(slot[i])

(* A check draws its slot after it is recorded and leaves it alone since. *)
SlotIsFinal ==
  \A i \in Items :
    task[i] \in {"none", "checking", "recorded"} => slot[i] = NoSlot /\ i \notin Emitted

RecordedFirst ==
  \A i \in Items :
    task[i] \in {"recorded", "sending", "cancelling"} \/ i \in Emitted => i \in recorded

(* Each proxy is checked by one task at most. *)
SpawnedOnce ==
  /\ \A i \in source : task[i] = "none"
  /\ loop = "permit" => item \in Items \ source /\ task[item] = "none"

EndedIsDrained == loop = "ended" => \A i \in Items : task[i] \in {"none", "done"}

DoneIsAccounted == \A i \in Items : task[i] = "done" => i \in recorded \cup aborted

StreamInv ==
  /\ TypeOK
  /\ SlotsAreDistinct
  /\ SentBelowLimit
  /\ SlotIsFinal
  /\ RecordedFirst
  /\ SpawnedOnce
  /\ EndedIsDrained
  /\ DoneIsAccounted

=============================================================================
