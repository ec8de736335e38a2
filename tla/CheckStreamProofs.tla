------------------------- MODULE CheckStreamProofs -------------------------
(***************************************************************************)
(* Theorems about CheckStream for every set of proxies, every max_conn,    *)
(* every limit and every channel capacity.                                 *)
(***************************************************************************)
EXTENDS CheckStream, FiniteSetTheorems, TLAPS

(* check_stream starts in the invariant. *)
LEMMA InitEstablishes == Init => StreamInv
<1> SUFFICES ASSUME Init PROVE StreamInv
  OBVIOUS
<1>1. TypeOK
  <2>1. free \in Int /\ sent \in Nat
    BY CheckStreamAssumption DEF Init
  <2>2. slot \in [Items -> Int]
    BY DEF Init, NoSlot
  <2>3. /\ task \in [Items -> {"none", "checking", "recorded", "sending", "cancelling", "done"}]
        /\ verdict \in [Items -> {"unknown", "dead", "filtered", "passes"}]
    BY DEF Init
  <2>4. cancelled \in BOOLEAN /\ open \in BOOLEAN
    BY DEF Init
  <2> QED
    BY <2>1, <2>2, <2>3, <2>4 DEF Init, TypeOK
<1>2. SlotsAreDistinct
  BY DEF Init, SlotsAreDistinct, NoSlot
<1>3. SentBelowLimit /\ SlotIsFinal /\ RecordedFirst
  BY DEF Init, SentBelowLimit, SlotIsFinal, RecordedFirst, Emitted
<1>4. SpawnedOnce /\ EndedIsDrained /\ DoneIsAccounted
  BY DEF Init, SpawnedOnce, EndedIsDrained, DoneIsAccounted
<1> QED
  BY <1>1, <1>2, <1>3, <1>4 DEF StreamInv

(* Every step of the loop, of a check and of the consumer keeps the          *)
(* invariant; one case per action.                                           *)
LEMMA StepPreserves == StreamInv /\ [Next]_csVars => StreamInv'
<1> USE CheckStreamAssumption
<1> SUFFICES ASSUME StreamInv, [Next]_csVars PROVE StreamInv'
  OBVIOUS
<1> USE DEF StreamInv, TypeOK, SlotsAreDistinct, SentBelowLimit, SlotIsFinal, RecordedFirst,
            SpawnedOnce, EndedIsDrained, DoneIsAccounted, Emitted, NoSlot,
            loopVars, taskVars, pipeVars
<1>1. CASE Pull
  BY <1>1 DEF Pull, PullOne, Reached
<1>2. CASE SourceEnds
  BY <1>2 DEF SourceEnds, Reached
<1>3. CASE SpawnCheck
  BY <1>3 DEF SpawnCheck, Reached
<1>4. CASE Drain
  BY <1>4 DEF Drain, Reached
<1>5. ASSUME NEW i \in Items, Abort(i) PROVE StreamInv'
  BY <1>5 DEF Abort, At, Done, Reached
<1>6. ASSUME NEW i \in Items, Check(i) PROVE StreamInv'
  BY <1>6 DEF Check, At, Done, Reached
<1>7. ASSUME NEW i \in Items, Reserve(i) PROVE StreamInv'
  BY <1>7 DEF Reserve, At, Reached
<1>8. ASSUME NEW i \in Items, Send(i) PROVE StreamInv'
  BY <1>8 DEF Send, At, Done, Reached
<1>9. ASSUME NEW i \in Items, Cancel(i) PROVE StreamInv'
  BY <1>9 DEF Cancel, At, Done, Reached
<1>10. CASE Receive
  BY <1>10 DEF Receive, Reached
<1>11. CASE DropStream
  BY <1>11 DEF DropStream, Reached
<1>12. CASE CancelOnDrop
  BY <1>12 DEF CancelOnDrop, Reached
<1>13. CASE UNCHANGED csVars
  BY <1>13 DEF csVars, Reached
<1> QED
  BY <1>1, <1>2, <1>3, <1>4, <1>5, <1>6, <1>7, <1>8, <1>9, <1>10, <1>11, <1>12, <1>13
     DEF Next, TaskStep, Ended

(* The invariant holds in every reachable state. *)
THEOREM Invariance == Spec => []StreamInv
BY InitEstablishes, StepPreserves, PTL DEF Spec

LEMMA EmittedSlots ==
  ASSUME StreamInv, Limit # NoLimit
  PROVE  /\ Limit \in Nat /\ Emitted \subseteq Items
         /\ \A i \in Emitted : slot[i] \in 0..(Limit - 1)
<1>1. Limit \in Nat
  BY CheckStreamAssumption
<1>2. Emitted \subseteq Items
  BY DEF StreamInv, TypeOK, Emitted
<1>3. ASSUME NEW i \in Emitted PROVE slot[i] \in 0..(Limit - 1)
  <2>1. slot[i] \in Int /\ -1 <= slot[i]
    BY <1>2 DEF StreamInv, TypeOK, SlotsAreDistinct, NoSlot
  <2>2. slot[i] # -1 /\ ~(slot[i] >= Limit)
    BY <1>2 DEF StreamInv, SentBelowLimit, Reached, NoSlot
  <2> QED BY <2>1, <2>2, <1>1
<1> QED BY <1>1, <1>2, <1>3

(* Two emitted proxies never share a slot and every slot is below the limit, *)
(* so the slots count the emitted proxies.                                   *)
LEMMA SlotsCountEmitted == StreamInv => EmitsWithinLimit
<1> SUFFICES ASSUME StreamInv, Limit # NoLimit
             PROVE  Cardinality(Emitted) <= Limit
  BY DEF EmitsWithinLimit
<1> DEFINE f == [i \in Emitted |-> slot[i]]
<1>1. /\ Limit \in Nat /\ Emitted \subseteq Items
      /\ \A i \in Emitted : slot[i] \in 0..(Limit - 1)
  BY EmittedSlots
<1>2. f \in Injection(Emitted, 0..(Limit - 1))
  <2>1. \A i, j \in Emitted : slot[i] = slot[j] => i = j
    BY <1>1 DEF StreamInv, SlotsAreDistinct, NoSlot
  <2> QED BY <1>1, <2>1 DEF Injection, IsInjective
<1>3. IsFiniteSet(0..(Limit - 1)) /\ Cardinality(0..(Limit - 1)) = Limit
  BY <1>1, FS_Interval
<1> QED
  BY <1>2, <1>3, FS_Injection

(* check_stream never emits more than limit proxies, whatever the schedule.  *)
THEOREM LimitHolds == Spec => []EmitsWithinLimit
BY Invariance, SlotsCountEmitted, PTL

(* A proxy is in the stats before the consumer can see it, and at the end of *)
(* the stream every check that was not aborted is in them.                   *)
THEOREM StatsAreComplete == Spec => []StatsCover
<1>1. StreamInv => StatsCover
  BY DEF StreamInv, StatsCover, TypeOK, RecordedFirst, EndedIsDrained, DoneIsAccounted, Emitted
<1> QED
  BY Invariance, <1>1, PTL

-----------------------------------------------------------------------------
(* The limit cuts nothing short that was owed.  Slots are drawn without a    *)
(* gap, ...                                                                  *)
SlotsAreDrawn == \A n \in 0..(sent - 1) : \E i \in Items : slot[i] = n

(* ... as long as the stream is kept it is the limit alone that cancels, ... *)
OnlyLimitCancels ==
  open /\ ~Reached(sent) =>
    ~cancelled /\ aborted = {} /\ \A i \in Items : task[i] # "cancelling"

(* ... what was pulled until then is checked, ... *)
PulledIsChecked ==
  open /\ ~Reached(sent) =>
    \A i \in Items \ source : task[i] # "none" \/ (loop = "permit" /\ i = item)

(* ... a slot below the limit, once past the send, is in the stream, ... *)
SentArrives ==
  open => \A i \in Items :
    slot[i] # NoSlot /\ ~Reached(slot[i]) => task[i] = "sending" \/ i \in Emitted

(* ... and a check that passed draws a slot. *)
VerdictFirst ==
  \A i \in Items :
    /\ task[i] \in {"none", "checking"} => verdict[i] = "unknown" /\ i \notin recorded
    /\ verdict[i] = "passes" => task[i] = "recorded" \/ slot[i] # NoSlot

LimitInv ==
  /\ SlotsAreDrawn /\ OnlyLimitCancels /\ PulledIsChecked /\ SentArrives /\ VerdictFirst

LEMMA ReachedGrows ==
  ASSUME NEW m \in Int, NEW n \in Int, m <= n, Reached(m)
  PROVE  Reached(n)
  BY CheckStreamAssumption DEF Reached

LEMMA InitLimit == ASSUME Init PROVE LimitInv
<1>1. SlotsAreDrawn
  BY DEF Init, SlotsAreDrawn
<1>2. OnlyLimitCancels /\ PulledIsChecked
  BY DEF Init, OnlyLimitCancels, PulledIsChecked
<1>3. SentArrives /\ VerdictFirst
  BY DEF Init, SentArrives, VerdictFirst
<1> QED BY <1>1, <1>2, <1>3 DEF LimitInv

(* A step of the loop or of the consumer. *)
LEMMA LoopKeepsLimit ==
  ASSUME StreamInv, LimitInv,
         Pull \/ SourceEnds \/ SpawnCheck \/ Drain \/ Receive \/ DropStream \/ CancelOnDrop
  PROVE  LimitInv'
<1> USE DEF loopVars, taskVars, pipeVars
<1>1. UNCHANGED <<verdict, slot, recorded, aborted, sent>>
  BY DEF Pull, PullOne, SourceEnds, SpawnCheck, Drain, Receive, DropStream, CancelOnDrop
<1>2. SlotsAreDrawn'
  BY <1>1 DEF LimitInv, SlotsAreDrawn
<1>3. /\ task \in [Items -> {"none", "checking", "recorded", "sending", "cancelling", "done"}]
      /\ loop = "permit" => item \in Items /\ task[item] = "none"
      /\ source \subseteq Items
  BY DEF StreamInv, TypeOK, SpawnedOnce
<1>4. open' => open /\ Emitted' = Emitted
  BY DEF Pull, PullOne, SourceEnds, SpawnCheck, Drain, Receive, DropStream, CancelOnDrop, Emitted
<1>5. \/ UNCHANGED task
      \/ /\ loop = "permit" /\ task' = [task EXCEPT ![item] = "checking"]
         /\ loop' = "pull" /\ UNCHANGED source
  BY DEF Pull, PullOne, SourceEnds, SpawnCheck, Drain, Receive, DropStream, CancelOnDrop
<1>6. SentArrives' /\ VerdictFirst'
  BY <1>1, <1>3, <1>4, <1>5 DEF LimitInv, SentArrives, VerdictFirst
<1>7. OnlyLimitCancels'
  <2>1. open' => cancelled' = cancelled
    BY DEF Pull, PullOne, SourceEnds, SpawnCheck, Drain, Receive, DropStream, CancelOnDrop
  <2> QED BY <1>1, <1>3, <1>4, <1>5, <2>1 DEF LimitInv, OnlyLimitCancels, Reached
<1>8. PulledIsChecked'
  <2> SUFFICES ASSUME open', ~Reached(sent), NEW i \in Items \ source'
               PROVE  task'[i] # "none" \/ (loop' = "permit" /\ i = item')
    BY <1>1 DEF PulledIsChecked, Reached
  <2>1. ~cancelled /\ \A j \in Items \ source : task[j] # "none" \/ (loop = "permit" /\ j = item)
    BY <1>4 DEF LimitInv, OnlyLimitCancels, PulledIsChecked
  <2>2. ASSUME Pull PROVE task'[i] # "none" \/ (loop' = "permit" /\ i = item')
    BY <2>1, <2>2 DEF Pull, PullOne
  <2>3. ASSUME SpawnCheck PROVE task'[i] # "none" \/ (loop' = "permit" /\ i = item')
    BY <1>3, <2>1, <2>3 DEF SpawnCheck
  <2>4. ASSUME SourceEnds \/ Drain PROVE task'[i] # "none" \/ (loop' = "permit" /\ i = item')
    BY <2>1, <2>4 DEF SourceEnds, Drain
  <2>5. ASSUME Receive \/ DropStream \/ CancelOnDrop
        PROVE  task'[i] # "none" \/ (loop' = "permit" /\ i = item')
    BY <2>1, <2>5 DEF Receive, DropStream, CancelOnDrop
  <2> QED BY <2>2, <2>3, <2>4, <2>5
<1> QED BY <1>2, <1>6, <1>7, <1>8 DEF LimitInv

(* A step of a check. *)
LEMMA TaskKeepsLimit ==
  ASSUME StreamInv, LimitInv, NEW i \in Items, TaskStep(i)
  PROVE  LimitInv'
<1> USE DEF loopVars, taskVars, pipeVars
<1>0. /\ task \in [Items -> {"none", "checking", "recorded", "sending", "cancelling", "done"}]
      /\ verdict \in [Items -> {"unknown", "dead", "filtered", "passes"}]
      /\ slot \in [Items -> Int] /\ sent \in Nat
      /\ channel \subseteq Items
      /\ \A j \in Items : NoSlot <= slot[j] /\ slot[j] < sent
      /\ task[i] \in {"none", "checking", "recorded"} => slot[i] = NoSlot
  BY DEF StreamInv, TypeOK, SlotsAreDistinct, SlotIsFinal
<1>1. /\ UNCHANGED <<source, loop, item, received, open>> /\ task[i] # "none"
      /\ task' \in [Items -> {"none", "checking", "recorded", "sending", "cancelling", "done"}]
      /\ task'[i] # "none" /\ \A j \in Items \ {i} : task'[j] = task[j]
  BY <1>0 DEF TaskStep, Abort, Check, Reserve, Send, Cancel, At, Done
<1>2. /\ sent' \in Nat /\ sent <= sent'
      /\ ~Reached(sent') => ~Reached(sent)
  <2>1. sent' = sent \/ sent' = sent + 1
    BY DEF TaskStep, Abort, Check, Reserve, Send, Cancel
  <2>2. sent' \in Nat /\ sent <= sent'
    BY <1>0, <2>1
  <2> QED BY <1>0, <2>2, ReachedGrows
<1>3. PulledIsChecked'
  <2> SUFFICES ASSUME open', ~Reached(sent'), NEW j \in Items \ source'
               PROVE  task'[j] # "none" \/ (loop' = "permit" /\ j = item')
    BY DEF PulledIsChecked, Reached
  <2> QED BY <1>1, <1>2 DEF LimitInv, PulledIsChecked
<1>4. SlotsAreDrawn'
  <2>1. ASSUME Reserve(i) PROVE SlotsAreDrawn'
    <3>1. sent' = sent + 1 /\ slot' = [slot EXCEPT ![i] = sent] /\ slot[i] = NoSlot
      BY <1>0, <2>1 DEF Reserve, At
    <3> SUFFICES ASSUME NEW n \in 0..(sent' - 1) PROVE \E j \in Items : slot'[j] = n
      BY DEF SlotsAreDrawn
    <3>2. CASE n = sent
      BY <1>0, <3>1, <3>2
    <3>3. CASE n # sent
      <4>1. n \in 0..(sent - 1)
        BY <1>0, <3>1, <3>3
      <4>2. PICK j \in Items : slot[j] = n
        BY <4>1 DEF LimitInv, SlotsAreDrawn
      <4>3. j # i
        BY <3>1, <4>1, <4>2 DEF NoSlot
      <4> QED BY <1>0, <3>1, <4>2, <4>3
    <3> QED BY <3>2, <3>3
  <2>2. ASSUME UNCHANGED <<sent, slot>> PROVE SlotsAreDrawn'
    BY <2>2 DEF LimitInv, SlotsAreDrawn
  <2> QED BY <2>1, <2>2 DEF TaskStep, Abort, Check, Send, Cancel
<1>5. VerdictFirst'
  <2>1. ASSUME Check(i) PROVE VerdictFirst'
    <3>1. /\ recorded' = recorded \cup {i} /\ UNCHANGED slot
          /\ task'[i] \in {"recorded", "done"}
          /\ verdict'[i] = "passes" => task'[i] = "recorded"
          /\ \A j \in Items \ {i} : verdict'[j] = verdict[j]
      BY <1>0, <2>1 DEF Check, Done
    <3> QED BY <1>1, <3>1 DEF LimitInv, VerdictFirst
  <2>2. ASSUME Reserve(i) PROVE VerdictFirst'
    <3>1. /\ UNCHANGED <<verdict, recorded>> /\ slot'[i] # NoSlot
          /\ task'[i] \in {"cancelling", "sending"}
          /\ \A j \in Items \ {i} : slot'[j] = slot[j]
      BY <1>0, <2>2 DEF Reserve, NoSlot
    <3> QED BY <1>1, <3>1 DEF LimitInv, VerdictFirst
  <2>3. ASSUME Abort(i) PROVE VerdictFirst'
    <3>1. /\ UNCHANGED <<verdict, recorded, slot>> /\ task'[i] = "done" /\ task[i] = "checking"
      BY <1>0, <2>3 DEF Abort, At, Done
    <3> QED BY <1>1, <3>1 DEF LimitInv, VerdictFirst
  <2>4. ASSUME Send(i) \/ Cancel(i) PROVE VerdictFirst'
    <3>1. /\ UNCHANGED <<verdict, recorded, slot>> /\ task'[i] \in {"cancelling", "done"}
          /\ task[i] \in {"sending", "cancelling"}
      BY <1>0, <2>4 DEF Send, Cancel, At, Done
    <3> QED BY <1>1, <3>1 DEF LimitInv, VerdictFirst
  <2> QED BY <2>1, <2>2, <2>3, <2>4 DEF TaskStep
<1>6. OnlyLimitCancels'
  <2> SUFFICES ASSUME open', ~Reached(sent')
               PROVE  ~cancelled' /\ aborted' = {} /\ \A j \in Items : task'[j] # "cancelling"
    BY DEF OnlyLimitCancels, Reached
  <2>1. ~cancelled /\ aborted = {} /\ \A j \in Items : task[j] # "cancelling"
    BY <1>1, <1>2 DEF LimitInv, OnlyLimitCancels
  <2>2. UNCHANGED <<cancelled, aborted>>
    BY <2>1 DEF TaskStep, Abort, Check, Reserve, Send, Cancel, At
  <2>3. ASSUME Reserve(i) PROVE task'[i] # "cancelling"
    <3>1. ~Reached(sent)
      BY <1>2
    <3> QED BY <1>0, <2>3, <3>1 DEF Reserve
  <2>4. ASSUME Send(i) PROVE task'[i] # "cancelling"
    <3>1. slot[i] + 1 \in Int /\ slot[i] + 1 <= sent /\ sent \in Int
      BY <1>0
    <3>2. ~Reached(slot[i] + 1)
      BY <1>2, <3>1, ReachedGrows
    <3> QED BY <1>0, <2>4, <3>2 DEF Send, Done
  <2>5. ASSUME Abort(i) \/ Check(i) \/ Cancel(i) PROVE task'[i] # "cancelling"
    BY <1>0, <2>5 DEF Abort, Check, Cancel, Done
  <2> QED BY <1>1, <2>1, <2>2, <2>3, <2>4, <2>5 DEF TaskStep
<1>7. SentArrives'
  <2> SUFFICES ASSUME open', NEW j \in Items, slot'[j] # NoSlot, ~Reached(slot'[j])
               PROVE  task'[j] = "sending" \/ j \in Emitted'
    BY DEF SentArrives, Reached
  <2>1. slot[j] # NoSlot /\ ~Reached(slot[j]) => task[j] = "sending" \/ j \in Emitted
    BY <1>1 DEF LimitInv, SentArrives
  <2>2. Emitted \subseteq Emitted'
    BY DEF TaskStep, Abort, Check, Reserve, Send, Cancel, Emitted
  <2>3. ASSUME j # i PROVE task'[j] = "sending" \/ j \in Emitted'
    <3>1. slot'[j] = slot[j]
      BY <1>0, <2>3 DEF TaskStep, Abort, Check, Reserve, Send, Cancel
    <3> QED BY <1>1, <2>1, <2>2, <2>3, <3>1
  <2>4. ASSUME j = i PROVE task'[j] = "sending" \/ j \in Emitted'
    <3>1. ASSUME Reserve(i) PROVE task'[i] = "sending"
      <4>1. slot'[i] = sent
        BY <1>0, <3>1 DEF Reserve
      <4> QED BY <1>0, <2>4, <3>1, <4>1 DEF Reserve
    <3>2. ASSUME Send(i) PROVE i \in Emitted'
      BY <1>1, <3>2 DEF Send, Emitted
    <3>3. ASSUME Abort(i) \/ Check(i) PROVE FALSE
      <4>1. slot' = slot /\ task[i] = "checking"
        BY <3>3 DEF Abort, Check, At
      <4> QED BY <1>0, <2>4, <4>1
    <3>4. ASSUME Cancel(i) PROVE i \in Emitted'
      <4>1. slot' = slot /\ task[i] = "cancelling"
        BY <3>4 DEF Cancel, At
      <4> QED BY <2>1, <2>2, <2>4, <4>1
    <3> QED BY <2>4, <3>1, <3>2, <3>3, <3>4 DEF TaskStep
  <2> QED BY <2>3, <2>4
<1> QED BY <1>3, <1>4, <1>5, <1>6, <1>7 DEF LimitInv

LEMMA NextKeepsLimit ==
  ASSUME StreamInv, LimitInv, [Next]_csVars
  PROVE  LimitInv'
<1>1. ASSUME UNCHANGED csVars PROVE LimitInv'
  BY <1>1 DEF csVars, loopVars, taskVars, pipeVars, LimitInv, SlotsAreDrawn, OnlyLimitCancels,
              PulledIsChecked, SentArrives, VerdictFirst, Emitted, Reached
<1> QED BY <1>1, LoopKeepsLimit, TaskKeepsLimit DEF Next, Ended

(* A stream kept to its end, below its limit, has checked all it pulled. *)
LEMMA EndedIsRecorded ==
  ASSUME StreamInv, LimitInv, loop = "ended", open, ~Reached(sent)
  PROVE  recorded = Items \ source
<1>1. recorded \subseteq Items /\ source \subseteq Items
  BY DEF StreamInv, TypeOK
<1>2. ASSUME NEW i \in recorded PROVE i \notin source
  BY <1>1, <1>2 DEF StreamInv, SpawnedOnce, LimitInv, VerdictFirst
<1>3. ASSUME NEW i \in Items \ source PROVE i \in recorded
  <2>1. task[i] = "done" /\ aborted = {}
    BY DEF StreamInv, EndedIsDrained, LimitInv, PulledIsChecked, OnlyLimitCancels
  <2> QED BY <2>1 DEF StreamInv, DoneIsAccounted
<1> QED BY <1>1, <1>2, <1>3

(* At its end the slots below the limit are all drawn and all in the stream. *)
LEMMA SlotsAreSpent == ASSUME StreamInv, LimitInv PROVE LimitIsMet
<1> SUFFICES ASSUME loop = "ended", open
             PROVE  \/ Limit # NoLimit /\ Cardinality(Emitted) = Limit
                    \/ \A i \in Items \ source :
                         i \in recorded /\ (verdict[i] = "passes" => i \in Emitted)
  BY DEF LimitIsMet
<1>0. /\ slot \in [Items -> Int] /\ sent \in Nat
      /\ \A i \in Items : slot[i] < sent /\ task[i] \in {"none", "done"}
  BY DEF StreamInv, TypeOK, SlotsAreDistinct, EndedIsDrained
<1>1. CASE Reached(sent)
  <2>1. Limit # NoLimit /\ sent >= Limit
    BY <1>1 DEF Reached
  <2>2. /\ Limit \in Nat /\ Emitted \subseteq Items
        /\ \A i \in Emitted : slot[i] \in 0..(Limit - 1)
    BY <2>1, EmittedSlots
  <2> DEFINE f == [i \in Emitted |-> slot[i]]
  <2>3. ASSUME NEW n \in 0..(Limit - 1) PROVE \E i \in Emitted : slot[i] = n
    <3>1. n \in 0..(sent - 1) /\ n # NoSlot
      BY <1>0, <2>1, <2>2 DEF NoSlot
    <3>2. PICK i \in Items : slot[i] = n
      BY <3>1 DEF LimitInv, SlotsAreDrawn
    <3>3. ~Reached(n)
      BY <2>2 DEF Reached
    <3>4. i \in Emitted
      BY <1>0, <3>1, <3>2, <3>3 DEF LimitInv, SentArrives
    <3> QED BY <3>2, <3>4
  <2>4. f \in Surjection(Emitted, 0..(Limit - 1))
    BY <2>2, <2>3 DEF Surjection
  <2>5. IsFiniteSet(Emitted) /\ Cardinality(Emitted) \in Nat
    BY <2>2, CheckStreamAssumption, FS_Subset, FS_CardinalityType
  <2>6. Cardinality(0..(Limit - 1)) = Limit
    BY <2>2, FS_Interval
  <2> HIDE DEF f
  <2>7. Limit <= Cardinality(Emitted)
    BY <2>4, <2>5, <2>6, FS_Surjection
  <2>8. Cardinality(Emitted) <= Limit
    BY <2>1, SlotsCountEmitted DEF EmitsWithinLimit
  <2> QED BY <2>1, <2>2, <2>5, <2>7, <2>8
<1>2. CASE ~Reached(sent)
  <2>1. recorded = Items \ source
    BY <1>2, EndedIsRecorded
  <2>2. ASSUME NEW i \in Items \ source, verdict[i] = "passes" PROVE i \in Emitted
    <3>1. slot[i] # NoSlot
      BY <1>0, <2>2 DEF LimitInv, VerdictFirst
    <3>2. ~Reached(slot[i])
      BY <1>0, <1>2, ReachedGrows
    <3> QED BY <1>0, <3>1, <3>2 DEF LimitInv, SentArrives
  <2> QED BY <2>1, <2>2
<1> QED BY <1>1, <1>2

LEMMA LimitInvariance == Spec => []LimitInv
  BY Invariance, InitLimit, NextKeepsLimit, PTL DEF Spec

(* A stream kept to its end carries exactly limit proxies, or every passing  *)
(* proxy its source yielded: the cancellation of check_stream at the limit   *)
(* and the abort of the checks under way lose nothing that was owed.         *)
THEOREM NothingOwedIsLost == Spec => []LimitIsMet
  BY Invariance, LimitInvariance, SlotsAreSpent, PTL

=============================================================================
