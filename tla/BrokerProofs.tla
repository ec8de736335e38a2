---------------------------- MODULE BrokerProofs ----------------------------
(***************************************************************************)
(* What find, check and grab promise whatever the providers publish, in    *)
(* whatever order their pages arrive: the pipeline they run is the one     *)
(* check_stream is proved about, no address is checked twice, and a stream *)
(* kept to its end has its limit or everything there was.                  *)
(***************************************************************************)
EXTENDS Broker, CheckStreamProofs

Due == {i \in seen : CountryOk(i)}

SourceTyped == batch \subseteq Items /\ seen \subseteq Items

(* What find and check have looked at and want is what the pipeline has had. *)
Yielded == kind # "grab" => Due = Items \ source

(* Below the limit the loop of a stream that is kept ends with its source. *)
SourceIsSpent ==
  kind # "grab" /\ loop \in {"drain", "ended"} /\ open /\ ~Reached(sent) => NothingLeft

(* grab_task counts what it sends, stops at the limit, and sends what it     *)
(* has looked at and wants.                                                  *)
GrabCounts ==
  /\ given \in Nat /\ Grabbed \subseteq Items
  /\ Limit # NoLimit => given <= Limit
  /\ listening => given = Cardinality(Grabbed)
  /\ grab = "send" => picked \in Items /\ ~Reached(given) /\ (listening => picked \notin Grabbed)

GrabSends ==
  kind = "grab" /\ listening =>
    /\ grab = "send" => Due = Grabbed \cup {picked}
    /\ grab # "send" => Due = Grabbed
    /\ grab = "ended" /\ ~Reached(given) => NothingLeft

GatherInv ==
  SourceTyped /\ Yielded /\ SourceIsSpent /\ GrabCounts /\ GrabSends

-----------------------------------------------------------------------------
(* What the requests do to the pipeline is a step of the pipeline. *)
LEMMA BrokerStepRefines == ASSUME [BrokerNext]_brokerVars PROVE [Next]_csVars
<1>1. ASSUME Gathering PROVE [Next]_csVars
  <2>1. ASSUME NEW p, StartFetch(p) \/ FetchEnds(p) PROVE UNCHANGED csVars
    BY <2>1 DEF StartFetch, FetchEnds
  <2>2. ASSUME NEW i, Skip(i) PROVE UNCHANGED csVars
    BY <2>2 DEF Skip
  <2>3. ASSUME NEW i, Yield(i) PROVE Next
    <3>1. PullOne(i) /\ i \in source
      BY <2>3 DEF Yield, PullOne
    <3> QED BY <3>1 DEF Pull, Next
  <2>4. ASSUME SourceDone PROVE Next
    BY <2>4 DEF SourceDone, Next
  <2> QED BY <1>1, <2>1, <2>2, <2>3, <2>4 DEF Gathering
<1>2. ASSUME Grabbing \/ GrabReceive \/ GrabDrop PROVE UNCHANGED csVars
  BY <1>2 DEF Grabbing, GrabEnds, GrabNext, GrabSend, GrabReceive, GrabDrop
<1>3. ASSUME Checking PROVE Next
  BY <1>3 DEF Checking, Next
<1>4. ASSUME Over \/ UNCHANGED brokerVars PROVE UNCHANGED csVars
  BY <1>4 DEF Over, brokerVars
<1> QED BY <1>1, <1>2, <1>3, <1>4 DEF BrokerNext

(* find, check and grab drive check_stream as it is meant to be driven.      *)
THEOREM BrokerRunsCheckStream == BrokerSpec => Spec
<1>1. BrokerInit => Init
  BY DEF BrokerInit
<1>2. [BrokerNext]_brokerVars => [Next]_csVars
  BY BrokerStepRefines
<1> QED BY <1>1, <1>2, PTL DEF BrokerSpec, Spec

(* So what is proved of check_stream holds of each request. *)
THEOREM BrokerStreams ==
  BrokerSpec => [](StreamInv /\ EmitsWithinLimit /\ LimitIsMet /\ StatsCover)
  BY BrokerRunsCheckStream, Invariance, LimitHolds, NothingOwedIsLost, StatsAreComplete, PTL

-----------------------------------------------------------------------------
LEMMA InitGather == ASSUME BrokerInit PROVE GatherInv
<1>1. /\ source = Items /\ loop = "pull" /\ seen = {} /\ grab = "pull" /\ given = 0
      /\ queue = {} /\ taken = {}
      /\ batch = IF kind = "check" THEN ParseProxyLines(UserText) ELSE {}
  BY DEF BrokerInit, Init
<1>2. SourceTyped
  BY <1>1, BrokerAssumption DEF SourceTyped
<1>3. Due = {} /\ Grabbed = {} /\ Cardinality({}) = 0
  BY <1>1, FS_EmptySet DEF Due, Grabbed
<1>4. GrabCounts
  BY <1>1, <1>3, CheckStreamAssumption DEF GrabCounts
<1> QED BY <1>1, <1>2, <1>3, <1>4 DEF GatherInv, Yielded, SourceIsSpent, GrabSends

(* Looking at an address adds it to what is due, if it is wanted. *)
LEMMA LookedAt ==
  ASSUME NEW i \in batch, LookAt(i)
  PROVE  /\ Due' = IF Wanted(i) THEN Due \cup {i} ELSE Due
         /\ Wanted(i) => i \notin Due
         /\ SourceTyped => SourceTyped'
  BY DEF LookAt, Wanted, Due, SourceTyped, CountryOk

(* A page that is asked for or arrives, and an address that is dropped. *)
LEMMA FetchSteps ==
  ASSUME GatherInv, NEW p \in Providers, StartFetch(p) \/ FetchEnds(p)
  PROVE  GatherInv'
<1>1. /\ Polled /\ p \in waiting \cup fetching /\ UNCHANGED <<kind, seen, grabVars, csVars>>
      /\ batch' = batch \/ batch' \in {Extract(Pages[p]), {}}
  BY DEF StartFetch, FetchEnds
<1>2. SourceTyped'
  BY <1>1, BrokerAssumption DEF GatherInv, SourceTyped
<1>3. /\ UNCHANGED <<source, loop, open, sent, grab, picked, given, queue, taken, listening>>
      /\ Due' = Due /\ Grabbed' = Grabbed /\ ~NothingLeft
  BY <1>1 DEF csVars, loopVars, pipeVars, grabVars, Due, CountryOk, Grabbed, NothingLeft
<1>4. SourceIsSpent'
  BY <1>1, <1>3 DEF GatherInv, SourceIsSpent, Polled, Reached
<1>5. GrabCounts'
  BY <1>3 DEF GatherInv, GrabCounts, Reached
<1>6. GrabSends' /\ Yielded'
  BY <1>1, <1>3 DEF GatherInv, GrabSends, Yielded, Polled
<1> QED BY <1>2, <1>4, <1>5, <1>6 DEF GatherInv

(* find and check: an address is dropped, or yielded to the pipeline. *)
LEMMA SourceSteps ==
  ASSUME GatherInv, StreamInv, LimitInv,
         (\E i \in batch : Skip(i) \/ Yield(i)) \/ SourceDone
  PROVE  GatherInv'
<1>1. /\ kind # "grab" /\ kind' = kind /\ loop = "pull"
      /\ UNCHANGED <<grab, picked, given, queue, taken, listening, open, sent>>
  BY DEF Skip, Yield, SourceDone, LookAt, PullOne, SourceEnds, sourceVars, grabVars,
         csVars, pipeVars
<1>2. GrabCounts' /\ GrabSends'
  BY <1>1 DEF GatherInv, GrabCounts, GrabSends, Grabbed, Reached
<1>3. SourceTyped'
  BY LookedAt DEF GatherInv, SourceTyped, Skip, Yield, SourceDone, sourceVars
<1>4. ASSUME NEW i \in batch, Skip(i) PROVE Yielded' /\ SourceIsSpent'
  <2>1. Due' = Due /\ UNCHANGED <<source, loop>>
    BY <1>4, LookedAt DEF Skip, csVars, loopVars
  <2> QED BY <1>1, <2>1 DEF GatherInv, Yielded, SourceIsSpent
<1>5. ASSUME NEW i \in batch, Yield(i) PROVE Yielded' /\ SourceIsSpent'
  <2>1. /\ Due' = Due \cup {i} /\ i \in source /\ source' = source \ {i} /\ i \in Items
        /\ cancelled \/ Reached(sent) \/ loop' = "permit"
    BY <1>5, LookedAt DEF Yield, PullOne, GatherInv, SourceTyped
  <2>2. open /\ loop' \in {"drain", "ended"} => Reached(sent)
    BY <2>1 DEF LimitInv, OnlyLimitCancels
  <2> QED BY <1>1, <2>1, <2>2 DEF GatherInv, Yielded, SourceIsSpent, Reached
<1>6. ASSUME SourceDone PROVE Yielded' /\ SourceIsSpent'
  <2>1. NothingLeft /\ UNCHANGED <<waiting, fetching, batch, seen, source>>
    BY <1>6 DEF SourceDone, SourceEnds, sourceVars
  <2> QED BY <1>1, <2>1 DEF GatherInv, Yielded, SourceIsSpent, Due, CountryOk, NothingLeft
<1> QED BY <1>2, <1>3, <1>4, <1>5, <1>6 DEF GatherInv

LEMMA PipelineSteps ==
  ASSUME GatherInv, StreamInv, Checking
  PROVE  GatherInv'
<1>1. /\ kind # "grab" /\ UNCHANGED <<sourceVars, grabVars>>
      /\ \/ SpawnCheck \/ Drain \/ Receive \/ DropStream \/ CancelOnDrop
         \/ \E i \in Items : TaskStep(i)
  BY DEF Checking
<1>2. /\ UNCHANGED <<kind, waiting, fetching, batch, seen>> /\ Due' = Due
      /\ UNCHANGED <<grab, picked, given, queue, taken, listening>> /\ Grabbed' = Grabbed
  BY <1>1 DEF sourceVars, grabVars, Due, CountryOk, Grabbed
<1>3. /\ UNCHANGED source
      /\ open' => open
      /\ loop' \in {"drain", "ended"} => loop \in {"drain", "ended"}
  BY <1>1 DEF SpawnCheck, Drain, Receive, DropStream, CancelOnDrop, TaskStep, Abort, Check,
              Reserve, Send, Cancel, loopVars, pipeVars
<1>4. ~Reached(sent') => ~Reached(sent)
  <2>1. sent \in Nat /\ (sent' = sent \/ sent' = sent + 1)
    BY <1>1 DEF SpawnCheck, Drain, Receive, DropStream, CancelOnDrop, TaskStep, Abort, Check,
                Reserve, Send, Cancel, StreamInv, TypeOK
  <2>2. sent \in Int /\ sent' \in Int /\ sent <= sent'
    BY <2>1
  <2> QED BY <2>2, ReachedGrows
<1>5. SourceTyped' /\ Yielded' /\ GrabCounts' /\ GrabSends'
  BY <1>1, <1>2, <1>3 DEF GatherInv, SourceTyped, Yielded, GrabCounts, GrabSends, Reached
<1>6. SourceIsSpent'
  BY <1>2, <1>3, <1>4 DEF GatherInv, SourceIsSpent, NothingLeft, Reached
<1> QED BY <1>5, <1>6 DEF GatherInv

LEMMA GrabSteps ==
  ASSUME GatherInv, Grabbing \/ GrabReceive \/ GrabDrop
  PROVE  GatherInv'
<1>0. /\ given \in Nat /\ Grabbed \subseteq Items /\ IsFiniteSet(Items)
      /\ NoLimit \notin Int /\ Limit \in Nat \cup {NoLimit}
      /\ SourceTyped /\ Yielded /\ SourceIsSpent /\ GrabCounts /\ GrabSends
  BY CheckStreamAssumption DEF GatherInv, GrabCounts
<1>1. UNCHANGED <<kind, source, loop, open, sent>>
  BY DEF Grabbing, GrabEnds, GrabNext, GrabSend, GrabReceive, GrabDrop, LookAt, sourceVars,
         csVars, loopVars, pipeVars
<1>2. ASSUME UNCHANGED <<waiting, fetching, batch, seen>>
      PROVE  Due' = Due /\ SourceTyped' /\ Yielded' /\ SourceIsSpent'
                /\ (NothingLeft' <=> NothingLeft)
  <2>1. Due' = Due /\ (NothingLeft' <=> NothingLeft)
    BY <1>2 DEF Due, CountryOk, NothingLeft
  <2> QED BY <1>0, <1>1, <1>2, <2>1 DEF SourceTyped, Yielded, SourceIsSpent, Reached
<1>3. ASSUME GrabEnds PROVE GatherInv'
  <2>1. /\ UNCHANGED <<waiting, fetching, batch, seen>> /\ UNCHANGED <<given, listening>>
        /\ grab = "pull" /\ grab' = "ended" /\ (NothingLeft \/ Reached(given))
        /\ Grabbed' = Grabbed
    BY <1>3 DEF GrabEnds, sourceVars, Grabbed
  <2>2. GrabCounts'
    BY <1>0, <2>1 DEF GrabCounts
  <2>3. GrabSends'
    BY <1>0, <1>1, <1>2, <2>1 DEF GrabSends, Reached
  <2> QED BY <1>2, <2>1, <2>2, <2>3 DEF GatherInv
<1>4. ASSUME NEW i \in batch, GrabNext(i) PROVE GatherInv'
  <2>1. /\ kind = "grab" /\ grab = "pull" /\ ~Reached(given) /\ LookAt(i)
        /\ UNCHANGED <<given, listening>> /\ Grabbed' = Grabbed
        /\ Wanted(i) => grab' = "send" /\ picked' = i
        /\ ~Wanted(i) => grab' = "pull"
    BY <1>4 DEF GrabNext, Grabbed
  <2>2. /\ Due' = IF Wanted(i) THEN Due \cup {i} ELSE Due
        /\ Wanted(i) => i \notin Due
        /\ SourceTyped' /\ i \in Items
    BY <1>0, <2>1, LookedAt DEF SourceTyped
  <2>3. listening => Due = Grabbed
    BY <1>0, <2>1 DEF GrabSends
  <2>4. Yielded' /\ SourceIsSpent'
    BY <1>1, <2>1 DEF Yielded, SourceIsSpent
  <2>5. ASSUME Wanted(i), listening PROVE i \notin Grabbed
    BY <2>2, <2>3, <2>5
  <2>6. GrabCounts'
    BY <1>0, <2>1, <2>2, <2>5 DEF GrabCounts, Reached
  <2>7. GrabSends'
    BY <1>0, <2>1, <2>2, <2>3 DEF GrabSends
  <2> QED BY <2>2, <2>4, <2>6, <2>7 DEF GatherInv
<1>5. ASSUME GrabSend PROVE GatherInv'
  <2>1. UNCHANGED <<waiting, fetching, batch, seen>> /\ grab = "send" /\ UNCHANGED listening
    BY <1>5 DEF GrabSend, sourceVars
  <2>2. picked \in Items /\ ~Reached(given) /\ (listening => picked \notin Grabbed)
    BY <1>0, <2>1 DEF GrabCounts
  <2>3. ASSUME listening PROVE GatherInv'
    <3>1. Grabbed' = Grabbed \cup {picked} /\ given' = given + 1 /\ grab' = "pull"
      BY <1>5, <2>3 DEF GrabSend, Grabbed
    <3>2. given = Cardinality(Grabbed) /\ IsFiniteSet(Grabbed)
      BY <1>0, <2>3, FS_Subset DEF GrabCounts
    <3>3. Cardinality(Grabbed') = given + 1
      BY <2>2, <2>3, <3>1, <3>2, FS_AddElement
    <3>4. GrabCounts'
      BY <1>0, <2>2, <3>1, <3>3 DEF GrabCounts, Reached
    <3>5. GrabSends'
      BY <1>0, <1>1, <1>2, <2>1, <2>3, <3>1 DEF GrabSends
    <3> QED BY <1>2, <2>1, <3>4, <3>5 DEF GatherInv
  <2>4. ASSUME ~listening PROVE GatherInv'
    <3>1. Grabbed' = Grabbed /\ given' = given /\ grab' = "ended" /\ ~listening'
      BY <1>5, <2>1, <2>4 DEF GrabSend, Grabbed
    <3>2. GrabCounts' /\ GrabSends'
      BY <1>0, <3>1 DEF GrabCounts, GrabSends
    <3> QED BY <1>2, <2>1, <3>2 DEF GatherInv
  <2> QED BY <2>3, <2>4
<1>6. ASSUME GrabReceive PROVE GatherInv'
  <2>1. UNCHANGED <<waiting, fetching, batch, seen>> /\ UNCHANGED <<grab, picked, given, listening>>
        /\ Grabbed' = Grabbed
    BY <1>6 DEF GrabReceive, sourceVars, Grabbed
  <2>2. GrabCounts' /\ GrabSends'
    BY <1>0, <1>1, <1>2, <2>1 DEF GrabCounts, GrabSends, Reached
  <2> QED BY <1>2, <2>1, <2>2 DEF GatherInv
<1>7. ASSUME GrabDrop PROVE GatherInv'
  <2>1. UNCHANGED <<waiting, fetching, batch, seen>> /\ UNCHANGED <<grab, picked, given>>
        /\ Grabbed' \subseteq Grabbed /\ ~listening'
    BY <1>7 DEF GrabDrop, sourceVars, Grabbed
  <2>2. GrabCounts' /\ GrabSends'
    BY <1>0, <2>1 DEF GrabCounts, GrabSends, Reached
  <2> QED BY <1>2, <2>1, <2>2 DEF GatherInv
<1> QED BY <1>3, <1>4, <1>5, <1>6, <1>7 DEF Grabbing

LEMMA GatherNext ==
  ASSUME GatherInv, StreamInv, LimitInv, [BrokerNext]_brokerVars
  PROVE  GatherInv'
<1>1. ASSUME Gathering PROVE GatherInv'
  BY <1>1, FetchSteps, SourceSteps DEF Gathering
<1>2. ASSUME UNCHANGED brokerVars PROVE GatherInv'
  <2>1. UNCHANGED <<kind, waiting, fetching, batch, seen, grab, picked, given, queue, taken,
                    listening, source, loop, open, sent>>
    BY <1>2 DEF brokerVars, sourceVars, grabVars, csVars, loopVars, pipeVars
  <2>2. Due' = Due /\ Grabbed' = Grabbed /\ NothingLeft' = NothingLeft
    BY <2>1 DEF Due, CountryOk, Grabbed, NothingLeft
  <2> QED BY <2>1, <2>2 DEF GatherInv, SourceTyped, Yielded, SourceIsSpent, GrabCounts, GrabSends,
                            Reached
<1> QED BY <1>1, <1>2, GrabSteps, PipelineSteps DEF BrokerNext, Over

LEMMA GatherSound ==
  ASSUME GatherInv, StreamInv, LimitInv
  PROVE  GathersAll
<1>1. ASSUME kind # "grab", NEW i \in batch, Wanted(i) PROVE i \in source
  BY <1>1 DEF GatherInv, SourceTyped, Yielded, Due, Wanted
<1>2. ASSUME kind # "grab", loop = "ended", open, ~Reached(sent)
      PROVE  NothingLeft /\ Due = recorded
  BY <1>2, EndedIsRecorded DEF GatherInv, SourceIsSpent, Yielded
<1>3. ASSUME kind = "grab", grab = "ended", listening
      PROVE  IF Reached(given) THEN Cardinality(Grabbed) = Limit ELSE NothingLeft /\ Due = Grabbed
  BY <1>3, CheckStreamAssumption DEF GatherInv, GrabCounts, GrabSends, Reached
<1> QED BY <1>1, <1>2, <1>3 DEF GathersAll, Due

(* However the providers repeat one another and in whatever order their      *)
(* pages arrive, no address is checked twice and none is forgotten: a stream *)
(* of find, check or grab kept to its end has its limit, or every new        *)
(* address of an allowed country of every provider.                          *)
THEOREM NothingIsForgotten == BrokerSpec => []GathersAll
<1>1. BrokerSpec => [](StreamInv /\ LimitInv)
  BY BrokerRunsCheckStream, Invariance, LimitInvariance, PTL
<1>2. BrokerSpec => []GatherInv
  BY <1>1, InitGather, GatherNext, PTL DEF BrokerSpec
<1> QED BY <1>1, <1>2, GatherSound, PTL

=============================================================================
