----------------------- MODULE GatewayIngestionProofs -----------------------
(***************************************************************************)
(* Proofs about GatewayIngestion, for any images, number of jobs, batch    *)
(* size and number of faults: IInv is inductive, the safety properties     *)
(* follow from it, and under it every step of the gateway is a step of     *)
(* ImageJobs or a stutter.                                                 *)
(***************************************************************************)
EXTENDS GatewayIngestion, SequenceTheorems, TLAPS

\* Appending a delivery or an event to a list adds just that element.
LEMMA RangeAppend ==
    ASSUME NEW S, NEW s \in Seq(S), NEW e \in S
    PROVE  Range(Append(s, e)) = Range(s) \cup {e}
BY DEF Range

\* The list of events of process_jobs and those of its indexed documents, joined:
\* length, elements and range.
LEMMA ConcatElements ==
    ASSUME NEW S, NEW s \in Seq(S), NEW t \in Seq(S)
    PROVE  /\ s \o t \in Seq(S) /\ Len(s \o t) = Len(s) + Len(t)
           /\ \A k \in 1..(Len(s) + Len(t)) :
                 (s \o t)[k] = IF k <= Len(s) THEN s[k] ELSE t[k - Len(s)]
           /\ Range(s \o t) = Range(s) \cup Range(t)
<1> DEFINE u == s \o t
           n == Len(s)
           m == Len(t)
<1>1. n \in Nat /\ m \in Nat /\ DOMAIN s = 1..n /\ DOMAIN t = 1..m
  BY LenProperties
<1>2. /\ u \in Seq(S) /\ Len(u) = n + m
      /\ \A k \in 1..(n + m) : u[k] = IF k <= n THEN s[k] ELSE t[k - n]
  BY ConcatProperties
<1>3. DOMAIN u = 1..(n + m)
  BY <1>2, LenProperties
<1> HIDE DEF u, n, m
<1>4. ASSUME NEW y \in Range(u) PROVE y \in Range(s) \cup Range(t)
  <2>1. PICK k \in 1..(n + m) : u[k] = y
    BY <1>3 DEF Range
  <2>2. CASE k <= n
    BY <1>1, <1>2, <2>1, <2>2 DEF Range
  <2>3. CASE k > n
    <3>1. k - n \in 1..m /\ t[k - n] = y
      BY <1>1, <1>2, <2>1, <2>3
    <3> QED
      BY <1>1, <3>1 DEF Range
  <2> QED
    BY <1>1, <2>2, <2>3
<1>5. ASSUME NEW y \in Range(s) PROVE y \in Range(u)
  <2>1. PICK k \in 1..n : s[k] = y
    BY <1>1 DEF Range
  <2>2. k \in 1..(n + m) /\ u[k] = y
    BY <1>1, <1>2, <2>1
  <2> QED
    BY <1>3, <2>2 DEF Range
<1>6. ASSUME NEW y \in Range(t) PROVE y \in Range(u)
  <2>1. PICK k \in 1..m : t[k] = y
    BY <1>1 DEF Range
  <2>2. k + n \in 1..(n + m) /\ u[k + n] = y
    BY <1>1, <1>2, <2>1
  <2> QED
    BY <1>3, <2>2 DEF Range
<1>7. Range(u) = Range(s) \cup Range(t)
  BY <1>4, <1>5, <1>6
<1> QED
  BY <1>2, <1>7 DEF u, n, m

\* The consumer starts with well-typed locals, before any message was published.
LEMMA TypeInit == Init => TypeOK
<1> SUFFICES ASSUME Init PROVE TypeOK
  OBVIOUS
<1>1. <<>> \in Seq(Jobs) /\ <<>> \in Seq(Event)
  BY EmptySeq
<1>2. imageOf \in [Jobs -> Images]
  <2>1. (CHOOSE i \in Images : TRUE) \in Images
    BY GatewayAssumption
  <2>2. imageOf = [j \in Jobs |-> CHOOSE i \in Images : TRUE]
    BY DEF Init
  <2> QED
    BY <2>1, <2>2, Zenon
<1> QED
  <2>1. stop \in BOOLEAN
    BY DEF Init
  <2> QED
    BY <1>1, <1>2, <2>1, GatewayAssumption DEF Init, TypeOK, Places, Statuses

\* No step of broker, process or consumer loop leaves the types; the position of
\* the loops is needed for the heads and elements that the steps take.
LEMMA TypeStep == TypeOK /\ LoopPosition /\ [Next]_vars => TypeOK'
<1> SUFFICES ASSUME TypeOK, LoopPosition, [Next]_vars PROVE TypeOK'
  OBVIOUS
<1>a. <<>> \in Seq(Jobs) /\ <<>> \in Seq(Event)
  BY EmptySeq
<1>b. ASSUME pc \in {"announce", "sendStatus", "prepare"} PROVE batch[cursor] \in Jobs
  BY <1>b, ElementOfSeq, LenProperties DEF TypeOK, LoopPosition
<1>c. ASSUME events # <<>> PROVE Head(events) \in Event /\ Tail(events) \in Seq(Event)
  BY <1>c, HeadTailProperties DEF TypeOK
<1> USE GatewayAssumption DEF TypeOK, Event, Places, Statuses, NoOutcome
<1>1. ASSUME NEW j \in Jobs, NEW i \in Images, Publish(j, i) PROVE TypeOK'
  BY <1>1 DEF Publish, loopVars, outcomeVars
<1>2. CASE StartConsumer BY <1>2 DEF StartConsumer, loopVars, outcomeVars
<1>3. CASE RequestStop BY <1>3 DEF RequestStop, Fault, loopVars, outcomeVars
<1>4. CASE Crash BY <1>4, <1>a DEF Crash, Fault, Moved, NoBatch
<1>5. CASE RecoverOrphans BY <1>5 DEF RecoverOrphans, Moved, loopVars, outcomeVars
<1>6. CASE LoseConnection BY <1>6 DEF LoseConnection, Fault, Moved, loopVars, outcomeVars
<1>7. CASE BeginBatch BY <1>7 DEF BeginBatch, loopVars, outcomeVars
<1>8. CASE StopConsumer BY <1>8 DEF StopConsumer, Moved, loopVars, outcomeVars
<1>9. ASSUME NEW j \in Jobs, GetDelivery(j) PROVE TypeOK'
  BY <1>9 DEF GetDelivery, outcomeVars
<1>26. ASSUME NEW j \in Jobs, GetMalformed(j) PROVE TypeOK'
  BY <1>26 DEF GetMalformed, outcomeVars
<1>27. CASE CloseAndExit BY <1>27, <1>a DEF CloseAndExit, Moved, NoBatch
<1>28. CASE Cleanup BY <1>28 DEF Cleanup, loopVars, outcomeVars
<1>29. CASE CleanupFails BY <1>29, <1>a DEF CleanupFails, Fault, loopVars
<1>10. CASE EndGet BY <1>10 DEF EndGet, loopVars, outcomeVars
<1>11. CASE DeclareResultQueue
  <2>1. pc' \in {"sendStatus", "sendEvent"}
    BY <1>11 DEF DeclareResultQueue
  <2> QED
    BY <1>11, <2>1 DEF DeclareResultQueue, loopVars, outcomeVars
<1>12. CASE Announce BY <1>12, <1>b DEF Announce, PublishResult, NextDelivery, outcomeVars
<1>13. CASE PrepareOk BY <1>13, <1>b DEF PrepareOk, NextDelivery
<1>14. CASE PrepareDead BY <1>14, <1>b DEF PrepareDead, NextDelivery, Fault
<1>15. CASE PrepareRequeue BY <1>15, <1>b DEF PrepareRequeue, NextDelivery, Fault
<1>16. CASE EncodeBatch BY <1>16 DEF EncodeBatch, loopVars, outcomeVars
<1>17. CASE EncodeFails BY <1>17 DEF EncodeFails, Range, Fault, loopVars
<1>18. CASE UpsertOk BY <1>18 DEF UpsertOk, Range, PreparedImages, IndexedEvents, loopVars
<1>19. CASE UpsertFails BY <1>19 DEF UpsertFails, Range, PreparedImages, Fault, loopVars
<1>20. CASE PublishEvent BY <1>20, <1>c DEF LoopPosition, PublishEvent, PublishResult, outcomeVars
<1>21. CASE DisposeOfEvent BY <1>21, <1>c DEF LoopPosition, DisposeOfEvent, Dispose, loopVars
<1>22. ASSUME NEW j \in Jobs, DisposeOfRest(j) PROVE TypeOK'
  BY <1>22 DEF DisposeOfRest, Dispose, PublishResult, loopVars
<1>23. CASE EndBatch BY <1>23, <1>a DEF EndBatch, NoBatch
<1>24. CASE ExitOnChannelError BY <1>24, <1>a DEF ExitOnChannelError, NoBatch
<1>25. CASE UNCHANGED vars BY <1>25 DEF vars
<1> QED
  BY <1>1, <1>2, <1>3, <1>4, <1>5, <1>6, <1>7, <1>8, <1>9, <1>10, <1>11, <1>12, <1>13,
     <1>14, <1>15, <1>16, <1>17, <1>18, <1>19, <1>20, <1>21, <1>22, <1>23, <1>24, <1>25, <1>26,
     <1>27, <1>28, <1>29
  DEF Next, ConsumerStep, Prepare, Index, Settle

\* Before the first message and the first process the invariant holds.
LEMMA InitIInv == Init => IInv
<1> SUFFICES ASSUME Init PROVE IInv
  OBVIOUS
<1>1. TypeOK
  BY TypeInit
<1>2. Range(<<>>) = {} /\ Len(<<>>) = 0
  BY EmptySeq DEF Range
<1> QED
  BY <1>1, <1>2 DEF Init, IInv, LoopPosition, InHand, LostBatchIsReady, BatchIsSet, PreparedIsSet,
     Sorting, OneDisposition, EventJobs, EventIsOut, Announced, EventSent, AckedAreIndexed, NewIsSilent,
     MalformedOnExit, AckedWasIndexed, DroppedWasReported, IndexedReportIsTrue,
     Outstanding, Unhandled

\* The jobs of the pending events are those acked and those dead-lettered.
LEMMA EventJobKnown ==
    ASSUME TypeOK, OneDisposition, NEW k \in 1..Len(events)
    PROVE  /\ events[k] \in Event
           /\ events[k].status = "indexed" => events[k].job \in acked
           /\ events[k].status = "failed" => events[k].job \in dead
           /\ events[k].job \in acked \cup dead
<1>1. events[k] \in Event
  BY ElementOfSeq DEF TypeOK
<1>2. events[k] \in Range(events)
  BY LenProperties DEF Range, TypeOK
<1>3. PICK j \in Jobs, t \in {"indexed", "failed"} : events[k] = [job |-> j, status |-> t]
  BY <1>1 DEF Event
<1>4. j \in EventJobs(t)
  BY <1>2, <1>3 DEF EventJobs
<1> QED
  BY <1>1, <1>3, <1>4 DEF OneDisposition

\* Whatever the consumer still has to dispose of is pending at the broker.
LEMMA OutstandingIsPending ==
    ASSUME IInv, NEW j \in Outstanding
    PROVE  /\ j \in Jobs /\ place[j] \in {"unacked", "ready"}
           /\ conn = "open" => place[j] = "unacked"
<1>1. Outstanding \subseteq Jobs
  BY DEF IInv, TypeOK, Outstanding, Unhandled, Range
<1>2. conn \in {"open", "closed"}
  BY DEF IInv, TypeOK
<1> QED
  BY <1>1, <1>2 DEF IInv, InHand, LostBatchIsReady

\* The next event is about a delivery that is acked or dead-lettered with it.
LEMMA NextEvent ==
    ASSUME IInv, events # <<>>
    PROVE  /\ Head(events).job \in Jobs /\ Head(events).job \in acked \cup dead
           /\ Head(events).job \notin requeue
           /\ Head(events).status \in {"indexed", "failed"}
           /\ Head(events).status = "indexed" <=> Head(events).job \in acked
<1>1. 1 \in 1..Len(events) /\ Head(events) = events[1]
  BY EmptySeq, LenProperties DEF IInv, TypeOK
<1>2. TypeOK /\ OneDisposition
  BY DEF IInv
<1>3. /\ Head(events) \in Event
      /\ Head(events).status = "indexed" => Head(events).job \in acked
      /\ Head(events).status = "failed" => Head(events).job \in dead
  BY <1>1, <1>2, EventJobKnown
<1>4. Head(events).job \in Jobs /\ Head(events).status \in {"indexed", "failed"}
  BY <1>3 DEF Event
<1> QED
  BY <1>2, <1>3, <1>4 DEF OneDisposition

\* The delivery at the cursor of the first loop of process_jobs is not sorted yet.
LEMMA PrepareCursor ==
    ASSUME IInv, pc = "prepare"
    PROVE  /\ batch[cursor] \in Jobs
           /\ batch[cursor] \notin Range(prepared) \cup requeue \cup dead
           /\ {batch[k] : k \in 1..cursor} =
                 Range(prepared) \cup requeue \cup dead \cup {batch[cursor]}
           /\ cursor = Len(batch) => {batch[k] : k \in 1..cursor} = Range(batch)
           /\ cursor \in Nat \ {0} /\ Len(batch) \in Nat /\ cursor <= Len(batch)
<1> USE DEF IInv, TypeOK, LoopPosition, BatchIsSet, Sorting
<1>1. cursor \in 1..Len(batch) /\ Len(batch) \in Nat /\ DOMAIN batch = 1..Len(batch)
  BY LenProperties
<1>2. batch[cursor] \in Jobs
  BY <1>1, ElementOfSeq
<1>3. batch[cursor] \notin {batch[k] : k \in 1..(cursor - 1)}
  BY <1>1
<1>4. {batch[k] : k \in 1..cursor} = {batch[k] : k \in 1..(cursor - 1)} \cup {batch[cursor]}
  BY <1>1
<1> QED
  BY <1>1, <1>2, <1>3, <1>4 DEF Range

\* Every step of Next preserves the invariant, one case per action.
LEMMA IInvStep == IInv /\ [Next]_vars => IInv'
<1> SUFFICES ASSUME IInv, [Next]_vars PROVE IInv'
  OBVIOUS
<1> USE GatewayAssumption DEF IInv, LoopPosition, InHand, LostBatchIsReady, BatchIsSet,
    PreparedIsSet, Sorting, OneDisposition, EventJobs, EventIsOut, Announced, EventSent,
    AckedAreIndexed, NewIsSilent, MalformedOnExit, AckedWasIndexed, DroppedWasReported,
    IndexedReportIsTrue, Outstanding, Unhandled, NoOutcome,
    loopVars, outcomeVars
<1>t. TypeOK'
  BY TypeStep
<1>r. Range(<<>>) = {} /\ Len(<<>>) = 0
  BY EmptySeq DEF Range
<1>o. Outstanding \subseteq Jobs
  BY DEF Range, TypeOK
<1>1. ASSUME NEW j \in Jobs, NEW i \in Images, Publish(j, i) PROVE IInv'
  BY <1>1, <1>t DEF Publish, TypeOK
<1>2. CASE StartConsumer
  BY <1>2, <1>t, <1>r DEF StartConsumer, TypeOK
<1>3. CASE RequestStop
  BY <1>3, <1>t DEF RequestStop
<1>4. CASE Crash
  BY <1>4, <1>t, <1>r DEF Crash, Moved, NoBatch, TypeOK
<1>5. CASE RecoverOrphans
  <2>1. \A j \in Jobs : place'[j] = IF place[j] = "orphaned" THEN "ready" ELSE place[j]
    BY <1>5 DEF RecoverOrphans, Moved
  <2>2. {j \in Jobs : place'[j] = "unacked"} = {j \in Jobs : place[j] = "unacked"}
    BY <2>1
  <2>3. Outstanding' = Outstanding /\ conn' = conn
    BY <1>5 DEF RecoverOrphans
  <2>4. InHand'
    BY <2>2, <2>3
  <2>5. LostBatchIsReady'
    BY <1>o, <2>1, <2>3
  <2>6. LoopPosition' /\ BatchIsSet' /\ PreparedIsSet' /\ Sorting' /\ OneDisposition'
    BY <1>5 DEF RecoverOrphans
  <2>7. Announced' /\ EventSent' /\ AckedAreIndexed'
    BY <1>5 DEF RecoverOrphans
  <2>8. /\ NewIsSilent' /\ MalformedOnExit' /\ AckedWasIndexed' /\ DroppedWasReported'
        /\ IndexedReportIsTrue'
    BY <1>5, <2>1 DEF RecoverOrphans
  <2> QED
    BY <1>t, <2>4, <2>5, <2>6, <2>7, <2>8
<1>6. CASE LoseConnection
  BY <1>6, <1>t DEF LoseConnection, Moved, TypeOK
<1>7. CASE BeginBatch
  BY <1>7, <1>t DEF BeginBatch
<1>8. CASE StopConsumer
  BY <1>8, <1>t, <1>r DEF StopConsumer, Moved, TypeOK
<1>9. ASSUME NEW j \in Jobs, GetDelivery(j) \/ GetMalformed(j) PROVE IInv'
  <2>0. /\ pc = "get" /\ pc' \in {"get", "raised"} /\ conn = "open" /\ IsHead(j)
        /\ imageOf[j] \in Malformed => pc' = "raised"
        /\ place' = [place EXCEPT ![j] = "unacked"] /\ batch' = Append(batch, j)
        /\ UNCHANGED <<imageOf, indexed, reported, conn, stop, cursor, outcomeVars>>
    BY <1>9 DEF GetDelivery, GetMalformed
  <2>1. Range(batch') = Range(batch) \cup {j}
    BY <2>0, RangeAppend DEF TypeOK
  <2>2. /\ Len(batch') = Len(batch) + 1 /\ batch'[Len(batch) + 1] = j
        /\ \A k \in 1..Len(batch) : batch'[k] = batch[k]
    BY <2>0 DEF TypeOK
  <2>3. \A k \in 1..Len(batch) : batch[k] \in Range(batch)
    BY DEF Range, TypeOK
  <2>4. j \notin Range(batch)
    BY <2>0 DEF IsHead, TypeOK
  <2>5. InHand' /\ LostBatchIsReady'
    <3>1. Range(batch) = {k \in Jobs : place[k] = "unacked"}
      BY <2>0
    <3>2. Outstanding' = Range(batch) \cup {j} /\ conn' = "open"
      BY <2>0, <2>1
    <3>3. {k \in Jobs : place'[k] = "unacked"} = {k \in Jobs : place[k] = "unacked"} \cup {j}
      BY <2>0 DEF TypeOK
    <3> QED
      BY <3>1, <3>2, <3>3
  <2>6. BatchIsSet'
    <3> SUFFICES ASSUME NEW a \in 1..(Len(batch) + 1), NEW b \in 1..(Len(batch) + 1), a # b
                 PROVE  batch'[a] # batch'[b]
      BY <2>2
    <3> QED
      BY <2>2, <2>3, <2>4, LenProperties DEF TypeOK
  <2>7. LoopPosition' /\ PreparedIsSet' /\ Sorting' /\ OneDisposition' /\ EventSent'
    BY <2>0 DEF TypeOK
  <2>8. Announced' /\ AckedAreIndexed' /\ NewIsSilent' /\ MalformedOnExit'
    BY <2>0 DEF IsHead, TypeOK
  <2>9. /\ AckedWasIndexed' /\ DroppedWasReported' /\ IndexedReportIsTrue'
    BY <2>0 DEF TypeOK
  <2> QED
    BY <1>t, <2>5, <2>6, <2>7, <2>8, <2>9
<1>27. CASE CloseAndExit
  BY <1>27, <1>t, <1>r DEF CloseAndExit, Moved, NoBatch, TypeOK
<1>28. CASE Cleanup
  BY <1>28, <1>t DEF Cleanup, TypeOK
<1>29. CASE CleanupFails
  <2>1. /\ pc = "cleanup" /\ pc' = "raised" /\ Unhandled = Range(batch)
        /\ UNCHANGED <<place, imageOf, indexed, reported, conn, batch, cursor>>
        /\ prepared' = <<>> /\ acked' = {} /\ requeue' = {} /\ dead' = {} /\ events' = <<>>
    BY <1>29 DEF CleanupFails
  <2>2. Outstanding' = Outstanding
    BY <2>1
  <2>3. InHand' /\ LostBatchIsReady' /\ MalformedOnExit'
    BY <2>1, <2>2
  <2>4. LoopPosition' /\ BatchIsSet' /\ PreparedIsSet' /\ Sorting' /\ OneDisposition'
    BY <1>r, <2>1
  <2>5. Announced' /\ EventSent' /\ AckedAreIndexed' /\ NewIsSilent'
    BY <2>1
  <2>6. AckedWasIndexed' /\ DroppedWasReported' /\ IndexedReportIsTrue'
    BY <2>1
  <2> QED
    BY <1>t, <2>3, <2>4, <2>5, <2>6
<1>10. CASE EndGet
  BY <1>10, <1>t, <1>r DEF EndGet, TypeOK
<1>11. CASE DeclareResultQueue
  BY <1>11, <1>t DEF DeclareResultQueue, TypeOK
<1>12. CASE Announce
  <2> DEFINE x == batch[cursor]
  <2>1. x \in Jobs /\ x \in Range(batch)
    BY <1>12, ElementOfSeq, LenProperties DEF Announce, TypeOK, Range
  <2>2. \A j \in Range(batch) : \E k \in 1..Len(batch) : j = batch[k]
    <3>1. DOMAIN batch = 1..Len(batch)
      BY LenProperties DEF TypeOK
    <3> QED
      BY <3>1, Zenon DEF Range
  <2>3. reported' = IF conn = "open" THEN [reported EXCEPT ![x] = "processing"]
                    ELSE reported
    BY <1>12 DEF Announce, PublishResult
  <2>4. /\ conn' = conn /\ batch' = batch /\ place' = place /\ imageOf' = imageOf
        /\ UNCHANGED outcomeVars /\ indexed' = indexed
        /\ pc = "sendStatus" /\ pc' \in {"announce", "prepare"}
    BY <1>12 DEF Announce, NextDelivery
  <2>5. conn = "open" => place[x] = "unacked"
    BY <2>1, <2>4
  <2>6. \A j \in Jobs : reported'[j] = reported[j] \/ (j = x /\ reported'[j] = "processing")
    BY <2>1, <2>3 DEF TypeOK
  <2>7. LoopPosition' /\ InHand' /\ LostBatchIsReady' /\ BatchIsSet' /\ PreparedIsSet'
    BY <1>12, <2>4 DEF Announce, NextDelivery, TypeOK
  <2>8. Sorting' /\ OneDisposition' /\ EventSent' /\ AckedAreIndexed'
    BY <1>12, <1>r, <2>4 DEF Announce, NextDelivery, TypeOK
  <2>9. Announced'
    <3>1. ASSUME conn = "open", NEW k \in 1..cursor PROVE reported'[batch[k]] = "processing"
      <4>1. k \in 1..Len(batch) /\ batch[k] \in Jobs
        BY <2>4, ElementOfSeq, LenProperties DEF TypeOK
      <4>2. CASE k = cursor
        BY <3>1, <4>2, <2>1, <2>3 DEF TypeOK
      <4>3. CASE k \in 1..(cursor - 1)
        BY <3>1, <4>1, <4>3, <2>4, <2>6
      <4> QED
        BY <4>2, <4>3 DEF TypeOK
    <3>2. CASE cursor < Len(batch)
      BY <1>12, <3>1, <3>2, <2>4 DEF Announce, NextDelivery, TypeOK
    <3>3. CASE cursor = Len(batch)
      BY <1>12, <3>1, <3>3, <2>2, <2>4 DEF Announce, NextDelivery, TypeOK
    <3> QED
      BY <3>2, <3>3, <2>4, LenProperties DEF TypeOK
  <2>10. NewIsSilent' /\ MalformedOnExit'
    BY <2>3, <2>4, <2>5 DEF TypeOK
  <2>11. AckedWasIndexed' /\ DroppedWasReported' /\ IndexedReportIsTrue'
    <3>1. \A j \in Jobs : place[j] \in {"acked", "dropped"} => reported'[j] = reported[j]
      BY <2>3, <2>5, <2>6
    <3>2. \A j \in Jobs : reported'[j] = "indexed" => reported[j] = "indexed"
      BY <2>6
    <3> QED
      BY <2>4, <3>1, <3>2
  <2> QED
    BY <1>t, <2>7, <2>8, <2>9, <2>10, <2>11
<1>13. CASE PrepareOk
  <2> DEFINE x == batch[cursor]
  <2>1. pc = "prepare" /\ prepared' = Append(prepared, x)
    BY <1>13 DEF PrepareOk
  <2>2. /\ x \in Jobs /\ x \notin Range(prepared) \cup requeue \cup dead
        /\ {batch[k] : k \in 1..cursor} = Range(prepared) \cup requeue \cup dead \cup {x}
        /\ cursor = Len(batch) => {batch[k] : k \in 1..cursor} = Range(batch)
        /\ cursor \in Nat \ {0} /\ Len(batch) \in Nat /\ cursor <= Len(batch)
    BY <2>1, PrepareCursor
  <2>3. Range(prepared') = Range(prepared) \cup {x}
    BY <2>1, <2>2, RangeAppend DEF TypeOK
  <2>4. UNCHANGED <<place, imageOf, indexed, reported, conn, batch, acked, requeue, dead, events>>
    BY <1>13 DEF PrepareOk
  <2>5. \/ cursor' = cursor + 1 /\ pc' = "prepare" /\ cursor < Len(batch)
        \/ cursor' = 1 /\ pc' = "encode" /\ cursor = Len(batch)
    BY <1>13, <2>2 DEF PrepareOk, NextDelivery
  <2>6. LoopPosition' /\ OneDisposition' /\ EventSent' /\ AckedAreIndexed'
    BY <2>1, <2>2, <2>4, <2>5
  <2>7. InHand' /\ LostBatchIsReady' /\ BatchIsSet' /\ Announced'
    BY <2>1, <2>4, <2>5
  <2>8. PreparedIsSet'
    <3>1. /\ Len(prepared') = Len(prepared) + 1 /\ prepared'[Len(prepared) + 1] = x
          /\ \A k \in 1..Len(prepared) : prepared'[k] = prepared[k]
      BY <2>1, <2>2 DEF TypeOK
    <3>2. \A k \in 1..Len(prepared) : prepared[k] # x
      BY <2>2 DEF Range, TypeOK
    <3> SUFFICES ASSUME NEW a \in 1..(Len(prepared) + 1), NEW b \in 1..(Len(prepared) + 1), a # b
                 PROVE  prepared'[a] # prepared'[b]
      BY <3>1
    <3>3. Len(prepared) \in Nat
      BY LenProperties DEF TypeOK
    <3>4. CASE a <= Len(prepared) /\ b <= Len(prepared)
      BY <3>1, <3>3, <3>4
    <3>5. CASE a = Len(prepared) + 1 \/ b = Len(prepared) + 1
      BY <3>1, <3>2, <3>3, <3>5
    <3> QED
      BY <3>3, <3>4, <3>5
  <2>9. Sorting'
    BY <2>1, <2>2, <2>3, <2>4, <2>5
  <2>10. /\ NewIsSilent' /\ MalformedOnExit' /\ AckedWasIndexed' /\ DroppedWasReported'
         /\ IndexedReportIsTrue'
    BY <2>1, <2>4
  <2> QED
    BY <1>t, <2>6, <2>7, <2>8, <2>9, <2>10
<1>14. CASE PrepareDead
  <2> DEFINE x == batch[cursor]
             e == [job |-> x, status |-> "failed"]
  <2>1. pc = "prepare" /\ dead' = dead \cup {x} /\ events' = Append(events, e)
    BY <1>14 DEF PrepareDead
  <2>2. /\ x \in Jobs /\ x \notin Range(prepared) \cup requeue \cup dead
        /\ {batch[k] : k \in 1..cursor} = Range(prepared) \cup requeue \cup dead \cup {x}
        /\ cursor = Len(batch) => {batch[k] : k \in 1..cursor} = Range(batch)
        /\ cursor \in Nat \ {0} /\ Len(batch) \in Nat /\ cursor <= Len(batch)
    BY <2>1, PrepareCursor
  <2>3. UNCHANGED <<place, imageOf, indexed, reported, conn, batch, prepared, acked, requeue>>
    BY <1>14 DEF PrepareDead
  <2>4. \/ cursor' = cursor + 1 /\ pc' = "prepare" /\ cursor < Len(batch)
        \/ cursor' = 1 /\ pc' = "encode" /\ cursor = Len(batch)
    BY <1>14, <2>2 DEF PrepareDead, NextDelivery
  <2>5. LoopPosition' /\ EventSent' /\ AckedAreIndexed'
    BY <2>1, <2>2, <2>3, <2>4
  <2>6. InHand' /\ LostBatchIsReady' /\ BatchIsSet' /\ Announced'
    BY <2>1, <2>3, <2>4
  <2>7. PreparedIsSet' /\ Sorting'
    BY <2>1, <2>2, <2>3, <2>4
  <2>8. OneDisposition'
    <3>1. e \in Event /\ Len(events) \in Nat
      BY <2>2, LenProperties DEF Event, TypeOK
    <3>2. Range(events') = Range(events) \cup {e}
      BY <2>1, <3>1, RangeAppend DEF TypeOK
    <3>3. EventJobs("indexed")' = acked' /\ EventJobs("failed")' = dead'
      BY <2>1, <2>2, <2>3, <3>2
    <3>4. /\ Len(events') = Len(events) + 1 /\ events'[Len(events) + 1] = e
          /\ \A k \in 1..Len(events) : events'[k] = events[k]
      BY <2>1, <3>1 DEF TypeOK
    <3>5. \A k \in 1..Len(events) : events[k].job # x
      BY <2>1, <2>2, EventJobKnown
    <3>6. ASSUME NEW k \in 1..(Len(events) + 1), NEW l \in 1..(Len(events) + 1), k # l
          PROVE  events'[k].job # events'[l].job
      <4>1. CASE k <= Len(events) /\ l <= Len(events)
        BY <3>1, <3>4, <3>6, <4>1
      <4>2. CASE k = Len(events) + 1 \/ l = Len(events) + 1
        BY <3>1, <3>4, <3>5, <3>6, <4>2
      <4> QED
        BY <3>1, <4>1, <4>2
    <3> QED
      BY <2>1, <2>2, <2>3, <3>3, <3>4, <3>6
  <2>9. /\ NewIsSilent' /\ MalformedOnExit' /\ AckedWasIndexed' /\ DroppedWasReported'
        /\ IndexedReportIsTrue'
    BY <2>1, <2>3
  <2> QED
    BY <1>t, <2>5, <2>6, <2>7, <2>8, <2>9
<1>15. CASE PrepareRequeue
  <2> DEFINE x == batch[cursor]
  <2>1. pc = "prepare" /\ requeue' = requeue \cup {x}
    BY <1>15 DEF PrepareRequeue
  <2>2. /\ x \in Jobs /\ x \notin Range(prepared) \cup requeue \cup dead
        /\ {batch[k] : k \in 1..cursor} = Range(prepared) \cup requeue \cup dead \cup {x}
        /\ cursor = Len(batch) => {batch[k] : k \in 1..cursor} = Range(batch)
        /\ cursor \in Nat \ {0} /\ Len(batch) \in Nat /\ cursor <= Len(batch)
    BY <2>1, PrepareCursor
  <2>3. UNCHANGED <<place, imageOf, indexed, reported, conn, batch, prepared, acked, dead, events>>
    BY <1>15 DEF PrepareRequeue
  <2>4. \/ cursor' = cursor + 1 /\ pc' = "prepare" /\ cursor < Len(batch)
        \/ cursor' = 1 /\ pc' = "encode" /\ cursor = Len(batch)
    BY <1>15, <2>2 DEF PrepareRequeue, NextDelivery
  <2>5. LoopPosition' /\ OneDisposition' /\ EventSent' /\ AckedAreIndexed'
    BY <2>1, <2>2, <2>3, <2>4
  <2>6. InHand' /\ LostBatchIsReady' /\ BatchIsSet' /\ Announced'
    BY <2>1, <2>3, <2>4
  <2>7. PreparedIsSet' /\ Sorting'
    BY <2>1, <2>2, <2>3, <2>4
  <2>8. /\ NewIsSilent' /\ MalformedOnExit' /\ AckedWasIndexed' /\ DroppedWasReported'
        /\ IndexedReportIsTrue'
    BY <2>1, <2>3
  <2> QED
    BY <1>t, <2>5, <2>6, <2>7, <2>8
<1>16. CASE EncodeBatch
  BY <1>16, <1>t, <1>r DEF EncodeBatch, TypeOK
<1>17. CASE EncodeFails
  BY <1>17, <1>t DEF EncodeFails, TypeOK
<1>18. CASE UpsertOk
  <2>1. /\ pc = "upsert" /\ pc' = "cleanup"
        /\ indexed' = indexed \cup PreparedImages
        /\ acked = {} /\ acked' = Range(prepared)
        /\ UNCHANGED <<place, imageOf, reported, conn, batch, cursor, prepared, requeue, dead>>
    BY <1>18 DEF UpsertOk
  <2>2. Outstanding' = Range(batch) /\ Outstanding = Range(batch)
    BY <2>1
  <2>3. LoopPosition' /\ BatchIsSet' /\ PreparedIsSet' /\ Sorting' /\ EventSent'
    BY <2>1
  <2>4. InHand' /\ LostBatchIsReady' /\ Announced'
    BY <2>1, <2>2
  <2>5. AckedAreIndexed'
    BY <2>1 DEF PreparedImages
  <2>6. OneDisposition'
    <3> DEFINE n == Len(events)
               m == Len(prepared)
               new == IndexedEvents
    <3>1. n \in Nat /\ m \in Nat /\ DOMAIN prepared = 1..m /\ \A k \in 1..m : prepared[k] \in Jobs
      BY LenProperties, ElementOfSeq DEF TypeOK
    <3>2. /\ new \in Seq(Event) /\ Len(new) = m
          /\ \A k \in 1..m : new[k] = [job |-> prepared[k], status |-> "indexed"]
      BY <3>1 DEF IndexedEvents, Event
    <3>3. /\ events' \in Seq(Event) /\ Len(events') = n + m
          /\ \A k \in 1..(n + m) : events'[k] = IF k <= n THEN events[k] ELSE new[k - n]
      <4>1. events' = events \o new /\ events \in Seq(Event)
        BY <1>18 DEF UpsertOk, TypeOK
      <4> QED
        BY <4>1, <3>2, ConcatElements
    <3>4. \A k \in 1..n : events[k].status = "failed" /\ events[k].job \in dead
      BY <2>1, EventJobKnown DEF Event
    <3>5. Range(events') = Range(events) \cup Range(new)
      <4>1. events' = events \o new /\ events \in Seq(Event)
        BY <1>18 DEF UpsertOk, TypeOK
      <4> QED
        BY <4>1, <3>2, ConcatElements
    <3>6. EventJobs("failed")' = dead' /\ EventJobs("indexed")' = acked'
      <4>0. DOMAIN new = 1..m
        BY <3>2, LenProperties
      <4>1. \A j \in Jobs : [job |-> j, status |-> "failed"] \notin Range(new)
        BY <3>1, <3>2, <4>0 DEF Range
      <4>2. \A j \in Jobs : [job |-> j, status |-> "indexed"] \in Range(new) <=> j \in Range(prepared)
        BY <3>1, <3>2, <4>0 DEF Range
      <4>3. Range(prepared) \subseteq Jobs
        BY <3>1 DEF Range
      <4> QED
        BY <2>1, <3>5, <4>1, <4>2, <4>3
    <3>7. ASSUME NEW k \in 1..(n + m), NEW l \in 1..(n + m), k # l
          PROVE  events'[k].job # events'[l].job
      <4>1. \A i \in 1..m : prepared[i] \notin dead
        BY <2>1, <3>1 DEF Range
      <4>2. CASE k <= n /\ l <= n
        BY <3>1, <3>3, <3>7, <4>2
      <4>3. CASE k > n /\ l > n
        <5> HIDE DEF n, m, new
        <5>0. k - n \in 1..m /\ l - n \in 1..m
          BY <3>1, <3>7, <4>3
        <5>1. events'[k].job = prepared[k - n] /\ events'[l].job = prepared[l - n]
          BY <3>1, <3>2, <3>3, <4>3, <5>0
        <5> QED
          BY <3>1, <3>7, <4>3, <5>0, <5>1 DEF m
      <4>4. CASE k <= n /\ l > n
        <5> HIDE DEF n, m, new
        <5>1. k \in 1..n /\ l - n \in 1..m
          BY <3>1, <4>4
        <5>2. events'[k] = events[k] /\ events'[l] = new[l - n]
          BY <3>1, <3>3, <4>4
        <5>3. events'[k].job \in dead /\ events'[l].job = prepared[l - n]
          BY <3>2, <3>4, <5>1, <5>2
        <5> QED
          BY <4>1, <5>1, <5>3
      <4>5. CASE k > n /\ l <= n
        <5> HIDE DEF n, m, new
        <5>1. l \in 1..n /\ k - n \in 1..m
          BY <3>1, <4>5
        <5>2. events'[l] = events[l] /\ events'[k] = new[k - n]
          BY <3>1, <3>3, <4>5
        <5>3. events'[l].job \in dead /\ events'[k].job = prepared[k - n]
          BY <3>2, <3>4, <5>1, <5>2
        <5> QED
          BY <4>1, <5>1, <5>3
      <4> QED
        BY <3>1, <4>2, <4>3, <4>4, <4>5
    <3> QED
      BY <2>1, <3>3, <3>6, <3>7
  <2>7. /\ NewIsSilent' /\ MalformedOnExit' /\ AckedWasIndexed' /\ DroppedWasReported'
        /\ IndexedReportIsTrue'
    BY <2>1
  <2> QED
    BY <1>t, <2>3, <2>4, <2>5, <2>6, <2>7
<1>19. CASE UpsertFails
  BY <1>19, <1>t DEF UpsertFails, TypeOK
<1>20. CASE PublishEvent
  <2> DEFINE x == Head(events).job
             t == Head(events).status
  <2>1. /\ pc = "sendEvent" /\ pc' = "dispose" /\ UNCHANGED <<loopVars, outcomeVars>>
        /\ UNCHANGED <<place, imageOf, indexed, conn>>
        /\ reported' = IF conn = "open" THEN [reported EXCEPT ![x] = t] ELSE reported
    BY <1>20 DEF PublishEvent, PublishResult
  <2>2. x \in Jobs /\ t \in {"indexed", "failed"} /\ x \in acked \cup dead
        /\ (t = "indexed" => x \in acked)
    <3>1. 1 \in 1..Len(events) /\ Head(events) = events[1]
      BY <2>1, EmptySeq, LenProperties DEF TypeOK
    <3> QED
      BY <3>1, EventJobKnown DEF Event
  <2>3. conn = "open" => place[x] = "unacked" /\ reported[x] = "processing"
    BY <2>1, <2>2
  <2>4. \A j \in Jobs : j # x => reported'[j] = reported[j]
    BY <2>1, <2>2 DEF TypeOK
  <2>5. LoopPosition' /\ InHand' /\ LostBatchIsReady' /\ BatchIsSet' /\ PreparedIsSet'
    BY <2>1
  <2>6. Sorting' /\ OneDisposition' /\ AckedAreIndexed'
    BY <2>1
  <2>7. Announced'
    BY <1>o, <2>1, <2>4
  <2>8. EventSent'
    BY <2>1, <2>2 DEF TypeOK
  <2>9. NewIsSilent' /\ MalformedOnExit'
    BY <2>1, <2>2, <2>3, <2>4 DEF TypeOK
  <2>10. AckedWasIndexed' /\ DroppedWasReported'
    <3>1. \A j \in Jobs : place[j] \in {"acked", "dropped"} => reported'[j] = reported[j]
      BY <2>1, <2>3, <2>4 DEF TypeOK
    <3> QED
      BY <2>1, <3>1
  <2>11. IndexedReportIsTrue'
    BY <2>1, <2>2, <2>4 DEF TypeOK
  <2> QED
    BY <1>t, <2>5, <2>6, <2>7, <2>8, <2>9, <2>10, <2>11
<1>21. CASE DisposeOfEvent
  <2> DEFINE x == Head(events).job
             n == Len(events)
  <2>1. /\ pc = "dispose" /\ pc' = "publish" /\ events # <<>> /\ events' = Tail(events)
        /\ UNCHANGED <<loopVars, prepared, imageOf, indexed, reported, conn>>
        /\ place' = IF conn = "closed" THEN place ELSE [place EXCEPT ![x] =
                        IF x \in acked THEN "acked"
                        ELSE IF x \in requeue THEN "ready" ELSE "dropped"]
        /\ acked' = acked \ {x} /\ requeue' = requeue \ {x} /\ dead' = dead \ {x}
    BY <1>21 DEF DisposeOfEvent, Dispose
  <2>2. /\ n \in Nat \ {0} /\ Head(events) = events[1] /\ Len(Tail(events)) = n - 1
        /\ \A k \in 1..(n - 1) : Tail(events)[k] = events[k + 1]
        /\ Tail(events) \in Seq(Event) /\ DOMAIN events = 1..n
    BY <2>1, EmptySeq, LenProperties, HeadTailProperties DEF TypeOK
  <2>3. /\ x \in Jobs /\ x \in acked \cup dead /\ x \notin requeue
        /\ x \in acked => Head(events).status = "indexed"
        /\ x \in dead => Head(events).status = "failed"
    <3>1. 1 \in 1..Len(events)
      BY <2>2
    <3> QED
      BY <2>2, <3>1, EventJobKnown DEF Event
  <2>4. Outstanding' = Outstanding \ {x} /\ Outstanding = Unhandled
    BY <2>1
  <2>5. LoopPosition' /\ BatchIsSet' /\ PreparedIsSet' /\ Sorting' /\ EventSent'
    BY <2>1
  <2>6. AckedAreIndexed' /\ IndexedReportIsTrue'
    BY <2>1
  <2>7. \A j \in Jobs : j # x => place'[j] = place[j]
    BY <2>1 DEF TypeOK
  <2>8. conn = "open" => place[x] = "unacked" /\ place'[x] = IF x \in acked THEN "acked" ELSE "dropped"
    BY <2>1, <2>3 DEF TypeOK
  <2>9. InHand'
    <3>1. CASE conn = "open"
      BY <2>1, <2>3, <2>4, <2>7, <2>8, <3>1
    <3>2. CASE conn = "closed"
      BY <2>1, <3>2
    <3> QED
      BY <3>1, <3>2 DEF TypeOK
  <2>10. LostBatchIsReady' /\ Announced'
    BY <2>1, <2>4
  <2>11. OneDisposition'
    <3>1. Range(events') = {events[k + 1] : k \in 1..(n - 1)}
      <4>1. DOMAIN events' = 1..(n - 1)
        BY <2>1, <2>2, LenProperties
      <4>2. Range(events') = {events'[k] : k \in 1..(n - 1)}
        BY <4>1 DEF Range
      <4>3. \A k \in 1..(n - 1) : events'[k] = events[k + 1]
        BY <2>1, <2>2
      <4> HIDE DEF n
      <4> QED
        BY <4>2, <4>3
    <3>2. \A k \in 2..n : events[k].job # x
      BY <2>2
    <3>3. \A j \in Jobs, s \in {"indexed", "failed"} :
             [job |-> j, status |-> s] \in Range(events') <=>
             [job |-> j, status |-> s] \in Range(events) /\ j # x
      <4> SUFFICES ASSUME NEW j \in Jobs, NEW s \in {"indexed", "failed"}
                   PROVE  [job |-> j, status |-> s] \in Range(events') <=>
                          [job |-> j, status |-> s] \in Range(events) /\ j # x
        OBVIOUS
      <4> DEFINE e == [job |-> j, status |-> s]
      <4>1. e \in Range(events) <=> \E k \in 1..n : events[k] = e
        BY <2>2 DEF Range
      <4>2. e \in Range(events') <=> \E k \in 1..(n - 1) : events[k + 1] = e
        BY <3>1
      <4>3. ASSUME NEW k \in 1..(n - 1), events[k + 1] = e PROVE e \in Range(events) /\ j # x
        <5>1. k + 1 \in 2..n /\ k + 1 \in 1..n
          BY <2>2
        <5>2. events[k + 1].job # x /\ e.job = j
          BY <3>2, <5>1
        <5>3. e \in Range(events)
          BY <4>1, <4>3, <5>1
        <5> QED
          BY <4>3, <5>2, <5>3
      <4>4. ASSUME NEW k \in 1..n, events[k] = e, j # x PROVE e \in Range(events')
        <5>1. k # 1
          BY <2>2, <4>4
        <5>2. k - 1 \in 1..(n - 1) /\ (k - 1) + 1 = k
          BY <2>2, <5>1
        <5>3. events[(k - 1) + 1] = e
          BY <4>4, <5>2
        <5> QED
          BY <4>2, <5>2, <5>3
      <4> QED
        BY <4>1, <4>2, <4>3, <4>4
    <3>4. EventJobs("indexed")' = acked' /\ EventJobs("failed")' = dead'
      BY <2>1, <3>3
    <3>5. \A k, l \in 1..(n - 1) : k # l => events'[k].job # events'[l].job
      BY <2>1, <2>2
    <3> QED
      BY <2>1, <2>2, <3>4, <3>5
  <2>12. NewIsSilent' /\ MalformedOnExit'
    BY <2>1, <2>7, <2>8
  <2>13. AckedWasIndexed'
    BY <2>1, <2>3, <2>7, <2>8 DEF TypeOK
  <2>14. DroppedWasReported'
    BY <2>1, <2>3, <2>7, <2>8 DEF TypeOK
  <2> QED
    BY <1>t, <2>5, <2>6, <2>9, <2>10, <2>11, <2>12, <2>13, <2>14
<1>22. ASSUME NEW j \in Jobs, DisposeOfRest(j) PROVE IInv'
  <2>1. acked = {} /\ dead = {} /\ j \in requeue
    <3>1. pc = "publish" /\ events = <<>>
      BY <1>22 DEF DisposeOfRest
    <3>2. acked = {} /\ dead = {}
      BY <1>r, <3>1
    <3> QED
      BY <1>22, <3>2 DEF DisposeOfRest
  <2>2. /\ pc = "publish" /\ pc' = "publish" /\ events = <<>> /\ events' = <<>>
        /\ UNCHANGED <<loopVars, prepared, imageOf, indexed, reported, conn>>
        /\ place' = IF conn = "closed" THEN place ELSE [place EXCEPT ![j] = "ready"]
        /\ acked' = {} /\ requeue' = requeue \ {j} /\ dead' = {}
    BY <1>22, <2>1 DEF DisposeOfRest, Dispose
  <2>3. Outstanding' = Outstanding \ {j}
    BY <2>1, <2>2
  <2>4. conn = "open" => place[j] = "unacked"
    BY <2>1, <2>2
  <2>5. InHand' /\ LostBatchIsReady' /\ NewIsSilent' /\ MalformedOnExit'
    BY <1>o, <2>2, <2>3, <2>4 DEF TypeOK
  <2>6. AckedWasIndexed' /\ DroppedWasReported' /\ IndexedReportIsTrue'
    BY <2>2, <2>4 DEF TypeOK
  <2>7. LoopPosition' /\ BatchIsSet' /\ PreparedIsSet' /\ Sorting' /\ OneDisposition'
    BY <2>1, <2>2, <1>r
  <2>8. Announced' /\ EventSent' /\ AckedAreIndexed'
    BY <2>2, <2>3
  <2> QED
    BY <1>t, <2>5, <2>6, <2>7, <2>8
<1>23. CASE EndBatch
  BY <1>23, <1>t, <1>r DEF EndBatch, NoBatch, TypeOK
<1>24. CASE ExitOnChannelError
  BY <1>24, <1>t, <1>r DEF ExitOnChannelError, NoBatch, TypeOK
<1>25. CASE UNCHANGED vars
  BY <1>25, <1>t DEF vars
<1> QED
  BY <1>1, <1>2, <1>3, <1>4, <1>5, <1>6, <1>7, <1>8, <1>9, <1>10, <1>11, <1>12, <1>13,
     <1>14, <1>15, <1>16, <1>17, <1>18, <1>19, <1>20, <1>21, <1>22, <1>23, <1>24, <1>25, <1>27, <1>28, <1>29
  DEF Next, ConsumerStep, Prepare, Index, Settle

-----------------------------------------------------------------------------
(***************************************************************************)
(* The theorems.                                                           *)
(***************************************************************************)

\* The inductive invariant holds in every reachable state of the ingestion loop.
THEOREM IngestionInvariant == Spec => []IInv
<1>1. Init => IInv
  BY InitIInv
<1>2. IInv /\ [Next]_vars => IInv'
  BY IInvStep
<1> QED
  BY <1>1, <1>2, PTL DEF Spec

\* The state of the queue and of the consumer loop stays within its types.
THEOREM TypeCorrect == Spec => []TypeOK
<1>1. IInv => TypeOK
  BY DEF IInv
<1> QED
  BY <1>1, IngestionInvariant, PTL

\* However many jobs, faults and crashes: an acked job is in the index and its
\* "indexed" event was published.
THEOREM AckIsEarned == Spec => []AckedWasIndexed
<1>1. IInv => AckedWasIndexed
  BY DEF IInv
<1> QED
  BY <1>1, IngestionInvariant, PTL

\* A job that nack(requeue=False) throws away was reported as failed.
THEOREM DropIsReported == Spec => []DroppedWasReported
<1>1. IInv => DroppedWasReported
  BY DEF IInv
<1> QED
  BY <1>1, IngestionInvariant, PTL

\* The result queue never says "indexed" of an image that is not in Qdrant.
THEOREM IndexedIsTrue == Spec => []IndexedReportIsTrue
<1>1. IInv => IndexedReportIsTrue
  BY DEF IInv
<1> QED
  BY <1>1, IngestionInvariant, PTL

\* A step that publishes a final status of a job finds "processing" as the last.
LEMMA FinalAfterProcessing ==
    IInv /\ [Next]_vars =>
        \A j \in Jobs : reported'[j] # reported[j] /\ reported'[j] # "processing"
                            => reported[j] = "processing"
<1> SUFFICES ASSUME IInv, [Next]_vars, NEW j \in Jobs,
                    reported'[j] # reported[j], reported'[j] # "processing"
             PROVE  reported[j] = "processing"
  OBVIOUS
<1> USE DEF IInv, TypeOK
<1>1. ASSUME PublishEvent PROVE reported[j] = "processing"
  <2>1. pc = "sendEvent" /\ reported' = IF conn = "open"
            THEN [reported EXCEPT ![Head(events).job] = Head(events).status] ELSE reported
    BY <1>1 DEF PublishEvent, PublishResult
  <2>2. j = Head(events).job /\ conn = "open"
    BY <2>1
  <2>3. Head(events).job \in Outstanding \ EventIsOut
    BY <2>1, NextEvent DEF Outstanding, Unhandled, EventIsOut, LoopPosition
  <2> QED
    BY <2>1, <2>2, <2>3 DEF Announced
<1>2. ASSUME Announce PROVE FALSE
  BY <1>2 DEF Announce, PublishResult
<1>3. ASSUME NEW k \in Jobs, DisposeOfRest(k) PROVE FALSE
  <2>1. Range(<<>>) = {}
    BY EmptySeq DEF Range
  <2>2. dead = {}
    BY <1>3, <2>1 DEF DisposeOfRest, OneDisposition, EventJobs
  <2> QED
    BY <1>3, <2>2 DEF DisposeOfRest
<1>4. CASE UNCHANGED reported
  BY <1>4
<1> QED
  BY <1>1, <1>2, <1>3, <1>4
  DEF Next, ConsumerStep, Prepare, Index, Settle, vars, Publish, StartConsumer, RequestStop,
      Crash, RecoverOrphans, LoseConnection, BeginBatch, StopConsumer, GetDelivery, GetMalformed,
      EndGet, DeclareResultQueue, PrepareOk, PrepareDead, PrepareRequeue, EncodeBatch,
      EncodeFails, UpsertOk, UpsertFails, Cleanup, CleanupFails, CloseAndExit, DisposeOfEvent,
      EndBatch, ExitOnChannelError

\* "processing" gets out before each final status, for any pattern of lost writes.
THEOREM ProcessingIsFirst == Spec => ProcessingReportedFirst
<1>1. /\ IInv /\ [Next]_vars
        => [\A j \in Jobs : reported'[j] # reported[j] /\ reported'[j] # "processing"
                                => reported[j] = "processing"]_vars
  BY FinalAfterProcessing
<1> QED
  BY <1>1, IngestionInvariant, PTL DEF Spec, ProcessingReportedFirst

\* The broker's unacked messages are exactly those the consumer will dispose of.
THEOREM NoDeliveryForgotten == Spec => []InHand
<1>1. IInv => InHand
  BY DEF IInv
<1> QED
  BY <1>1, IngestionInvariant, PTL

\* Every delivery gets one disposition, and its event says the same.
THEOREM DispositionIsUnique == Spec => []OneDisposition
<1>1. IInv => OneDisposition
  BY DEF IInv
<1> QED
  BY <1>1, IngestionInvariant, PTL

-----------------------------------------------------------------------------
(***************************************************************************)
(* A malformed message stops the queue.                                    *)
(***************************************************************************)

\* No step settles or reports a malformed message, nor delivers one behind it
\* before the broker has it as orphaned.
LEMMA MalformedStep ==
    ASSUME IInv, [Next]_vars, NEW j \in Jobs, imageOf[j] \in Malformed, place[j] \in Pending
    PROVE  /\ place'[j] \in Pending /\ reported'[j] = reported[j]
           /\ place[j] # "orphaned" =>
                 \A k \in Jobs : j < k /\ place[k] = "ready" => place'[k] = "ready"
<1> USE DEF Pending
<1>t. /\ place \in [Jobs -> Places] /\ reported \in [Jobs -> Statuses \cup {"none"}]
      /\ imageOf \in [Jobs -> Images] /\ conn \in {"open", "closed"}
  BY DEF IInv, TypeOK
<1>u. place[j] = "unacked" => pc = "raised"
  BY DEF IInv, MalformedOnExit
<1>o. ASSUME conn = "open", pc # "raised" PROVE j \notin Outstanding
  <2>1. \A k \in Outstanding : place[k] = "unacked"
    BY <1>o, OutstandingIsPending
  <2> QED
    BY <1>o, <1>u, <2>1
<1>e. ASSUME pc \in {"sendEvent", "dispose"}
      PROVE  Head(events).job \in Outstanding /\ Head(events).job \in Jobs
  BY <1>e, NextEvent DEF IInv, LoopPosition, Outstanding, Unhandled
<1>d. ASSUME NEW x \in Outstanding, x \in Jobs, pc # "raised", Dispose(x)
      PROVE  \A k \in Jobs : place'[k] # place[k] => k # j /\ place[k] = "unacked"
  <2>1. CASE conn = "closed"
    BY <1>d, <2>1 DEF Dispose
  <2>2. CASE conn = "open"
    <3>1. x # j /\ place[x] = "unacked"
      BY <1>d, <1>o, <2>2, OutstandingIsPending
    <3> QED
      BY <1>d, <1>t, <2>2, <3>1 DEF Dispose
  <2> QED
    BY <1>t, <2>1, <2>2
<1>1. CASE UNCHANGED <<place, reported>>
  BY <1>1
<1>2. ASSUME NEW k \in Jobs, NEW i \in Images, Publish(k, i)
      PROVE  /\ UNCHANGED <<place[j], reported>>
             /\ \A l \in Jobs : place[l] = "ready" => place'[l] = "ready"
  BY <1>2, <1>t DEF Publish
<1>3. CASE Crash \/ RecoverOrphans \/ LoseConnection \/ StopConsumer \/ CloseAndExit
  BY <1>3 DEF Crash, RecoverOrphans, LoseConnection, StopConsumer, CloseAndExit, Moved
<1>4. ASSUME NEW k \in Jobs, GetDelivery(k) \/ GetMalformed(k), place[j] # "orphaned"
      PROVE  k <= j
  BY <1>4, <1>u DEF GetDelivery, GetMalformed, IsHead, Ready
<1>5. ASSUME NEW k \in Jobs, GetDelivery(k) \/ GetMalformed(k)
      PROVE  place' = [place EXCEPT ![k] = "unacked"] /\ reported' = reported
  BY <1>5 DEF GetDelivery, GetMalformed
<1>6. CASE Announce
  <2>1. pc = "sendStatus" /\ place' = place
        /\ reported' = IF conn = "open" THEN [reported EXCEPT ![batch[cursor]] = "processing"]
                       ELSE reported
    BY <1>6 DEF Announce, PublishResult
  <2>2. batch[cursor] \in Outstanding
    BY <2>1, LenProperties DEF IInv, LoopPosition, TypeOK, Outstanding, Range
  <2> QED
    BY <1>o, <1>t, <2>1, <2>2
<1>7. CASE PublishEvent
  BY <1>7, <1>e, <1>o, <1>t DEF PublishEvent, PublishResult
<1>8. CASE DisposeOfEvent
  BY <1>8, <1>d, <1>e DEF DisposeOfEvent
<1>9. ASSUME NEW x \in Jobs, DisposeOfRest(x)
      PROVE  /\ reported' = reported
             /\ \A k \in Jobs : place'[k] # place[k] => k # j /\ place[k] = "unacked"
  <2>1. Range(<<>>) = {}
    BY EmptySeq DEF Range
  <2>2. pc = "publish" /\ dead = {} /\ x \in Outstanding /\ Dispose(x)
    BY <1>9, <2>1 DEF DisposeOfRest, IInv, OneDisposition, EventJobs, Outstanding, Unhandled
  <2> QED
    BY <1>9, <1>d, <2>2 DEF DisposeOfRest
<1>10. ASSUME NEW k \in Jobs, GetDelivery(k) \/ GetMalformed(k), place[j] # "orphaned"
       PROVE  \A l \in Jobs : j < l /\ place[l] = "ready" => place'[l] = "ready"
  <2>1. k <= j
    BY <1>4, <1>10
  <2>2. \A l \in Jobs : j < l => l # k
    BY <2>1, GatewayAssumption DEF Jobs
  <2> QED
    BY <1>5, <1>10, <1>t, <2>2
<1>11. ASSUME NEW k \in Jobs, GetDelivery(k) \/ GetMalformed(k)
       PROVE  place'[j] \in Pending /\ reported'[j] = reported[j]
  BY <1>5, <1>11, <1>t
<1>12. ASSUME UNCHANGED reported,
              \A k \in Jobs : place'[k] # place[k] => k # j /\ place[k] = "unacked"
       PROVE  /\ place'[j] \in Pending /\ reported'[j] = reported[j]
              /\ \A k \in Jobs : place[k] = "ready" => place'[k] = "ready"
  BY <1>12
<1>13. CASE \E k \in Jobs : DisposeOfRest(k)
  BY <1>9, <1>12, <1>13
<1>14. CASE \E k \in Jobs : GetDelivery(k) \/ GetMalformed(k)
  BY <1>10, <1>11, <1>14
<1>15. CASE \E k \in Jobs, i \in Images : Publish(k, i)
  BY <1>2, <1>15
<1> QED
  BY <1>1, <1>3, <1>6, <1>7, <1>8, <1>13, <1>14, <1>15
  DEF Next, ConsumerStep, Prepare, Index, Settle, vars, StartConsumer, RequestStop, BeginBatch,
      EndGet, DeclareResultQueue, PrepareOk, PrepareDead, PrepareRequeue, EncodeBatch,
      EncodeFails, UpsertOk, UpsertFails, Cleanup, CleanupFails, EndBatch, ExitOnChannelError

\* However often the gateway is restarted, a malformed message is never settled,
\* and what is behind it waits for it, but while a dead process seems to hold it.
THEOREM MalformedStopsTheQueue == Spec => NothingPassesMalformed
<1>1. IInv /\ [Next]_vars =>
        [\A j \in Jobs : imageOf[j] \in Malformed /\ place[j] \in Pending =>
           /\ place'[j] \in Pending /\ reported'[j] = reported[j]
           /\ place[j] # "orphaned" =>
                 \A k \in Jobs : j < k /\ place[k] = "ready" => place'[k] = "ready"]_vars
  BY MalformedStep
<1> QED
  BY <1>1, IngestionInvariant, PTL DEF Spec, NothingPassesMalformed

-----------------------------------------------------------------------------
(***************************************************************************)
(* The ingestion loop implements ImageJobs.                                *)
(***************************************************************************)
\* An empty queue is the initial state of the promise.
LEMMA PromiseInit == Init => Promise!Init
<1> SUFFICES ASSUME Init PROVE Promise!Init
  OBVIOUS
<1>1. imageOf \in [Jobs -> Images]
  BY TypeInit DEF TypeOK
<1>2. [j \in Jobs |-> JobStatus(place[j])] = [j \in Jobs |-> "absent"]
  BY DEF Init, JobStatus
<1> QED
  BY <1>1, <1>2 DEF Init, Promise!Init

\* Every step of the gateway is one of ImageJobs or changes nothing it sees:
\* a publication submits, an upsert makes images searchable, a result event
\* tells, an ack or a drop finishes, and requeueing leaves a job pending.
LEMMA PromiseStep == IInv /\ IInv' /\ [Next]_vars => [Promise!Next]_Promise!vars
<1> SUFFICES ASSUME IInv, IInv', [Next]_vars PROVE [Promise!Next]_Promise!vars
  OBVIOUS
<1> DEFINE st == [j \in Jobs |-> JobStatus(place[j])]
<1>t. TypeOK /\ TypeOK'
  BY DEF IInv
<1>s. ASSUME UNCHANGED <<imageOf, indexed, reported>>,
             \A j \in Jobs : JobStatus(place[j])' = JobStatus(place[j])
      PROVE  UNCHANGED Promise!vars
  BY <1>s DEF Promise!vars
<1>1. ASSUME NEW j \in Jobs, NEW i \in Images, Publish(j, i) PROVE Promise!Submit(j, i)
  BY <1>1, <1>t DEF Publish, JobStatus, Promise!Submit, TypeOK
<1>2. CASE StartConsumer \/ RequestStop \/ BeginBatch \/ EndGet \/ DeclareResultQueue
  BY <1>2, <1>s DEF StartConsumer, RequestStop, BeginBatch, EndGet, DeclareResultQueue
<1>3. CASE Crash
  BY <1>3, <1>s DEF Crash, Moved, JobStatus
<1>4. CASE RecoverOrphans \/ LoseConnection \/ StopConsumer \/ CloseAndExit
  BY <1>4, <1>s DEF RecoverOrphans, LoseConnection, StopConsumer, CloseAndExit, Moved, JobStatus
<1>5. ASSUME NEW j \in Jobs, GetDelivery(j) \/ GetMalformed(j) PROVE UNCHANGED Promise!vars
  BY <1>5, <1>s, <1>t DEF GetDelivery, GetMalformed, IsHead, JobStatus, TypeOK
<1>6. CASE Announce
  <2> DEFINE x == batch[cursor]
  <2>1. pc = "sendStatus" /\ UNCHANGED <<place, imageOf, indexed>>
        /\ reported' = IF conn = "open" THEN [reported EXCEPT ![x] = "processing"]
                       ELSE reported
    BY <1>6 DEF Announce, PublishResult
  <2>2. CASE conn = "open"
    <3>1. x \in Outstanding
      BY <2>1, LenProperties DEF IInv, LoopPosition, TypeOK, Outstanding, Range
    <3>2. x \in Jobs /\ place[x] = "unacked"
      BY <2>2, <3>1, OutstandingIsPending
    <3>3. Promise!Tell(x, "processing")
      BY <2>1, <2>2, <3>2 DEF Promise!Tell, JobStatus
    <3> QED
      BY <3>2, <3>3 DEF Promise!Next
  <2>3. CASE conn # "open"
    BY <1>s, <2>1, <2>3
  <2> QED
    BY <2>2, <2>3
<1>7. CASE Prepare \/ EncodeBatch \/ EncodeFails \/ Cleanup \/ CleanupFails
  BY <1>7, <1>s DEF Prepare, PrepareOk, PrepareDead, PrepareRequeue, EncodeBatch, EncodeFails,
     Cleanup, CleanupFails
<1>8. CASE UpsertOk \/ UpsertFails
  <2>1. pc = "upsert" /\ UNCHANGED <<place, imageOf, reported>>
        /\ (indexed' = indexed \/ indexed' = indexed \cup PreparedImages)
    BY <1>8 DEF UpsertOk, UpsertFails
  <2>2. CASE indexed' = indexed
    BY <1>s, <2>1, <2>2
  <2>3. CASE indexed' = indexed \cup PreparedImages
    <3>1. Range(prepared) \subseteq Outstanding
      BY <2>1 DEF IInv, Sorting, Outstanding
    <3>2. \A j \in Range(prepared) : j \in Jobs /\ JobStatus(place[j]) = "pending"
      BY <3>1, OutstandingIsPending DEF JobStatus
    <3>3. PreparedImages \subseteq Images
      BY <1>t, <3>2 DEF PreparedImages, TypeOK
    <3>4. Promise!MakeSearchable(PreparedImages)
      BY <2>1, <2>3, <3>2 DEF Promise!MakeSearchable, PreparedImages
    <3> QED
      BY <3>3, <3>4 DEF Promise!Next
  <2> QED
    BY <2>1, <2>2, <2>3
<1>9. CASE PublishEvent
  <2> DEFINE x == Head(events).job
             t == Head(events).status
  <2>1. pc = "sendEvent" /\ UNCHANGED <<place, imageOf, indexed, conn>>
        /\ reported' = IF conn = "open" THEN [reported EXCEPT ![x] = t] ELSE reported
    BY <1>9 DEF PublishEvent, PublishResult
  <2>2. /\ x \in Jobs /\ t \in {"indexed", "failed"} /\ x \in Outstanding
        /\ t = "indexed" => imageOf[x] \in indexed
    BY <2>1, NextEvent DEF IInv, LoopPosition, Outstanding, Unhandled, AckedAreIndexed
  <2>3. CASE conn = "open"
    <3>1. place[x] = "unacked" /\ reported[x] = "processing"
      BY <2>1, <2>2, <2>3, OutstandingIsPending DEF IInv, Announced, EventIsOut
    <3>2. Promise!Tell(x, t)
      BY <2>1, <2>2, <2>3, <3>1 DEF Promise!Tell, JobStatus
    <3> QED
      BY <2>2, <3>2 DEF Promise!Next
  <2>4. CASE conn # "open"
    BY <1>s, <2>1, <2>4
  <2> QED
    BY <2>3, <2>4
<1>10. CASE DisposeOfEvent
  <2> DEFINE x == Head(events).job
             t == Head(events).status
  <2>1. /\ pc = "dispose" /\ UNCHANGED <<imageOf, indexed, reported>>
        /\ place' = IF conn = "closed" THEN place ELSE [place EXCEPT ![x] =
                        IF x \in acked THEN "acked"
                        ELSE IF x \in requeue THEN "ready" ELSE "dropped"]
    BY <1>10 DEF DisposeOfEvent, Dispose
  <2>2. /\ x \in Jobs /\ t \in {"indexed", "failed"} /\ x \in Outstanding
        /\ x \notin requeue
        /\ t = "indexed" <=> x \in acked
    BY <2>1, NextEvent DEF IInv, LoopPosition, Outstanding, Unhandled
  <2>3. CASE conn = "open"
    <3>1. place[x] = "unacked" /\ reported[x] = t
      BY <2>1, <2>2, <2>3, OutstandingIsPending DEF IInv, EventSent
    <3>2. \A j \in Jobs : JobStatus(place[j])' = IF j = x THEN t ELSE JobStatus(place[j])
      <4> HIDE DEF x, t
      <4>1. \A j \in Jobs : j # x => place'[j] = place[j]
        BY <1>t, <2>1, <2>2, <2>3 DEF TypeOK
      <4>p. place \in [Jobs -> Places]
        BY <1>t DEF TypeOK
      <4>q. place' = [place EXCEPT ![x] = IF x \in acked THEN "acked"
                                        ELSE IF x \in requeue THEN "ready" ELSE "dropped"]
        BY <2>1, <2>3
      <4>2. CASE t = "indexed"
        <5>1. place'[x] = "acked"
          BY <2>2, <4>p, <4>q, <4>2
        <5> QED
          BY <4>1, <4>2, <5>1 DEF JobStatus
      <4>3. CASE t = "failed"
        <5>1. place'[x] = "dropped"
          BY <2>2, <4>p, <4>q, <4>3
        <5> QED
          BY <4>1, <4>3, <5>1 DEF JobStatus
      <4> QED
        BY <2>2, <4>2, <4>3
    <3>3. Promise!Finish(x, t)
      BY <2>1, <2>2, <3>1, <3>2 DEF Promise!Finish, JobStatus
    <3> QED
      BY <2>2, <3>3 DEF Promise!Next
  <2>4. CASE conn = "closed"
    BY <1>s, <2>1, <2>4
  <2> QED
    BY <1>t, <2>3, <2>4 DEF TypeOK
<1>11. ASSUME NEW j \in Jobs, DisposeOfRest(j) PROVE UNCHANGED Promise!vars
  <2>1. Range(<<>>) = {}
    BY EmptySeq DEF Range
  <2>2. pc = "publish" /\ acked = {} /\ dead = {} /\ j \in requeue
    BY <1>11, <2>1 DEF DisposeOfRest, IInv, OneDisposition, EventJobs
  <2>3. place[j] \in {"unacked", "ready"}
    BY <2>2, OutstandingIsPending DEF Outstanding, Unhandled
  <2>4. /\ UNCHANGED <<imageOf, indexed, reported>>
        /\ place' = IF conn = "closed" THEN place ELSE [place EXCEPT ![j] = "ready"]
    BY <1>11, <2>2 DEF DisposeOfRest, Dispose
  <2> QED
    BY <1>s, <1>t, <2>3, <2>4 DEF JobStatus, TypeOK
<1>12. CASE EndBatch \/ ExitOnChannelError
  BY <1>12, <1>s DEF EndBatch, ExitOnChannelError
<1>13. CASE UNCHANGED vars
  BY <1>13, <1>s DEF vars
<1> QED
  BY <1>1, <1>2, <1>3, <1>4, <1>5, <1>6, <1>7, <1>8, <1>9, <1>10, <1>11, <1>12, <1>13
  DEF Next, ConsumerStep, Prepare, Index, Settle, Promise!Next

\* Seen from outside, the gateway with its queue is a service that keeps the
\* promise of ImageJobs, for any number of jobs and any number of faults.
THEOREM GatewayImplementsImageJobs == Spec => ImplementsImageJobs
<1>1. Init => Promise!Init
  BY PromiseInit
<1>2. IInv /\ IInv' /\ [Next]_vars => [Promise!Next]_Promise!vars
  BY PromiseStep
<1> QED
  BY <1>1, <1>2, IngestionInvariant, PTL DEF Spec, ImplementsImageJobs, Promise!Spec
=============================================================================
