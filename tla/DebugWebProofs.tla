--------------------------- MODULE DebugWebProofs ---------------------------
(***************************************************************************)
(* Proofs about DebugWeb, for any keys and requests, any numbers of files, *)
(* jobs and events, any prefetch window, and any number of faults and lost *)
(* connections.                                                            *)
(***************************************************************************)
EXTENDS DebugWeb, FiniteSetTheorems, SequenceTheorems, TLAPS

-----------------------------------------------------------------------------
(***************************************************************************)
(* The window of fetched events as a sequence.                             *)
(***************************************************************************)

\* Delivering an event puts it behind those in the window.
LEMMA AppendFacts ==
  ASSUME NEW S, NEW s \in Seq(S), NEW e \in S
  PROVE  /\ Append(s, e) \in Seq(S) /\ Len(Append(s, e)) = Len(s) + 1
         /\ \A i \in 1..Len(s) : Append(s, e)[i] = s[i]
         /\ Append(s, e)[Len(s) + 1] = e
         /\ Range(Append(s, e)) = Range(s) \cup {e}
  <1>1. /\ Append(s, e) \in Seq(S) /\ Len(Append(s, e)) = Len(s) + 1
        /\ \A i \in 1..Len(s) : Append(s, e)[i] = s[i]
        /\ Append(s, e)[Len(s) + 1] = e
    BY AppendProperties
  <1>2. /\ Len(s) \in Nat /\ DOMAIN s = 1..Len(s)
        /\ DOMAIN Append(s, e) = 1..(Len(s) + 1)
    BY <1>1, LenProperties
  <1>3. Range(Append(s, e)) = Range(s) \cup {e}
    BY <1>1, <1>2 DEF Range
  <1> QED
    BY <1>1, <1>3

\* Acks and nacks take the head off the window.
LEMMA TailFacts ==
  ASSUME NEW S, NEW s \in Seq(S), s # <<>>
  PROVE  /\ Len(s) \in Nat \ {0} /\ Head(s) = s[1] /\ Head(s) \in S /\ Head(s) \in Range(s)
         /\ Tail(s) \in Seq(S) /\ Len(Tail(s)) = Len(s) - 1
         /\ \A i \in 1..(Len(s) - 1) : Tail(s)[i] = s[i + 1]
         /\ Range(s) = {Head(s)} \cup Range(Tail(s))
  <1>1. Len(s) \in Nat \ {0} /\ DOMAIN s = 1..Len(s) /\ Head(s) = s[1]
    BY EmptySeq, LenProperties
  <1>2. /\ Head(s) \in S /\ Tail(s) \in Seq(S) /\ Len(Tail(s)) = Len(s) - 1
        /\ \A i \in 1..(Len(s) - 1) : Tail(s)[i] = s[i + 1]
    BY HeadTailProperties
  <1>3. DOMAIN Tail(s) = 1..(Len(s) - 1)
    BY <1>2, LenProperties
  <1>4. ASSUME NEW y \in Range(s) PROVE y \in {Head(s)} \cup Range(Tail(s))
    <2>1. PICK i \in 1..Len(s) : y = s[i]
      BY <1>1 DEF Range
    <2>2. CASE i = 1
      BY <1>1, <2>1, <2>2
    <2>3. CASE i # 1
      <3>1. i - 1 \in 1..(Len(s) - 1) /\ Tail(s)[i - 1] = y
        BY <1>1, <1>2, <2>1, <2>3
      <3> QED
        BY <1>3, <3>1 DEF Range
    <2> QED
      BY <2>2, <2>3
  <1>5. ASSUME NEW y \in Range(Tail(s)) PROVE y \in Range(s)
    <2>1. PICK i \in 1..(Len(s) - 1) : y = Tail(s)[i]
      BY <1>3 DEF Range
    <2>2. i + 1 \in 1..Len(s) /\ y = s[i + 1]
      BY <1>1, <1>2, <2>1
    <2> QED
      BY <1>1, <2>2 DEF Range
  <1>6. Head(s) \in Range(s)
    BY <1>1 DEF Range
  <1> QED
    BY <1>1, <1>2, <1>4, <1>5, <1>6

\* An empty window.
LEMMA EmptyFacts == /\ Range(<<>>) = {} /\ Len(<<>>) = 0
                    /\ \A S : <<>> \in Seq(S)
  BY EmptySeq DEF Range

-----------------------------------------------------------------------------
(***************************************************************************)
(* Types, with the positions of the requests and of the consumer that the  *)
(* next calls depend on.                                                   *)
(***************************************************************************)

\* A request that has work to do is at one of its files.
RequestPosition ==
    \A r \in Requests :
        /\ at[r] = "new" => pos[r] = 1
        /\ InFlight(r) => pos[r] <= Len(files[r])

\* The consumer acks what it applied, drops what it could not parse, and holds a
\* window only while it runs.
ConsumerPosition ==
    /\ consumer \in {"ack", "nack", "drop"} => fetched # <<>>
    /\ consumer = "ack" => Head(fetched) \in applied
    /\ consumer = "drop" => log[Head(fetched)] = Unreadable
    /\ \A e \in applied : log[e].key \in Keys
    /\ consumer \in {"ended", "down"} => fetched = <<>>

Typed == TypeOK /\ RequestPosition /\ ConsumerPosition

\* No request, no event, no job.
LEMMA InitTyped == Init => Typed
  <1> SUFFICES ASSUME Init PROVE Typed
    OBVIOUS
  <1> USE DebugWebAssumption
  <1>1. subject \in [Jobs -> Keys]
    <2>1. (CHOOSE k \in Keys : TRUE) \in Keys
      OBVIOUS
    <2> QED
      BY <2>1, Zenon DEF Init
  <1>2. TypeOK
    BY <1>1, EmptyFacts DEF Init, TypeOK, Gateway!Init, Jobs
  <1>3. RequestPosition /\ ConsumerPosition
    BY DEF Init, RequestPosition, ConsumerPosition, InFlight
  <1> QED
    BY <1>2, <1>3 DEF Typed

\* The file a request is at.
LEMMA FileType ==
  ASSUME Typed, NEW r \in Requests, InFlight(r)
  PROVE  File(r) \in OwnKeys /\ pos[r] \in 1..Len(files[r]) /\ Len(files[r]) \in Nat
  BY ElementOfSeq, LenProperties, DebugWebAssumption DEF Typed, TypeOK, RequestPosition, File

\* What a request does changes its own place only, and leaves the consumer alone.
LEMMA RequestTyped ==
  ASSUME Typed, NEW r \in Requests, RequestStep(r)
  PROVE  Typed'
  <1> USE DebugWebAssumption
  <1>1. InFlight(r) /\ r \in DOMAIN at /\ r \in DOMAIN pos
    BY DEF Typed, TypeOK, RequestStep, StoreObject, StoreFails, RecordQueued, RecordFails,
           DeclareJobQueue, SendJob, SendJobOnLostConnection, InFlight
  <1>2. File(r) \in OwnKeys /\ pos[r] \in 1..Len(files[r]) /\ Len(files[r]) \in Nat
    BY <1>1, FileType
  <1>3. /\ UNCHANGED <<files, consumer, fetched, log, applied, queued, orphaned, redelivered>>
        /\ at' \in [Requests -> {"new", "store", "record", "declare", "send", "ok", "refused"}]
        /\ pos' \in [Requests -> 1..(MaxFiles + 1)]
        /\ RequestPosition'
    <2>1. CASE StoreObject(r)
      BY <1>1, <2>1 DEF Typed, TypeOK, RequestPosition, InFlight, StoreObject, Goto, queueVars
    <2>2. CASE StoreFails(r)
      BY <1>1, <2>2 DEF Typed, TypeOK, RequestPosition, InFlight, StoreFails, Goto, queueVars
    <2>3. CASE RecordQueued(r)
      BY <1>1, <2>3 DEF Typed, TypeOK, RequestPosition, InFlight, RecordQueued, Goto, queueVars
    <2>4. CASE RecordFails(r)
      BY <1>1, <2>4 DEF Typed, TypeOK, RequestPosition, InFlight, RecordFails, Goto, queueVars
    <2>5. CASE DeclareJobQueue(r)
      BY <1>1, <2>5 DEF Typed, TypeOK, RequestPosition, InFlight, DeclareJobQueue, Goto, queueVars
    <2>6. CASE SendJob(r) \/ SendJobOnLostConnection(r)
      <3>1. NextFile(r) \/ (Goto(r, "refused") /\ UNCHANGED pos)
        BY <2>6 DEF SendJob, SendJobOnLostConnection
      <3>2. UNCHANGED <<files, consumer, fetched, log, applied, queued, orphaned, redelivered>>
        BY <2>6 DEF SendJob, SendJobOnLostConnection, queueVars
      <3>3. CASE Goto(r, "refused") /\ UNCHANGED pos
        BY <3>2, <3>3 DEF Typed, TypeOK, RequestPosition, InFlight, Goto
      <3>4. CASE NextFile(r) /\ pos[r] < Len(files[r])
        <4>1. at' = [at EXCEPT ![r] = "store"] /\ pos' = [pos EXCEPT ![r] = pos[r] + 1]
          BY <3>4 DEF NextFile, Goto
        <4>2. Len(files[r]) <= MaxFiles /\ MaxFiles \in Nat
          BY DEF Typed, TypeOK
        <4>3. pos[r] + 1 \in 1..(MaxFiles + 1) /\ pos[r] + 1 <= Len(files[r])
          BY <1>2, <3>4, <4>2
        <4>4. at' \in [Requests -> {"new", "store", "record", "declare", "send", "ok", "refused"}]
          BY <4>1 DEF Typed, TypeOK
        <4>5. pos' \in [Requests -> 1..(MaxFiles + 1)]
          BY <4>1, <4>3 DEF Typed, TypeOK
        <4>6. RequestPosition'
          BY <1>1, <3>2, <4>1, <4>3 DEF Typed, TypeOK, RequestPosition, InFlight
        <4> QED
          BY <3>2, <4>4, <4>5, <4>6
      <3>5. CASE NextFile(r) /\ ~(pos[r] < Len(files[r]))
        BY <1>2, <3>2, <3>5 DEF Typed, TypeOK, RequestPosition, InFlight, Goto, NextFile
      <3> QED
        BY <3>1, <3>3, <3>4, <3>5
    <2> QED
      BY <2>1, <2>2, <2>3, <2>4, <2>5, <2>6 DEF RequestStep
  <1>4. /\ objects' \subseteq Keys /\ publisher' \in {"open", "closed"}
        /\ unsent' \subseteq OwnKeys /\ losses' \in 0..MaxLosses /\ faults' \in 0..MaxFaults
    <2>1. CASE StoreObject(r)
      BY <1>2, <2>1 DEF Typed, TypeOK, StoreObject, OwnKeys
    <2>2. CASE StoreFails(r)
      <3>1. objects' = objects \/ objects' = objects \cup {File(r)}
        BY <2>2 DEF StoreFails
      <3>2. File(r) \in Keys
        BY <1>2 DEF OwnKeys
      <3>3. objects' \subseteq Keys
        BY <3>1, <3>2 DEF Typed, TypeOK
      <3>4. faults' \in 0..MaxFaults
        BY <2>2 DEF StoreFails, Fault, Typed, TypeOK
      <3> QED
        BY <2>2, <3>3, <3>4 DEF StoreFails, Typed, TypeOK
    <2>3. CASE RecordQueued(r) \/ RecordFails(r) \/ DeclareJobQueue(r) \/ SendJob(r)
      BY <2>3 DEF Typed, TypeOK, RecordQueued, RecordFails, DeclareJobQueue, SendJob, Fault
    <2>4. CASE SendJobOnLostConnection(r)
      BY <1>2, <2>4 DEF Typed, TypeOK, SendJobOnLostConnection
    <2> QED
      BY <2>1, <2>2, <2>3, <2>4 DEF RequestStep
  <1>5. /\ row' \in [Keys -> {"absent", "queued", "processing", "indexed", "failed"}]
        /\ updatedAt' \in [Keys -> 0..MaxEvents]
    <2>1. Len(log) \in 0..MaxEvents
      BY LenProperties DEF Typed, TypeOK
    <2>2. CASE RecordQueued(r)
      BY <1>2, <2>1, <2>2 DEF Typed, TypeOK, RecordQueued
    <2>3. CASE ~RecordQueued(r)
      BY <2>3 DEF Typed, TypeOK, RequestStep, StoreObject, StoreFails, RecordFails,
           DeclareJobQueue, SendJob, SendJobOnLostConnection, rowVars
    <2> QED
      BY <2>2, <2>3
  <1>6. /\ status' \in [Jobs -> {"absent", "pending", "indexed", "failed"}]
        /\ subject' \in [Jobs -> Keys] /\ searchable' \subseteq Keys
        /\ told' \in [Jobs -> {"none", "processing", "indexed", "failed"}]
    <2>1. CASE SendJob(r)
      BY <1>2, <2>1 DEF Typed, TypeOK, SendJob, NewJob, Gateway!Submit, OwnKeys
    <2>2. CASE ~SendJob(r)
      BY <2>2 DEF Typed, TypeOK, RequestStep, StoreObject, StoreFails, RecordQueued, RecordFails,
           DeclareJobQueue, SendJobOnLostConnection, gatewayVars
    <2> QED
      BY <2>1, <2>2
  <1>7. TypeOK'
    BY <1>3, <1>4, <1>5, <1>6 DEF Typed, TypeOK
  <1>8. ConsumerPosition'
    BY <1>3 DEF Typed, ConsumerPosition
  <1> QED
    BY <1>3, <1>7, <1>8 DEF Typed

\* A message is a result event, about a key, or cannot be read and is about none.
LEMMA EventType ==
  ASSUME Typed, NEW e \in DOMAIN log
  PROVE  /\ e \in 1..Len(log) /\ e \in Events /\ Len(log) \in 0..MaxEvents
         /\ \/ /\ log[e] # Unreadable
               /\ log[e].key \in Keys /\ log[e].status \in Statuses
               /\ log[e] = [key |-> log[e].key, status |-> log[e].status]
            \/ log[e] = Unreadable /\ log[e].key \notin Keys
  <1>1. Len(log) \in Nat /\ DOMAIN log = 1..Len(log)
    BY LenProperties DEF Typed, TypeOK
  <1>2. log[e] \in [key : Keys, status : Statuses] \cup {Unreadable}
    BY <1>1, ElementOfSeq DEF Typed, TypeOK
  <1>3. Unreadable.key \notin Keys
    BY DebugWebAssumption DEF Unreadable
  <1>4. CASE log[e] = Unreadable
    BY <1>1, <1>3, <1>4, DebugWebAssumption DEF Typed, TypeOK, Events
  <1>5. CASE log[e] \in [key : Keys, status : Statuses]
    BY <1>1, <1>3, <1>5, DebugWebAssumption DEF Typed, TypeOK, Events
  <1> QED
    BY <1>2, <1>4, <1>5

\* The head of the window.
LEMMA HeadType ==
  ASSUME Typed, fetched # <<>>
  PROVE  /\ Head(fetched) \in DOMAIN log /\ Head(fetched) \in Range(fetched)
         /\ Range(Tail(fetched)) \subseteq Range(fetched)
  BY TailFacts DEF Typed, TypeOK

\* The broker's and the consumer's steps keep the window within the log.
LEMMA ConsumerTyped ==
  ASSUME Typed,
         \/ \E e \in Events : Deliver(e)
         \/ HandleResult \/ LoseConsumer \/ RecoverOrphans
  PROVE  Typed'
  <1> USE DebugWebAssumption
  <1>1. ASSUME NEW e \in Events, Deliver(e) PROVE Typed'
    <2>1. fetched \in Seq(Events)
      BY DEF Typed, TypeOK
    <2>2. /\ fetched' \in Seq(Events) /\ Len(fetched') <= Prefetch
          /\ Range(fetched') = Range(fetched) \cup {e}
      <3>1. Len(fetched) \in Nat
        BY <2>1, LenProperties
      <3> QED
        BY <1>1, <2>1, <3>1, AppendFacts DEF Deliver
    <2>3. TypeOK' /\ RequestPosition'
      BY <1>1, <2>2 DEF Typed, TypeOK, RequestPosition, InFlight, Deliver, rowVars, requestVars, gatewayVars
    <2>4. consumer \in {"ack", "drop"} => Head(fetched') = Head(fetched)
      BY <1>1, <2>1, HeadTailAppend DEF Deliver, Typed, ConsumerPosition
    <2>5. fetched' # <<>>
      BY <1>1, <2>1, AppendProperties DEF Deliver
    <2>6. ConsumerPosition'
      <3>1. /\ consumer \notin {"ended", "down"} /\ UNCHANGED <<consumer, log, applied>>
        BY <1>1 DEF Deliver, Consuming
      <3>2. /\ consumer = "ack" => Head(fetched) \in applied
            /\ consumer = "drop" => log[Head(fetched)] = Unreadable
            /\ \A d \in applied : log[d].key \in Keys
        BY DEF Typed, ConsumerPosition
      <3>3. consumer = "ack" => Head(fetched') \in applied
        BY <2>4, <3>2
      <3>4. consumer = "drop" => log[Head(fetched')] = Unreadable
        BY <2>4, <3>2
      <3> QED
        BY <2>5, <3>1, <3>2, <3>3, <3>4 DEF ConsumerPosition
    <2> QED
      BY <2>3, <2>6 DEF Typed
  <1>2. CASE ApplyResult
    <2>1. Head(fetched) \in DOMAIN log /\ Head(fetched) \in 0..MaxEvents
      BY <1>2, HeadType, EventType DEF ApplyResult, Events
    <2>2. RequestPosition'
      BY <1>2 DEF Typed, RequestPosition, InFlight, ApplyResult, requestVars
    <2>3. CASE UNCHANGED <<rowVars, applied>>
      <3>1. consumer' \in {"drop", "nack"} \/ (consumer' = "ack" /\ applied' = applied \cup {Head(fetched)})
        BY <1>2 DEF ApplyResult, Update
      <3>2. consumer' = "drop" => log[Head(fetched)] = Unreadable
        BY <1>2 DEF ApplyResult
      <3>3. TypeOK'
        BY <1>2, <2>3, <3>1 DEF Typed, TypeOK, ApplyResult, rowVars, requestVars, queueVars, gatewayVars
      <3>4. ConsumerPosition'
        BY <1>2, <2>3, <3>1, <3>2 DEF Typed, ConsumerPosition, ApplyResult, queueVars
      <3> QED
        BY <2>2, <3>3, <3>4 DEF Typed
    <2>4. CASE Update(Head(fetched), log[Head(fetched)].status) /\ consumer' = "ack"
                 /\ log[Head(fetched)] # Unreadable
      <3>1. log[Head(fetched)].key \in Keys /\ log[Head(fetched)].status \in Statuses
        BY <2>1, <2>4, EventType
      <3>2. TypeOK'
        BY <1>2, <2>1, <2>4, <3>1 DEF Typed, TypeOK, Statuses, ApplyResult, Update, requestVars,
             queueVars, gatewayVars
      <3>3. ConsumerPosition'
        BY <1>2, <2>4, <3>1 DEF Typed, ConsumerPosition, ApplyResult, Update, queueVars
      <3> QED
        BY <2>2, <3>2, <3>3 DEF Typed
    <2> QED
      BY <1>2, <2>3, <2>4 DEF ApplyResult
  <1>3. CASE ApplyFails
    <2>1. TypeOK'
      BY <1>3 DEF Typed, TypeOK, ApplyFails, Fault, rowVars, requestVars, queueVars, gatewayVars
    <2>2. RequestPosition' /\ ConsumerPosition'
      BY <1>3 DEF Typed, RequestPosition, InFlight, ConsumerPosition, ApplyFails, requestVars, queueVars
    <2> QED
      BY <2>1, <2>2 DEF Typed
  <1>4. CASE AckResult \/ DropResult \/ NackResult
    <2>1. fetched # <<>> /\ fetched' = Tail(fetched) /\ consumer' = "idle"
      BY <1>4 DEF AckResult, DropResult, NackResult, Typed, ConsumerPosition
    <2>2. Tail(fetched) \in Seq(Events) /\ Len(Tail(fetched)) <= Prefetch
      BY <2>1, TailFacts DEF Typed, TypeOK
    <2>3. TypeOK'
      BY <1>4, <2>1, <2>2, HeadType DEF Typed, TypeOK, AckResult, DropResult, NackResult, GiveBack,
                rowVars, requestVars, gatewayVars
    <2>4. RequestPosition' /\ ConsumerPosition'
      BY <1>4, <2>1 DEF Typed, RequestPosition, InFlight, ConsumerPosition, AckResult, DropResult,
                NackResult, GiveBack, requestVars
    <2> QED
      BY <2>3, <2>4 DEF Typed
  <1>5. CASE LoseConsumer
    <2>1. TypeOK'
      BY <1>5, EmptyFacts DEF Typed, TypeOK, LoseConsumer, Loss, GiveBack, rowVars, requestVars, gatewayVars
    <2>2. RequestPosition' /\ ConsumerPosition'
      BY <1>5 DEF Typed, RequestPosition, InFlight, ConsumerPosition, LoseConsumer, requestVars
    <2> QED
      BY <2>1, <2>2 DEF Typed
  <1>6. CASE RecoverOrphans
    <2>1. TypeOK'
      BY <1>6 DEF Typed, TypeOK, RecoverOrphans, GiveBack, rowVars, requestVars, gatewayVars
    <2>2. RequestPosition' /\ ConsumerPosition'
      BY <1>6 DEF Typed, RequestPosition, InFlight, ConsumerPosition, RecoverOrphans, requestVars
    <2> QED
      BY <2>1, <2>2 DEF Typed
  <1> QED
    BY <1>1, <1>2, <1>3, <1>4, <1>5, <1>6 DEF HandleResult

\* A message that reaches the queue comes at the end of the log.
LEMMA EnqueueTyped ==
  ASSUME Typed, NEW message \in [key : Keys, status : Statuses] \cup {Unreadable},
         Enqueue(message)
  PROVE  /\ Len(log) \in Nat /\ DOMAIN log = 1..Len(log)
         /\ log' \in Seq([key : Keys, status : Statuses] \cup {Unreadable})
         /\ Len(log') = Len(log) + 1 /\ Len(log') <= MaxEvents
         /\ DOMAIN log' = 1..(Len(log) + 1)
         /\ \A e \in DOMAIN log : log'[e] = log[e]
         /\ log'[Len(log) + 1] = message
         /\ queued' = queued \cup {Len(log) + 1}
  <1> DEFINE S == [key : Keys, status : Statuses] \cup {Unreadable}
  <1>1. log \in Seq(S) /\ message \in S
    BY DEF Typed, TypeOK
  <1>2. Len(log) \in Nat /\ DOMAIN log = 1..Len(log)
    BY <1>1, LenProperties
  <1>3. Len(log) < MaxEvents /\ log' = Append(log, message) /\ queued' = queued \cup {Len(log) + 1}
    BY DEF Enqueue
  <1>4. /\ log' \in Seq(S) /\ Len(log') = Len(log) + 1
        /\ \A e \in 1..Len(log) : log'[e] = log[e]
        /\ log'[Len(log) + 1] = message
    BY <1>1, <1>3, AppendProperties
  <1>5. DOMAIN log' = 1..(Len(log) + 1)
    BY <1>4, LenProperties
  <1> QED
    BY <1>2, <1>3, <1>4, <1>5, DebugWebAssumption

\* Its consequence for the types, whoever put it there.
LEMMA EnqueueKeepsTypes ==
  ASSUME Typed, NEW message \in [key : Keys, status : Statuses] \cup {Unreadable},
         Enqueue(message),
         UNCHANGED <<objects, rowVars, requestVars, publisher, consumer, fetched, orphaned,
                     redelivered, applied, unsent, faults, losses, status, subject, searchable>>,
         told' \in [Jobs -> {"none", "processing", "indexed", "failed"}]
  PROVE  Typed'
  <1>1. TypeOK'
    <2>1. queued' \cup orphaned' \cup redelivered' \cup applied' \cup Range(fetched') \subseteq DOMAIN log'
      BY EnqueueTyped DEF Typed, TypeOK
    <2> QED
      BY <2>1, EnqueueTyped DEF Typed, TypeOK, rowVars, requestVars
  <1>2. RequestPosition'
    BY DEF Typed, RequestPosition, InFlight, requestVars
  <1>3. ConsumerPosition'
    <2>1. \A e \in applied : e \in DOMAIN log /\ log'[e] = log[e]
      BY EnqueueTyped DEF Typed, TypeOK
    <2>2. consumer = "drop" => log'[Head(fetched)] = log[Head(fetched)]
      BY EnqueueTyped, HeadType DEF Typed, ConsumerPosition
    <2> QED
      BY <2>1, <2>2 DEF Typed, ConsumerPosition
  <1> QED
    BY <1>1, <1>2, <1>3 DEF Typed

\* A message that nobody can parse.
LEMMA StrayTyped ==
  ASSUME Typed, PutStray
  PROVE  Typed'
  <1>1. Enqueue(Unreadable)
    BY DEF PutStray
  <1> QED
    BY <1>1, EnqueueKeepsTypes DEF PutStray, gatewayVars, Typed, TypeOK

\* The gateway's events are about images, and they come at the end of the log.
LEMMA GatewayTyped ==
  ASSUME Typed, GatewayStep \/ \E k \in Foreign : PublishForeign(k)
  PROVE  Typed'
  <1> USE DebugWebAssumption
  <1>1. ASSUME NEW j \in Jobs, NEW s \in Statuses, GatewayTells(j, s)
        PROVE  Typed'
    <2>1. [key |-> subject[j], status |-> s] \in [key : Keys, status : Statuses]
      BY DEF Typed, TypeOK
    <2>2. Enqueue([key |-> subject[j], status |-> s])
      BY <1>1 DEF GatewayTells
    <2>3. told' \in [Jobs -> {"none", "processing", "indexed", "failed"}]
          /\ UNCHANGED <<status, subject, searchable>>
      BY <1>1 DEF Typed, TypeOK, GatewayTells, Gateway!Tell, Statuses
    <2> QED
      BY <1>1, <2>1, <2>2, <2>3, EnqueueKeepsTypes DEF GatewayTells
  <1>2. CASE GatewayWorks
    BY <1>2 DEF Typed, TypeOK, RequestPosition, InFlight, ConsumerPosition, GatewayWorks,
                Gateway!MakeSearchable, Gateway!Finish, rowVars, requestVars, queueVars
  <1>3. ASSUME NEW k \in Foreign, PublishForeign(k) PROVE Typed'
    <2>1. k \in Keys
      OBVIOUS
    <2>2. TypeOK'
      BY <1>3, <2>1 DEF Typed, TypeOK, PublishForeign, NewJob, Gateway!Submit, rowVars, requestVars, queueVars
    <2>3. RequestPosition' /\ ConsumerPosition'
      BY <1>3 DEF Typed, RequestPosition, InFlight, ConsumerPosition, PublishForeign, requestVars, queueVars
    <2> QED
      BY <2>2, <2>3 DEF Typed
  <1> QED
    BY <1>1, <1>2, <1>3 DEF GatewayStep

\* New requests, connections and the process.
LEMMA ProcessTyped ==
  ASSUME Typed,
         \/ \E r \in Requests, keys \in Uploads : Post(r, keys)
         \/ LosePublisher \/ CrashWeb \/ StartWeb
  PROVE  Typed'
  <1> USE DebugWebAssumption
  <1>1. ASSUME NEW r \in Requests, NEW keys \in Uploads, Post(r, keys) PROVE Typed'
    <2>1. PICK n \in 1..MaxFiles : keys \in [1..n -> OwnKeys]
      BY DEF Uploads
    <2>2. keys \in Seq(OwnKeys) /\ Len(keys) = n
      BY <2>1
    <2>3. TypeOK'
      BY <1>1, <2>2 DEF Typed, TypeOK, Post, Goto, rowVars, queueVars, gatewayVars
    <2>4. RequestPosition'
      BY <1>1, <2>2 DEF Typed, TypeOK, RequestPosition, InFlight, Post, Goto
    <2>5. ConsumerPosition'
      BY <1>1 DEF Typed, ConsumerPosition, Post, queueVars
    <2> QED
      BY <2>3, <2>4, <2>5 DEF Typed
  <1>2. CASE LosePublisher \/ StartWeb
    <2>1. CASE LosePublisher
      <3>1. TypeOK'
        BY <2>1 DEF Typed, TypeOK, LosePublisher, Loss, rowVars, requestVars, queueVars, gatewayVars
      <3>2. RequestPosition' /\ ConsumerPosition'
        BY <2>1 DEF Typed, RequestPosition, InFlight, ConsumerPosition, LosePublisher, requestVars, queueVars
      <3> QED
        BY <3>1, <3>2 DEF Typed
    <2>2. CASE StartWeb
      <3>1. TypeOK'
        BY <2>2 DEF Typed, TypeOK, StartWeb, rowVars, requestVars, queueVars, gatewayVars
      <3>2. RequestPosition'
        BY <2>2 DEF Typed, RequestPosition, InFlight, StartWeb, requestVars
      <3>3. ConsumerPosition'
        BY <2>2 DEF Typed, ConsumerPosition, StartWeb, Up, queueVars
      <3> QED
        BY <3>1, <3>2, <3>3 DEF Typed
    <2> QED
      BY <1>2, <2>1, <2>2
  <1>3. CASE CrashWeb
    <2>1. TypeOK'
      BY <1>3, EmptyFacts DEF Typed, TypeOK, CrashWeb, Fault, rowVars, gatewayVars
    <2>2. RequestPosition' /\ ConsumerPosition'
      BY <1>3 DEF Typed, TypeOK, RequestPosition, InFlight, ConsumerPosition, CrashWeb
    <2> QED
      BY <2>1, <2>2 DEF Typed
  <1> QED
    BY <1>1, <1>2, <1>3

\* Every step of debug-web, of the broker and of the gateway keeps the types,
\* the requests at one of their files and the consumer at the head of its window.
THEOREM NextTyped == Typed /\ [Next]_vars => Typed'
  <1> SUFFICES ASSUME Typed, [Next]_vars PROVE Typed'
    OBVIOUS
  <1>1. CASE UNCHANGED vars
    BY <1>1 DEF Typed, TypeOK, RequestPosition, InFlight, ConsumerPosition, vars, rowVars, requestVars,
                queueVars, gatewayVars
  <1> QED
    BY <1>1, RequestTyped, ConsumerTyped, GatewayTyped, StrayTyped, ProcessTyped DEF Next

\* The columns, queues and requests hold what the code can put there, and a
\* request in flight is always at one of its files.
THEOREM SpecTyped == Spec => []Typed
  BY InitTyped, NextTyped, PTL DEF Spec

-----------------------------------------------------------------------------
(***************************************************************************)
(* Jobs, and so events, have their object and row.                         *)
(***************************************************************************)

\* What processUpload has done for the current file when it comes to a call.
UploadProgress ==
    \A r \in Requests :
        /\ at[r] \in {"record", "declare", "send"} => File(r) \in objects
        /\ at[r] \in {"declare", "send"} => row[File(r)] # "absent"

\* The events are about jobs, so there are rows for them too.
EventsHaveRows ==
    \A e \in DOMAIN log : log[e].key \in OwnKeys => row[log[e].key] # "absent"

Complete == UploadProgress /\ JobsAreComplete /\ EventsHaveRows

\* Nothing is under way.
LEMMA InitComplete == Init => Complete
  BY DEF Init, Complete, UploadProgress, JobsAreComplete, EventsHaveRows, Gateway!Init

\* Objects are never removed, nor rows: the steps that publish nothing keep
\* what is complete.
LEMMA KeepsComplete ==
  ASSUME Typed, Complete, UNCHANGED <<log, status, subject>>,
         objects \subseteq objects',
         \A k \in Keys : row[k] # "absent" => row'[k] # "absent",
         UploadProgress'
  PROVE  Complete'
  <1>1. JobsAreComplete'
    BY DEF Complete, JobsAreComplete, Typed, TypeOK, OwnKeys
  <1>2. EventsHaveRows'
    BY DEF Complete, EventsHaveRows, OwnKeys
  <1> QED
    BY <1>1, <1>2 DEF Complete

\* The steps of a request up to the job.
LEMMA RequestComplete ==
  ASSUME Typed, Complete, NEW r \in Requests, RequestStep(r), ~SendJob(r)
  PROVE  Complete'
  <1>1. InFlight(r) /\ r \in DOMAIN at
    BY DEF Typed, TypeOK, RequestStep, StoreObject, StoreFails, RecordQueued, RecordFails,
           DeclareJobQueue, SendJobOnLostConnection, InFlight
  <1>2. File(r) \in OwnKeys /\ File(r) \in Keys
    BY <1>1, FileType DEF OwnKeys
  <1> USE DEF UploadProgress, File, Goto
  <1>3. CASE StoreObject(r)
    <2>1. objects' = objects \cup {File(r)} /\ at' = [at EXCEPT ![r] = "record"]
          /\ UNCHANGED <<row, files, pos, log, status, subject>>
      BY <1>3 DEF StoreObject, rowVars, queueVars, gatewayVars
    <2>2. UploadProgress'
      BY <2>1 DEF Complete, Typed, TypeOK
    <2> QED
      BY <2>1, <2>2, KeepsComplete
  <1>4. CASE StoreFails(r)
    <2>1. objects \subseteq objects' /\ at' = [at EXCEPT ![r] = "refused"]
          /\ UNCHANGED <<row, files, pos, log, status, subject>>
      BY <1>4 DEF StoreFails, rowVars, queueVars, gatewayVars
    <2>2. UploadProgress'
      BY <2>1 DEF Complete, Typed, TypeOK
    <2> QED
      BY <2>1, <2>2, KeepsComplete
  <1>5. CASE RecordQueued(r)
    <2>1. row' = [row EXCEPT ![File(r)] = "queued"] /\ at' = [at EXCEPT ![r] = "declare"]
          /\ at[r] = "record" /\ UNCHANGED <<objects, files, pos, log, status, subject>>
      BY <1>5 DEF RecordQueued, queueVars, gatewayVars
    <2>2. \A k \in Keys : row'[k] = IF k = File(r) THEN "queued" ELSE row[k]
      BY <2>1 DEF Typed, TypeOK
    <2>3. ASSUME NEW q \in Requests, at'[q] \in {"record", "declare", "send"}
          PROVE  /\ File(q) \in objects
                 /\ at'[q] \in {"declare", "send"} => row'[File(q)] # "absent"
      <3>1. CASE q = r
        BY <1>2, <2>1, <2>2, <3>1 DEF Complete, Typed, TypeOK
      <3>2. CASE q # r
        <4>1. at'[q] = at[q] /\ InFlight(q)
          BY <2>1, <2>3, <3>2 DEF InFlight
        <4>2. File(q) \in Keys
          BY <4>1, FileType DEF OwnKeys
        <4> QED
          BY <2>2, <2>3, <4>1, <4>2 DEF Complete
      <3> QED
        BY <3>1, <3>2
    <2>4. UploadProgress'
      BY <2>1, <2>3
    <2> QED
      BY <2>1, <2>2, <2>4, KeepsComplete
  <1>6. CASE RecordFails(r) \/ DeclareJobQueue(r)
    <2>1. /\ at' = [at EXCEPT ![r] = "refused"] \/ (at[r] = "declare" /\ at' = [at EXCEPT ![r] = "send"])
          /\ UNCHANGED <<objects, row, files, pos, log, status, subject>>
      BY <1>6 DEF RecordFails, DeclareJobQueue, rowVars, queueVars, gatewayVars
    <2>2. UploadProgress'
      BY <2>1 DEF Complete, Typed, TypeOK
    <2> QED
      BY <2>1, <2>2, KeepsComplete
  <1>7. CASE SendJobOnLostConnection(r)
    <2>1. /\ \E label \in {"refused", "store", "ok"} : at' = [at EXCEPT ![r] = label]
          /\ UNCHANGED pos \/ \E p : pos' = [pos EXCEPT ![r] = p]
          /\ UNCHANGED <<objects, row, files, log, status, subject>>
      BY <1>7 DEF SendJobOnLostConnection, NextFile, rowVars, queueVars, gatewayVars
    <2>2. UploadProgress'
      BY <2>1 DEF Complete, Typed, TypeOK
    <2> QED
      BY <2>1, <2>2, KeepsComplete
  <1> QED
    BY <1>3, <1>4, <1>5, <1>6, <1>7 DEF RequestStep

\* A job is published by a request that has come past object and row, or by
\* the script, which stores the object with it.
LEMMA PublishComplete ==
  ASSUME Typed, Complete,
         \/ \E r \in Requests : SendJob(r)
         \/ \E k \in Foreign : PublishForeign(k)
  PROVE  Complete'
  <1>1. ASSUME NEW k \in Keys, NewJob(k), UNCHANGED <<row, log>>, objects \subseteq objects',
               k \in objects', k \in OwnKeys => row[k] # "absent", UploadProgress'
        PROVE  Complete'
    <2>1. PICK j \in Jobs : Gateway!Submit(j, k)
      BY <1>1 DEF NewJob
    <2>2. ASSUME NEW i \in Jobs, status'[i] # "absent"
          PROVE  subject'[i] \in objects' /\ (subject'[i] \in OwnKeys => row'[subject'[i]] # "absent")
      <3>1. CASE i = j
        BY <1>1, <2>1, <3>1 DEF Gateway!Submit, Typed, TypeOK
      <3>2. CASE i # j
        BY <1>1, <2>1, <2>2, <3>2 DEF Gateway!Submit, Typed, TypeOK, Complete, JobsAreComplete
      <3> QED
        BY <3>1, <3>2
    <2> QED
      BY <1>1, <2>2 DEF Complete, JobsAreComplete, EventsHaveRows
  <1>2. ASSUME NEW r \in Requests, SendJob(r) PROVE Complete'
    <2>1. InFlight(r) /\ at[r] = "send"
      BY <1>2 DEF SendJob, InFlight
    <2>2. File(r) \in OwnKeys /\ File(r) \in Keys /\ File(r) \in objects /\ row[File(r)] # "absent"
      BY <2>1, FileType DEF Complete, UploadProgress, OwnKeys
    <2>3. /\ \E label \in {"store", "ok"} : at' = [at EXCEPT ![r] = label]
          /\ UNCHANGED pos \/ \E p : pos' = [pos EXCEPT ![r] = p]
          /\ UNCHANGED <<objects, row, files, log>>
      BY <1>2 DEF SendJob, NextFile, Goto, rowVars, queueVars
    <2>4. UploadProgress'
      BY <2>3 DEF Complete, Typed, TypeOK, UploadProgress, File
    <2> QED
      BY <1>1, <1>2, <2>2, <2>3, <2>4 DEF SendJob
  <1>3. ASSUME NEW k \in Foreign, PublishForeign(k) PROVE Complete'
    <2>1. k \in Keys /\ k \notin OwnKeys
      BY DebugWebAssumption DEF OwnKeys
    <2>2. objects' = objects \cup {k} /\ UNCHANGED <<row, at, pos, files, log>>
      BY <1>3 DEF PublishForeign, rowVars, requestVars, queueVars
    <2>3. UploadProgress'
      BY <2>2 DEF Complete, UploadProgress, File
    <2> QED
      BY <1>1, <1>3, <2>1, <2>2, <2>3 DEF PublishForeign
  <1> QED
    BY <1>2, <1>3

\* An event is about a pending job.
LEMMA TellsComplete ==
  ASSUME Typed, Complete, NEW j \in Jobs, NEW s \in Statuses, GatewayTells(j, s)
  PROVE  Complete'
  <1>1. /\ Enqueue([key |-> subject[j], status |-> s]) /\ status[j] = "pending"
        /\ UNCHANGED <<objects, row, at, files, pos, status, subject>>
    BY DEF GatewayTells, Gateway!Tell, rowVars, requestVars
  <1>2. /\ Len(log) \in Nat /\ DOMAIN log = 1..Len(log) /\ DOMAIN log' = 1..(Len(log) + 1)
        /\ \A e \in DOMAIN log : log'[e] = log[e]
        /\ log'[Len(log) + 1] = [key |-> subject[j], status |-> s]
    <2>1. [key |-> subject[j], status |-> s] \in [key : Keys, status : Statuses]
      BY DEF Typed, TypeOK
    <2> QED
      BY <1>1, <2>1, EnqueueTyped
  <1>3. subject[j] \in OwnKeys => row[subject[j]] # "absent"
    BY <1>1 DEF Complete, JobsAreComplete
  <1>4. \A e \in DOMAIN log' : log'[e].key \in OwnKeys => row'[log'[e].key] # "absent"
    BY <1>1, <1>2, <1>3 DEF Complete, EventsHaveRows
  <1> QED
    BY <1>1, <1>4 DEF Complete, UploadProgress, File, JobsAreComplete, EventsHaveRows

\* What cannot be parsed is about no image.
LEMMA StrayComplete ==
  ASSUME Typed, Complete, PutStray
  PROVE  Complete'
  <1>1. /\ Enqueue(Unreadable)
        /\ UNCHANGED <<objects, row, at, files, pos, status, subject>>
    BY DEF PutStray, rowVars, requestVars, gatewayVars
  <1>2. /\ Len(log) \in Nat /\ DOMAIN log = 1..Len(log) /\ DOMAIN log' = 1..(Len(log) + 1)
        /\ \A e \in DOMAIN log : log'[e] = log[e]
        /\ log'[Len(log) + 1] = Unreadable
    BY <1>1, EnqueueTyped
  <1>3. Unreadable.key \notin OwnKeys
    BY DebugWebAssumption DEF Unreadable, OwnKeys
  <1>4. \A e \in DOMAIN log' : log'[e].key \in OwnKeys => row'[log'[e].key] # "absent"
    BY <1>1, <1>2, <1>3 DEF Complete, EventsHaveRows
  <1> QED
    BY <1>1, <1>4 DEF Complete, UploadProgress, File, JobsAreComplete, EventsHaveRows

\* The steps that publish a job have the object and the row behind them.
LEMMA NextComplete == Typed /\ Complete /\ [Next]_vars => Complete'
  <1> SUFFICES ASSUME Typed, Complete, [Next]_vars PROVE Complete'
    OBVIOUS
  <1>1. ASSUME NEW r \in Requests, NEW keys \in Uploads, Post(r, keys) PROVE Complete'
    <2>1. UploadProgress'
      BY <1>1 DEF Post, Goto, rowVars, Typed, TypeOK, Complete, UploadProgress, File
    <2> QED
      BY <1>1, <2>1, KeepsComplete DEF Post, rowVars, queueVars, gatewayVars
  <1>2. CASE CrashWeb
    <2>1. UploadProgress'
      BY <1>2 DEF CrashWeb, InFlight, rowVars, Complete, UploadProgress, File
    <2> QED
      BY <1>2, <2>1, KeepsComplete DEF CrashWeb, rowVars, gatewayVars
  <1>3. CASE GatewayWorks
    <2>1. UNCHANGED <<objects, row, at, files, pos, log, subject>>
          /\ \A j \in Jobs : status'[j] # "absent" => status[j] # "absent"
      BY <1>3 DEF GatewayWorks, Gateway!MakeSearchable, Gateway!Finish, rowVars, requestVars,
                  queueVars, Typed, TypeOK
    <2> QED
      BY <2>1 DEF Complete, UploadProgress, File, JobsAreComplete, EventsHaveRows
  <1>4. CASE ApplyResult
    <2>1. UNCHANGED <<objects, at, files, pos, log, status, subject>>
      BY <1>4 DEF ApplyResult, requestVars, queueVars, gatewayVars
    <2>2. log[Head(fetched)] # Unreadable =>
            log[Head(fetched)].key \in Keys /\ log[Head(fetched)].status # "absent"
      BY <1>4, HeadType, EventType DEF ApplyResult, Statuses
    <2>3. \A k \in Keys : row[k] # "absent" => row'[k] # "absent"
      BY <1>4, <2>2 DEF ApplyResult, Update, rowVars, Typed, TypeOK
    <2>4. \A r \in Requests : at[r] \in {"declare", "send"} => File(r) \in Keys
      BY FileType DEF InFlight, OwnKeys
    <2>5. UploadProgress'
      BY <2>1, <2>3, <2>4 DEF Complete, UploadProgress, File
    <2> QED
      BY <2>1, <2>3, <2>5, KeepsComplete
  <1>5. CASE UNCHANGED <<objects, row, at, files, pos, log, status, subject>>
    BY <1>5 DEF Complete, UploadProgress, File, JobsAreComplete, EventsHaveRows
  <1> QED
    BY <1>1, <1>2, <1>3, <1>4, <1>5, RequestComplete, PublishComplete, TellsComplete, StrayComplete
    DEF Next, GatewayStep, HandleResult, RequestStep, Deliver, ApplyFails, AckResult, DropResult,
        NackResult, LosePublisher, LoseConsumer, RecoverOrphans, StartWeb, vars, rowVars, requestVars,
        queueVars, gatewayVars

-----------------------------------------------------------------------------
(***************************************************************************)
(* The way of an event through queue and window.                           *)
(***************************************************************************)

\* The queue has delivered only older events than those it never took back.
QueueInOrder ==
    \A e \in queued \ redelivered, d \in applied \cup Range(fetched) : d < e

\* Such events are in the window in their order, ...
WindowInOrder ==
    \A m, n \in 1..Len(fetched) :
        m < n /\ fetched[n] \notin redelivered => fetched[m] < fetched[n]

\* ... behind all that was applied, but for the head once it is applied itself.
AppliedInOrder ==
    \A n \in 1..Len(fetched), d \in applied :
        fetched[n] \notin redelivered =>
            d < fetched[n] \/ (n = 1 /\ consumer = "ack" /\ d <= fetched[n])

InOrder == QueueInOrder /\ WindowInOrder /\ AppliedInOrder
Window == NoResultIsLost /\ InOrder

\* Queue and window are empty.
LEMMA InitWindow == Init => Window
  BY EmptyFacts DEF Init, Window, NoResultIsLost, InOrder, QueueInOrder, WindowInOrder, AppliedInOrder

\* Events are numbers, wherever they are.
LEMMA EventsAreNumbers ==
  ASSUME Typed
  PROVE  /\ Len(log) \in Nat /\ DOMAIN log = 1..Len(log)
         /\ Len(fetched) \in Nat /\ DOMAIN fetched = 1..Len(fetched)
         /\ \A n \in 1..Len(fetched) : fetched[n] \in 1..Len(log) /\ fetched[n] \in Range(fetched)
         /\ queued \cup applied \cup orphaned \cup redelivered \cup Range(fetched) \subseteq 1..Len(log)
  BY LenProperties DEF Typed, TypeOK, Range

\* A new message is the youngest.
LEMMA EnqueueWindow ==
  ASSUME Typed, Window, NEW message \in [key : Keys, status : Statuses] \cup {Unreadable},
         Enqueue(message), UNCHANGED <<consumer, fetched, orphaned, redelivered, applied>>
  PROVE  Window'
  <1>1. /\ queued' = queued \cup {Len(log) + 1}
        /\ DOMAIN log' = 1..(Len(log) + 1) /\ \A e \in DOMAIN log : log'[e] = log[e]
    BY EnqueueTyped
  <1>2. NoResultIsLost'
    BY <1>1, EventsAreNumbers DEF Window, NoResultIsLost
  <1>3. QueueInOrder'
    BY <1>1, EventsAreNumbers DEF Window, InOrder, QueueInOrder
  <1>4. WindowInOrder' /\ AppliedInOrder'
    BY <1>1 DEF Window, InOrder, WindowInOrder, AppliedInOrder
  <1> QED
    BY <1>2, <1>3, <1>4 DEF Window, InOrder

LEMMA TellsWindow ==
  ASSUME Typed, Window, NEW j \in Jobs, NEW s \in Statuses, GatewayTells(j, s)
  PROVE  Window'
  <1>1. [key |-> subject[j], status |-> s] \in [key : Keys, status : Statuses]
    BY DEF Typed, TypeOK
  <1> QED
    BY <1>1, EnqueueWindow DEF GatewayTells

LEMMA StrayWindow ==
  ASSUME Typed, Window, PutStray
  PROVE  Window'
  BY EnqueueWindow DEF PutStray

\* The broker delivers the oldest event of the queue.
LEMMA DeliverWindow ==
  ASSUME Typed, Window, NEW e \in Events, Deliver(e)
  PROVE  Window'
  <1>1. /\ e \in queued /\ \A d \in queued : e <= d
        /\ queued' = queued \ {e} /\ fetched' = Append(fetched, e)
        /\ UNCHANGED <<consumer, log, orphaned, redelivered, applied>>
    BY DEF Deliver
  <1>2. /\ Len(fetched') = Len(fetched) + 1 /\ fetched'[Len(fetched) + 1] = e
        /\ \A n \in 1..Len(fetched) : fetched'[n] = fetched[n]
        /\ Range(fetched') = Range(fetched) \cup {e}
    BY <1>1, AppendFacts DEF Typed, TypeOK
  <1>3. /\ Len(fetched) \in Nat /\ e \in Nat /\ queued \subseteq Nat
        /\ \A n \in 1..Len(fetched) : fetched[n] \in Nat /\ fetched[n] \in Range(fetched)
    BY <1>1, EventsAreNumbers
  <1>4. NoResultIsLost'
    BY <1>1, <1>2 DEF Window, NoResultIsLost
  <1>5. QueueInOrder'
    BY <1>1, <1>2, <1>3 DEF Window, InOrder, QueueInOrder
  <1>6. WindowInOrder'
    <2> SUFFICES ASSUME NEW m \in 1..(Len(fetched) + 1), NEW n \in 1..(Len(fetched) + 1),
                        m < n, fetched'[n] \notin redelivered
                 PROVE  fetched'[m] < fetched'[n]
      BY <1>1, <1>2 DEF WindowInOrder
    <2>1. m \in 1..Len(fetched) /\ fetched'[m] = fetched[m]
      BY <1>2, <1>3
    <2>2. CASE n = Len(fetched) + 1
      BY <1>1, <1>2, <1>3, <2>1, <2>2 DEF Window, InOrder, QueueInOrder
    <2>3. CASE n # Len(fetched) + 1
      <3>1. n \in 1..Len(fetched) /\ fetched'[n] = fetched[n]
        BY <1>2, <1>3, <2>3
      <3> QED
        BY <2>1, <3>1 DEF Window, InOrder, WindowInOrder
    <2> QED
      BY <2>2, <2>3
  <1>7. AppliedInOrder'
    <2> SUFFICES ASSUME NEW n \in 1..(Len(fetched) + 1), NEW d \in applied, fetched'[n] \notin redelivered
                 PROVE  d < fetched'[n] \/ (n = 1 /\ consumer = "ack" /\ d <= fetched'[n])
      BY <1>1, <1>2 DEF AppliedInOrder
    <2>1. CASE n = Len(fetched) + 1
      BY <1>1, <1>2, <2>1 DEF Window, InOrder, QueueInOrder
    <2>2. CASE n # Len(fetched) + 1
      <3>1. n \in 1..Len(fetched) /\ fetched'[n] = fetched[n]
        BY <1>2, <1>3, <2>2
      <3> QED
        BY <3>1 DEF Window, InOrder, AppliedInOrder
    <2> QED
      BY <2>1, <2>2
  <1> QED
    BY <1>4, <1>5, <1>6, <1>7 DEF Window, InOrder

\* The head is applied before the events behind it.
LEMMA ApplyWindow ==
  ASSUME Typed, Window, ApplyResult
  PROVE  Window'
  <1> DEFINE h == Head(fetched)
  <1>1. /\ Len(fetched) \in Nat \ {0} /\ h = fetched[1] /\ h \in Range(fetched)
    BY TailFacts DEF Typed, TypeOK, ApplyResult
  <1>2. /\ consumer = "idle" /\ UNCHANGED <<log, queued, fetched, orphaned, redelivered>>
        /\ \/ applied' = applied /\ consumer' \in {"nack", "drop"}
           \/ applied' = applied \cup {h} /\ consumer' = "ack"
    BY DEF ApplyResult, Update, queueVars
  <1>3. NoResultIsLost' /\ WindowInOrder'
    BY <1>2 DEF Window, InOrder, NoResultIsLost, WindowInOrder
  <1>4. QueueInOrder'
    BY <1>1, <1>2 DEF Window, InOrder, QueueInOrder
  <1>5. AppliedInOrder'
    <2> SUFFICES ASSUME NEW n \in 1..Len(fetched), NEW d \in applied', fetched[n] \notin redelivered
                 PROVE  d < fetched[n] \/ (n = 1 /\ consumer' = "ack" /\ d <= fetched[n])
      BY <1>2 DEF AppliedInOrder
    <2>1. CASE d \in applied
      BY <1>2, <2>1 DEF Window, InOrder, AppliedInOrder
    <2>2. CASE d \notin applied /\ n = 1
      <3>1. d = h /\ consumer' = "ack" /\ h \in Nat
        BY <1>1, <1>2, <2>2, EventsAreNumbers
      <3> QED
        BY <1>1, <2>2, <3>1
    <2>3. CASE d \notin applied /\ n # 1
      <3>1. d = fetched[1] /\ 1 \in 1..Len(fetched) /\ 1 < n
        BY <1>1, <1>2, <2>3
      <3> QED
        BY <3>1 DEF Window, InOrder, WindowInOrder
    <2> QED
      BY <2>1, <2>2, <2>3
  <1> QED
    BY <1>3, <1>4, <1>5 DEF Window, InOrder

\* The head leaves the window when it is applied, unreadable or back in the queue.
LEMMA SettleWindow ==
  ASSUME Typed, Window, AckResult \/ DropResult \/ NackResult
  PROVE  Window'
  <1>1. /\ fetched # <<>> /\ fetched' = Tail(fetched) /\ consumer' = "idle"
        /\ UNCHANGED <<log, orphaned, applied>>
        /\ \/ consumer \in {"ack", "drop"} /\ UNCHANGED <<queued, redelivered>>
           \/ /\ consumer = "nack"
              /\ queued' = queued \cup {Head(fetched)} /\ redelivered' = redelivered \cup {Head(fetched)}
    BY DEF AckResult, DropResult, NackResult, GiveBack, Typed, ConsumerPosition
  <1>2. /\ Len(fetched) \in Nat \ {0} /\ Len(fetched') = Len(fetched) - 1
        /\ \A n \in 1..(Len(fetched) - 1) : fetched'[n] = fetched[n + 1]
        /\ Range(fetched) = {Head(fetched)} \cup Range(fetched')
    BY <1>1, TailFacts DEF Typed, TypeOK
  <1>3. /\ consumer = "ack" => Head(fetched) \in applied
        /\ consumer = "drop" => log[Head(fetched)] = Unreadable
    BY DEF Typed, ConsumerPosition
  <1>4. NoResultIsLost'
    BY <1>1, <1>2, <1>3 DEF Window, NoResultIsLost
  <1>5. QueueInOrder'
    BY <1>1, <1>2 DEF Window, InOrder, QueueInOrder
  <1>6. WindowInOrder'
    <2> SUFFICES ASSUME NEW m \in 1..(Len(fetched) - 1), NEW n \in 1..(Len(fetched) - 1),
                        m < n, fetched[n + 1] \notin redelivered'
                 PROVE  fetched[m + 1] < fetched[n + 1]
      BY <1>2 DEF WindowInOrder
    <2>1. m + 1 \in 1..Len(fetched) /\ n + 1 \in 1..Len(fetched) /\ m + 1 < n + 1
      BY <1>2
    <2> QED
      BY <1>1, <2>1 DEF Window, InOrder, WindowInOrder
  <1>7. AppliedInOrder'
    <2> SUFFICES ASSUME NEW n \in 1..(Len(fetched) - 1), NEW d \in applied, fetched[n + 1] \notin redelivered'
                 PROVE  d < fetched[n + 1]
      BY <1>1, <1>2 DEF AppliedInOrder
    <2>1. n + 1 \in 1..Len(fetched) /\ n + 1 # 1
      BY <1>2
    <2> QED
      BY <1>1, <2>1 DEF Window, InOrder, AppliedInOrder
  <1> QED
    BY <1>4, <1>5, <1>6, <1>7 DEF Window, InOrder

\* Lost connections, crashes and recoveries empty the window or take events back.
LEMMA LossWindow ==
  ASSUME Typed, Window, LoseConsumer \/ CrashWeb \/ RecoverOrphans
  PROVE  Window'
  <1>1. /\ \/ fetched' = <<>> \/ UNCHANGED <<fetched, consumer>>
        /\ UNCHANGED <<log, applied>>
        /\ queued \cup orphaned \cup Range(fetched) \subseteq queued' \cup orphaned' \cup Range(fetched')
        /\ redelivered \subseteq redelivered' /\ queued' \ redelivered' \subseteq queued \ redelivered
    BY DEF LoseConsumer, CrashWeb, RecoverOrphans, GiveBack
  <1>2. NoResultIsLost'
    BY <1>1 DEF Window, NoResultIsLost
  <1>3. InOrder'
    <2>1. CASE fetched' = <<>>
      BY <1>1, <2>1, EmptyFacts DEF Window, InOrder, QueueInOrder, WindowInOrder, AppliedInOrder
    <2>2. CASE UNCHANGED <<fetched, consumer>>
      BY <1>1, <2>2 DEF Window, InOrder, QueueInOrder, WindowInOrder, AppliedInOrder
    <2> QED
      BY <1>1, <2>1, <2>2
  <1> QED
    BY <1>2, <1>3 DEF Window

\* The order of the queue survives every step.
LEMMA NextWindow == Typed /\ Window /\ [Next]_vars => Window'
  <1> SUFFICES ASSUME Typed, Window, [Next]_vars PROVE Window'
    OBVIOUS
  <1>1. CASE ApplyFails
    BY <1>1 DEF ApplyFails, queueVars, Window, NoResultIsLost, InOrder, QueueInOrder, WindowInOrder,
                AppliedInOrder
  <1>2. CASE StartWeb
    <2>1. fetched = <<>>
      BY <1>2 DEF StartWeb, Up, Typed, ConsumerPosition
    <2> QED
      BY <1>2, <2>1, EmptyFacts DEF StartWeb, queueVars, Window, NoResultIsLost, InOrder, QueueInOrder,
                WindowInOrder, AppliedInOrder
  <1>3. CASE UNCHANGED <<consumer, queueVars, applied>>
    BY <1>3 DEF queueVars, Window, NoResultIsLost, InOrder, QueueInOrder, WindowInOrder, AppliedInOrder
  <1>4. ASSUME NEW r \in Requests, RequestStep(r) PROVE UNCHANGED <<consumer, queueVars, applied>>
    BY <1>4 DEF RequestStep, StoreObject, StoreFails, RecordQueued, RecordFails, DeclareJobQueue,
                SendJob, SendJobOnLostConnection
  <1>5. ASSUME \/ \E r \in Requests, keys \in Uploads : Post(r, keys)
               \/ \E k \in Foreign : PublishForeign(k)
               \/ GatewayWorks \/ LosePublisher \/ UNCHANGED vars
        PROVE  UNCHANGED <<consumer, queueVars, applied>>
    BY <1>5 DEF Post, PublishForeign, GatewayWorks, LosePublisher, vars
  <1> QED
    BY <1>1, <1>2, <1>3, <1>4, <1>5, TellsWindow, StrayWindow, DeliverWindow, ApplyWindow, SettleWindow, LossWindow
    DEF Next, GatewayStep, HandleResult

-----------------------------------------------------------------------------
(***************************************************************************)
(* What a row says, and what the gateway will still say of it.             *)
(***************************************************************************)

\* Whatever is shown, but "queued", is the status of an event a row was updated with.
RowShowsEvent ==
    \A k \in Keys : row[k] \notin {"absent", "queued"} =>
        /\ updatedAt[k] \in applied
        /\ log[updatedAt[k]].key = k /\ log[updatedAt[k]].status = row[k]

\* Rows have no times of events to come.
TimesInLog == \A k \in Keys : updatedAt[k] <= Len(log)

\* What the gateway tells about an image is true from then on.
IndexedEventIsTrue ==
    \A e \in DOMAIN log : log[e].status = "indexed" => log[e].key \in searchable

\* Without redeliveries a row is as new as every event it was updated with.
AppliedIsCounted ==
    \A e \in applied :
        e <= updatedAt[log[e].key] \/ EventsOf(log[e].key) \cap redelivered # {}

\* The gateway has more to say of a job that it said "processing" of last.
ProcessingIsPending ==
    \A e \in DOMAIN log :
        log[e].status = "processing" /\ (\A d \in EventsOf(log[e].key) : d <= e) =>
            \E j \in Jobs : /\ status[j] = "pending" /\ told[j] = "processing"
                            /\ subject[j] = log[e].key

Rows ==
    /\ RowShowsEvent /\ TimesInLog /\ IndexedEventIsTrue
    /\ AppliedIsCounted /\ ProcessingIsPending

\* There are no rows yet.
LEMMA InitRows == Init => Rows
  BY EmptyFacts DEF Init, Rows, RowShowsEvent, TimesInLog, IndexedEventIsTrue, AppliedIsCounted,
     ProcessingIsPending

\* Steps that neither update a row nor tell of a job.
LEMMA KeepsRows ==
  ASSUME Typed, Rows, UNCHANGED <<log, rowVars, applied, told>>,
         redelivered \subseteq redelivered', searchable \subseteq searchable',
         \A j \in Jobs : status[j] = "pending" /\ told[j] = "processing" =>
            status'[j] = "pending" /\ subject'[j] = subject[j]
  PROVE  Rows'
  <1>1. RowShowsEvent' /\ TimesInLog' /\ IndexedEventIsTrue'
    BY DEF Rows, RowShowsEvent, TimesInLog, IndexedEventIsTrue, rowVars
  <1>2. AppliedIsCounted'
    BY DEF Rows, AppliedIsCounted, EventsOf, rowVars
  <1>3. ProcessingIsPending'
    BY DEF Rows, ProcessingIsPending, EventsOf
  <1> QED
    BY <1>1, <1>2, <1>3 DEF Rows

\* A new message is shown by no row yet.
LEMMA EnqueueRows ==
  ASSUME Typed, Rows, NEW message \in [key : Keys, status : Statuses] \cup {Unreadable},
         Enqueue(message), UNCHANGED <<rowVars, applied, redelivered>>
  PROVE  RowShowsEvent' /\ TimesInLog' /\ AppliedIsCounted'
  <1>1. /\ Len(log) \in Nat /\ DOMAIN log' = 1..(Len(log) + 1) /\ Len(log') = Len(log) + 1
        /\ \A e \in DOMAIN log : e \in DOMAIN log' /\ log'[e] = log[e]
    BY EnqueueTyped
  <1>2. applied \cup redelivered \subseteq DOMAIN log
    BY DEF Typed, TypeOK
  <1>3. RowShowsEvent'
    BY <1>1, <1>2 DEF Rows, RowShowsEvent, rowVars
  <1>4. TimesInLog'
    BY <1>1 DEF Rows, TimesInLog, Typed, TypeOK, rowVars
  <1>5. AppliedIsCounted'
    <2> SUFFICES ASSUME NEW e \in applied
                 PROVE  \/ e <= updatedAt[log'[e].key]
                        \/ \E d \in redelivered : d \in DOMAIN log' /\ log'[d].key = log'[e].key
      BY DEF AppliedIsCounted, EventsOf, rowVars
    <2>1. e \in DOMAIN log /\ log'[e] = log[e]
      BY <1>1, <1>2
    <2>2. e <= updatedAt[log[e].key] \/ \E d \in redelivered : d \in DOMAIN log /\ log[d].key = log[e].key
      BY DEF Rows, AppliedIsCounted, EventsOf
    <2> QED
      BY <1>1, <2>1, <2>2
  <1> QED
    BY <1>3, <1>4, <1>5

\* What cannot be parsed has no status that anything depends on.
LEMMA StrayRows ==
  ASSUME Typed, Rows, PutStray
  PROVE  Rows'
  <1> DEFINE n == Len(log) + 1
  <1>1. Enqueue(Unreadable) /\ UNCHANGED <<rowVars, applied, redelivered, searchable, status, subject, told>>
    BY DEF PutStray, gatewayVars
  <1>2. /\ n \in Nat /\ DOMAIN log = 1..(n - 1) /\ DOMAIN log' = 1..n
        /\ \A e \in DOMAIN log : log'[e] = log[e]
        /\ log'[n].status = "unreadable"
    BY <1>1, EnqueueTyped DEF Unreadable
  <1>3. IndexedEventIsTrue'
    BY <1>1, <1>2 DEF Rows, IndexedEventIsTrue
  <1>4. ProcessingIsPending'
    <2> SUFFICES ASSUME NEW e \in DOMAIN log', log'[e].status = "processing",
                        \A d \in DOMAIN log' : log'[d].key = log'[e].key => d <= e
                 PROVE  \E i \in Jobs : /\ status[i] = "pending" /\ told[i] = "processing"
                                        /\ subject[i] = log'[e].key
      BY <1>1 DEF ProcessingIsPending, EventsOf
    <2>1. e \in DOMAIN log /\ log'[e] = log[e]
      BY <1>2
    <2>2. \A d \in EventsOf(log[e].key) : d <= e
      BY <1>2, <2>1 DEF EventsOf
    <2> QED
      BY <2>1, <2>2 DEF Rows, ProcessingIsPending
  <1> QED
    BY <1>1, <1>3, <1>4, EnqueueRows DEF Rows

\* A new event is the last of its key, and its status is the one told of its job.
LEMMA TellsRows ==
  ASSUME Typed, Rows, NEW j \in Jobs, NEW s \in Statuses, GatewayTells(j, s)
  PROVE  Rows'
  <1> DEFINE n == Len(log) + 1
             k == subject[j]
  <1>1. /\ UNCHANGED <<rowVars, applied, redelivered, searchable, status, subject>>
        /\ told' = [told EXCEPT ![j] = s] /\ status[j] = "pending"
        /\ s = "indexed" => k \in searchable
    BY DEF GatewayTells, Gateway!Tell
  <1>2. [key |-> k, status |-> s] \in [key : Keys, status : Statuses]
        /\ Enqueue([key |-> k, status |-> s])
    BY DEF Typed, TypeOK, GatewayTells
  <1>3. /\ n \in Nat /\ DOMAIN log = 1..(n - 1) /\ DOMAIN log' = 1..n
        /\ \A e \in DOMAIN log : log'[e] = log[e]
        /\ log'[n] = [key |-> k, status |-> s]
    BY <1>2, EnqueueTyped
  <1>4. RowShowsEvent' /\ TimesInLog' /\ AppliedIsCounted'
    BY <1>1, <1>2, EnqueueRows
  <1>5. IndexedEventIsTrue'
    BY <1>1, <1>3 DEF Rows, IndexedEventIsTrue
  <1>6. ProcessingIsPending'
    <2> SUFFICES ASSUME NEW e \in 1..n, log'[e].status = "processing",
                        \A d \in 1..n : log'[d].key = log'[e].key => d <= e
                 PROVE  \E i \in Jobs : /\ status[i] = "pending" /\ told'[i] = "processing"
                                        /\ subject[i] = log'[e].key
      BY <1>1, <1>3 DEF ProcessingIsPending, EventsOf
    <2>1. CASE e = n
      BY <1>1, <1>3, <2>1 DEF Typed, TypeOK
    <2>2. CASE e # n
      <3>1. e \in DOMAIN log /\ log'[e] = log[e] /\ log[e].key # k
        BY <1>3, <2>2
      <3>2. \A d \in EventsOf(log[e].key) : d <= e
        BY <1>3, <3>1 DEF EventsOf
      <3>3. PICK i \in Jobs : status[i] = "pending" /\ told[i] = "processing" /\ subject[i] = log[e].key
        BY <3>1, <3>2 DEF Rows, ProcessingIsPending
      <3> QED
        BY <1>1, <3>1, <3>3
    <2> QED
      BY <2>1, <2>2
  <1> QED
    BY <1>4, <1>5, <1>6 DEF Rows

\* A queued row has the time of the request, after all there was to apply.
LEMMA QueuedRows ==
  ASSUME Typed, Rows, NEW r \in Requests, RecordQueued(r)
  PROVE  Rows'
  <1>1. /\ row' = [row EXCEPT ![File(r)] = "queued"]
        /\ updatedAt' = [updatedAt EXCEPT ![File(r)] = Len(log)]
        /\ UNCHANGED <<log, applied, redelivered, searchable, status, subject, told>>
    BY DEF RecordQueued, queueVars, gatewayVars
  <1>2. /\ \A k \in Keys : row'[k] = IF k = File(r) THEN "queued" ELSE row[k]
        /\ \A k \in Keys : updatedAt'[k] = IF k = File(r) THEN Len(log) ELSE updatedAt[k]
    BY <1>1 DEF Typed, TypeOK
  <1>3. Len(log) \in Nat /\ applied \subseteq 1..Len(log) /\ DOMAIN log = 1..Len(log)
    BY EventsAreNumbers
  <1>4. RowShowsEvent' /\ TimesInLog' /\ IndexedEventIsTrue'
    BY <1>1, <1>2, <1>3 DEF Rows, RowShowsEvent, TimesInLog, IndexedEventIsTrue
  <1>5. AppliedIsCounted'
    <2> SUFFICES ASSUME NEW e \in applied
                 PROVE  e <= updatedAt'[log[e].key] \/ EventsOf(log[e].key) \cap redelivered # {}
      BY <1>1 DEF AppliedIsCounted, EventsOf
    <2>1. log[e].key \in Keys /\ e <= Len(log)
      BY <1>3 DEF Typed, ConsumerPosition
    <2> QED
      BY <1>2, <2>1 DEF Rows, AppliedIsCounted
  <1>6. ProcessingIsPending'
    BY <1>1 DEF Rows, ProcessingIsPending, EventsOf
  <1> QED
    BY <1>4, <1>5, <1>6 DEF Rows

\* The head of the window is younger than all that was applied, or redelivered.
LEMMA ApplyRows ==
  ASSUME Typed, Window, Rows, ApplyResult
  PROVE  Rows'
  <1> DEFINE h == Head(fetched)
             k == log[h].key
  <1>1. /\ UNCHANGED <<log, redelivered, searchable, status, subject, told>>
        /\ consumer = "idle" /\ fetched # <<>>
        /\ \/ UNCHANGED <<rowVars, applied>>
           \/ /\ log[h] # Unreadable /\ row' = [row EXCEPT ![k] = log[h].status]
              /\ updatedAt' = [updatedAt EXCEPT ![k] = h]
              /\ applied' = applied \cup {h}
    BY DEF ApplyResult, Update, queueVars, gatewayVars
  <1>2. h \in DOMAIN log /\ h \in 1..Len(log) /\ (log[h] # Unreadable => k \in Keys)
    BY <1>1, HeadType, EventType
  <1>3. CASE UNCHANGED <<rowVars, applied>>
    BY <1>1, <1>3, KeepsRows
  <1>4. CASE /\ log[h] # Unreadable /\ row' = [row EXCEPT ![k] = log[h].status]
             /\ updatedAt' = [updatedAt EXCEPT ![k] = h]
             /\ applied' = applied \cup {h}
    <2>1. /\ \A i \in Keys : row'[i] = IF i = k THEN log[h].status ELSE row[i]
          /\ \A i \in Keys : updatedAt'[i] = IF i = k THEN h ELSE updatedAt[i]
      BY <1>4 DEF Typed, TypeOK
    <2>2. RowShowsEvent' /\ TimesInLog' /\ IndexedEventIsTrue'
      BY <1>1, <1>2, <1>4, <2>1 DEF Rows, RowShowsEvent, TimesInLog, IndexedEventIsTrue
    <2>3. AppliedIsCounted'
      <3> SUFFICES ASSUME NEW e \in applied \cup {h}
                   PROVE  e <= updatedAt'[log[e].key] \/ EventsOf(log[e].key) \cap redelivered # {}
        BY <1>1, <1>4 DEF AppliedIsCounted, EventsOf
      <3>1. CASE e = h
        BY <1>2, <1>4, <2>1, <3>1
      <3>2. CASE e # h /\ log[e].key # k
        <4>1. e \in applied /\ log[e].key \in Keys
          BY <3>2 DEF Typed, ConsumerPosition
        <4> QED
          BY <2>1, <3>2, <4>1 DEF Rows, AppliedIsCounted
      <3>3. CASE e # h /\ log[e].key = k
        <4>1. e \in applied /\ e \in Nat
          BY <3>3, EventsAreNumbers
        <4>2. h = fetched[1] /\ 1 \in 1..Len(fetched)
          BY <1>1, TailFacts DEF Typed, TypeOK
        <4>3. e < h \/ h \in redelivered
          BY <1>1, <4>1, <4>2 DEF Window, InOrder, AppliedInOrder
        <4>4. updatedAt'[log[e].key] = h
          BY <1>2, <1>4, <2>1, <3>3
        <4>5. h \in EventsOf(log[e].key)
          BY <1>2, <3>3 DEF EventsOf
        <4> QED
          BY <1>2, <4>1, <4>3, <4>4, <4>5
      <3> QED
        BY <3>1, <3>2, <3>3
    <2>4. ProcessingIsPending'
      BY <1>1 DEF Rows, ProcessingIsPending, EventsOf
    <2> QED
      BY <2>2, <2>3, <2>4 DEF Rows
  <1> QED
    BY <1>1, <1>3, <1>4

\* Each step keeps what the rows show, or updates one.
LEMMA NextRows == Typed /\ Window /\ Rows /\ [Next]_vars => Rows'
  <1> SUFFICES ASSUME Typed, Window, Rows, [Next]_vars PROVE Rows'
    OBVIOUS
  <1>1. ASSUME NEW k \in Keys, NewJob(k), UNCHANGED <<log, rowVars, applied, redelivered>>
        PROVE  Rows'
    <2>1. PICK j \in Jobs : Gateway!Submit(j, k)
      BY <1>1 DEF NewJob
    <2>2. UNCHANGED <<told, searchable>>
          /\ \A i \in Jobs : status[i] = "pending" /\ told[i] = "processing" =>
                status'[i] = "pending" /\ subject'[i] = subject[i]
      BY <2>1 DEF Gateway!Submit, Typed, TypeOK
    <2> QED
      BY <1>1, <2>2, KeepsRows
  <1>2. ASSUME NEW r \in Requests, RequestStep(r) PROVE Rows'
    <2>1. CASE RecordQueued(r)
      BY <2>1, QueuedRows
    <2>2. CASE SendJob(r)
      <3>1. File(r) \in Keys
        BY <2>2, FileType DEF SendJob, InFlight, OwnKeys
      <3> QED
        BY <1>1, <2>2, <3>1 DEF SendJob, queueVars
    <2>3. CASE ~RecordQueued(r) /\ ~SendJob(r)
      <3>1. UNCHANGED <<log, rowVars, applied, told, redelivered, searchable, status, subject>>
        BY <1>2, <2>3 DEF RequestStep, StoreObject, StoreFails, RecordFails, DeclareJobQueue,
           SendJobOnLostConnection, queueVars, gatewayVars
      <3> QED
        BY <3>1, KeepsRows
    <2> QED
      BY <2>1, <2>2, <2>3
  <1>3. ASSUME NEW k \in Foreign, PublishForeign(k) PROVE Rows'
    <2>1. k \in Keys
      BY DebugWebAssumption
    <2> QED
      BY <1>1, <1>3, <2>1 DEF PublishForeign, queueVars
  <1>4. CASE GatewayWorks
    <2>1. UNCHANGED <<log, rowVars, applied, told, redelivered>> /\ searchable \subseteq searchable'
          /\ \A i \in Jobs : status[i] = "pending" /\ told[i] = "processing" =>
                status'[i] = "pending" /\ subject'[i] = subject[i]
      BY <1>4 DEF GatewayWorks, Gateway!MakeSearchable, Gateway!Finish, queueVars, Typed, TypeOK
    <2> QED
      BY <2>1, KeepsRows
  <1>5. ASSUME \/ \E r \in Requests, keys \in Uploads : Post(r, keys)
               \/ \E e \in Events : Deliver(e)
               \/ ApplyFails \/ AckResult \/ DropResult \/ NackResult
               \/ LosePublisher \/ LoseConsumer \/ CrashWeb \/ RecoverOrphans \/ StartWeb
               \/ UNCHANGED vars
        PROVE  UNCHANGED <<log, rowVars, applied, gatewayVars>> /\ redelivered \subseteq redelivered'
    BY <1>5 DEF Post, Deliver, ApplyFails, AckResult, DropResult, NackResult, GiveBack, LosePublisher,
       LoseConsumer, CrashWeb, RecoverOrphans, StartWeb, queueVars, vars
  <1>6. ASSUME UNCHANGED <<log, rowVars, applied, gatewayVars>>, redelivered \subseteq redelivered'
        PROVE  Rows'
    BY <1>6, KeepsRows DEF gatewayVars
  <1> QED
    BY <1>2, <1>3, <1>4, <1>5, <1>6, TellsRows, StrayRows, ApplyRows DEF Next, GatewayStep, HandleResult

-----------------------------------------------------------------------------
(***************************************************************************)
(* Jobs and the files they are of.                                         *)
(***************************************************************************)

\* Request r is past its p-th file, which is k.
IsPast(r, p, k) ==
    p <= Len(files[r]) /\ files[r][p] = k /\ (p < pos[r] \/ at[r] = "ok")

\* The two sets that OneJobPerFile counts grow together.
Counted ==
    \A k \in OwnKeys \ unsent :
        IsFiniteSet(Passed(k)) /\ Cardinality(JobsOf(k)) = Cardinality(Passed(k))

\* There are no jobs, and no request is past a file.
LEMMA InitCounted == Init => Counted
  <1> SUFFICES ASSUME Init, NEW k PROVE JobsOf(k) = {} /\ Passed(k) = {}
    BY FS_EmptySet DEF Counted
  <1>1. JobsOf(k) = {}
    BY DEF Init, JobsOf, Gateway!Init
  <1>2. Passed(k) = {}
    <2> SUFFICES ASSUME NEW f \in Requests \X (1..MaxFiles) PROVE ~IsPast(f[1], f[2], k)
      BY DEF Passed, IsPast
    <2>1. f[1] \in Requests /\ f[2] \in 1..MaxFiles
      OBVIOUS
    <2> QED
      BY <2>1 DEF IsPast, Init
  <1> QED
    BY <1>1, <1>2

\* The files that requests are past stay the same when no request comes past one.
LEMMA PassedStays ==
  ASSUME NEW k, \A r \in Requests, p \in 1..MaxFiles : IsPast(r, p, k)' <=> IsPast(r, p, k)
  PROVE  Passed(k)' = Passed(k)
  <1>1. ASSUME NEW f \in Requests \X (1..MaxFiles) PROVE IsPast(f[1], f[2], k)' <=> IsPast(f[1], f[2], k)
    <2>1. f[1] \in Requests /\ f[2] \in 1..MaxFiles
      OBVIOUS
    <2> QED
      BY <2>1
  <1> QED
    BY <1>1 DEF Passed, IsPast

\* They grow by the one that a request comes past.
LEMMA PassedGrows ==
  ASSUME NEW k, NEW r \in Requests, NEW n \in 1..MaxFiles, ~IsPast(r, n, k),
         \A q \in Requests, p \in 1..MaxFiles :
            IsPast(q, p, k)' <=> IsPast(q, p, k) \/ (q = r /\ p = n)
  PROVE  Passed(k)' = Passed(k) \cup {<<r, n>>} /\ <<r, n>> \notin Passed(k)
  <1>1. ASSUME NEW f \in Requests \X (1..MaxFiles)
        PROVE  IsPast(f[1], f[2], k)' <=> IsPast(f[1], f[2], k) \/ f = <<r, n>>
    <2>1. f[1] \in Requests /\ f[2] \in 1..MaxFiles /\ f = <<f[1], f[2]>>
      OBVIOUS
    <2> QED
      BY <2>1
  <1>2. <<r, n>> \in Requests \X (1..MaxFiles)
    OBVIOUS
  <1> QED
    BY <1>1, <1>2 DEF Passed, IsPast

\* There are no more jobs than there is room for.
LEMMA JobsAreFinite == \A k : IsFiniteSet(JobsOf(k))
  <1>1. IsFiniteSet(Jobs)
    BY FS_Interval, DebugWebAssumption DEF Jobs
  <1> QED
    BY <1>1, FS_Subset DEF JobsOf

\* A step that neither publishes a job nor comes past a file.
LEMMA KeepsCounted ==
  ASSUME Counted, unsent \subseteq unsent',
         \A k \in OwnKeys \ unsent' : JobsOf(k)' = JobsOf(k) /\ Passed(k)' = Passed(k)
  PROVE  Counted'
  <1> SUFFICES ASSUME NEW k \in OwnKeys \ unsent'
               PROVE  IsFiniteSet(Passed(k)') /\ Cardinality(JobsOf(k)') = Cardinality(Passed(k)')
    BY DEF Counted
  <1>1. k \in OwnKeys \ unsent
    OBVIOUS
  <1> QED
    BY <1>1 DEF Counted

\* A job is new, and of one key.
LEMMA NewJobCounts ==
  ASSUME Typed, NEW k \in Keys, NewJob(k)
  PROVE  \E j \in Jobs : /\ j \notin JobsOf(k) /\ JobsOf(k)' = JobsOf(k) \cup {j}
                         /\ \A i \in Keys \ {k} : JobsOf(i)' = JobsOf(i)
  <1>1. PICK j \in Jobs : Gateway!Submit(j, k)
    BY DEF NewJob
  <1>2. /\ status[j] = "absent"
        /\ \A i \in Jobs : status'[i] = IF i = j THEN "pending" ELSE status[i]
        /\ \A i \in Jobs : subject'[i] = IF i = j THEN k ELSE subject[i]
    BY <1>1 DEF Gateway!Submit, Typed, TypeOK
  <1> QED
    BY <1>2 DEF JobsOf

\* A request comes past the file it is at, and past no other.
LEMMA NextFilePasses ==
  ASSUME Typed, NEW r \in Requests, at[r] = "send", NextFile(r), files' = files
  PROVE  /\ ~IsPast(r, pos[r], File(r)) /\ pos[r] \in 1..MaxFiles
         /\ \A k : \A q \in Requests, p \in 1..MaxFiles :
               IsPast(q, p, k)' <=> IsPast(q, p, k) \/ (q = r /\ p = pos[r] /\ k = File(r))
  <1>1. /\ pos[r] \in 1..Len(files[r]) /\ Len(files[r]) \in Nat /\ File(r) = files[r][pos[r]]
    BY FileType DEF InFlight, File
  <1>2. pos[r] \in 1..MaxFiles
    BY <1>1, DebugWebAssumption DEF Typed, TypeOK
  <1>3. ~IsPast(r, pos[r], File(r))
    BY <1>1 DEF IsPast
  <1>4. ASSUME NEW k, NEW q \in Requests, NEW p \in 1..MaxFiles
        PROVE  IsPast(q, p, k)' <=> IsPast(q, p, k) \/ (q = r /\ p = pos[r] /\ k = File(r))
    <2>1. CASE q # r
      <3>1. pos'[q] = pos[q] /\ at'[q] = at[q]
        BY <2>1 DEF NextFile, Goto, Typed, TypeOK
      <3> QED
        BY <2>1, <3>1 DEF IsPast
    <2>2. CASE q = r /\ pos[r] < Len(files[r])
      <3>1. pos'[r] = pos[r] + 1 /\ at'[r] = "store"
        BY <2>2 DEF NextFile, Goto, Typed, TypeOK
      <3> QED
        BY <1>1, <2>2, <3>1 DEF IsPast
    <2>3. CASE q = r /\ ~(pos[r] < Len(files[r]))
      <3>1. at'[r] = "ok" /\ pos[r] = Len(files[r])
        BY <1>1, <2>3 DEF NextFile, Goto, Typed, TypeOK
      <3> QED
        BY <1>1, <2>3, <3>1 DEF IsPast
    <2> QED
      BY <2>1, <2>2, <2>3
  <1> QED
    BY <1>2, <1>3, <1>4

\* A job is published with the step past its file.
LEMMA SendCounted ==
  ASSUME Typed, Counted, NEW r \in Requests, SendJob(r)
  PROVE  Counted'
  <1>1. PICK k \in Keys : k = File(r)
    BY FileType DEF SendJob, InFlight, OwnKeys
  <1>2. PICK n \in 1..MaxFiles : n = pos[r]
    BY <1>1, NextFilePasses DEF SendJob
  <1>3. at[r] = "send" /\ NewJob(k) /\ NextFile(r) /\ files' = files /\ unsent' = unsent
    BY <1>1 DEF SendJob
  <1>4. PICK j \in Jobs : /\ j \notin JobsOf(k) /\ JobsOf(k)' = JobsOf(k) \cup {j}
                          /\ \A i \in Keys \ {k} : JobsOf(i)' = JobsOf(i)
    BY <1>3, NewJobCounts
  <1>5. /\ ~IsPast(r, n, k)
        /\ \A i : \A q \in Requests, p \in 1..MaxFiles :
              IsPast(q, p, i)' <=> IsPast(q, p, i) \/ (q = r /\ p = n /\ i = k)
    BY <1>1, <1>2, <1>3, NextFilePasses
  <1>6. Passed(k)' = Passed(k) \cup {<<r, n>>} /\ <<r, n>> \notin Passed(k)
    BY <1>5, PassedGrows
  <1> SUFFICES ASSUME NEW i \in OwnKeys \ unsent
               PROVE  IsFiniteSet(Passed(i)') /\ Cardinality(JobsOf(i)') = Cardinality(Passed(i)')
    BY <1>3 DEF Counted
  <1>7. IsFiniteSet(Passed(i)) /\ Cardinality(JobsOf(i)) = Cardinality(Passed(i))
    BY DEF Counted
  <1>8. CASE i = k
    <2>1. IsFiniteSet(JobsOf(k))
      BY JobsAreFinite
    <2>2. Cardinality(JobsOf(k) \cup {j}) = Cardinality(JobsOf(k)) + 1
      BY <1>4, <2>1, FS_AddElement
    <2>3. /\ IsFiniteSet(Passed(k) \cup {<<r, n>>})
          /\ Cardinality(Passed(k) \cup {<<r, n>>}) = Cardinality(Passed(k)) + 1
      BY <1>6, <1>7, <1>8, FS_AddElement
    <2> QED
      BY <1>4, <1>6, <1>7, <1>8, <2>2, <2>3
  <1>9. CASE i # k
    <2>1. JobsOf(i)' = JobsOf(i)
      BY <1>4, <1>9 DEF OwnKeys
    <2>2. Passed(i)' = Passed(i)
      BY <1>5, <1>9, PassedStays
    <2> QED
      BY <1>7, <2>1, <2>2
  <1> QED
    BY <1>8, <1>9

\* Without a job the request goes on only past a file of a lost write.
LEMMA RequestCounted ==
  ASSUME Typed, Counted, NEW r \in Requests, RequestStep(r), ~SendJob(r)
  PROVE  Counted'
  <1>1. files' = files /\ unsent \subseteq unsent' /\ \A k : JobsOf(k)' = JobsOf(k)
    <2>1. files' = files /\ unsent \subseteq unsent' /\ status' = status /\ subject' = subject
      BY DEF RequestStep, StoreObject, StoreFails, RecordQueued, RecordFails, DeclareJobQueue,
         SendJobOnLostConnection, gatewayVars
    <2> QED
      BY <2>1 DEF JobsOf
  <1>2. CASE pos' = pos /\ \E label \in {"record", "declare", "send", "refused"} : Goto(r, label)
    <2>1. at[r] # "ok" /\ at'[r] # "ok" /\ \A q \in Requests : q # r => at'[q] = at[q]
      <3>1. at[r] # "ok"
        BY DEF RequestStep, StoreObject, StoreFails, RecordQueued, RecordFails, DeclareJobQueue,
           SendJobOnLostConnection
      <3> QED
        BY <1>2, <3>1 DEF Goto, Typed, TypeOK
    <2>2. \A k : \A q \in Requests, p \in 1..MaxFiles : IsPast(q, p, k)' <=> IsPast(q, p, k)
      BY <1>1, <1>2, <2>1 DEF IsPast
    <2>3. \A k : Passed(k)' = Passed(k)
      BY <2>2, PassedStays
    <2> QED
      BY <1>1, <2>3, KeepsCounted
  <1>3. CASE SendJobOnLostConnection(r) /\ NextFile(r) /\ unsent' = unsent \cup {File(r)}
    <2>1. \A k : \A q \in Requests, p \in 1..MaxFiles :
             k # File(r) => (IsPast(q, p, k)' <=> IsPast(q, p, k))
      BY <1>1, <1>3, NextFilePasses DEF SendJobOnLostConnection
    <2>2. ASSUME NEW k, k \notin unsent' PROVE Passed(k)' = Passed(k)
      BY <1>3, <2>1, <2>2, PassedStays
    <2> QED
      BY <1>1, <2>2, KeepsCounted
  <1> QED
    BY <1>2, <1>3 DEF RequestStep, StoreObject, StoreFails, RecordQueued, RecordFails,
       DeclareJobQueue, SendJobOnLostConnection

\* A step that leaves the requests alone leaves the files they are past.
LEMMA OtherCounted ==
  ASSUME Counted, UNCHANGED <<requestVars, unsent>>, \A k \in OwnKeys : JobsOf(k)' = JobsOf(k)
  PROVE  Counted'
  <1>1. \A k : Passed(k)' = Passed(k)
    BY DEF Passed, requestVars
  <1> QED
    BY <1>1, KeepsCounted

\* Whatever else happens, jobs and files are added together.
LEMMA NextCounted == Typed /\ Counted /\ [Next]_vars => Counted'
  <1> SUFFICES ASSUME Typed, Counted, [Next]_vars PROVE Counted'
    OBVIOUS
  <1>1. ASSUME NEW r \in Requests, NEW keys \in Uploads, Post(r, keys) PROVE Counted'
    <2>1. /\ at[r] = "new" /\ pos[r] = 1 /\ at'[r] = "store" /\ pos' = pos /\ unsent' = unsent
          /\ \A q \in Requests : q # r => at'[q] = at[q] /\ files'[q] = files[q]
      BY <1>1 DEF Post, Goto, Typed, TypeOK, RequestPosition
    <2>2. \A k : \A q \in Requests, p \in 1..MaxFiles : IsPast(q, p, k)' <=> IsPast(q, p, k)
      BY <2>1 DEF IsPast
    <2>3. \A k : Passed(k)' = Passed(k)
      BY <2>2, PassedStays
    <2>4. \A k : JobsOf(k)' = JobsOf(k)
      BY <1>1 DEF Post, JobsOf, gatewayVars
    <2> QED
      BY <2>1, <2>3, <2>4, KeepsCounted
  <1>2. CASE CrashWeb
    <2>1. /\ \A q \in Requests : at'[q] = "ok" <=> at[q] = "ok"
          /\ UNCHANGED <<files, pos, unsent, status, subject>>
      BY <1>2 DEF CrashWeb, InFlight, gatewayVars
    <2>2. \A k : \A q \in Requests, p \in 1..MaxFiles : IsPast(q, p, k)' <=> IsPast(q, p, k)
      BY <2>1 DEF IsPast
    <2>3. \A k : Passed(k)' = Passed(k)
      BY <2>2, PassedStays
    <2>4. \A k : JobsOf(k)' = JobsOf(k)
      BY <2>1 DEF JobsOf
    <2> QED
      BY <2>1, <2>3, <2>4, KeepsCounted
  <1>3. ASSUME NEW k \in Foreign, PublishForeign(k) PROVE Counted'
    <2>1. k \in Keys /\ k \notin OwnKeys /\ NewJob(k) /\ UNCHANGED <<requestVars, unsent>>
      BY <1>3, DebugWebAssumption DEF OwnKeys, PublishForeign
    <2>2. \A i \in OwnKeys : JobsOf(i)' = JobsOf(i)
      BY <2>1, NewJobCounts DEF OwnKeys
    <2> QED
      BY <2>1, <2>2, OtherCounted
  <1>4. CASE GatewayStep \/ PutStray
    <2>1. UNCHANGED <<requestVars, unsent>>
      BY <1>4 DEF GatewayStep, GatewayTells, GatewayWorks, PutStray
    <2>2. subject' = subject /\ \A j \in Jobs : status'[j] = "absent" <=> status[j] = "absent"
      BY <1>4 DEF GatewayStep, GatewayTells, GatewayWorks, Gateway!Tell, Gateway!MakeSearchable,
         Gateway!Finish, PutStray, gatewayVars, Typed, TypeOK
    <2>3. \A k : JobsOf(k)' = JobsOf(k)
      BY <2>2 DEF JobsOf
    <2> QED
      BY <2>1, <2>3, OtherCounted
  <1>5. ASSUME \/ \E e \in Events : Deliver(e)
               \/ HandleResult \/ LosePublisher \/ LoseConsumer \/ RecoverOrphans \/ StartWeb
               \/ UNCHANGED vars
        PROVE  Counted'
    <2>1. UNCHANGED <<requestVars, unsent, status, subject>>
      BY <1>5 DEF Deliver, HandleResult, ApplyResult, ApplyFails, AckResult, DropResult, NackResult,
         LosePublisher, LoseConsumer, RecoverOrphans, StartWeb, gatewayVars, vars
    <2>2. \A k : JobsOf(k)' = JobsOf(k)
      BY <2>1 DEF JobsOf
    <2> QED
      BY <2>1, <2>2, OtherCounted
  <1> QED
    BY <1>1, <1>2, <1>3, <1>4, <1>5, SendCounted, RequestCounted DEF Next

-----------------------------------------------------------------------------
(***************************************************************************)
(* What follows for the properties of DebugWeb.                            *)
(***************************************************************************)
IInv == Typed /\ Complete /\ Window /\ Rows /\ Counted

\* All of these are kept together.
THEOREM SpecIInv == Spec => []IInv
  <1>1. Init => IInv
    BY InitTyped, InitComplete, InitWindow, InitRows, InitCounted DEF IInv
  <1>2. IInv /\ [Next]_vars => IInv'
    BY NextTyped, NextComplete, NextWindow, NextRows, NextCounted DEF IInv
  <1> QED
    BY <1>1, <1>2, PTL DEF Spec

\* Rows, window, result queue and requests hold what debug-web puts there; an
\* event that the consumer holds or a row was updated with is in the log.
THEOREM SpecTypeOK == Spec => []TypeOK
  <1>1. IInv => TypeOK
    BY DEF IInv, Typed
  <1> QED
    BY <1>1, SpecIInv, PTL

\* processUpload publishes a job after the object and the row of its file, so
\* the gateway finds the object and its results the row.
THEOREM SpecJobsAreComplete == Spec => []JobsAreComplete
  <1>1. IInv => JobsAreComplete
    BY DEF IInv, Complete
  <1> QED
    BY <1>1, SpecIInv, PTL

\* ConsumeResults acks an event only after its row was updated, so failed
\* updates, lost connections and crashes leave it with the broker; what it drops
\* is a message that no event can be parsed from.
THEOREM SpecNoResultIsLost == Spec => []NoResultIsLost
  <1>1. IInv => NoResultIsLost
    BY DEF IInv, Window
  <1> QED
    BY <1>1, SpecIInv, PTL

\* The status page shows "indexed" of searchable images only.
THEOREM SpecIndexedRowIsSearchable == Spec => []IndexedRowIsSearchable
  <1>1. ASSUME IInv, NEW k \in Keys, row[k] = "indexed" PROVE k \in searchable
    <2>1. updatedAt[k] \in applied /\ log[updatedAt[k]].key = k /\ log[updatedAt[k]].status = "indexed"
      BY <1>1 DEF IInv, Rows, RowShowsEvent
    <2>2. updatedAt[k] \in DOMAIN log
      BY <1>1, <2>1 DEF IInv, Typed, TypeOK
    <2> QED
      BY <1>1, <2>1, <2>2 DEF IInv, Rows, IndexedEventIsTrue
  <1>2. IInv => IndexedRowIsSearchable
    BY <1>1 DEF IndexedRowIsSearchable
  <1> QED
    BY <1>2, SpecIInv, PTL

\* A request publishes one job of each file it comes past, through refusals,
\* crashes and repeated uploads, but for a write to a lost connection.
THEOREM SpecOneJobPerFile == Spec => []OneJobPerFile
  <1>1. IInv => OneJobPerFile
    BY DEF IInv, Counted, OneJobPerFile
  <1> QED
    BY <1>1, SpecIInv, PTL

\* The last of the events of a key, when all of them are applied.
LEMMA LastIsShown ==
  ASSUME IInv, NEW k \in OwnKeys, Quiet(k), EventsOf(k) # {}, EventsOf(k) \cap redelivered = {},
         row[k] # "queued"
  PROVE  LastEvent(k) = updatedAt[k] /\ updatedAt[k] \in EventsOf(k)
         /\ \A d \in EventsOf(k) : d <= updatedAt[k]
  <1> DEFINE u == updatedAt[k]
  <1>1. EventsOf(k) \subseteq DOMAIN log /\ DOMAIN log \subseteq Nat /\ k \in Keys
    BY EventsAreNumbers DEF EventsOf, IInv, OwnKeys
  <1>2. EventsOf(k) \subseteq applied
    <2>1. \A e \in EventsOf(k) : log[e] # Unreadable
      BY <1>1, EventType DEF EventsOf, IInv
    <2> QED
      BY <1>1, <2>1 DEF IInv, Window, NoResultIsLost, Quiet
  <1>3. row[k] # "absent"
    BY DEF IInv, Complete, EventsHaveRows, EventsOf
  <1>4. u \in EventsOf(k)
    BY <1>1, <1>3 DEF IInv, Rows, RowShowsEvent, EventsOf, Typed, TypeOK
  <1>5. \A d \in EventsOf(k) : d <= u
    BY <1>2 DEF IInv, Rows, AppliedIsCounted, EventsOf
  <1>6. \A e \in EventsOf(k) : (\A d \in EventsOf(k) : d <= e) => e = u
    BY <1>1, <1>4, <1>5
  <1>7. LastEvent(k) = u
    BY <1>4, <1>5, <1>6 DEF LastEvent
  <1> QED
    BY <1>4, <1>5, <1>7

\* Once all events of a key are consumed, each once, the row shows the status
\* the gateway told last: the window keeps their order.
THEOREM SpecQuietRowsAreFinal == Spec => []QuietRowsAreFinal
  <1>1. ASSUME IInv PROVE QuietRowsAreFinal
    <2> SUFFICES ASSUME NEW k \in OwnKeys, Quiet(k), EventsOf(k) # {},
                        EventsOf(k) \cap redelivered = {}, row[k] # "queued"
                 PROVE  row[k] = log[LastEvent(k)].status /\ row[k] # "processing"
      BY DEF QuietRowsAreFinal
    <2>1. /\ LastEvent(k) = updatedAt[k] /\ updatedAt[k] \in EventsOf(k)
          /\ \A d \in EventsOf(k) : d <= updatedAt[k]
      BY <1>1, LastIsShown
    <2>2. row[k] = log[updatedAt[k]].status
      <3>1. k \in Keys /\ row[k] # "absent"
        BY <1>1, <2>1 DEF IInv, Complete, EventsHaveRows, EventsOf, OwnKeys
      <3> QED
        BY <1>1, <3>1 DEF IInv, Rows, RowShowsEvent
    <2>3. log[updatedAt[k]].status # "processing"
      <3>1. updatedAt[k] \in DOMAIN log /\ log[updatedAt[k]].key = k
        BY <2>1 DEF EventsOf
      <3>2. ~\E j \in Jobs : status[j] = "pending" /\ subject[j] = k
        BY DEF Quiet, JobsOf
      <3> QED
        BY <1>1, <2>1, <3>1, <3>2 DEF IInv, Rows, ProcessingIsPending
    <2> QED
      BY <2>1, <2>2, <2>3
  <1> QED
    BY <1>1, SpecIInv, PTL

\* UpdateStatus overwrites whatever the row holds, and the order of the window
\* still keeps an older event from a newer one's row, until one is redelivered.
THEOREM SpecRowsGoBackOnlyByRedelivery == Spec => RowsGoBackOnlyByRedelivery
  <1>1. ASSUME IInv, [Next]_vars, NEW k \in Keys, row[k] # "queued", updatedAt'[k] < updatedAt[k]
        PROVE  Head(fetched) \in redelivered
    <2>1. ASSUME NEW r \in Requests, RecordQueued(r) PROVE FALSE
      <3>1. updatedAt'[k] = Len(log) \/ updatedAt'[k] = updatedAt[k]
        BY <1>1, <2>1 DEF RecordQueued, IInv, Typed, TypeOK
      <3>2. updatedAt[k] <= Len(log) /\ updatedAt[k] \in Nat /\ Len(log) \in Nat
        BY <1>1, EventsAreNumbers DEF IInv, Rows, TimesInLog, Typed, TypeOK
      <3> QED
        BY <1>1, <3>1, <3>2
    <2>2. CASE ApplyResult
      <3>1. updatedAt' # updatedAt /\ updatedAt[k] \in Nat
        BY <1>1 DEF IInv, Typed, TypeOK
      <3>2. /\ consumer = "idle" /\ fetched # <<>> /\ row[log[Head(fetched)].key] # "absent"
            /\ updatedAt' = [updatedAt EXCEPT ![log[Head(fetched)].key] = Head(fetched)]
        BY <2>2, <3>1 DEF ApplyResult, Update, rowVars
      <3>3. k = log[Head(fetched)].key /\ updatedAt'[k] = Head(fetched) /\ Head(fetched) \in Nat
        BY <1>1, <3>1, <3>2, HeadType, EventsAreNumbers DEF IInv, Typed, TypeOK
      <3>4. updatedAt[k] \in applied
        BY <1>1, <3>2, <3>3 DEF IInv, Rows, RowShowsEvent
      <3>5. Head(fetched) = fetched[1] /\ 1 \in 1..Len(fetched)
        BY <1>1, <3>2, TailFacts DEF IInv, Typed, TypeOK
      <3>6. updatedAt[k] < Head(fetched) \/ Head(fetched) \in redelivered
        BY <1>1, <3>2, <3>4, <3>5 DEF IInv, Window, InOrder, AppliedInOrder
      <3> QED
        BY <1>1, <3>1, <3>3, <3>6
    <2>3. CASE UNCHANGED rowVars
      BY <1>1, <2>3 DEF rowVars, IInv, Typed, TypeOK
    <2>4. \/ \E r \in Requests : RecordQueued(r)
          \/ ApplyResult \/ UNCHANGED rowVars
      BY <1>1 DEF Next, Post, RequestStep, StoreObject, StoreFails, RecordFails, DeclareJobQueue,
         SendJob, SendJobOnLostConnection, PublishForeign, GatewayStep, GatewayTells, GatewayWorks,
         PutStray, Deliver, HandleResult, ApplyFails, AckResult, DropResult, NackResult, LosePublisher,
         LoseConsumer, CrashWeb, RecoverOrphans, StartWeb, vars
    <2> QED
      BY <2>1, <2>2, <2>3, <2>4
  <1>2. IInv /\ [Next]_vars =>
           [\A k \in Keys : row[k] # "queued" /\ updatedAt'[k] < updatedAt[k]
                               => Head(fetched) \in redelivered]_vars
    BY <1>1
  <1> QED
    BY <1>2, SpecIInv, PTL DEF Spec, RowsGoBackOnlyByRedelivery
=============================================================================
