------------------------------ MODULE DebugWeb -------------------------------
(***************************************************************************)
(* debug-web: upload requests that store an object, record a row and       *)
(* publish a job for each of their files, and the goroutine that consumes  *)
(* image_job_results and overwrites the status of the rows.                *)
(*                                                                         *)
(* The gateway is here what GatewayIngestion is proved to implement:       *)
(* ImageJobs, each status it tells being an event in the result queue.  An *)
(* event is its number in publication order, which is also its             *)
(* occurred_at (one thread of the gateway stamps and publishes them), so   *)
(* the result queue is a set from which the broker delivers the smallest.  *)
(***************************************************************************)
EXTENDS Integers, Sequences, FiniteSets, Functions, TLC

CONSTANTS
    Keys,         \* object keys, which are also the image ids
    Foreign,      \* keys of jobs that publish_directory_to_queue.py publishes
    NotImages,    \* keys of files without an image content type
    Requests,     \* POST /uploads requests
    MaxFiles,     \* bound: files of one request
    MaxJobs,      \* bound: jobs ever published
    MaxEvents,    \* bound: messages ever published to the result queue
    NoKey,        \* stands for the key of a message that is no result event
    MaxStrays,    \* bound: such messages
    Prefetch,     \* Qos of ConsumeResults (20)
    MaxFaults,    \* bound: crashes and failed S3, sqlite and row-update calls
    MaxLosses     \* bound: lost AMQP connections

ASSUME DebugWebAssumption ==
    /\ Foreign \subseteq Keys /\ NotImages \subseteq Keys \ Foreign
    /\ {MaxFiles, MaxJobs, MaxEvents, MaxStrays, MaxFaults, MaxLosses} \subseteq Nat
    /\ Prefetch \in Nat \ {0}
    /\ Keys # {} /\ NoKey \notin Keys

Jobs == 1..MaxJobs
Events == 1..MaxEvents
OwnKeys == Keys \ Foreign
Statuses == {"processing", "indexed", "failed"}

\* A message that ParseResultMessage refuses.
Unreadable == [key |-> NoKey, status |-> "unreadable"]

VARIABLES
    objects,     \* keys stored in S3
    row,         \* status column of the row of each key, or "absent"
    updatedAt,   \* updated_at column of the row
    files, pos,  \* of each request: the keys of its files, the current one
    at,          \* of each request: the next call of processUpload, or its end
    publisher,   \* the publisher's connection: "open" or "closed"
    consumer,    \* ConsumeResults: "idle", "ack", "nack", "drop", "ended", or
                 \* "down" with the whole process
    log,         \* messages ever published to the result queue: key and status
    queued,      \* events in the result queue
    fetched,     \* events delivered and not acked, in order of delivery
    orphaned,    \* events delivered to a process that has died since
    applied,     \* history: events that a row was updated with
    redelivered, \* history: events the queue delivered and took back
    unsent,      \* history: keys whose job was written to a lost connection
    faults, losses,
    status, subject, searchable, told   \* the gateway, as in ImageJobs

Gateway == INSTANCE ImageJobs WITH Images <- Keys

gatewayVars == <<status, subject, searchable, told>>
requestVars == <<files, pos, at>>
rowVars == <<row, updatedAt>>
queueVars == <<log, queued, fetched, orphaned, redelivered>>
vars == <<objects, rowVars, requestVars, publisher, consumer, queueVars, applied,
          unsent, faults, losses, gatewayVars>>

\* Types of the stores, of the requests, of the result queue and of the gateway.
TypeOK ==
    /\ objects \subseteq Keys
    /\ row \in [Keys -> {"absent", "queued", "processing", "indexed", "failed"}]
    /\ updatedAt \in [Keys -> 0..MaxEvents]
    /\ files \in [Requests -> Seq(OwnKeys)] /\ \A r \in Requests : Len(files[r]) <= MaxFiles
    /\ pos \in [Requests -> 1..(MaxFiles + 1)]
    /\ at \in [Requests -> {"new", "store", "record", "declare", "send", "ok", "refused"}]
    /\ publisher \in {"open", "closed"}
    /\ consumer \in {"idle", "ack", "nack", "drop", "ended", "down"}
    /\ log \in Seq([key : Keys, status : Statuses] \cup {Unreadable})
    /\ Len(log) <= MaxEvents
    /\ fetched \in Seq(Events) /\ Len(fetched) <= Prefetch
    /\ queued \cup orphaned \cup redelivered \cup applied \cup Range(fetched) \subseteq DOMAIN log
    /\ unsent \subseteq OwnKeys
    /\ faults \in 0..MaxFaults /\ losses \in 0..MaxLosses
    /\ status \in [Jobs -> {"absent", "pending", "indexed", "failed"}]
    /\ subject \in [Jobs -> Keys] /\ searchable \subseteq Keys
    /\ told \in [Jobs -> {"none", "processing", "indexed", "failed"}]

-----------------------------------------------------------------------------
Fault == faults < MaxFaults /\ faults' = faults + 1
Loss == losses < MaxLosses /\ losses' = losses + 1

File(r) == files[r][pos[r]]
Goto(r, label) == at' = [at EXCEPT ![r] = label]
InFlight(r) == at[r] \in {"store", "record", "declare", "send"}
Up == consumer # "down"
Consuming == consumer \notin {"ended", "down"}

\* The loop of uploads goes on with the next file, or redirects after the last.
NextFile(r) ==
    IF pos[r] < Len(files[r])
    THEN pos' = [pos EXCEPT ![r] = @ + 1] /\ Goto(r, "store")
    ELSE UNCHANGED pos /\ Goto(r, "ok")

\* A job message reaches the queue that the gateway drains.
NewJob(k) ==
    \E j \in Jobs :
        /\ \A i \in 1..(j - 1) : status[i] # "absent"
        /\ Gateway!Submit(j, k)

\* A message reaches the result queue.
Enqueue(message) ==
    /\ Len(log) < MaxEvents
    /\ log' = Append(log, message)
    /\ queued' = queued \cup {Len(log) + 1}

\* The broker takes back what it had delivered.
GiveBack(events) ==
    /\ queued' = queued \cup events
    /\ redelivered' = redelivered \cup events

\* UpdateStatus: the row of event e gets status s and the time of the event.
Update(e, s) ==
    /\ row' = [row EXCEPT ![log[e].key] = s]
    /\ updatedAt' = [updatedAt EXCEPT ![log[e].key] = e]
    /\ applied' = applied \cup {e}

Init ==
    /\ objects = {}
    /\ row = [k \in Keys |-> "absent"] /\ updatedAt = [k \in Keys |-> 0]
    /\ files = [r \in Requests |-> <<>>] /\ pos = [r \in Requests |-> 1]
    /\ at = [r \in Requests |-> "new"]
    /\ publisher = "open" /\ consumer = "idle"
    /\ log = <<>> /\ queued = {} /\ fetched = <<>> /\ orphaned = {}
    /\ applied = {} /\ redelivered = {} /\ unsent = {}
    /\ faults = 0 /\ losses = 0
    /\ subject = [j \in Jobs |-> CHOOSE k \in Keys : TRUE]
    /\ Gateway!Init

-----------------------------------------------------------------------------
(***************************************************************************)
(* Plausible mistakes: variants of the actions below, each of which breaks *)
(* one of the properties.                                                  *)
(***************************************************************************)

\* A failed S3 upload is logged.
StoreFailsGoesOn(r) ==
    /\ at[r] = "store" /\ File(r) \notin NotImages
    /\ Fault
    /\ Goto(r, "record")
    /\ UNCHANGED <<objects, rowVars, files, pos, publisher, consumer, queueVars, applied,
                   unsent, losses, gatewayVars>>

\* A file whose job cannot be published is skipped.
DeclareJobQueueSkips(r) ==
    /\ at[r] = "declare"
    /\ IF publisher = "open" THEN Goto(r, "send") /\ UNCHANGED pos ELSE NextFile(r)
    /\ UNCHANGED <<objects, rowVars, files, publisher, consumer, queueVars, applied,
                   unsent, faults, losses, gatewayVars>>

\* No Qos: the broker pushes all it has.
DeliverWithoutQos(e) ==
    /\ Consuming
    /\ e \in queued /\ \A d \in queued : e <= d
    /\ queued' = queued \ {e}
    /\ fetched' = Append(fetched, e)
    /\ UNCHANGED <<objects, rowVars, requestVars, publisher, consumer, log, orphaned,
                   redelivered, applied, unsent, faults, losses, gatewayVars>>

\* Every result is taken for success.
ApplyResultAsIndexed ==
    /\ consumer = "idle" /\ fetched # <<>> /\ log[Head(fetched)] # Unreadable
    /\ Update(Head(fetched), "indexed") /\ consumer' = "ack"
    /\ UNCHANGED <<objects, requestVars, publisher, queueVars, unsent, faults, losses, gatewayVars>>

\* A goroutine per delivery: any of them is the first to update.
ApplyResultConcurrently ==
    /\ consumer = "idle"
    /\ \E e \in Range(fetched) : log[e] # Unreadable /\ Update(e, log[e].status)
    /\ consumer' = "ack"
    /\ UNCHANGED <<objects, requestVars, publisher, queueVars, unsent, faults, losses, gatewayVars>>

\* A final status is never overwritten.
ApplyResultKeepsFinal ==
    /\ consumer = "idle" /\ fetched # <<>> /\ log[Head(fetched)] # Unreadable
    /\ LET e == Head(fetched)
           k == log[e].key
       IN  Update(e, IF row[k] \in {"indexed", "failed"} THEN row[k] ELSE log[e].status)
    /\ consumer' = "ack"
    /\ UNCHANGED <<objects, requestVars, publisher, queueVars, unsent, faults, losses, gatewayVars>>

\* Nack without requeue after a failed update.
NackResultDrops ==
    /\ consumer = "nack"
    /\ consumer' = "idle" /\ fetched' = Tail(fetched)
    /\ UNCHANGED <<objects, rowVars, requestVars, publisher, log, queued, orphaned,
                   redelivered, applied, unsent, faults, losses, gatewayVars>>

-----------------------------------------------------------------------------
(***************************************************************************)
(* POST /uploads.                                                          *)
(***************************************************************************)
Post(r, keys) ==
    /\ Up /\ at[r] = "new"
    /\ files' = [files EXCEPT ![r] = keys]
    /\ Goto(r, "store")
    /\ UNCHANGED <<objects, rowVars, pos, publisher, consumer, queueVars, applied,
                   unsent, faults, losses, gatewayVars>>

\* The S3 upload; two files of the same name have the same object key.
StoreObject(r) ==
    /\ at[r] = "store" /\ File(r) \notin NotImages
    /\ objects' = objects \cup {File(r)}
    /\ Goto(r, "record")
    /\ UNCHANGED <<rowVars, files, pos, publisher, consumer, queueVars, applied,
                   unsent, faults, losses, gatewayVars>>

\* The file is refused or the upload fails, whether S3 stored the object or
\* not: the files after it are left alone, those before it stay as they are.
StoreFails(r) ==
    /\ at[r] = "store"
    /\ \/ File(r) \in NotImages /\ UNCHANGED <<objects, faults>>
       \/ File(r) \notin NotImages /\ Fault /\ objects' \in {objects, objects \cup {File(r)}}
    /\ Goto(r, "refused")
    /\ UNCHANGED <<rowVars, files, pos, publisher, consumer, queueVars, applied,
                   unsent, losses, gatewayVars>>

\* UpsertQueued, stamped with the time of the request.
RecordQueued(r) ==
    /\ at[r] = "record"
    /\ row' = [row EXCEPT ![File(r)] = "queued"]
    /\ updatedAt' = [updatedAt EXCEPT ![File(r)] = Len(log)]
    /\ Goto(r, "declare")
    /\ UNCHANGED <<objects, files, pos, publisher, consumer, queueVars, applied,
                   unsent, faults, losses, gatewayVars>>

RecordFails(r) ==
    /\ at[r] = "record"
    /\ Fault
    /\ Goto(r, "refused")
    /\ UNCHANGED <<objects, rowVars, files, pos, publisher, consumer, queueVars, applied,
                   unsent, losses, gatewayVars>>

\* PublishJob first declares the queue and waits for the reply; the publisher
\* never reconnects, so on a lost connection every upload fails from here on.
DeclareJobQueue(r) ==
    /\ at[r] = "declare"
    /\ Goto(r, IF publisher = "open" THEN "send" ELSE "refused")
    /\ UNCHANGED <<objects, rowVars, files, pos, publisher, consumer, queueVars, applied,
                   unsent, faults, losses, gatewayVars>>

SendJob(r) ==
    /\ at[r] = "send" /\ publisher = "open"
    /\ NewJob(File(r))
    /\ NextFile(r)
    /\ UNCHANGED <<objects, rowVars, files, publisher, consumer, queueVars, applied,
                   unsent, faults, losses>>

\* The connection went away after the reply: an error, or a write that nobody
\* reads and nobody misses, for there are no publisher confirms.
SendJobOnLostConnection(r) ==
    /\ at[r] = "send" /\ publisher = "closed"
    /\ \/ Goto(r, "refused") /\ UNCHANGED <<pos, unsent>>
       \/ NextFile(r) /\ unsent' = unsent \cup {File(r)}
    /\ UNCHANGED <<objects, rowVars, files, publisher, consumer, queueVars, applied,
                   faults, losses, gatewayVars>>

-----------------------------------------------------------------------------
(***************************************************************************)
(* Outside debug-web: the script that publishes a directory, the gateway.  *)
(***************************************************************************)

\* publish_directory_to_queue.py uploads and publishes; no row is recorded.
PublishForeign(k) ==
    /\ k \in Foreign
    /\ objects' = objects \cup {k}
    /\ NewJob(k)
    /\ UNCHANGED <<rowVars, requestVars, publisher, consumer, queueVars, applied,
                   unsent, faults, losses>>

GatewayTells(j, s) ==
    /\ Gateway!Tell(j, s)
    /\ Enqueue([key |-> subject[j], status |-> s])
    /\ UNCHANGED <<objects, rowVars, requestVars, publisher, consumer, fetched, orphaned,
                   redelivered, applied, unsent, faults, losses>>

\* Somebody puts a message of another kind into the queue: the gateway never does.
PutStray ==
    /\ Cardinality({e \in DOMAIN log : log[e] = Unreadable}) < MaxStrays
    /\ Enqueue(Unreadable)
    /\ UNCHANGED <<objects, rowVars, requestVars, publisher, consumer, fetched, orphaned,
                   redelivered, applied, unsent, faults, losses, gatewayVars>>

GatewayWorks ==
    /\ \/ \E k \in Keys : k \notin searchable /\ Gateway!MakeSearchable({k})
       \/ \E j \in Jobs, s \in {"indexed", "failed"} : Gateway!Finish(j, s)
    /\ UNCHANGED <<objects, rowVars, requestVars, publisher, consumer, queueVars, applied,
                   unsent, faults, losses>>

-----------------------------------------------------------------------------
(***************************************************************************)
(* ConsumeResults.                                                         *)
(***************************************************************************)

\* The broker delivers the oldest event, up to Prefetch of them unacked.
Deliver(e) ==
    /\ Consuming /\ Len(fetched) < Prefetch
    /\ e \in queued /\ \A d \in queued : e <= d
    /\ queued' = queued \ {e}
    /\ fetched' = Append(fetched, e)
    /\ UNCHANGED <<objects, rowVars, requestVars, publisher, consumer, log, orphaned,
                   redelivered, applied, unsent, faults, losses, gatewayVars>>

\* The delivery is parsed.  UpdateStatus overwrites the row whatever it holds;
\* without a row it fails.
ApplyResult ==
    /\ consumer = "idle" /\ fetched # <<>>
    /\ LET e == Head(fetched)
       IN  IF log[e] = Unreadable
           THEN consumer' = "drop" /\ UNCHANGED <<rowVars, applied>>
           ELSE \/ /\ row[log[e].key] = "absent"
                   /\ consumer' = "nack" /\ UNCHANGED <<rowVars, applied>>
                \/ /\ row[log[e].key] # "absent"
                   /\ Update(e, log[e].status) /\ consumer' = "ack"
    /\ UNCHANGED <<objects, requestVars, publisher, queueVars, unsent, faults, losses, gatewayVars>>

\* sqlite fails the update, for instance because a request holds its lock.
ApplyFails ==
    /\ consumer = "idle" /\ fetched # <<>> /\ log[Head(fetched)] # Unreadable
    /\ Fault
    /\ consumer' = "nack"
    /\ UNCHANGED <<objects, rowVars, requestVars, publisher, queueVars, applied,
                   unsent, losses, gatewayVars>>

AckResult ==
    /\ consumer = "ack"
    /\ consumer' = "idle" /\ fetched' = Tail(fetched)
    /\ UNCHANGED <<objects, rowVars, requestVars, publisher, log, queued, orphaned,
                   redelivered, applied, unsent, faults, losses, gatewayVars>>

\* Nack without requeue, of what could not be parsed.
DropResult ==
    /\ consumer = "drop"
    /\ consumer' = "idle" /\ fetched' = Tail(fetched)
    /\ UNCHANGED <<objects, rowVars, requestVars, publisher, log, queued, orphaned,
                   redelivered, applied, unsent, faults, losses, gatewayVars>>

\* Nack with requeue: back to its place in the queue.
NackResult ==
    /\ consumer = "nack"
    /\ consumer' = "idle" /\ fetched' = Tail(fetched)
    /\ GiveBack({Head(fetched)})
    /\ UNCHANGED <<objects, rowVars, requestVars, publisher, log, orphaned,
                   applied, unsent, faults, losses, gatewayVars>>

-----------------------------------------------------------------------------
(***************************************************************************)
(* Connections and the process.                                            *)
(***************************************************************************)
LosePublisher ==
    /\ Up /\ publisher = "open"
    /\ Loss
    /\ publisher' = "closed"
    /\ UNCHANGED <<objects, rowVars, requestVars, consumer, queueVars, applied,
                   unsent, faults, gatewayVars>>

\* The delivery channel is closed: ConsumeResults returns, the goroutine logs
\* that and ends, and the HTTP server goes on without it.
LoseConsumer ==
    /\ Consuming
    /\ Loss
    /\ consumer' = "ended" /\ fetched' = <<>>
    /\ GiveBack(Range(fetched))
    /\ UNCHANGED <<objects, rowVars, requestVars, publisher, log, orphaned,
                   applied, unsent, faults, gatewayVars>>

\* The process dies with its requests; the broker will notice.
CrashWeb ==
    /\ Up
    /\ Fault
    /\ at' = [r \in Requests |-> IF InFlight(r) THEN "refused" ELSE at[r]]
    /\ publisher' = "closed" /\ consumer' = "down"
    /\ fetched' = <<>> /\ orphaned' = orphaned \cup Range(fetched)
    /\ UNCHANGED <<objects, rowVars, files, pos, log, queued, redelivered,
                   applied, unsent, losses, gatewayVars>>

RecoverOrphans ==
    /\ orphaned # {}
    /\ orphaned' = {}
    /\ GiveBack(orphaned)
    /\ UNCHANGED <<objects, rowVars, requestVars, publisher, consumer, log, fetched,
                   applied, unsent, faults, losses, gatewayVars>>

StartWeb ==
    /\ ~Up
    /\ publisher' = "open" /\ consumer' = "idle"
    /\ UNCHANGED <<objects, rowVars, requestVars, queueVars, applied,
                   unsent, faults, losses, gatewayVars>>

-----------------------------------------------------------------------------
Uploads == UNION {[1..n -> OwnKeys] : n \in 1..MaxFiles}

RequestStep(r) ==
    \/ StoreObject(r) \/ StoreFails(r) \/ RecordQueued(r) \/ RecordFails(r)
    \/ DeclareJobQueue(r) \/ SendJob(r) \/ SendJobOnLostConnection(r)

GatewayStep ==
    \/ \E j \in Jobs, s \in Statuses : GatewayTells(j, s)
    \/ GatewayWorks

HandleResult == ApplyResult \/ ApplyFails \/ AckResult \/ DropResult \/ NackResult

Next ==
    \/ \E r \in Requests, keys \in Uploads : Post(r, keys)
    \/ \E r \in Requests : RequestStep(r)
    \/ \E k \in Foreign : PublishForeign(k)
    \/ GatewayStep \/ PutStray
    \/ \E e \in Events : Deliver(e)
    \/ HandleResult
    \/ LosePublisher \/ LoseConsumer
    \/ CrashWeb \/ RecoverOrphans \/ StartWeb

\* The goroutine runs on, the process is started again after a crash, and the
\* broker fills the prefetch window: an event that is the oldest again and
\* again while there is room in the window is delivered.
Fairness ==
    /\ WF_vars(HandleResult)
    /\ \A e \in Events : SF_vars(Deliver(e))
    /\ WF_vars(StartWeb) /\ WF_vars(RecoverOrphans)

Spec == Init /\ [][Next]_vars
FairSpec == Spec /\ Fairness

\* Requests differ by nothing but their files.
Symmetry == Permutations(Requests)

-----------------------------------------------------------------------------
(***************************************************************************)
(* What the rows, the queues and the objects say of each other.            *)
(***************************************************************************)
JobsOf(k) == {j \in Jobs : status[j] # "absent" /\ subject[j] = k}
EventsOf(k) == {e \in DOMAIN log : log[e].key = k}
LastEvent(k) == CHOOSE e \in EventsOf(k) : \A d \in EventsOf(k) : d <= e

\* A job is published only when its object can be downloaded and its row is
\* there for the results: an upload that fails halfway leaves no job behind, and
\* the consumer requeues a result only for a passing failure or a job published
\* elsewhere.
JobsAreComplete ==
    \A j \in Jobs : status[j] # "absent" =>
        /\ subject[j] \in objects
        /\ subject[j] \in OwnKeys => row[subject[j]] # "absent"

\* A row says "indexed" only of an image that a search can find, through
\* second uploads, redeliveries and crashes.
IndexedRowIsSearchable ==
    \A k \in Keys : row[k] = "indexed" => k \in searchable

\* A file has its job once the request is past it, and just one: of a request
\* answered with the redirect all of them, of a refused one those before the
\* refusal.  Only a write to a lost connection may be missing.
Passed(k) ==
    {f \in Requests \X (1..MaxFiles) :
        LET r == f[1] p == f[2]
        IN  p <= Len(files[r]) /\ files[r][p] = k /\ (p < pos[r] \/ at[r] = "ok")}
OneJobPerFile ==
    \A k \in OwnKeys \ unsent : Cardinality(JobsOf(k)) = Cardinality(Passed(k))

\* No result event is lost: until its row was updated it is in the queue, with
\* the consumer, or on its way back, whatever dies in between; only a message that
\* is no result event is dropped.
NoResultIsLost ==
    \A e \in DOMAIN log :
        log[e] # Unreadable => e \in applied \cup queued \cup orphaned \cup Range(fetched)

\* UpdateStatus does not look at the time, and still a row that shows an event
\* is overwritten with an older one only by a redelivery.
RowsGoBackOnlyByRedelivery ==
    [][\A k \in Keys : row[k] # "queued" /\ updatedAt'[k] < updatedAt[k]
                          => Head(fetched) \in redelivered]_vars

\* When the results of a key are all consumed, its jobs finished and no upload
\* of it is under way, its row shows the final status last told of it, or is
\* queued by an upload that failed to publish; unless one was redelivered.
Quiet(k) ==
    /\ \A j \in JobsOf(k) : status[j] # "pending"
    /\ EventsOf(k) \cap (queued \cup orphaned \cup Range(fetched)) = {}
    /\ \A r \in Requests : InFlight(r) => k \notin Range(files[r])
QuietRowsAreFinal ==
    \A k \in OwnKeys : Quiet(k) /\ EventsOf(k) # {} /\ EventsOf(k) \cap redelivered = {} =>
        \/ row[k] = log[LastEvent(k)].status /\ row[k] # "processing"
        \/ row[k] = "queued"

\* Results of jobs published elsewhere fill the prefetch window for ever.
WindowIsBlocked == Cardinality({e \in DOMAIN log : log[e].key \in Foreign}) >= Prefetch

\* Every result of an uploaded image reaches its row, through failed updates
\* and restarts, as long as fewer than Prefetch results are about images that
\* have no row and the consumer keeps its connection: nothing starts it again.
ResultsReachTheirRow ==
    \A e \in Events :
        e \in DOMAIN log /\ log[e].key \in OwnKeys
            ~> e \in applied \/ WindowIsBlocked \/ consumer = "ended"
=============================================================================
