-------------------------- MODULE GatewayIngestion --------------------------
(***************************************************************************)
(* The ingestion side of the gateway: the RabbitMQ job queue, the daemon   *)
(* thread of gateway/runtime.py that drains it in batches, and             *)
(* GatewayIngestionService.process_jobs, which turns a batch into Qdrant   *)
(* points, result events and one disposition for every delivery.           *)
(*                                                                         *)
(* A job is the number of a message in publication order, so the queue is  *)
(* the set of jobs that are "ready" and basic_get takes the smallest: a    *)
(* nacked or recovered message goes back to its original position, as in   *)
(* a RabbitMQ classic queue with one consumer.  Delivery tags are the jobs *)
(* themselves, for a batch never holds the same message twice.             *)
(***************************************************************************)
EXTENDS Integers, Sequences, FiniteSets, Functions

CONSTANTS
    Images,       \* object keys, which are also the image ids
    MaxJobs,      \* bound: messages ever published to the job queue
    BatchSize,    \* settings.batch_size
    MaxFaults,    \* bound: crashes, lost connections, failed calls, shutdowns
    Unreadable,   \* images for which preparing raises OSError or ValueError
                  \* (Pillow cannot read them, or their text is blank)
    Refused,      \* images for which preparing raises any other exception:
                  \* ClientError for a missing object, HTTPStatusError from a
                  \* model service, DecompressionBombError
    Malformed,    \* stand for bodies that ImageJobMessage.from_body refuses
    Unsupported,  \* images that prepare well and whose key has a suffix that
                  \* ImagePath.create refuses
    Keyed         \* images whose key Qdrant refuses as the id of a point, for it
                  \* is no UUID: in the deployed system all that are prepared

ASSUME GatewayAssumption ==
    /\ MaxJobs \in Nat
    /\ BatchSize \in Nat \ {0}
    /\ MaxFaults \in Nat
    /\ Images # {}
    /\ Unreadable \subseteq Images
    /\ Refused \subseteq Images
    /\ Malformed \subseteq Images
    /\ Unsupported \subseteq Images
    /\ Keyed \subseteq Images

Jobs == 1..MaxJobs
Statuses == {"processing", "indexed", "failed"}
Places == {"new", "ready", "unacked", "orphaned", "acked", "dropped"}
Event == [job : Jobs, status : {"indexed", "failed"}]

VARIABLES
    place,      \* broker: where each message is; "orphaned" is delivered on the
                \* connection of a dead process the broker still believes in
    imageOf,    \* the image_id each message carries
    indexed,    \* images with a point in Qdrant
    reported,   \* history: the status last published for each message, or "none"
    conn,       \* the consumer's AMQP connection: "open" or "closed"
    stop,       \* stop_event
    pc,         \* where the consumer thread is
    batch,      \* deliveries, in the order of basic_get, with the one that
                \*   from_body has just refused
    cursor,     \* position of the loops over the batch
    prepared,   \* prepared_jobs
    acked,      \* tags of each disposition that are not applied yet, i.e.
    requeue,    \*   outcome.*_delivery_tags without handled_tags
    dead,
    events,     \* image_result_events not published yet
    faults      \* faults so far

outcomeVars == <<prepared, acked, requeue, dead, events>>
loopVars == <<batch, cursor>>
vars == <<place, imageOf, indexed, reported, conn, stop, pc, batch, cursor,
          prepared, acked, requeue, dead, events, faults>>

\* The types of the queue, of the consumer thread's locals and of its channel.
TypeOK ==
    /\ place \in [Jobs -> Places]
    /\ imageOf \in [Jobs -> Images]
    /\ indexed \subseteq Images
    /\ reported \in [Jobs -> Statuses \cup {"none"}]
    /\ conn \in {"open", "closed"}
    /\ stop \in BOOLEAN
    /\ pc \in {"down", "loop", "get", "announce", "sendStatus", "prepare", "encode",
               "upsert", "cleanup", "publish", "sendEvent", "dispose", "raised"}
    /\ batch \in Seq(Jobs)
    /\ cursor \in Nat \ {0}
    /\ prepared \in Seq(Jobs)
    /\ acked \subseteq Jobs
    /\ requeue \subseteq Jobs
    /\ dead \subseteq Jobs
    /\ events \in Seq(Event)
    /\ faults \in 0..MaxFaults

-----------------------------------------------------------------------------
(***************************************************************************)
(* Helpers.                                                                *)
(***************************************************************************)
Ready == {j \in Jobs : place[j] = "ready"}

\* The message that basic_get hands out next.
IsHead(j) == place[j] = "ready" /\ \A k \in Ready : j <= k

\* The broker returns what `from' holds to the queue or gives it to `to'.
Moved(from, to) == [j \in Jobs |-> IF place[j] = from THEN to ELSE place[j]]

Fault == faults < MaxFaults /\ faults' = faults + 1

\* publish_result after its queue_declare: basic_publish writes without waiting
\* for a reply, so on a connection that is gone the message is lost in silence.
PublishResult(j, s) ==
    reported' = IF conn = "open" THEN [reported EXCEPT ![j] = s] ELSE reported

\* Tags that have a disposition but not in handled_tags.
Unhandled == acked \cup requeue \cup dead

PreparedImages == {imageOf[j] : j \in Range(prepared)}
IndexedEvents == [k \in 1..Len(prepared) |-> [job |-> prepared[k], status |-> "indexed"]]

\* What is left of process_jobs and of the loop's locals at the loop's head.
NoOutcome == prepared' = <<>> /\ acked' = {} /\ requeue' = {} /\ dead' = {} /\ events' = <<>>
NoBatch == batch' = <<>> /\ cursor' = 1 /\ NoOutcome

\* Do `again' for the next delivery of the batch or, after the last, go on.
NextDelivery(again, goOn) ==
    IF cursor < Len(batch)
    THEN cursor' = cursor + 1 /\ pc' = again
    ELSE cursor' = 1 /\ pc' = goOn

Init ==
    /\ place = [j \in Jobs |-> "new"]
    /\ imageOf = [j \in Jobs |-> CHOOSE i \in Images : TRUE]
    /\ indexed = {}
    /\ reported = [j \in Jobs |-> "none"]
    /\ conn = "closed" /\ stop = FALSE /\ pc = "down"
    /\ batch = <<>> /\ cursor = 1
    /\ prepared = <<>> /\ acked = {} /\ requeue = {} /\ dead = {}
    /\ events = <<>>
    /\ faults = 0

-----------------------------------------------------------------------------
(***************************************************************************)
(* Plausible mistakes: variants of the actions below, each of which breaks *)
(* one of the properties.                                                  *)
(***************************************************************************)

\* A body that cannot be parsed is dropped and the consumer goes on.
GetMalformedDrops(j) ==
    /\ pc = "get" /\ conn = "open" /\ Len(batch) < BatchSize
    /\ IsHead(j) /\ imageOf[j] \in Malformed
    /\ place' = [place EXCEPT ![j] = "dropped"]
    /\ UNCHANGED <<imageOf, indexed, reported, conn, stop, pc, faults>>
    /\ UNCHANGED loopVars /\ UNCHANGED outcomeVars

\* `while True' instead of `while not stop_event.is_set()'.
BeginBatchAlways ==
    /\ pc = "loop"
    /\ pc' = "get"
    /\ UNCHANGED <<place, imageOf, indexed, reported, conn, stop, faults>>
    /\ UNCHANGED loopVars /\ UNCHANGED outcomeVars

\* One "processing" event per batch instead of one per image.
AnnounceFirstOnly ==
    /\ pc = "sendStatus"
    /\ PublishResult(batch[1], "processing")
    /\ cursor' = 1 /\ pc' = "prepare"
    /\ UNCHANGED <<place, imageOf, indexed, conn, stop, batch, faults>>
    /\ UNCHANGED outcomeVars

\* A status that the result contract does not have.
PrepareDeadAsDead ==
    /\ pc = "prepare"
    /\ IF imageOf[batch[cursor]] \in Unreadable THEN UNCHANGED faults ELSE Fault
    /\ dead' = dead \cup {batch[cursor]}
    /\ events' = Append(events, [job |-> batch[cursor], status |-> "dead"])
    /\ NextDelivery("prepare", "encode")
    /\ UNCHANGED <<place, imageOf, indexed, reported, conn, stop, batch,
                   prepared, acked, requeue>>

\* The try statement around the whole first loop instead of each job.
PrepareRequeueBatch ==
    /\ pc = "prepare"
    /\ IF imageOf[batch[cursor]] \in Refused THEN UNCHANGED faults ELSE Fault
    /\ requeue' = Range(batch) /\ prepared' = <<>> /\ dead' = {} /\ events' = <<>>
    /\ cursor' = 1 /\ pc' = "cleanup"
    /\ UNCHANGED <<place, imageOf, indexed, reported, conn, stop, batch, acked>>

\* The outcome is built without waiting for the upsert to be applied.
UpsertNotAwaited ==
    /\ pc = "upsert"
    /\ acked' = acked \cup Range(prepared)
    /\ events' = events \o IndexedEvents
    /\ pc' = "cleanup"
    /\ UNCHANGED <<place, imageOf, indexed, reported, conn, stop, prepared, requeue, dead, faults>>
    /\ UNCHANGED loopVars

\* A failed upsert is logged and acked.
UpsertFailsButAcks ==
    /\ pc = "upsert"
    /\ Fault
    /\ acked' = acked \cup Range(prepared)
    /\ pc' = "cleanup"
    /\ UNCHANGED <<place, imageOf, indexed, reported, conn, stop, prepared, requeue, dead, events>>
    /\ UNCHANGED loopVars

\* Only good news is published.
PublishIndexedOnly ==
    /\ pc = "sendEvent"
    /\ IF Head(events).status = "indexed"
       THEN PublishResult(Head(events).job, "indexed") ELSE UNCHANGED reported
    /\ pc' = "dispose"
    /\ UNCHANGED <<place, imageOf, indexed, conn, stop, batch, cursor, faults>>
    /\ UNCHANGED outcomeVars

\* Dead-lettered deliveries are acked, for they are done with too.
DisposeByAck(j) ==
    /\ place' = IF conn = "closed" THEN place ELSE [place EXCEPT ![j] =
                    IF j \in requeue THEN "ready" ELSE "acked"]
    /\ acked' = acked \ {j} /\ requeue' = requeue \ {j} /\ dead' = dead \ {j}

\* The loops over the deliveries without an event are left out.
EndBatchAfterEvents ==
    /\ pc = "publish" /\ events = <<>>
    /\ pc' = "loop" /\ NoBatch
    /\ UNCHANGED <<place, imageOf, indexed, reported, conn, stop, faults>>

-----------------------------------------------------------------------------
(***************************************************************************)
(* Producers and the process around the consumer thread.                   *)
(***************************************************************************)

\* RabbitMqImageJobQueue.publish and debug-web's PublishJob: one more message.
Publish(j, i) ==
    /\ place[j] = "new"
    /\ \A k \in Jobs : k < j => place[k] # "new"
    /\ place' = [place EXCEPT ![j] = "ready"]
    /\ imageOf' = [imageOf EXCEPT ![j] = i]
    /\ UNCHANGED <<indexed, reported, conn, stop, pc, faults>>
    /\ UNCHANGED loopVars /\ UNCHANGED outcomeVars

\* start_consumer: a new process connects and enters the loop.
StartConsumer ==
    /\ pc = "down"
    /\ pc' = "loop" /\ conn' = "open" /\ stop' = FALSE
    /\ UNCHANGED <<place, imageOf, indexed, reported, faults>>
    /\ UNCHANGED loopVars /\ UNCHANGED outcomeVars

\* stop_consumer sets stop_event; a join that times out is a Crash.
RequestStop ==
    /\ pc # "down" /\ ~stop
    /\ Fault
    /\ stop' = TRUE
    /\ UNCHANGED <<place, imageOf, indexed, reported, conn, pc>>
    /\ UNCHANGED loopVars /\ UNCHANGED outcomeVars

\* The process dies.  The broker still counts its deliveries as unacked.
Crash ==
    /\ pc # "down"
    /\ Fault
    /\ place' = Moved("unacked", "orphaned")
    /\ pc' = "down" /\ conn' = "closed" /\ NoBatch
    /\ UNCHANGED <<imageOf, indexed, reported, stop>>

\* The broker notices that the connection of a dead process is gone.
RecoverOrphans ==
    /\ \E j \in Jobs : place[j] = "orphaned"
    /\ place' = Moved("orphaned", "ready")
    /\ UNCHANGED <<imageOf, indexed, reported, conn, stop, pc, faults>>
    /\ UNCHANGED loopVars /\ UNCHANGED outcomeVars

\* The broker closes the connection of a living consumer (its heartbeats are
\* not served while process_jobs runs) and requeues what it held.
LoseConnection ==
    /\ conn = "open"
    /\ Fault
    /\ place' = Moved("unacked", "ready")
    /\ conn' = "closed"
    /\ UNCHANGED <<imageOf, indexed, reported, stop, pc>>
    /\ UNCHANGED loopVars /\ UNCHANGED outcomeVars

\* The thread is about to call the channel.
AtChannelCall ==
    \/ pc = "get" /\ Len(batch) < BatchSize
    \/ pc \in {"announce", "sendStatus", "sendEvent", "dispose"}
    \/ pc = "publish" /\ (events # <<>> \/ Unhandled # {})

\* A channel call on a closed connection raises: os._exit(1).
ExitOnChannelError ==
    /\ conn = "closed" /\ AtChannelCall
    /\ pc' = "down" /\ NoBatch
    /\ UNCHANGED <<place, imageOf, indexed, reported, conn, stop, faults>>

-----------------------------------------------------------------------------
(***************************************************************************)
(* _run_consumer_loop up to process_jobs.                                  *)
(***************************************************************************)
BeginBatch ==
    /\ pc = "loop" /\ ~stop
    /\ pc' = "get"
    /\ UNCHANGED <<place, imageOf, indexed, reported, conn, stop, faults>>
    /\ UNCHANGED loopVars /\ UNCHANGED outcomeVars

\* The loop ends; queue.close() in its finally clause, if the connection is open.
StopConsumer ==
    /\ pc = "loop" /\ stop
    /\ pc' = "down" /\ conn' = "closed"
    /\ place' = Moved("unacked", "ready")
    /\ UNCHANGED <<imageOf, indexed, reported, stop, faults>>
    /\ UNCHANGED loopVars /\ UNCHANGED outcomeVars

\* basic_get hands out the oldest ready message.
GetDelivery(j) ==
    /\ pc = "get" /\ conn = "open" /\ Len(batch) < BatchSize
    /\ IsHead(j) /\ imageOf[j] \notin Malformed
    /\ place' = [place EXCEPT ![j] = "unacked"]
    /\ batch' = Append(batch, j)
    /\ UNCHANGED <<imageOf, indexed, reported, conn, stop, pc, cursor, faults>>
    /\ UNCHANGED outcomeVars

\* from_body raises in get_batch, with the message delivered and not acked.
GetMalformed(j) ==
    /\ pc = "get" /\ conn = "open" /\ Len(batch) < BatchSize
    /\ IsHead(j) /\ imageOf[j] \in Malformed
    /\ place' = [place EXCEPT ![j] = "unacked"]
    /\ batch' = Append(batch, j)
    /\ pc' = "raised"
    /\ UNCHANGED <<imageOf, indexed, reported, conn, stop, cursor, faults>>
    /\ UNCHANGED outcomeVars

\* The exception has left the loop: close() in the finally clause, if the
\* connection is open, gives every delivery back; then os._exit(1).
CloseAndExit ==
    /\ pc = "raised"
    /\ place' = Moved("unacked", "ready")
    /\ pc' = "down" /\ conn' = "closed" /\ NoBatch
    /\ UNCHANGED <<imageOf, indexed, reported, stop, faults>>

\* get_batch returns: the batch is full or basic_get found nothing.  With
\* nothing fetched at all the loop sleeps and starts over.
EndGet ==
    /\ pc = "get"
    /\ Len(batch) = BatchSize \/ (conn = "open" /\ Ready = {})
    /\ pc' = IF batch = <<>> THEN "loop" ELSE "announce"
    /\ UNCHANGED <<place, imageOf, indexed, reported, conn, stop, faults>>
    /\ UNCHANGED loopVars /\ UNCHANGED outcomeVars

\* publish_result first re-declares the result queue, which waits for a reply.
DeclareResultQueue ==
    /\ conn = "open"
    /\ \/ pc = "announce" /\ pc' = "sendStatus"
       \/ pc = "publish" /\ events # <<>> /\ pc' = "sendEvent"
    /\ UNCHANGED <<place, imageOf, indexed, reported, conn, stop, faults>>
    /\ UNCHANGED loopVars /\ UNCHANGED outcomeVars

Announce ==
    /\ pc = "sendStatus"
    /\ PublishResult(batch[cursor], "processing")
    /\ NextDelivery("announce", "prepare")
    /\ UNCHANGED <<place, imageOf, indexed, conn, stop, batch, faults>>
    /\ UNCHANGED outcomeVars

-----------------------------------------------------------------------------
(***************************************************************************)
(* process_jobs, first loop: download, prepare, OCR and caption one image. *)
(***************************************************************************)
PrepareOk ==
    /\ pc = "prepare"
    /\ imageOf[batch[cursor]] \notin Unreadable \cup Refused
    /\ prepared' = Append(prepared, batch[cursor])
    /\ NextDelivery("prepare", "encode")
    /\ UNCHANGED <<place, imageOf, indexed, reported, conn, stop, batch,
                   acked, requeue, dead, events, faults>>

\* except (OSError, ValueError): because of the image, or by a passing fault.
PrepareDead ==
    /\ pc = "prepare"
    /\ IF imageOf[batch[cursor]] \in Unreadable THEN UNCHANGED faults ELSE Fault
    /\ dead' = dead \cup {batch[cursor]}
    /\ events' = Append(events, [job |-> batch[cursor], status |-> "failed"])
    /\ NextDelivery("prepare", "encode")
    /\ UNCHANGED <<place, imageOf, indexed, reported, conn, stop, batch,
                   prepared, acked, requeue>>

\* except Exception: no event for this one.
PrepareRequeue ==
    /\ pc = "prepare"
    /\ IF imageOf[batch[cursor]] \in Refused THEN UNCHANGED faults ELSE Fault
    /\ requeue' = requeue \cup {batch[cursor]}
    /\ NextDelivery("prepare", "encode")
    /\ UNCHANGED <<place, imageOf, indexed, reported, conn, stop, batch,
                   prepared, acked, dead, events>>

-----------------------------------------------------------------------------
(***************************************************************************)
(* process_jobs, second part: encode the batch, build documents, upsert.   *)
(***************************************************************************)
PreparedUnsupported == \E j \in Range(prepared) : imageOf[j] \in Unsupported

\* Encoding and building succeed, or there is nothing prepared to encode.
EncodeBatch ==
    /\ pc = "encode" /\ ~PreparedUnsupported
    /\ pc' = IF prepared = <<>> THEN "cleanup" ELSE "upsert"
    /\ UNCHANGED <<place, imageOf, indexed, reported, conn, stop, faults>>
    /\ UNCHANGED loopVars /\ UNCHANGED outcomeVars

\* An exception before the upsert requeues every prepared job.
EncodeFails ==
    /\ pc = "encode" /\ prepared # <<>>
    /\ IF PreparedUnsupported THEN UNCHANGED faults ELSE Fault
    /\ requeue' = requeue \cup Range(prepared)
    /\ pc' = "cleanup"
    /\ UNCHANGED <<place, imageOf, indexed, reported, conn, stop, prepared, acked, dead, events>>
    /\ UNCHANGED loopVars

\* One point that Qdrant refuses is enough for it to refuse the whole request.
PreparedKeyed == PreparedImages \cap Keyed # {}

UpsertOk ==
    /\ pc = "upsert" /\ ~PreparedKeyed
    /\ indexed' = indexed \cup PreparedImages
    /\ acked' = acked \cup Range(prepared)
    /\ events' = events \o IndexedEvents
    /\ pc' = "cleanup"
    /\ UNCHANGED <<place, imageOf, reported, conn, stop, prepared, requeue, dead, faults>>
    /\ UNCHANGED loopVars

\* The upsert raises: Qdrant refuses it, or it fails in passing, with or without
\* having been applied.
UpsertFails ==
    /\ pc = "upsert"
    /\ IF PreparedKeyed THEN UNCHANGED <<indexed, faults>>
       ELSE Fault /\ indexed' \in {indexed, indexed \cup PreparedImages}
    /\ requeue' = requeue \cup Range(prepared)
    /\ pc' = "cleanup"
    /\ UNCHANGED <<place, imageOf, reported, conn, stop, prepared, acked, dead, events>>
    /\ UNCHANGED loopVars

\* The finally clause of process_jobs, and its return.
Cleanup ==
    /\ pc = "cleanup"
    /\ pc' = "publish"
    /\ UNCHANGED <<place, imageOf, indexed, reported, conn, stop, faults>>
    /\ UNCHANGED loopVars /\ UNCHANGED outcomeVars

\* An unlink of the finally clause raises OSError in place of the return: what
\* the call did to the index stays, its outcome is lost.
CleanupFails ==
    /\ pc = "cleanup"
    /\ Fault
    /\ pc' = "raised" /\ NoOutcome
    /\ UNCHANGED <<place, imageOf, indexed, reported, conn, stop>>
    /\ UNCHANGED loopVars

-----------------------------------------------------------------------------
(***************************************************************************)
(* _run_consumer_loop after process_jobs.                                  *)
(***************************************************************************)
PublishEvent ==
    /\ pc = "sendEvent"
    /\ PublishResult(Head(events).job, Head(events).status)
    /\ pc' = "dispose"
    /\ UNCHANGED <<place, imageOf, indexed, conn, stop, batch, cursor, faults>>
    /\ UNCHANGED outcomeVars

\* ack, nack(requeue=True) or nack(requeue=False); lost with the connection.
\* The result queue has no dead-letter exchange: the last one drops the job.
Dispose(j) ==
    /\ place' = IF conn = "closed" THEN place ELSE [place EXCEPT ![j] =
                    IF j \in acked THEN "acked"
                    ELSE IF j \in requeue THEN "ready" ELSE "dropped"]
    /\ acked' = acked \ {j} /\ requeue' = requeue \ {j} /\ dead' = dead \ {j}

\* _apply_delivery_disposition; it would raise for a tag of no disposition.
DisposeOfEvent ==
    /\ pc = "dispose"
    /\ Head(events).job \in Unhandled
    /\ Dispose(Head(events).job)
    /\ events' = Tail(events)
    /\ pc' = "publish"
    /\ UNCHANGED <<imageOf, indexed, reported, conn, stop, prepared, faults>>
    /\ UNCHANGED loopVars

\* The three loops over tags without an event, in the code's order; only a
\* dead-lettered one gets an event here.
DisposeOfRest(j) ==
    /\ pc = "publish" /\ events = <<>>
    /\ j \in IF acked # {} THEN acked ELSE IF requeue # {} THEN requeue ELSE dead
    /\ Dispose(j)
    /\ IF j \in dead THEN PublishResult(j, "failed") ELSE UNCHANGED reported
    /\ UNCHANGED <<imageOf, indexed, conn, stop, pc, prepared, events, faults>>
    /\ UNCHANGED loopVars

EndBatch ==
    /\ pc = "publish" /\ events = <<>> /\ Unhandled = {}
    /\ pc' = "loop" /\ NoBatch
    /\ UNCHANGED <<place, imageOf, indexed, reported, conn, stop, faults>>

-----------------------------------------------------------------------------
Prepare == PrepareOk \/ PrepareDead \/ PrepareRequeue
Index == EncodeBatch \/ EncodeFails \/ UpsertOk \/ UpsertFails \/ Cleanup \/ CleanupFails
Settle == PublishEvent \/ DisposeOfEvent \/ (\E j \in Jobs : DisposeOfRest(j)) \/ EndBatch

ConsumerStep ==
    \/ BeginBatch \/ StopConsumer \/ (\E j \in Jobs : GetDelivery(j) \/ GetMalformed(j)) \/ EndGet
    \/ DeclareResultQueue \/ Announce
    \/ Prepare \/ Index \/ Settle
    \/ CloseAndExit \/ ExitOnChannelError

Next ==
    \/ \E j \in Jobs, i \in Images : Publish(j, i)
    \/ StartConsumer \/ RequestStop \/ Crash
    \/ RecoverOrphans \/ LoseConnection
    \/ ConsumerStep

\* The thread runs on while its process lives; a process that went down is
\* started again, and the broker finds out about dead connections.
Fairness ==
    /\ WF_vars(ConsumerStep)
    /\ WF_vars(StartConsumer)
    /\ WF_vars(RecoverOrphans)

Spec == Init /\ [][Next]_vars
FairSpec == Spec /\ Fairness

-----------------------------------------------------------------------------
(***************************************************************************)
(* What the consumer promises about one job.                               *)
(***************************************************************************)
Settled(j) == place[j] \in {"acked", "dropped"}

\* A job is acked only after its image is in Qdrant and an "indexed" event was
\* really published as the last word on it: whatever crash, lost connection or
\* failed call came between upsert, publish and ack, no settled job is missing
\* from the index or shown with an older status.
AckedWasIndexed ==
    \A j \in Jobs : place[j] = "acked" =>
        imageOf[j] \in indexed /\ reported[j] = "indexed"

\* A job is thrown away (nack without requeue, no dead-letter exchange) only
\* after a "failed" event was really published, and it is the last one.
DroppedWasReported ==
    \A j \in Jobs : place[j] = "dropped" => reported[j] = "failed"

\* An "indexed" event is published only for an image that a search can find.
IndexedReportIsTrue ==
    \A j \in Jobs : reported[j] = "indexed" => imageOf[j] \in indexed

\* Each "indexed" or "failed" of a job comes right after a "processing" of its
\* own in the result queue, although "processing" may be lost with a connection
\* that is later replaced, and a redelivered job is reported all over again.
ProcessingReportedFirst ==
    [][\A j \in Jobs : reported'[j] # reported[j] /\ reported'[j] # "processing"
                          => reported[j] = "processing"]_vars

\* What the broker counts as unacked is exactly what the consumer still has to
\* dispose of: no delivery is forgotten in a batch (it would stay unacked until
\* the next reconnect), none is disposed of twice (a channel error).
Outstanding ==
    IF pc \in {"cleanup", "publish", "sendEvent", "dispose"} THEN Unhandled ELSE Range(batch)
InHand ==
    {j \in Jobs : place[j] = "unacked"} = IF conn = "open" THEN Outstanding ELSE {}

\* process_jobs gives a delivery one disposition, and the pending events are
\* those of the acked and dead-lettered deliveries, each with its status: the
\* event loop of the consumer never raises and its last loop is never needed.
EventJobs(s) == {j \in Jobs : [job |-> j, status |-> s] \in Range(events)}
OneDisposition ==
    /\ acked \cap requeue = {} /\ acked \cap dead = {} /\ requeue \cap dead = {}
    /\ EventJobs("indexed") = acked
    /\ EventJobs("failed") = dead
    /\ \A k, l \in 1..Len(events) : k # l => events[k].job # events[l].job

\* A malformed body is never settled and nothing is ever told about it; and as
\* long as it waits in the queue nothing behind it is delivered, restart after
\* restart.  Messages behind it are delivered only while it is orphaned: the
\* process was killed between basic_get and close(), and the next one is quicker
\* than the broker.
Pending == {"ready", "unacked", "orphaned"}
NothingPassesMalformed ==
    [][\A j \in Jobs : imageOf[j] \in Malformed /\ place[j] \in Pending =>
          /\ place'[j] \in Pending /\ reported'[j] = reported[j]
          /\ place[j] # "orphaned" =>
                \A k \in Jobs : j < k /\ place[k] = "ready" => place'[k] = "ready"]_vars

\* Images that are prepared and then fail their batch, every time.
Spoiling == (Unsupported \cup Keyed) \ Unreadable
Waiting(images) == {j \in Jobs : place[j] \in Pending /\ imageOf[j] \in images}

\* Jobs that come back to the head of the queue: those that are refused and, when
\* one of a spoiling image is among them, all that are prepared beside it.
Returning ==
    IF Waiting(Spoiling) = {} THEN Waiting(Refused) ELSE Waiting(Images \ Unreadable)

\* BatchSize of these fill every batch; a malformed message lets none begin.
HeadOfLineBlocked == Cardinality(Returning) >= BatchSize \/ Waiting(Malformed) # {}

\* Jobs that come back for ever do not hold up the others, as long as they are
\* fewer than BatchSize: an image that cannot be read is thrown away in any
\* company, a good one is indexed when no spoiling one is with it.
SettledUnlessSpoiled ==
    \A j \in Jobs : place[j] # "new" ~> Settled(j) \/ j \in Returning \/ HeadOfLineBlocked

\* A stop request ends the thread, also while the queue never runs dry.
StopIsHeeded == stop ~> pc = "down"

-----------------------------------------------------------------------------
(***************************************************************************)
(* The inductive invariant: what else is true between two steps, on which  *)
(* the safety properties above rest.                                       *)
(***************************************************************************)

\* Where the thread is in its loops, and what it has not filled yet there.
LoopPosition ==
    /\ pc \in {"down", "loop", "get"} => cursor = 1
    /\ pc \in {"announce", "sendStatus", "prepare"} => cursor <= Len(batch)
    /\ pc \in {"down", "loop"} => batch = <<>>
    /\ pc \in {"down", "loop", "get", "announce", "sendStatus", "raised"} =>
          prepared = <<>> /\ requeue = {} /\ dead = {} /\ events = <<>>
    /\ pc \notin {"cleanup", "publish", "sendEvent", "dispose"} => acked = {}
    /\ pc \in {"sendEvent", "dispose"} => events # <<>>
    /\ pc = "down" => conn = "closed"

\* Deliveries that the broker took back stay in the queue while the consumer,
\* which does not know yet, works on them.
LostBatchIsReady ==
    conn = "closed" => \A j \in Outstanding : place[j] = "ready"

BatchIsSet == \A a, b \in 1..Len(batch) : a # b => batch[a] # batch[b]
PreparedIsSet == \A a, b \in 1..Len(prepared) : a # b => prepared[a] # prepared[b]

\* The first loop of process_jobs sorts the batch into three disjoint lists.
Sorting ==
    /\ pc = "prepare" =>
          Range(prepared) \cup requeue \cup dead = {batch[k] : k \in 1..(cursor - 1)}
    /\ pc \in {"encode", "upsert"} =>
          Range(prepared) \cup requeue \cup dead = Range(batch)
    /\ pc \in {"prepare", "encode", "upsert"} =>
          Range(prepared) \cap (requeue \cup dead) = {}
    /\ pc = "cleanup" => Unhandled = Range(batch)

\* "processing" got through for all the thread is past, if it is connected, and
\* is the last status of those whose event is still to come.
EventIsOut == IF pc = "dispose" THEN {Head(events).job} ELSE {}
Announced ==
    conn = "open" =>
        /\ pc \in {"announce", "sendStatus"} =>
              \A k \in 1..(cursor - 1) : reported[batch[k]] = "processing"
        /\ pc \in {"prepare", "encode", "upsert", "cleanup", "publish", "sendEvent", "dispose"} =>
              \A j \in Outstanding \ EventIsOut : reported[j] = "processing"

\* An event precedes the disposition of its delivery on the channel.
EventSent ==
    pc = "dispose" /\ conn = "open" =>
        reported[Head(events).job] = Head(events).status

AckedAreIndexed == \A j \in acked : imageOf[j] \in indexed
NewIsSilent == \A j \in Jobs : place[j] = "new" => reported[j] = "none"

\* Only a thread on its way out holds a malformed message.
MalformedOnExit ==
    \A j \in Jobs : imageOf[j] \in Malformed /\ place[j] = "unacked" => pc = "raised"

\* All that holds between two steps of the consumer: inductive, so that no
\* reachable mix of batch progress, lost connection and restart escapes it.
IInv ==
    /\ TypeOK /\ LoopPosition
    /\ InHand /\ LostBatchIsReady /\ BatchIsSet /\ PreparedIsSet
    /\ Sorting /\ OneDisposition
    /\ Announced /\ EventSent /\ AckedAreIndexed /\ NewIsSilent
    /\ MalformedOnExit
    /\ AckedWasIndexed /\ DroppedWasReported
    /\ IndexedReportIsTrue

-----------------------------------------------------------------------------
(***************************************************************************)
(* The abstract promise, and the mapping under which the gateway keeps it. *)
(***************************************************************************)
JobStatus(p) ==
    CASE p = "new" -> "absent"
      [] p = "acked" -> "indexed"
      [] p = "dropped" -> "failed"
      [] OTHER -> "pending"

Promise == INSTANCE ImageJobs WITH
    status <- [j \in Jobs |-> JobStatus(place[j])],
    subject <- imageOf,
    searchable <- indexed,
    told <- reported

\* The gateway implements the promise of ImageJobs: crashes, redeliveries and
\* lost writes look like nothing more than jobs that stay pending.
ImplementsImageJobs == Promise!Spec

-----------------------------------------------------------------------------
(***************************************************************************)
(* What the design document says of failures, and the code does not do.    *)
(***************************************************************************)

\* One failure in a batch does not roll all of it back: what can be indexed goes
\* on to upsert and ack, so a job of a good image settles in any company.
BatchMatesAreIsolated ==
    \A j \in Jobs :
        place[j] # "new" /\ imageOf[j] \notin Refused \cup Spoiling ~> Settled(j)
=============================================================================
