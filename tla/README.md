# picca-search in TLA+

A verification development for picca-search: image ingestion, through a job
queue or from a directory, into a vector index; hybrid search in it; the model
services behind both; and the debug web application that feeds and tracks the
ingestion. TLC checks the models on small instances; TLAPS proves, for every
instance, the safety properties of all modules but two.

## The system

| Component | Code | State | Operations | What makes it correct |
|---|---|---|---|---|
| Gateway consumer | `gateway/runtime.py`, `infrastructure/rabbitmq_queue.py` | one daemon thread, one AMQP connection, `stop_event`, the batch in hand | fetch a batch with `basic_get`, publish `processing`, process, publish each result, ack / nack | no job acked unindexed or untold, none dropped untold, none forgotten or disposed of twice |
| Ingestion service | `gateway/ingestion.py` | none between calls | `process_jobs`: prepare each image, encode and upsert the batch, sort the deliveries | one disposition per delivery, events that agree with it |
| Job and result queue | RabbitMQ (external) | messages ready, unacked | deliver, requeue, drop | at least once, oldest first |
| Search API | `gateway/search_api.py`, `schemas.py` | none | hybrid search, score breakdown | breakdowns add up to what was ranked |
| Qdrant index | `infrastructure/qdrant_index.py` | the collection, a "collection ready" flag | create, upsert, search, fused search | upserts are idempotent; flag and collection agree |
| Debug web uploads | `web/handlers.go`, `s3client` | objects, rows, one publisher channel | per file: S3 upload, insert row, publish job | a job only with object and row; the answer is honest |
| Debug web result consumer | `queue/rabbitmq.go`, `storage/sqlite.go`, `app.go` | sqlite rows, prefetch window | overwrite the status of a row, ack, or requeue | no result lost, the row ends on the final status |
| Model services and clients | `services/*.py`, `model_client.py` | temporary files, calls on one event loop | encode, OCR, caption, timeout, retry | an inference has its own files, callers are answered again |
| Image preparation | `image_preprocessing.py`, `object_storage.py` | temporary files | download, rotate, shrink | files live as long as they are read and no longer |
| Batch ingestion script | `scripts/ingest_images.py`, `application.py` | pending batch | add, flush, upsert | every image gets the document it would get alone, none is passed over |
| Model preparation | `scripts/prepare_models.py`, constructors of the wrappers, `run_*_service.py` | the model directory | download, export, look, load | a complete preparation is enough to start on |
| Sparse encoder | `embedding_models.py` | none | encode one text, or a batch | a batch gives each text its own vector |
| Search script | `scripts/search_images.py` | none | search, explain | what it shows is what was ranked |
| Directory publisher | `scripts/publish_directory_to_queue.py` | none | upload and publish each file | object before job |
| Artifactor | `scripts/artifactor/main.go` | staging directory | stage, pack, push | distinct staged names |
| Configuration, utility scripts | `config.py`, `config.go`, ... | none | | not modelled |

debug-web uploads to S3 and publishes to `image_jobs`; the gateway drains that
queue, calls the model services and upserts into Qdrant, and publishes
`processing`, `indexed` and `failed` to `image_job_results`; debug-web consumes
those into sqlite. Search goes from debug-web to the gateway to Qdrant.
`scripts/ingest_images.py` and `scripts/search_images.py` do the same work in one
process, with the models inside it and the same index class.

What is hard: two brokers' worth of at-least-once delivery without publisher
confirms; connections that the broker closes while a batch is with the models;
process death between upsert, event and ack; batches in which one job spoils
the others; jobs and results that are requeued for ever; results that overtake
each other; rows and jobs written by two calls of which one may fail; several
clients that find the collection missing at once, and one that goes on believing
in it; vectors that must find their way back to the images they belong to;
callers that give up on a service which does not notice.

## Modules

* `ImageJobs` - what an ingestion pipeline promises about jobs: a job ends with
  the status last told about it, "indexed" is told of searchable images only, a
  final status is told after "processing".
* `GatewayIngestion` - the job queue, the consumer thread and `process_jobs`.
  It implements `ImageJobs` (`ImplementsImageJobs`).
* `DebugWeb` - uploads, rows and result consumer, on top of `ImageJobs`: the
  gateway's half of it is `INSTANCE ImageJobs`, each status told being an event
  in the result queue.
* `Documents` - texts, vectors and documents, and how both batched paths deal
  vectors out to documents. No behaviour of its own.
* `GatewayBatch` - one call of `process_jobs` from inside: files, exceptions,
  vectors, documents. `GatewayIngestion` has the queue around it.
* `LocalIngestion` - `scripts/ingest_images.py`.
* `VectorIndex` - `ensure_collection`, upsert and search of all index instances.
* `HybridSearch` - `POST /search` and `scripts/search_images.py`.
* `ModelService` - the dense, OCR and caption services and their HTTP clients.
* `ModelStore` - `prepare_models.py` and the start of the services.
* `SparseEncoding` - the sparse encoder.
* `GatewayIngestionProofs`, `DebugWebProofs`, `DocumentsProofs`, `GatewayBatchProofs`,
  `LocalIngestionProofs`, `VectorIndexProofs`, `HybridSearchProofs`,
  `ModelServiceProofs` - the proofs about the module each is named after;
  `VectorIndexProofs` has those about `SparseEncoding` too, `ModelServiceProofs` those
  about `ModelStore`.

`Documents` is extended by both ingestion modules, and `DocumentsProofs` by the
proofs about them; the others meet in what they leave to each other.
`GatewayIngestion` takes an upsert to succeed or fail as a whole, which
`VectorIndex` shows in detail; images whose keys Qdrant refuses as ids are `Keyed` in
the one and have the keyed writers of the other. `HybridSearch` starts where `VectorIndex` has a collection.

### GatewayIngestion

`pc` is the position of the thread: `loop` is the `while` test, `get` is
`get_batch`, `announce` / `sendStatus` the loop that publishes "processing",
`prepare` the first loop of `process_jobs`, `encode` / `upsert` its second part,
`cleanup` its finally clause, `publish` / `sendEvent` / `dispose` the loops after it,
`raised` an exception on its way to `queue.close()` and `os._exit`, `down` no process.
`publish_result` is two steps, for its `queue_declare` waits for a reply (and
raises on a dead connection) while its `basic_publish` only writes (and is lost
on one). Acks and nacks are lost in the same way. `conn` is whether the broker
still has the connection: `LoseConnection` may happen anywhere, the thread notices
only at its next call that waits for a reply, and works on a batch that is back
in the queue until then. `batch`, `prepared`, `acked`, `requeue`, `dead` and
`events` are the lists of the code; the three lists of tags lose a tag when it is
handled, which stands for `handled_tags`.

Choices made in the model:

* A job is the number of its message in publication order. The queue is the set
  of ready jobs and delivers the smallest: RabbitMQ puts a requeued message back
  to its place. A delivery tag is its job, since no batch holds one twice.
* What one image does to the pipeline is its class, constant per image:
  `Unreadable` (OSError or ValueError while preparing), `Refused` (any other
  exception, every time), `Unsupported` (prepares well, then `ImagePath.create`
  refuses its suffix), `Keyed` (Qdrant refuses its key as the id of a point, and so
  the batch), `Malformed` (the body is refused by `from_body`), or good. A key is no
  UUID, so in the deployed system every image that is prepared is `Keyed`, and no job
  settles indexed; the good ones show what the gateway does where the index accepts
  an id, and what holds of all other classes holds either way.
  Good images fail too, by faults that are counted: each of the failures above
  may hit any image in passing, and an upsert may fail after it was applied.
* After `_run_consumer_loop` fails the process exits and is started again. A
  process that dies leaves its deliveries `orphaned` until the broker notices,
  all at once.
* An OSError in the finally clause of `process_jobs` loses its outcome
  (`CleanupFails`). One on leaving `prepare_inference_image` gives a job two
  dispositions, and so two writes for one delivery tag, the second of which closes
  the channel: this is in `GatewayBatch` and left out here.
* The loops of `DisposeOfRest` visit their tags in any order.

### DebugWeb

`at[r]` is the next call of `processUpload` for the current file of request `r`
(`store`, `record`, `declare`, `send`) or the end of the request. `PublishJob`
is two steps for the same reason as above. `row` and `updatedAt` are the columns
of `image_records`; time is the number of events published so far, so
`occurred_at` of event `e` is `e` (one thread of the gateway stamps and
publishes; the clocks of the two hosts are taken to agree). `consumer` is where
`ConsumeResults` is in handling the head of `fetched`: update, then ack or nack, or
nack without requeue (`drop`) of a message that is no result event. The gateway
sends none of these; `PutStray` stands for somebody who does, `NoKey` for the key
they do not have.
When its connection is lost it is `ended` for good, as in the code; only a new
process starts a new one. `orphaned` is as above. The publisher never reconnects
either. `Foreign` keys are those of jobs published by
`publish_directory_to_queue.py`, which have no row. Several keys of one request,
two requests at once and the same filename twice are all inputs. `applied`,
`redelivered` and `unsent` are history variables.

### Documents, GatewayBatch, LocalIngestion

A vector is the text or the picture it encodes: the models are deterministic, and
the question is whose vector a document carries. A text is a sequence of lines, a
line an image and the model that read it, or white space; a value that may be `None`
is a sequence of at most one element. What a comprehension with `if` keeps is given
by the positions it keeps (`Selected`). `NextOcr` is `next(next_ocr_sparse)`: the
vector for the number of OCR texts up to the item at hand. `Zipped` is the loop over
`zip`. `DocumentOf` is `build_image_document_with_extracted_text`, the construction
for a single image, and the reference for both.

`GatewayBatch` has one position for each thing that may raise: download, open,
extraction, the retained copy, encoding, upsert. `disk` are the temporary files,
`cleanup` is `temp_paths_to_cleanup`. Every unlink may fail: when a step of the first
loop raises (`Fails`, `CopyFails`), when the `with` block ends (`UnlinkFails`), and in
the finally clause (`CleanupFails`), where it ends the call. A service may answer with one vector too few
or too many. Whether an exception is an `OSError` or `ValueError` (dead letter) or
another one (requeue) is a choice. In `LocalIngestion` paths are numbers in the
order of their names and the last one may be a link to the first one's file;
`listing` and `pos` are the loop, `pending` the accumulator, `batch` what `flush`
returned. A run that ended in any way is started again, so runs share the index.

### VectorIndex

`ready[c]` is `_collection_ready` of an instance: each writer has one, the threads
of the search API share one. `ensure_collection` is two steps, since other
clients come in between its two calls. `Drop` is the loss of the collection behind
the clients. A consumer has the id `<<"key", i>>` for an image, the script
`<<"uuid", i>>`.

### HybridSearch

A channel's ranking is the order in which Qdrant finds images for the query at hand,
and `Upsert` puts an image anywhere into it. The three queries of
`search_with_diagnostics` are separate steps; `Return` ends a search, answered or
not. A score is an integer, `Scale` times as large; with 60, as the run has it,
every `w / (1 + rank)` is exact. `Sorted` puts an image at the place after all those
that are `Ahead` of it, which is what the stable sort by score does. Floating-point
rounding is left out: it would only blur ties and sums. Qdrant's own fusion
(`search`) is external; its formula is not the repository's, so nothing relates the
two orders.

### ModelService

`calls` are the requests in the service in order of arrival. An image handler
waits only for its uploads (`Open` to `Read`); during the inference nothing else
moves (`LoopIsFree`). Time is counted in ticks, and only during inferences. A
client that gave up leaves a call of `Nobody` behind. Text handlers run on
threads, but begin and end on the loop.

### ModelStore, SparseEncoding

`content` says of each model directory whether it is absent, incomplete, has
weights or has `model.onnx`. PaddleX runs on CPU `paddlepaddle`, which is what
`pyproject.toml` installs: it has no CUDA whatever torch has (`HasCuda`), and an unset
`MODEL_DEVICE` is its own choice (`PaddleChoice`). The script makes each of them in two or three steps and
may be stopped between them. A service looks at a directory (`LookForSplade` and
its like) and loads from it in a later step. The `mps` device and a hub that is within
reach are left out: containers have neither. In `SparseEncoding` a token is its
logits for the entries of the vocabulary, and padding has arbitrary ones.

## What is checked

| Run | Instance | What it shows |
|---|---|---|
| `gateway_safety` | 6 images, one of each class; 2 jobs; batches of 2; 2 faults | all safety properties of the loop, and the refinement of `ImageJobs` |
| `gateway_live` | good, unreadable, refused and keyed images; 3 jobs; batches of 2; 2 faults | `SettledUnlessSpoiled`: what comes back for ever holds up the rest only when it fills a batch, or when it undoes the batches of good images; `StopIsHeeded` |
| `gateway_isolation` | good and unsupported images, no fault | violated: a batch is undone by one of its jobs |
| `web_results` | an image and a refused file, 2 requests of one file each, the same one too; 4 messages, one of them perhaps unreadable; window of 2; 1 fault, 1 lost connection | result handling: nothing lost, rows true and final |
| `web_uploads` | an image, a refused file and a foreign key; a request of up to 2 files; 2 jobs; 2 messages, one of them perhaps unreadable; 1 fault, 1 lost connection | `JobsAreComplete`, `OneJobPerFile`, and `ResultsReachTheirRow` |
| `gateway_batch` | 3 jobs over 3 keys, repetitions included, one image resized; all readings; 2 faults | dispositions, documents, files, of calls that return and of calls that raise |
| `local_batches` | 3 paths, perhaps 2 files; all readings; batch sizes 0 to 3 with a maximum of 2; 1 fault, 1 deletion | documents are those of single images, no image is passed over, what can be reached is indexed in the end |
| `index_race` | 2 writers, one of them with keyed ids, 2 search threads; 2 dimensions; 1 fault, 1 loss | the race for the collection, and `RetriedImagesAreStored` |
| `search_fusion` | 3 images in any order in 3 channels; limits 1 and 2; default weights and 3; 1 write during the search | fusion and explanation |
| `service_calls` | an uploader and a text client; 2 images a call; timeout of 2 ticks, inferences of 1, one of 4; 1 fault | files of calls, and `RetriesAreAnswered` |
| `models_starts` | every service, device and machine; 2 runs of the script with any flags | `StartsAsAsked` |
| `sparse_batch` | 2 texts of up to 3 tokens, 2 kept; vocabulary of 2 | batch and single encoding agree |

`TypeOK` is an invariant of the runs of `GatewayIngestion`, `VectorIndex` and
`DebugWeb`. The types of the others are part of the invariants that are proved
(`Typed` in their proof modules).

Bounds. Two jobs make every kind of pair in a batch, jobs left in the queue
behind a batch of one, and a requeued job beside a newer one; three jobs with
batches of two add a job behind a full batch, which the liveness run needs. Two
faults let a crash follow a lost connection or a failed call in the same batch.
Four events are "processing" and a final status of two jobs, or one job told
twice. A window of two is the smallest in which delivered results can be
overtaken and in which one foreign result leaves room. `web_results` has two
requests of one file, since what is asked there is how two jobs of one row, or
the results of two rows, disturb each other; `web_uploads` has one request of two
files, since its questions are about the second file after a failure of the first
one. Two events are enough for it: one foreign one and one for a row, or two for a row.

Three jobs or paths are the least in which an image without OCR text stands
between two with it, which is where vectors could shift; batches of two make a
full batch and a remainder of them. Two writers and two search threads give a
race between instances and one within an instance. Three images in three
channels with limits of one and two let a candidate lose one channel by the cut
and win by the others; one changed weight beside the defaults makes each order
of the weights; one write, anywhere between two of the queries, moves any image
to any place. In `service_calls` the slow inference outlasts the timeout twice,
so that an abandoned call and its retry wait together, and normal inferences are
shorter than the timeout: with longer ones no caller is ever answered, whatever
the service does. Two runs of the script are one that was interrupted and one
that repairs it. Padding needs two texts of different length; three tokens with
two kept make a text that is cut. Each of the faults named in a module may strike
at any step.

Symmetry is used in two runs that check no liveness: the requests of
`web_results` and the images of `search_fusion` are told apart by no definition
(ties go to the place in a ranking, never to a name).

Each passing property has a mutant: an operator in the section "Plausible
mistakes" that replaces one action and breaks the property.

Fairness. `GatewayIngestion`: the thread runs on while its process lives, a
process that is down is started again, and the broker eventually notices dead
connections; nothing is assumed about producers or faults, which are bounded.
`compose.yaml` has no restart policy, so "started again" is the operator's or the
orchestrator's part. `DebugWeb`: the goroutine runs on, the process is started
again, orphans come back, and the broker delivers an event that is the oldest
again and again while there is room in the window (strong fairness: the broker
pushes as soon as it can, the model lets the consumer be quicker).
`LocalIngestion`: a run goes on until it ends, and somebody starts the script
again with a batch size it accepts. `VectorIndex`: a call of Qdrant ends, and a
writer that is idle again and again upserts (strong fairness: the queue brings a
requeued job back, a script is run again). `ModelService`: clocks run, callers
retry, and the event loop gets round to the calls of every client (strong
fairness for each client, since asyncio runs ready tasks in the order in which
they became ready, and an inference in between makes none of them unready for good).

Deadlock is checked of `GatewayIngestion`. `CHECK_DEADLOCK FALSE` is set
for the others, which end: when all requests are answered, all events consumed and
all bounded faults, writes or runs used up, nothing need be left to do.

### Where code and documents differ

* One unsupported suffix requeues its whole batch, for ever (`gateway_isolation`;
  the design document says that one failure does not undo the batch).

The others have no run of their own. Each was met while its action was translated,
and the action behaves as described here; the properties are stated so that they
hold of it.

* A missing object and a refused input are requeued for ever, where the design
  document has non-retryable failures dead-lettered: in `SettledUnlessSpoiled` they
  are among those `Returning`.
* A row says `queued` although nothing was published, when the publish fails after
  the row was inserted (`DeclareJobQueue`, `SendJobOnLostConnection`).
* An older event overwrites a newer one, where the document orders them by
  `occurred_at`. What holds is that only a redelivered event does so
  (`RowsGoBackOnlyByRedelivery`), and that rows end on the final status otherwise
  (`QuietRowsAreFinal`).
* Two uploads of the same filename share one key, object and row.
* The result consumer does not come back after a lost connection:
  `ResultsReachTheirRow` excepts `consumer = "ended"`.
* One image without text ends the run of the script together with the images
  gathered before it, and so does a file deleted before its batch is flushed.
* The gateway's points have object keys for ids, and Qdrant refuses them: the
  images and writers in `Keyed`. A batch with such an image is requeued for ever.
* The repository's README has `MODEL_DEVICE=cuda` set per service, on
  `model-cuda.Dockerfile`. The OCR service does not start with it, for that image
  has the CPU build of `paddlepaddle` too: `LacksItsDevice`.
* SigLIP is neither exported to nor run on ONNX Runtime.

What holds with an exception is stated with it. `SettledOnce`: a prepared job whose
inference file could not be unlinked is dead-lettered too, and a call that raises in
its finally clause has no disposition for any delivery. `NoFileOutlivesTheCall`: files
that could not be copied or unlinked stay, and, when the finally clause raises, those
behind the one it could not remove. `OneFileAFault`: a failed upload leaves one
file. `SettledUnlessSpoiled`: a good image settles only without a spoiling one
(unsupported or keyed) in the queue, and nobody does while `BatchSize` jobs that come
back, or a malformed one, are ahead. `NoResultIsLost`: what cannot be parsed is
dropped. `ReachableImagesGetIndexed`: the images ahead of the first blank one, in batches of
every accepted size that end ahead of it. `RetriedImagesAreStored`: an instance
whose flag is set when the collection is lost stores nothing more until it is made
anew, nor does one whose model has another dimension than the collection.
`StartsAsAsked`: an undisturbed run of the script with all parts completes every
model, and a service whose parts are complete from its first look on starts, unless
it `LacksItsDevice`. A machine on which torch has CUDA and onnxruntime has not does
not start the caption service, also when no device was asked for, and none starts
the OCR service with `cuda`.

Beside these, `NothingPassesMalformed` states what the code does with a body it
cannot parse: it is never settled, and the queue stands, restart after restart, until
the message is purged. The exception is a process killed between `basic_get` and
`close()`: its message is with a dead connection, and until the broker notices, the
next process gets what lies behind. No publisher of the repository sends one.

## What is proved

`OneDisposition`, `ReadyMeansCollection`, `DimensionIsKept` and the inductive
invariants (`IInv`, `IndInv`) are proved and not part of a run, nor are the two
theorems about `Documents`; the others state properties of the runs.

About `GatewayIngestion`, for any set of images and classes, any number of jobs,
any batch size and number of faults, from `GatewayAssumption` (the constants are
natural numbers and subsets of a non-empty set of images, batches hold at least
one job):

* `IngestionInvariant`: `Spec => []IInv`, and from it `TypeCorrect`,
  `AckIsEarned`, `DropIsReported`, `IndexedIsTrue`, `NoDeliveryForgotten`,
  `DispositionIsUnique`, and the action properties `ProcessingIsFirst` and
  `MalformedStopsTheQueue`.
* `GatewayImplementsImageJobs`: `Spec => Promise!Spec`.

The argument. That an acked job was indexed and reported is not inductive: the
ack is a write that the broker sees or not, and by then the list that says so
was filled several steps before. `IInv` therefore says what each position of the
thread knows. `LoopPosition` and `Sorting`: how far the loops are and which
deliveries are in which list. `InHand`: on an open connection the broker's
unacked messages are exactly those not yet disposed of. `LostBatchIsReady`: on a
lost one they are back in the queue, so nothing the thread still writes can
matter. `OneDisposition`: the pending events are those of the acked and dead
deliveries. `Announced` and `EventSent`: on an open connection the last report of
a delivery is "processing", until its event is out and is the last. Together
they give the ack at `DisposeOfEvent`: open connection, event out, and
`AckedAreIndexed`. The refinement maps a job to its place: new is absent, acked is
indexed, dropped is failed, all else is pending; requeueing, crashes and lost
writes are stuttering steps.

For `MalformedStopsTheQueue` it says that only a thread on its way out holds a
malformed message (`MalformedOnExit`), so no loop disposes of one; and what the queue
hands out is its oldest message.

About `VectorIndex`, for any sets of writers, searchers and images, any dimensions and
any number of faults and losses, from `VectorIndexAssumption` (writers and
searchers are disjoint, dimensions are positive, bounds natural): `Typed`,
`ReadyIsRight`, `PointsSurvive`, `RacesAreHarmless`, and the action property
`DimensionKept`. That nobody's call is refused because of a race is not inductive:
the invariant adds that a thread about to call has a collection behind it
(`CallsHaveCollection`) and that the collection has some client's dimension
(`DimensionIsSomebodys`). `QuietStep` is the lemma for the steps that touch neither
collection nor points, `RefusalIndInv` that for the answers of Qdrant.

About `DebugWeb`, for any keys, requests, numbers of files, jobs, events and
faults and any prefetch window: `SpecTypeOK`, `SpecJobsAreComplete`,
`SpecNoResultIsLost`, `SpecIndexedRowIsSearchable`, `SpecOneJobPerFile`,
`SpecQuietRowsAreFinal` and the action property
`SpecRowsGoBackOnlyByRedelivery`. `IInv` has five parts. `Complete` adds to
`JobsAreComplete` how far each upload is, and that events have rows.
`Window` says that events are in order, in the queue, in the window and behind
what was applied, unless they were redelivered: this is why a late event is never
older than the row. A message that cannot be parsed has a key that is nobody's
(`EventType`), and the head that is dropped is one (`ConsumerPosition`). `Rows` ties the time of a row to the event it shows, and each
event to what the job was told. `Counted` says that the published jobs of a key
and the files that requests are past are equally many; the two sets grow in the
same step or not at all.

About `Documents`, for items and vectors of any number: `NextOcrIsOwn` and
`BatchedAsAlone`. The lemma `Ranks` counts: among the positions with OCR text,
the number of those up to one of them is its place in the filtered list, and no
two have the same. So an iterator over the vectors of the filtered texts deals
each its own.

About `GatewayBatch`, for batches of any size, any images, readings and faults:
`SpecSettledOnce`, `SpecOnlyOwnDocuments`, `SpecAckedIsIndexed`,
`SpecPreparedFilesExist`, `SpecNoFileOutlivesTheCall`. The properties speak of the
end of the call; `IInv` says what every position has of them. `Settling`: the jobs
the loop is past are prepared, requeued or dead letters, unless the call has raised. `Tidy`: the disk has the
files on the clean-up list, those of the job at hand and the leaked ones, no two
jobs share a file, and prepared jobs have theirs on the list. `Told`: events and
lists agree. `Built` and `Indexed`: documents are their images' own, by
`BatchedAsAlone`, and acked jobs have one.

About `LocalIngestion`, for any directory, links, readings, batch size, failures
and deletions: `SpecBatchesEqualSingles` and `SpecNoImageIsSkipped`. `IInv` adds
that the accumulator holds entries of the directory's images, and that
a reported batch is in the index. `BatchedAsAlone` does the rest.

About `ModelService`, for any clients, images, timeouts, faults and supply of
names: `SpecInferenceHasItsFiles` and `SpecOneFileAFault`. `IInv` adds what a call
has at each stage (`Orderly`) and that no two calls have a file in common, whatever
order they are answered in (`Apart`): only then does an answered call's
clean-up take nothing from an inference that is still to come.

About `HybridSearch`, for any finite set of images, any limits, weights, scale and
number of writes: `SpecNobodyIsLost`, `SpecFirstDenseHitIsShown`,
`SpecDominanceIsKept`, `SpecScoresAreExplained`. The lemmas `TakenOut` and `PutIn`
show that a write leaves every ranking without repetitions, `Order` that being ahead
is a strict total order on what was found, `Places` and `Fusion` that each image
then has a place of its own and the sort fills them all. `NobodyIsLost` is a matter
of counting: what was found is no more than what is there, so nothing is cut;
`Found` says that the dense answer had it all, although the other two queries came
later. For `FirstDenseHitIsShown`, an image that the dense channel did not return
has at most the two first shares of the sparse ones (`Halves`), so fewer images than
the limit can be ahead.

About `ModelStore`, for any devices and any number of runs of the script, in
`ModelServiceProofs`: `StoreStartsAsAsked`. `StoreInv` says that after a run
without flags each model is complete or still to come (`Prepared`), that a service
has loaded its parts or has still to load them (`Progress`), and that one whose parts
are complete ever since it began goes for the format they have (`Secure`). It is
the format chosen at the look that must still be right at the load.

About `SparseEncoding`, for any vocabulary, logits, lengths and batches, in
`VectorIndexProofs`: `EncoderBatchEqualsSingle` and `EncoderVectorsAreStorable`. The
lemma `Compared` counts who is ahead in a strict order of a finite set. It gives the
weights a greatest one (`Greatest`), which the zeros of the padding do not change
(`PaddingIsMasked`), and bounds the entries that are kept (`TopKIsBounded`).
Their specifications have names of their own (`StoreSpec`, `EncoderSpec`), so that
these modules can extend two models.

The assumptions on constants are those of the modules: natural bounds, finite
sets where code has finite ones, a largest batch of at least one, positive
weights. TLC evaluates them with every run.

Only model-checked: the six liveness properties, since fairness is beyond the
prover: `SettledUnlessSpoiled`, `StopIsHeeded`, `ResultsReachTheirRow`,
`ReachableImagesGetIndexed`, `RetriedImagesAreStored` and `RetriesAreAnswered`. Every
action property and invariant of a passing run is proved.

## Not modelled, and the plan

1. A composition of `GatewayIngestion` and `DebugWeb` in place of the promise, and
   its end-to-end liveness.
2. The walk over PaddleOCR's answers and its threshold
   (`vision_language_models.py`).

Left out for good: numeric inference and pixels; Qdrant's own fusion; HTML, listings
and the image proxy, which change no state; configuration and command lines; the
artifactor, a build tool whose work is done by a registry library.
