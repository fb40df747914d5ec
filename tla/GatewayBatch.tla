---------------------------- MODULE GatewayBatch ----------------------------
(***************************************************************************)
(* One call of GatewayIngestionService.process_jobs, seen from inside: the *)
(* temporary files of every job, the exceptions of every step, the vectors *)
(* that the model services answer with, and how they are dealt out to the  *)
(* documents.  GatewayIngestion has the queue around this call and keeps   *)
(* only what the call says of each delivery.                               *)
(***************************************************************************)
EXTENDS Documents, FiniteSets, Functions

CONSTANTS
    MaxTag,     \* delivery tags 1..MaxTag of the batch
    Images,     \* object keys, numbered
    Large,      \* images that prepare_inference_image resizes or turns upright
    MaxFaults   \* bound: failed calls and answers of a wrong length

ASSUME GatewayBatchAssumption ==
    /\ MaxTag \in Nat \ {0}     \* the consumer loop skips empty batches
    /\ MaxFaults \in Nat
    /\ Images \subseteq Nat \ {0} /\ Images # {} /\ Large \subseteq Images

Tags == 1..MaxTag
VARIABLES
    image, ocr, caption,  \* the key of each job, what the models read of each image
    at,         \* "download", "open", "extract", "retain", "encode", "upsert",
                \* "cleanup", "end" or, when the call raises, "raised"
    job,        \* the job the first loop is at
    disk,       \* temporary files of the gateway that exist
    cleanup,    \* temp_paths_to_cleanup
    prepared,   \* prepared_jobs, with dense_path and the extracted text
    documents,
    acked, requeue, dead, events,   \* the outcome
    index,      \* documents in Qdrant
    leaked,     \* history: files whose copy or whose unlink failed
    faults

inputs == <<image, ocr, caption>>
outcome == <<acked, requeue, dead, events>>
vars == <<inputs, at, job, disk, cleanup, prepared, documents, outcome, index, leaked, faults>>

File(kind, j) == [kind |-> kind, job |-> j]

\* Every image reads as white space, or has a line of text besides.
Readings(model) ==
    {r \in [Images -> {<<White>>} \cup {<<White, Line(i, model)>> : i \in Images}] :
        \A i \in Images : r[i] \in {<<White>>, <<White, Line(i, model)>>}}

Init ==
    /\ image \in [Tags -> Images] /\ ocr \in Readings("ocr") /\ caption \in Readings("caption")
    /\ at = "download" /\ job = 1
    /\ disk = {} /\ cleanup = {} /\ prepared = <<>> /\ documents = <<>>
    /\ acked = {} /\ requeue = {} /\ dead = {} /\ events = <<>>
    /\ index = {} /\ leaked = {} /\ faults = 0

-----------------------------------------------------------------------------
Fault == faults < MaxFaults /\ faults' = faults + 1

\* The first loop goes on with the next delivery, or ends.
NextJob ==
    /\ job' = job + 1
    /\ at' = IF job < MaxTag THEN "download"
             ELSE IF prepared' = <<>> THEN "cleanup" ELSE "encode"

\* except (OSError, ValueError) and except Exception of the first loop.
DeadLetter ==
    /\ dead' = dead \cup {job}
    /\ events' = Append(events, [job |-> job, status |-> "failed"])
    /\ UNCHANGED <<acked, requeue>>
Requeue == requeue' = requeue \cup {job} /\ UNCHANGED <<acked, dead, events>>
Raise(kind) == IF kind = "value" THEN DeadLetter ELSE Requeue

\* A step of the first loop raises, with files that the exception removes on its
\* way out: when an unlink fails its OSError takes the place of the exception.
Fails(files) ==
    /\ Fault
    /\ \/ \E kind \in {"value", "other"} : Raise(kind) /\ disk' = disk \ files /\ leaked' = leaked
       \/ files # {} /\ DeadLetter /\ disk' = disk \cup files /\ leaked' = leaked \cup files
    /\ UNCHANGED prepared /\ NextJob

\* What prepare_inference_image yields, if it is not the downloaded file.
InferenceFile == IF image[job] \in Large THEN {File("inference", job)} ELSE {}

PreparedTags == {prepared[k].job : k \in DOMAIN prepared}

\* The except clause around encoding and upsert.
RequeuePrepared ==
    /\ requeue' = requeue \cup PreparedTags
    /\ at' = "cleanup"
    /\ UNCHANGED <<acked, dead, events>>

Items == [k \in DOMAIN prepared |->
            [id |-> image[prepared[k].job], path |-> image[prepared[k].job],
             picture |-> image[prepared[k].dense_path.job], extracted |-> prepared[k].extracted]]

\* A service answers with the vectors asked for or, once in a while (it counts
\* against MaxFaults), with one more or less.
Answers(vectors) ==
    {vectors} \cup IF faults < MaxFaults /\ vectors # <<>>
                   THEN {SubSeq(vectors, 1, Len(vectors) - 1), Append(vectors, vectors[1])} ELSE {}

-----------------------------------------------------------------------------
(***************************************************************************)
(* Plausible mistakes, each of which breaks one of the properties.         *)
(***************************************************************************)

\* The dense encoder is given the inference file itself.
RetainNothing ==
    /\ at = "retain"
    /\ LET large == image[job] \in Large
           kept == IF large THEN File("inference", job) ELSE File("download", job)
       IN  /\ prepared' = Append(prepared, [job |-> job, dense_path |-> kept,
                              extracted |-> Extracted(ocr[image[job]], caption[image[job]])])
           /\ disk' = disk \ {File("inference", job)}
    /\ NextJob
    /\ UNCHANGED <<inputs, cleanup, documents, outcome, index, leaked, faults>>

\* The documents are zipped as in the script, without strict.
EncodeLoosely ==
    /\ at = "encode"
    /\ \E dense \in Answers(EncodeImages(Pictures(Items))),
          florence \in Answers(EncodeTexts(FlorenceTexts(Items))) :
          documents' = Zipped(Items, dense, florence, EncodeTexts(OcrTexts(Items)))
    /\ at' = "upsert"
    /\ UNCHANGED <<inputs, job, disk, cleanup, prepared, outcome, index, leaked, faults>>

\* Something raises after the batch was acked, and the except clause follows.
UpsertFailsAcked ==
    /\ at = "upsert" /\ Fault
    /\ index' = Put(index, documents)
    /\ acked' = acked \cup PreparedTags /\ requeue' = requeue \cup PreparedTags
    /\ events' = events \o [k \in DOMAIN prepared |-> [job |-> prepared[k].job, status |-> "indexed"]]
    /\ at' = "cleanup"
    /\ UNCHANGED <<inputs, job, disk, cleanup, prepared, documents, dead, leaked>>

\* Only the files of the prepared jobs are removed.
CleanupPrepared ==
    /\ at = "cleanup"
    /\ disk' = {f \in disk : f \notin cleanup \/ f.job \notin PreparedTags}
    /\ at' = "end"
    /\ UNCHANGED <<inputs, job, cleanup, prepared, documents, outcome, index, leaked, faults>>

-----------------------------------------------------------------------------
(***************************************************************************)
(* The first loop, one job at a time.                                      *)
(***************************************************************************)

\* download_to_tempfile, which removes its file when it fails.
Download ==
    /\ at = "download"
    /\ \/ /\ disk' = disk \cup {File("download", job)}
          /\ cleanup' = cleanup \cup {File("download", job)}
          /\ at' = "open"
          /\ UNCHANGED <<job, prepared, outcome, leaked, faults>>
       \/ Fails({File("download", job)}) /\ UNCHANGED cleanup
    /\ UNCHANGED <<inputs, documents, index>>

\* prepare_inference_image up to its yield: a small upright image is used as it
\* is, of another one a file is saved, which a failed save removes.
Open ==
    /\ at = "open"
    /\ \/ /\ disk' = disk \cup InferenceFile
          /\ at' = "extract"
          /\ UNCHANGED <<job, prepared, outcome, leaked, faults>>
       \/ Fails(InferenceFile)
    /\ UNCHANGED <<inputs, cleanup, documents, index>>

\* OCR, caption and ExtractedImageText.create.  An exception leaves the with
\* block, which removes the inference file.
Extract ==
    /\ at = "extract"
    /\ LET blank == IsBlank(Extracted(ocr[image[job]], caption[image[job]]))
       IN  \/ ~blank /\ at' = "retain" /\ UNCHANGED <<job, disk, prepared, outcome, leaked, faults>>
           \/ /\ blank /\ DeadLetter /\ disk' = disk \ InferenceFile
              /\ UNCHANGED <<prepared, leaked, faults>> /\ NextJob
           \/ Fails(InferenceFile)
    /\ UNCHANGED <<inputs, cleanup, documents, index>>

\* The inference file is copied to a retained one for the dense encoder, the job
\* is prepared, and the with block removes the inference file.
Retain ==
    /\ at = "retain"
    /\ LET large == image[job] \in Large
           kept == File(IF large THEN "retained" ELSE "download", job)
       IN  /\ prepared' = Append(prepared, [job |-> job, dense_path |-> kept,
                              extracted |-> Extracted(ocr[image[job]], caption[image[job]])])
           /\ disk' = (disk \cup {kept}) \ {File("inference", job)}
           /\ cleanup' = cleanup \cup {kept}
    /\ NextJob
    /\ UNCHANGED <<inputs, documents, outcome, index, leaked, faults>>

\* copy2 raises OSError: the retained file is there and nobody knows of it.  The
\* unlink of the inference file may fail as well.
CopyFails ==
    /\ at = "retain" /\ image[job] \in Large
    /\ Fault /\ DeadLetter
    /\ \E left \in {{}, InferenceFile} :
          /\ disk' = ((disk \ InferenceFile) \cup left) \cup {File("retained", job)}
          /\ leaked' = (leaked \cup left) \cup {File("retained", job)}
    /\ UNCHANGED prepared /\ NextJob
    /\ UNCHANGED <<inputs, cleanup, documents, index>>

\* The unlink at the end of the with block raises OSError, after the job was
\* appended to prepared_jobs.
UnlinkFails ==
    /\ at = "retain" /\ image[job] \in Large
    /\ Fault /\ DeadLetter
    /\ prepared' = Append(prepared, [job |-> job, dense_path |-> File("retained", job),
                              extracted |-> Extracted(ocr[image[job]], caption[image[job]])])
    /\ disk' = disk \cup {File("retained", job)}
    /\ cleanup' = cleanup \cup {File("retained", job)}
    /\ leaked' = leaked \cup {File("inference", job)}
    /\ NextJob
    /\ UNCHANGED <<inputs, documents, index>>

-----------------------------------------------------------------------------
(***************************************************************************)
(* The batch.                                                              *)
(***************************************************************************)

\* The three calls and the strict zip; next() raises StopIteration when there
\* are too few OCR vectors, and nobody asks for those that are too many.
Encode ==
    /\ at = "encode"
    /\ \E dense \in Answers(EncodeImages(Pictures(Items))),
          florence \in Answers(EncodeTexts(FlorenceTexts(Items))),
          sparse \in Answers(EncodeTexts(OcrTexts(Items))) :
          IF /\ Len(dense) = Len(prepared) /\ Len(florence) = Len(prepared)
             /\ Len(sparse) >= Len(OcrTexts(Items))
          THEN /\ documents' = Zipped(Items, dense, florence, sparse)
               /\ at' = "upsert" /\ UNCHANGED outcome
          ELSE RequeuePrepared /\ UNCHANGED documents
    /\ UNCHANGED <<inputs, job, disk, cleanup, prepared, index, leaked, faults>>

\* An encoder or the gateway's own reading of a file raises.
EncodeFails ==
    /\ at = "encode" /\ Fault
    /\ RequeuePrepared
    /\ UNCHANGED <<inputs, job, disk, cleanup, prepared, documents, index, leaked>>

Upsert ==
    /\ at = "upsert"
    /\ index' = Put(index, documents)
    /\ acked' = acked \cup PreparedTags
    /\ events' = events \o [k \in DOMAIN prepared |-> [job |-> prepared[k].job, status |-> "indexed"]]
    /\ at' = "cleanup"
    /\ UNCHANGED <<inputs, job, disk, cleanup, prepared, documents, requeue, dead, leaked, faults>>

\* Qdrant refuses the batch, or applies it and its answer is lost.
UpsertFails ==
    /\ at = "upsert" /\ Fault
    /\ \/ index' = Put(index, documents)
       \/ index' = index
    /\ RequeuePrepared
    /\ UNCHANGED <<inputs, job, disk, cleanup, prepared, documents, leaked>>

\* The finally clause.
Cleanup ==
    /\ at = "cleanup"
    /\ disk' = disk \ cleanup
    /\ at' = "end"
    /\ UNCHANGED <<inputs, job, cleanup, prepared, documents, outcome, index, leaked, faults>>

\* The finally clause goes through its list in order.
Behind(f) == {g \in cleanup : g.job > f.job \/ (g.job = f.job /\ (g = f \/ g.kind = "retained"))}

\* An unlink of the finally clause raises OSError, which takes the place of what
\* the call was about to return; this file and those behind it stay.
CleanupFails ==
    /\ at = "cleanup" /\ Fault
    /\ \E f \in cleanup : disk' = disk \ (cleanup \ Behind(f))
    /\ acked' = {} /\ requeue' = {} /\ dead' = {} /\ events' = <<>>
    /\ at' = "raised"
    /\ UNCHANGED <<inputs, job, cleanup, prepared, documents, index, leaked>>

Next ==
    \/ Download \/ Open \/ Extract \/ Retain \/ CopyFails \/ UnlinkFails
    \/ Encode \/ EncodeFails \/ Upsert \/ UpsertFails \/ Cleanup \/ CleanupFails

Spec == Init /\ [][Next]_vars

-----------------------------------------------------------------------------
\* Prepared jobs of which the inference file could not be removed.
Stuck == {j \in PreparedTags : File("inference", j) \in leaked}

\* When process_jobs returns, every delivery has one disposition, whatever failed
\* before; the exception is a prepared job whose inference file could not be
\* unlinked, which is dead-lettered and then acked or requeued with the others.
\* It returns unless the finally clause could not remove a file: then it raises,
\* and no delivery has a disposition.
SettledOnce ==
    /\ at = "end" => \A j \in Tags :
          /\ j \in acked \cup requeue \cup dead
          /\ j \in acked => j \notin requeue
          /\ j \in dead /\ j \notin Stuck => j \notin acked \cup requeue
    /\ at = "raised" => cleanup \cap disk # {} /\ acked \cup requeue \cup dead = {}

\* Whatever number of vectors the services answer with, the index gets only the
\* documents the images would have got one by one.
OnlyOwnDocuments ==
    \A d \in index : d = DocumentOf(d.id, d.id, d.id, ocr[d.id], caption[d.id])

\* A delivery is acked when its image is in the index, and it is told "indexed"
\* exactly when it is acked, "failed" exactly when it is dead-lettered.
AckedIsIndexed ==
    at \in {"cleanup", "end"} =>
        /\ \A j \in acked : \E d \in index : d.id = image[j]
        /\ acked = {e.job : e \in {x \in Range(events) : x.status = "indexed"}}
        /\ dead = {e.job : e \in {x \in Range(events) : x.status = "failed"}}

\* The files that the dense encoder and ImagePath.create read after the first
\* loop still exist then, although the inference files are gone.
PreparedFilesExist ==
    at \notin {"end", "raised"} =>
        \A p \in Range(prepared) : {p.dense_path, File("download", p.job)} \subseteq disk

\* A call that returns leaves no file behind, but the retained copy that could not
\* be written and those files of the first loop that could not be unlinked.  One
\* that raises leaves besides what the finally clause had not come to.
NoFileOutlivesTheCall ==
    /\ at = "end" => disk = leaked
    /\ at = "raised" => \E f \in cleanup : disk = leaked \cup Behind(f)
=============================================================================
