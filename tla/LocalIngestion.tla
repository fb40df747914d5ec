--------------------------- MODULE LocalIngestion ---------------------------
(***************************************************************************)
(* scripts/ingest_images.py: a run of the script lists the images of a     *)
(* directory, reads each of them with the OCR and the caption model, and   *)
(* gathers them in IngestionBatchAccumulator, which encodes, builds and    *)
(* upserts a batch at a time.  A run ends at its first exception, and      *)
(* somebody starts it again.  Paths are numbers in the order of their      *)
(* names; two of them may resolve to one file, whose number is the         *)
(* document's id (ImageId.from_path).                                      *)
(***************************************************************************)
EXTENDS Documents, FiniteSets, SequencesExt

CONSTANTS
    Paths,         \* image files of the directory, by number
    BatchSizes,    \* values given to --batch-size
    MaxBatchSize,  \* IngestionBatchAccumulator.MAX_BATCH_SIZE (64)
    MaxFaults,     \* bound: exceptions of the models, the disk or Qdrant, and kills
    MaxRemovals    \* bound: files deleted by somebody else

ASSUME LocalIngestionAssumption ==
    /\ Paths \subseteq Nat \ {0} /\ BatchSizes \subseteq Nat
    /\ {MaxBatchSize, MaxFaults, MaxRemovals} \subseteq Nat

VARIABLES
    present,       \* paths that exist
    target,        \* the file each path resolves to
    ocr, caption,  \* what the models read from each file
    at,            \* the script: "off", "loop", "upsert", "print", "done",
                   \* "invalid" (ended by ValueError) or "error"
    batchSize,     \* the accumulator's batch_size
    listing, pos,  \* image_paths, and how many of them were added
    pending,       \* the accumulator's pending
    batch,         \* documents that flush returned
    index,         \* documents in Qdrant
    printed,       \* paths printed as indexed, by any run
    faults, removals

inputs == <<target, ocr, caption>>
vars == <<present, inputs, at, batchSize, listing, pos, pending, batch, index, printed,
          faults, removals>>

Running == at \in {"loop", "upsert", "print"}
Accepted == BatchSizes \cap 1..MaxBatchSize
Indexed(p) == \E d \in index : d.id = target[p]

\* The document of one image built alone, by ingest_image.
OwnDocument(p) ==
    DocumentOf(target[p], p, target[p], ocr[target[p]], caption[target[p]])
Blank(p) == IsBlank(Extracted(ocr[target[p]], caption[target[p]]))

\* Every file reads as white space, or has a line of text besides.
Readings(model) ==
    {r \in [Paths -> {<<White>>} \cup {<<White, Line(p, model)>> : p \in Paths}] :
        \A p \in Paths : r[p] \in {<<White>>, <<White, Line(p, model)>>}}

\* The last path may be a link to the file of the first.
Links ==
    {[p \in Paths |-> p],
     [p \in Paths |-> IF \A q \in Paths : q <= p THEN CHOOSE f \in Paths : \A q \in Paths : f <= q
                      ELSE p]}

Init ==
    /\ present = Paths
    /\ target \in Links /\ ocr \in Readings("ocr") /\ caption \in Readings("caption")
    /\ at = "off" /\ batchSize \in BatchSizes
    /\ listing = <<>> /\ pos = 0 /\ pending = <<>> /\ batch = <<>>
    /\ index = {} /\ printed = {} /\ faults = 0 /\ removals = 0

-----------------------------------------------------------------------------
\* The process ends: the accumulator and the batch are gone.
End(how) == at' = how /\ pending' = <<>> /\ batch' = <<>>

(***************************************************************************)
(* Plausible mistakes, each of which breaks one of the properties.         *)
(***************************************************************************)

\* Images left over when the list ends are forgotten.
FinishForgets ==
    /\ at = "loop" /\ pos = Len(listing)
    /\ End("done")
    /\ UNCHANGED <<present, inputs, batchSize, listing, pos, index, printed, faults, removals>>

-----------------------------------------------------------------------------
\* main and the start of ingest_images; an empty directory ends it.
Start(b) ==
    /\ ~Running
    /\ listing' = SetToSortSeq(present, <)
    /\ pos' = 0 /\ batchSize' = b /\ batch' = <<>> /\ pending' = <<>>
    /\ at' = IF present = {} THEN "error" ELSE IF b \in Accepted THEN "loop" ELSE "invalid"
    /\ UNCHANGED <<present, inputs, index, printed, faults, removals>>

\* One round of the loop up to accumulator.add, with a batch not yet full.
Add ==
    /\ at = "loop" /\ pos < Len(listing) /\ Len(pending) < batchSize
    /\ LET p == listing[pos + 1]
           extracted == Extracted(ocr[target[p]], caption[target[p]])
       IN  \/ /\ p \in present /\ ~IsBlank(extracted)
              /\ pending' = Append(pending, [id |-> target[p], path |-> p,
                                             picture |-> target[p], extracted |-> extracted])
              /\ pos' = pos + 1
              /\ UNCHANGED <<at, batch>>
           \/ /\ p \in present /\ IsBlank(extracted)
              /\ End("invalid") /\ UNCHANGED pos
           \/ /\ p \notin present   \* Image.open: FileNotFoundError
              /\ End("error") /\ UNCHANGED pos
    /\ UNCHANGED <<present, inputs, batchSize, listing, index, printed, faults, removals>>

\* flush of a full batch, or of what is left after the last image.
Flush ==
    /\ at = "loop"
    /\ pos < Len(listing) => Len(pending) >= batchSize
    /\ pending # <<>>
    /\ IF \A k \in DOMAIN pending : pending[k].path \in present
       THEN /\ batch' = Zipped(pending, EncodeImages(Pictures(pending)),
                               EncodeTexts(FlorenceTexts(pending)), EncodeTexts(OcrTexts(pending)))
            /\ pending' = <<>> /\ at' = "upsert"
       ELSE End("invalid")          \* ImagePath.create
    /\ UNCHANGED <<present, inputs, batchSize, listing, pos, index, printed, faults, removals>>

Upsert ==
    /\ at = "upsert"
    /\ index' = Put(index, batch)
    /\ at' = "print"
    /\ UNCHANGED <<present, inputs, batchSize, listing, pos, pending, batch, printed, faults, removals>>

\* Qdrant refuses the batch, or applies it and its answer is lost.
UpsertFails ==
    /\ at = "upsert" /\ faults < MaxFaults /\ faults' = faults + 1
    /\ \/ index' = Put(index, batch)
       \/ index' = index
    /\ End("error")
    /\ UNCHANGED <<present, inputs, batchSize, listing, pos, printed, removals>>

Report ==
    /\ at = "print"
    /\ printed' = printed \cup {batch[k].path : k \in DOMAIN batch}
    /\ batch' = <<>> /\ at' = "loop"
    /\ UNCHANGED <<present, inputs, batchSize, listing, pos, pending, index, faults, removals>>

\* The last flush finds nothing.
Finish ==
    /\ at = "loop" /\ pos = Len(listing) /\ pending = <<>>
    /\ End("done")
    /\ UNCHANGED <<present, inputs, batchSize, listing, pos, index, printed, faults, removals>>

\* An exception out of a model or of the disk, or a kill.
Fail ==
    /\ Running /\ faults < MaxFaults /\ faults' = faults + 1
    /\ End("error")
    /\ UNCHANGED <<present, inputs, batchSize, listing, pos, index, printed, removals>>

\* Links to a file that is gone do not exist either.
Delete(p) ==
    /\ removals < MaxRemovals /\ removals' = removals + 1
    /\ p \in present /\ present' = {q \in present : q # p /\ target[q] # p}
    /\ UNCHANGED <<inputs, at, batchSize, listing, pos, pending, batch, index, printed, faults>>

Run == Add \/ Flush \/ Upsert \/ Report \/ Finish

Next ==
    \/ \E b \in BatchSizes : Start(b)
    \/ Run \/ UpsertFails \/ Fail
    \/ \E p \in Paths : Delete(p)

Spec == Init /\ [][Next]_vars

\* The script runs until it ends, and whoever runs it starts it again, with a
\* batch size that it accepts.
Fairness == WF_vars(Run) /\ WF_vars(\E b \in Accepted : Start(b))
FairSpec == Spec /\ Fairness

-----------------------------------------------------------------------------
\* A batch gives every image the document it would have got alone: the
\* vectors of flush are dealt out to the images they were computed from, also
\* when some images have no OCR text and when two paths are one file.
BatchesEqualSingles == \A d \in index \cup Range(batch) : d = OwnDocument(d.path)

\* No image is passed over: what the loop is done with is in the accumulator,
\* in the batch that is being upserted, or in the index.
NoImageIsSkipped ==
    Running => \A k \in 1..pos :
        \/ Indexed(listing[k])
        \/ \E i \in DOMAIN pending : pending[i].path = listing[k]
        \/ \E i \in DOMAIN batch : batch[i].path = listing[k]

\* The images in the full batches ahead of the first blank image, or all of
\* them when none is blank, with every batch size that the script accepts.
Reachable ==
    LET all == SetToSortSeq(present, <)
        blanks == {k \in DOMAIN all : Blank(all[k])}
    IN  {p \in present : \A k \in blanks, b \in Accepted :
            \E i \in DOMAIN all : all[i] = p /\ ((i + b - 1) \div b) * b < k}

\* Whatever goes wrong a few times, started again the script finally indexes
\* those images.
ReachableImagesGetIndexed == <>[](\A p \in Reachable : Indexed(p))
=============================================================================
