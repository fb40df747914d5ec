-------------------------- MODULE GatewayBatchProofs --------------------------
(***************************************************************************)
(* Proofs about GatewayBatch, for batches of any size, any images, any     *)
(* texts that the models read in them, and any number of failures.         *)
(***************************************************************************)
EXTENDS GatewayBatch, DocumentsProofs

InLoop == at \in {"download", "open", "extract", "retain"}
IsOver == at \in {"cleanup", "end", "raised"}

PreparedJob(j, kind) ==
    [job |-> j, dense_path |-> File(kind, j),
     extracted |-> Extracted(ocr[image[j]], caption[image[j]])]
PreparedJobs == {PreparedJob(j, kind) : j \in Tags, kind \in {"download", "retained"}}
Files == [kind : {"download", "inference", "retained"}, job : Tags]
Messages == [job : Tags, status : {"indexed", "failed"}]

\* Types; a prepared job has the text that was read in its own image and a file
\* of its own for the dense encoder.
Typed ==
    /\ image \in [Tags -> Images] /\ ocr \in Readings("ocr") /\ caption \in Readings("caption")
    /\ at \in {"download", "open", "extract", "retain", "encode", "upsert",
              "cleanup", "end", "raised"}
    /\ job \in 1..(MaxTag + 1) /\ (InLoop <=> job \in Tags)
    /\ prepared \in Seq(PreparedJobs)
    /\ acked \subseteq Tags /\ requeue \subseteq Tags /\ dead \subseteq Tags
    /\ events \in Seq(Messages)
    /\ disk \subseteq Files /\ cleanup \subseteq Files /\ leaked \subseteq Files

-----------------------------------------------------------------------------
(***************************************************************************)
(* What the steps do to the jobs.                                          *)
(***************************************************************************)
LoopStep == Download \/ Open \/ Extract \/ Retain \/ CopyFails \/ UnlinkFails

\* The file of the current job that may be left behind with a failure.
Inference == File("inference", job)

\* A failure is a disposition of the current job, and may leave its files behind.
LEMMA FailsEffect ==
  ASSUME NEW files, Fails(files)
  PROVE  /\ NextJob /\ prepared' = prepared /\ acked' = acked /\ leaked \subseteq leaked'
         /\ DeadLetter \/ Requeue
         /\ \/ disk' = disk \ files /\ leaked' = leaked
            \/ disk' = disk \cup files /\ leaked' = leaked \cup files
  BY DEF Fails, Raise, DeadLetter, Requeue

\* The loop goes on with the same job, or gives it a disposition or a place
\* among the prepared ones; both only when its inference file stays behind.
LEMMA LoopEffect ==
  ASSUME Typed, LoopStep
  PROVE  /\ InLoop /\ UNCHANGED <<inputs, documents, index, acked>> /\ leaked \subseteq leaked'
         /\ \/ /\ at' \in {"open", "extract", "retain"}
               /\ UNCHANGED <<job, prepared, outcome, leaked>>
            \/ /\ NextJob
               /\ \/ prepared' = prepared /\ DeadLetter
                  \/ prepared' = prepared /\ Requeue
                  \/ /\ \E kind \in {"download", "retained"} :
                           prepared' = Append(prepared, PreparedJob(job, kind))
                     /\ UNCHANGED outcome
                  \/ /\ prepared' = Append(prepared, PreparedJob(job, "retained"))
                     /\ DeadLetter /\ Inference \in leaked'
  <1>1. CASE Download
    BY <1>1, FailsEffect DEF Download, InLoop, DeadLetter, Requeue, inputs, outcome
  <1>2. CASE Open
    BY <1>2, FailsEffect DEF Open, InLoop, DeadLetter, Requeue, inputs, outcome
  <1>3. CASE Extract
    BY <1>3, FailsEffect DEF Extract, InLoop, DeadLetter, Requeue, inputs, outcome
  <1>4. CASE Retain
    <2>1. \E kind \in {"download", "retained"} :
             prepared' = Append(prepared, PreparedJob(job, kind))
      BY <1>4 DEF Retain, PreparedJob
    <2> QED
      BY <1>4, <2>1 DEF Retain, InLoop, inputs, outcome
  <1>5. CASE CopyFails
    BY <1>5 DEF CopyFails, InLoop, DeadLetter, inputs
  <1>6. CASE UnlinkFails
    BY <1>6 DEF UnlinkFails, InLoop, DeadLetter, inputs, PreparedJob, Inference
  <1> QED
    BY <1>1, <1>2, <1>3, <1>4, <1>5, <1>6 DEF LoopStep

\* The steps of the batch: documents for all prepared jobs or a failure, and in
\* the end the finally clause.
LEMMA BatchEffect ==
  ASSUME Encode \/ EncodeFails \/ Upsert \/ UpsertFails
  PROVE  /\ UNCHANGED <<inputs, job, disk, cleanup, prepared, leaked>>
         /\ at \in {"encode", "upsert"} /\ dead' = dead
         /\ \/ at' = "upsert" /\ UNCHANGED outcome
            \/ RequeuePrepared
            \/ /\ at' = "cleanup" /\ acked' = acked \cup PreparedTags /\ requeue' = requeue
               /\ events' = events \o
                     [k \in DOMAIN prepared |-> [job |-> prepared[k].job, status |-> "indexed"]]
  BY DEF Encode, EncodeFails, Upsert, UpsertFails, RequeuePrepared, outcome, inputs

\* Which jobs are prepared after one more is.
LEMMA PreparedGrows ==
  ASSUME Typed, NEW kind \in {"download", "retained"}, job \in Tags,
         prepared' = Append(prepared, PreparedJob(job, kind))
  PROVE  /\ PreparedTags' = PreparedTags \cup {job} /\ prepared' # <<>>
         /\ prepared' \in Seq(PreparedJobs)
         /\ Len(prepared') = Len(prepared) + 1 /\ Len(prepared) \in Nat
         /\ \A k \in 1..Len(prepared) : prepared'[k] = prepared[k]
         /\ prepared'[Len(prepared) + 1] = PreparedJob(job, kind)
  <1>1. PreparedJob(job, kind) \in PreparedJobs
    BY DEF PreparedJobs
  <1>2. /\ prepared' \in Seq(PreparedJobs) /\ Len(prepared') = Len(prepared) + 1
        /\ \A k \in 1..Len(prepared) : prepared'[k] = prepared[k]
        /\ prepared'[Len(prepared) + 1] = PreparedJob(job, kind)
    BY <1>1, AppendProperties DEF Typed
  <1>3. /\ Len(prepared) \in Nat /\ DOMAIN prepared = 1..Len(prepared)
        /\ DOMAIN prepared' = 1..(Len(prepared) + 1)
    BY <1>2, LenProperties DEF Typed
  <1>4. PreparedTags' = PreparedTags \cup {job}
    BY <1>2, <1>3 DEF PreparedTags, PreparedJob
  <1>5. prepared' # <<>>
    BY <1>3, EmptySeq
  <1> QED
    BY <1>2, <1>3, <1>4, <1>5

\* A prepared job is one of the batch.
LEMMA PreparedType ==
  ASSUME Typed
  PROVE  /\ Len(prepared) \in Nat /\ DOMAIN prepared = 1..Len(prepared) /\ PreparedTags \subseteq Tags
         /\ \A k \in 1..Len(prepared) :
               /\ prepared[k].job \in Tags /\ prepared[k].dense_path.job = prepared[k].job
               /\ prepared[k].extracted =
                     Extracted(ocr[image[prepared[k].job]], caption[image[prepared[k].job]])
         /\ prepared = <<>> => PreparedTags = {}
  <1>1. Len(prepared) \in Nat /\ DOMAIN prepared = 1..Len(prepared)
    BY LenProperties DEF Typed
  <1>2. ASSUME NEW k \in 1..Len(prepared)
        PROVE  /\ prepared[k].job \in Tags /\ prepared[k].dense_path.job = prepared[k].job
               /\ prepared[k].extracted =
                     Extracted(ocr[image[prepared[k].job]], caption[image[prepared[k].job]])
    <2>1. prepared[k] \in PreparedJobs
      BY ElementOfSeq DEF Typed
    <2> QED
      BY <2>1 DEF PreparedJobs, PreparedJob, File
  <1>3. PreparedTags \subseteq Tags
    BY <1>1, <1>2 DEF PreparedTags
  <1>4. prepared = <<>> => PreparedTags = {}
    BY <1>1, EmptySeq DEF PreparedTags
  <1> QED
    BY <1>1, <1>2, <1>3, <1>4

-----------------------------------------------------------------------------
(***************************************************************************)
(* Types.                                                                  *)
(***************************************************************************)

\* The first job is at its download.
LEMMA InitTyped == Init => Typed
  BY GatewayBatchAssumption, EmptySeq DEF Init, Typed, Tags, InLoop

\* The end of the loop is the beginning of the batch.
LEMMA NextJobTyped ==
  ASSUME Typed, InLoop, NextJob
  PROVE  /\ at' \in {"download", "encode", "cleanup"} /\ job' \in 1..(MaxTag + 1)
         /\ InLoop' <=> job' \in Tags
         /\ job' = job + 1 /\ (~InLoop' => job' = MaxTag + 1)
         /\ at' = "cleanup" => prepared' = <<>>
  BY GatewayBatchAssumption DEF Typed, Tags, InLoop, NextJob

\* The temporary files are those of the batch.
LEMMA FilesTyped ==
  ASSUME Typed, Next
  PROVE  disk' \subseteq Files /\ cleanup' \subseteq Files /\ leaked' \subseteq Files
  <1>1. ASSUME job \in Tags, NEW kind \in {"download", "inference", "retained"}
        PROVE  File(kind, job) \in Files
    BY <1>1 DEF File, Files
  <1>2. CASE Download
    BY <1>1, <1>2, FailsEffect DEF Download, Typed, InLoop
  <1>3. CASE Open
    BY <1>1, <1>3, FailsEffect DEF Open, Typed, InLoop, InferenceFile
  <1>4. CASE Extract
    BY <1>1, <1>4, FailsEffect DEF Extract, Typed, InLoop, InferenceFile
  <1>5. CASE Retain
    BY <1>1, <1>5 DEF Retain, Typed, InLoop
  <1>6. CASE CopyFails
    BY <1>1, <1>6 DEF CopyFails, Typed, InLoop, InferenceFile
  <1>7. CASE UnlinkFails
    BY <1>1, <1>7 DEF UnlinkFails, Typed, InLoop
  <1>8. CASE Cleanup \/ CleanupFails
    BY <1>8 DEF Cleanup, CleanupFails, Typed
  <1> QED
    BY <1>2, <1>3, <1>4, <1>5, <1>6, <1>7, <1>8, BatchEffect DEF Next, Typed

\* Every step keeps the types.
LEMMA NextTyped == Typed /\ [Next]_vars => Typed'
  <1> SUFFICES ASSUME Typed, [Next]_vars PROVE Typed'
    OBVIOUS
  <1>1. CASE UNCHANGED vars
    BY <1>1 DEF Typed, InLoop, PreparedJobs, PreparedJob, vars, inputs, outcome
  <1>2. ASSUME UNCHANGED inputs PROVE PreparedJobs' = PreparedJobs
    BY <1>2 DEF PreparedJobs, PreparedJob, inputs
  <1>3. CASE LoopStep
    <2>1. job \in Tags /\ UNCHANGED inputs /\ acked' = acked
      BY <1>3, LoopEffect DEF Typed
    <2>2. prepared' \in Seq(PreparedJobs)
      BY <1>3, LoopEffect, PreparedGrows, <2>1 DEF Typed
    <2>3. requeue' \subseteq Tags /\ dead' \subseteq Tags /\ events' \in Seq(Messages)
      <3>1. [job |-> job, status |-> "failed"] \in Messages
        BY <2>1 DEF Messages
      <3>2. Append(events, [job |-> job, status |-> "failed"]) \in Seq(Messages)
        BY <3>1, AppendProperties DEF Typed
      <3> QED
        BY <1>3, <2>1, <3>2, LoopEffect DEF Typed, DeadLetter, Requeue, outcome
    <2>4. /\ at' \in {"download", "open", "extract", "retain", "encode", "cleanup"}
          /\ job' \in 1..(MaxTag + 1) /\ (InLoop' <=> job' \in Tags)
      <3>1. CASE at' \in {"open", "extract", "retain"} /\ job' = job
        BY <2>1, <3>1 DEF Typed, InLoop
      <3>2. CASE NextJob
        BY <1>3, <3>2, LoopEffect, NextJobTyped
      <3> QED
        BY <1>3, <3>1, <3>2, LoopEffect
    <2> QED
      BY <1>2, <1>3, <2>1, <2>2, <2>3, <2>4, FilesTyped DEF Typed, inputs, Next, LoopStep
  <1>4. CASE Encode \/ EncodeFails \/ Upsert \/ UpsertFails
    <2>1. UNCHANGED <<inputs, job, disk, cleanup, prepared, leaked, dead>> /\ at' \in {"upsert", "cleanup"}
      BY <1>4, BatchEffect DEF RequeuePrepared, inputs
    <2>2. acked' \subseteq Tags /\ requeue' \subseteq Tags
      BY <1>4, BatchEffect, PreparedType DEF RequeuePrepared, outcome, Typed
    <2>3. events' \in Seq(Messages)
      <3> DEFINE told == [k \in DOMAIN prepared |-> [job |-> prepared[k].job, status |-> "indexed"]]
      <3>1. told \in Seq(Messages)
        BY PreparedType DEF Messages
      <3>2. events \o told \in Seq(Messages)
        BY <3>1, ConcatProperties DEF Typed
      <3> QED
        BY <1>4, <3>2, BatchEffect DEF RequeuePrepared, outcome, Typed
    <2> QED
      BY <1>2, <1>4, <2>1, <2>2, <2>3, BatchEffect DEF Typed, InLoop, inputs, Tags
  <1>5. CASE Cleanup
    BY <1>2, <1>5 DEF Cleanup, Typed, InLoop, inputs, outcome
  <1>6. CASE CleanupFails
    <2>1. <<>> \in Seq(Messages)
      OBVIOUS
    <2> QED
      BY <1>2, <1>6, <2>1, FilesTyped DEF CleanupFails, Typed, InLoop, inputs, Next
  <1> QED
    BY <1>1, <1>3, <1>4, <1>5, <1>6 DEF Next, LoopStep

-----------------------------------------------------------------------------
(***************************************************************************)
(* Dispositions.                                                           *)
(***************************************************************************)

\* The deliveries that the loop is done with are prepared, requeued or dead
\* letters, one of these each, but for those of a stuck inference file; at the
\* end the prepared ones are acked or requeued together, or all is forgotten.
Settling ==
    IF at = "raised" THEN acked \cup requeue \cup dead = {}
    ELSE IF IsOver
    THEN \A j \in Tags : /\ j \in acked \cup requeue \cup dead
                         /\ j \in acked => j \notin requeue
                         /\ j \in dead /\ j \notin Stuck => j \notin acked \cup requeue
    ELSE /\ acked = {}
         /\ \A j \in Tags : j < job <=> j \in PreparedTags \cup requeue \cup dead
         /\ \A j \in Tags : /\ j \in requeue => j \notin PreparedTags
                            /\ j \in dead /\ j \notin Stuck => j \notin PreparedTags \cup requeue

\* No delivery is done with.
LEMMA InitSettling == Init => Settling
  BY EmptySeq DEF Init, Settling, IsOver, PreparedTags, Tags

\* A stuck file stays known.
LEMMA StuckGrows ==
  ASSUME leaked \subseteq leaked', PreparedTags \subseteq PreparedTags'
  PROVE  /\ Stuck \subseteq Stuck'
         /\ Inference \in leaked' /\ job \in PreparedTags' => job \in Stuck'
  BY DEF Stuck, Inference, File

\* Every step gives the delivery at hand one disposition, or the batch.
LEMMA NextSettling == Typed /\ Settling /\ [Next]_vars => Settling'
  <1> SUFFICES ASSUME Typed, Settling, [Next]_vars PROVE Settling'
    OBVIOUS
  <1>1. CASE UNCHANGED vars
    BY <1>1 DEF Settling, IsOver, PreparedTags, Stuck, vars, outcome
  <1>2. CASE LoopStep
    <2>1. InLoop /\ ~IsOver /\ job \in Tags /\ acked = {} /\ acked' = {}
      BY <1>2, LoopEffect DEF Typed, InLoop, IsOver, Settling
    <2>2. CASE /\ at' \in {"open", "extract", "retain"}
               /\ UNCHANGED <<job, prepared, outcome, leaked>>
      BY <2>1, <2>2 DEF Settling, IsOver, PreparedTags, Stuck, outcome
    <2>3. CASE NextJob
      <3> DEFINE P == PreparedTags
      <3>1. /\ job \notin P \cup requeue \cup dead /\ Stuck \subseteq Stuck'
            /\ \/ P' = P /\ dead' = dead \cup {job} /\ requeue' = requeue
               \/ P' = P /\ requeue' = requeue \cup {job} /\ dead' = dead
               \/ P' = P \cup {job} /\ requeue' = requeue /\ dead' = dead
               \/ P' = P \cup {job} /\ requeue' = requeue /\ dead' = dead \cup {job} /\ job \in Stuck'
        <4>1. job \notin P \cup requeue \cup dead
          BY <2>1, GatewayBatchAssumption DEF Settling, IsOver, Typed, Tags
        <4>2. \/ P' = P /\ DeadLetter
              \/ P' = P /\ Requeue
              \/ P' = P \cup {job} /\ UNCHANGED outcome
              \/ P' = P \cup {job} /\ DeadLetter /\ Inference \in leaked'
          <5>1. prepared' = prepared => P' = P
            BY DEF PreparedTags
          <5>2. ASSUME NEW kind \in {"download", "retained"}, prepared' = Append(prepared, PreparedJob(job, kind))
                PROVE  P' = P \cup {job}
            BY <2>1, <5>2, PreparedGrows
          <5>3. ~(at' \in {"open", "extract", "retain"})
            BY <2>3, NextJobTyped, <2>1
          <5> QED
            BY <1>2, <5>1, <5>2, <5>3, LoopEffect
        <4>3. Stuck \subseteq Stuck' /\ (Inference \in leaked' /\ job \in P' => job \in Stuck')
          BY <1>2, <4>2, LoopEffect, StuckGrows
        <4> QED
          BY <4>1, <4>2, <4>3 DEF DeadLetter, Requeue, outcome
      <3>2. \A j \in Tags : j < job' <=> j < job \/ j = job
        BY <2>1, <2>3 DEF NextJob, Typed, Tags
      <3>3. \A j \in Tags : j < job' <=> j \in P' \cup requeue' \cup dead'
        BY <2>1, <3>1, <3>2 DEF Settling, IsOver
      <3>4. \A j \in Tags : /\ j \in requeue' => j \notin P'
                            /\ j \in dead' /\ j \notin Stuck' => j \notin P' \cup requeue'
        BY <2>1, <3>1 DEF Settling
      <3>5. CASE ~IsOver'
        BY <2>1, <3>3, <3>4, <3>5 DEF Settling, IsOver
      <3>6. CASE IsOver'
        <4>1. prepared' = <<>> /\ \A j \in Tags : j < job'
          BY <2>1, <2>3, <3>6, NextJobTyped, GatewayBatchAssumption DEF IsOver, InLoop, Tags
        <4>2. PreparedTags' = {}
          BY <4>1, EmptySeq DEF PreparedTags
        <4> QED
          BY <2>1, <2>3, <3>3, <3>4, <3>6, <4>1, <4>2, NextJobTyped DEF Settling
      <3> QED
        BY <3>5, <3>6
    <2> QED
      BY <1>2, <2>2, <2>3, LoopEffect
  <1>3. CASE Encode \/ EncodeFails \/ Upsert \/ UpsertFails
    <2>1. /\ UNCHANGED <<job, dead, leaked, prepared>> /\ at \in {"encode", "upsert"}
          /\ PreparedTags' = PreparedTags /\ Stuck' = Stuck
      BY <1>3, BatchEffect DEF PreparedTags, Stuck
    <2>2. \A j \in Tags : j < job
      BY <2>1, GatewayBatchAssumption DEF Typed, InLoop, Tags, Settling
    <2>3. ~IsOver /\ acked = {}
      BY <2>1 DEF Settling, IsOver
    <2>4. CASE at' = "upsert" /\ UNCHANGED outcome
      BY <2>1, <2>3, <2>4 DEF Settling, IsOver, outcome
    <2>5. CASE RequeuePrepared
      BY <2>1, <2>2, <2>3, <2>5 DEF Settling, IsOver, RequeuePrepared
    <2>6. CASE at' = "cleanup" /\ acked' = acked \cup PreparedTags /\ requeue' = requeue
      BY <2>1, <2>2, <2>3, <2>6 DEF Settling, IsOver
    <2> QED
      BY <1>3, <2>4, <2>5, <2>6, BatchEffect
  <1>4. CASE Cleanup
    BY <1>4 DEF Cleanup, Settling, IsOver, outcome, Stuck, PreparedTags
  <1>5. CASE CleanupFails
    BY <1>5 DEF CleanupFails, Settling
  <1> QED
    BY <1>1, <1>2, <1>3, <1>4, <1>5 DEF Next, LoopStep

-----------------------------------------------------------------------------
(***************************************************************************)
(* Temporary files.                                                        *)
(***************************************************************************)

\* What is on the disk is known to the finally clause, belongs to the with block
\* of the job at hand, or was left behind by a failure.
Current == IF at \in {"extract", "retain"} /\ image[job] \in Large THEN {Inference} ELSE {}
DiskIsKnown == at \notin {"end", "raised"} => disk = cleanup \cup leaked \cup Current

\* The file of a copy or of a removal that failed is on no list, and the job at
\* hand has no files yet but the one it was downloaded to.
FilesAreApart ==
    /\ cleanup \cap leaked = {}
    /\ \A f \in cleanup : f.kind # "inference"
    /\ \A f \in cleanup : f.job < job \/ (f.job = job /\ f.kind = "download" /\ at # "download")
    /\ \A f \in leaked : f.job < job
    /\ at \in {"open", "extract", "retain"} => File("download", job) \in cleanup
    /\ at = "end" => disk = leaked
    /\ at = "raised" => \E f \in cleanup : disk = leaked \cup Behind(f)

\* A prepared job has its files on the list.
PreparedAreListed ==
    \A k \in 1..Len(prepared) : {prepared[k].dense_path, File("download", prepared[k].job)} \subseteq cleanup

Tidy == DiskIsKnown /\ FilesAreApart /\ PreparedAreListed

\* There are no files.
LEMMA InitTidy == Init => Tidy
  BY EmptySeq DEF Init, Tidy, DiskIsKnown, FilesAreApart, PreparedAreListed, Current

\* Files are told apart by kind and job.
LEMMA FileNames ==
  /\ \A a, b, i, j : File(a, i) = File(b, j) <=> a = b /\ i = j
  /\ \A a, i : File(a, i).kind = a /\ File(a, i).job = i
  BY DEF File

\* A job comes to the list of prepared ones with its files on the other list.
LEMMA ListGrows ==
  ASSUME Typed, Tidy, job \in Tags, NEW kind \in {"download", "retained"},
         prepared' = Append(prepared, PreparedJob(job, kind)),
         cleanup \subseteq cleanup', File("download", job) \in cleanup', File(kind, job) \in cleanup'
  PROVE  PreparedAreListed'
  <1>1. /\ Len(prepared') = Len(prepared) + 1 /\ Len(prepared) \in Nat
        /\ \A k \in 1..Len(prepared) : prepared'[k] = prepared[k]
        /\ prepared'[Len(prepared) + 1] = PreparedJob(job, kind)
    BY PreparedGrows
  <1> SUFFICES ASSUME NEW k \in 1..(Len(prepared) + 1)
               PROVE  {prepared'[k].dense_path, File("download", prepared'[k].job)} \subseteq cleanup'
    BY <1>1 DEF PreparedAreListed, File
  <1>2. CASE k = Len(prepared) + 1
    BY <1>1, <1>2 DEF PreparedJob
  <1>3. CASE k # Len(prepared) + 1
    <2>1. k \in 1..Len(prepared)
      BY <1>1, <1>3
    <2> QED
      BY <1>1, <2>1 DEF Tidy, PreparedAreListed
  <1> QED
    BY <1>2, <1>3

\* The first loop adds a file where it notes one, but for the failures.
LEMMA LoopTidy == Typed /\ Tidy /\ LoopStep => Tidy'
  <1> SUFFICES ASSUME Typed, Tidy, LoopStep PROVE Tidy'
    OBVIOUS
  <1> DEFINE down == File("download", job)
             kept == File("retained", job)
  <1>1. /\ InLoop /\ job \in Tags /\ job \in Nat /\ image' = image
        /\ cleanup \subseteq Files /\ leaked \subseteq Files /\ \A f \in Files : f.job \in Nat
    BY LoopEffect, GatewayBatchAssumption DEF Typed, Tags, Files, inputs
  <1>2. /\ down # kept /\ down # Inference /\ kept # Inference
        /\ down.kind = "download" /\ kept.kind = "retained" /\ Inference.kind = "inference"
        /\ down.job = job /\ kept.job = job /\ Inference.job = job
    BY FileNames DEF Inference
  <1>3. /\ disk = cleanup \cup leaked \cup Current /\ cleanup \cap leaked = {}
        /\ Inference \notin cleanup \cup leaked /\ kept \notin cleanup \cup leaked /\ down \notin leaked
        /\ \A f \in cleanup \cup leaked : f.job <= job
        /\ IF at = "download" THEN down \notin cleanup ELSE down \in cleanup
        /\ InferenceFile = IF image[job] \in Large THEN {Inference} ELSE {}
    BY <1>1, <1>2 DEF Tidy, DiskIsKnown, FilesAreApart, InLoop, InferenceFile, Inference
  <1>4. ASSUME NextJob, PreparedAreListed', disk' = cleanup' \cup leaked', cleanup' \cap leaked' = {},
               cleanup \subseteq cleanup', cleanup' \subseteq cleanup \cup {down, kept},
               leaked' \subseteq leaked \cup {down, kept, Inference}
        PROVE  Tidy'
    <2>1. job' = job + 1 /\ at' \in {"download", "encode", "cleanup"} /\ Current' = {}
      BY <1>1, <1>4, NextJobTyped DEF Current
    <2>2. \A f \in cleanup' \cup leaked' : f.job < job'
      BY <1>1, <1>2, <1>3, <1>4, <2>1
    <2>3. FilesAreApart'
      BY <1>2, <1>3, <1>4, <2>1, <2>2 DEF Tidy, FilesAreApart
    <2>4. DiskIsKnown'
      BY <1>4, <2>1 DEF DiskIsKnown
    <2> QED
      BY <1>4, <2>3, <2>4 DEF Tidy
  <1>5. ASSUME NEW files \in SUBSET {down, Inference}, Fails(files), UNCHANGED cleanup,
               files \cap cleanup = {}, Current \subseteq files
        PROVE  Tidy'
    <2>1. /\ NextJob /\ prepared' = prepared
          /\ \/ disk' = disk \ files /\ leaked' = leaked
             \/ disk' = disk \cup files /\ leaked' = leaked \cup files
      BY <1>5, FailsEffect
    <2>2. PreparedAreListed' /\ files \cap leaked = {}
      BY <1>3, <1>5, <2>1 DEF Tidy, PreparedAreListed
    <2>3. disk' = cleanup' \cup leaked' /\ cleanup' \cap leaked' = {}
      BY <1>3, <1>5, <2>1, <2>2
    <2>4. cleanup' \subseteq cleanup \cup {down, kept} /\ leaked' \subseteq leaked \cup {down, kept, Inference}
      BY <1>5, <2>1
    <2> QED
      BY <1>4, <1>5, <2>1, <2>2, <2>3, <2>4
  <1>6. CASE Download
    <2>1. CASE at' = "open" /\ job' = job
      <3>1. /\ at = "download" /\ disk' = disk \cup {down} /\ cleanup' = cleanup \cup {down}
            /\ leaked' = leaked /\ prepared' = prepared /\ Current = {} /\ Current' = {}
        BY <1>1, <1>6, <2>1 DEF Download, Fails, NextJob, Current
      <3>2. FilesAreApart'
        BY <1>2, <1>3, <2>1, <3>1 DEF Tidy, FilesAreApart, File
      <3>3. DiskIsKnown' /\ PreparedAreListed'
        BY <1>3, <2>1, <3>1 DEF Tidy, DiskIsKnown, PreparedAreListed
      <3> QED
        BY <3>2, <3>3 DEF Tidy
    <2>2. CASE Fails({down}) /\ UNCHANGED cleanup
      <3>1. Current = {} /\ at = "download"
        BY <1>6 DEF Download, Current
      <3> QED
        BY <1>3, <1>5, <2>2, <3>1
    <2> QED
      BY <1>6, <2>1, <2>2 DEF Download
  <1>7. CASE Open
    <2>1. CASE at' = "extract" /\ job' = job
      <3>1. /\ at = "open" /\ disk' = disk \cup (IF image[job] \in Large THEN {Inference} ELSE {})
            /\ UNCHANGED <<cleanup, leaked, prepared>> /\ Current = {}
            /\ Current' = (IF image[job] \in Large THEN {Inference} ELSE {})
        <4>1. /\ at = "open" /\ disk' = disk \cup InferenceFile
              /\ UNCHANGED <<cleanup, leaked, prepared>>
          BY <1>1, <1>7, <2>1, FailsEffect, NextJobTyped DEF Open
        <4> QED
          BY <1>1, <1>3, <2>1, <4>1 DEF Current, Inference
      <3>2. FilesAreApart'
        BY <2>1, <3>1 DEF Tidy, FilesAreApart, File
      <3>3. DiskIsKnown' /\ PreparedAreListed'
        BY <1>3, <2>1, <3>1 DEF Tidy, DiskIsKnown, PreparedAreListed
      <3> QED
        BY <3>2, <3>3 DEF Tidy
    <2>2. CASE Fails(InferenceFile) /\ UNCHANGED cleanup
      <3>1. Current = {}
        BY <1>7 DEF Open, Current
      <3> QED
        BY <1>3, <1>5, <2>2, <3>1
    <2> QED
      BY <1>7, <2>1, <2>2 DEF Open
  <1>8. CASE Extract
    <2>1. CASE at' = "retain" /\ UNCHANGED <<job, disk, prepared>>
      <3>1. at = "extract" /\ UNCHANGED <<cleanup, leaked>> /\ Current' = Current
        BY <1>1, <1>8, <2>1, FailsEffect, NextJobTyped DEF Extract, Current, Inference
      <3>2. FilesAreApart'
        BY <2>1, <3>1 DEF Tidy, FilesAreApart, File
      <3>3. DiskIsKnown' /\ PreparedAreListed'
        BY <1>3, <2>1, <3>1 DEF Tidy, DiskIsKnown, PreparedAreListed
      <3> QED
        BY <3>2, <3>3 DEF Tidy
    <2>2. CASE NextJob /\ disk' = disk \ InferenceFile /\ UNCHANGED <<cleanup, prepared, leaked>>
      <3>1. disk' = cleanup' \cup leaked' /\ PreparedAreListed'
        BY <1>3, <1>8, <2>2 DEF Extract, Current, Tidy, PreparedAreListed
      <3>2. /\ cleanup' \cap leaked' = {} /\ cleanup \subseteq cleanup'
            /\ cleanup' \subseteq cleanup \cup {down, kept} /\ leaked' \subseteq leaked \cup {down, kept, Inference}
        BY <1>3, <2>2
      <3> QED
        BY <1>4, <2>2, <3>1, <3>2
    <2>3. CASE Fails(InferenceFile) /\ UNCHANGED cleanup
      <3>1. Current = InferenceFile
        BY <1>3, <1>8 DEF Extract, Current
      <3> QED
        BY <1>3, <1>5, <2>3, <3>1
    <2> QED
      BY <1>8, <2>1, <2>2, <2>3 DEF Extract
  <1>9. CASE Retain
    <2>1. PICK kind \in {"download", "retained"} :
             /\ disk' = (disk \cup {File(kind, job)}) \ {Inference}
             /\ cleanup' = cleanup \cup {File(kind, job)} /\ leaked' = leaked
             /\ prepared' = Append(prepared, PreparedJob(job, kind))
             /\ NextJob /\ at = "retain"
      BY <1>9 DEF Retain, PreparedJob, Inference
    <2>2. PreparedAreListed'
      BY <1>1, <1>3, <2>1, ListGrows
    <2>3. disk' = cleanup' \cup leaked'
      BY <1>2, <1>3, <2>1 DEF Current
    <2>4. /\ cleanup' \cap leaked' = {} /\ cleanup \subseteq cleanup'
          /\ cleanup' \subseteq cleanup \cup {down, kept} /\ leaked' \subseteq leaked \cup {down, kept, Inference}
      BY <1>3, <2>1
    <2> QED
      BY <1>4, <2>1, <2>2, <2>3, <2>4
  <1>10. CASE CopyFails
    <2>1. PICK left \in {{}, InferenceFile} :
             /\ disk' = ((disk \ InferenceFile) \cup left) \cup {kept}
             /\ leaked' = (leaked \cup left) \cup {kept}
             /\ UNCHANGED <<cleanup, prepared>> /\ NextJob /\ at = "retain"
      BY <1>10 DEF CopyFails
    <2>2. PreparedAreListed' /\ disk' = cleanup' \cup leaked'
      BY <1>2, <1>3, <2>1 DEF Current, Tidy, PreparedAreListed
    <2>3. /\ cleanup' \cap leaked' = {} /\ cleanup \subseteq cleanup'
          /\ cleanup' \subseteq cleanup \cup {down, kept} /\ leaked' \subseteq leaked \cup {down, kept, Inference}
      BY <1>3, <2>1
    <2> QED
      BY <1>4, <2>1, <2>2, <2>3
  <1>11. CASE UnlinkFails
    <2>1. /\ disk' = disk \cup {kept} /\ leaked' = leaked \cup {Inference}
          /\ cleanup' = cleanup \cup {kept} /\ NextJob /\ at = "retain" /\ image[job] \in Large
          /\ prepared' = Append(prepared, PreparedJob(job, "retained"))
      BY <1>11 DEF UnlinkFails, Inference, PreparedJob
    <2>2. PreparedAreListed'
      BY <1>1, <1>3, <2>1, ListGrows
    <2>3. disk' = cleanup' \cup leaked'
      BY <1>3, <2>1 DEF Current
    <2>4. /\ cleanup' \cap leaked' = {} /\ cleanup \subseteq cleanup'
          /\ cleanup' \subseteq cleanup \cup {down, kept} /\ leaked' \subseteq leaked \cup {down, kept, Inference}
      BY <1>2, <1>3, <2>1
    <2> QED
      BY <1>4, <2>1, <2>2, <2>3, <2>4
  <1> QED
    BY <1>6, <1>7, <1>8, <1>9, <1>10, <1>11 DEF LoopStep

\* The batch touches no file before the finally clause.
LEMMA NextTidy == Typed /\ Tidy /\ [Next]_vars => Tidy'
  <1> SUFFICES ASSUME Typed, Tidy, [Next]_vars PROVE Tidy'
    OBVIOUS
  <1> USE DEF Tidy, DiskIsKnown, FilesAreApart, PreparedAreListed, Current, File, Inference
  <1>1. CASE UNCHANGED vars
    BY <1>1 DEF vars, inputs, Behind
  <1>2. CASE Encode \/ EncodeFails \/ Upsert \/ UpsertFails
    <2>1. /\ UNCHANGED <<image, job, disk, cleanup, prepared, leaked>> /\ at \in {"encode", "upsert"}
          /\ at' \in {"upsert", "cleanup"}
      BY <1>2, BatchEffect DEF RequeuePrepared, inputs
    <2> QED
      BY <2>1
  <1>3. CASE Cleanup
    BY <1>3 DEF Cleanup, inputs
  <1>4. CASE CleanupFails
    <2>1. disk = cleanup \cup leaked /\ cleanup \cap leaked = {}
      BY <1>4 DEF CleanupFails
    <2>2. PICK f \in cleanup : disk' = disk \ (cleanup \ Behind(f))
      BY <1>4 DEF CleanupFails
    <2>3. disk' = leaked' \cup Behind(f)' /\ UNCHANGED <<job, cleanup, prepared, leaked>> /\ at' = "raised"
      BY <1>4, <2>1, <2>2 DEF CleanupFails, Behind
    <2> QED
      BY <1>4, <2>3 DEF CleanupFails
  <1> QED
    BY <1>1, <1>2, <1>3, <1>4, LoopTidy DEF Next, LoopStep

-----------------------------------------------------------------------------
(***************************************************************************)
(* What the tracker is told.                                               *)
(***************************************************************************)
JobsTold(status) == {e.job : e \in {x \in Range(events) : x.status = status}}

\* The events say which deliveries were acked and which were dead-lettered.
Told == acked = JobsTold("indexed") /\ dead = JobsTold("failed")

\* Nothing was said.
LEMMA InitTold == Init => Told
  BY DEF Init, Told, JobsTold, Range

\* One more event is that of one more job.
LEMMA TellOne ==
  ASSUME Typed, job \in Tags,
         events' = Append(events, [job |-> job, status |-> "failed"])
  PROVE  /\ JobsTold("failed")' = JobsTold("failed") \cup {job}
         /\ JobsTold("indexed")' = JobsTold("indexed")
  <1> DEFINE e == [job |-> job, status |-> "failed"]
  <1>1. events \in Seq(Messages) /\ e \in Messages
    BY DEF Typed, Messages
  <1>2. events' = events \o <<e>> /\ <<e>> \in Seq(Messages)
    BY <1>1, AppendIsConcat
  <1>3. Range(events') = Range(events) \cup Range(<<e>>)
    BY <1>1, <1>2, RangeConcatenation
  <1>4. Range(<<e>>) = {e}
    BY DEF Range
  <1> QED
    BY <1>3, <1>4 DEF JobsTold

\* The prepared jobs are told together.
LEMMA TellAll ==
  ASSUME Typed,
         events' = events \o [k \in DOMAIN prepared |-> [job |-> prepared[k].job, status |-> "indexed"]]
  PROVE  /\ JobsTold("failed")' = JobsTold("failed")
         /\ JobsTold("indexed")' = JobsTold("indexed") \cup PreparedTags
  <1> DEFINE told == [k \in DOMAIN prepared |-> [job |-> prepared[k].job, status |-> "indexed"]]
  <1>1. events \in Seq(Messages) /\ told \in Seq(Messages)
    <2>1. told \in Seq(Messages)
      BY PreparedType DEF Messages
    <2> QED
      BY <2>1 DEF Typed
  <1>2. Range(events') = Range(events) \cup Range(told)
    BY <1>1, RangeConcatenation
  <1>3. Range(told) = {[job |-> j, status |-> "indexed"] : j \in PreparedTags}
    BY DEF Range, PreparedTags
  <1> DEFINE new == {[job |-> j, status |-> "indexed"] : j \in PreparedTags}
  <1>4. \A x : x \in Range(events') <=> x \in Range(events) \/ x \in new
    BY <1>2, <1>3
  <1>5. /\ \A x \in new : x.status = "indexed" /\ x.job \in PreparedTags
        /\ \A j \in PreparedTags : \E x \in new : x.status = "indexed" /\ x.job = j
    <2>1. ASSUME NEW j \in PreparedTags PROVE \E x \in new : x.status = "indexed" /\ x.job = j
      <3>1. [job |-> j, status |-> "indexed"] \in new
        OBVIOUS
      <3> HIDE DEF new
      <3> QED
        BY <3>1
    <2> QED
      BY <2>1
  <1> HIDE DEF new
  <1> QED
    BY <1>4, <1>5 DEF JobsTold

\* Every step says what it does.
LEMMA NextTold == Typed /\ Told /\ [Next]_vars => Told'
  <1> SUFFICES ASSUME Typed, Told, [Next]_vars PROVE Told'
    OBVIOUS
  <1>1. ASSUME UNCHANGED events, acked' = acked, dead' = dead PROVE Told'
    BY <1>1 DEF Told, JobsTold
  <1>2. CASE UNCHANGED vars
    BY <1>1, <1>2 DEF vars, outcome
  <1>3. CASE LoopStep
    <2>1. job \in Tags /\ acked' = acked
      BY <1>3, LoopEffect DEF Typed
    <2>2. CASE DeadLetter
      BY <2>1, <2>2, TellOne DEF DeadLetter, Told
    <2>3. CASE events' = events /\ dead' = dead
      BY <1>1, <2>1, <2>3
    <2> QED
      BY <1>3, <2>2, <2>3, LoopEffect DEF Requeue, outcome
  <1>4. CASE Encode \/ EncodeFails \/ Upsert \/ UpsertFails
    <2>1. CASE /\ acked' = acked \cup PreparedTags /\ dead' = dead
               /\ events' = events \o
                     [k \in DOMAIN prepared |-> [job |-> prepared[k].job, status |-> "indexed"]]
      BY <2>1, TellAll DEF Told
    <2> QED
      BY <1>1, <1>4, <2>1, BatchEffect DEF RequeuePrepared, outcome
  <1>5. CASE Cleanup
    BY <1>1, <1>5 DEF Cleanup, outcome
  <1>6. CASE CleanupFails
    BY <1>6 DEF CleanupFails, Told, JobsTold, Range
  <1> QED
    BY <1>2, <1>3, <1>4, <1>5, <1>6 DEF Next, LoopStep

-----------------------------------------------------------------------------
(***************************************************************************)
(* The index.                                                              *)
(***************************************************************************)

\* The document of an image, built alone.
Own(i) == DocumentOf(i, i, i, ocr[i], caption[i])

\* When the batch goes to the index, every prepared job has its own document.
Built == at = "upsert" =>
    /\ documents = [k \in 1..Len(prepared) |-> documents[k]]
    /\ \A k \in 1..Len(prepared) : documents[k] = Own(image[prepared[k].job])

\* The index has own documents, and one for each acked delivery.
Indexed ==
    /\ OnlyOwnDocuments
    /\ \A j \in acked : \E d \in index : d.id = image[j]

\* A service that answers with as many vectors as it was asked for answers with
\* those vectors; one that answers with more, with those first.
LEMMA AnswerFacts ==
  ASSUME NEW m \in Nat, NEW vectors, vectors = [k \in 1..m |-> vectors[k]],
         NEW answer \in Answers(vectors)
  PROVE  /\ Len(vectors) = m
         /\ Len(answer) = m => answer = vectors
         /\ Len(answer) >= m => \A k \in 1..m : answer[k] = vectors[k]
  <1> DEFINE S == {vectors[k] : k \in 1..m}
  <1>1. vectors \in Seq(S) /\ Len(vectors) = m /\ DOMAIN vectors = 1..m
    OBVIOUS
  <1> HIDE DEF S
  <1>2. CASE answer = vectors
    BY <1>1, <1>2
  <1>3. CASE vectors # <<>> /\ answer = SubSeq(vectors, 1, Len(vectors) - 1)
    <2>1. m \in Nat \ {0}
      BY <1>1, <1>3, EmptySeq
    <2>2. Len(answer) = m - 1
      BY <1>1, <1>3, <2>1
    <2> QED
      BY <1>1, <2>1, <2>2
  <1>4. CASE vectors # <<>> /\ answer = Append(vectors, vectors[1])
    <2>1. vectors[1] \in S
      BY <1>1, <1>4, EmptySeq, ElementOfSeq
    <2>2. Len(answer) = m + 1 /\ \A k \in 1..m : answer[k] = vectors[k]
      BY <1>1, <1>4, <2>1, AppendProperties
    <2> QED
      BY <1>1, <2>2
  <1> QED
    BY <1>2, <1>3, <1>4 DEF Answers

\* What the models read in an image is a text.
LEMMA ReadingsAreTexts ==
  ASSUME Typed, NEW i \in Images
  PROVE  /\ ocr[i] \in Seq({White, Line(i, "ocr")})
         /\ caption[i] \in Seq({White, Line(i, "caption")})
  <1>1. ocr[i] \in {<<White>>, <<White, Line(i, "ocr")>>}
    BY DEF Typed, Readings
  <1>2. caption[i] \in {<<White>>, <<White, Line(i, "caption")>>}
    BY DEF Typed, Readings
  <1>3. ASSUME NEW a, NEW b PROVE <<a>> \in Seq({a, b}) /\ <<a, b>> \in Seq({a, b})
    OBVIOUS
  <1>4. /\ <<White>> \in Seq({White, Line(i, "ocr")})
        /\ <<White, Line(i, "ocr")>> \in Seq({White, Line(i, "ocr")})
    BY <1>3
  <1>5. /\ <<White>> \in Seq({White, Line(i, "caption")})
        /\ <<White, Line(i, "caption")>> \in Seq({White, Line(i, "caption")})
    BY <1>3
  <1> QED
    BY <1>1, <1>2, <1>4, <1>5

\* The batch is encoded in the order of the prepared jobs.
LEMMA ItemFacts ==
  ASSUME Typed
  PROVE  /\ DOMAIN Items = 1..Len(prepared) /\ Len(prepared) \in Nat
         /\ \A k \in 1..Len(prepared) :
               LET i == image[prepared[k].job]
               IN  /\ i \in Images /\ Items[k].id = i /\ Items[k].path = i /\ Items[k].picture = i
                   /\ Items[k].extracted = Extracted(ocr[i], caption[i])
  BY PreparedType DEF Items, Typed

\* Encode builds own documents, or gives up.
LEMMA EncodeBuilds ==
  ASSUME Typed, Encode, at' = "upsert"
  PROVE  Built'
  <1> DEFINE m == Len(prepared)
             D == EncodeImages(Pictures(Items))
             F == EncodeTexts(FlorenceTexts(Items))
             O == EncodeTexts(OcrTexts(Items))
  <1>1. PICK dense \in Answers(D), florence \in Answers(F), sparse \in Answers(O) :
           /\ Len(dense) = m /\ Len(florence) = m /\ Len(sparse) >= Len(OcrTexts(Items))
           /\ documents' = Zipped(Items, dense, florence, sparse)
    BY DEF Encode, RequeuePrepared
  <1>2. m \in Nat /\ DOMAIN Items = 1..m
    BY ItemFacts
  <1>3. D = [k \in 1..m |-> D[k]] /\ F = [k \in 1..m |-> F[k]]
    BY <1>2 DEF EncodeImages, Pictures, EncodeTexts, FlorenceTexts
  <1>4. dense = D /\ florence = F
    <2> HIDE DEF m, D, F
    <2> QED
      BY <1>1, <1>2, <1>3, AnswerFacts
  <1>5. \A n \in 1..Len(OcrTexts(Items)) : sparse[n] = EncodeText(OcrTexts(Items)[n])
    <2> DEFINE c == Cardinality(WithOcr(Items))
    <2>1. c \in Nat /\ OcrTexts(Items) = [n \in 1..c |-> OcrTexts(Items)[n]]
      <3>1. WithOcr(Items) \in SUBSET (1..m)
        BY <1>2 DEF WithOcr
      <3>2. c \in Nat
        BY <1>2, <3>1, Positions
      <3> QED
        BY <3>2 DEF OcrTexts, Selected
    <2>2. Len(OcrTexts(Items)) = c /\ DOMAIN OcrTexts(Items) = 1..c
      <3> DEFINE T == OcrTexts(Items)
      <3> HIDE DEF c, T
      <3>1. T = [n \in 1..c |-> T[n]] => Len(T) = c /\ DOMAIN T = 1..c
        BY <2>1
      <3> USE DEF T
      <3> QED
        BY <2>1, <3>1
    <2>3. O = [n \in 1..c |-> O[n]] /\ \A n \in 1..c : O[n] = EncodeText(OcrTexts(Items)[n])
      BY <2>2 DEF EncodeTexts
    <2>4. \A n \in 1..c : sparse[n] = O[n]
      <3> HIDE DEF c, O
      <3> QED
        BY <1>1, <2>1, <2>2, <2>3, AnswerFacts
    <2> QED
      BY <2>2, <2>3, <2>4
  <1>6. AreVectorsOf(Items, dense, florence, sparse)
    BY <1>4, <1>5 DEF AreVectorsOf
  <1>7. UNCHANGED <<prepared, image, ocr, caption>>
    BY DEF Encode, inputs
  <1>8. DOMAIN documents' = 1..m
    BY <1>1, <1>2, <1>4 DEF Zipped, EncodeImages, Pictures, EncodeTexts, FlorenceTexts
  <1>9. ASSUME NEW k \in 1..m PROVE documents'[k] = Own(image[prepared[k].job])
    <2> DEFINE i == image[prepared[k].job]
    <2>1. /\ i \in Images /\ Items[k].id = i /\ Items[k].path = i /\ Items[k].picture = i
          /\ Items[k].extracted = Extracted(ocr[i], caption[i])
      BY ItemFacts
    <2>2. ocr[i] \in Seq({White, Line(i, "ocr")}) /\ caption[i] \in Seq({White, Line(i, "caption")})
      BY <2>1, ReadingsAreTexts
    <2> HIDE DEF i, m
    <2>3. Zipped(Items, dense, florence, sparse)[k] =
             DocumentOf(Items[k].id, Items[k].path, Items[k].picture, ocr[i], caption[i])
      BY <1>2, <1>6, <2>1, <2>2, BatchedAsAlone
    <2> QED
      BY <1>1, <2>1, <2>3 DEF Own, i
  <1>10. documents' = [k \in 1..m |-> documents'[k]]
    BY <1>1, <1>8 DEF Zipped
  <1> QED
    BY <1>7, <1>9, <1>10 DEF Built, Own

\* A document has the id it was built with.
LEMMA OwnId == \A i : Own(i).id = i
  BY DEF Own, DocumentOf, BuildImageDocument, ImageDocument

\* The first job is not at its upsert, and the index is empty.
LEMMA InitIndexed == Init => Built /\ Indexed
  BY DEF Init, Built, Indexed, OnlyOwnDocuments

\* No other step reaches the upsert.
LEMMA NextBuilt == Typed /\ Built /\ [Next]_vars => Built'
  <1> SUFFICES ASSUME Typed, Built, [Next]_vars PROVE Built'
    OBVIOUS
  <1>1. CASE UNCHANGED vars
    BY <1>1 DEF Built, Own, vars, inputs
  <1>2. CASE LoopStep
    <2>1. at' # "upsert"
      BY <1>2, LoopEffect, NextJobTyped
    <2> QED
      BY <2>1 DEF Built
  <1>3. CASE Encode
    BY <1>3, EncodeBuilds DEF Built
  <1>4. CASE EncodeFails \/ Upsert \/ UpsertFails \/ Cleanup \/ CleanupFails
    <2>1. at' # "upsert"
      BY <1>4 DEF EncodeFails, Upsert, UpsertFails, Cleanup, CleanupFails, RequeuePrepared
    <2> QED
      BY <2>1 DEF Built
  <1> QED
    BY <1>1, <1>2, <1>3, <1>4 DEF Next, LoopStep

\* An upsert of own documents leaves own documents, those of the batch too.
LEMMA PutIndexed ==
  ASSUME Typed, Built, Indexed, at = "upsert", index' = Put(index, documents), UNCHANGED inputs
  PROVE  /\ OnlyOwnDocuments'
         /\ \A j \in acked \cup PreparedTags : \E d \in index' : d.id = image[j]
  <1> DEFINE m == Len(prepared)
  <1>1. /\ m \in Nat /\ documents = [k \in 1..m |-> documents[k]]
        /\ \A k \in 1..m : documents[k] = Own(image[prepared[k].job])
    BY PreparedType DEF Built
  <1>2. DOMAIN documents = 1..m /\ documents \in Seq({documents[k] : k \in 1..m})
    <2> HIDE DEF m
    <2> QED
      BY <1>1
  <1>3. /\ \A d \in Put(index, documents) : d \in index \/ \E k \in 1..m : d = documents[k]
        /\ \A d \in index : \E e \in Put(index, documents) : e.id = d.id
        /\ \A k \in 1..m : \E e \in Put(index, documents) : e.id = documents[k].id
    BY <1>2, PutFacts
  <1>4. ASSUME NEW d \in index' PROVE d = Own(d.id)
    <2>1. CASE d \in index
      BY <2>1 DEF Indexed, OnlyOwnDocuments, Own
    <2>2. CASE \E k \in 1..m : d = documents[k]
      BY <1>1, <2>2, OwnId
    <2> QED
      BY <1>3, <1>4, <2>1, <2>2
  <1>5. OnlyOwnDocuments'
    BY <1>4 DEF OnlyOwnDocuments, Own, inputs
  <1>6. ASSUME NEW j \in acked PROVE \E d \in index' : d.id = image[j]
    BY <1>3 DEF Indexed
  <1>7. ASSUME NEW j \in PreparedTags PROVE \E d \in index' : d.id = image[j]
    <2>1. PICK k \in 1..m : prepared[k].job = j
      BY PreparedType DEF PreparedTags
    <2>2. documents[k].id = image[j]
      BY <1>1, <2>1, OwnId
    <2> QED
      BY <1>3, <2>2
  <1> QED
    BY <1>5, <1>6, <1>7

\* Every step leaves the index with own documents, and acks what is in it.
LEMMA NextIndexed == Typed /\ Built /\ Indexed /\ [Next]_vars => Indexed'
  <1> SUFFICES ASSUME Typed, Built, Indexed, [Next]_vars PROVE Indexed'
    OBVIOUS
  <1>1. ASSUME UNCHANGED <<inputs, index, acked>> PROVE Indexed'
    BY <1>1 DEF Indexed, OnlyOwnDocuments, inputs
  <1>2. CASE UNCHANGED vars
    BY <1>1, <1>2 DEF vars, outcome
  <1>3. CASE LoopStep
    BY <1>1, <1>3, LoopEffect
  <1>4. CASE Encode \/ EncodeFails \/ Cleanup
    BY <1>1, <1>4 DEF Encode, EncodeFails, Cleanup, RequeuePrepared, outcome
  <1>5. CASE Upsert
    <2>1. /\ at = "upsert" /\ index' = Put(index, documents) /\ UNCHANGED inputs
          /\ acked' = acked \cup PreparedTags
      BY <1>5 DEF Upsert
    <2> QED
      BY <2>1, PutIndexed DEF Indexed, inputs
  <1>6. CASE UpsertFails
    <2>1. at = "upsert" /\ UNCHANGED inputs /\ acked' = acked
      BY <1>6 DEF UpsertFails, RequeuePrepared
    <2>2. CASE index' = Put(index, documents)
      BY <2>1, <2>2, PutIndexed DEF Indexed, inputs
    <2>3. CASE index' = index
      BY <1>1, <2>1, <2>3
    <2> QED
      BY <1>6, <2>2, <2>3 DEF UpsertFails
  <1>7. CASE CleanupFails
    BY <1>7 DEF CleanupFails, Indexed, OnlyOwnDocuments, inputs
  <1> QED
    BY <1>2, <1>3, <1>4, <1>5, <1>6, <1>7 DEF Next, LoopStep

-----------------------------------------------------------------------------
(***************************************************************************)
(* The theorems.                                                           *)
(***************************************************************************)
IInv == Typed /\ Settling /\ Tidy /\ Told /\ Built /\ Indexed

\* The invariant holds of every batch.
THEOREM SpecIInv == Spec => []IInv
  <1>1. Init => IInv
    BY InitTyped, InitSettling, InitTidy, InitTold, InitIndexed DEF IInv
  <1>2. IInv /\ [Next]_vars => IInv'
    BY NextTyped, NextSettling, NextTidy, NextTold, NextBuilt, NextIndexed DEF IInv
  <1> QED
    BY <1>1, <1>2, PTL DEF Spec

\* A call of process_jobs that returns gives every delivery of the batch one
\* disposition; one that raises could not remove a file, and gives none.
THEOREM SpecSettledOnce == Spec => []SettledOnce
  <1>1. ASSUME IInv, at = "raised" PROVE cleanup \cap disk # {}
    <2>1. PICK f \in cleanup : disk = leaked \cup Behind(f)
      BY <1>1 DEF IInv, Tidy, FilesAreApart
    <2>2. f \in disk
      BY <2>1 DEF Behind
    <2> QED
      BY <2>2
  <1>2. IInv => SettledOnce
    BY <1>1 DEF IInv, Settling, SettledOnce, IsOver
  <1> QED
    BY <1>2, SpecIInv, PTL

\* The documents a batch puts into the index are those of single images.
THEOREM SpecOnlyOwnDocuments == Spec => []OnlyOwnDocuments
  <1>1. IInv => OnlyOwnDocuments
    BY DEF IInv, Indexed
  <1> QED
    BY <1>1, SpecIInv, PTL

\* Whoever is acked is in the index, and the tracker is told the truth.
THEOREM SpecAckedIsIndexed == Spec => []AckedIsIndexed
  <1>1. IInv => AckedIsIndexed
    BY DEF IInv, Indexed, Told, JobsTold, AckedIsIndexed
  <1> QED
    BY <1>1, SpecIInv, PTL

\* The files of the prepared jobs outlive the loop.
THEOREM SpecPreparedFilesExist == Spec => []PreparedFilesExist
  <1>1. ASSUME IInv, at \notin {"end", "raised"}, NEW p \in Range(prepared)
        PROVE  {p.dense_path, File("download", p.job)} \subseteq disk
    <2>1. PICK k \in 1..Len(prepared) : p = prepared[k]
      BY <1>1, PreparedType DEF IInv, Range
    <2> QED
      BY <1>1, <2>1 DEF IInv, Tidy, DiskIsKnown, PreparedAreListed
  <1>2. IInv => PreparedFilesExist
    BY <1>1 DEF PreparedFilesExist
  <1> QED
    BY <1>2, SpecIInv, PTL

\* The finally clause removes every file that could be removed before, or leaves
\* the one at which it raises and those behind it.
THEOREM SpecNoFileOutlivesTheCall == Spec => []NoFileOutlivesTheCall
  <1>1. IInv => NoFileOutlivesTheCall
    BY DEF IInv, Tidy, FilesAreApart, NoFileOutlivesTheCall
  <1> QED
    BY <1>1, SpecIInv, PTL
===============================================================================
