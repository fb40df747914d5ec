------------------------- MODULE LocalIngestionProofs -------------------------
(***************************************************************************)
(* Proofs about LocalIngestion, for directories of any size, any links     *)
(* between two paths, any texts that the models read, any batch size, and  *)
(* any number of failures and of files that are deleted meanwhile.         *)
(***************************************************************************)
EXTENDS LocalIngestion, DocumentsProofs

\* What the accumulator keeps of an image.
Entry(p) ==
    [id |-> target[p], path |-> p, picture |-> target[p],
     extracted |-> Extracted(ocr[target[p]], caption[target[p]])]
Entries == {Entry(p) : p \in Paths}
OwnDocuments == {OwnDocument(p) : p \in Paths}

\* Types; the accumulator has entries of images of the directory, and what it
\* was flushed to and what is indexed are their own documents.
Typed ==
    /\ present \subseteq Paths
    /\ target \in [Paths -> Paths] /\ ocr \in Readings("ocr") /\ caption \in Readings("caption")
    /\ at \in {"off", "loop", "upsert", "print", "done", "invalid", "error"}
    /\ pos \in Nat
    /\ pending \in Seq(Entries) /\ batch \in Seq(OwnDocuments) /\ index \subseteq OwnDocuments

\* The batch is that of the flush at hand, and is in the index when it is
\* reported.
Kept ==
    /\ at = "loop" => batch = <<>>
    /\ at = "print" => \A i \in DOMAIN batch : Indexed(batch[i].path)
    /\ NoImageIsSkipped

IInv == Typed /\ Kept

-----------------------------------------------------------------------------
(***************************************************************************)
(* Entries and documents.                                                  *)
(***************************************************************************)

\* A document has the path it was built for and the number of its file.
LEMMA OwnFields == \A p : OwnDocument(p).path = p /\ OwnDocument(p).id = target[p]
  BY DEF OwnDocument, DocumentOf, BuildImageDocument, ImageDocument

\* The names and the texts of images stay.
LEMMA SameImages ==
  ASSUME UNCHANGED inputs
  PROVE  Entries' = Entries /\ OwnDocuments' = OwnDocuments
  BY DEF inputs, Entries, Entry, OwnDocuments, OwnDocument

\* What the models read in a file is a text.
LEMMA ReadingsAreTexts ==
  ASSUME Typed, NEW f \in Paths
  PROVE  /\ ocr[f] \in Seq({White, Line(f, "ocr")})
         /\ caption[f] \in Seq({White, Line(f, "caption")})
  <1>1. ocr[f] \in {<<White>>, <<White, Line(f, "ocr")>>}
    BY DEF Typed, Readings
  <1>2. caption[f] \in {<<White>>, <<White, Line(f, "caption")>>}
    BY DEF Typed, Readings
  <1>3. ASSUME NEW a, NEW b PROVE <<a>> \in Seq({a, b}) /\ <<a, b>> \in Seq({a, b})
    OBVIOUS
  <1>4. /\ <<White>> \in Seq({White, Line(f, "ocr")})
        /\ <<White, Line(f, "ocr")>> \in Seq({White, Line(f, "ocr")})
    BY <1>3
  <1>5. /\ <<White>> \in Seq({White, Line(f, "caption")})
        /\ <<White, Line(f, "caption")>> \in Seq({White, Line(f, "caption")})
    BY <1>3
  <1> QED
    BY <1>1, <1>2, <1>4, <1>5

\* flush returns the own document of every pending image, in their order.
LEMMA FlushBuilds ==
  ASSUME Typed,
         batch' = Zipped(pending, EncodeImages(Pictures(pending)),
                         EncodeTexts(FlorenceTexts(pending)), EncodeTexts(OcrTexts(pending)))
  PROVE  /\ batch' \in Seq(OwnDocuments) /\ DOMAIN batch' = DOMAIN pending
         /\ \A k \in DOMAIN pending : batch'[k].path = pending[k].path
  <1> DEFINE m == Len(pending)
             D == EncodeImages(Pictures(pending))
             F == EncodeTexts(FlorenceTexts(pending))
             O == EncodeTexts(OcrTexts(pending))
  <1>1. m \in Nat /\ DOMAIN pending = 1..m
    BY LenProperties DEF Typed
  <1>2. \A n \in 1..Len(OcrTexts(pending)) : O[n] = EncodeText(OcrTexts(pending)[n])
    <2> DEFINE c == Cardinality(WithOcr(pending))
    <2>1. WithOcr(pending) \in SUBSET (1..m)
      BY <1>1 DEF WithOcr
    <2>2. c \in Nat
      BY <1>1, <2>1, Positions
    <2>3. OcrTexts(pending) = [n \in 1..c |-> OcrTexts(pending)[n]]
      BY <2>2 DEF OcrTexts, Selected
    <2>4. DOMAIN OcrTexts(pending) = 1..c
      BY <2>3
    <2>5. Len(OcrTexts(pending)) = c
      BY <2>2, <2>4
    <2> QED
      BY <2>4, <2>5 DEF EncodeTexts
  <1>3. AreVectorsOf(pending, D, F, O)
    BY <1>2 DEF AreVectorsOf
  <1>4. DOMAIN batch' = 1..m /\ batch' = [k \in 1..m |-> batch'[k]]
    BY <1>1 DEF Zipped, EncodeImages, Pictures, EncodeTexts, FlorenceTexts
  <1>5. ASSUME NEW k \in 1..m
        PROVE  batch'[k] \in OwnDocuments /\ batch'[k].path = pending[k].path
    <2>1. PICK p \in Paths : pending[k] = Entry(p)
      <3>1. pending[k] \in Entries
        BY ElementOfSeq DEF Typed
      <3> QED
        BY <3>1 DEF Entries
    <2> DEFINE f == target[p]
    <2>2. /\ f \in Paths /\ pending[k].id = f /\ pending[k].path = p /\ pending[k].picture = f
          /\ pending[k].extracted = Extracted(ocr[f], caption[f])
      BY <2>1 DEF Typed, Entry
    <2>3. ocr[f] \in Seq({White, Line(f, "ocr")}) /\ caption[f] \in Seq({White, Line(f, "caption")})
      BY <2>2, ReadingsAreTexts
    <2> HIDE DEF f, m, D, F, O
    <2>4. Zipped(pending, D, F, O)[k] =
             DocumentOf(pending[k].id, pending[k].path, pending[k].picture, ocr[f], caption[f])
      BY <1>1, <1>3, <2>2, <2>3, BatchedAsAlone
    <2> USE DEF f, m, D, F, O
    <2>5. batch'[k] = OwnDocument(p)
      BY <2>2, <2>4 DEF OwnDocument
    <2> QED
      BY <2>2, <2>5, OwnFields DEF OwnDocuments
  <1>6. batch' \in Seq(OwnDocuments)
    <2> HIDE DEF m
    <2> QED
      BY <1>1, <1>4, <1>5
  <1> QED
    BY <1>1, <1>4, <1>5, <1>6

\* An upsert of own documents leaves own documents in the index, those of the
\* batch and those of the images that were there.
LEMMA UpsertKeeps ==
  ASSUME Typed, UNCHANGED inputs, index' = Put(index, batch)
  PROVE  /\ index' \subseteq OwnDocuments
         /\ \A p : Indexed(p) => Indexed(p)'
         /\ \A i \in DOMAIN batch : \E d \in index' : d.id = target[batch[i].path]
  <1> DEFINE m == Len(batch)
  <1>1. m \in Nat /\ DOMAIN batch = 1..m /\ \A i \in 1..m : batch[i] \in OwnDocuments
    BY LenProperties, ElementOfSeq DEF Typed
  <1>2. /\ \A d \in Put(index, batch) : d \in index \/ \E k \in 1..m : d = batch[k]
        /\ \A d \in index : \E e \in Put(index, batch) : e.id = d.id
        /\ \A k \in 1..m : \E e \in Put(index, batch) : e.id = batch[k].id
    <2>1. batch \in Seq(OwnDocuments)
      BY DEF Typed
    <2> QED
      BY <1>1, <2>1, PutFacts
  <1>3. index' \subseteq OwnDocuments
    BY <1>1, <1>2 DEF Typed
  <1>4. \A p : Indexed(p) => Indexed(p)'
    BY <1>2 DEF Indexed, inputs
  <1>5. \A i \in 1..m : batch[i].id = target[batch[i].path]
    BY <1>1, OwnFields DEF OwnDocuments
  <1>6. \A i \in DOMAIN batch : \E d \in index' : d.id = target[batch[i].path]
    BY <1>1, <1>2, <1>5
  <1> QED
    BY <1>3, <1>4, <1>6

-----------------------------------------------------------------------------
(***************************************************************************)
(* Types.                                                                  *)
(***************************************************************************)

\* The least of the paths that the last of them may be a link to.
LEMMA FirstPath ==
  ASSUME NEW p \in Paths, \A q \in Paths : q <= p
  PROVE  (CHOOSE f \in Paths : \A q \in Paths : f <= q) \in Paths
  <1>1. p \in Nat /\ Paths \in SUBSET (1..p)
    BY LocalIngestionAssumption
  <1>2. Paths \in SUBSET Nat /\ IsFiniteSet(Paths) /\ Cardinality(Paths) \in Nat
    BY <1>1, Positions
  <1>3. 1 \in 1..Cardinality(Paths)
    BY <1>2, FS_EmptySet
  <1>4. PICK f \in Paths : RankIn(Paths, f) = 1
    BY <1>2, <1>3, Ranks
  <1>5. ASSUME NEW q \in Paths, ~(f <= q) PROVE FALSE
    <2> DEFINE U == {i \in Paths : i <= f}
    <2>1. IsFiniteSet(U) /\ Cardinality(U) = 1
      BY <1>2, <1>4, FS_Subset DEF RankIn
    <2>2. f \in U /\ q \in U /\ f # q
      BY <1>2, <1>5
    <2>3. IsFiniteSet({f}) /\ Cardinality({f}) = 1 /\ {f} \subseteq U
      BY <2>2, FS_Singleton
    <2>4. {f} = U
      BY <2>1, <2>3, FS_Subset
    <2> QED
      BY <2>2, <2>4
  <1> QED
    BY <1>5

\* The script has not been started.
LEMMA InitIInv == Init => IInv
  <1> SUFFICES ASSUME Init PROVE IInv
    OBVIOUS
  <1>1. target \in [Paths -> Paths]
    BY FirstPath DEF Init, Links
  <1>2. Typed
    BY <1>1, EmptySeq DEF Init, Typed
  <1>3. Kept
    BY DEF Init, Kept, NoImageIsSkipped, Running
  <1> QED
    BY <1>2, <1>3 DEF IInv

\* Every step keeps the types.
LEMMA NextTyped == Typed /\ [Next]_vars => Typed'
  <1> SUFFICES ASSUME Typed, [Next]_vars PROVE Typed'
    OBVIOUS
  <1>1. UNCHANGED inputs
    BY DEF Next, vars, Start, Run, Add, Flush, Upsert, Report, Finish, UpsertFails, Fail, Delete, inputs
  <1>2. Entries' = Entries /\ OwnDocuments' = OwnDocuments
    BY <1>1, SameImages
  <1>3. /\ target' \in [Paths -> Paths] /\ ocr' \in Readings("ocr") /\ caption' \in Readings("caption")
        /\ <<>> \in Seq(Entries) /\ <<>> \in Seq(OwnDocuments)
    BY <1>1, EmptySeq DEF Typed, inputs
  <1>4. ASSUME /\ present' \subseteq Paths /\ pos' \in Nat
               /\ at' \in {"off", "loop", "upsert", "print", "done", "invalid", "error"}
               /\ pending' \in Seq(Entries) /\ batch' \in Seq(OwnDocuments) /\ index' \subseteq OwnDocuments
        PROVE  Typed'
    BY <1>2, <1>3, <1>4 DEF Typed
  <1>5. CASE UNCHANGED vars
    BY <1>4, <1>5 DEF Typed, vars
  <1>6. ASSUME NEW b \in BatchSizes, Start(b) PROVE Typed'
    BY <1>3, <1>4, <1>6 DEF Typed, Start
  <1>7. CASE Add
    <2> DEFINE p == listing[pos + 1]
    <2>1. CASE p \in present /\ pending' = Append(pending, Entry(p)) /\ pos' = pos + 1 /\ UNCHANGED <<at, batch>>
      <3>1. Entry(p) \in Entries
        BY <2>1 DEF Typed, Entries
      <3>2. pending' \in Seq(Entries)
        BY <2>1, <3>1, AppendProperties DEF Typed
      <3> QED
        BY <1>4, <1>7, <2>1, <3>2 DEF Typed, Add
    <2>2. CASE (End("invalid") \/ End("error")) /\ UNCHANGED pos
      BY <1>3, <1>4, <1>7, <2>2 DEF Typed, Add, End
    <2> QED
      BY <1>7, <2>1, <2>2 DEF Add, Entry
  <1>8. CASE Flush
    <2>1. batch' \in Seq(OwnDocuments) /\ pending' \in Seq(Entries)
      BY <1>3, <1>8, FlushBuilds DEF Flush, End
    <2> QED
      BY <1>4, <1>8, <2>1 DEF Typed, Flush, End
  <1>9. CASE Upsert
    <2>1. index' \subseteq OwnDocuments
      BY <1>1, <1>9, UpsertKeeps DEF Upsert
    <2> QED
      BY <1>4, <1>9, <2>1 DEF Typed, Upsert
  <1>10. CASE UpsertFails
    <2>1. index' \subseteq OwnDocuments
      BY <1>1, <1>10, UpsertKeeps DEF UpsertFails, Typed
    <2> QED
      BY <1>3, <1>4, <1>10, <2>1 DEF Typed, UpsertFails, End
  <1>11. CASE Report \/ Finish \/ Fail
    BY <1>3, <1>4, <1>11 DEF Typed, Report, Finish, Fail, End
  <1>12. ASSUME NEW p \in Paths, Delete(p) PROVE Typed'
    BY <1>4, <1>12 DEF Typed, Delete
  <1> QED
    BY <1>5, <1>6, <1>7, <1>8, <1>9, <1>10, <1>11, <1>12 DEF Next, Run

-----------------------------------------------------------------------------
(***************************************************************************)
(* No image is skipped.                                                    *)
(***************************************************************************)

\* Where the k-th image of the list is.
Handled(k) ==
    \/ Indexed(listing[k])
    \/ \E i \in DOMAIN pending : pending[i].path = listing[k]
    \/ \E i \in DOMAIN batch : batch[i].path = listing[k]

\* The images that were handled are those up to pos.
LEMMA SkippedNone == NoImageIsSkipped <=> (Running => \A k \in 1..pos : Handled(k))
  BY DEF NoImageIsSkipped, Handled

\* The accumulator takes in one more image, and keeps those it has.
LEMMA AddKeeps ==
  ASSUME Typed, NEW p \in Paths, pending' = Append(pending, Entry(p))
  PROVE  /\ \A i \in DOMAIN pending : i \in DOMAIN pending' /\ pending'[i] = pending[i]
         /\ \E i \in DOMAIN pending' : pending'[i].path = p
  <1>1. Entry(p) \in Entries /\ Entry(p).path = p
    BY DEF Entries, Entry
  <1>2. /\ pending' \in Seq(Entries) /\ Len(pending') = Len(pending) + 1
        /\ \A i \in 1..Len(pending) : pending'[i] = pending[i]
        /\ pending'[Len(pending) + 1] = Entry(p)
    BY <1>1, AppendProperties DEF Typed
  <1>3. Len(pending) \in Nat /\ DOMAIN pending = 1..Len(pending) /\ DOMAIN pending' = 1..Len(pending')
    BY <1>2, LenProperties DEF Typed
  <1> QED
    BY <1>1, <1>2, <1>3

\* Every step keeps the images that the loop is done with: the accumulator hands
\* them to the batch, and the batch to the index.
LEMMA NextKept == Typed /\ Kept /\ [Next]_vars => Kept'
  <1> SUFFICES ASSUME Typed, Kept, [Next]_vars PROVE Kept'
    OBVIOUS
  <1>0. UNCHANGED inputs
    BY DEF Next, vars, Start, Run, Add, Flush, Upsert, Report, Finish, UpsertFails, Fail, Delete, inputs
  <1>1. \A p : index' = index => (Indexed(p)' <=> Indexed(p))
    BY <1>0 DEF Indexed, inputs
  <1>2. ASSUME UNCHANGED <<at, pos, listing, pending, batch, index>> PROVE Kept'
    BY <1>0, <1>2 DEF Kept, NoImageIsSkipped, Running, Indexed, inputs
  <1>3. ASSUME at' \in {"done", "invalid", "error"} PROVE Kept'
    BY <1>3 DEF Kept, NoImageIsSkipped, Running
  <1>4. ASSUME NEW b \in BatchSizes, Start(b) PROVE Kept'
    <2>1. at' # "print" /\ batch' = <<>> /\ pos' = 0
      BY <1>4 DEF Start
    <2>2. 1..0 = {}
      OBVIOUS
    <2> QED
      BY <2>1, <2>2 DEF Kept, NoImageIsSkipped
  <1>5. CASE Add
    <2> DEFINE p == listing[pos + 1]
    <2>1. CASE p \in present /\ pending' = Append(pending, Entry(p)) /\ pos' = pos + 1 /\ UNCHANGED <<at, batch>>
      <3>1. p \in Paths /\ pos \in Nat /\ at = "loop" /\ UNCHANGED <<listing, index>>
        BY <1>5, <2>1 DEF Typed, Add
      <3>2. /\ \A i \in DOMAIN pending : i \in DOMAIN pending' /\ pending'[i] = pending[i]
            /\ \E i \in DOMAIN pending' : pending'[i].path = p
        BY <2>1, <3>1, AddKeeps
      <3>3. ASSUME NEW k \in 1..pos PROVE Handled(k)'
        <4>1. Handled(k)
          BY <3>1 DEF Kept, NoImageIsSkipped, Running, Handled
        <4> QED
          BY <1>1, <2>1, <3>1, <3>2, <4>1 DEF Handled
      <3>. PICK n : n = pos + 1
        OBVIOUS
      <3>4. Handled(n)'
        BY <2>1, <3>1, <3>2 DEF Handled
      <3>5. \A k \in 1..pos' : k \in 1..pos \/ k = n
        BY <2>1, <3>1
      <3>6. \A k \in 1..pos' : Handled(k)'
        BY <3>1, <3>3, <3>4, <3>5
      <3> QED
        BY <2>1, <3>1, <3>6 DEF Kept, NoImageIsSkipped, Handled
    <2>2. CASE at' \in {"invalid", "error"}
      BY <1>3, <2>2
    <2> QED
      BY <1>5, <2>1, <2>2 DEF Add, Entry, End
  <1>6. CASE Flush
    <2>1. CASE at' = "upsert"
      <3>1. /\ DOMAIN batch' = DOMAIN pending /\ \A k \in DOMAIN pending : batch'[k].path = pending[k].path
            /\ UNCHANGED <<pos, listing, index>> /\ at = "loop" /\ batch = <<>>
        BY <1>6, <2>1, FlushBuilds DEF Flush, End, Kept
      <3>2. ASSUME NEW k \in 1..pos PROVE Handled(k)'
        <4>1. Handled(k)
          BY <3>1 DEF Kept, NoImageIsSkipped, Running, Handled
        <4> QED
          BY <1>1, <3>1, <4>1 DEF Handled
      <3> QED
        BY <2>1, <3>1, <3>2 DEF Kept, NoImageIsSkipped, Handled
    <2>2. CASE at' = "invalid"
      BY <1>3, <2>2
    <2> QED
      BY <1>6, <2>1, <2>2 DEF Flush, End
  <1>7. CASE Upsert
    <2>1. /\ UNCHANGED <<pos, listing, pending, batch>> /\ at = "upsert" /\ at' = "print"
          /\ \A p : Indexed(p) => Indexed(p)'
          /\ \A i \in DOMAIN batch : \E d \in index' : d.id = target[batch[i].path]
      BY <1>0, <1>7, UpsertKeeps DEF Upsert
    <2>2. \A i \in DOMAIN batch : Indexed(batch[i].path)'
      BY <1>0, <2>1 DEF Indexed, inputs
    <2>3. ASSUME NEW k \in 1..pos PROVE Handled(k)'
      <3>1. Handled(k)
        BY <2>1 DEF Kept, NoImageIsSkipped, Running, Handled
      <3> QED
        BY <2>1, <3>1 DEF Handled
    <2> QED
      BY <2>1, <2>2, <2>3 DEF Kept, NoImageIsSkipped, Handled
  <1>8. CASE Report
    <2>1. /\ UNCHANGED <<pos, listing, pending, index>> /\ at = "print" /\ at' = "loop" /\ batch' = <<>>
      BY <1>8 DEF Report
    <2>2. ASSUME NEW k \in 1..pos PROVE Handled(k)'
      <3>1. Handled(k) /\ \A i \in DOMAIN batch : Indexed(batch[i].path)
        BY <2>1 DEF Kept, NoImageIsSkipped, Running, Handled
      <3> QED
        BY <1>1, <2>1, <3>1 DEF Handled
    <2> QED
      BY <2>1, <2>2 DEF Kept, NoImageIsSkipped, Handled
  <1>9. CASE UpsertFails \/ Finish \/ Fail
    BY <1>3, <1>9 DEF UpsertFails, Finish, Fail, End
  <1>10. ASSUME NEW p \in Paths, Delete(p) PROVE Kept'
    BY <1>2, <1>10 DEF Delete
  <1>11. CASE UNCHANGED vars
    BY <1>2, <1>11 DEF vars
  <1> QED
    BY <1>4, <1>5, <1>6, <1>7, <1>8, <1>9, <1>10, <1>11 DEF Next, Run

-----------------------------------------------------------------------------
(***************************************************************************)
(* The theorems.                                                           *)
(***************************************************************************)

\* The invariant holds of every run of the script.
THEOREM SpecIInv == Spec => []IInv
  <1>1. IInv /\ [Next]_vars => IInv'
    BY NextTyped, NextKept DEF IInv
  <1> QED
    BY <1>1, InitIInv, PTL DEF Spec

\* What the script puts into the index is what ingest_image would have.
THEOREM SpecBatchesEqualSingles == Spec => []BatchesEqualSingles
  <1>1. IInv => BatchesEqualSingles
    <2> SUFFICES ASSUME IInv PROVE BatchesEqualSingles
      OBVIOUS
    <2>1. index \subseteq OwnDocuments /\ Range(batch) \subseteq OwnDocuments
      BY RangeOfSeq DEF IInv, Typed
    <2> QED
      BY <2>1, OwnFields DEF BatchesEqualSingles, OwnDocuments
  <1> QED
    BY <1>1, SpecIInv, PTL

\* The script passes over no image.
THEOREM SpecNoImageIsSkipped == Spec => []NoImageIsSkipped
  <1>1. IInv => NoImageIsSkipped
    BY DEF IInv, Kept
  <1> QED
    BY <1>1, SpecIInv, PTL
===============================================================================
