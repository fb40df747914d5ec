--------------------------- MODULE DocumentsProofs ---------------------------
(***************************************************************************)
(* Proofs about the values of Documents: what a selection keeps, that text *)
(* which is normalized stays so, and that the batched construction gives   *)
(* every image the document it would have got alone.                       *)
(***************************************************************************)
EXTENDS Documents, FiniteSetTheorems, SequenceTheorems, TLAPS

-----------------------------------------------------------------------------
(***************************************************************************)
(* Selections.                                                             *)
(***************************************************************************)
RankIn(S, k) == Cardinality({i \in S : i <= k})

\* Later positions of a finite set of positions have greater ranks, and every
\* number up to the size of the set is the rank of one.
LEMMA Ranks ==
  ASSUME NEW S \in SUBSET Nat, IsFiniteSet(S)
  PROVE  /\ Cardinality(S) \in Nat
         /\ \A k \in S : RankIn(S, k) \in 1..Cardinality(S)
         /\ \A j, k \in S : RankIn(S, j) = RankIn(S, k) => j = k
         /\ \A n \in 1..Cardinality(S) : \E k \in S : RankIn(S, k) = n
  <1> DEFINE Upto(k) == {i \in S : i <= k}
  <1>1. Cardinality(S) \in Nat
    BY FS_CardinalityType
  <1>2. \A k : IsFiniteSet(Upto(k)) /\ Cardinality(Upto(k)) \in Nat /\ Cardinality(Upto(k)) <= Cardinality(S)
    BY FS_Subset, FS_CardinalityType
  <1>3. ASSUME NEW k \in S PROVE RankIn(S, k) \in 1..Cardinality(S)
    <2>1. Upto(k) # {}
      OBVIOUS
    <2>2. Cardinality(Upto(k)) # 0
      BY <1>2, <2>1, FS_EmptySet
    <2> QED
      BY <1>1, <1>2, <2>2 DEF RankIn
  <1>4. ASSUME NEW j \in S, NEW k \in S, j < k PROVE RankIn(S, j) # RankIn(S, k)
    <2>0. j \in Nat /\ k \in Nat /\ \A i \in S : i \in Nat
      OBVIOUS
    <2>1. \A i \in S : i <= j => i <= k
      BY <1>4, <2>0
    <2>2. k <= k /\ ~(k <= j)
      BY <1>4, <2>0
    <2>3. Upto(j) \subseteq Upto(k) /\ k \in Upto(k) /\ k \notin Upto(j)
      BY <2>1, <2>2
    <2>4. Cardinality(Upto(j)) # Cardinality(Upto(k))
      BY <1>2, <2>3, FS_Subset
    <2> QED
      BY <2>4 DEF RankIn
  <1>5. ASSUME NEW j \in S, NEW k \in S, RankIn(S, j) = RankIn(S, k) PROVE j = k
    BY <1>4, <1>5
  <1>6. ASSUME NEW n \in 1..Cardinality(S) PROVE \E k \in S : RankIn(S, k) = n
    <2> DEFINE f == [k \in S |-> RankIn(S, k)]
    <2>1. f \in Injection(S, 1..Cardinality(S))
      BY <1>3, <1>5 DEF Injection, IsInjective
    <2>2. IsFiniteSet(1..Cardinality(S)) /\ Cardinality(1..Cardinality(S)) = Cardinality(S)
      BY <1>1, FS_Interval
    <2>3. f \in Surjection(S, 1..Cardinality(S))
      BY <2>1, <2>2, FS_Injection
    <2> QED
      BY <2>3 DEF Surjection
  <1> QED
    BY <1>1, <1>3, <1>5, <1>6

\* The position with a rank is the one that Nth chooses.
LEMMA NthOfRank ==
  ASSUME NEW S \in SUBSET Nat, IsFiniteSet(S)
  PROVE  /\ \A n \in 1..Cardinality(S) : Nth(S, n) \in S /\ RankIn(S, Nth(S, n)) = n
         /\ \A k \in S : Nth(S, RankIn(S, k)) = k
  <1>1. ASSUME NEW n \in 1..Cardinality(S) PROVE Nth(S, n) \in S /\ RankIn(S, Nth(S, n)) = n
    <2>1. \E k \in S : Cardinality({i \in S : i <= k}) = n
      BY Ranks DEF RankIn
    <2> QED
      BY <2>1 DEF Nth, RankIn
  <1>2. ASSUME NEW k \in S PROVE Nth(S, RankIn(S, k)) = k
    <2>1. RankIn(S, k) \in 1..Cardinality(S)
      BY Ranks
    <2>2. Nth(S, RankIn(S, k)) \in S /\ RankIn(S, Nth(S, RankIn(S, k))) = RankIn(S, k)
      BY <1>1, <2>1
    <2>3. \A i, j \in S : RankIn(S, i) = RankIn(S, j) => i = j
      BY Ranks
    <2> QED
      BY <2>2, <2>3
  <1> QED
    BY <1>1, <1>2

\* Positions of a sequence.
LEMMA Positions ==
  ASSUME NEW m \in Nat, NEW S \in SUBSET (1..m)
  PROVE  S \in SUBSET Nat /\ IsFiniteSet(S) /\ Cardinality(S) \in Nat
  <1>1. IsFiniteSet(1..m)
    BY FS_Interval
  <1>2. IsFiniteSet(S) /\ Cardinality(S) \in Nat
    BY <1>1, FS_Subset, FS_CardinalityType
  <1> QED
    BY <1>2

\* What is selected is a sequence of elements at the selected positions.
LEMMA SelectedFacts ==
  ASSUME NEW m \in Nat, NEW s, NEW S \in SUBSET (1..m)
  PROVE  /\ DOMAIN Selected(s, S) = 1..Cardinality(S) /\ Cardinality(S) \in Nat
         /\ \A n \in 1..Cardinality(S) : \E k \in S : Selected(s, S)[n] = s[k]
         /\ \A k \in S : /\ RankIn(S, k) \in 1..Cardinality(S)
                         /\ Selected(s, S)[RankIn(S, k)] = s[k]
  <1>1. S \in SUBSET Nat /\ IsFiniteSet(S) /\ Cardinality(S) \in Nat
    BY Positions
  <1>2. \A k \in S : RankIn(S, k) \in 1..Cardinality(S)
    BY <1>1, Ranks
  <1> QED
    BY <1>1, <1>2, NthOfRank DEF Selected

\* To select all positions is to select nothing.
LEMMA SelectAll ==
  ASSUME NEW m \in Nat, NEW s, s = [k \in 1..m |-> s[k]]
  PROVE  Selected(s, 1..m) = s
  <1>1. Cardinality(1..m) = m
    BY FS_Interval
  <1>2. ASSUME NEW k \in 1..m PROVE Nth(1..m, k) = k
    <2>1. {i \in 1..m : i <= k} = 1..k
      OBVIOUS
    <2>2. Cardinality(1..k) = k
      BY FS_Interval
    <2>3. RankIn(1..m, k) = k
      BY <2>1, <2>2 DEF RankIn
    <2>4. 1..m \in SUBSET (1..m) /\ 1..m \in SUBSET Nat /\ IsFiniteSet(1..m)
      BY Positions
    <2> QED
      BY <2>3, <2>4, NthOfRank
  <1>3. Selected(s, 1..m) = [k \in 1..m |-> s[k]]
    BY <1>1, <1>2 DEF Selected
  <1> QED
    BY <1>3

-----------------------------------------------------------------------------
(***************************************************************************)
(* Texts.                                                                  *)
(***************************************************************************)

\* A sequence of lines, none of them white.
IsClean(text) ==
    \E m \in Nat : text = [k \in 1..m |-> text[k]] /\ \A k \in 1..m : text[k] # White

\* A normalized text has no white lines.
LEMMA NormalizedIsClean ==
  ASSUME NEW S, NEW text \in Seq(S)
  PROVE  IsClean(Normalized(text))
  <1> DEFINE kept == {k \in DOMAIN text : text[k] # White}
  <1>1. Len(text) \in Nat /\ kept \in SUBSET (1..Len(text))
    BY LenProperties
  <1>2. /\ DOMAIN Selected(text, kept) = 1..Cardinality(kept) /\ Cardinality(kept) \in Nat
        /\ \A n \in 1..Cardinality(kept) : Selected(text, kept)[n] # White
    BY <1>1, SelectedFacts
  <1>3. Selected(text, kept) = [n \in 1..Cardinality(kept) |-> Selected(text, kept)[n]]
    BY DEF Selected
  <1> QED
    BY <1>2, <1>3 DEF IsClean, Normalized

\* Stripping a text without white lines changes nothing.
LEMMA CleanIsNormalized ==
  ASSUME NEW text, IsClean(text)
  PROVE  Normalized(text) = text
  <1>1. PICK m \in Nat : text = [k \in 1..m |-> text[k]] /\ \A k \in 1..m : text[k] # White
    BY DEF IsClean
  <1>2. {k \in DOMAIN text : text[k] # White} = 1..m
    BY <1>1
  <1> QED
    BY <1>1, <1>2, SelectAll DEF Normalized

\* Nor do two of them have one together.
LEMMA CleanTogether ==
  ASSUME NEW s, NEW t, IsClean(s), IsClean(t)
  PROVE  IsClean(s \o t)
  <1>1. PICK m \in Nat : s = [k \in 1..m |-> s[k]] /\ \A k \in 1..m : s[k] # White
    BY DEF IsClean
  <1>2. PICK n \in Nat : t = [k \in 1..n |-> t[k]] /\ \A k \in 1..n : t[k] # White
    BY DEF IsClean
  <1> DEFINE S == {s[k] : k \in 1..m} \cup {t[k] : k \in 1..n}
  <1>3. s \in Seq(S) /\ t \in Seq(S) /\ Len(s) = m /\ Len(t) = n
    BY <1>1, <1>2
  <1>4. /\ s \o t \in Seq(S) /\ Len(s \o t) = m + n
        /\ \A i \in 1..(m + n) : (s \o t)[i] = IF i <= m THEN s[i] ELSE t[i - m]
    BY <1>3, ConcatProperties
  <1>5. s \o t = [k \in 1..(m + n) |-> (s \o t)[k]]
    BY <1>4, LenProperties
  <1>6. \A i \in 1..(m + n) : (s \o t)[i] # White
    BY <1>1, <1>2, <1>4
  <1>7. m + n \in Nat
    OBVIOUS
  <1> QED
    BY <1>5, <1>6, <1>7 DEF IsClean

\* So an extracted text is what stripping its parts again gives.
LEMMA ExtractedIsNormalized ==
  ASSUME NEW S, NEW ocr \in Seq(S), NEW T, NEW caption \in Seq(T)
  PROVE  LET e == Extracted(ocr, caption)
         IN  /\ Normalized(e.ocr_text) = e.ocr_text
             /\ Normalized(e.caption) = e.caption
             /\ Normalized(e.combined) = e.combined
  <1>1. IsClean(Normalized(ocr)) /\ IsClean(Normalized(caption))
    BY NormalizedIsClean
  <1>2. IsClean(Normalized(ocr) \o Normalized(caption))
    BY <1>1, CleanTogether
  <1> QED
    BY <1>1, <1>2, CleanIsNormalized DEF Extracted

-----------------------------------------------------------------------------
(***************************************************************************)
(* Documents.                                                              *)
(***************************************************************************)

\* One vector for each image, and for each text that there is, in their order;
\* the encoder of the OCR texts may have answered with more.
AreVectorsOf(items, dense, florence, ocr) ==
    /\ dense = EncodeImages(Pictures(items)) /\ florence = EncodeTexts(FlorenceTexts(items))
    /\ \A n \in 1..Len(OcrTexts(items)) : ocr[n] = EncodeText(OcrTexts(items)[n])

\* The iterator over the OCR vectors is at the vector of the item at hand when
\* that item has an OCR text, however many of those before it have none.
THEOREM NextOcrIsOwn ==
  ASSUME NEW m \in Nat, NEW items, DOMAIN items = 1..m, NEW k \in 1..m, NEW ocr,
         \A n \in 1..Len(OcrTexts(items)) : ocr[n] = EncodeText(OcrTexts(items)[n])
  PROVE  NextOcr(items, ocr, k) =
            IF items[k].extracted.ocr_text # <<>>
            THEN <<EncodeText(items[k].extracted.ocr_text)>> ELSE <<>>
  <1> DEFINE S == WithOcr(items)
             texts == [i \in DOMAIN items |-> items[i].extracted.ocr_text]
  <1>1. S \in SUBSET (1..m)
    BY DEF WithOcr
  <1>2. CASE k \notin S
    BY <1>2 DEF NextOcr, WithOcr
  <1>3. CASE k \in S
    <2>1. /\ RankIn(S, k) \in 1..Cardinality(S) /\ Selected(texts, S)[RankIn(S, k)] = texts[k]
          /\ DOMAIN Selected(texts, S) = 1..Cardinality(S) /\ Cardinality(S) \in Nat
      BY <1>1, <1>3, SelectedFacts
    <2>2. OcrTexts(items) = Selected(texts, S) /\ Len(OcrTexts(items)) = Cardinality(S)
      BY <2>1 DEF OcrTexts
    <2>3. ocr[RankIn(S, k)] = EncodeText(items[k].extracted.ocr_text)
      BY <2>1, <2>2
    <2> QED
      BY <1>3, <2>3 DEF NextOcr, RankIn, WithOcr
  <1> QED
    BY <1>2, <1>3

\* flush of the script and _upsert_prepared of the gateway build, from vectors
\* that were computed for all images of a batch, the document that
\* build_image_document_with_extracted_text builds of one image alone.
THEOREM BatchedAsAlone ==
  ASSUME NEW m \in Nat, NEW items, DOMAIN items = 1..m, NEW k \in 1..m,
         NEW dense, NEW florence, NEW vectors, AreVectorsOf(items, dense, florence, vectors),
         NEW S, NEW ocr \in Seq(S), NEW T, NEW caption \in Seq(T),
         items[k].extracted = Extracted(ocr, caption)
  PROVE  /\ DOMAIN Zipped(items, dense, florence, vectors) = 1..m
         /\ Zipped(items, dense, florence, vectors)[k] =
               DocumentOf(items[k].id, items[k].path, items[k].picture, ocr, caption)
  <1> DEFINE e == Extracted(ocr, caption)
  <1>1. /\ DOMAIN dense = 1..m /\ DOMAIN florence = 1..m
        /\ dense[k] = EncodeImage(items[k].picture)
        /\ florence[k] = EncodeText(FlorenceText(e))
    BY DEF AreVectorsOf, EncodeImages, Pictures, EncodeTexts, FlorenceTexts
  <1>2. NextOcr(items, vectors, k) =
           IF e.ocr_text # <<>> THEN <<EncodeText(e.ocr_text)>> ELSE <<>>
    BY NextOcrIsOwn DEF AreVectorsOf
  <1>3. /\ DOMAIN Zipped(items, dense, florence, vectors) = 1..m
        /\ Zipped(items, dense, florence, vectors)[k] =
              ImageDocument(items[k].id, items[k].path, EncodeImage(items[k].picture),
                            EncodeText(FlorenceText(e)),
                            IF e.ocr_text # <<>> THEN <<EncodeText(e.ocr_text)>> ELSE <<>>, e)
    BY <1>1, <1>2 DEF Zipped
  <1>4. /\ Normalized(e.ocr_text) = e.ocr_text /\ Normalized(e.caption) = e.caption
        /\ Normalized(e.combined) = e.combined
    BY ExtractedIsNormalized
  <1> HIDE DEF e
  <1>5. BuildImageDocument(items[k].id, items[k].path, items[k].picture, e.combined, e.ocr_text,
                           e.caption)
        = ImageDocument(items[k].id, items[k].path, EncodeImage(items[k].picture),
                        EncodeText(FlorenceText(e)),
                        IF e.ocr_text # <<>> THEN <<EncodeText(e.ocr_text)>> ELSE <<>>, e)
    BY <1>4 DEF BuildImageDocument, ImageDocument, FlorenceText
  <1> USE DEF e
  <1> QED
    BY <1>3, <1>5 DEF DocumentOf

-----------------------------------------------------------------------------
(***************************************************************************)
(* The index.                                                              *)
(***************************************************************************)

\* A set of positions has a last one.
LEMMA LastPosition ==
  ASSUME NEW m \in Nat, NEW S \in SUBSET (1..m), S # {}
  PROVE  \E k \in S : \A i \in S : i <= k
  <1>1. S \in SUBSET Nat /\ IsFiniteSet(S) /\ Cardinality(S) \in Nat
    BY Positions
  <1>2. Cardinality(S) \in 1..Cardinality(S)
    BY <1>1, FS_EmptySet
  <1>3. PICK k \in S : RankIn(S, k) = Cardinality(S)
    BY <1>1, <1>2, Ranks
  <1>4. {i \in S : i <= k} = S
    BY <1>1, <1>3, FS_Subset DEF RankIn
  <1> QED
    BY <1>4

\* An upsert leaves a document with each id that the index or the batch has, and
\* takes documents from nowhere else.
LEMMA PutFacts ==
  ASSUME NEW index, NEW S, NEW documents \in Seq(S)
  PROVE  /\ \A d \in Put(index, documents) : d \in index \/ \E k \in DOMAIN documents : d = documents[k]
         /\ \A d \in index : \E e \in Put(index, documents) : e.id = d.id
         /\ \A k \in DOMAIN documents : \E e \in Put(index, documents) : e.id = documents[k].id
  <1> DEFINE m == Len(documents)
  <1>0. m \in Nat /\ DOMAIN documents = 1..m
    BY LenProperties
  <1>1. ASSUME NEW k \in 1..m PROVE \E e \in Put(index, documents) : e.id = documents[k].id
    <2> DEFINE R == {i \in 1..m : documents[i].id = documents[k].id}
    <2>1. PICK last \in R : \A i \in R : i <= last
      <3>1. R \in SUBSET (1..m) /\ k \in R /\ m \in Nat
        BY <1>0
      <3> HIDE DEF R, m
      <3> QED
        BY <3>1, LastPosition
    <2>2. \A j \in (last + 1)..m : documents[j].id # documents[last].id
      BY <2>1
    <2>3. documents[last] \in Put(index, documents)
      BY <1>0, <2>2 DEF Put
    <2> QED
      BY <2>3
  <1>2. ASSUME NEW d \in index PROVE \E e \in Put(index, documents) : e.id = d.id
    <2>1. CASE \A k \in 1..m : documents[k].id # d.id
      BY <1>0, <2>1 DEF Put
    <2>2. CASE \E k \in 1..m : documents[k].id = d.id
      BY <1>1, <2>2
    <2> QED
      BY <2>1, <2>2
  <1>3. \A d \in Put(index, documents) : d \in index \/ \E k \in DOMAIN documents : d = documents[k]
    BY DEF Put
  <1> QED
    BY <1>0, <1>1, <1>2, <1>3
=============================================================================
