----------------------------- MODULE Documents ------------------------------
(***************************************************************************)
(* The values that both ingestion paths build: texts, vectors and the      *)
(* documents of the index.  A text is a sequence of lines, and a line is   *)
(* the image it was read from and the model that read it, or white space.  *)
(* A vector is the text or the picture it encodes: the models are          *)
(* deterministic, and what matters is whose vector a document carries.     *)
(* A value that may be None is a sequence of at most one element.          *)
(***************************************************************************)
EXTENDS Naturals, Sequences, FiniteSets

White == [of |-> 0, by |-> "nobody"]
Line(image, model) == [of |-> image, by |-> model]

\* The elements of s at the positions in S, in their order (SelectSeq by the
\* positions it keeps: of SelectSeq itself the provers know nothing).
Nth(S, n) == CHOOSE k \in S : Cardinality({i \in S : i <= k}) = n
Selected(s, S) == [n \in 1..Cardinality(S) |-> s[Nth(S, n)]]

\* _normalize_text_block: lines that are blank are dropped.
Normalized(text) == Selected(text, {k \in DOMAIN text : text[k] # White})

\* ExtractedImageText.create, which raises ValueError when IsBlank holds.
Extracted(ocr, caption) ==
    [ocr_text |-> Normalized(ocr), caption |-> Normalized(caption),
     combined |-> Normalized(ocr) \o Normalized(caption)]
IsBlank(extracted) == extracted.combined = <<>>

FlorenceText(extracted) ==
    IF extracted.caption # <<>> THEN extracted.caption ELSE extracted.combined

\* One vector for each input, in the order of the inputs.
EncodeText(text) == [sparse |-> text]
EncodeTexts(texts) == [k \in DOMAIN texts |-> EncodeText(texts[k])]
EncodeImage(picture) == [dense |-> picture]
EncodeImages(pictures) == [k \in DOMAIN pictures |-> EncodeImage(pictures[k])]

ImageDocument(id, path, dense, florence, ocr, extracted) ==
    [id |-> id, path |-> path, dense |-> dense, florence |-> florence, ocr |-> ocr,
     text |-> extracted.combined, ocr_text |-> extracted.ocr_text, caption |-> extracted.caption]

\* build_image_document: one image at a time.  Texts are stripped again.
BuildImageDocument(id, path, picture, text, ocr, caption) ==
    LET florence == IF Normalized(caption) # <<>> THEN Normalized(caption) ELSE Normalized(text)
    IN  ImageDocument(id, path, EncodeImage(picture), EncodeText(florence),
            IF Normalized(ocr) # <<>> THEN <<EncodeText(Normalized(ocr))>> ELSE <<>>,
            [combined |-> Normalized(text), ocr_text |-> Normalized(ocr),
             caption |-> Normalized(caption)])

\* build_image_document_with_extracted_text: the reference for both paths.
DocumentOf(id, path, picture, ocr, caption) ==
    LET extracted == Extracted(ocr, caption)
    IN  BuildImageDocument(id, path, picture, extracted.combined, extracted.ocr_text,
                           extracted.caption)

(***************************************************************************)
(* The batched construction.  An item has an id, a path, a picture and its *)
(* extracted text.  Only the items with an OCR text have a vector in ocr,  *)
(* and an iterator over ocr deals them out in the order of the items.      *)
(***************************************************************************)
WithOcr(items) == {k \in DOMAIN items : items[k].extracted.ocr_text # <<>>}
OcrTexts(items) ==
    Selected([k \in DOMAIN items |-> items[k].extracted.ocr_text], WithOcr(items))
FlorenceTexts(items) == [k \in DOMAIN items |-> FlorenceText(items[k].extracted)]
Pictures(items) == [k \in DOMAIN items |-> items[k].picture]

\* A plausible mistake: the vectors are dealt out by position.
OcrByPosition(items, ocr, k) ==
    IF items[k].extracted.ocr_text # <<>> /\ k \in DOMAIN ocr THEN <<ocr[k]>> ELSE <<>>

\* next(next_ocr_sparse) for the k-th item
NextOcr(items, ocr, k) ==
    IF k \in WithOcr(items)
    THEN <<ocr[Cardinality({i \in WithOcr(items) : i <= k})]>> ELSE <<>>

\* A plausible mistake: the OCR vectors are zipped like the others.
ZippedWithOcr(items, dense, florence, ocr) ==
    [k \in DOMAIN items \cap DOMAIN dense \cap DOMAIN florence \cap DOMAIN ocr |->
        ImageDocument(items[k].id, items[k].path, dense[k], florence[k],
                      <<ocr[k]>>, items[k].extracted)]

\* zip(items, dense, florence) stops at the shortest.
Zipped(items, dense, florence, ocr) ==
    [k \in DOMAIN items \cap DOMAIN dense \cap DOMAIN florence |->
        ImageDocument(items[k].id, items[k].path, dense[k], florence[k],
                      NextOcr(items, ocr, k), items[k].extracted)]

\* Qdrant's upsert: a document replaces the one with its id, the last one wins.
Put(index, documents) ==
    {d \in index : \A k \in DOMAIN documents : documents[k].id # d.id}
    \cup {documents[k] : k \in {i \in DOMAIN documents :
            \A j \in (i + 1)..Len(documents) : documents[j].id # documents[i].id}}
=============================================================================
