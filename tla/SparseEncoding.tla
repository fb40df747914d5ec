--------------------------- MODULE SparseEncoding ---------------------------
(***************************************************************************)
(* SpladeJapaneseSparseEncoder: a text becomes a sparse vector, alone      *)
(* (encode_text, for a query and for a single image) or in a batch         *)
(* (encode_texts, for the sparse service and the batches), where the       *)
(* shorter texts are padded to the longest one.  The model is external: it *)
(* gives each token a logit for each entry of the vocabulary, which the    *)
(* padding of other texts does not change, and gives padding anything.     *)
(* log1p, which keeps the order and the zero, is left out.                 *)
(***************************************************************************)
EXTENDS Naturals, Sequences, FiniteSetsExt

CONSTANTS
    Size,        \* of the vocabulary 0..Size - 1
    Logits, Zero, \* numbers that logits are, and the one that stands for zero
    MaxTokens,   \* bound: tokens of a text
    MaxTexts,    \* bound: texts of a batch
    top_k,
    TokenizerMax, ModelMax   \* greatest lengths, 0 when they are not known

ASSUME SparseEncodingAssumption ==
    /\ Size \in Nat \ {0} /\ Logits \subseteq Nat /\ Zero \in Nat /\ top_k \in Nat \ {0}
    /\ TokenizerMax \in Nat /\ ModelMax \in Nat /\ TokenizerMax + ModelMax > 0
    /\ MaxTokens \in Nat /\ MaxTexts \in Nat

Vocabulary == 0..Size - 1
unk_token_id == 0
Token == [Vocabulary -> Logits]
Sized(n) == UNION {[1..k -> Token] : k \in 1..n}

VARIABLES
    texts,     \* the batch: each text is the sequence of its tokens' logits
    padding,   \* the logits of the padding
    vectors,   \* encode_texts(texts)
    single     \* encode_text of each of them

encoderVars == <<texts, padding, vectors, single>>

-----------------------------------------------------------------------------
\* _resolve_sparse_max_length: the lesser of the known lengths.
MaxLength ==
    IF ModelMax = 0 THEN TokenizerMax
    ELSE IF TokenizerMax = 0 \/ ModelMax < TokenizerMax THEN ModelMax ELSE TokenizerMax

Length(text) == IF Len(text) < MaxLength THEN Len(text) ELSE MaxLength
Relu(x) == IF x > Zero THEN x - Zero ELSE 0

\* Mistake: the attention mask is forgotten.
WeightsUnmasked(text, width, v) ==
    {Relu(text[n][v]) : n \in 1..Length(text)} \cup {Relu(padding[v]) : n \in Length(text) + 1..width}

\* The weights of a vocabulary entry at the positions of a padded text, zero
\* where the attention mask is.
Weights(text, width, v) ==
    {Relu(text[n][v]) : n \in 1..Length(text)} \cup {0 : n \in Length(text) + 1..width}

Pooled(text, width) == [v \in Vocabulary |-> Max(Weights(text, width, v))]

\* topk: the entries of the greatest weights; among equal ones torch may take any,
\* here the first.
TopK(vector) ==
    {v \in Vocabulary :
        Cardinality({u \in Vocabulary : vector[u] > vector[v] \/ (vector[u] = vector[v] /\ u < v)}) < top_k}

\* Mistake: a text without weight has a vector without entries.
NonZeroOnly(vector) == [v \in {u \in TopK(vector) : vector[u] > 0} |-> vector[v]]

\* The weights above zero, or the unknown token's with weight 1.
NonZero(vector) ==
    LET kept == {u \in TopK(vector) : vector[u] > 0}
    IN IF kept = {} THEN [v \in {unk_token_id} |-> 1] ELSE [v \in kept |-> vector[v]]

\* SparseVector.create raises for a vector without entries and for a negative
\* index; it sorts the others, which a function is up to.
SparseVector(entries) == IF DOMAIN entries \in (SUBSET Nat) \ {{}} THEN entries ELSE [v \in {} |-> 0]

encode_text(text) == SparseVector(NonZero(Pooled(text, Length(text))))

\* The longest text gives the width of the batch.
encode_texts(given) ==
    LET width == Max({Length(given[n]) : n \in DOMAIN given})
    IN [n \in DOMAIN given |-> SparseVector(NonZero(Pooled(given[n], width)))]

-----------------------------------------------------------------------------
EncoderInit ==
    /\ texts = <<>> /\ padding \in Token
    /\ vectors = <<>> /\ single = <<>>

\* One more text comes to the batch, which is encoded.
Add ==
    /\ Len(texts) < MaxTexts
    /\ \E text \in Sized(MaxTokens) : texts' = Append(texts, text)
    /\ vectors' = encode_texts(texts')
    /\ single' = [n \in DOMAIN texts' |-> encode_text(texts'[n])]
    /\ UNCHANGED padding

EncoderNext == Add
EncoderSpec == EncoderInit /\ [][EncoderNext]_encoderVars

-----------------------------------------------------------------------------
\* The batch gives each text the vector it has alone, so that a query, which is
\* encoded alone, matches what was indexed in a batch; the other texts and the
\* padding they cause do not show in it.
BatchEqualsSingle == vectors = single

\* Comment at embedding_models.py 185: Qdrant is never given an empty sparse
\* vector, also when the model finds no weight in a text, nor one of more than
\* top_k entries.
VectorsAreStorable ==
    \A n \in DOMAIN vectors :
        /\ DOMAIN vectors[n] # {} /\ Cardinality(DOMAIN vectors[n]) <= top_k
        /\ \A v \in DOMAIN vectors[n] : vectors[n][v] > 0
=============================================================================
