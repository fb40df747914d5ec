-------------------------- MODULE VectorIndexProofs --------------------------
(***************************************************************************)
(* Proofs about VectorIndex, for any set of writers and search threads,    *)
(* any images and dimensions, and any number of faults and losses; and     *)
(* about SparseEncoding, whose vectors the index is given, for any logits, *)
(* texts and batches.                                                      *)
(***************************************************************************)
EXTENDS VectorIndex, SparseEncoding, FiniteSetTheorems, SequenceTheorems, TLAPS

\* A thread that is past ensure_collection has a collection behind it.
CallsHaveCollection == drops = 0 => \A t \in Threads : at[t] = "call" => collection # 0

\* The collection has the dimension of some client's model.
DimensionIsSomebodys == collection # 0 => \E c \in Clients : collection = dim[c]

\* The inductive invariant.  RacesAreNoErrors is about the calls, so it needs to
\* know of the threads that are about to call, and of the dimension they will meet.
IndInv ==
    /\ TypeOK
    /\ ReadyMeansCollection /\ CallsHaveCollection
    /\ StoredPointsSurvive
    /\ DimensionIsSomebodys /\ RacesAreNoErrors

\* Every thread belongs to a client.
LEMMA ClientType == \A t \in Threads : Client(t) \in Clients
  BY DEF Threads, Clients, Client

\* The ids of a writer's batch are among those that TypeOK allows.
LEMMA BatchIdsType ==
  ASSUME TypeOK, NEW w \in Threads
  PROVE  BatchIds(w) \subseteq Ids
  <1>1. batch[w] \subseteq Images
    BY DEF TypeOK
  <1> QED
    BY <1>1 DEF BatchIds, PointId, Ids

\* The initial states satisfy the invariant: there is no collection yet.
THEOREM InitIndInv == Init => IndInv
  <1> SUFFICES ASSUME Init PROVE IndInv
    OBVIOUS
  <1> USE VectorIndexAssumption
  <1>1. TypeOK
    BY DEF Init, TypeOK
  <1>2. ReadyMeansCollection /\ CallsHaveCollection
    BY DEF Init, ReadyMeansCollection, CallsHaveCollection
  <1>3. StoredPointsSurvive /\ DimensionIsSomebodys /\ RacesAreNoErrors
    BY DEF Init, StoredPointsSurvive, DimensionIsSomebodys, RacesAreNoErrors
  <1> QED
    BY <1>1, <1>2, <1>3 DEF IndInv

\* The steps that change neither the collection nor the points nor what was
\* stored or refused, and let no thread past ensure_collection unready.
LEMMA QuietStep ==
  ASSUME IndInv, TypeOK',
         UNCHANGED <<collection, points, dim, stored, refused, drops>>,
         \A c \in Clients : ready'[c] => ready[c] \/ collection # 0,
         \A t \in Threads : at'[t] = "call" => at[t] = "call" \/ ready[Client(t)] \/ collection # 0
  PROVE  IndInv'
  <1>1. ReadyMeansCollection'
    BY DEF IndInv, ReadyMeansCollection
  <1>2. CallsHaveCollection'
    BY ClientType DEF IndInv, ReadyMeansCollection, CallsHaveCollection
  <1>3. StoredPointsSurvive' /\ DimensionIsSomebodys' /\ RacesAreNoErrors'
    BY DEF IndInv, StoredPointsSurvive, DimensionIsSomebodys, RacesAreNoErrors
  <1> QED
    BY <1>1, <1>2, <1>3 DEF IndInv

\* upsert and search go to the call itself only when the flag is set.
LEMMA BeginUpsertIndInv ==
  ASSUME IndInv, NEW w \in Writers, NEW S \in SUBSET Images, BeginUpsert(w, S)
  PROVE  IndInv'
  <1>1. w \in Threads /\ Client(w) = w
    BY DEF Threads, Client
  <1>2. TypeOK'
    BY <1>1 DEF IndInv, TypeOK, BeginUpsert, Goto
  <1>3. \A t \in Threads : at'[t] = "call" => at[t] = "call" \/ ready[Client(t)]
    BY <1>1 DEF IndInv, TypeOK, BeginUpsert, Goto
  <1> QED
    BY <1>2, <1>3, QuietStep DEF BeginUpsert

\* The same of a search, whose threads share one flag.
LEMMA BeginSearchIndInv ==
  ASSUME IndInv, NEW t \in Searchers, BeginSearch(t)
  PROVE  IndInv'
  <1>1. t \in Threads /\ Client(t) = "search"
    BY VectorIndexAssumption DEF Threads, Client
  <1>2. TypeOK'
    BY <1>1 DEF IndInv, TypeOK, BeginSearch, Goto
  <1>3. \A u \in Threads : at'[u] = "call" => at[u] = "call" \/ ready[Client(u)]
    BY <1>1 DEF IndInv, TypeOK, BeginSearch, Goto
  <1> QED
    BY <1>2, <1>3, QuietStep DEF BeginSearch

\* collection_exists sets the flag only of a collection that is there.
LEMMA CheckExistsIndInv ==
  ASSUME IndInv, NEW t \in Threads, CheckExists(t)
  PROVE  IndInv'
  <1>1. Client(t) \in Clients
    BY ClientType
  <1>2. TypeOK'
    BY <1>1 DEF IndInv, TypeOK, CheckExists, Goto, Ready
  <1>3. \A c \in Clients : ready'[c] => ready[c] \/ collection # 0
    BY <1>1 DEF IndInv, TypeOK, CheckExists, Ready
  <1>4. \A u \in Threads : at'[u] = "call" => at[u] = "call" \/ collection # 0
    BY DEF IndInv, TypeOK, CheckExists, Goto
  <1> QED
    BY <1>2, <1>3, <1>4, QuietStep DEF CheckExists

\* create_collection: there is a collection afterwards, its own or another's.
LEMMA CreateIndInv ==
  ASSUME IndInv, NEW t \in Threads, Create(t)
  PROVE  IndInv'
  <1> USE VectorIndexAssumption
  <1>1. Client(t) \in Clients
    BY ClientType
  <1>2. dim[Client(t)] \in Dims
    BY <1>1 DEF IndInv, TypeOK
  <1>3. collection' # 0
    BY <1>2 DEF Create
  <1>4. TypeOK'
    BY <1>1, <1>2 DEF IndInv, TypeOK, Create, Goto, Ready
  <1>5. ReadyMeansCollection' /\ CallsHaveCollection'
    BY <1>3 DEF ReadyMeansCollection, CallsHaveCollection
  <1>6. StoredPointsSurvive' /\ RacesAreNoErrors'
    BY DEF IndInv, Create, StoredPointsSurvive, RacesAreNoErrors
  <1>7. DimensionIsSomebodys'
    BY <1>1 DEF IndInv, Create, DimensionIsSomebodys
  <1> QED
    BY <1>4, <1>5, <1>6, <1>7 DEF IndInv

\* Who is refused, and why: what an upsert or a query adds to refused.
LEMMA RefusalIndInv ==
  ASSUME IndInv, TypeOK', NEW t \in Threads, at[t] = "call", Goto(t, "idle"),
         UNCHANGED <<collection, dim, ready, drops>>,
         StoredPointsSurvive',
         \/ UNCHANGED refused
         \/ collection = 0 /\ Refuse(t, "missing")
         \/ collection \notin {0, dim[Client(t)]} /\ Refuse(t, "dimension")
         \/ Refuse(t, "id")
  PROVE  IndInv'
  <1>1. Client(t) \in Clients
    BY ClientType
  <1>2. ReadyMeansCollection' /\ DimensionIsSomebodys'
    BY DEF IndInv, ReadyMeansCollection, DimensionIsSomebodys
  <1>3. CallsHaveCollection'
    BY DEF IndInv, TypeOK, CallsHaveCollection, Goto
  <1>4. drops = 0 => collection # 0
    BY DEF IndInv, CallsHaveCollection
  <1>5. ASSUME \A c, d \in Clients : dim[c] = dim[d], collection # 0
        PROVE  collection = dim[Client(t)]
    BY <1>1, <1>5 DEF IndInv, DimensionIsSomebodys
  <1>6. RacesAreNoErrors'
    BY <1>4, <1>5 DEF IndInv, RacesAreNoErrors, Refuse
  <1> QED
    BY <1>2, <1>3, <1>6 DEF IndInv

\* An upsert stores its whole batch or is refused for a reason that RacesAreNoErrors allows.
LEMMA UpsertIndInv ==
  ASSUME IndInv, NEW w \in Threads, Upsert(w)
  PROVE  IndInv'
  <1>1. w \in Writers /\ Client(w) = w /\ w \in Clients
    BY DEF Upsert, Client, Clients
  <1>2. BatchIds(w) \subseteq Ids
    BY BatchIdsType DEF IndInv
  <1>3. TypeOK'
    BY <1>1, <1>2 DEF IndInv, TypeOK, Upsert, Goto, Refuse
  <1>4. StoredPointsSurvive'
    BY DEF IndInv, StoredPointsSurvive, Upsert
  <1> QED
    BY <1>1, <1>3, <1>4, RefusalIndInv DEF Upsert

\* A query changes nothing, and is refused for such a reason.
LEMMA QueryIndInv ==
  ASSUME IndInv, NEW t \in Threads, Query(t)
  PROVE  IndInv'
  <1>1. Client(t) = "search" /\ "search" \in Clients
    BY VectorIndexAssumption DEF Query, Client, Clients
  <1>2. TypeOK'
    BY <1>1 DEF IndInv, TypeOK, Query, Goto, Refuse
  <1>3. StoredPointsSurvive'
    BY DEF IndInv, StoredPointsSurvive, Query
  <1> QED
    BY <1>1, <1>2, <1>3, RefusalIndInv DEF Query

\* A call that fails leaves its thread idle.
LEMMA CallFailsIndInv ==
  ASSUME IndInv, NEW t \in Threads, CallFails(t)
  PROVE  IndInv'
  <1>1. TypeOK'
    BY VectorIndexAssumption DEF IndInv, TypeOK, CallFails, Goto
  <1>2. \A u \in Threads : at'[u] = "call" => at[u] = "call"
    BY DEF IndInv, TypeOK, CallFails, Goto
  <1> QED
    BY <1>1, <1>2, QuietStep DEF CallFails

\* A restart forgets the flag and makes threads idle.
LEMMA RestartIndInv ==
  ASSUME IndInv, NEW c \in Clients, Restart(c)
  PROVE  IndInv'
  <1>1. TypeOK'
    BY VectorIndexAssumption DEF IndInv, TypeOK, Restart
  <1>2. \A d \in Clients : ready'[d] => ready[d]
    BY DEF IndInv, TypeOK, Restart
  <1>3. \A u \in Threads : at'[u] = "call" => at[u] = "call"
    BY DEF Restart
  <1> QED
    BY <1>1, <1>2, <1>3, QuietStep DEF Restart

\* The loss of the collection ends what is promised for drops = 0.
LEMMA DropIndInv == IndInv /\ Drop => IndInv'
  <1> SUFFICES ASSUME IndInv, Drop PROVE IndInv'
    OBVIOUS
  <1>1. TypeOK' /\ drops' # 0
    BY VectorIndexAssumption DEF IndInv, TypeOK, Drop
  <1>2. ReadyMeansCollection' /\ CallsHaveCollection' /\ StoredPointsSurvive'
    BY <1>1 DEF ReadyMeansCollection, CallsHaveCollection, StoredPointsSurvive
  <1>3. DimensionIsSomebodys' /\ RacesAreNoErrors'
    BY <1>1 DEF IndInv, Drop, DimensionIsSomebodys, RacesAreNoErrors
  <1> QED
    BY <1>1, <1>2, <1>3 DEF IndInv

\* Every step of the clients and of Qdrant preserves the invariant.
THEOREM NextIndInv == IndInv /\ [Next]_vars => IndInv'
  <1> SUFFICES ASSUME IndInv, [Next]_vars PROVE IndInv'
    OBVIOUS
  <1>1. ASSUME NEW w \in Writers, NEW S \in SUBSET Images, BeginUpsert(w, S) PROVE IndInv'
    BY <1>1, BeginUpsertIndInv
  <1>2. ASSUME NEW t \in Searchers, BeginSearch(t) PROVE IndInv'
    BY <1>2, BeginSearchIndInv
  <1>3. ASSUME NEW t \in Threads, Step(t) PROVE IndInv'
    BY <1>3, CheckExistsIndInv, CreateIndInv, UpsertIndInv, QueryIndInv DEF Step
  <1>4. ASSUME NEW t \in Threads, CallFails(t) PROVE IndInv'
    BY <1>4, CallFailsIndInv
  <1>5. ASSUME NEW c \in Clients, Restart(c) PROVE IndInv'
    BY <1>5, RestartIndInv
  <1>6. CASE Drop
    BY <1>6, DropIndInv
  <1>7. CASE UNCHANGED vars
    BY <1>7 DEF vars, IndInv, TypeOK, ReadyMeansCollection, CallsHaveCollection,
                StoredPointsSurvive, DimensionIsSomebodys, RacesAreNoErrors
  <1> QED
    BY <1>1, <1>2, <1>3, <1>4, <1>5, <1>6, <1>7 DEF Next

\* The inductive invariant holds in every reachable state.
THEOREM SpecIndInv == Spec => []IndInv
  BY InitIndInv, NextIndInv, PTL DEF Spec

-----------------------------------------------------------------------------
\* The types of the index and its clients, for any number of them.
THEOREM Typed == Spec => []TypeOK
  BY SpecIndInv, PTL DEF IndInv

\* ensure_collection's cached flag is right as long as nobody drops the
\* collection, whoever races for its creation.
THEOREM ReadyIsRight == Spec => []ReadyMeansCollection
  BY SpecIndInv, PTL DEF IndInv

\* No race for the creation loses points that an upsert had stored.
THEOREM PointsSurvive == Spec => []StoredPointsSurvive
  BY SpecIndInv, PTL DEF IndInv

\* Nor does it give anybody an error.
THEOREM RacesAreHarmless == Spec => []RacesAreNoErrors
  BY SpecIndInv, PTL DEF IndInv

\* The collection is created once: its dimension changes only when it is dropped.
THEOREM DimensionKept == Spec => DimensionIsKept
  <1>1. ASSUME IndInv, [Next]_vars, drops' = drops, collection # 0
        PROVE  collection' = collection
    <2>1. ASSUME NEW t \in Threads, Step(t) PROVE collection' = collection
      BY <1>1, <2>1 DEF Step, CheckExists, Create, Upsert, Query
    <2>2. ~Drop
      BY <1>1, VectorIndexAssumption DEF IndInv, TypeOK, Drop
    <2> QED
      BY <1>1, <2>1, <2>2 DEF Next, vars, BeginUpsert, BeginSearch, CallFails, Restart
  <1>2. IndInv /\ [Next]_vars => [drops' = drops /\ collection # 0 => collection' = collection]_vars
    BY <1>1
  <1> QED
    BY <1>2, SpecIndInv, PTL DEF Spec, DimensionIsKept

-----------------------------------------------------------------------------
(***************************************************************************)
(* The sparse vectors that the index is given.                             *)
(***************************************************************************)

\* The tokenizer gives a text a token at least.
Texts == Sized(MaxTokens)

\* The inductive invariant: both encoders give what encode_text gives.
EncoderInv ==
    /\ texts \in Seq(Texts)
    /\ single = [n \in DOMAIN texts |-> encode_text(texts[n])]
    /\ BatchEqualsSingle

\* In a strict order that compares any two elements of a finite set, no two
\* elements have equally many ahead, and each number below the cardinality is that
\* of one of them.
LEMMA Compared ==
  ASSUME NEW S, IsFiniteSet(S), NEW R,
         \A x \in S : <<x, x>> \notin R,
         \A x, y, z \in S : <<x, y>> \in R /\ <<y, z>> \in R => <<x, z>> \in R,
         \A x, y \in S : x = y \/ <<x, y>> \in R \/ <<y, x>> \in R
  PROVE  LET ahead(x) == Cardinality({y \in S : <<y, x>> \in R})
         IN  /\ \A x \in S : ahead(x) \in 0..Cardinality(S) - 1
             /\ \A x, y \in S : ahead(x) = ahead(y) => x = y
             /\ \A n \in 0..Cardinality(S) - 1 : \E x \in S : ahead(x) = n
  <1> DEFINE N == Cardinality(S)
             Before(x) == {y \in S : <<y, x>> \in R}
             ahead(x) == Cardinality(Before(x))
  <1>1. N \in Nat
    BY FS_CardinalityType
  <1>2. ASSUME NEW x PROVE IsFiniteSet(Before(x)) /\ ahead(x) \in Nat /\ ahead(x) <= N
    <2>1. Before(x) \in SUBSET S
      OBVIOUS
    <2> HIDE DEF Before
    <2> QED
      BY <2>1, FS_Subset, FS_CardinalityType
  <1>3. ASSUME NEW x \in S PROVE ahead(x) \in 0..N - 1
    <2>1. Before(x) \in SUBSET S /\ x \notin Before(x)
      OBVIOUS
    <2> HIDE DEF Before
    <2>2. ahead(x) # N
      BY <2>1, FS_Subset
    <2> QED
      BY <1>1, <1>2, <2>2
  <1>4. ASSUME NEW x \in S, NEW y \in S, <<x, y>> \in R PROVE ahead(x) # ahead(y)
    <2>1. Before(x) \in SUBSET Before(y) /\ x \in Before(y) /\ x \notin Before(x)
      BY <1>4
    <2> HIDE DEF Before
    <2> QED
      BY <1>2, <2>1, FS_Subset
  <1>5. ASSUME NEW x \in S, NEW y \in S, ahead(x) = ahead(y) PROVE x = y
    BY <1>4, <1>5
  <1>6. ASSUME NEW n \in 0..N - 1 PROVE \E x \in S : ahead(x) = n
    <2> DEFINE f == [x \in S |-> ahead(x)]
    <2> HIDE DEF ahead
    <2>1. f \in Injection(S, 0..N - 1)
      BY <1>3, <1>5 DEF Injection, IsInjective
    <2>2. IsFiniteSet(0..N - 1) /\ Cardinality(0..N - 1) = N
      BY <1>1, FS_Interval
    <2>3. f \in Surjection(S, 0..N - 1)
      BY <2>1, <2>2, FS_Injection
    <2> QED
      BY <2>3 DEF Surjection
  <1> QED
    BY <1>3, <1>5, <1>6

\* Max of numbers that have a greatest one.
LEMMA MaxIs ==
  ASSUME NEW S \in SUBSET Nat, NEW x \in S, \A y \in S : x >= y
  PROVE  Max(S) = x
  <1>1. /\ Max(S) \in S
        /\ \A y \in S : Max(S) >= y
    BY DEF Max
  <1>2. Max(S) >= x /\ x >= Max(S) /\ Max(S) \in Nat /\ x \in Nat
    BY <1>1
  <1> QED
    BY <1>2

\* Finitely many numbers have a greatest one.
LEMMA Greatest ==
  ASSUME NEW S \in SUBSET Nat, IsFiniteSet(S), S # {}
  PROVE  \E x \in S : \A y \in S : x >= y
  <1> DEFINE R == {p \in Nat \X Nat : p[1] > p[2]}
             Before(x) == {y \in S : <<y, x>> \in R}
  <1>1. \A x, y \in Nat : <<x, y>> \in R <=> x > y
    OBVIOUS
  <1> HIDE DEF R
  <1>2. /\ \A x \in S : <<x, x>> \notin R
        /\ \A x, y, z \in S : <<x, y>> \in R /\ <<y, z>> \in R => <<x, z>> \in R
        /\ \A x, y \in S : x = y \/ <<x, y>> \in R \/ <<y, x>> \in R
    BY <1>1
  <1>3. Cardinality(S) \in Nat /\ Cardinality(S) # 0
    BY FS_CardinalityType, FS_EmptySet
  <1>4. \A n \in 0..Cardinality(S) - 1 : \E x \in S : Cardinality(Before(x)) = n
    BY <1>2, Compared
  <1>5. PICK x \in S : Cardinality(Before(x)) = 0
    BY <1>3, <1>4
  <1>6. IsFiniteSet(Before(x))
    BY FS_Subset
  <1>7. Before(x) = {}
    BY <1>5, <1>6, FS_EmptySet
  <1>8. ASSUME NEW y \in S PROVE x >= y
    <2>1. <<y, x>> \notin R
      BY <1>7
    <2>2. x \in Nat /\ y \in Nat
      OBVIOUS
    <2> QED
      BY <1>1, <2>1, <2>2
  <1> QED
    BY <1>8

\* A text has tokens, and some of them are read.
LEMMA TextFacts ==
  ASSUME NEW text \in Texts
  PROVE  /\ Length(text) \in Nat \ {0}
         /\ \A n \in 1..Length(text) : \A v \in Vocabulary : text[n][v] \in Nat
  <1> USE SparseEncodingAssumption
  <1>1. PICK k \in 1..MaxTokens : text \in [1..k -> Token]
    BY DEF Texts, Sized
  <1>2. Len(text) = k
    BY <1>1, LenProperties, IsASeq
  <1>3. MaxLength \in Nat \ {0}
    BY DEF MaxLength
  <1>4. Length(text) \in 1..k
    BY <1>2, <1>3 DEF Length
  <1>5. ASSUME NEW n \in 1..k, NEW v \in Vocabulary PROVE text[n][v] \in Nat
    BY <1>1 DEF Token
  <1> QED
    BY <1>4, <1>5

\* The zeros of the padding do not change the greatest weight.
LEMMA PaddingIsMasked ==
  ASSUME NEW text \in Texts, NEW width, NEW v \in Vocabulary
  PROVE  /\ Max(Weights(text, width, v)) = Max(Weights(text, Length(text), v))
         /\ Max(Weights(text, width, v)) \in Nat
  <1> USE SparseEncodingAssumption
  <1> DEFINE L == Length(text)
             A == {Relu(text[n][v]) : n \in 1..L}
  <1>1. L \in Nat \ {0} /\ \A n \in 1..L : Relu(text[n][v]) \in Nat
    BY TextFacts DEF Relu
  <1> HIDE DEF L
  <1>2. A \in SUBSET Nat /\ A # {}
    BY <1>1
  <1>3. IsFiniteSet(A)
    <2> DEFINE f == [n \in 1..L |-> Relu(text[n][v])]
    <2>1. f \in Surjection(1..L, A)
      BY DEF Surjection
    <2> HIDE DEF f, A
    <2> QED
      BY <1>1, <2>1, FS_Interval, FS_Surjection
  <1> HIDE DEF A
  <1>4. PICK x \in A : \A y \in A : x >= y
    BY <1>2, <1>3, Greatest
  <1>5. ASSUME NEW w PROVE Max(Weights(text, w, v)) = x
    <2> DEFINE W == Weights(text, w, v)
    <2>1. W = A \cup {0 : n \in L + 1..w}
      BY DEF Weights, A, L
    <2>2. \A y \in W : y \in A \/ y = 0
      BY <2>1
    <2>3. x \in W /\ x \in Nat /\ \A y \in A : y \in Nat
      BY <1>2, <1>4, <2>1
    <2> HIDE DEF W
    <2>4. W \in SUBSET Nat /\ \A y \in W : x >= y
      BY <1>4, <2>2, <2>3
    <2>5. Max(W) = x
      BY <2>3, <2>4, MaxIs
    <2> QED
      BY <2>5 DEF W
  <1> QED
    BY <1>2, <1>4, <1>5

\* So a text is pooled alike in every batch, to numbers.
LEMMA PooledAlike ==
  ASSUME NEW text \in Texts, NEW width
  PROVE  /\ Pooled(text, width) = Pooled(text, Length(text))
         /\ Pooled(text, width) \in [Vocabulary -> Nat]
  BY PaddingIsMasked DEF Pooled

\* At most top_k entries are among the greatest.
LEMMA TopKIsBounded ==
  ASSUME NEW vector \in [Vocabulary -> Nat]
  PROVE  /\ TopK(vector) \subseteq Vocabulary /\ IsFiniteSet(TopK(vector))
         /\ Cardinality(TopK(vector)) <= top_k
  <1> USE SparseEncodingAssumption
  <1> DEFINE R == {p \in Vocabulary \X Vocabulary :
                      vector[p[1]] > vector[p[2]] \/ (vector[p[1]] = vector[p[2]] /\ p[1] < p[2])}
             Before(v) == {u \in Vocabulary : <<u, v>> \in R}
             ahead(v) == Cardinality(Before(v))
  <1>1. \A u, v \in Vocabulary :
           <<u, v>> \in R <=> vector[u] > vector[v] \/ (vector[u] = vector[v] /\ u < v)
    OBVIOUS
  <1> HIDE DEF R
  <1>2. IsFiniteSet(Vocabulary) /\ \A v \in Vocabulary : v \in Nat /\ vector[v] \in Nat
    <2>1. Size - 1 \in Int /\ 0 \in Int
      OBVIOUS
    <2>2. IsFiniteSet(0..Size - 1)
      BY <2>1, FS_Interval
    <2> QED
      BY <2>2 DEF Vocabulary
  <1>3. /\ \A x \in Vocabulary : <<x, x>> \notin R
        /\ \A x, y, z \in Vocabulary : <<x, y>> \in R /\ <<y, z>> \in R => <<x, z>> \in R
        /\ \A x, y \in Vocabulary : x = y \/ <<x, y>> \in R \/ <<y, x>> \in R
    BY <1>1, <1>2
  <1>4. /\ \A v \in Vocabulary : ahead(v) \in 0..Cardinality(Vocabulary) - 1
        /\ \A u, v \in Vocabulary : ahead(u) = ahead(v) => u = v
    BY <1>2, <1>3, Compared
  <1>5. TopK(vector) = {v \in Vocabulary : ahead(v) < top_k}
    BY <1>1 DEF TopK
  <1> HIDE DEF ahead
  <1> DEFINE f == [v \in TopK(vector) |-> ahead(v)]
  <1>6. f \in Injection(TopK(vector), 0..top_k - 1)
    BY <1>4, <1>5 DEF Injection, IsInjective
  <1>7. IsFiniteSet(0..top_k - 1) /\ Cardinality(0..top_k - 1) = top_k
    BY FS_Interval
  <1> HIDE DEF f
  <1>8. IsFiniteSet(TopK(vector)) /\ Cardinality(TopK(vector)) <= top_k
    BY <1>6, <1>7, FS_Injection
  <1> QED
    BY <1>5, <1>8

\* A vector that Qdrant stores: between one and top_k entries, all above zero.
Storable(entries) ==
    /\ DOMAIN entries # {} /\ Cardinality(DOMAIN entries) <= top_k
    /\ \A v \in DOMAIN entries : entries[v] > 0

LEMMA NonZeroIsStorable ==
  ASSUME NEW vector \in [Vocabulary -> Nat]
  PROVE  Storable(SparseVector(NonZero(vector)))
  <1> USE SparseEncodingAssumption
  <1> DEFINE kept == {u \in TopK(vector) : vector[u] > 0}
             entries == NonZero(vector)
  <1>1. /\ kept \in SUBSET TopK(vector) /\ kept \subseteq Vocabulary
        /\ IsFiniteSet(TopK(vector)) /\ Cardinality(TopK(vector)) <= top_k
    BY TopKIsBounded
  <1>2. CASE kept = {}
    <2>1. entries = [v \in {unk_token_id} |-> 1]
      BY <1>2 DEF NonZero
    <2>2. DOMAIN entries = {unk_token_id} /\ unk_token_id \in Nat
      BY <2>1 DEF unk_token_id
    <2>3. SparseVector(entries) = entries
      BY <2>2 DEF SparseVector
    <2>4. Cardinality(DOMAIN entries) = 1
      BY <2>2, FS_Singleton
    <2> QED
      BY <2>1, <2>2, <2>3, <2>4 DEF Storable
  <1>3. CASE kept # {}
    <2>1. entries = [v \in kept |-> vector[v]]
      BY <1>3 DEF NonZero
    <2>2. DOMAIN entries = kept /\ kept \in (SUBSET Nat) \ {{}}
      BY <1>1, <1>3, <2>1 DEF Vocabulary
    <2>3. SparseVector(entries) = entries
      BY <2>2 DEF SparseVector
    <2>4. Cardinality(kept) \in Nat /\ Cardinality(TopK(vector)) \in Nat /\ Cardinality(kept) <= Cardinality(TopK(vector))
      BY <1>1, FS_Subset, FS_CardinalityType
    <2>5. Cardinality(DOMAIN entries) <= top_k
      BY <1>1, <2>2, <2>4
    <2> QED
      BY <1>3, <2>1, <2>2, <2>3, <2>5 DEF Storable
  <1> QED
    BY <1>2, <1>3

\* The encoder gives every batch the vectors of its texts alone.
LEMMA EncodedAlike ==
  ASSUME NEW given \in Seq(Texts)
  PROVE  encode_texts(given) = [n \in DOMAIN given |-> encode_text(given[n])]
  <1> DEFINE width == Max({Length(given[n]) : n \in DOMAIN given})
  <1> HIDE DEF width
  <1>1. ASSUME NEW n \in DOMAIN given
        PROVE  SparseVector(NonZero(Pooled(given[n], width))) = encode_text(given[n])
    <2>1. given[n] \in Texts
      BY LenProperties, ElementOfSeq
    <2> QED
      BY <2>1, PooledAlike DEF encode_text
  <1> QED
    BY <1>1 DEF encode_texts, width

\* An empty batch has the invariant, and each text that is added keeps it.
LEMMA InitEncoderInv == EncoderInit => EncoderInv
  BY DEF EncoderInit, EncoderInv, BatchEqualsSingle

LEMMA NextEncoderInv == EncoderInv /\ [EncoderNext]_encoderVars => EncoderInv'
  <1> SUFFICES ASSUME EncoderInv, [EncoderNext]_encoderVars PROVE EncoderInv'
    OBVIOUS
  <1>1. CASE Add
    <2>1. PICK text \in Texts : texts' = Append(texts, text)
      BY <1>1 DEF Add, Texts
    <2>2. texts' \in Seq(Texts)
      BY <2>1, AppendProperties DEF EncoderInv
    <2>3. encode_texts(texts') = [n \in DOMAIN texts' |-> encode_text(texts'[n])]
      BY <2>2, EncodedAlike
    <2> QED
      BY <1>1, <2>2, <2>3 DEF EncoderInv, BatchEqualsSingle, Add
  <1>2. CASE UNCHANGED encoderVars
    BY <1>2 DEF encoderVars, EncoderInv, BatchEqualsSingle, encode_text
  <1> QED
    BY <1>1, <1>2 DEF EncoderNext

\* A text has the same vector alone and in any batch, whatever the padding.
THEOREM EncoderBatchEqualsSingle == EncoderSpec => []BatchEqualsSingle
  <1>1. EncoderInv => BatchEqualsSingle
    BY DEF EncoderInv
  <1> QED
    BY <1>1, InitEncoderInv, NextEncoderInv, PTL DEF EncoderSpec

\* No vector is empty or has more than top_k entries, or one that is not positive.
THEOREM EncoderVectorsAreStorable == EncoderSpec => []VectorsAreStorable
  <1>1. EncoderInv => VectorsAreStorable
    <2> SUFFICES ASSUME EncoderInv, NEW n \in DOMAIN vectors PROVE Storable(vectors[n])
      BY DEF VectorsAreStorable, Storable
    <2>1. n \in DOMAIN texts /\ vectors[n] = encode_text(texts[n])
      BY DEF EncoderInv, BatchEqualsSingle
    <2>2. texts[n] \in Texts
      BY <2>1, LenProperties, ElementOfSeq DEF EncoderInv
    <2>3. Pooled(texts[n], Length(texts[n])) \in [Vocabulary -> Nat]
      BY <2>2, PooledAlike
    <2> QED
      BY <2>1, <2>3, NonZeroIsStorable DEF encode_text
  <1> QED
    BY <1>1, InitEncoderInv, NextEncoderInv, PTL DEF EncoderSpec
===============================================================================
