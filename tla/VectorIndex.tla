---------------------------- MODULE VectorIndex -----------------------------
(***************************************************************************)
(* QdrantImageIndex and the collection it keeps in Qdrant.  The gateway    *)
(* has two instances, one for the threads of the search API and one for    *)
(* the consumer, and each script has its own; every instance remembers     *)
(* with _collection_ready that it has seen the collection.  Qdrant itself  *)
(* is external: a collection has the dimension it was created with, a      *)
(* point id is an unsigned integer or a UUID, and anything else is refused.*)
(***************************************************************************)
EXTENDS Naturals, FiniteSets

CONSTANTS
    Writers,     \* threads that upsert, each with an instance of its own
    Keyed,       \* writers whose ids are object keys: the gateway's consumer
    Searchers,   \* threads of the search API, which share an instance
    Images,
    Dims,        \* dimensions of the dense models in use
    MaxDrops,    \* bound: times that the collection is lost behind the clients
    MaxFaults    \* bound: failed calls of Qdrant, and restarts of a process

ASSUME VectorIndexAssumption ==
    /\ Keyed \subseteq Writers /\ Writers \cap Searchers = {} /\ "search" \notin Writers
    /\ Dims \subseteq Nat \ {0} /\ Dims # {}
    /\ MaxDrops \in Nat /\ MaxFaults \in Nat

Threads == Writers \cup Searchers
Clients == Writers \cup {"search"}
Client(t) == IF t \in Writers THEN t ELSE "search"

VARIABLES
    collection,  \* its dimension, or 0 when it does not exist
    points,      \* ids of the points in it
    dim,         \* dimension of the vectors of each client's dense model
    ready,       \* _collection_ready of each instance
    at,          \* each thread: "idle", "exists", "create" or "call"
    batch,       \* images of the documents a writer upserts
    stored,      \* history: ids of which an upsert returned
    refused,     \* history: why Qdrant refused a call, and whose
    drops, faults

vars == <<collection, points, dim, ready, at, batch, stored, refused, drops, faults>>

\* ImageId.from_object_key and ImageId.from_path, which makes a UUID.
PointId(w, i) == IF w \in Keyed THEN <<"key", i>> ELSE <<"uuid", i>>
Ids == {"key", "uuid"} \X Images
Accepted == {"uuid"} \X Images

\* Types of the collection, of the instances and of the threads.
TypeOK ==
    /\ collection \in Dims \cup {0}
    /\ points \subseteq Ids /\ stored \subseteq Ids
    /\ dim \in [Clients -> Dims] /\ ready \in [Clients -> BOOLEAN]
    /\ at \in [Threads -> {"idle", "exists", "create", "call"}]
    /\ batch \in [Threads -> SUBSET Images]
    /\ refused \subseteq (Clients \X {"missing", "dimension", "id"})
    /\ drops \in 0..MaxDrops /\ faults \in 0..MaxFaults

Init ==
    /\ collection = 0 /\ points = {}
    /\ dim \in [Clients -> Dims]
    /\ ready = [c \in Clients |-> FALSE]
    /\ at = [t \in Threads |-> "idle"] /\ batch = [t \in Threads |-> {}]
    /\ stored = {} /\ refused = {} /\ drops = 0 /\ faults = 0

-----------------------------------------------------------------------------
Goto(t, label) == at' = [at EXCEPT ![t] = label]
Ready(t) == ready' = [ready EXCEPT ![Client(t)] = TRUE]
Refuse(t, why) == refused' = refused \cup {<<Client(t), why>>}
BatchIds(w) == {PointId(w, i) : i \in batch[w]}

(***************************************************************************)
(* Plausible mistakes, each of which breaks one of the properties.         *)
(***************************************************************************)

\* The flag is set when the collection is asked for, not when it is there.
CheckExistsReady(t) ==
    /\ at[t] = "exists"
    /\ Ready(t)
    /\ Goto(t, IF collection # 0 THEN "call" ELSE "create")
    /\ UNCHANGED <<collection, points, dim, batch, stored, refused, drops, faults>>

\* recreate_collection instead of create_collection.
CreateAnew(t) ==
    /\ at[t] = "create"
    /\ collection' = dim[Client(t)] /\ points' = {}
    /\ Ready(t) /\ Goto(t, "call")
    /\ UNCHANGED <<dim, batch, stored, refused, drops, faults>>

\* The number of documents is taken for the dimension of their vectors.
CreateOfCount(t) ==
    /\ at[t] = "create"
    /\ collection' = IF collection = 0 THEN Cardinality(batch[t]) ELSE collection
    /\ Ready(t) /\ Goto(t, "call")
    /\ UNCHANGED <<points, dim, batch, stored, refused, drops, faults>>

\* upsert returns together with ensure_collection when the flag is set.
BeginUpsertOnce(w, S) ==
    /\ at[w] = "idle" /\ S # {} /\ ~ready[w]
    /\ batch' = [batch EXCEPT ![w] = S]
    /\ Goto(w, "exists")
    /\ UNCHANGED <<collection, points, dim, ready, stored, refused, drops, faults>>

-----------------------------------------------------------------------------
\* upsert of some documents; without documents it returns at once.
BeginUpsert(w, S) ==
    /\ at[w] = "idle" /\ S # {}
    /\ batch' = [batch EXCEPT ![w] = S]
    /\ Goto(w, IF ready[w] THEN "call" ELSE "exists")
    /\ UNCHANGED <<collection, points, dim, ready, stored, refused, drops, faults>>

\* search and search_with_diagnostics; they too create the collection.
BeginSearch(t) ==
    /\ at[t] = "idle"
    /\ Goto(t, IF ready["search"] THEN "call" ELSE "exists")
    /\ UNCHANGED <<collection, points, dim, ready, batch, stored, refused, drops, faults>>

\* ensure_collection, its first call: collection_exists.
CheckExists(t) ==
    /\ at[t] = "exists"
    /\ IF collection # 0
       THEN Ready(t) /\ Goto(t, "call")
       ELSE UNCHANGED ready /\ Goto(t, "create")
    /\ UNCHANGED <<collection, points, dim, batch, stored, refused, drops, faults>>

\* ensure_collection, its second call: create_collection, with "already exists"
\* for an answer when another client was faster.
Create(t) ==
    /\ at[t] = "create"
    /\ collection' = IF collection = 0 THEN dim[Client(t)] ELSE collection
    /\ Ready(t) /\ Goto(t, "call")
    /\ UNCHANGED <<points, dim, batch, stored, refused, drops, faults>>

\* client.upsert: all the points of the batch, or an error.
Upsert(w) ==
    /\ w \in Writers /\ at[w] = "call"
    /\ \/ /\ collection = dim[w] /\ BatchIds(w) \subseteq Accepted
          /\ points' = points \cup BatchIds(w) /\ stored' = stored \cup BatchIds(w)
          /\ UNCHANGED refused
       \/ /\ collection = 0 /\ Refuse(w, "missing") /\ UNCHANGED <<points, stored>>
       \/ /\ collection \notin {0, dim[w]} /\ Refuse(w, "dimension") /\ UNCHANGED <<points, stored>>
       \/ /\ ~(BatchIds(w) \subseteq Accepted) /\ Refuse(w, "id") /\ UNCHANGED <<points, stored>>
    /\ Goto(w, "idle")
    /\ UNCHANGED <<collection, dim, ready, batch, drops, faults>>

\* client.query_points.
Query(t) ==
    /\ t \in Searchers /\ at[t] = "call"
    /\ \/ collection = dim["search"] /\ UNCHANGED refused
       \/ collection = 0 /\ Refuse(t, "missing")
       \/ collection \notin {0, dim["search"]} /\ Refuse(t, "dimension")
    /\ Goto(t, "idle")
    /\ UNCHANGED <<collection, points, dim, ready, batch, stored, drops, faults>>

\* Qdrant does not answer: the exception leaves upsert or search.
CallFails(t) ==
    /\ at[t] # "idle" /\ faults < MaxFaults /\ faults' = faults + 1
    /\ Goto(t, "idle")
    /\ UNCHANGED <<collection, points, dim, ready, batch, stored, refused, drops>>

\* A client's process is restarted.
Restart(c) ==
    /\ faults < MaxFaults /\ faults' = faults + 1
    /\ ready' = [ready EXCEPT ![c] = FALSE]
    /\ at' = [t \in Threads |-> IF Client(t) = c THEN "idle" ELSE at[t]]
    /\ UNCHANGED <<collection, points, dim, batch, stored, refused, drops>>

\* Qdrant's container is made anew, without the volume that compose.yaml leaves
\* out, or somebody deletes the collection.
Drop ==
    /\ drops < MaxDrops /\ drops' = drops + 1
    /\ collection' = 0 /\ points' = {}
    /\ UNCHANGED <<dim, ready, at, batch, stored, refused, faults>>

Step(t) == CheckExists(t) \/ Create(t) \/ Upsert(t) \/ Query(t)

Next ==
    \/ \E w \in Writers, S \in SUBSET Images : BeginUpsert(w, S)
    \/ \E t \in Searchers : BeginSearch(t)
    \/ \E t \in Threads : Step(t) \/ CallFails(t)
    \/ \E c \in Clients : Restart(c)
    \/ Drop

Spec == Init /\ [][Next]_vars

\* A call of Qdrant ends, and a writer goes on with batches of every kind: the
\* jobs whose upsert failed are requeued, a script is started again.
Fairness ==
    /\ \A t \in Threads : WF_vars(Step(t))
    /\ \A w \in Writers, i \in Images : SF_vars(BeginUpsert(w, {i}))
FairSpec == Spec /\ Fairness

-----------------------------------------------------------------------------
\* An instance that skips ensure_collection has a collection behind it, also
\* when several find it missing at the same time.
ReadyMeansCollection == drops = 0 => \A c \in Clients : ready[c] => collection # 0

\* What an upsert stored stays, whoever ensures the collection afterwards.
StoredPointsSurvive == drops = 0 => stored \subseteq points

\* Racing for the creation is no error: nobody's call finds the collection
\* missing, and the dimension is wrong for clients of another model only.
RacesAreNoErrors ==
    /\ drops = 0 => \A c \in Clients : <<c, "missing">> \notin refused
    /\ (\A c, d \in Clients : dim[c] = dim[d]) => \A c \in Clients : <<c, "dimension">> \notin refused

\* The collection keeps the dimension its first client gave it.
DimensionIsKept == [][drops' = drops /\ collection # 0 => collection' = collection]_vars

\* An instance that is made anew stores what it upserts again and again, unless
\* the collection is lost once more or is made for another model's vectors.  One
\* that has its flag set when it is lost stores nothing any more: the flag is
\* never reset.
RetriedImagesAreStored ==
    \A w \in Writers \ Keyed, i \in Images, n \in 0..MaxDrops :
        (drops = n /\ ~ready[w])
            ~> (PointId(w, i) \in points \/ drops > n \/ collection \notin {0, dim[w]})
=============================================================================
