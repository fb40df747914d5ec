---------------------------- MODULE HybridSearch ----------------------------
(***************************************************************************)
(* A search: the gateway's POST /search and scripts/search_images.py over  *)
(* QdrantImageIndex.  With diagnostics it is three queries, one for each   *)
(* kind of vector, answered one after the other while the consumer writes, *)
(* and their answers are fused by reciprocal rank on the client.  Qdrant   *)
(* is external: for the query at hand a channel is a ranking of the images *)
(* that have a matching vector of that kind.  A score w / (k + rank) is    *)
(* kept as an integer, Scale times as large, and exact where Scale is      *)
(* divisible by every k + rank that occurs.  ensure_collection, with which *)
(* a search begins, is in VectorIndex.                                     *)
(***************************************************************************)
EXTENDS Naturals, FiniteSets, SequencesExt

CONSTANTS
    Images,
    Limits,      \* limits that a caller asks for
    Overrides,   \* weights that a caller of the API asks for
    Scale,       \* of the scores
    MaxUpserts   \* bound: points written

ASSUME HybridSearchAssumption ==
    /\ IsFiniteSet(Images) /\ Limits \subseteq Nat /\ Overrides \subseteq Nat \ {0}
    /\ Scale \in Nat /\ MaxUpserts \in Nat

Channel == {"dense", "ocr", "florence"}
RRF_K == 1
DEFAULT_RRF_WEIGHTS == [dense |-> 4, ocr |-> 2, florence |-> 1]

VARIABLES
    ranking,   \* of each channel: the images it finds, the best one first
    request,   \* [via, limit, weights] of the latest search
    at,        \* "idle", the channel that is queried next, "fuse", "done" or "plain"
    answers,   \* of each channel: the images it found for this search
    results,   \* sequence of [image, score]
    explained, \* of each result: the share of each channel shown beside it
    known,     \* history: images indexed when the search began
    upserts

vars == <<ranking, request, at, answers, results, explained, known, upserts>>

Indexed == ToSet(ranking["dense"])
Rankings(S) == UNION {SetToSeqs(T) : T \in SUBSET S}
Nothing == [c \in Channel |-> <<>>]
NoRequest == [via |-> "api", limit |-> 0, weights |-> DEFAULT_RRF_WEIGHTS]

\* Any points may be there at the start; a channel names an image once, and the
\* sparse ones no other images than the dense one.
Init ==
    /\ ranking \in [Channel -> Rankings(Images)]
    /\ \A c \in Channel : ToSet(ranking[c]) \subseteq Indexed
    /\ request = NoRequest /\ at = "idle" /\ answers = Nothing /\ results = <<>> /\ explained = <<>>
    /\ known = {} /\ upserts = 0

-----------------------------------------------------------------------------
\* What the hit with this rank, counted from 1, adds to its image's score.
Share(weight, rank) == (Scale * weight) \div (RRF_K + rank)

RankIn(c, i) ==
    LET ranks == DOMAIN answers[c]
    IN IF \E n \in ranks : answers[c][n] = i THEN CHOOSE n \in ranks : answers[c][n] = i ELSE 0
ShareIn(c, i, weights) ==
    LET rank == RankIn(c, i)
    IN IF rank = 0 THEN 0 ELSE Share(weights[c], rank)
SumOfShares(i, weights) ==
    ShareIn("dense", i, weights) + ShareIn("ocr", i, weights) + ShareIn("florence", i, weights)

\* Mistake: a later channel's share replaces an earlier one's.
LastShare(i) ==
    LET last == IF RankIn("florence", i) # 0 THEN "florence"
                ELSE IF RankIn("ocr", i) # 0 THEN "ocr" ELSE "dense"
    IN ShareIn(last, i, request.weights)

\* Mistake: the index takes its own weights, whatever the request says.
DefaultScore(i) == SumOfShares(i, DEFAULT_RRF_WEIGHTS)

\* fused_scores: the shares of an image added up over the channels.
Score(i) == SumOfShares(i, request.weights)

\* The images that some channel found, and where each of them comes first when
\* the answers are gone through one after the other.
Hits == UNION {ToSet(answers[c]) : c \in Channel}
FirstHit(i) ==
    IF RankIn("dense", i) # 0 THEN RankIn("dense", i)
    ELSE IF RankIn("ocr", i) # 0 THEN Len(answers["dense"]) + RankIn("ocr", i)
    ELSE Len(answers["dense"]) + Len(answers["ocr"]) + RankIn("florence", i)

\* sorted by score with reverse=True, which keeps equal ones in their order: the
\* n-th image is the one that n - 1 others are ahead of.
Ahead(i, j) ==
    LET a == Score(i)
        b == Score(j)
    IN a > b \/ (a = b /\ FirstHit(i) < FirstHit(j))
Sorted(S) ==
    LET before == [i \in S |-> Cardinality({j \in S : Ahead(j, i)})]
    IN [n \in 1..Cardinality(S) |-> CHOOSE i \in S : before[i] = n - 1]

\* Mistake: images that a channel does not know are left out.
FusedOfAll == Sorted({i \in Hits : \A c \in Channel : RankIn(c, i) # 0})

\* Every image that some channel found.
Fused == Sorted(Hits)

UpTo(limit, s) == SubSeq(s, 1, IF Len(s) < limit THEN Len(s) ELSE limit)

\* The shares that the API shows, _build_breakdowns, and search_images.py
\* --explain, which has the default weights.
Explanation(i) ==
    LET weights == IF request.via = "api" THEN request.weights ELSE DEFAULT_RRF_WEIGHTS
    IN [c \in Channel |-> ShareIn(c, i, weights)]

\* weights_tuple: the request's own weights, and the default of the others.
Weights(overrides) ==
    [c \in Channel |-> IF c \in DOMAIN overrides THEN overrides[c] ELSE DEFAULT_RRF_WEIGHTS[c]]
Overriding == UNION {[D -> Overrides] : D \in SUBSET Channel}

-----------------------------------------------------------------------------
\* The script has no options for the weights.
Begin(via, limit, overrides) ==
    /\ at = "idle"
    /\ via = "script" => DOMAIN overrides = {}
    /\ request' = [via |-> via, limit |-> limit, weights |-> Weights(overrides)]
    /\ at' = "dense" /\ known' = Indexed
    /\ UNCHANGED <<ranking, answers, results, explained, upserts>>

\* query_points with the vectors of one channel.
Query(c) ==
    /\ at = c
    /\ answers' = [answers EXCEPT ![c] = UpTo(request.limit, ranking[c])]
    /\ at' = CASE c = "dense" -> "ocr" [] c = "ocr" -> "florence" [] OTHER -> "fuse"
    /\ UNCHANGED <<ranking, request, results, explained, known, upserts>>

\* The caller gets the answer, or none when a service or Qdrant fails or the query
\* is blank; nothing of the search remains.
Return ==
    /\ at # "idle" /\ at' = "idle"
    /\ request' = NoRequest /\ answers' = Nothing /\ results' = <<>> /\ explained' = <<>>
    /\ known' = {}
    /\ UNCHANGED <<ranking, upserts>>

\* The answers are fused, cut to the limit and explained.
Fuse ==
    /\ at = "fuse" /\ at' = "done"
    /\ LET best == UpTo(request.limit, Fused)
       IN /\ results' = [n \in 1..Len(best) |-> [image |-> best[n], score |-> Score(best[n])]]
          /\ explained' = [n \in 1..Len(best) |-> Explanation(best[n])]
    /\ UNCHANGED <<ranking, request, answers, known, upserts>>

\* Qdrant's own fusion: as many images as there may be, by a formula and in an
\* order that are not the repository's.
NativeFusion(limit, found) ==
    LET size == IF Cardinality(found) < limit THEN Cardinality(found) ELSE limit
    IN UNION {SetToSeqs(T) : T \in {S \in SUBSET found : Cardinality(S) = size}}

\* search, without diagnostics: one query with a prefetch for each channel.
PlainSearch(limit) ==
    /\ at = "idle" /\ at' = "plain" /\ limit >= 1
    /\ request' = [via |-> "api", limit |-> limit, weights |-> DEFAULT_RRF_WEIGHTS]
    /\ known' = Indexed
    /\ answers' = [c \in Channel |-> UpTo(limit, ranking[c])]
    /\ \E best \in NativeFusion(limit, UNION {ToSet(answers'[c]) : c \in Channel}) :
          results' = [n \in 1..Len(best) |-> [image |-> best[n], score |-> 0]]
    /\ UNCHANGED <<ranking, explained, upserts>>

\* Where an image may come in the ranking of a channel; in a sparse one it has no
\* place when its text has nothing of the query or there is no OCR text.
Without(r, i) == IF i \in ToSet(r) THEN RemoveAt(r, CHOOSE n \in DOMAIN r : r[n] = i) ELSE r
Placements(c, i) ==
    LET others == Without(ranking[c], i)
    IN {InsertAt(others, k, i) : k \in 1..(Len(others) + 1)} \cup IF c = "dense" THEN {} ELSE {others}

\* A point is written.
Upsert(i) ==
    /\ upserts < MaxUpserts /\ upserts' = upserts + 1
    /\ LET places == [c \in Channel |-> Placements(c, i)]
       IN \E d \in places["dense"], o \in places["ocr"], f \in places["florence"] :
             ranking' = [dense |-> d, ocr |-> o, florence |-> f]
    /\ UNCHANGED <<request, at, answers, results, explained, known>>

Next ==
    \/ \E via \in {"api", "script"}, limit \in Limits, o \in Overriding : Begin(via, limit, o)
    \/ \E c \in Channel : Query(c)
    \/ \E limit \in Limits : PlainSearch(limit)
    \/ Fuse
    \/ Return
    \/ \E i \in Images : Upsert(i)

Spec == Init /\ [][Next]_vars

\* Nothing tells images apart but their places in the rankings.
Symmetry == Permutations(Images)

-----------------------------------------------------------------------------
Shown == {results[n].image : n \in 1..Len(results)}

\* A search that asks for as many images as there are misses none that was
\* indexed when it began, whatever is written between its three queries.
NobodyIsLost ==
    at \in {"done", "plain"} /\ Len(ranking["dense"]) <= request.limit => known \subseteq Shown

\* Unless the sparse channels together outweigh the dense one, which by default
\* they do not, the best dense hit is shown even when the limit is 1.
FirstDenseHitIsShown ==
    at = "done" /\ answers["dense"] # <<>>
        /\ request.weights["ocr"] + request.weights["florence"] <= request.weights["dense"]
    => answers["dense"][1] \in Shown

\* An image that is ahead of another one wherever that one was found is shown
\* ahead of it, or in its stead.
DominanceIsKept ==
    at = "done" =>
        \A i \in Hits, j \in Shown :
            /\ i # j
            /\ \A c \in Channel : RankIn(c, j) # 0 => RankIn(c, i) \in 1..(RankIn(c, j) - 1)
            => \E m, n \in 1..Len(results) : m < n /\ results[m].image = i /\ results[n].image = j

\* The shares shown beside a result, which are computed a second time from the
\* channels' answers, add up to the score that it was sorted by.
ScoresAreExplained ==
    at = "done" => \A n \in 1..Len(results) :
        results[n].score = explained[n]["dense"] + explained[n]["ocr"] + explained[n]["florence"]
=============================================================================
