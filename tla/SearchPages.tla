---------------------------- MODULE SearchPages ----------------------------
(***************************************************************************)
(* A client pages through the results of one query, plain or composed with *)
(* a modifier, while the collection grows and other clients ask the same.  *)
(*                                                                         *)
(* Recall ranks the points by their similarity to the query; a composed    *)
(* query has the best of them ranked anew by ai-service, by the blend of   *)
(* the similarities to the query and to the modifier.  (Reranking without  *)
(* a modifier repeats the similarity of recall.)  Pages are cached under   *)
(* the tenant's index version, which a worker bumps after its write; the   *)
(* steps of a search among those of the workers are in QueryService.       *)
(***************************************************************************)
EXTENDS Naturals, Sequences, FiniteSets, SequencesExt

CONSTANTS
  Points,     \* 1 .. n, by their similarity to the query: n is the closest
  Matching,   \* the points whose payload equals the filters
  Leanings,   \* possible similarities to a modifier, in the same unit
  TopKs,      \* top_k of a request
  MinScores,  \* min_score of a request
  MaxAsks,    \* bound on the requests of other clients
  NoModifier

ASSUME SearchPagesAssumption ==
  /\ IsFiniteSet(Points) /\ Points = 1 .. Cardinality(Points)
  /\ Matching \subseteq Points
  /\ Leanings \subseteq Nat
  /\ TopKs \subseteq Nat \ {0}
  /\ MinScores \subseteq Nat
  /\ MaxAsks \in Nat

VARIABLES
  topK, minScore, \* of the client's requests
  modifier,       \* the similarity of each point to the modifier
  collection,     \* the points indexed so far
  announced,      \* the version has been bumped since the last write
  cache,          \* the pages cached under the current version, by offset
  asks,           \* requests of other clients so far
  offset,         \* of the client's next request
  results,        \* what it has got so far
  done,           \* its last page was empty
  quiet           \* no write was under way or came since it began (history)

pageVars == <<topK, minScore, modifier, collection, announced, cache, asks,
              offset, results, done, quiet>>

RERANK_CANDIDATE_MULTIPLIER == 3

Offsets == {n \in 0 .. Cardinality(Points) + topK : n % topK = 0}
NotCached == <<0>>

PagesTypeOK ==
  /\ topK \in TopKs /\ minScore \in MinScores
  /\ modifier \in [Points -> Leanings] \cup {NoModifier}
  /\ collection \subseteq Points
  /\ announced \in BOOLEAN /\ done \in BOOLEAN /\ quiet \in BOOLEAN
  /\ DOMAIN cache = Offsets
  /\ asks \in 0 .. MaxAsks
  /\ offset \in Offsets
  /\ Range(results) \subseteq Points

PagesInit ==
  /\ topK \in TopKs /\ minScore \in MinScores
  /\ modifier \in [Points -> Leanings] \cup {NoModifier}
  /\ collection \in SUBSET Points
  /\ announced \in BOOLEAN
  /\ cache = [o \in Offsets |-> NotCached]
  /\ asks = 0
  /\ offset = 0
  /\ results = <<>>
  /\ done = FALSE
  /\ quiet = announced

-----------------------------------------------------------------------------
(* Recall, rerank, and the page                                            *)

Composed == modifier # NoModifier

Similarity == [i \in Points |-> i]

\* CosineBlendReranker; the client sends it the hits that have vectors, which are
\* all.  modifier_weight is 0.5: twice the score, so as to stay with the numbers.
Score == [i \in Points |-> IF Composed THEN i + modifier[i] ELSE 2 * i]

\* hits.sort(key=score, reverse=True) is stable: ties keep the order of recall.
Ahead(score, i, j) == score[i] > score[j] \/ (score[i] = score[j] /\ i > j)

\* The place of a point among those of S, and S in that order.
RankIn(S, score, i) == Cardinality({j \in S : Ahead(score, j, i)}) + 1
RankedBy(S, score) ==
  [k \in 1 .. Cardinality(S) |-> CHOOSE i \in S : RankIn(S, score, i) = k]

\* Mutant: only one page is fetched.
FetchOnePage(o) == topK

Fetch(o) == (topK + o) * IF Composed THEN RERANK_CANDIDATE_MULTIPLIER ELSE 1

\* The search of the vector store, with its filter and limit.
Hits(o) ==
  LET candidates == collection \cap Matching
  IN {i \in candidates : RankIn(candidates, Similarity, i) <= Fetch(o)}

Passing(S) == {i \in S : Score[i] >= minScore}

\* What _run computes for a page.  Every hit comes back from the reranker; the test
\* of the score keeps their order.
Page(o) ==
  LET ranked == RankedBy(Passing(Hits(o)), Score)
      end == IF o + topK < Len(ranked) THEN o + topK ELSE Len(ranked)
  IN SubSeq(ranked, o + 1, end)

CachedOrNew(o) == IF cache[o] # NotCached THEN cache[o] ELSE Page(o)

Ask(o) == cache' = [cache EXCEPT ![o] = CachedOrNew(o)]

NextPage ==
  /\ ~done /\ offset + topK \in Offsets
  /\ Ask(offset)
  /\ results' = results \o CachedOrNew(offset)
  /\ done' = (CachedOrNew(offset) = <<>>)
  /\ offset' = offset + topK
  /\ UNCHANGED <<topK, minScore, modifier, collection, announced, asks, quiet>>

OtherClientAsks(o) ==
  /\ asks < MaxAsks
  /\ asks' = asks + 1
  /\ Ask(o)
  /\ UNCHANGED <<topK, minScore, modifier, collection, announced, offset, results,
                 done, quiet>>

-----------------------------------------------------------------------------
(* The workers                                                             *)

Write(i) ==
  /\ i \notin collection
  /\ collection' = collection \cup {i}
  /\ announced' = FALSE
  /\ quiet' = FALSE
  /\ UNCHANGED <<topK, minScore, modifier, cache, asks, offset, results, done>>

\* The pages of older versions are never read again.
Bump ==
  /\ ~announced
  /\ announced' = TRUE
  /\ cache' = [o \in Offsets |-> NotCached]
  /\ quiet' = (quiet \/ offset = 0)
  /\ UNCHANGED <<topK, minScore, modifier, collection, asks, offset, results, done>>

PagesNext ==
  \/ NextPage \/ \E o \in Offsets : OtherClientAsks(o)
  \/ \E i \in Points : Write(i)
  \/ Bump

PagesSpec == PagesInit /\ [][PagesNext]_pageVars

-----------------------------------------------------------------------------
(* What paging promises                                                    *)

Everything == RankedBy(Passing(collection \cap Matching), Score)

FitsShortlist ==
  Cardinality(collection \cap Matching) <= RERANK_CANDIDATE_MULTIPLIER * topK

\* While the index is at rest the pages are one ranking cut in pieces: a client
\* gets every result once, in order, whatever other clients have had cached.  For
\* a composed query this takes a shortlist as large as the collection from the
\* first page on: later pages rank larger shortlists anew.
PagesPartitionTheRanking ==
  done /\ quiet /\ (Composed => FitsShortlist) => results = Everything
=============================================================================
