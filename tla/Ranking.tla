------------------------------ MODULE Ranking ------------------------------
(***************************************************************************)
(* Scores and filters (vectoria-core/src/search/scoring.rs).  Signals are  *)
(* in thousandths, weights too, so that scores are in millionths, rounded  *)
(* down.  Products are numbered in the order of their ids.                 *)
(***************************************************************************)
EXTENDS Integers, Sequences, FiniteSets, SequencesExt, FiniteSetsExt

RRF_K == 60

DefaultWeights == [semantic |-> 700, bm25 |-> 300, popularity |-> 200,
                   availability |-> 50, margin |-> 50, query_ctr |-> 150]

\* CandidateScore::default()
NoScore == [semantic |-> 0, bm25 |-> 0, semantic_rank |-> 0, bm25_rank |-> 0]

RRF(rank, weight) == IF rank = 0 THEN 0 ELSE (weight * 1000) \div (RRF_K + rank)

\* ncd_similarity(): compression sees what two texts share; here, their terms.
Ncd(a, b) ==
  IF a = {} \/ b = {} THEN 0 ELSE (1000 * Cardinality(a \cap b)) \div Cardinality(a \cup b)

Get(metadata, field, default) == IF field \in DOMAIN metadata THEN metadata[field] ELSE default

Score(c, ncd, metadata, popularity, ctr, w) ==
  RRF(c.semantic_rank, w.semantic) + RRF(c.bm25_rank, w.bm25) + (ncd * w.bm25) \div 2
    + popularity * w.popularity
    + (IF Get(metadata, "in_stock", TRUE) THEN 1000 ELSE 0) * w.availability
    + Get(metadata, "margin", 0) * w.margin
    + ctr * w.query_ctr

\* get_query_ctrs(): clicks after this query, relative to the product with most.
Ctr(clicks, p) ==
  LET most == Max({clicks[x] : x \in DOMAIN clicks} \cup {0}) IN
  IF p \notin DOMAIN clicks \/ most = 0 THEN 0 ELSE (1000 * clicks[p]) \div most

-----------------------------------------------------------------------------
RangeKeys == {"price_max", "price_min"}

\* A product without a price is above any price_max and below any price_min.
MatchesFilters(metadata, filters) ==
  \A f \in DOMAIN filters :
    CASE f = "price_max" -> "price" \in DOMAIN metadata /\ metadata.price <= filters[f]
      [] f = "price_min" -> Get(metadata, "price", 0) >= filters[f]
      [] OTHER           -> f \in DOMAIN metadata /\ metadata[f] = filters[f]

\* to_facet_filters() and extract_facets(): what the text index filters itself.
MatchesFacets(metadata, filters) ==
  \A f \in DOMAIN filters \ RangeKeys : f \in DOMAIN metadata /\ metadata[f] = filters[f]

-----------------------------------------------------------------------------
\* All the orders that the score alone leaves open, and (score DESC, id ASC).
SortedByScore(S, score) ==
  {s \in SetToSeqs(S) : \A i, j \in DOMAIN s : i < j => score[s[i]] >= score[s[j]]}
Sorted(S, score) ==
  {s \in SortedByScore(S, score) : \A i, j \in DOMAIN s :
     i < j /\ score[s[i]] = score[s[j]] => s[i] < s[j]}

RankIn(s, p) == SelectInSeq(s, LAMBDA x : x = p)

\* The k best of S; which of those with equal scores is up to the index.
TopK(S, score, k) ==
  {R \in SUBSET S : /\ Cardinality(R) = Min({k, Cardinality(S)})
                    /\ \A p \in R, x \in S \ R : score[p] >= score[x]}
=============================================================================
