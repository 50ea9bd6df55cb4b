------------------------------- MODULE Search -------------------------------
(***************************************************************************)
(* SearchEngine::search() (vectoria-core/src/search/mod.rs) from the       *)
(* request to the response, an action per await: query understanding, the  *)
(* two retrievals, the second one for a query that found little, scoring   *)
(* against the products' rows, overrides, page and cache.  similar(),      *)
(* related_products() and the tail of recommend() go through a list of ids *)
(* instead.  Meanwhile a product comes or goes, store by store, in the     *)
(* order of index() and delete() (see Catalog).                            *)
(***************************************************************************)
EXTENDS Lexicon, Ranking, OverrideRanking

CONSTANTS
  Cases,     \* what is searched: see Init
  Tables,    \* Tables[n]: what the override tables of a case may hold
  MaxLimit, MaxOffset, MaxPool, \* MAX_LIMIT, MAX_OFFSET, MAX_CANDIDATE_POOL
  TopN       \* how many hits are reranked (50)

\* What the calls of a case may be about.
ASSUME SearchAssumption ==
  /\ {MaxLimit, MaxOffset, MaxPool, TopN} \subseteq Nat
  /\ \A c \in Cases :
       /\ DOMAIN c.products \subseteq Products /\ c.there \subseteq DOMAIN c.products
       /\ c.churn \in Seq({"rows", "vectors", "texts"} \X (DOMAIN c.products) \X BOOLEAN)
       /\ c.calls \in Seq(Range(c.calls)) \ {<<>>}
       /\ \A r \in Range(c.calls) : {r.limit, r.offset, r.pool} \subseteq Nat
       /\ \A g \in Tables[c.overrides] : g.pins \cup g.slots \subseteq Targets

\* Finitely many products; texts are sequences, and what is scored are numbers.
IsText(q) == q \in Seq(Range(q))
ASSUME DataAssumption ==
  \A c \in Cases :
    /\ IsFiniteSet(DOMAIN c.products) /\ IsFiniteSet(DOMAIN c.clicks)
    /\ c.learnt \subseteq DOMAIN c.products
    /\ \A p \in DOMAIN c.products :
         /\ IsText(c.products[p].text)
         /\ \A f \in GazetteerFields \cap DOMAIN c.products[p].meta : IsText(c.products[p].meta[f])
         /\ {c.products[p].popularity, c.products[p].sim} \subseteq Int
         /\ Get(c.products[p].meta, "margin", 0) \in Int
    /\ \A w \in DOMAIN c.dictionary : IsText(c.dictionary[w])
    /\ c.weights \in [DOMAIN DefaultWeights -> Int]
    /\ c.clicks \in [DOMAIN c.clicks -> Nat]
    /\ NotGiven \notin Tables[c.overrides]
    /\ \A r \in Range(c.calls) :
         /\ DOMAIN r = {"kind", "q", "mode", "limit", "offset", "pool", "filters", "options", "of"}
         /\ IsText(r.q)

VARIABLES
  case,      \* the products, the calls, and what external parts answer
  vectors, texts, \* the products in the vector index, in the text index
  gazetteer, \* the entries learnt
  churn,     \* what is still to come or go: <<store, product, there>>
  cache,     \* the query cache: pairs <<key, answer>>
  call,      \* the number of the current call
  work,      \* what the call has computed so far
  answers    \* the responses so far

\* History variable.
VARIABLE stable  \* products in storage and text index since the call began

stores == <<rows, vectors, texts, churn>>
edits  == <<ranking, hits, given, pins, slots, sponsored, placed, upward>>
vars == <<stores, overrideVars, case, gazetteer, cache, call, work, answers, stable>>

Req == case.calls[call]
Doc(p) == case.products[p]
Empty == [x \in {} |-> 0]

\* work: search_q; the query as corrected, rewritten and expanded; the filters
\* and weights; the results of the first text search; candidate_scores; the clicks
\* after the query; what is left to look up; the scores of the hits; what has
\* happened to the query.
NoWork == [q |-> <<>>, eff |-> <<>>, filters |-> Empty, weights |-> DefaultWeights,
           first |-> {}, cand |-> Empty, clicks |-> Empty, todo |-> <<>>, score |-> Empty,
           marks |-> {}]

Init ==
  /\ case \in Cases
  /\ rows = case.there /\ vectors = case.there /\ texts = case.there
  /\ gazetteer = FoldSet(LAMBDA p, e : AddProduct(e, case.products[p].meta), {}, case.learnt)
  /\ churn = case.churn
  /\ cache = {} /\ call = 1 /\ work = NoWork /\ answers = <<>> /\ stable = {}
  /\ phase = "lookup"
  /\ ranking = <<>> /\ hits = <<>> /\ given = NotGiven /\ pins = {} /\ slots = {}
  /\ sponsored = {} /\ placed = {} /\ upward = TRUE

-----------------------------------------------------------------------------
(* Request and query understanding                                         *)

Limit(r)  == Min({r.limit, MaxLimit})
Offset(r) == Min({r.offset, MaxOffset})

\* candidate_pool, or (limit + offset) * 5, between limit + offset and the maximum.
Pool(r) ==
  LET page  == Limit(r) + Offset(r)
      asked == IF r.pool = 0 THEN 5 * page ELSE r.pool
  IN  Min({MaxPool, Max({asked, page})})

Cacheable(r) == r.options \cap {"explain", "rerank", "snippets", "aggregate", "weights"} = {}

\* make_cache_key(): limit and offset as they were asked for; neither cluster nor
\* the pool.
PagelessKey(r) == <<r.q, r.mode, r.limit, r.filters>>
CacheKey(r)    == <<r.q, r.mode, r.limit, r.offset, r.filters>>

Answer(page, total) ==
  [req |-> Req, page |-> page, total |-> total, cached |-> FALSE,
   ads |-> sponsored, stable |-> stable, work |-> work, ranking |-> Range(ranking)]

Lookup ==
  /\ phase = "lookup" /\ Req.kind = "search"
  /\ stable' = rows \cap texts
  /\ sponsored' = {}
  /\ \/ \* no entry, or it has expired
        phase' = "parse" /\ UNCHANGED answers
     \/ /\ Cacheable(Req)
        /\ \E e \in cache :
             /\ e[1] = CacheKey(Req)
             /\ answers' = Append(answers, [e[2] EXCEPT !.req = Req, !.cached = TRUE])
        /\ phase' = "next"
  /\ UNCHANGED <<stores, case, gazetteer, cache, call, work, ranking, hits, given, pins, slots,
                 placed, upward>>

\* "priority: gazetteer < parser < user-provided".
Over(f, g) == [x \in DOMAIN f \cup DOMAIN g |-> IF x \in DOMAIN f THEN f[x] ELSE g[x]]
SignalsFirst(user, parsed, learnt) == Over(Over(parsed, learnt), user)
Merged(user, parsed, learnt)       == Over(user, Over(parsed, learnt))

\* Whoever is in a hurry wants what is there.
Boosted(weights, boost) ==
  [weights EXCEPT !.availability = Min({boost * weights.availability, 1000})]

Parse ==
  /\ phase = "parse"
  /\ \E p \in {parse(Req.q)} :
       work' = [NoWork EXCEPT
         !.q = p.q, !.eff = p.q,
         !.filters = Merged(Req.filters, p.filters, ExtractFilters(gazetteer, p.q)),
         !.weights = IF "weights" \in Req.options THEN case.weights
                     ELSE Boosted(DefaultWeights, p.boost)]
  /\ phase' = IF Req.mode = "bm25" THEN "text" ELSE "vector"
  /\ UNCHANGED <<stores, case, gazetteer, cache, call, answers, stable, edits>>

-----------------------------------------------------------------------------
(* Retrieval                                                               *)

Similarity == [p \in Products |-> IF p \in DOMAIN case.products THEN Doc(p).sim ELSE 0]

\* Products with equal scores come in an order of the index's own.
VectorSearch ==
  /\ phase = "vector"
  /\ \E R \in TopK(vectors, Similarity, Pool(Req)) : \E s \in SortedByScore(R, Similarity) :
       LET cand == [p \in R |-> [NoScore EXCEPT !.semantic = Similarity[p],
                                                !.semantic_rank = RankIn(s, p)]]
       IN  work' = [work EXCEPT !.cand = cand]
  /\ phase' = IF Req.mode = "semantic" THEN "clicks" ELSE "text"
  /\ UNCHANGED <<stores, case, gazetteer, cache, call, answers, stable, edits>>

\* The text was indexed in its normal form.  The score is the number of terms in
\* common; products without any are no results.
TextScore(q) ==
  [p \in Products |-> IF p \in DOMAIN case.products
                      THEN 1000 * Cardinality(Terms(Normalize(Doc(p).text)) \cap Terms(q)) ELSE 0]

\* search_text() and its variants; the one with snippets takes no filters.
SearchText(q, filters) ==
  LET score == TextScore(q) IN
  TopK({p \in texts : score[p] > 0 /\ MatchesFacets(Doc(p).meta, filters)}, score, Pool(Req))

\* "unwrap_or_default": a failed text search has found nothing.
OrNothing(results) == results \cup (IF case.faulty THEN {{}} ELSE {})
Lost(R, results) == IF R \in results THEN {} ELSE {"failed"}

\* Without candidates from the vectors, the results are candidates for now.
FirstTextSearch ==
  LET q == Normalize(work.q)
      found == SearchText(q, IF "snippets" \in Req.options THEN Empty ELSE work.filters) IN
  /\ phase = "text"
  /\ \E R \in OrNothing(found) : \E s \in SortedByScore(R, TextScore(q)) :
       work' = [work EXCEPT
         !.first = R,
         !.marks = @ \cup Lost(R, found),
         !.cand = IF DOMAIN @ # {} THEN @
                  ELSE [p \in R |-> [NoScore EXCEPT !.bm25 = TextScore(q)[p],
                                                    !.bm25_rank = RankIn(s, p)]]]
  /\ phase' = "reformulate"
  /\ UNCHANGED <<stores, case, gazetteer, cache, call, answers, stable, edits>>

\* Spelling if nothing was found, else the rewriter if too little was: its answer
\* is any of those given, the query itself when it fails.
Reformulate ==
  LET corrected == Correct(case.dictionary, work.q) IN
  /\ phase = "reformulate"
  /\ IF work.first = {} /\ corrected # work.q
     THEN work' = [work EXCEPT !.eff = corrected, !.marks = @ \cup {"corrected"}]
     ELSE IF Cardinality(work.first) < Max({Limit(Req), 1})
     THEN \E q \in case.rewrites \cup {work.q} :
            work' = [work EXCEPT !.eff = q,
                                 !.marks = IF q = work.q THEN @ ELSE @ \cup {"rewritten"}]
     ELSE UNCHANGED work
  /\ phase' = "expand"
  /\ UNCHANGED <<stores, case, gazetteer, cache, call, answers, stable, edits>>

MIN_SEMANTIC_EXPANSION == 750
TopCandidates == 3
MaxTerms == 5
MinTerm  == 3

\* expand_query_terms(): from the texts of the best candidates, in the order s,
\* that can be read.
ExpansionTerms(base, s, readable) ==
  LET best == SubSeq(s, 1, Min({TopCandidates, Len(s)}))
      words == FlattenSeq([i \in DOMAIN best |->
                 IF best[i] \in readable THEN Tokens(LowerOf(Doc(best[i]).text)) ELSE <<>>])
      seen == Range(Tokens(LowerOf(base)))
      Add(terms, t) ==
        LET w == Trimmed(t) IN
        IF Len(terms) = MaxTerms \/ SizeOf(w) < MinTerm \/ w \in seen \cup Range(terms)
        THEN terms ELSE Append(terms, w)
  IN  FoldLeft(Add, <<>>, words)

JustTerms(base, terms) == IF terms = <<>> THEN base ELSE Join(terms)
Expanded(base, terms)  == IF terms = <<>> THEN base ELSE base \o <<Space>> \o Join(terms)

Expand ==
  LET c == work.cand
      safe == {p \in DOMAIN c : c[p].bm25 > 0 \/ c[p].semantic >= MIN_SEMANTIC_EXPANSION}
      few == Cardinality(work.first) < Max({Limit(Req) \div 2, 1}) IN
  /\ phase = "expand"
  /\ IF few /\ DOMAIN c # {}
     THEN \* the candidates are in a hash map: ties come in any order
          \E s \in SortedByScore(safe, [p \in safe |-> Max({c[p].semantic, c[p].bm25})]) :
          \E readable \in (IF case.faulty THEN SUBSET rows ELSE {rows}) :
            LET eff == Expanded(work.eff, ExpansionTerms(work.eff, s, readable)) IN
            work' = [work EXCEPT !.eff = eff,
                                 !.marks = IF eff = work.eff THEN @ ELSE @ \cup {"expanded"}]
     ELSE UNCHANGED work
  /\ phase' = "retext"
  /\ UNCHANGED <<stores, case, gazetteer, cache, call, answers, stable, edits>>

\* The query is searched again if it is another one by now, as it stands.
SecondTextSearch ==
  LET again == work.eff # work.q
      found == IF again THEN SearchText(work.eff, work.filters) ELSE {work.first}
      score == TextScore(IF again THEN work.eff ELSE Normalize(work.q)) IN
  /\ phase = "retext"
  /\ \E R \in (IF again THEN OrNothing(found) ELSE found) : \E s \in Sorted(R, score) :
       LET c == work.cand
           cand == [p \in DOMAIN c \cup R |->
             IF p \notin R THEN c[p]
             ELSE [(IF p \in DOMAIN c THEN c[p] ELSE NoScore) EXCEPT
                     !.bm25 = score[p], !.bm25_rank = RankIn(s, p)]]
       IN  work' = [work EXCEPT !.cand = cand, !.marks = @ \cup Lost(R, found)]
  /\ phase' = "clicks"
  /\ UNCHANGED <<stores, case, gazetteer, cache, call, answers, stable, edits>>

-----------------------------------------------------------------------------
(* Scoring and ranking                                                     *)

\* "unwrap_or_default" again.  The order of the candidates does not matter, since
\* each is looked up once.
GetClicks ==
  /\ phase = "clicks"
  /\ \E clicks \in {case.clicks} \cup (IF case.faulty THEN {Empty} ELSE {}) :
     \E s \in Ascending(DOMAIN work.cand) :
       work' = [work EXCEPT !.clicks = clicks, !.todo = s]
  /\ phase' = "score"
  /\ UNCHANGED <<stores, case, gazetteer, cache, call, answers, stable, edits>>

\* Looking up one candidate: its row may have gone.
ScoreCandidate ==
  /\ phase = "score" /\ work.todo # <<>>
  /\ LET p == Head(work.todo)
         ncd == Ncd(Terms(work.eff), Terms(Doc(p).text))
         s == Score(work.cand[p], ncd, Doc(p).meta, Doc(p).popularity, Ctr(work.clicks, p),
                    work.weights) IN
     work' = [work EXCEPT
       !.todo = Tail(@),
       !.score = IF p \in rows /\ MatchesFilters(Doc(p).meta, work.filters)
                 THEN Over([x \in {p} |-> s], @) ELSE @]
  /\ UNCHANGED <<stores, phase, case, gazetteer, cache, call, answers, stable, edits>>

\* The cross-encoder puts the first hits in an order of its own.
Reranked(s) ==
  LET n == Min({TopN, Len(s)}) IN
  {t \o SubSeq(s, n + 1, Len(s)) : t \in SetToSeqs(Range(SubSeq(s, 1, n)))}

\* The overrides of a case are the same for all its calls.
Rank ==
  /\ phase = "score" /\ work.todo = <<>>
  /\ "rerank" \in Req.options => case.reranker
  /\ \E s \in Sorted(DOMAIN work.score, work.score) :
     \E r \in (IF "rerank" \in Req.options THEN Reranked(s) ELSE {s}) :
       ranking' = r /\ hits' = r
  /\ given' \in (IF given = NotGiven THEN Tables[case.overrides] ELSE {given})
  /\ phase' = "suppress"
  /\ UNCHANGED <<stores, case, gazetteer, cache, call, work, answers, stable, pins, slots,
                 sponsored, placed, upward>>

ApplyOverrides ==
  /\ Override
  /\ UNCHANGED <<vectors, texts, churn, case, gazetteer, cache, call, work, answers, stable>>

-----------------------------------------------------------------------------
(* similar(), related_products() and recommend()                           *)

\* The ids in the order of the vector index, or of the relations' counts.
ListOf(r) ==
  CASE r.kind = "related" ->
         {SubSeq([i \in DOMAIN s |-> s[i][1]], 1, Min({Limit(r), Len(s)})) :
            s \in SortedByScore(DOMAIN case.related, case.related)}
    [] OTHER ->
         UNION {SortedByScore(R, Similarity) : R \in TopK(vectors, Similarity, 5 * Limit(r))}

BeginList ==
  /\ phase = "lookup" /\ Req.kind # "search"
  /\ Req.of = NotGiven \/ Req.of \in rows
  /\ \E s \in ListOf(Req) : work' = [NoWork EXCEPT !.todo = s, !.filters = Req.filters]
  /\ hits' = <<>> /\ sponsored' = {}
  /\ phase' = "list"
  /\ UNCHANGED <<stores, case, gazetteer, cache, call, answers, stable, ranking, given, pins,
                 slots, placed, upward>>

TakeFromList ==
  /\ phase = "list" /\ work.todo # <<>> /\ Len(hits) < Limit(Req)
  /\ LET p == Head(work.todo) IN
     hits' = IF p \in rows /\ MatchesFilters(Doc(p).meta, work.filters)
             THEN Append(hits, p) ELSE hits
  /\ work' = [work EXCEPT !.todo = Tail(@)]
  /\ UNCHANGED <<stores, phase, case, gazetteer, cache, call, answers, stable, ranking, given,
                 pins, slots, sponsored, placed, upward>>

EndList ==
  /\ phase = "list" /\ (work.todo = <<>> \/ Len(hits) >= Limit(Req))
  /\ answers' = Append(answers, Answer(hits, Len(hits)))
  /\ phase' = "next"
  /\ UNCHANGED <<stores, case, gazetteer, cache, call, work, stable, edits>>

-----------------------------------------------------------------------------
Page(s, r) == SubSeq(s, Offset(r) + 1, Min({Offset(r) + Limit(r), Len(s)}))

Respond ==
  /\ phase = "respond"
  /\ LET a == Answer(Page(hits, Req), Len(hits)) IN
     /\ answers' = Append(answers, a)
     /\ cache' = IF Cacheable(Req)
                 THEN {e \in cache : e[1] # CacheKey(Req)} \cup {<<CacheKey(Req), a>>} ELSE cache
  /\ phase' = "next"
  /\ UNCHANGED <<stores, case, gazetteer, call, work, stable, edits>>

\* An await fails, a reranker is missing, or the product to compare with.
Fail ==
  /\ \/ case.faulty /\ phase \in {"vector", "score", "list"}
     \/ phase = "score" /\ work.todo = <<>> /\ "rerank" \in Req.options /\ ~ case.reranker
     \/ phase = "lookup" /\ Req.kind # "search" /\ Req.of # NotGiven /\ Req.of \notin rows
  /\ phase' = "next"
  /\ UNCHANGED <<stores, case, gazetteer, cache, call, work, answers, stable, edits>>

NextCall ==
  /\ phase = "next" /\ call < Len(case.calls)
  /\ call' = call + 1
  /\ phase' = "lookup"
  /\ UNCHANGED <<stores, case, gazetteer, cache, work, answers, stable, edits>>

\* One store learns that a product has come or gone.
ComeOrGo ==
  /\ churn # <<>>
  /\ LET e == Head(churn)
         New(store, S) == IF e[1] # store THEN S ELSE IF e[3] THEN S \cup {e[2]} ELSE S \ {e[2]} IN
     /\ rows' = New("rows", rows)
     /\ vectors' = New("vectors", vectors)
     /\ texts' = New("texts", texts)
     /\ stable' = stable \ {e[2]}
  /\ churn' = Tail(churn)
  /\ UNCHANGED <<overrideVars, case, gazetteer, cache, call, work, answers>>

Finished == phase = "next" /\ call = Len(case.calls) /\ churn = <<>> /\ UNCHANGED vars

Next ==
  \/ Lookup \/ Parse \/ VectorSearch \/ FirstTextSearch \/ Reformulate \/ Expand
  \/ SecondTextSearch \/ GetClicks \/ ScoreCandidate \/ Rank \/ ApplyOverrides \/ Respond
  \/ BeginList \/ TakeFromList \/ EndList
  \/ Fail \/ NextCall \/ ComeOrGo \/ Finished

Spec == Init /\ [][Next]_vars
-----------------------------------------------------------------------------
(* Properties.  The answers have changed when phase = "next". *)

\* Whatever sponsored slots have not brought in has the properties that were
\* asked for: by filters, and where they are silent by the words of the query
\* ("gazetteer < parser < user-provided", mod.rs:211), in a cached answer too.
FiltersHold ==
  phase = "next" => \A i \in DOMAIN answers :
    LET a == answers[i]
        asked == IF a.req.kind # "search" THEN a.req.filters
                 ELSE Over(a.req.filters, parse(a.req.q).filters) IN
    \A p \in Range(a.page) \ a.ads : MatchesFilters(Doc(p).meta, asked)

OnePerPosition(S) == \A x, y \in S : x.position = y.position => x = y

SameQuery(r1, r2) ==
  /\ r1.kind = "search" /\ r2.kind = "search"
  /\ [r1 EXCEPT !.offset = r2.offset] = r2

\* Nothing else moves while the pages of a case are asked for: nothing fails, the
\* catalogue holds still and is no larger than the pool, no two products are equally
\* similar, no two pins or slots have one position, all calls have one pool (which is
\* not in the key of the cache), and neither reranker nor rewriter, whose answers are
\* their own, has a hand in it.  A query that was expanded was so by the terms of
\* candidates of the vector index: without these (bm25) they are text matches, which
\* tie in a hash map.
Steady(a) ==
  /\ ~ case.faulty /\ case.churn = <<>>
  /\ \A p, x \in DOMAIN case.products : p # x => Doc(p).sim # Doc(x).sim
  /\ Pool(a.req) >= Cardinality(DOMAIN case.products)
  /\ \A r \in Range(case.calls) : r.pool = a.req.pool
  /\ \A g \in Tables[case.overrides] : OnePerPosition(g.pins) /\ OnePerPosition(g.slots)
  /\ "rerank" \notin a.req.options /\ "rewritten" \notin a.work.marks
  /\ "expanded" \in a.work.marks => a.req.mode # "bm25"

\* "stable pagination" (mod.rs:337-339): two pages that follow one another are cut
\* from one ranking, so that no product is on both or falls between them, ties
\* and cached answers included.
PagesPartition ==
  phase = "next" => \A i, j \in DOMAIN answers :
    LET a == answers[i]
        b == answers[j] IN
    /\ SameQuery(a.req, b.req) /\ Offset(b.req) = Offset(a.req) + Limit(a.req)
    /\ Steady(a) /\ Steady(b)
    => /\ a.total = b.total
       /\ Range(a.page) \cap Range(b.page) = {}
       /\ Len(a.page) + Len(b.page) =
            Max({0, Min({a.total, Offset(b.req) + Limit(b.req)}) - Offset(a.req)})

\* The products that the text index finds for the words of a query, under the
\* answer's filters, as long as no other text match crowds them out of the pool.
Matching(a) ==
  LET q == Normalize(parse(a.req.q).q) IN
  IF \/ a.req.kind # "search" \/ a.req.mode = "semantic" \/ a.cached
     \/ a.work.marks \cap {"rewritten", "failed"} # {}
     \/ Cardinality({p \in DOMAIN case.products : TextScore(a.work.eff)[p] > 0}) > Pool(a.req)
     \/ Cardinality({p \in DOMAIN case.products : TextScore(q)[p] > 0}) > Pool(a.req)
  THEN {}
  ELSE {p \in a.stable : TextScore(q)[p] > 0 /\ MatchesFilters(Doc(p).meta, a.work.filters)}

Spelled(q) == Terms(Normalize(q)) = Terms(q)

\* Correction and expansion add to what a query finds and take nothing away: a
\* product with a word of the query is ranked, if it has been there throughout.
\* The second search leaves the query as it is spelled, hence Spelled.
MatchesKept ==
  phase = "next" => \A i \in DOMAIN answers :
    Spelled(parse(answers[i].req.q).q) => Matching(answers[i]) \subseteq answers[i].ranking

\* The same for every spelling: "Applied symmetrically at index time and query
\* time so matches are consistent" (phonetics.rs:4-5).
MatchesKeptInEverySpelling ==
  phase = "next" => \A i \in DOMAIN answers : Matching(answers[i]) \subseteq answers[i].ranking

\* A text as its words and the marks between them.
Pieces(q) ==
  LET Step(ts, c) ==
        IF ts # <<>> /\ c \notin Marks /\ Last(Last(ts)) \notin Marks
        THEN [ts EXCEPT ![Len(ts)] = Append(@, c)] ELSE Append(ts, <<c>>)
  IN  FoldLeft(Step, <<>>, q)

\* What the gazetteer means (gazetteer.rs:106-112): a field is filtered by when
\* exactly one of the values that products have had for it stands in the query,
\* as whole words; said of queries in letters that the byte test knows and of values
\* with no mark at either end.
Values(f) ==
  {v \in {trim(Doc(p).meta[f]) : p \in {p \in case.learnt : f \in DOMAIN Doc(p).meta}} :
     SizeOf(v) >= MIN_LEN /\ SizeOf(LowerOf(v)) >= MIN_LEN}
Named(f, q) == {LowerOf(v) : v \in {v \in Values(f) : Occurrences(Pieces(LowerOf(v)), q) # {}}}

GazetteerAgrees ==
  LET text == LowerOf(work.q)
      q    == Pieces(text) IN
  /\ phase \in {"vector", "text"} /\ Range(text) \cap (StartOpen \cup EndOpen) = {}
  /\ \A f \in GazetteerFields : \A v \in Values(f) :
       {LowerOf(v)[1], Last(LowerOf(v))} \cap Marks = {}
  => \A f \in GazetteerFields \ DOMAIN Req.filters :
       IF Cardinality(Named(f, q)) = 1
       THEN f \in DOMAIN work.filters /\ LowerOf(work.filters[f]) \in Named(f, q)
       ELSE f \notin DOMAIN work.filters

\* A word that is a number to cut out, of those the table at query_parser.rs:62-66
\* lists; a word without marks, in letters that the byte test knows.
Is(t, shape) == Len(t) = Len(shape) /\ Fits(t, 1, shape)
Noise(t) ==
  \/ (Is(t, CNPJ) \/ Is(t, Raw(14))) /\ validate_cnpj(DigitsOf(t))
  \/ (Is(t, CPF) \/ Is(t, Raw(11))) /\ validate_cpf(DigitsOf(t))
  \/ \E shape \in PHONES \cup CEPS : Is(t, shape)
Plain(t) == Range(t) \cap (Marks \cup StartOpen \cup EndOpen) = {}

\* "structural removal only removes recognized patterns, never content tokens"
\* (query_parser.rs:150-151): of a query in plain words and such numbers, a word at
\* least, exactly the numbers go.  The exception is "(NN)NNNN-NNNN" as the very end
\* of a query, which falls short of the minimum possible length (query_parser.rs:396).
TooShort(q, t) == Len(t) = MinPhone - 1 /\ t[1] = "(" /\ Last(q) # Space
ToCut(q, ts) == {i \in DOMAIN ts : Noise(ts[i]) /\ (i = Len(ts) => ~ TooShort(q, ts[i]))}
WithoutNoise(q, ts) ==
  LET cut == ToCut(q, ts) IN
  IF cut = {} THEN q
  ELSE Join(FlattenSeq([i \in DOMAIN ts |-> IF i \in cut THEN <<>> ELSE <<ts[i]>>]))

NoiseRemoved ==
  LET ts == Tokens(Req.q) IN
  /\ phase \in {"vector", "text"} /\ ToCut(Req.q, ts) # DOMAIN ts
  /\ \A i \in DOMAIN ts : Plain(ts[i]) \/ Noise(ts[i])
  => work.q = WithoutNoise(Req.q, ts)

\* "The cleaned query `q` is guaranteed to be non-empty when the raw query is
\* non-empty" (query_parser.rs:149-150): whatever is cut out, text is left to search by.
QueryLeft == phase \in {"vector", "text"} /\ Req.q # <<>> => work.q # <<>>
=============================================================================
