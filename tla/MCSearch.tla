------------------------------ MODULE MCSearch ------------------------------
(***************************************************************************)
(* Search for TLC: small catalogues and the calls on them.                 *)
(***************************************************************************)
EXTENDS Search, TLC

\* A word is one symbol, a number one per character.
Chars(s) == [i \in 1..Len(s) |-> SubSeq(s, i, i)]
Phrase(ws) == Join([i \in DOMAIN ws |-> <<ws[i]>>])

MCLower == [Nike |-> "nike", Tenis |-> "tenis"]
MCFold  == ("ju'nior" :> "junior") @@ ("pharma" :> "farma")
MCFinalI == [hobby |-> "hobbi"]
MCStartOpen == {"a'gua"}
MCEndOpen   == {"ate'"}

Request == [kind |-> "search", q |-> <<>>, mode |-> "hybrid", limit |-> 2, offset |-> 0,
            pool |-> 0, filters |-> Empty, options |-> {}, of |-> NotGiven]

Product(text, meta, popularity, sim) ==
  [text |-> text, meta |-> meta, popularity |-> popularity, sim |-> sim]

Catalogue ==
  << Product(Phrase(<<"tenis", "nike">>), [brand |-> <<"Nike">>, price |-> 100000], 500, 900),
     Product(Phrase(<<"Tenis", "pharma">>), [brand |-> <<"adidas">>, in_stock |-> TRUE], 0, 800),
     Product(Phrase(<<"bota", "farma">>), [brand |-> <<"Nike">>, price |-> 300000,
                                          in_stock |-> TRUE, margin |-> 500], 0, 400),
     Product(<<"meia">>, Empty, 0, 200),
     Product(Phrase(<<"hobby", "ju'nior">>), [price |-> 70000, in_stock |-> FALSE], 0, 100) >>

Case == [products |-> Catalogue, there |-> 1..5, learnt |-> 1..5, churn |-> <<>>,
         calls |-> <<>>, weights |-> DefaultWeights, dictionary |-> Empty, rewrites |-> {},
         clicks |-> Empty, overrides |-> "none", related |-> Empty, reranker |-> FALSE,
         faulty |-> FALSE]

-----------------------------------------------------------------------------
(* Queries on an empty catalogue                                           *)

Tried(c, qs) == {[c EXCEPT !.calls = <<[Request EXCEPT !.q = q, !.mode = "bm25"]>>] : q \in qs}
Bare == [Case EXCEPT !.products = Empty, !.there = {}, !.learnt = {}]

\* CEPs and what looks like one, CPFs with and without the right digits, a CNPJ,
\* phone numbers.
Numbers == {"01310-100", "01310100", "013101009", "52998224725", "529.982.247-25",
            "52998224726", "11.222.333/0001-81", "11222333000181", "(11)98765-4321",
            "(11)3333-4444"}
Words == {<<"nike">>} \cup {Chars(n) : n \in Numbers}
NumberCases ==
  Tried(Bare, Words \cup {Join(<<a, b>>) : a, b \in Words}
               \cup {Join(<<a, b, <<"nike">> >>) : a, b \in Words} \cup {Join(<<a, <<"nike">>, b>>) : a, b \in Words})

\* Spaces around them: a space behind a number is no end of the query.
SpaceCases == Tried(Bare, {x \o a \o y : x, y \in {<<>>, <<Space>>, <<Space, Space>>}, a \in Words})

\* A brand of one word, one that begins with it, and one in two spellings; one of a
\* single letter, which is too short, and one that begins with that, with spaces
\* around them.
Branded(i, b) == Product(<<"x">>, [brand |-> b], 0, i)
Brands == <<Branded(1, <<"Nike">>), Branded(2, Phrase(<<"Nike", "air">>)), Branded(3, <<"nike">>),
            Branded(4, <<"s", Space>>), Branded(5, <<Space>> \o Phrase(<<"s", "air">>))>>
BrandSymbols == {"nike", "Nike", "air", "s", "5", "-", " "}
BrandCases ==
  Tried([Bare EXCEPT !.products = Brands, !.learnt = 1..5],
        UNION {[1..n -> BrandSymbols] : n \in 1..4})

-----------------------------------------------------------------------------
(* Searches                                                                *)

Queries == {Phrase(<<"Tenis">>), Phrase(<<"hobby">>), Phrase(<<"farma", "rapido">>),
            <<"junior">>, <<"tenes">>,
            Phrase(<<"chocol">>) \o <<"ate", " ">> \o Chars("150")}

\* Two pages, and the first one again.
PageCases ==
  {[Case EXCEPT !.overrides = t, !.clicks = k,
      !.calls = <<[r EXCEPT !.offset = 0], [r EXCEPT !.offset = r.limit], [r EXCEPT !.offset = 0]>>] :
    t \in {"none", "some"}, k \in {Empty, [x \in {2, 5} |-> x]},
    r \in [kind : {"search"}, q : Queries, mode : {"hybrid", "bm25", "semantic"}, limit : {1, 2},
           offset : {0}, pool : {5}, filters : {Empty, [price_max |-> 80000]},
           options : {{}, {"explain"}}, of : {NotGiven}]}

\* Searches that find little: spelling, rewriting, expansion; a pool too small;
\* no reranker; faults.
HardCases ==
  {[Case EXCEPT !.dictionary = [x \in {<<"tenes">>} |-> <<"tenis">>], !.rewrites = w,
      !.reranker = k, !.faulty = f, !.weights.popularity = 0, !.calls = <<r>>] :
    w \in {{}, {Phrase(<<"bota", "nike">>)}}, k \in BOOLEAN, f \in BOOLEAN,
    r \in [kind : {"search"}, q : Queries, mode : {"hybrid", "bm25"}, limit : {1, 4},
           offset : {0}, pool : {0, 4}, filters : {Empty},
           options : {{}, {"rerank"}, {"snippets", "weights"}}, of : {NotGiven}]}

\* Lists of similar, recommended and related products.
ListCases ==
  {[Case EXCEPT !.there = s, !.faulty = f, !.calls = <<r>>,
      !.related = <<2, "brand">> :> 1 @@ <<3, "brand">> :> 1 @@ <<2, "co_purchased">> :> 2] :
    s \in {1..5, {1, 3}}, f \in BOOLEAN,
    r \in {[Request EXCEPT !.kind = k, !.limit = n, !.of = p, !.filters = e] :
             k \in {"similar"}, n \in 0..2, p \in {2, NotGiven},
             e \in {Empty, [price_max |-> 150000], [price_min |-> 80000]}}
          \cup {[Request EXCEPT !.kind = k, !.limit = n] : k \in {"recommend", "related"}, n \in 0..2}}

\* A product comes, or goes, while searches run.
ChurnCases ==
  {[Case EXCEPT !.there = IF new THEN {1, 3} ELSE 1..3,
      !.churn = IF new THEN << <<"vectors", 2, TRUE>>, <<"rows", 2, TRUE>>, <<"texts", 2, TRUE>> >>
                ELSE << <<"rows", 2, FALSE>>, <<"vectors", 2, FALSE>>, <<"texts", 2, FALSE>> >>,
      !.calls = <<r, r>>] :
    new \in BOOLEAN,
    r \in {[Request EXCEPT !.q = q, !.mode = m, !.limit = 1] :
             q \in {<<"tenis">>, <<"pharma">>}, m \in {"hybrid", "bm25"}}
          \cup {[Request EXCEPT !.kind = "similar"]}}

-----------------------------------------------------------------------------
(* Overrides on three hits, a product that is no hit and one that is gone  *)

Few(S) == {T \in SUBSET S : Cardinality(T) <= 2}
FewTargets == {T \in {{}} \cup {{x} : x \in Targets} \cup {{x, y} : x, y \in Targets} :
                 \A x, y \in T : x.product = y.product => x = y}

NoTables == [suppressed |-> {}, pins |-> {}, slots |-> {}]
At(p, n) == [product |-> p, position |-> n]
MCTables ==
  [none |-> {NoTables},
   some |-> {[suppressed |-> {1}, pins |-> {At(4, 1)}, slots |-> {At(3, 2)}]},
   all  |-> [suppressed : {{}, {1}, {2, 4}}, pins : FewTargets, slots : FewTargets]]

OverrideCases ==
  {[Case EXCEPT !.there = {1, 2, 3, 4}, !.overrides = "all",
      !.calls = <<[Request EXCEPT !.q = <<"x">>, !.mode = "semantic", !.pool = 3]>>]}

MCCases == NumberCases \cup SpaceCases \cup BrandCases \cup PageCases \cup HardCases \cup ListCases
             \cup ChurnCases \cup OverrideCases

\* A product that only the text index finds, by a word the second search does not
\* have in its normal form.
FormCases ==
  {[Case EXCEPT !.calls = <<[Request EXCEPT !.q = q, !.limit = 4, !.pool = 4]>>] : q \in Queries}
=============================================================================
