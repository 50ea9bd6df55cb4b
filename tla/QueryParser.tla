---------------------------- MODULE QueryParser ----------------------------
(***************************************************************************)
(* Stage 1 of query understanding (vectoria-core/src/search/               *)
(* query_parser.rs): prices, urgency, and the Brazilian document, phone    *)
(* and postal-code numbers that are cut out of a query.                    *)
(*                                                                         *)
(* A text is a sequence of symbols: a digit, a mark, a space, or a run of  *)
(* letters taken as one symbol (two, where a rule looks inside a word).    *)
(* An accent is written behind its letter: "ate'" is the word with an      *)
(* accented e.                                                             *)
(***************************************************************************)
EXTENDS Integers, Sequences, SequencesExt, Functions

CONSTANTS
  Lower,     \* to_lowercase(), on the symbols that have capitals
  StartOpen, \* runs of letters whose first byte is not an ASCII letter
  EndOpen    \* runs of letters whose last byte is not one

Digits == <<"0", "1", "2", "3", "4", "5", "6", "7", "8", "9">>
Space  == " "
Marks  == {"-", ".", ",", "/", "(", ")", "$", Space}

IsDigit(c)    == Contains(Digits, c)
DigitValue(c) == SelectInSeq(Digits, LAMBDA d : d = c) - 1
In(f, c)      == IF c \in DOMAIN f THEN f[c] ELSE c
LowerOf(q)    == [i \in DOMAIN q |-> In(Lower, q[i])]

\* A rule sees an ASCII letter or digit next to the text it looks at.
JoinsBefore(c) == c \notin Marks \cup EndOpen
JoinsAfter(c)  == c \notin Marks \cup StartOpen

\* A digit is ASCII.
ASSUME DigitAssumption == \A c \in StartOpen \cup EndOpen : ~ IsDigit(c)

\* s stands in q from position i on.
OccursAt(s, q, i) == i + Len(s) - 1 <= Len(q) /\ SubSeq(q, i, i + Len(s) - 1) = s
Occurrences(s, q) == {i \in 1..Len(q) : OccursAt(s, q, i)}

\* split_whitespace(): a symbol behind a space, or the first one, opens a token.
Tokens(q) ==
  LET Step(ts, i) == IF q[i] = Space THEN ts
                     ELSE IF i = 1 \/ q[i - 1] = Space THEN Append(ts, <<q[i]>>)
                     ELSE [ts EXCEPT ![Len(ts)] = Append(@, q[i])]
  IN  FoldLeftDomain(Step, <<>>, q)

\* join(" ").

Join(ts) ==
  LET Step(q, t) == IF q = <<>> THEN t ELSE q \o <<Space>> \o t
  IN  FoldLeft(Step, <<>>, ts)

-----------------------------------------------------------------------------
(* Price and urgency                                                       *)

PRICE_PREFIXES ==
  << <<"por", " ", "ate'", " ", "r", "$">>, <<"por", " ", "ate", " ", "r", "$">>,
     <<"menos", " ", "de", " ", "r", "$">>, <<"menos", " ", "de", " ">>,
     <<"ate'", " ", "r", "$">>, <<"ate'", " ">>, <<"ate", " ", "r", "$">>, <<"ate", " ">>,
     <<"por", " ", "r", "$">>, <<"r", "$">> >>

\* In thousandths, with at most three decimals.
MIN_PRICE == 10
MAX_PRICE == 999999990
Decimals  == 3

\* Where the run of digits from position i on ends, exclusively.
RunEnd(q, i) ==
  CHOOSE j \in i..(Len(q) + 1) :
    /\ \A m \in i..(j - 1) : IsDigit(q[m])
    /\ j <= Len(q) => ~ IsDigit(q[j])

\* The digits as a number, no further than past the bound.
Number(ds) ==
  FoldLeft(LAMBDA v, c : IF v > MAX_PRICE \div 10 THEN v ELSE 10 * v + DigitValue(c), 0, ds)

\* parse_brl_number(): digits, then a comma or a point with more digits.
PriceAt(q, i) ==
  LET j == RunEnd(q, i)
      k == IF j <= Len(q) /\ q[j] \in {",", "."} THEN RunEnd(q, j + 1) ELSE j
      frac == SubSeq(q, j + 1, k - 1) \o [n \in 1..Decimals |-> "0"]
  IN  IF j = i THEN -1 ELSE Number(SubSeq(q, i, j - 1) \o SubSeq(frac, 1, Decimals))

\* Each prefix is tried where it first occurs, in the order of the list.
PriceOf(q, prefix) ==
  LET at == Occurrences(prefix, q) IN
  IF at = {} THEN -1 ELSE PriceAt(q, (CHOOSE i \in at : \A j \in at : i <= j) + Len(prefix))

PriceMax(q) ==
  LET prices == [n \in DOMAIN PRICE_PREFIXES |-> PriceOf(q, PRICE_PREFIXES[n])]
      first  == SelectInSeq(prices, LAMBDA v : v \in MIN_PRICE..MAX_PRICE)
  IN  IF first = 0 THEN -1 ELSE prices[first]

URGENCY_TERMS ==
  { <<"hoje">>, <<"amanha~">>, <<"amanha">>, <<"urgente">>, <<"urge^ncia">>, <<"urgencia">>,
    <<"entrega", " ", "ra'pida">>, <<"entrega", " ", "rapida">>, <<"express">>,
    <<"imediato">>, <<"imediata">>, <<"ra'pido">>, <<"rapido">>,
    <<"same", " ", "day">>, <<"no", " ", "mesmo", " ", "dia">> }

Urgent(q) == \E t \in URGENCY_TERMS : Occurrences(t, q) # {}

-----------------------------------------------------------------------------
(* Numbers to cut out                                                      *)

D == "digit"
CNPJ == <<D, D, ".", D, D, D, ".", D, D, D, "/", D, D, D, D, "-", D, D>>
CPF  == <<D, D, D, ".", D, D, D, ".", D, D, D, "-", D, D>>
Raw(n) == [i \in 1..n |-> D]
PHONES == { <<"(", D, D, ")">> \o gap \o Raw(m) \o <<"-">> \o Raw(4) :
              gap \in {<<>>, <<Space>>}, m \in {4, 5} }
CEPS   == {Raw(5) \o <<"-">> \o Raw(3), Raw(8)}

Fits(q, i, shape) ==
  /\ i + Len(shape) - 1 <= Len(q)
  /\ \A j \in DOMAIN shape :
       IF shape[j] = D THEN IsDigit(q[i + j - 1]) ELSE q[i + j - 1] = shape[j]

FreeBefore(q, i) == i = 1 \/ ~ JoinsBefore(q[i - 1])
FreeAfter(q, i)  == i > Len(q) \/ ~ JoinsAfter(q[i])

DigitsOf(s) ==
  LET ds == SelectSeq(s, IsDigit) IN [i \in DOMAIN ds |-> DigitValue(ds[i])]

\* The check digit over the digits with these weights.
CheckDigit(d, weights) ==
  LET s == FoldFunction(+, 0, [i \in DOMAIN weights |-> d[i] * weights[i]]) % 11
  IN  IF s < 2 THEN 0 ELSE 11 - s

AllSame(d) == \A i \in DOMAIN d : d[i] = d[1]

validate_cpf(d) ==
  /\ ~ AllSame(d)
  /\ d[10] = CheckDigit(d, [i \in 1..9 |-> 11 - i])
  /\ d[11] = CheckDigit(d, [i \in 1..10 |-> 12 - i])

W1 == <<5, 4, 3, 2, 9, 8, 7, 6, 5, 4, 3, 2>>
validate_cnpj(d) ==
  /\ ~ AllSame(d)
  /\ d[13] = CheckDigit(d, W1)
  /\ d[14] = CheckDigit(d, <<6>> \o W1)

\* Each returns where what it finds at position i ends, exclusively: one place, or
\* none.
Found(q, i, shapes) ==
  {i + Len(s) : s \in {s \in shapes : Fits(q, i, s) /\ FreeAfter(q, i + Len(s))}}

TryDocument(q, i, shape, Valid(_)) ==
  {e \in Found(q, i, {shape}) : FreeBefore(q, i) /\ Valid(DigitsOf(SubSeq(q, i, e - 1)))}

try_cnpj_formatted(q, i) == TryDocument(q, i, CNPJ, validate_cnpj)
try_cnpj_raw(q, i)       == TryDocument(q, i, Raw(14), validate_cnpj)
try_cpf_formatted(q, i)  == TryDocument(q, i, CPF, validate_cpf)
try_cpf_raw(q, i)        == TryDocument(q, i, Raw(11), validate_cpf)

\* "minimum possible length": 14 symbols must be left from the parenthesis on.
\* What stands before it does not matter.
MinPhone == 14
try_br_phone(q, i) == {e \in Found(q, i, PHONES) : i + MinPhone - 1 <= Len(q)}

CepAnywhere(q, i) == {i + Len(s) : s \in {s \in CEPS : Fits(q, i, s) /\ FreeBefore(q, i)}}
try_cep(q, i)     == {e \in Found(q, i, CEPS) : FreeBefore(q, i)}

\* remove_br_noise() takes the first of these that finds something; no two find
\* something at one position.
Ends(q, i) ==
  try_cnpj_formatted(q, i) \cup try_cnpj_raw(q, i) \cup try_cpf_formatted(q, i)
    \cup try_cpf_raw(q, i) \cup try_br_phone(q, i) \cup try_cep(q, i)

\* The scan goes on behind what it has found; the symbols it keeps.
Kept(q) ==
  LET scan[i \in 1..(Len(q) + 1)] ==
        IF i > Len(q) THEN <<>>
        ELSE IF Ends(q, i) = {} THEN <<q[i]>> \o scan[i + 1]
        ELSE scan[CHOOSE e \in Ends(q, i) : TRUE]
  IN  scan[1]

\* Without a find the query is left as it is, with its spaces.
Cleaned(q, kept)   == IF kept = q THEN q ELSE Join(Tokens(kept))
remove_br_noise(q) == Cleaned(q, Kept(q))

-----------------------------------------------------------------------------
AvailabilityBoost == 2

\* The filters are a function from fields to values.
parse(raw) ==
  LET q     == LowerOf(raw)
      price == PriceMax(q)
      set   == {f \in {"price_max", "in_stock"} :
                  IF f = "price_max" THEN price >= 0 ELSE Urgent(q)}
  IN  [q       |-> remove_br_noise(raw),
       filters |-> [f \in set |-> IF f = "price_max" THEN price ELSE TRUE],
       boost   |-> IF Urgent(q) THEN AvailabilityBoost ELSE 1]
=============================================================================
