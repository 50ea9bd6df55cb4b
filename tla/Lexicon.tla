------------------------------ MODULE Lexicon ------------------------------
(***************************************************************************)
(* What a query is compared with, learnt from the catalogue: the values of *)
(* gazetteer.rs, the words of spell.rs, and the form in which phonetics.rs *)
(* has texts indexed.                                                      *)
(***************************************************************************)
EXTENDS QueryParser, FiniteSets

CONSTANTS
  Fold,   \* fold_char() and ph -> f, on the lowercase runs of letters they change
  FinalI  \* the runs of letters that end in y: with an i instead

\* A space has no capital.
ASSUME LexiconAssumption == Space \notin DOMAIN Lower

GazetteerFields == {"brand", "color", "category"}
MIN_LEN == 2

SizeOf(v) == FoldFunction(+, 0, [i \in DOMAIN v |-> Len(v[i])])

IsLetters(c) == c \notin Marks /\ ~ IsDigit(c)
Alphabetic(t) == \A i \in DOMAIN t : IsLetters(t[i])

\* trim_matches(): what is no letter goes at both ends.
Trimmed(t) ==
  LET letters == {i \in DOMAIN t : IsLetters(t[i])} IN
  IF letters = {} THEN <<>> ELSE SubSeq(t, Min(letters), Max(letters))

-----------------------------------------------------------------------------
(* Gazetteer.  An entry is a field, a value in lowercase, and the value as *)
(* it was when it was first seen.                                          *)

\* trim(): the spaces at both ends go.
trim(v) ==
  LET kept == {i \in DOMAIN v : v[i] # Space} IN
  IF kept = {} THEN <<>> ELSE SubSeq(v, Min(kept), Max(kept))

\* Append-only: add_product() for one product after the other.
AddProduct(entries, metadata) ==
  LET fields == {f \in GazetteerFields \cap DOMAIN metadata : SizeOf(trim(metadata[f])) >= MIN_LEN}
      Key(f) == LowerOf(trim(metadata[f]))
      new    == {f \in fields : ~ \E e \in entries : e[1] = f /\ e[2] = Key(f)}
  IN  entries \cup {<<f, Key(f), trim(metadata[f])>> : f \in new}

\* word_boundary_match() at any occurrence, then at the start of a word only.
StartsWord(q, v) == \E i \in Occurrences(v, q) : FreeBefore(q, i)
WordBoundaryMatch(q, v) ==
  \E i \in Occurrences(v, q) : FreeBefore(q, i) /\ FreeAfter(q, i + Len(v))

\* extract_filters(): a field is set when exactly one of its values matches.
ExtractFilters(entries, q) ==
  LET found == {e \in entries : SizeOf(e[2]) >= MIN_LEN /\ WordBoundaryMatch(LowerOf(q), e[2])}
      once  == {f \in GazetteerFields : Cardinality({e \in found : e[1] = f}) = 1}
  IN  [f \in once |-> (CHOOSE e \in found : e[1] = f)[3]]

-----------------------------------------------------------------------------
(* Phonetic normal form, and the spelling of a word.                       *)

NormalizeToken(t) ==
  [i \in DOMAIN t |->
     LET c == In(Fold, LowerOf(t)[i]) IN IF i = Len(t) THEN In(FinalI, c) ELSE c]

\* Tokens of letters only; product codes and numbers pass through.
Normalize(q) ==
  LET ts == Tokens(q) IN
  Join([i \in DOMAIN ts |-> IF Alphabetic(ts[i]) THEN NormalizeToken(ts[i]) ELSE ts[i]])

\* SpellCorrector::correct(): everything in lowercase, the runs of alphabetic
\* words as the dictionary has them.  Which word the library finds for another
\* is given, word by word.
Correct(dictionary, q) ==
  LET ts == Tokens(LowerOf(q)) IN
  Join([i \in DOMAIN ts |->
          IF Alphabetic(ts[i]) /\ ts[i] \in DOMAIN dictionary THEN dictionary[ts[i]] ELSE ts[i]])

\* The terms the text index keeps of a text, or looks for: the words in lowercase,
\* without the marks around them.
Terms(q) ==
  LET ts == Tokens(LowerOf(q))
      Bare(t) == SelectSeq(t, LAMBDA c : c \notin Marks)
  IN  {Bare(ts[i]) : i \in DOMAIN ts} \ {<<>>}
=============================================================================
