-------------------------- MODULE OverrideRanking --------------------------
(***************************************************************************)
(* apply_overrides() (vectoria-core/src/search/mod.rs), the last phase of  *)
(* a search: suppressions, then pins, then sponsored slots edit the ranked *)
(* list of one query.  Search composes it with the phases before.          *)
(***************************************************************************)
EXTENDS Integers, Sequences, FiniteSets, SequencesExt

CONSTANTS
  Products,    \* product ids, in their order
  Positions,   \* 1-indexed target positions
  NotGiven     \* no tables have been read yet

Targets == [product : Products, position : Positions]

ASSUME OverridesAssumption == Positions \subseteq Nat \ {0} /\ Products \subseteq Nat

VARIABLES
  rows,        \* the products in storage
  phase,
  ranking,     \* the list before any edit
  hits,        \* the list
  given,       \* what the tables hold for the query
  pins, slots  \* the pins and active slots still to apply

\* History variables.
VARIABLES
  sponsored, \* the products that slots have put into the list
  placed,    \* where this phase has put products so far: pairs <<product, index>>
  upward     \* positions of this phase are distinct and nothing has moved down

overrideVars == <<phase, ranking, hits, given, pins, slots, sponsored, placed, upward>>

NoClash(S) ==
  \A x, y \in S : x # y => x.product # y.product /\ x.position # y.position

-----------------------------------------------------------------------------
\* sort_by_key(position): the lowest position first, ties in the order of the
\* storage's map.
FirstBy(S) == {x \in S : \A y \in S : x.position <= y.position}
LastBy(S)  == {x \in S : \A y \in S : x.position >= y.position}
NextOf(S)  == FirstBy(S)

\* position.saturating_sub(1).min(hits.len()), here counted from 1.
Target(list, position) == IF position <= Len(list) THEN position ELSE Len(list) + 1

\* Take the product out, if it is there, and put it at its position.
SwapTo(list, p, position) ==
  LET at == SelectInSeq(list, LAMBDA q : q = p)
      to == IF position <= Len(list) THEN position ELSE Len(list) IN
  IF at = 0 THEN InsertAt(list, Target(list, position), p)
            ELSE [list EXCEPT ![to] = p, ![at] = list[to]]
InsertOnly(list, p, position) == InsertAt(list, Target(list, position), p)
MoveTo(list, p, position) ==
  LET rest == RemoveFirst(list, p) IN InsertAt(rest, Target(rest, position), p)

\* The move keeps the product where it is, raises it, or brings it in.
Rises(list, p, position) ==
  Target(RemoveFirst(list, p), position) <= SelectInSeq(list, LAMBDA q : q = p)
    \/ ~ Contains(list, p)

\* The numbers of S in their order: one sequence.
Ascending(S) == {s \in SetToSeqs(S) : \A i, j \in DOMAIN s : i < j => s[i] < s[j]}

\* retain(): the positions that stay, in their order.
Suppress ==
  /\ phase = "suppress"
  /\ \E at \in Ascending({i \in DOMAIN hits : hits[i] \notin given.suppressed}) :
       hits' = [k \in DOMAIN at |-> hits[at[k]]]
  /\ phase' = "pin"
  /\ pins' = given.pins /\ slots' = given.slots
  /\ placed' = {} /\ upward' = NoClash(given.pins)
  /\ UNCHANGED <<rows, ranking, given, sponsored>>

Place(x) ==
  /\ hits' = MoveTo(hits, x.product, x.position)
  /\ placed' = placed \cup {<<x.product, Target(RemoveFirst(hits, x.product), x.position)>>}
  /\ upward' = (upward /\ Rises(hits, x.product, x.position))

ApplyPin(x) ==
  /\ phase = "pin"
  /\ x \in NextOf(pins)
  /\ pins' = pins \ {x}
  /\ IF Contains(hits, x.product) THEN Place(x) ELSE UNCHANGED <<hits, placed, upward>>
  /\ UNCHANGED <<rows, ranking, given, slots, phase, sponsored>>

PinsDone ==
  /\ phase = "pin" /\ pins = {}
  /\ phase' = "sponsor"
  /\ placed' = {}
  /\ upward' = NoClash(slots)
  /\ UNCHANGED <<rows, ranking, hits, given, pins, slots, sponsored>>

\* A sponsored product need not be a hit, only in storage.
ApplySlot(x) ==
  /\ phase = "sponsor"
  /\ x \in NextOf(slots)
  /\ slots' = slots \ {x}
  /\ IF x.product \in rows
     THEN Place(x) /\ sponsored' = sponsored \cup {x.product}
     ELSE UNCHANGED <<hits, placed, upward, sponsored>>
  /\ UNCHANGED <<rows, ranking, given, pins, phase>>

Done ==
  /\ phase = "sponsor" /\ slots = {}
  /\ phase' = "respond"
  /\ UNCHANGED <<rows, ranking, hits, given, pins, slots, sponsored, placed, upward>>

Override ==
  \/ Suppress \/ PinsDone \/ Done
  \/ \E x \in Targets : ApplyPin(x) \/ ApplySlot(x)

-----------------------------------------------------------------------------
(* Properties *)

Overridden == {x.product : x \in given.pins \cup given.slots}

\* The list has every product once: the ranked hits that are not suppressed, and
\* the sponsored products.
EachProductOnce ==
  phase \in {"pin", "sponsor", "respond"} =>
    /\ \A i, j \in DOMAIN hits : hits[i] = hits[j] => i = j
    /\ Range(hits) = (Range(ranking) \ given.suppressed) \cup sponsored

\* Overrides move the products they name and no other: the rest of the list
\* keeps the order of the ranking.
OrganicOrder ==
  phase \in {"pin", "sponsor", "respond"} =>
    \A i, j \in DOMAIN hits :
      i < j /\ {hits[i], hits[j]} \cap Overridden = {} =>
        \E k, m \in DOMAIN ranking : k < m /\ ranking[k] = hits[i] /\ ranking[m] = hits[j]

\* The comments at mod.rs:933-934 and 955, where they are right: if the
\* positions differ and no product is moved down the list, whatever has been
\* placed stays in its place.
PromotionsLand ==
  phase \in {"pin", "sponsor", "respond"} /\ upward => \A x \in placed : hits[x[2]] = x[1]
=============================================================================
