-------------------------- MODULE OverridesProofs --------------------------
(***************************************************************************)
(* Theorems about Overrides, for any number of queries, products, pages,   *)
(* admins and searches, any limit and lifetime of the cache, and with      *)
(* failures or without.                                                    *)
(***************************************************************************)
EXTENDS Overrides, FiniteSetTheorems, TLAPS

USE OverridesAssumption

-----------------------------------------------------------------------------
(* Types                                                                   *)

Responses == [view : Views, left : 0..TTL, torn : BOOLEAN]

Ops ==
  [pc : {"idle", "list", "run"}, slot : Slots \cup {None}, drops : SUBSET Rows,
   puts : SUBSET Rows, pin : BOOLEAN, alone : BOOLEAN, touched : BOOLEAN]

Searches ==
  [pc : {"idle", "put"} \cup Kinds, key : Keys \cup {None}, view : Views, torn : BOOLEAN]

TypeOK ==
  /\ tables \in Views
  /\ nextId \in Nat \ {0}
  /\ cache \in [Keys -> Responses \cup {None}]
  /\ op \in [Admins -> Ops]
  /\ \A a \in Admins : Busy(a) => op[a].slot \in Slots
  /\ search \in [Searchers -> Searches]
  /\ \A s \in Searchers : search[s].pc # "idle" => search[s].key \in Keys
  /\ settled \subseteq Slots
  /\ uncleared \in BOOLEAN

LEMMA RowIs ==
  ASSUME NEW kind \in Kinds, NEW id \in 1..MaxIds, NEW slot \in Slots
  PROVE  /\ Row(kind, id, slot) \in Rows
         /\ Row(kind, id, slot).kind = kind
         /\ Row(kind, id, slot).entry = [id |-> id, slot |-> slot]
  BY DEF Row, Rows, Entries

PinRows(rows) == {x \in rows : x.kind = "pin"}

Adds(m) == \E x \in m.puts : PinRows(m.puts) = {x}

LEMMA MutationIs ==
  ASSUME NEW pc \in {"list", "run"}, NEW slot \in Slots,
         NEW drops \in SUBSET Rows, NEW puts \in SUBSET Rows,
         NEW m, m = Mutation(pc, slot, drops, puts)
  PROVE  /\ m \in Ops /\ m.pc = pc /\ m.slot = slot /\ m.drops = drops /\ m.puts = puts
         /\ m.pin <=> Adds(m)
         /\ ~ m.touched
<1> DEFINE pin == \E x \in puts : PinRows(puts) = {x}
<1>1. m = [pc |-> pc, slot |-> slot, drops |-> drops, puts |-> puts, pin |-> pin,
           alone |-> FALSE, touched |-> FALSE]
  BY DEF Mutation, IdleOp, PinRows
<1>2. pin \in BOOLEAN
  OBVIOUS
<1> HIDE DEF pin
<1>3. /\ m \in Ops /\ m.pc = pc /\ m.slot = slot /\ m.drops = drops /\ m.puts = puts
      /\ m.pin = pin /\ ~ m.touched
  BY <1>1, <1>2 DEF Ops
<1>4. Adds(m) <=> pin
  BY <1>3 DEF Adds, pin
<1>5. QED
  BY <1>3, <1>4

\* A mutation that begins takes the exclusiveness of those on the same slot, and has
\* it if there are none.
LEMMA BeginMoves ==
  ASSUME TypeOK, NEW a \in Admins, NEW start \in Ops, Begin(a, start)
  PROVE  /\ op' \in [Admins -> Ops]
         /\ op'[a].pc = start.pc /\ op'[a].slot = start.slot /\ op'[a].drops = start.drops
         /\ op'[a].puts = start.puts /\ op'[a].pin = start.pin
         /\ op'[a].touched = start.touched
         /\ op'[a].alone => \A c \in Admins : op[c].slot # start.slot
         /\ \A b \in Admins \ {a} :
              /\ op'[b].pc = op[b].pc /\ op'[b].slot = op[b].slot /\ op'[b].drops = op[b].drops
              /\ op'[b].puts = op[b].puts /\ op'[b].pin = op[b].pin
              /\ op'[b].touched = op[b].touched
              /\ op'[b].alone => op[b].alone /\ op[b].slot # start.slot
         /\ ~ Busy(a) /\ settled' = settled \ {start.slot}
         /\ UNCHANGED <<tables, cache, search, uncleared>>
<1> DEFINE alone == \A c \in Admins : op[c].slot # start.slot
<1>1. alone \in BOOLEAN /\ (alone => \A c \in Admins : op[c].slot # start.slot)
  OBVIOUS
<1>2. op' = [b \in Admins |->
              IF b = a THEN [start EXCEPT !.alone = alone]
              ELSE IF op[b].slot = start.slot THEN [op[b] EXCEPT !.alone = FALSE] ELSE op[b]]
  BY DEF Begin
<1> HIDE DEF alone
<1>3. op \in [Admins -> Ops]
  BY DEF TypeOK
<1>4. [start EXCEPT !.alone = alone] \in Ops
  BY <1>1 DEF Ops
<1>5. \A b \in Admins : [op[b] EXCEPT !.alone = FALSE] \in Ops
  BY <1>3 DEF Ops
<1>6. op' \in [Admins -> Ops]
  BY <1>2, <1>3, <1>4, <1>5
<1>7. /\ op'[a].pc = start.pc /\ op'[a].slot = start.slot /\ op'[a].drops = start.drops
      /\ op'[a].puts = start.puts /\ op'[a].pin = start.pin
      /\ op'[a].touched = start.touched /\ op'[a].alone = alone
  BY <1>1, <1>2 DEF Ops
<1>8. ASSUME NEW b \in Admins \ {a}
      PROVE  /\ op'[b].pc = op[b].pc /\ op'[b].slot = op[b].slot /\ op'[b].drops = op[b].drops
             /\ op'[b].puts = op[b].puts /\ op'[b].pin = op[b].pin
             /\ op'[b].touched = op[b].touched
             /\ op'[b].alone => op[b].alone /\ op[b].slot # start.slot
  BY <1>2, <1>3 DEF Ops
<1>9. QED
  BY <1>1, <1>6, <1>7, <1>8 DEF Begin

\* The three ways a mutation begins.
LEMMA BeginsAre ==
  ASSUME TypeOK, NEW a \in Admins,
         \/ \E kind \in Kinds, slot \in Slots : Create(a, kind, slot)
         \/ \E kind \in Kinds : \E e \in tables[kind] : Delete(a, kind, e)
         \/ \E slot \in Slots, n \in 1..2, id \in 1..MaxIds : Import(a, slot, n, id)
  PROVE  \E start \in Ops :
           /\ Begin(a, start) /\ start.pc \in {"list", "run"} /\ start.slot \in Slots
           /\ ~ start.touched
           /\ start.pin <=> Adds(start)
           /\ start.pin => start.pc = "list" /\ start.drops = {}
           /\ \A x \in start.drops \cup start.puts : x.entry.slot = start.slot
           /\ \A x \in start.drops : x.entry \in tables[x.kind]
           /\ nextId' \in Nat /\ nextId <= nextId'
           /\ \A x \in start.puts : x.kind = "pin" => nextId <= x.entry.id /\ x.entry.id < nextId'
<1> DEFINE Fits(start) ==
             /\ Begin(a, start) /\ start.pc \in {"list", "run"} /\ start.slot \in Slots
             /\ ~ start.touched
             /\ start.pin <=> Adds(start)
             /\ start.pin => start.pc = "list" /\ start.drops = {}
             /\ \A x \in start.drops \cup start.puts : x.entry.slot = start.slot
             /\ \A x \in start.drops : x.entry \in tables[x.kind]
             /\ nextId' \in Nat /\ nextId <= nextId'
             /\ \A x \in start.puts : x.kind = "pin" => nextId <= x.entry.id /\ x.entry.id < nextId'
<1>1. ASSUME NEW kind \in Kinds, NEW slot \in Slots, Create(a, kind, slot)
      PROVE  \E start \in Ops : Fits(start)
  <2> DEFINE pc == IF kind = "pin" THEN "list" ELSE "run"
             x == Row(kind, nextId, slot)
  <2>1. nextId \in 1..MaxIds /\ nextId' = nextId + 1
    BY <1>1 DEF Create, TypeOK
  <2>2. x \in Rows /\ x.kind = kind /\ x.entry = [id |-> nextId, slot |-> slot]
    BY <2>1, RowIs
  <2>3. PICK start : start = Mutation(pc, slot, {}, {x})
    OBVIOUS
  <2> HIDE DEF x
  <2>4. /\ start \in Ops /\ start.pc = pc /\ start.slot = slot /\ start.drops = {}
        /\ start.puts = {x} /\ ~ start.touched
        /\ start.pin <=> Adds(start)
    BY <2>2, <2>3, MutationIs
  <2>8. start.pin => kind = "pin"
    BY <2>2, <2>4 DEF PinRows, Adds
  <2>5. Begin(a, start)
    BY <1>1, <2>3 DEF Create, x
  <2>6. Fits(start)
    <3>1. /\ nextId' \in Nat /\ nextId <= nextId'
          /\ \A y \in start.puts : y.kind = "pin" => nextId <= y.entry.id /\ y.entry.id < nextId'
      BY <2>1, <2>2, <2>4
    <3>2. start.pin => start.pc = "list" /\ start.drops = {}
      BY <2>4, <2>8
    <3>3. QED
      BY <2>2, <2>4, <2>5, <3>1, <3>2
  <2>7. QED
    BY <2>4, <2>6
<1>2. ASSUME NEW kind \in Kinds, NEW e \in tables[kind], Delete(a, kind, e)
      PROVE  \E start \in Ops : Fits(start)
  <2> DEFINE x == [kind |-> kind, entry |-> e]
  <2>1. e \in Entries /\ e.slot \in Slots /\ x \in Rows /\ x.kind = kind /\ x.entry = e
    BY DEF TypeOK, Views, Entries, Rows
  <2>2. PICK start : start = Mutation("run", e.slot, {x}, {})
    OBVIOUS
  <2> HIDE DEF x
  <2>3. /\ start \in Ops /\ start.pc = "run" /\ start.slot = e.slot /\ start.drops = {x}
        /\ start.puts = {} /\ ~ start.touched
        /\ start.pin <=> Adds(start)
    BY <2>1, <2>2, MutationIs
  <2>4. Begin(a, start) /\ nextId' = nextId
    BY <1>2, <2>2 DEF Delete, x
  <2>5. Fits(start)
    BY <2>1, <2>3, <2>4 DEF TypeOK, Adds
  <2>6. QED
    BY <2>3, <2>5
<1>3. ASSUME NEW slot \in Slots, NEW n \in 1..2, NEW id \in 1..MaxIds, Import(a, slot, n, id)
      PROVE  \E start \in Ops : Fits(start)
  <2> DEFINE pins == NewPins(slot, n)
             y == Row("suppression", id, slot)
  <2>1. /\ nextId \in Nat \ {0} /\ nextId + n <= MaxIds + 1 /\ nextId' = nextId + n
    BY <1>3 DEF Import, TypeOK
  <2>2. /\ \A x \in pins : /\ x \in Rows /\ x.kind = "pin" /\ x.entry.slot = slot
                           /\ nextId <= x.entry.id /\ x.entry.id < nextId'
        /\ y \in Rows /\ y.kind = "suppression" /\ y.entry.slot = slot
    <3>1. \A i \in nextId..(nextId + n - 1) : i \in 1..MaxIds /\ nextId <= i /\ i < nextId'
      BY <2>1
    <3>2. \A x \in pins : \E i \in nextId..(nextId + n - 1) : x = Row("pin", i, slot)
      BY DEF NewPins
    <3>k. "pin" \in Kinds /\ "suppression" \in Kinds
      BY DEF Kinds
    <3>3. ASSUME NEW i \in 1..MaxIds
          PROVE  /\ Row("pin", i, slot) \in Rows /\ Row("pin", i, slot).kind = "pin"
                 /\ Row("pin", i, slot).entry.slot = slot
                 /\ Row("pin", i, slot).entry.id = i
      <4>1. Row("pin", i, slot).entry = [id |-> i, slot |-> slot]
        BY <3>k, RowIs
      <4>2. QED
        BY <3>k, <4>1, RowIs
    <3>4. y \in Rows /\ y.kind = "suppression" /\ y.entry.slot = slot
      <4>1. y.entry = [id |-> id, slot |-> slot]
        BY <3>k, RowIs
      <4>2. QED
        BY <3>k, <4>1, RowIs
    <3> HIDE DEF pins, y
    <3>5. QED
      BY <3>1, <3>2, <3>3, <3>4
  <2>3. PICK start : start = Mutation("list", slot, {}, pins \cup {y})
    OBVIOUS
  <2>5. Begin(a, start)
    BY <1>3, <2>3 DEF Import
  <2> HIDE DEF pins, y
  <2>4. /\ start \in Ops /\ start.pc = "list" /\ start.slot = slot /\ start.drops = {}
        /\ start.puts = pins \cup {y} /\ ~ start.touched
        /\ start.pin <=> Adds(start)
    <3>1. {} \in SUBSET Rows /\ pins \cup {y} \in SUBSET Rows
      BY <2>2
    <3>2. QED
      BY <2>3, <3>1, MutationIs
  <2>6. Fits(start)
    BY <2>1, <2>2, <2>4, <2>5
  <2>7. QED
    BY <2>4, <2>6
<1>4. QED
  BY <1>1, <1>2, <1>3

LEMMA InitTypes ==
  ASSUME Init
  PROVE  TypeOK
<1>1. NoView \in Views
  BY DEF NoView, Views
<1>2. IdleOp \in Ops /\ IdleOp.pc = "idle"
  BY DEF IdleOp, Ops
<1>3. IdleSearch \in Searches /\ IdleSearch.pc = "idle"
  BY <1>1 DEF IdleSearch, Searches
<1>4. cache \in [Keys -> Responses \cup {None}]
  BY DEF Init
<1>5. op \in [Admins -> Ops] /\ \A a \in Admins : op[a].pc = "idle"
  BY <1>2 DEF Init
<1>6. search \in [Searchers -> Searches] /\ \A s \in Searchers : search[s].pc = "idle"
  BY <1>3 DEF Init
<1>7. tables \in Views /\ nextId \in Nat \ {0} /\ settled = {}
  BY <1>1 DEF Init
<1>8. uncleared \in BOOLEAN
  BY DEF Init
<1>9. QED
  BY <1>4, <1>5, <1>6, <1>7, <1>8 DEF TypeOK, Busy

LEMMA PutTypes ==
  ASSUME TypeOK, NEW key \in Keys, NEW r \in Responses, PutInCache(key, r)
  PROVE  /\ cache' \in [Keys -> Responses \cup {None}]
         /\ \A k \in Keys : k = key \/ cache'[k] = cache[k] \/ cache'[k] = None
         /\ cache'[key] = r
  BY DEF PutInCache, TypeOK

LEMMA TypeStep ==
  ASSUME TypeOK, [Next]_vars
  PROVE  TypeOK'
<1>0. /\ tables \in Views /\ nextId \in Nat \ {0} /\ cache \in [Keys -> Responses \cup {None}]
      /\ op \in [Admins -> Ops] /\ search \in [Searchers -> Searches]
      /\ \A a \in Admins : Busy(a) => op[a].slot \in Slots
      /\ \A s \in Searchers : search[s].pc # "idle" => search[s].key \in Keys
      /\ settled \subseteq Slots /\ uncleared \in BOOLEAN
  BY DEF TypeOK
<1>i. IdleOp \in Ops /\ IdleSearch \in Searches /\ IdleSearch.pc = "idle"
      /\ IdleOp.pc = "idle"
  BY DEF IdleOp, Ops, IdleSearch, Searches, NoView, Views
<1>1. CASE Tick
  <2>1. \A k \in Keys : Hit(k) => [cache[k] EXCEPT !.left = @ - 1] \in Responses
    BY <1>0 DEF Hit, Responses
  <2>2. cache' \in [Keys -> Responses \cup {None}]
    BY <1>0, <1>1, <2>1 DEF Tick
  <2>3. QED
    BY <1>0, <1>1, <2>2 DEF Tick, TypeOK, Busy
<1>2. ASSUME NEW s \in Searchers, NEW key \in Keys, Misses(s, key)
      PROVE  TypeOK'
  <2>1. [IdleSearch EXCEPT !.pc = "suppression", !.key = key] \in Searches
    BY DEF IdleSearch, Searches, NoView, Views, Kinds
  <2>2. search' \in [Searchers -> Searches]
    BY <1>0, <1>2, <2>1 DEF Misses
  <2>3. \A r \in Searchers : search'[r].pc # "idle" => search'[r].key \in Keys
    BY <1>0, <1>2 DEF Misses, IdleSearch
  <2>4. QED
    BY <1>0, <1>2, <2>2, <2>3 DEF Misses, TypeOK, Busy
<1>3. ASSUME NEW s \in Searchers, ReadTable(s)
      PROVE  TypeOK'
  <2> DEFINE v == OfQuery(search[s].key[1], tables[search[s].pc])
             r == [search[s] EXCEPT !.pc = After(search[s].pc), !.view[search[s].pc] = v]
  <2>1. search[s].pc \in Kinds /\ search[s].key \in Keys /\ search' = [search EXCEPT ![s] = r]
    <3>1. search[s].pc \in Kinds /\ search' = [search EXCEPT ![s] = r]
      BY <1>3 DEF ReadTable
    <3>2. search[s].pc # "idle"
      BY <3>1 DEF Kinds
    <3>3. QED
      BY <1>0, <3>1, <3>2
  <2>2. v \in SUBSET Entries /\ After(search[s].pc) \in Kinds \cup {"put"}
    BY <1>0, <2>1 DEF OfQuery, Views, Kinds, After
  <2>3. r \in Searches /\ r.key = search[s].key
    <3> HIDE DEF v
    <3>1. [search[s].view EXCEPT ![search[s].pc] = v] \in Views
      BY <1>0, <2>1, <2>2 DEF Searches, Views
    <3>2. QED
      BY <1>0, <2>2, <3>1 DEF Searches
  <2> HIDE DEF r
  <2>4. search' \in [Searchers -> Searches] /\ \A u \in Searchers : search'[u].pc # "idle" => search'[u].key \in Keys
    BY <1>0, <2>1, <2>3
  <2>5. QED
    BY <1>0, <1>3, <2>4 DEF ReadTable, TypeOK, Busy
<1>4. ASSUME NEW s \in Searchers, SkipTable(s)
      PROVE  TypeOK'
  <2> DEFINE r == [search[s] EXCEPT !.pc = After(search[s].pc), !.torn = TRUE]
  <2>1. search[s].pc \in Kinds /\ search[s].key \in Keys /\ search' = [search EXCEPT ![s] = r]
    BY <1>0, <1>4 DEF SkipTable, Kinds
  <2>2. After(search[s].pc) \in Kinds \cup {"put"}
    BY <2>1 DEF Kinds, After
  <2>3. r \in Searches /\ r.key = search[s].key
    BY <1>0, <2>2 DEF Searches
  <2> HIDE DEF r
  <2>4. search' \in [Searchers -> Searches] /\ \A u \in Searchers : search'[u].pc # "idle" => search'[u].key \in Keys
    BY <1>0, <2>1, <2>3
  <2>5. QED
    BY <1>0, <1>4, <2>4 DEF SkipTable, TypeOK, Busy
<1>5. ASSUME NEW s \in Searchers, Respond(s)
      PROVE  TypeOK'
  <2> DEFINE r == [view |-> search[s].view, left |-> TTL, torn |-> search[s].torn]
  <2>1. search[s].key \in Keys /\ r \in Responses /\ PutInCache(search[s].key, r)
    BY <1>0, <1>5 DEF Respond, Searches, Responses
  <2> HIDE DEF r
  <2>2. cache' \in [Keys -> Responses \cup {None}]
    BY <2>1, PutTypes
  <2>3. search' \in [Searchers -> Searches] /\ \A u \in Searchers : search'[u].pc # "idle" => search'[u].key \in Keys
    BY <1>0, <1>5, <1>i DEF Respond
  <2>4. QED
    BY <1>0, <1>5, <2>2, <2>3 DEF Respond, TypeOK, Busy
<1>6. ASSUME NEW a \in Admins,
             \/ \E kind \in Kinds, slot \in Slots : Create(a, kind, slot)
             \/ \E kind \in Kinds : \E e \in tables[kind] : Delete(a, kind, e)
             \/ \E slot \in Slots, n \in 1..2, id \in 1..MaxIds : Import(a, slot, n, id)
      PROVE  TypeOK'
  <2>1. PICK start \in Ops :
          Begin(a, start) /\ start.slot \in Slots /\ nextId' \in Nat /\ nextId <= nextId'
    BY <1>6, BeginsAre
  <2>4. nextId' \in Nat \ {0}
    BY <1>0, <2>1
  <2>2. \A b \in Admins : Busy(b)' => op'[b].slot \in Slots
    BY <1>0, <2>1, BeginMoves DEF Busy
  <2>3. QED
    BY <1>0, <2>1, <2>2, <2>4, BeginMoves DEF TypeOK
<1>7. ASSUME NEW a \in Admins, ListPins(a)
      PROVE  TypeOK'
  <2>1. Evicted(op[a].slot) \subseteq Rows
    BY <1>0 DEF Evicted, Rows, Views, Kinds
  <2>2. op' = [op EXCEPT ![a] = [op[a] EXCEPT !.pc = "run", !.drops = Evicted(op[a].slot)]]
    BY <1>0, <1>7 DEF ListPins
  <2>3. [op[a] EXCEPT !.pc = "run", !.drops = Evicted(op[a].slot)] \in Ops
    BY <1>0, <2>1 DEF Ops
  <2>4. op' \in [Admins -> Ops] /\ \A b \in Admins : Busy(b)' => op'[b].slot \in Slots
    BY <1>0, <1>7, <2>2, <2>3 DEF Ops, ListPins, Busy
  <2>5. QED
    BY <1>0, <1>7, <2>4 DEF ListPins, TypeOK
<1>t. ASSUME Tear
      PROVE  search' \in [Searchers -> Searches] /\ \A u \in Searchers : search'[u].pc # "idle" => search'[u].key \in Keys
  <2>1. \A s \in Searchers : [search[s] EXCEPT !.torn = TRUE] \in Searches
    BY <1>0 DEF Searches
  <2>2. search' \in [Searchers -> Searches]
    BY <1>0, <1>t, <2>1 DEF Tear
  <2>3. \A u \in Searchers : search'[u].pc = search[u].pc /\ search'[u].key = search[u].key
    BY <1>0, <1>t DEF Tear, Searches
  <2>4. QED
    BY <1>0, <2>2, <2>3
<1>8. ASSUME NEW a \in Admins, NEW x \in Rows, DropRow(a, x)
      PROVE  TypeOK'
  <2>1. x.kind \in Kinds /\ x.entry \in Entries
    BY DEF Rows
  <2>2. tables' \in Views
    BY <1>0, <1>8, <2>1 DEF DropRow, Views
  <2>3. op' \in [Admins -> Ops] /\ \A b \in Admins : Busy(b)' => op'[b].slot \in Slots
    <3> DEFINE moved == [op[a] EXCEPT !.drops = @ \ {x}, !.touched = TRUE]
    <3>1. moved \in Ops /\ moved.pc = op[a].pc /\ moved.slot = op[a].slot
      BY <1>0 DEF Ops
    <3>2. op' = [op EXCEPT ![a] = moved]
      BY <1>0, <1>8 DEF DropRow
    <3> HIDE DEF moved
    <3>3. QED
      BY <1>0, <3>1, <3>2 DEF Busy
  <2>4. QED
    BY <1>0, <1>8, <1>t, <2>2, <2>3 DEF DropRow, TypeOK
<1>9. ASSUME NEW a \in Admins, NEW x \in Rows, PutRow(a, x)
      PROVE  TypeOK'
  <2>1. x.kind \in Kinds /\ x.entry \in Entries
    BY DEF Rows
  <2>2. tables' \in Views
    BY <1>0, <1>9, <2>1 DEF PutRow, Views
  <2>3. op' \in [Admins -> Ops] /\ \A b \in Admins : Busy(b)' => op'[b].slot \in Slots
    <3> DEFINE moved == [op[a] EXCEPT !.puts = @ \ {x}, !.touched = TRUE]
    <3>1. moved \in Ops /\ moved.pc = op[a].pc /\ moved.slot = op[a].slot
      BY <1>0 DEF Ops
    <3>2. op' = [op EXCEPT ![a] = moved]
      BY <1>0, <1>9 DEF PutRow
    <3> HIDE DEF moved
    <3>3. QED
      BY <1>0, <3>1, <3>2 DEF Busy
  <2>4. QED
    BY <1>0, <1>9, <1>t, <2>2, <2>3 DEF PutRow, TypeOK
<1>10. ASSUME NEW a \in Admins, Finish(a)
       PROVE  TypeOK'
  <2>1. /\ op' \in [Admins -> Ops] /\ cache' \in [Keys -> Responses \cup {None}]
        /\ \A b \in Admins : Busy(b)' => op'[b].slot \in Slots
    BY <1>0, <1>10, <1>i DEF Finish, ClearAfter, ClearCache, Busy
  <2>2. settled' \subseteq Slots
    <3>1. op[a].slot \in Slots
      BY <1>0, <1>10 DEF Finish, Busy
    <3>2. QED
      BY <1>0, <1>10, <3>1 DEF Finish
  <2>3. QED
    BY <1>0, <1>10, <2>1, <2>2 DEF Finish, TypeOK
<1>11. ASSUME NEW a \in Admins, Fail(a)
       PROVE  TypeOK'
  <2>1. /\ op' \in [Admins -> Ops] /\ uncleared' \in BOOLEAN
        /\ \A b \in Admins : Busy(b)' => op'[b].slot \in Slots
    BY <1>0, <1>11, <1>i DEF Fail, Ops, Busy
  <2>2. QED
    BY <1>0, <1>11, <2>1 DEF Fail, TypeOK
<1>12. CASE UNCHANGED vars
  BY <1>0, <1>12 DEF vars, TypeOK, Busy
<1>13. QED
  BY <1>1, <1>2, <1>3, <1>4, <1>5, <1>6, <1>7, <1>8, <1>9, <1>10, <1>11, <1>12 DEF Next

-----------------------------------------------------------------------------
(* The size of the cache                                                   *)

LEMMA KeysAreFinite ==
  \A S \in SUBSET Keys : IsFiniteSet(S) /\ Cardinality(S) \in Nat
  BY FS_Subset, FS_CardinalityType

\* A new entry finds room: what is left after the eviction and the entry itself are
\* within the limit.
LEMMA PutIsBounded ==
  ASSUME TypeOK, CacheBounded, NEW key \in Keys, NEW r, PutInCache(key, r)
  PROVE  CacheBounded'
<1> DEFINE alive == {k \in Keys : Hit(k)}
           bound == IF MaxEntries < 2 THEN 2 ELSE MaxEntries
<1>1. PICK gone \in Evictions :
        cache' = [k \in Keys |-> IF k = key THEN r ELSE IF k \in gone THEN None ELSE cache[k]]
  BY DEF PutInCache
<1> DEFINE kept == Cached \ gone
<1>2. Cached' \subseteq kept \cup {key}
  BY <1>1 DEF Cached
<1>3. Cached \subseteq Keys /\ kept \subseteq Keys /\ alive \subseteq Cached
  BY DEF Cached, Hit
<1>4. /\ Cardinality(Cached) \in Nat /\ Cardinality(kept) \in Nat /\ Cardinality(alive) \in Nat
      /\ IsFiniteSet(kept) /\ IsFiniteSet(Cached) /\ IsFiniteSet(alive)
      /\ Cardinality(alive) <= Cardinality(Cached) /\ Cardinality(Cached) <= bound
  <2>1. Cardinality(alive) <= Cardinality(Cached)
    BY <1>3, KeysAreFinite, FS_Subset
  <2>2. QED
    BY <1>3, <2>1, KeysAreFinite DEF CacheBounded
<1>5. Cardinality(kept) + 1 <= bound
  <2>1. CASE Cardinality(Cached) < MaxEntries
    <3>1. Cardinality(kept) <= Cardinality(Cached)
      BY <1>4, FS_Subset
    <3>2. QED
      BY <1>4, <2>1, <3>1
  <2>2. CASE ~ (Cardinality(Cached) < MaxEntries) /\ Cardinality(alive) < MaxEntries
    <3>1. gone = Cached \ alive
      BY <2>2 DEF Evictions
    <3>2. kept = alive
      BY <1>3, <3>1
    <3> HIDE DEF alive, kept
    <3>3. Cardinality(kept) = Cardinality(alive)
      BY <3>2
    <3>4. QED
      BY <1>4, <2>2, <3>3
  <2>3. CASE ~ (Cardinality(Cached) < MaxEntries) /\ ~ (Cardinality(alive) < MaxEntries)
    <3>1. PICK half \in SUBSET alive : /\ Cardinality(half) = Cardinality(alive) \div 2
                                       /\ gone = (Cached \ alive) \cup half
      BY <2>3 DEF Evictions, RemoveCount, HalfOf
    <3>2. kept = alive \ half
      BY <1>3, <3>1
    <3>3. Cardinality(kept) = Cardinality(alive) - Cardinality(half)
      <4>1. alive \cap half = half
        BY <3>1
      <4>2. Cardinality(alive \ half) = Cardinality(alive) - Cardinality(alive \cap half)
        BY <1>4, FS_Difference
      <4>3. QED
        BY <3>2, <4>1, <4>2
    <3>4. Cardinality(kept) = Cardinality(alive) - (Cardinality(alive) \div 2)
      BY <3>1, <3>3
    <3> HIDE DEF alive, kept
    <3>5. CASE MaxEntries < 2
      <4>1. Cardinality(alive) \in 0..2
        BY <1>4, <3>5
      <4>2. QED
        BY <3>4, <3>5, <4>1
    <3>6. CASE MaxEntries >= 2
      BY <1>4, <2>3, <3>4, <3>6
    <3>7. QED
      BY <3>5, <3>6
  <2>4. QED
    BY <2>1, <2>2, <2>3
<1>6. Cardinality(kept \cup {key}) <= Cardinality(kept) + 1 /\ IsFiniteSet(kept \cup {key})
      /\ Cardinality(kept \cup {key}) \in Nat
  <2> HIDE DEF kept
  <2>1. Cardinality(kept \cup {key}) = IF key \in kept THEN Cardinality(kept) ELSE Cardinality(kept) + 1
    BY <1>4, FS_AddElement
  <2>2. IsFiniteSet(kept \cup {key})
    BY <1>4, FS_AddElement
  <2>3. QED
    BY <1>4, <2>1, <2>2
<1>7. Cardinality(Cached') <= Cardinality(kept \cup {key}) /\ Cardinality(Cached') \in Nat
  BY <1>2, <1>6, FS_Subset, FS_CardinalityType
<1>8. QED
  BY <1>4, <1>5, <1>6, <1>7 DEF CacheBounded

\* Without a put no key joins the cache.
LEMMA NoPutIsBounded ==
  ASSUME CacheBounded, Cached' \subseteq Cached
  PROVE  CacheBounded'
<1>1. Cached \subseteq Keys
  BY DEF Cached
<1>2. /\ Cardinality(Cached') <= Cardinality(Cached)
      /\ Cardinality(Cached') \in Nat /\ Cardinality(Cached) \in Nat
  BY <1>1, KeysAreFinite, FS_Subset
<1>3. QED
  BY <1>2 DEF CacheBounded

\* The cache stays within its limit, or within two entries: every put comes after an
\* eviction that makes room.
THEOREM CacheStaysBounded == Spec => []CacheBounded
<1>1. Init => TypeOK /\ CacheBounded
  <2> SUFFICES ASSUME Init PROVE TypeOK /\ CacheBounded
    OBVIOUS
  <2>1. Cached = {}
    BY DEF Init, Cached
  <2>2. QED
    BY <2>1, InitTypes, FS_EmptySet DEF CacheBounded
<1>2. (TypeOK /\ CacheBounded) /\ [Next]_vars => (TypeOK /\ CacheBounded)'
  <2> SUFFICES ASSUME TypeOK, CacheBounded, [Next]_vars PROVE TypeOK' /\ CacheBounded'
    OBVIOUS
  <2>1. CASE Tick
    <3>1. Cached' \subseteq Cached
      BY <2>1 DEF Tick, Cached, Hit
    <3>2. QED
      BY <3>1, TypeStep, NoPutIsBounded
  <2>2. CASE \E s \in Searchers : Respond(s)
    BY <2>2, TypeStep, PutIsBounded DEF Respond, TypeOK
  <2>3. CASE \E a \in Admins : Finish(a)
    <3>1. Cached' = {}
      BY <2>3 DEF Finish, ClearAfter, ClearCache, Cached
    <3>2. QED
      BY <3>1, TypeStep, NoPutIsBounded
  <2>4. CASE cache' = cache
    BY <2>4, TypeStep, NoPutIsBounded DEF Cached
  <2>5. \A s \in Searchers : ReadTable(s) \/ SkipTable(s) \/ (\E key \in Keys : Misses(s, key)) =>
          cache' = cache
    BY DEF ReadTable, SkipTable, Misses
  <2>6. ASSUME NEW a \in Admins,
               \/ \E kind \in Kinds, slot \in Slots : Create(a, kind, slot)
               \/ \E kind \in Kinds : \E e \in tables[kind] : Delete(a, kind, e)
               \/ \E slot \in Slots, n \in 1..2, id \in 1..MaxIds : Import(a, slot, n, id)
        PROVE  cache' = cache
    BY <2>6 DEF Create, Delete, Import, Begin
  <2>7. \A a \in Admins : ListPins(a) \/ (\E x \in Rows : DropRow(a, x) \/ PutRow(a, x)) \/ Fail(a) =>
          cache' = cache
    BY DEF ListPins, DropRow, PutRow, Fail
  <2>8. CASE UNCHANGED vars
    BY <2>4, <2>8 DEF vars
  <2>9. QED
    BY <2>1, <2>2, <2>3, <2>4, <2>5, <2>6, <2>7, <2>8 DEF Next
<1>3. QED
  BY <1>1, <1>2, PTL DEF Spec

-----------------------------------------------------------------------------
(* What one admin's step does to the mutations                             *)

LEMMA DropMoves ==
  ASSUME TypeOK, NEW a \in Admins, NEW x \in Rows, DropRow(a, x)
  PROVE  /\ op[a].pc = "run" /\ x \in op[a].drops
         /\ op'[a].pc = op[a].pc /\ op'[a].slot = op[a].slot /\ op'[a].puts = op[a].puts
         /\ op'[a].drops = op[a].drops \ {x} /\ op'[a].pin = op[a].pin
         /\ op'[a].alone = op[a].alone /\ op'[a].touched
         /\ \A b \in Admins \ {a} : op'[b] = op[b]
         /\ tables'[x.kind] = {e \in tables[x.kind] : e.id # x.entry.id}
         /\ \A k \in Kinds \ {x.kind} : tables'[k] = tables[k]
         /\ UNCHANGED <<nextId, cache, settled, uncleared>>
<1>1. x.kind \in Kinds /\ tables \in [Kinds -> SUBSET Entries] /\ op \in [Admins -> Ops]
  BY DEF Rows, TypeOK, Views
<1>2. tables' = [tables EXCEPT ![x.kind] = {e \in tables[x.kind] : e.id # x.entry.id}]
  BY <1>1 DEF DropRow
<1>3. op' = [op EXCEPT ![a] = [op[a] EXCEPT !.drops = @ \ {x}, !.touched = TRUE]]
  BY <1>1 DEF DropRow
<1>4. QED
  BY <1>1, <1>2, <1>3 DEF DropRow, Ops

LEMMA PutMoves ==
  ASSUME TypeOK, NEW a \in Admins, NEW x \in Rows, PutRow(a, x)
  PROVE  /\ op[a].pc = "run" /\ x \in op[a].puts /\ op[a].drops = {}
         /\ op'[a].pc = op[a].pc /\ op'[a].slot = op[a].slot /\ op'[a].puts = op[a].puts \ {x}
         /\ op'[a].drops = op[a].drops /\ op'[a].pin = op[a].pin
         /\ op'[a].alone = op[a].alone /\ op'[a].touched
         /\ \A b \in Admins \ {a} : op'[b] = op[b]
         /\ tables'[x.kind] = {e \in tables[x.kind] : e.id # x.entry.id} \cup {x.entry}
         /\ \A k \in Kinds \ {x.kind} : tables'[k] = tables[k]
         /\ x.kind = "pin" \/ \A y \in op[a].puts : y.kind # "pin"
         /\ UNCHANGED <<nextId, cache, settled, uncleared>>
<1>1. x.kind \in Kinds /\ tables \in [Kinds -> SUBSET Entries] /\ op \in [Admins -> Ops]
  BY DEF Rows, TypeOK, Views
<1>2. tables' = [tables EXCEPT ![x.kind] = {e \in tables[x.kind] : e.id # x.entry.id} \cup {x.entry}]
  BY <1>1 DEF PutRow
<1>3. op' = [op EXCEPT ![a] = [op[a] EXCEPT !.puts = @ \ {x}, !.touched = TRUE]]
  BY <1>1 DEF PutRow
<1>4. QED
  BY <1>1, <1>2, <1>3 DEF PutRow, Ops

LEMMA ListMoves ==
  ASSUME TypeOK, NEW a \in Admins, ListPins(a)
  PROVE  /\ op[a].pc = "list" /\ op'[a].pc = "run" /\ op'[a].slot = op[a].slot
         /\ op'[a].puts = op[a].puts /\ op'[a].drops = Evicted(op[a].slot)
         /\ op'[a].pin = op[a].pin /\ op'[a].alone = op[a].alone
         /\ op'[a].touched = op[a].touched
         /\ \A b \in Admins \ {a} : op'[b] = op[b]
         /\ UNCHANGED <<tables, nextId, cache, search, settled, uncleared>>
<1>1. op \in [Admins -> Ops]
  BY DEF TypeOK
<1>2. op' = [op EXCEPT ![a] = [op[a] EXCEPT !.pc = "run", !.drops = Evicted(op[a].slot)]]
  BY <1>1 DEF ListPins
<1>3. QED
  BY <1>1, <1>2 DEF ListPins, Ops

LEMMA EndMoves ==
  ASSUME TypeOK, NEW a \in Admins, Finish(a) \/ Fail(a)
  PROVE  /\ Busy(a) /\ op'[a].pc = "idle" /\ op'[a].drops = {} /\ op'[a].puts = {}
         /\ ~ op'[a].touched
         /\ \A b \in Admins \ {a} : op'[b] = op[b]
         /\ UNCHANGED <<tables, nextId, search>>
<1>1. op \in [Admins -> Ops]
  BY DEF TypeOK
<1>2. op' = [op EXCEPT ![a] = IdleOp]
  BY DEF Finish, Fail
<1>3. QED
  BY <1>1, <1>2 DEF Finish, Fail, IdleOp, Busy

-----------------------------------------------------------------------------
(* One pin per slot                                                        *)

PinsOf(slot)  == {e \in tables["pin"] : e.slot = slot}

\* The pins of the table, and those a mutation will still drop or put.
PinRow(e)   == [kind |-> "pin", entry |-> e]
Holds(a, e) == PinRow(e) \in op[a].drops \cup op[a].puts
Known(e)    == e \in tables["pin"] \/ \E a \in Admins : Holds(a, e)

IdsAreOwn  == \A e, f \in Entries : Known(e) /\ Known(f) /\ e.id = f.id => e = f
IdsAreUsed == \A e \in Entries : Known(e) => e.id < nextId

OwnRows ==
  \A a \in Admins : \A x \in op[a].drops \cup op[a].puts : x.entry.slot = op[a].slot

AloneIsAlone ==
  \A a, b \in Admins :
    Busy(a) /\ Busy(b) /\ a # b /\ op[a].alone => op[b].slot # op[a].slot

\* No mutation is on a settled slot, and the slot has its pin.
SettledIsOne ==
  \A slot \in settled :
    /\ \A a \in Admins : Busy(a) => op[a].slot # slot
    /\ \E p \in Entries : PinsOf(slot) = {p}

\* A mutation that puts a pin and is alone on its slot: it has one to put, and drops
\* all that are there; or it has put it, and nothing is left to drop.
ToPut(a)  == \E x \in op[a].puts : PinRows(op[a].puts) = {x}
HasPut(a) == /\ PinRows(op[a].puts) = {} /\ op[a].drops = {}
             /\ \E p \in Entries : PinsOf(op[a].slot) = {p}
Pinning(a) ==
  /\ op[a].pc = "list" => op[a].drops = {} /\ ToPut(a)
  /\ op[a].pc = "run" =>
       \/ ToPut(a) /\ \A e \in PinsOf(op[a].slot) : PinRow(e) \in op[a].drops
       \/ HasPut(a)
PinsGoOn == \A a \in Admins : Busy(a) /\ op[a].pin /\ op[a].alone => Pinning(a)

PinInv ==
  /\ TypeOK /\ IdsAreOwn /\ IdsAreUsed /\ OwnRows /\ AloneIsAlone
  /\ SettledIsOne /\ PinsGoOn

LEMMA PinRowIs ==
  ASSUME NEW e \in Entries
  PROVE  /\ PinRow(e) \in Rows /\ PinRow(e).kind = "pin" /\ PinRow(e).entry = e
         /\ \A x \in Rows : x.kind = "pin" /\ x.entry = e => x = PinRow(e)
  BY DEF PinRow, Rows, Kinds

\* A pin comes to be known in one way: a mutation of its slot begins with a new id for
\* it.
LEMMA KnownMoves ==
  ASSUME TypeOK, [Next]_vars
  PROVE  /\ nextId' \in Nat /\ nextId <= nextId'
         /\ \E slot : \A e \in Entries : Known(e)' =>
              Known(e) \/ (e.slot = slot /\ nextId <= e.id /\ e.id < nextId')
<1> DEFINE Moves ==
             /\ nextId' \in Nat /\ nextId <= nextId'
             /\ \E slot : \A e \in Entries : Known(e)' =>
                  Known(e) \/ (e.slot = slot /\ nextId <= e.id /\ e.id < nextId')
<1>1. ASSUME nextId' = nextId, \A e \in Entries : Known(e)' => Known(e)
      PROVE  Moves
  BY <1>1 DEF TypeOK
<1>2. ASSUME NEW a \in Admins,
             \/ \E kind \in Kinds, slot \in Slots : Create(a, kind, slot)
             \/ \E kind \in Kinds : \E e \in tables[kind] : Delete(a, kind, e)
             \/ \E slot \in Slots, n \in 1..2, id \in 1..MaxIds : Import(a, slot, n, id)
      PROVE  Moves
  <2>1. PICK start \in Ops :
          /\ Begin(a, start)
          /\ \A x \in start.drops : x.entry \in tables[x.kind]
          /\ \A x \in start.drops \cup start.puts : x.entry.slot = start.slot
          /\ nextId' \in Nat /\ nextId <= nextId'
          /\ \A x \in start.puts : x.kind = "pin" => nextId <= x.entry.id /\ x.entry.id < nextId'
    BY <1>2, BeginsAre
  <2>2. /\ op'[a].drops = start.drops /\ op'[a].puts = start.puts /\ tables' = tables
        /\ \A b \in Admins \ {a} : op'[b].drops = op[b].drops /\ op'[b].puts = op[b].puts
    BY <2>1, BeginMoves
  <2>3. ASSUME NEW e \in Entries, Known(e)'
        PROVE  Known(e) \/ (e.slot = start.slot /\ nextId <= e.id /\ e.id < nextId')
    <3>1. CASE e \in tables["pin"]
      BY <3>1 DEF Known
    <3>2. CASE \E b \in Admins \ {a} : Holds(b, e)'
      BY <2>2, <3>2 DEF Known, Holds
    <3>3. CASE PinRow(e) \in start.drops
      BY <2>1, <3>3, PinRowIs DEF Known
    <3>4. CASE PinRow(e) \in start.puts
      BY <2>1, <3>4, PinRowIs
    <3>5. QED
      BY <2>2, <2>3, <3>1, <3>2, <3>3, <3>4 DEF Known, Holds
  <2>4. QED
    BY <2>1, <2>3
<1>3. ASSUME NEW a \in Admins, ListPins(a)
      PROVE  Moves
  <2>1. \A e \in Entries : PinRow(e) \in Evicted(op[a].slot) => e \in tables["pin"]
    BY PinRowIs DEF Evicted, PinRow
  <2>2. \A e \in Entries : Known(e)' => Known(e)
    BY <1>3, <2>1, ListMoves DEF Known, Holds
  <2>3. QED
    BY <1>1, <1>3, <2>2, ListMoves
<1>4. ASSUME NEW a \in Admins, NEW x \in Rows, DropRow(a, x)
      PROVE  Moves
  <2>1. tables'["pin"] \subseteq tables["pin"]
    BY <1>4, DropMoves DEF Kinds
  <2>2. \A e \in Entries : Known(e)' => Known(e)
    BY <1>4, <2>1, DropMoves DEF Known, Holds
  <2>3. QED
    BY <1>1, <1>4, <2>2, DropMoves
<1>5. ASSUME NEW a \in Admins, NEW x \in Rows, PutRow(a, x)
      PROVE  Moves
  <2>1. \A e \in tables'["pin"] : e \in tables["pin"] \/ (x.kind = "pin" /\ e = x.entry)
    BY <1>5, PutMoves DEF Kinds
  <2>2. \A e \in Entries : x.kind = "pin" /\ e = x.entry => Known(e)
    BY <1>5, PutMoves, PinRowIs DEF Known, Holds
  <2>3. \A e \in Entries : Known(e)' => Known(e)
    BY <1>5, <2>1, <2>2, PutMoves DEF Known, Holds
  <2>4. QED
    BY <1>1, <1>5, <2>3, PutMoves
<1>6. ASSUME NEW a \in Admins, Finish(a) \/ Fail(a)
      PROVE  Moves
  <2>1. \A e \in Entries : Known(e)' => Known(e)
    BY <1>6, EndMoves DEF Known, Holds
  <2>2. QED
    BY <1>1, <1>6, <2>1, EndMoves
<1>7. CASE tables' = tables /\ op' = op /\ nextId' = nextId
  BY <1>1, <1>7 DEF Known, Holds
<1>8. QED
  BY <1>2, <1>3, <1>4, <1>5, <1>6, <1>7
  DEF Next, vars, Tick, ReadTable, SkipTable, Respond, Misses

LEMMA IdsStep ==
  ASSUME TypeOK, IdsAreOwn, IdsAreUsed, [Next]_vars
  PROVE  IdsAreOwn' /\ IdsAreUsed'
<1>1. PICK slot : \A e \in Entries : Known(e)' =>
        Known(e) \/ (e.slot = slot /\ nextId <= e.id /\ e.id < nextId')
  BY KnownMoves
<1>2. nextId' \in Nat /\ nextId <= nextId' /\ nextId \in Nat
  BY KnownMoves DEF TypeOK
<1>3. \A e \in Entries : e.id \in Nat
  BY DEF Entries
<1>4. \A e \in Entries : Known(e) => e.id < nextId
  BY DEF IdsAreUsed
<1>5. \A e \in Entries : Known(e)' => e.id < nextId'
  BY <1>1, <1>2, <1>3, <1>4
<1>6. ASSUME NEW e \in Entries, NEW f \in Entries, Known(e)', Known(f)', e.id = f.id
      PROVE  e = f
  <2>1. CASE Known(e) /\ Known(f)
    BY <1>6, <2>1 DEF IdsAreOwn
  <2>2. CASE ~ Known(e) /\ ~ Known(f)
    <3>1. e.slot = f.slot
      BY <1>1, <1>6, <2>2
    <3>2. QED
      BY <1>6, <3>1 DEF Entries
  <2>3. CASE Known(e) /\ ~ Known(f)
    BY <1>1, <1>2, <1>3, <1>4, <1>6, <2>3
  <2>4. CASE ~ Known(e) /\ Known(f)
    BY <1>1, <1>2, <1>3, <1>4, <1>6, <2>4
  <2>5. QED
    BY <2>1, <2>2, <2>3, <2>4
<1>7. QED
  BY <1>5, <1>6 DEF IdsAreOwn, IdsAreUsed

\* Dropping or putting a row leaves the pins of every other slot alone: no other pin
\* has the id of the row.
LEMMA PinsElsewhere ==
  ASSUME PinInv, NEW a \in Admins, NEW x \in Rows, DropRow(a, x) \/ PutRow(a, x),
         NEW slot, slot # op[a].slot
  PROVE  PinsOf(slot)' = PinsOf(slot)
<1>1. tables["pin"] \subseteq Entries
  BY DEF PinInv, TypeOK, Views, Kinds
<1>2. x \in op[a].drops \cup op[a].puts
  BY DropMoves, PutMoves DEF PinInv
<1>3. x.entry.slot = op[a].slot /\ x.entry \in Entries /\ x.kind \in Kinds
  BY <1>2 DEF PinInv, OwnRows, Rows
<1>4. CASE x.kind = "pin"
  <2>1. Known(x.entry)
    BY <1>2, <1>3, <1>4, PinRowIs DEF Known, Holds
  <2>2. \A e \in tables["pin"] : e.id = x.entry.id => e = x.entry
    BY <1>1, <1>3, <2>1 DEF PinInv, IdsAreOwn, Known
  <2>3. CASE DropRow(a, x)
    BY <1>3, <1>4, <2>2, <2>3, DropMoves DEF PinInv, PinsOf
  <2>4. CASE PutRow(a, x)
    BY <1>3, <1>4, <2>2, <2>4, PutMoves DEF PinInv, PinsOf
  <2>5. QED
    BY <2>3, <2>4
<1>5. CASE x.kind # "pin"
  BY <1>5, DropMoves, PutMoves DEF PinInv, PinsOf, Kinds
<1>6. QED
  BY <1>4, <1>5

\* Who is not on the slot of a row does not notice that it is dropped or put.
LEMMA RowStep ==
  ASSUME PinInv, NEW a \in Admins, NEW x \in Rows, DropRow(a, x) \/ PutRow(a, x)
  PROVE  OwnRows' /\ AloneIsAlone' /\ SettledIsOne' /\ PinsGoOn'
<1>1. /\ Busy(a) /\ op'[a].pc = op[a].pc /\ op'[a].slot = op[a].slot
      /\ op'[a].pin = op[a].pin /\ op'[a].alone = op[a].alone
      /\ op'[a].drops \subseteq op[a].drops /\ op'[a].puts \subseteq op[a].puts
      /\ \A b \in Admins \ {a} : op'[b] = op[b]
      /\ settled' = settled /\ op[a].pc = "run"
  BY DropMoves, PutMoves DEF PinInv, Busy
<1>2. \A b \in Admins : /\ op'[b].slot = op[b].slot /\ op'[b].alone = op[b].alone
                        /\ op'[b].pc = op[b].pc /\ op'[b].pin = op[b].pin
  BY <1>1
<1>3. OwnRows'
  BY <1>1 DEF PinInv, OwnRows
<1>4. AloneIsAlone'
  BY <1>2 DEF PinInv, AloneIsAlone, Busy
<1>5. SettledIsOne'
  <2> SUFFICES ASSUME NEW slot \in settled
               PROVE  /\ \A b \in Admins : Busy(b)' => op'[b].slot # slot
                      /\ \E p \in Entries : PinsOf(slot)' = {p}
    BY <1>1 DEF SettledIsOne
  <2>1. op[a].slot # slot
    BY <1>1 DEF PinInv, SettledIsOne
  <2>2. PinsOf(slot)' = PinsOf(slot)
    BY <2>1, PinsElsewhere
  <2>3. QED
    BY <1>2, <2>2 DEF PinInv, SettledIsOne, Busy
<1>6. ASSUME NEW b \in Admins \ {a}, Busy(b), op[b].pin, op[b].alone
      PROVE  Pinning(b)'
  <2>1. op[a].slot # op[b].slot
    BY <1>1, <1>6 DEF PinInv, AloneIsAlone
  <2>2. op'[b] = op[b] /\ PinsOf(op[b].slot)' = PinsOf(op[b].slot)
    <3>1. op'[b] = op[b]
      BY <1>1
    <3>2. PICK slot : slot = op[b].slot
      OBVIOUS
    <3>3. PinsOf(slot)' = PinsOf(slot)
      BY <2>1, <3>2, PinsElsewhere
    <3>4. QED
      BY <3>1, <3>2, <3>3 DEF PinsOf
  <2>3. Pinning(b)
    BY <1>6 DEF PinInv, PinsGoOn
  <2>4. QED
    BY <2>2, <2>3 DEF Pinning, ToPut, HasPut, PinsOf
<1>7. ASSUME op[a].pin, op[a].alone
      PROVE  Pinning(a)'
  <2>0. PICK slot : slot = op[a].slot
    OBVIOUS
  <2>1. Pinning(a) /\ op[a].pc = "run" /\ op'[a].pc = "run" /\ op'[a].slot = slot
    BY <1>1, <1>7, <2>0 DEF PinInv, PinsGoOn
  <2>t. tables["pin"] \subseteq Entries /\ x.kind \in Kinds /\ x.entry \in Entries
        /\ op[a].drops \subseteq Rows /\ op[a].puts \subseteq Rows
    BY DEF PinInv, TypeOK, Views, Kinds, Rows, Ops
  <2>2. CASE DropRow(a, x)
    <3>1. ToPut(a) /\ \A e \in PinsOf(slot) : PinRow(e) \in op[a].drops
      BY <2>0, <2>1, <2>2, DropMoves DEF PinInv, Pinning, HasPut
    <3>2. ToPut(a)'
      BY <2>2, <3>1, DropMoves DEF PinInv, ToPut, PinRows
    <3>3. \A e \in PinsOf(slot)' : e \in PinsOf(slot) /\ PinRow(e) # x
      BY <2>2, <2>t, DropMoves DEF PinInv, PinsOf, Kinds, PinRow
    <3>4. \A e \in PinsOf(slot)' : PinRow(e) \in op'[a].drops
      BY <2>2, <3>1, <3>3, DropMoves DEF PinInv
    <3>5. QED
      BY <2>1, <3>2, <3>4 DEF Pinning, PinsOf
  <2>3. CASE PutRow(a, x) /\ x.kind = "pin"
    <3>1. x \in PinRows(op[a].puts) /\ op[a].drops = {} /\ op'[a].drops = {}
          /\ op'[a].puts = op[a].puts \ {x}
      BY <2>3, PutMoves DEF PinInv, PinRows
    <3>2. PinRows(op[a].puts) = {x} /\ PinsOf(slot) = {}
      BY <2>0, <2>1, <3>1 DEF Pinning, HasPut, ToPut
    <3>3. PinRows(op'[a].puts) = {}
      BY <3>1, <3>2 DEF PinRows
    <3>4. x.entry.slot = slot
      BY <2>0, <3>1 DEF PinInv, OwnRows, PinRows
    <3>5. PinsOf(slot)' = {x.entry}
      BY <2>3, <3>2, <3>4, PutMoves DEF PinInv, PinsOf
    <3>6. QED
      BY <2>1, <2>t, <3>1, <3>3, <3>5 DEF Pinning, HasPut, PinsOf
  <2>4. CASE PutRow(a, x) /\ x.kind # "pin"
    <3>1. PinRows(op[a].puts) = {} /\ op[a].drops = {} /\ op'[a].drops = {}
          /\ op'[a].puts = op[a].puts \ {x} /\ tables'["pin"] = tables["pin"]
      BY <2>4, PutMoves DEF PinInv, PinRows, Kinds
    <3>2. HasPut(a)
      BY <2>1, <3>1 DEF Pinning, ToPut
    <3>3. PinRows(op'[a].puts) = {}
      BY <3>1 DEF PinRows
    <3>4. QED
      BY <2>0, <2>1, <3>1, <3>2, <3>3 DEF Pinning, HasPut, PinsOf
  <2>5. QED
    BY <2>2, <2>3, <2>4
<1>8. PinsGoOn'
  BY <1>1, <1>2, <1>6, <1>7 DEF PinsGoOn, Busy
<1>9. QED
  BY <1>3, <1>4, <1>5, <1>8

LEMMA BeginStep ==
  ASSUME PinInv, NEW a \in Admins,
         \/ \E kind \in Kinds, slot \in Slots : Create(a, kind, slot)
         \/ \E kind \in Kinds : \E e \in tables[kind] : Delete(a, kind, e)
         \/ \E slot \in Slots, n \in 1..2, id \in 1..MaxIds : Import(a, slot, n, id)
  PROVE  OwnRows' /\ AloneIsAlone' /\ SettledIsOne' /\ PinsGoOn'
<1>0. TypeOK
  BY DEF PinInv
<1>1. PICK start \in Ops :
        /\ Begin(a, start) /\ start.slot \in Slots /\ start.pc \in {"list", "run"}
        /\ start.pin <=> Adds(start)
        /\ start.pin => start.pc = "list" /\ start.drops = {}
        /\ \A x \in start.drops \cup start.puts : x.entry.slot = start.slot
  BY <1>0, BeginsAre
<1>2. /\ op'[a].pc = start.pc /\ op'[a].slot = start.slot /\ op'[a].drops = start.drops
      /\ op'[a].puts = start.puts /\ op'[a].pin = start.pin
      /\ op'[a].alone => \A c \in Admins : op[c].slot # start.slot
      /\ ~ Busy(a) /\ settled' = settled \ {start.slot} /\ tables' = tables
  BY <1>0, <1>1, BeginMoves
<1>3. ASSUME NEW b \in Admins \ {a}
      PROVE  /\ op'[b].pc = op[b].pc /\ op'[b].slot = op[b].slot
             /\ op'[b].drops = op[b].drops /\ op'[b].puts = op[b].puts
             /\ op'[b].pin = op[b].pin
             /\ op'[b].alone => op[b].alone /\ op[b].slot # start.slot
  BY <1>0, <1>1, BeginMoves
<1>4. OwnRows'
  BY <1>1, <1>2, <1>3 DEF PinInv, OwnRows
<1>5. AloneIsAlone'
  <2> SUFFICES ASSUME NEW b \in Admins, NEW c \in Admins, Busy(b)', Busy(c)', b # c,
                      op'[b].alone
               PROVE  op'[c].slot # op'[b].slot
    BY DEF AloneIsAlone
  <2>1. CASE b = a
    BY <1>2, <1>3, <2>1
  <2>2. CASE b # a /\ c = a
    BY <1>2, <1>3, <2>2
  <2>3. CASE b # a /\ c # a
    BY <1>3, <2>3 DEF PinInv, AloneIsAlone, Busy
  <2>4. QED
    BY <2>1, <2>2, <2>3
<1>6. SettledIsOne'
  <2> SUFFICES ASSUME NEW slot \in settled \ {start.slot}
               PROVE  /\ \A b \in Admins : Busy(b)' => op'[b].slot # slot
                      /\ \E p \in Entries : PinsOf(slot)' = {p}
    BY <1>2 DEF SettledIsOne
  <2>1. PinsOf(slot)' = PinsOf(slot)
    BY <1>2 DEF PinsOf
  <2>2. \A b \in Admins : Busy(b)' => op'[b].slot # slot
    BY <1>2, <1>3 DEF PinInv, SettledIsOne, Busy
  <2>3. QED
    BY <2>1, <2>2 DEF PinInv, SettledIsOne
<1>7. ASSUME start.pin
      PROVE  Pinning(a)'
  <2>1. op'[a].pc = "list" /\ op'[a].drops = {}
    BY <1>1, <1>2, <1>7
  <2>2. \E x \in start.puts : PinRows(start.puts) = {x}
    BY <1>1, <1>7 DEF Adds
  <2>3. QED
    BY <1>2, <2>1, <2>2 DEF Pinning, ToPut
<1>8. ASSUME NEW b \in Admins \ {a}, Busy(b)', op'[b].pin, op'[b].alone
      PROVE  Pinning(b)'
  <2>1. Pinning(b)
    BY <1>3, <1>8 DEF PinInv, PinsGoOn, Busy
  <2>2. QED
    BY <1>2, <1>3, <2>1 DEF Pinning, ToPut, HasPut, PinsOf
<1>9. PinsGoOn'
  BY <1>2, <1>7, <1>8 DEF PinsGoOn
<1>10. QED
  BY <1>4, <1>5, <1>6, <1>9

LEMMA ListStep ==
  ASSUME PinInv, NEW a \in Admins, ListPins(a)
  PROVE  OwnRows' /\ AloneIsAlone' /\ SettledIsOne' /\ PinsGoOn'
<1>1. /\ op[a].pc = "list" /\ op'[a].pc = "run" /\ op'[a].slot = op[a].slot
      /\ op'[a].puts = op[a].puts /\ op'[a].drops = Evicted(op[a].slot)
      /\ op'[a].pin = op[a].pin /\ op'[a].alone = op[a].alone
      /\ \A b \in Admins \ {a} : op'[b] = op[b]
      /\ tables' = tables /\ settled' = settled
  BY ListMoves DEF PinInv
<1>2. \A b \in Admins : op'[b].slot = op[b].slot /\ (Busy(b)' => Busy(b))
  BY <1>1 DEF Busy
<1>3. OwnRows'
  <2>1. \A x \in Evicted(op[a].slot) : x.entry.slot = op[a].slot
    BY DEF Evicted
  <2>2. QED
    BY <1>1, <2>1 DEF PinInv, OwnRows
<1>4. AloneIsAlone'
  <2> SUFFICES ASSUME NEW b \in Admins, NEW c \in Admins, Busy(b)', Busy(c)', b # c,
                      op'[b].alone
               PROVE  op'[c].slot # op'[b].slot
    BY DEF AloneIsAlone
  <2>1. Busy(b) /\ Busy(c) /\ op[b].alone
    BY <1>1 DEF Busy
  <2>2. op[c].slot # op[b].slot
    BY <2>1 DEF PinInv, AloneIsAlone
  <2>3. op'[b].slot = op[b].slot /\ op'[c].slot = op[c].slot
    BY <1>1
  <2>4. QED
    BY <2>2, <2>3
<1>5. SettledIsOne'
  BY <1>1, <1>2 DEF PinInv, SettledIsOne, PinsOf
<1>6. ASSUME op[a].pin, op[a].alone
      PROVE  Pinning(a)'
  <2>1. ToPut(a)
    BY <1>1, <1>6 DEF PinInv, PinsGoOn, Pinning, Busy
  <2>2. \A e \in PinsOf(op[a].slot) : PinRow(e) \in Evicted(op[a].slot)
    BY DEF PinsOf, PinRow, Evicted
  <2>3. QED
    BY <1>1, <2>1, <2>2 DEF Pinning, ToPut, PinsOf
<1>7. ASSUME NEW b \in Admins \ {a}, Busy(b), op[b].pin, op[b].alone
      PROVE  Pinning(b)'
  <2>1. Pinning(b)
    BY <1>7 DEF PinInv, PinsGoOn
  <2>2. QED
    BY <1>1, <2>1 DEF Pinning, ToPut, HasPut, PinsOf
<1>8. PinsGoOn'
  BY <1>1, <1>2, <1>6, <1>7 DEF PinsGoOn, Busy
<1>9. QED
  BY <1>3, <1>4, <1>5, <1>8

LEMMA EndStep ==
  ASSUME PinInv, NEW a \in Admins, Finish(a) \/ Fail(a)
  PROVE  OwnRows' /\ AloneIsAlone' /\ SettledIsOne' /\ PinsGoOn'
<1>1. /\ Busy(a) /\ op'[a].pc = "idle" /\ op'[a].drops = {} /\ op'[a].puts = {}
      /\ \A b \in Admins \ {a} : op'[b] = op[b]
      /\ tables' = tables
  BY EndMoves DEF PinInv
<1>2. OwnRows'
  BY <1>1 DEF PinInv, OwnRows
<1>3. AloneIsAlone'
  BY <1>1 DEF PinInv, AloneIsAlone, Busy
<1>4. ASSUME NEW b \in Admins \ {a}, Busy(b), op[b].pin, op[b].alone
      PROVE  Pinning(b)'
  <2>1. Pinning(b)
    BY <1>4 DEF PinInv, PinsGoOn
  <2>2. QED
    BY <1>1, <2>1 DEF Pinning, ToPut, HasPut, PinsOf
<1>5. PinsGoOn'
  BY <1>1, <1>4 DEF PinsGoOn, Busy
<1>6. ASSUME NEW slot \in settled'
      PROVE  /\ \A b \in Admins : Busy(b)' => op'[b].slot # slot
             /\ \E p \in Entries : PinsOf(slot) = {p}
  <2>1. CASE slot \in settled
    BY <1>1, <2>1 DEF PinInv, SettledIsOne, Busy
  <2>2. CASE slot \notin settled
    <3>1. slot = op[a].slot /\ op[a].pin /\ op[a].alone /\ Finish(a)
      BY <1>6, <2>2 DEF Finish, Fail
    <3>2. op[a].pc = "run" /\ op[a].puts = {} /\ Pinning(a)
      BY <1>1, <3>1 DEF Finish, PinInv, PinsGoOn
    <3>3. HasPut(a)
      BY <3>2 DEF Pinning, ToPut
    <3>4. \A b \in Admins \ {a} : Busy(b) => op[b].slot # slot
      BY <1>1, <3>1 DEF PinInv, AloneIsAlone
    <3>5. QED
      BY <1>1, <3>1, <3>3, <3>4 DEF HasPut, Busy
  <2>3. QED
    BY <2>1, <2>2
<1>7. SettledIsOne'
  BY <1>1, <1>6 DEF SettledIsOne, PinsOf
<1>8. QED
  BY <1>2, <1>3, <1>5, <1>7

LEMMA PinStep ==
  ASSUME PinInv, [Next]_vars
  PROVE  PinInv'
<1>1. TypeOK' /\ IdsAreOwn' /\ IdsAreUsed'
  BY TypeStep, IdsStep DEF PinInv
<1>2. OwnRows' /\ AloneIsAlone' /\ SettledIsOne' /\ PinsGoOn'
  <2>1. CASE tables' = tables /\ op' = op /\ settled' = settled
    BY <2>1 DEF PinInv, OwnRows, AloneIsAlone, SettledIsOne, PinsGoOn, Pinning, ToPut,
                HasPut, PinsOf, Busy
  <2>2. QED
    BY <2>1, RowStep, BeginStep, ListStep, EndStep
    DEF Next, vars, Tick, ReadTable, SkipTable, Respond, Misses
<1>3. QED
  BY <1>1, <1>2 DEF PinInv

\* Whatever duplicates were there, and whatever other mutations did: from the end of
\* a create_pin() that nobody overlapped on its query and product until the next
\* mutation there begins, there is exactly one such pin.
THEOREM PinsAreSettled == Spec => []PinSettled
<1>1. Init => PinInv
  <2> SUFFICES ASSUME Init PROVE PinInv
    OBVIOUS
  <2>1. /\ \A a \in Admins : op[a].pc = "idle" /\ op[a].drops = {} /\ op[a].puts = {}
        /\ tables["pin"] = {} /\ settled = {}
    BY DEF Init, IdleOp, NoView, Kinds
  <2>2. \A e \in Entries : ~ Known(e)
    BY <2>1 DEF Known, Holds
  <2>3. QED
    BY <2>1, <2>2, InitTypes
    DEF PinInv, IdsAreOwn, IdsAreUsed, OwnRows, AloneIsAlone, SettledIsOne, PinsGoOn, Busy
<1>2. PinInv /\ [Next]_vars => PinInv'
  BY PinStep
<1>3. PinInv => PinSettled
  BY FS_Singleton DEF PinInv, SettledIsOne, PinSettled, PinsOf
<1>4. QED
  BY <1>1, <1>2, <1>3, PTL DEF Spec

-----------------------------------------------------------------------------
(* Cached responses                                                        *)

\* The tables a search has read.
ReadBy(pc) == CASE pc = "pin"       -> {"suppression"}
                [] pc = "sponsored" -> {"suppression", "pin"}
                [] pc = "put"       -> Kinds
                [] OTHER            -> {}

\* What a search has read still stands, as long as nothing tore it.
ViewsAreCurrent ==
  \A s \in Searchers : ~ search[s].torn =>
    \A k \in ReadBy(search[s].pc) : search[s].view[k] = OfQuery(search[s].key[1], tables[k])

\* Only a mutation under way has written anything.
TouchedIsBusy == \A a \in Admins : op[a].touched => Busy(a)

CurrentInv == TypeOK /\ ViewsAreCurrent /\ TouchedIsBusy /\ CachedViewCurrent

LEMMA TouchedStep ==
  ASSUME TypeOK, TouchedIsBusy, [Next]_vars
  PROVE  TouchedIsBusy'
<1>1. ASSUME NEW a \in Admins,
             \/ \E kind \in Kinds, slot \in Slots : Create(a, kind, slot)
             \/ \E kind \in Kinds : \E e \in tables[kind] : Delete(a, kind, e)
             \/ \E slot \in Slots, n \in 1..2, id \in 1..MaxIds : Import(a, slot, n, id)
      PROVE  TouchedIsBusy'
  <2>1. PICK start \in Ops : Begin(a, start) /\ ~ start.touched
    BY <1>1, BeginsAre
  <2>2. ~ op'[a].touched
    BY <2>1, BeginMoves
  <2>3. \A b \in Admins \ {a} : op'[b].pc = op[b].pc /\ op'[b].touched = op[b].touched
    BY <2>1, BeginMoves
  <2>4. QED
    BY <2>2, <2>3 DEF TouchedIsBusy, Busy
<1>2. ASSUME NEW a \in Admins, ListPins(a)
      PROVE  TouchedIsBusy'
  BY <1>2, ListMoves DEF TouchedIsBusy, Busy
<1>3. ASSUME NEW a \in Admins, NEW x \in Rows, DropRow(a, x) \/ PutRow(a, x)
      PROVE  TouchedIsBusy'
  BY <1>3, DropMoves, PutMoves DEF TouchedIsBusy, Busy
<1>4. ASSUME NEW a \in Admins, Finish(a) \/ Fail(a)
      PROVE  TouchedIsBusy'
  BY <1>4, EndMoves DEF TouchedIsBusy, Busy
<1>5. CASE op' = op
  BY <1>5 DEF TouchedIsBusy, Busy
<1>6. QED
  BY <1>1, <1>2, <1>3, <1>4, <1>5
  DEF Next, vars, Tick, ReadTable, SkipTable, Respond, Misses

LEMMA ViewsStep ==
  ASSUME TypeOK, ViewsAreCurrent, [Next]_vars
  PROVE  ViewsAreCurrent'
<1>0. search \in [Searchers -> Searches] /\ tables \in Views
  BY DEF TypeOK
<1>i. IdleSearch \in Searches /\ IdleSearch.pc = "idle" /\ ReadBy("idle") = {}
      /\ ReadBy("suppression") = {}
  BY DEF IdleSearch, Searches, NoView, Views, ReadBy
<1>1. ASSUME NEW s \in Searchers, tables' = tables,
             \A r \in Searchers \ {s} : search'[r] = search[r],
             ~ search'[s].torn => \A k \in ReadBy(search'[s].pc) :
               search'[s].view[k] = OfQuery(search'[s].key[1], tables[k])
      PROVE  ViewsAreCurrent'
  BY <1>1 DEF ViewsAreCurrent
<1>2. ASSUME NEW s \in Searchers, ReadTable(s)
      PROVE  ViewsAreCurrent'
  <2> DEFINE v == OfQuery(search[s].key[1], tables[search[s].pc])
             r == [search[s] EXCEPT !.pc = After(search[s].pc), !.view[search[s].pc] = v]
  <2>1. search[s].pc \in Kinds /\ search' = [search EXCEPT ![s] = r] /\ tables' = tables
    BY <1>0, <1>2 DEF ReadTable
  <2>2. /\ r.key = search[s].key /\ r.torn = search[s].torn /\ r.pc = After(search[s].pc)
        /\ r.view = [search[s].view EXCEPT ![search[s].pc] = v]
    BY <1>0 DEF Searches
  <2>3. search[s].view \in [Kinds -> SUBSET Entries]
    BY <1>0 DEF Searches, Views
  <2>4. ReadBy(After(search[s].pc)) = ReadBy(search[s].pc) \cup {search[s].pc}
    BY <2>1 DEF ReadBy, After, Kinds
  <2>5. ReadBy(search[s].pc) \subseteq Kinds
    BY <2>1 DEF ReadBy, Kinds
  <2> HIDE DEF r
  <2>6. search'[s] = r /\ \A u \in Searchers \ {s} : search'[u] = search[u]
    BY <1>0, <2>1
  <2>7. ASSUME ~ r.torn, NEW k \in ReadBy(r.pc)
        PROVE  r.view[k] = OfQuery(r.key[1], tables[k])
    <3>1. CASE k = search[s].pc
      BY <2>1, <2>2, <2>3, <3>1
    <3>2. CASE k # search[s].pc
      <4>1. k \in ReadBy(search[s].pc) /\ k \in Kinds /\ ~ search[s].torn
        BY <2>2, <2>4, <2>5, <2>7, <3>2
      <4>2. search[s].view[k] = OfQuery(search[s].key[1], tables[k])
        BY <4>1 DEF ViewsAreCurrent
      <4>3. QED
        BY <2>2, <2>3, <3>2, <4>1, <4>2
    <3>3. QED
      BY <3>1, <3>2
  <2>8. QED
    BY <1>1, <2>1, <2>6, <2>7
<1>3. ASSUME NEW s \in Searchers, SkipTable(s)
      PROVE  ViewsAreCurrent'
  <2> DEFINE r == [search[s] EXCEPT !.pc = After(search[s].pc), !.torn = TRUE]
  <2>1. search' = [search EXCEPT ![s] = r] /\ tables' = tables
    BY <1>0, <1>3 DEF SkipTable
  <2>2. r.torn
    BY <1>0 DEF Searches
  <2> HIDE DEF r
  <2>3. search'[s] = r /\ \A u \in Searchers \ {s} : search'[u] = search[u]
    BY <1>0, <2>1
  <2>4. QED
    BY <1>1, <2>1, <2>2, <2>3
<1>4. ASSUME NEW s \in Searchers, Respond(s)
      PROVE  ViewsAreCurrent'
  <2>1. /\ search'[s] = IdleSearch /\ \A u \in Searchers \ {s} : search'[u] = search[u]
        /\ tables' = tables
    BY <1>0, <1>4 DEF Respond
  <2>2. QED
    BY <1>1, <1>i, <2>1
<1>5. ASSUME NEW s \in Searchers, NEW key \in Keys, Misses(s, key)
      PROVE  ViewsAreCurrent'
  <2> DEFINE r == [IdleSearch EXCEPT !.pc = "suppression", !.key = key]
  <2>1. r.pc = "suppression"
    BY DEF IdleSearch
  <2>2. search' = [search EXCEPT ![s] = r] /\ tables' = tables
    BY <1>5 DEF Misses
  <2> HIDE DEF r
  <2>3. search'[s] = r /\ \A u \in Searchers \ {s} : search'[u] = search[u]
    BY <1>0, <2>2
  <2>4. QED
    BY <1>1, <1>i, <2>1, <2>2, <2>3
<1>6. CASE Tear
  <2>1. \A s \in Searchers : search[s].pc # "idle" => search'[s].torn
    BY <1>0, <1>6 DEF Tear, Searches
  <2>2. \A s \in Searchers : search[s].pc = "idle" => search'[s] = search[s]
    BY <1>0, <1>6 DEF Tear
  <2>3. QED
    BY <1>i, <2>1, <2>2 DEF ViewsAreCurrent
<1>7. CASE search' = search /\ tables' = tables
  BY <1>7 DEF ViewsAreCurrent
<1>8. ASSUME NEW a \in Admins,
             \/ \E kind \in Kinds, slot \in Slots : Create(a, kind, slot)
             \/ \E kind \in Kinds : \E e \in tables[kind] : Delete(a, kind, e)
             \/ \E slot \in Slots, n \in 1..2, id \in 1..MaxIds : Import(a, slot, n, id)
      PROVE  search' = search /\ tables' = tables
  BY <1>8 DEF Create, Delete, Import, Begin
<1>9. QED
  BY <1>2, <1>3, <1>4, <1>5, <1>6, <1>7, <1>8
  DEF Next, vars, Tick, ListPins, DropRow, PutRow, Finish, Fail

\* A mutation that has written keeps its mark until it ends.
Touched == uncleared \/ \E a \in Admins : op[a].touched

LEMMA CurrentStep ==
  ASSUME CurrentInv, [Next]_vars
  PROVE  CachedViewCurrent'
<1>0. /\ TypeOK /\ ViewsAreCurrent /\ TouchedIsBusy /\ CachedViewCurrent
      /\ cache \in [Keys -> Responses \cup {None}] /\ search \in [Searchers -> Searches]
      /\ \A s \in Searchers : search[s].pc # "idle" => search[s].key \in Keys
      /\ tables \in [Kinds -> SUBSET Entries]
  BY DEF CurrentInv, TypeOK, Views
<1>1. ASSUME cache' = cache, tables' = tables, Touched => Touched'
      PROVE  CachedViewCurrent'
  BY <1>0, <1>1 DEF CachedViewCurrent, Cached, Current, Touched
<1>2. ASSUME Touched' PROVE CachedViewCurrent'
  BY <1>2 DEF CachedViewCurrent, Touched
<1>3. CASE Tick
  <2>1. /\ Cached' \subseteq Cached
        /\ \A k \in Cached' : cache'[k].torn = cache[k].torn /\ cache'[k].view = cache[k].view
    <3>1. ASSUME NEW k \in Cached'
          PROVE  k \in Cached /\ cache'[k].torn = cache[k].torn /\ cache'[k].view = cache[k].view
      <4>1. k \in Keys /\ cache'[k] # None
        BY DEF Cached
      <4>2. CASE Hit(k)
        <5>1. cache[k] \in Responses /\ cache'[k] = [cache[k] EXCEPT !.left = @ - 1]
          BY <1>0, <1>3, <4>1, <4>2 DEF Tick, Hit
        <5>2. QED
          BY <4>1, <4>2, <5>1 DEF Responses, Cached, Hit
      <4>3. CASE ~ Hit(k)
        BY <1>3, <4>1, <4>3 DEF Tick, Cached
      <4>4. QED
        BY <4>2, <4>3
    <3>2. QED
      BY <3>1
  <2>2. tables' = tables /\ uncleared' = uncleared /\ op' = op
    BY <1>3 DEF Tick
  <2>3. QED
    BY <1>0, <2>1, <2>2 DEF CachedViewCurrent, Current
<1>4. ASSUME NEW s \in Searchers, Respond(s)
      PROVE  CachedViewCurrent'
  <2>1. /\ search[s].pc = "put" /\ search[s].key \in Keys /\ search[s] \in Searches
        /\ tables' = tables /\ uncleared' = uncleared /\ op' = op
    BY <1>0, <1>4 DEF Respond
  <2> DEFINE r == [view |-> search[s].view, left |-> TTL, torn |-> search[s].torn]
             key == search[s].key
  <2>2. r \in Responses
    BY <2>1 DEF Searches, Responses
  <2>3. PutInCache(key, r)
    BY <1>4 DEF Respond
  <2>4. r.torn \/ r.view = Current(key[1])
    <3>1. ASSUME ~ search[s].torn, NEW k \in Kinds
          PROVE  search[s].view[k] = Current(key[1])[k]
      BY <1>0, <2>1, <3>1 DEF ViewsAreCurrent, ReadBy, Current
    <3>2. search[s].view \in [Kinds -> SUBSET Entries]
      BY <2>1 DEF Searches, Views
    <3>3. CASE ~ search[s].torn
      <4>1. search[s].view = Current(key[1])
        BY <3>1, <3>2, <3>3 DEF Current
      <4>2. QED
        BY <4>1
    <3>4. QED
      BY <3>3
  <2> HIDE DEF r
  <2>5. /\ cache'[key] = r
        /\ \A k \in Keys : k = key \/ cache'[k] = cache[k] \/ cache'[k] = None
    BY <1>0, <2>1, <2>2, <2>3, PutTypes
  <2>6. ASSUME NEW k \in Cached'
        PROVE  \/ cache'[k].torn
               \/ uncleared \/ \E a \in Admins : op[a].touched
               \/ cache'[k].view = Current(k[1])
    <3>1. k \in Keys /\ cache'[k] # None
      BY DEF Cached
    <3>2. CASE k = key
      BY <2>4, <2>5, <3>2
    <3>3. CASE k # key
      <4>1. cache'[k] = cache[k] /\ k \in Cached
        BY <2>5, <3>1, <3>3 DEF Cached
      <4>2. QED
        BY <1>0, <4>1 DEF CachedViewCurrent
    <3>4. QED
      BY <3>2, <3>3
  <2>7. QED
    BY <2>1, <2>6 DEF CachedViewCurrent, Current
<1>5. ASSUME NEW s \in Searchers,
             ReadTable(s) \/ SkipTable(s) \/ \E key \in Keys : Misses(s, key)
      PROVE  CachedViewCurrent'
  BY <1>1, <1>5 DEF ReadTable, SkipTable, Misses, Touched
<1>6. ASSUME NEW a \in Admins,
             \/ \E kind \in Kinds, slot \in Slots : Create(a, kind, slot)
             \/ \E kind \in Kinds : \E e \in tables[kind] : Delete(a, kind, e)
             \/ \E slot \in Slots, n \in 1..2, id \in 1..MaxIds : Import(a, slot, n, id)
      PROVE  CachedViewCurrent'
  <2>1. PICK start \in Ops : Begin(a, start) /\ ~ start.touched
    BY <1>0, <1>6, BeginsAre
  <2>2. /\ ~ op[a].touched /\ UNCHANGED <<tables, cache, uncleared>>
        /\ \A b \in Admins \ {a} : op'[b].touched = op[b].touched
    BY <1>0, <2>1, BeginMoves DEF TouchedIsBusy
  <2>3. Touched => Touched'
    BY <2>2 DEF Touched
  <2>4. QED
    BY <1>1, <2>2, <2>3
<1>7. ASSUME NEW a \in Admins, ListPins(a)
      PROVE  CachedViewCurrent'
  <2>1. Touched => Touched'
    BY <1>0, <1>7, ListMoves DEF Touched
  <2>2. QED
    BY <1>0, <1>1, <1>7, <2>1, ListMoves
<1>8. ASSUME NEW a \in Admins, NEW x \in Rows, DropRow(a, x) \/ PutRow(a, x)
      PROVE  CachedViewCurrent'
  <2>1. Touched'
    BY <1>0, <1>8, DropMoves, PutMoves DEF Touched
  <2>2. QED
    BY <1>2, <2>1
<1>9. ASSUME NEW a \in Admins, Finish(a)
      PROVE  CachedViewCurrent'
  BY <1>9 DEF Finish, ClearAfter, ClearCache, CachedViewCurrent, Cached
<1>10. ASSUME NEW a \in Admins, Fail(a)
       PROVE  CachedViewCurrent'
  <2>1. /\ uncleared' = (uncleared \/ op[a].touched)
        /\ UNCHANGED <<tables, cache>>
    BY <1>10 DEF Fail
  <2>2. \A b \in Admins \ {a} : op'[b].touched = op[b].touched
    BY <1>0, <1>10, EndMoves
  <2>3. Touched => Touched'
    BY <2>1, <2>2 DEF Touched
  <2>4. QED
    BY <1>1, <2>1, <2>3
<1>11. CASE UNCHANGED vars
  BY <1>1, <1>11 DEF vars, Touched
<1>12. QED
  BY <1>3, <1>4, <1>5, <1>6, <1>7, <1>8, <1>9, <1>10, <1>11 DEF Next

\* A cached response was made with the overrides of now, unless a write fell between
\* its reads and its put, a read of it failed, or a mutation that wrote has yet to clear
\* the cache or failed before it could.
THEOREM CachedViewsAreCurrent == Spec => []CachedViewCurrent
<1>1. Init => CurrentInv
  <2> SUFFICES ASSUME Init PROVE CurrentInv
    OBVIOUS
  <2>1. /\ \A s \in Searchers : ReadBy(search[s].pc) = {}
        /\ \A a \in Admins : ~ op[a].touched
    BY DEF Init, IdleSearch, IdleOp, ReadBy
  <2>2. Cached = {}
    BY DEF Init, Cached
  <2>3. QED
    BY <2>1, <2>2, InitTypes DEF CurrentInv, ViewsAreCurrent, TouchedIsBusy, CachedViewCurrent
<1>2. CurrentInv /\ [Next]_vars => CurrentInv'
  BY TypeStep, ViewsStep, TouchedStep, CurrentStep DEF CurrentInv
<1>3. CurrentInv => CachedViewCurrent
  BY DEF CurrentInv
<1>4. QED
  BY <1>1, <1>2, <1>3, PTL DEF Spec
=============================================================================
