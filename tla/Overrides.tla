----------------------------- MODULE Overrides -----------------------------
(***************************************************************************)
(* Admin overrides and the query cache of one SearchEngine                 *)
(* (vectoria-core/src/search/mod.rs, query_cache.rs).  search() looks its  *)
(* key up in the cache; on a miss it ranks, reads the three override       *)
(* tables one await after the other, and puts the response in the cache.   *)
(* An override mutation writes the tables one await at a time and clears   *)
(* the cache last.  Nothing orders a search against a mutation.            *)
(*                                                                         *)
(* A response is abstracted to the overrides it was made with; a cache key *)
(* to the query and whatever else tells requests apart (its page).         *)
(***************************************************************************)
EXTENDS Integers, FiniteSets

CONSTANTS
  Queries, Products, Pages,
  Admins,      \* concurrent admin requests
  Searchers,   \* concurrent searches
  None,        \* an absent value
  MaxEntries,  \* max_entries of the cache
  TTL,         \* ttl of the cache, in ticks
  Faults,      \* may a storage call fail?
  MaxIds       \* bound on the overrides ever created

Kinds   == {"suppression", "pin", "sponsored"}
Slots   == Queries \X Products
Entries == [id : 1..MaxIds, slot : Slots]
Rows    == [kind : Kinds, entry : Entries]
Keys    == Queries \X Pages
Views   == [Kinds -> SUBSET Entries]

ASSUME OverridesAssumption ==
  /\ MaxEntries \in Nat /\ TTL \in Nat /\ MaxIds \in Nat
  /\ Faults \in BOOLEAN
  /\ IsFiniteSet(Keys)
  /\ None \notin [view : Views, left : 0..TTL, torn : BOOLEAN]

VARIABLES
  tables,  \* tables[k]: the overrides of kind k in storage
  nextId,  \* Uuid::new_v4(), as a counter
  cache,   \* cache[key]: a response and how long it lives, or None
  op,      \* op[a]: the override mutation admin a is in
  search   \* search[s]: the search s is in, from its cache miss on

\* History variables.
VARIABLES
  settled,   \* slots whose latest mutation put one pin, was alone and succeeded
  uncleared  \* a mutation failed after a write, and nothing cleared the cache since

vars == <<tables, nextId, cache, op, search, settled, uncleared>>

IdleOp     == [pc |-> "idle", slot |-> None, drops |-> {}, puts |-> {},
               pin |-> FALSE, alone |-> FALSE, touched |-> FALSE]
NoView     == [k \in Kinds |-> {}]
IdleSearch == [pc |-> "idle", key |-> None, view |-> NoView, torn |-> FALSE]

Init ==
  /\ tables = NoView
  /\ nextId = 1
  /\ cache  = [k \in Keys |-> None]
  /\ op     = [a \in Admins |-> IdleOp]
  /\ search = [s \in Searchers |-> IdleSearch]
  /\ settled = {}
  /\ uncleared = FALSE

-----------------------------------------------------------------------------
(* The cache: get, put, clear, and the passing of time.                    *)

Cached      == {k \in Keys : cache[k] # None}
Hit(k)      == cache[k] # None /\ cache[k].left > 0
HalfOf(n)   == n \div 2
LessThanHalf(n) == 0
RemoveCount(n) == HalfOf(n)

\* At capacity the expired entries go; if that frees nothing, half of them go,
\* in the order of the hash map.
Evictions ==
  LET alive == {k \in Keys : Hit(k)} IN
  IF Cardinality(Cached) < MaxEntries THEN {{}}
  ELSE IF Cardinality(alive) < MaxEntries THEN {Cached \ alive}
  ELSE {(Cached \ alive) \cup half :
          half \in {S \in SUBSET alive : Cardinality(S) = RemoveCount(Cardinality(alive))}}

PutInCache(key, response) ==
  \E gone \in Evictions :
    cache' = [k \in Keys |-> IF k = key THEN response
                             ELSE IF k \in gone THEN None ELSE cache[k]]

ClearCache == cache' = [k \in Keys |-> None]

Tick ==
  /\ \E k \in Keys : Hit(k)
  /\ cache' = [k \in Keys |->
                 IF Hit(k) THEN [cache[k] EXCEPT !.left = @ - 1] ELSE cache[k]]
  /\ UNCHANGED <<tables, nextId, op, search, settled, uncleared>>

-----------------------------------------------------------------------------
(* Searches.                                                               *)

\* apply_overrides() reads the tables in this order.
After(kind) == CASE kind = "suppression" -> "pin"
                 [] kind = "pin"         -> "sponsored"
                 [] kind = "sponsored"   -> "put"

Misses(s, key) ==
  /\ search[s].pc = "idle"
  /\ ~ Hit(key)
  /\ search' = [search EXCEPT ![s] = [IdleSearch EXCEPT !.pc = "suppression", !.key = key]]
  /\ UNCHANGED <<tables, nextId, cache, op, settled, uncleared>>

OfQuery(q, entries) == {e \in entries : e.slot[1] = q}

ReadTable(s) ==
  LET kind == search[s].pc IN
  /\ kind \in Kinds
  /\ search' = [search EXCEPT ![s].pc = After(kind),
                              ![s].view[kind] = OfQuery(search[s].key[1], tables[kind])]
  /\ UNCHANGED <<tables, nextId, cache, op, settled, uncleared>>

\* A table that cannot be read is skipped (if let Ok): the response is made,
\* and cached, without that kind of override.
SkipTable(s) ==
  /\ Faults
  /\ search[s].pc \in Kinds
  /\ search' = [search EXCEPT ![s].pc = After(search[s].pc), ![s].torn = TRUE]
  /\ UNCHANGED <<tables, nextId, cache, op, settled, uncleared>>

Respond(s) ==
  /\ search[s].pc = "put"
  /\ PutInCache(search[s].key, [view |-> search[s].view, left |-> TTL, torn |-> search[s].torn])
  /\ search' = [search EXCEPT ![s] = IdleSearch]
  /\ UNCHANGED <<tables, nextId, op, settled, uncleared>>

-----------------------------------------------------------------------------
(* Override mutations.                                                     *)

Busy(a) == op[a].pc # "idle"

Begin(a, start) ==
  /\ ~ Busy(a)
  /\ op' = [b \in Admins |->
              IF b = a THEN [start EXCEPT !.alone = \A c \in Admins : op[c].slot # start.slot]
              ELSE IF op[b].slot = start.slot THEN [op[b] EXCEPT !.alone = FALSE] ELSE op[b]]
  /\ settled' = settled \ {start.slot}
  /\ UNCHANGED <<tables, cache, search, uncleared>>

Row(kind, id, slot) == [kind |-> kind, entry |-> [id |-> id, slot |-> slot]]
Mutation(pc, slot, drops, puts) ==
  [IdleOp EXCEPT !.pc = pc, !.slot = slot, !.drops = drops, !.puts = puts,
                 !.pin = \E x \in puts : {y \in puts : y.kind = "pin"} = {x}]

\* create_pin() first lists the pins; the other creates only put.
Create(a, kind, slot) ==
  /\ nextId <= MaxIds
  /\ Begin(a, Mutation(IF kind = "pin" THEN "list" ELSE "run", slot, {}, {Row(kind, nextId, slot)}))
  /\ nextId' = nextId + 1

Delete(a, kind, e) ==
  /\ Begin(a, Mutation("run", e.slot, {[kind |-> kind, entry |-> e]}, {}))
  /\ UNCHANGED nextId

\* import_overrides() of n pins and a suppression.  A pin gets a new id, every other
\* override keeps the id it was exported with.  The pins that are there for the slot
\* are evicted, those of the list do not evict each other.
NewPins(slot, n) == {Row("pin", i, slot) : i \in nextId..(nextId + n - 1)}

Import(a, slot, n, id) ==
  /\ nextId + n <= MaxIds + 1
  /\ Begin(a, Mutation("list", slot, {}, NewPins(slot, n) \cup {Row("suppression", id, slot)}))
  /\ nextId' = nextId + n

\* The pins that are already there for the same query and product.
EvictNone(slot) == {}
Evicted(slot) == {[kind |-> "pin", entry |-> e] : e \in {p \in tables["pin"] : p.slot = slot}}

ListPins(a) ==
  /\ op[a].pc = "list"
  /\ op' = [op EXCEPT ![a].pc = "run", ![a].drops = Evicted(op[a].slot)]
  /\ UNCHANGED <<tables, nextId, cache, search, settled, uncleared>>

\* Every write of an override may tear a search that has begun to read.
Tear == search' = [s \in Searchers |->
                     IF search[s].pc = "idle" THEN search[s] ELSE [search[s] EXCEPT !.torn = TRUE]]

DropRow(a, x) ==
  /\ op[a].pc = "run" /\ x \in op[a].drops
  /\ tables' = [tables EXCEPT ![x.kind] = {e \in @ : e.id # x.entry.id}]
  /\ op' = [op EXCEPT ![a].drops = @ \ {x}, ![a].touched = TRUE]
  /\ Tear
  /\ UNCHANGED <<nextId, cache, settled, uncleared>>

\* Pins are put first, then sponsored slots, then suppressions.
PutRow(a, x) ==
  /\ op[a].pc = "run" /\ op[a].drops = {} /\ x \in op[a].puts
  /\ x.kind = "pin" \/ \A y \in op[a].puts : y.kind # "pin"
  /\ tables' = [tables EXCEPT ![x.kind] = {e \in @ : e.id # x.entry.id} \cup {x.entry}]
  /\ op' = [op EXCEPT ![a].puts = @ \ {x}, ![a].touched = TRUE]
  /\ Tear
  /\ UNCHANGED <<nextId, cache, settled, uncleared>>

\* The last statement of every mutation: clear_query_cache().
NoClear == UNCHANGED cache
ClearAfter == ClearCache

Finish(a) ==
  /\ op[a].pc = "run" /\ op[a].drops = {} /\ op[a].puts = {}
  /\ ClearAfter
  /\ settled' = IF op[a].pin /\ op[a].alone THEN settled \cup {op[a].slot} ELSE settled
  /\ op' = [op EXCEPT ![a] = IdleOp]
  /\ uncleared' = FALSE
  /\ UNCHANGED <<tables, nextId, search>>

\* A storage call fails and the ? returns, or the request is dropped.
Fail(a) ==
  /\ Faults /\ Busy(a)
  /\ uncleared' = (uncleared \/ op[a].touched)
  /\ op' = [op EXCEPT ![a] = IdleOp]
  /\ UNCHANGED <<tables, nextId, cache, search, settled>>

Next ==
  \/ Tick
  \/ \E s \in Searchers :
       ReadTable(s) \/ SkipTable(s) \/ Respond(s) \/ \E key \in Keys : Misses(s, key)
  \/ \E a \in Admins :
       \/ ListPins(a) \/ Finish(a) \/ Fail(a)
       \/ \E x \in Rows : DropRow(a, x) \/ PutRow(a, x)
       \/ \E kind \in Kinds, slot \in Slots : Create(a, kind, slot)
       \/ \E kind \in Kinds : \E e \in tables[kind] : Delete(a, kind, e)
       \/ \E slot \in Slots, n \in 1..2, id \in 1..MaxIds : Import(a, slot, n, id)

Spec == Init /\ [][Next]_vars

-----------------------------------------------------------------------------
(* Properties *)

Current(q) == [k \in Kinds |-> OfQuery(q, tables[k])]

\* max_entries bounds the cache, once it is at least 2: with a limit of 0 or 1
\* half of a single entry is none, and a second one is kept.
CacheBounded ==
  Cardinality(Cached) <= (IF MaxEntries < 2 THEN 2 ELSE MaxEntries)

\* "so the next search re-applies the current override set rather than serving a
\* stale slice" (query_cache.rs:39-40), as far as it goes: a cached response was
\* made with the overrides of now, unless a write came between its reads and its
\* put (torn), a read failed (torn), or a mutation has yet to clear the cache or
\* failed before it could (uncleared).
CachedViewCurrent ==
  \A k \in Cached :
    \/ cache[k].torn
    \/ uncleared \/ \E a \in Admins : op[a].touched
    \/ cache[k].view = Current(k[1])

\* create_pin() upserts by (query, product), and so does an import of one pin for
\* them: after a call that ran alone, with whatever duplicates before it, of calls
\* that overlapped, were left half done or imported two pins at once, there is one.
PinSettled ==
  \A slot \in settled : Cardinality({e \in tables["pin"] : e.slot = slot}) = 1
=============================================================================
