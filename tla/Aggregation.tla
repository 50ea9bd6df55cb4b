---------------------------- MODULE Aggregation ----------------------------
(***************************************************************************)
(* Events and what is derived from them (vectoria-core/src/aggregation/,   *)
(* storage/): signals per product, a profile (mean vector) per user,       *)
(* relations between products.  The aggregation loop, the cycles that      *)
(* POST /admin/aggregate forces and recommend() derive them while events   *)
(* and products come and go, each value read first and stored later,       *)
(* without a lock.                                                         *)
(*                                                                         *)
(* The parts of a cycle read the events and the products only, and write   *)
(* rows of their own (two kinds of relation, by their keys).  A behaviour  *)
(* follows one part, `watched'; the parts before it are time that passes   *)
(* before its first step, or an error that ends the cycle there.           *)
(***************************************************************************)
EXTENDS Integers, FiniteSets, SequencesExt

CONSTANTS
  Products,     \* product ids, numbered in the order of their keys
  Nested,       \* pairs <<q, p>>: the id q begins with the id p and a slash
  Bytes,        \* what user ids are made of; no handler looks at them
  Nul,          \* the byte 0, one of them
  Uuid,         \* an event's id, which the server generates, as one symbol
  Users,        \* user ids
  Clicks,       \* the events that may be recorded, pairs <<user, product>>
  Loop,         \* the task of run_aggregation_loop()
  Requests,     \* tasks of HTTP requests
  None,         \* an absent value
  Peers,        \* MAX_BRAND_PEERS
  MaxScore      \* the largest score, u64::MAX in the code

ASSUME AggregationAssumption ==
  /\ Products \subseteq Nat /\ IsFiniteSet(Products)
  /\ Nested \subseteq Products \X Products
  /\ Nul \in Bytes /\ Uuid # Nul
  /\ Users \subseteq Seq(Bytes)
  /\ Clicks \subseteq Users \X Products
  /\ Peers \in Nat \ {0} /\ MaxScore \in Nat \ {0}
  /\ Loop \notin Requests
  /\ None \notin Products /\ None \notin Users /\ None \notin Products \X Products
  /\ \A S \in SUBSET Products : S # None
  /\ \A S \in SUBSET Clicks : S # None

\* The key of an event in the index by user: {user}\0{event id}.
Key(u) == u \o <<Nul, Uuid>>

\* The user list_user_ids() reads off a key: what stands before its first NUL.
UserOf(key) ==
  SubSeq(key, 1, (CHOOSE i \in DOMAIN key :
                    key[i] = Nul /\ \A j \in 1..(i - 1) : key[j] # Nul) - 1)

ASSUME UsersAssumption == \A u \in Users : UserOf(Key(u)) \in Users

Tasks == {Loop} \cup Requests
Relations == {"brand", "co_purchased"}
Parts == {"signals", "profiles"} \cup Relations
Pairs == {x \in Products \X Products : x[1] # x[2]}

VARIABLES
  watched,   \* the part of the cycle this behaviour follows
  known,     \* products in the table (all of one brand, all with a vector)
  events,    \* the events recorded
  signals,   \* signals[p]: the events counted in the stored signals
  profile,   \* profile[u]: the products in the stored mean vector
  relation,  \* relation[x]: the score of pair x, of the kind watched
  task       \* task[t]: the call task t is in

tables == <<signals, profile, relation>>
vars == <<watched, known, events, tables, task>>

\* alone, before, stayed, base and missed are history: no other call since the
\* start; the events recorded before it, but for co-purchases only those of
\* products there ever since; these products, for the brands; the relations at
\* the start; what a failed call left out of which user's profile.
Idle == [pc |-> "idle", kind |-> None, left |-> {}, todo |-> {}, key |-> None,
         value |-> None, alone |-> FALSE, before |-> {}, stayed |-> {},
         base |-> None, missed |-> {}]

Init ==
  /\ watched \in Parts
  /\ known = {}
  /\ events = {}
  /\ signals = [p \in Products |-> None]
  /\ profile = [u \in Users |-> None]
  /\ relation = [x \in Pairs |-> 0]
  /\ task = [t \in Tasks |-> Idle]

-----------------------------------------------------------------------------
(* What is read from the events and the products.                          *)

At(t, pc) == task[t].pc = pc
Running   == {t \in Tasks : ~At(t, "idle")}

\* The scan of the event table for the prefix {product}/, which the events of
\* a product nested under this one have as well.
EventsOf(p) == {e \in events : e[2] = p \/ <<e[2], p>> \in Nested}

\* A mutant: a prefix without the separator, so that u1 also matches u10.
RecentByPrefix(u) ==
  {p \in Products : \E v \in Users : <<v, p>> \in events /\ IsPrefix(u, Key(v))}

\* The scan of the index by user for the prefix {user}\0, deduplicated.
Recent(u) ==
  {p \in Products : \E v \in Users : <<v, p>> \in events /\ IsPrefix(u \o <<Nul>>, Key(v))}

\* A mutant: users that have a profile already are left out.
Unprofiled == {u \in {UserOf(Key(e[1])) : e \in events} : profile[u] = None}

\* list_user_ids().
Active == {UserOf(Key(e[1])) : e \in events}

\* A mutant: skip(1) before take(Peers).
FirstButOne(ids) == {b \in ids : Cardinality({c \in ids : c < b}) \in 1..Peers}

\* The pairs written for a brand: from every product to the first Peers of them.
First(ids)      == {b \in ids : Cardinality({c \in ids : c < b}) < Peers}
BrandPairs(ids) == {x \in Pairs : x[1] \in ids /\ x[2] \in First(ids)}

\* A mutant: the second put_relation() is missing.
CoPairsOneWay(ids) == {x \in Pairs : {x[1], x[2]} \subseteq ids /\ x[1] < x[2]}

\* Both directions of every pair of a user's products.
CoPairs(ids) == {x \in Pairs : {x[1], x[2]} \subseteq ids}

\* A mutant: plain addition.
AddUnchecked(score, n) == score + n

\* u64::saturating_add.
Add(score, n) == IF score + n > MaxScore THEN MaxScore ELSE score + n

-----------------------------------------------------------------------------
(* Events and products come and go.                                        *)

\* put_event(): the record and its entry in the index by user are written
\* under one engine lock.  Nothing asks whether the product exists.
PutEvent(u, p) ==
  /\ <<u, p>> \in Clicks
  /\ events' = events \cup {<<u, p>>}
  /\ UNCHANGED <<watched, known, tables, task>>

PutProduct(p) ==
  /\ known' = known \cup {p}
  /\ UNCHANGED <<watched, events, tables, task>>

\* Co-purchases are counted from the events, whether the products are there.
Without(log, p) ==
  IF watched = "co_purchased" THEN log ELSE {e \in log : e[2] # p}

\* delete() leaves the signals, the profiles and the relations as they are.
DeleteProduct(p) ==
  /\ known' = known \ {p}
  /\ task' = [t \in Tasks |-> [task[t] EXCEPT !.stayed = @ \ {p}, !.before = Without(@, p)]]
  /\ UNCHANGED <<watched, events, tables>>

-----------------------------------------------------------------------------
(* Calls begin.                                                            *)

Enter(t, new) ==
  /\ At(t, "idle")
  /\ task' = [s \in Tasks |-> IF s = t THEN new ELSE [task[s] EXCEPT !.alone = FALSE,
                                !.before = {}, !.stayed = {}, !.base = None, !.missed = {}]]
  /\ UNCHANGED <<watched, known, events, tables>>

\* The interval ticks, or an administrator forces a cycle.
BeginCycle(t) ==
  Enter(t, IF Running # {}
           THEN [Idle EXCEPT !.pc = "list", !.kind = "cycle"]
           ELSE [Idle EXCEPT !.pc = "list", !.kind = "cycle", !.alone = TRUE,
                   !.before = IF watched = "co_purchased" THEN events
                              ELSE {e \in events : e[2] \in known},
                   !.stayed = IF watched = "brand" THEN known ELSE {},
                   !.base = IF watched \in Relations THEN relation ELSE None])

\* recommend() finds no profile and will compute one; an empty id is refused.
Recommend(t, u) ==
  /\ watched = "profiles"
  /\ u # <<>>
  /\ profile[u] = None
  /\ Enter(t, [Idle EXCEPT !.pc = "recent", !.kind = "recommend", !.key = u])

-----------------------------------------------------------------------------
(* One step of a call: a read, or a write of what was read.                *)

Step(t, new) ==
  /\ task' = [task EXCEPT ![t] = new]
  /\ UNCHANGED <<watched, known, events>>

\* list_products_page() or list_user_ids() opens the watched part.
List(t) ==
  /\ At(t, "list")
  /\ Step(t, CASE watched = "signals" -> [task[t] EXCEPT !.pc = "pick", !.left = known]
               [] watched = "brand"   -> [task[t] EXCEPT !.pc = "pairs", !.todo = BrandPairs(known)]
               [] OTHER               -> [task[t] EXCEPT !.pc = "pick", !.left = Active])
  /\ UNCHANGED tables

\* A mutant: get_product_signals(), which prefers what is stored.
StoredFirst(p) == IF signals[p] # None THEN signals[p] ELSE EventsOf(p)

\* recompute_product_signals() reads the events, whatever is stored.
Counted(p) == EventsOf(p)

\* The next product of the page.
Recompute(t, p) ==
  /\ watched = "signals" /\ At(t, "pick")
  /\ p \in task[t].left /\ \A q \in task[t].left : p <= q
  /\ Step(t, [task[t] EXCEPT !.pc = "write", !.left = @ \ {p}, !.key = p, !.value = Counted(p)])
  /\ UNCHANGED tables

PutSignals(t) ==
  /\ watched = "signals" /\ At(t, "write")
  /\ signals' = [signals EXCEPT ![task[t].key] = task[t].value]
  /\ Step(t, [task[t] EXCEPT !.pc = "pick", !.key = None, !.value = None])
  /\ UNCHANGED <<profile, relation>>

\* get_user_recent_products() for a mean vector, or for the pairs.
NextUser(t, u) ==
  /\ At(t, "pick") /\ watched \in {"profiles", "co_purchased"} /\ u \in task[t].left
  /\ \/ /\ watched = "profiles"
        /\ Step(t, [task[t] EXCEPT !.pc = "walk", !.left = @ \ {u}, !.key = u,
                                   !.todo = Recent(u), !.value = {}])
     \/ /\ watched = "co_purchased"
        /\ Step(t, [task[t] EXCEPT !.pc = "pairs", !.left = @ \ {u}, !.todo = CoPairs(Recent(u))])
  /\ UNCHANGED tables

\* recommend() reads the same list, and returns if it is empty.
RecommendFrom(t) ==
  /\ At(t, "recent")
  /\ LET recent == Recent(task[t].key)
     IN Step(t, IF recent = {} THEN Idle
                ELSE [task[t] EXCEPT !.pc = "walk", !.todo = recent, !.value = {}])
  /\ UNCHANGED tables

\* A mutant: a product that is gone ends the mean.
RestUntilGone(t, p) == IF p \in known THEN task[t].todo \ {p} ELSE {}

\* A product that is gone is skipped.
Rest(t, p) == task[t].todo \ {p}

\* get_product() of one of them: it counts if it is still there.
Accumulate(t, p) ==
  /\ At(t, "walk") /\ p \in task[t].todo
  /\ Step(t, [task[t] EXCEPT !.todo = Rest(t, p),
                             !.value = IF p \in known THEN @ \cup {p} ELSE @])
  /\ UNCHANGED tables

\* What calls that fail leave out of the profile of the user.
Missing(t, ps) == IF task[t].alone THEN task[t].missed \cup ({task[t].key} \X ps) ELSE {}

\* The user is done: a cycle goes on to the next, recommend() returns.
AfterUser(t) ==
  IF task[t].kind = "recommend" THEN Idle
  ELSE [task[t] EXCEPT !.pc = "pick", !.key = None, !.value = None]

\* No product of the user is left: what is stored stays.
NoProfile(t) ==
  /\ At(t, "walk") /\ task[t].todo = {} /\ task[t].value = {}
  /\ Step(t, AfterUser(t))
  /\ UNCHANGED tables

PutProfile(t) ==
  /\ At(t, "walk") /\ task[t].todo = {} /\ task[t].value # {}
  /\ profile' = [profile EXCEPT ![task[t].key] = task[t].value]
  /\ Step(t, AfterUser(t))
  /\ UNCHANGED <<signals, relation>>

\* put_relation() reads the score under one lock of the engine and writes it
\* under another.
ReadScore(t, x) ==
  /\ At(t, "pairs") /\ task[t].key = None
  /\ x \in task[t].todo
  /\ Step(t, [task[t] EXCEPT !.todo = @ \ {x}, !.key = x, !.value = relation[x]])
  /\ UNCHANGED tables

\* A mutant: the score is set, not added to.
ScoreOfOne(t) == 1

NewScore(t) == Add(task[t].value, 1)

WriteScore(t) ==
  /\ At(t, "pairs") /\ task[t].key # None
  /\ relation' = [relation EXCEPT ![task[t].key] = NewScore(t)]
  /\ Step(t, [task[t] EXCEPT !.key = None, !.value = None])
  /\ UNCHANGED <<signals, profile>>

\* The pairs of a brand, or of a user, are written.
PairsDone(t) ==
  /\ At(t, "pairs") /\ task[t].key = None
  /\ task[t].todo = {}
  /\ Step(t, [task[t] EXCEPT !.pc = "pick"])
  /\ UNCHANGED tables

-----------------------------------------------------------------------------
(* Calls end.                                                              *)

\* Nothing is left of the part; the cycle is complete.
Complete(t) ==
  /\ At(t, "pick") /\ task[t].left = {}
  /\ Step(t, [task[t] EXCEPT !.pc = "done"])
  /\ UNCHANGED tables

Return(t) ==
  /\ At(t, "done")
  /\ Step(t, Idle)
  /\ UNCHANGED tables

\* An error ends the cycle (`?'), or the handler is dropped.
Abandon(t) ==
  /\ t \in Running /\ ~At(t, "done")
  /\ task' = [task EXCEPT ![t] = Idle]
  /\ UNCHANGED <<watched, known, events, tables>>

\* A get_product() that fails is no error (`if let Ok(Some(product))'): the
\* mean is taken without the product.
ReadFails(t, p) ==
  /\ At(t, "walk") /\ p \in task[t].todo \cap known
  /\ task' = [task EXCEPT ![t] = [@ EXCEPT !.todo = Rest(t, p), !.missed = Missing(t, {p})]]
  /\ UNCHANGED <<watched, known, events, tables>>

\* A profile that cannot be stored is only logged.
ProfileFails(t) ==
  /\ At(t, "walk") /\ task[t].todo = {} /\ task[t].value # {}
  /\ task' = [task EXCEPT ![t] = [AfterUser(t) EXCEPT !.missed = Missing(t, Products)]]
  /\ UNCHANGED <<watched, known, events, tables>>

Work(t) ==
  \/ BeginCycle(t)
  \/ List(t)
  \/ \E p \in Products : Recompute(t, p) \/ Accumulate(t, p)
  \/ PutSignals(t)
  \/ \E u \in Users : NextUser(t, u)
  \/ RecommendFrom(t)
  \/ NoProfile(t)
  \/ PutProfile(t)
  \/ \E x \in Pairs : ReadScore(t, x)
  \/ WriteScore(t)
  \/ PairsDone(t)
  \/ Complete(t)
  \/ Return(t)

Next ==
  \/ \E p \in Products : PutProduct(p) \/ DeleteProduct(p)
  \/ \E u \in Users, p \in Products : PutEvent(u, p)
  \/ \E t \in Tasks : Work(t) \/ Abandon(t) \/ ProfileFails(t)
  \/ \E t \in Tasks, p \in Products : ReadFails(t, p)
  \/ \E t \in Requests, u \in Users : Recommend(t, u)

\* The loop runs for the life of the process; requests promise nothing.
Spec == Init /\ [][Next]_vars /\ WF_vars(Work(Loop))

-----------------------------------------------------------------------------
(* Properties.                                                             *)

TypeOK ==
  /\ watched \in Parts
  /\ known \subseteq Products
  /\ events \subseteq Clicks
  /\ signals \in [Products -> {None} \cup SUBSET events]
  /\ profile \in [Users -> {None} \cup SUBSET Products]
  /\ relation \in [Pairs -> 0..MaxScore]
  /\ \A t \in Tasks :
       /\ task[t].pc \in {"idle", "list", "pick", "recent", "walk", "write", "pairs", "done"}
       /\ task[t].kind \in {None, "cycle", "recommend"}
       /\ task[t].before \subseteq events /\ task[t].stayed \subseteq known

Finished(t, part) == watched = part /\ At(t, "done") /\ task[t].alone

\* A cycle that no other call overlapped leaves no event behind that was
\* recorded before it began, for a product that was there all the time.  It is
\* what makes POST /admin/aggregate worth calling: "to apply training
\* immediately" (docs/api.md).
QuietCycleCounts ==
  \A t \in Tasks : Finished(t, "signals") =>
    \A e \in task[t].before : signals[e[2]] # None /\ e \in signals[e[2]]

\* Such a cycle leaves in the profiles every product that was there all the
\* time and was clicked before the cycle began, unless a call for it failed:
\* those that fail are skipped, and the cycle ends as if it were complete
\* (aggregation/mod.rs:71, 91).  The profile is that of the user's id up to its
\* first NUL, the only one a cycle computes.
QuietCycleProfiles ==
  \A t \in Tasks : Finished(t, "profiles") =>
    \A e \in task[t].before :
      LET u == UserOf(Key(e[1]))
      IN <<u, e[2]>> \notin task[t].missed => profile[u] # None /\ e[2] \in profile[u]

\* The products of every user whose id, up to its first NUL, is u.
History(log, u) ==
  {p \in Products : \E v \in Users : UserOf(Key(v)) = u /\ <<v, p>> \in log}

Both(log, x) == Cardinality({u \in Users : {x[1], x[2]} \subseteq History(log, u)})

\* Such a cycle raises the score of a pair once for every id a cycle lists that
\* has both products in its history.
QuietCycleRelates ==
  \A t \in Tasks : Finished(t, "co_purchased") =>
    \A x \in Pairs : relation[x] \in Add(task[t].base[x], Both(task[t].before, x))
                                    ..Add(task[t].base[x], Both(events, x))

\* Whoever computed it, a profile holds products of its own user only, and of
\* users whose ids go on after it with a NUL: the keys of those begin like its
\* own, and no handler refuses them.  Where no id has a NUL, profiles do not mix.
ProfilesAreOwn ==
  \A u \in Users : profile[u] # None =>
    /\ profile[u] # {}
    /\ \A p \in profile[u] : \E v \in Users :
         <<v, p>> \in events /\ (v = u \/ IsPrefix(u \o <<Nul>>, v))

\* Such a cycle raises the score from every product of a brand to each of the
\* first Peers of them once, if both were there all the time.
QuietCycleBrands ==
  \A t \in Tasks : Finished(t, "brand") =>
    \A x \in Pairs :
      /\ relation[x] \in {task[t].base[x], Add(task[t].base[x], 1)}
      /\ {x[1], x[2]} \subseteq task[t].stayed
           /\ Cardinality({c \in Products : c < x[2]}) < Peers
           => relation[x] = Add(task[t].base[x], 1)

Symmetric(scores) == \A x \in Pairs : scores[x] = scores[<<x[2], x[1]>>]

\* Such a cycle leaves relations by co-purchase symmetric if it found them so.
QuietCycleMirrors ==
  \A t \in Tasks :
    Finished(t, "co_purchased") /\ Symmetric(task[t].base) => Symmetric(relation)

\* Signals catch up: once the loop's own cycles no longer fail, a product that
\* stays ends up with every event of its own in the stored signals, however the
\* cycles overlap.
SignalsCatchUp ==
  \A p \in Products :
    (watched = "signals" /\ <>[](p \in known) /\ <>[][~Abandon(Loop)]_vars)
      => <>[](signals[p] = EventsOf(p))

\* Profiles catch up: once the products stay, the reads of products no longer
\* fail, and nothing else the loop does, the profile of every id a cycle lists
\* ends up as the mean of its whole history.
ProfilesCatchUp ==
  /\ watched = "profiles"
  /\ <>[](known = Products)
  /\ <>[][/\ ~ \E t \in Tasks, p \in Products : ReadFails(t, p)
         /\ ~Abandon(Loop) /\ ~ProfileFails(Loop)]_vars
  => <>[](\A u \in Users : History(events, u) # {} => profile[u] = History(events, u))
=============================================================================
