------------------------------ MODULE Catalog ------------------------------
(***************************************************************************)
(* One SearchEngine (vectoria-core/src/search/mod.rs) as a set of stores   *)
(* that must tell the same story about every product:                      *)
(*                                                                         *)
(*   store         the StorageEngine's product table, the source of truth  *)
(*   vectors       the VectorIndex                                         *)
(*   text          the StorageEngine's full-text index                     *)
(*   autocomplete  the in-memory Bm25Index behind /suggest                 *)
(*   lexicon       the documents fed to the spell checker and gazetteer,   *)
(*                 both append-only and both in memory                     *)
(*                                                                         *)
(* index(), delete() and reindex_all() update the stores one await at a    *)
(* time.  Nothing locks a product across the awaits, so calls interleave   *)
(* between any two writes; a write may fail and end the call; a handler's  *)
(* future may be dropped; the process may restart.  A document stands for  *)
(* a product's text and metadata.                                          *)
(***************************************************************************)
EXTENDS Integers, FiniteSets, Sequences

CONSTANTS
  N,               \* products are the ids 1..N, in key order
  Docs,            \* what a client may say about a product
  Supplied,        \* the documents that arrive with their own vector
  Models,          \* embedding models the server may be started with
  Client,          \* the "model" of a vector the client supplied
  None,            \* an absent value
  Tasks,           \* concurrent requests and background jobs
  Batch,           \* BATCH: products per page of a reindex
  Faults,          \* may a storage or embedding call fail?
  RebuildOnStart,  \* a named index reindexes itself when it is loaded
  MaxRestarts      \* bound on the number of restarts

Products == 1..N
Vectors  == Docs \X (Models \cup {Client})
Records  == [doc : Docs, vec : Vectors, model : Models]

ASSUME CatalogAssumption ==
  /\ N \in Nat
  /\ Batch \in Nat \ {0}
  /\ MaxRestarts \in Nat
  /\ Faults \in BOOLEAN /\ RebuildOnStart \in BOOLEAN
  /\ Supplied \subseteq Docs
  /\ None \notin Docs \cup Vectors \cup Records
  /\ Client \notin Models

VARIABLES
  store, vectors, text, autocomplete, lexicon,
  model,     \* the model of the embedding provider of this process
  op,        \* op[t]: the index() or delete() call task t is in
  scan,      \* scan[t]: the reindex_all() loop task t is in
  restarts

\* History variables: what the properties compare the stores with.
VARIABLES
  persisted, \* persisted[p]: documents put_product has ever stored for p
  clean,     \* clean[p]: the latest call on p ran alone and succeeded
  warm,      \* warm[p]: ... and since the process last started
  gone,      \* gone[p]: a delete of p has started to take effect
  moved,     \* moved[t]: products others wrote since t listed its page
  owed       \* owed[t]: untouched products the scan of t has still to visit

stores  == <<store, vectors, text, autocomplete, lexicon>>
history == <<persisted, clean, warm, gone, moved, owed>>
vars    == <<stores, model, op, scan, restarts, history>>

-----------------------------------------------------------------------------
IdleOp   == [kind |-> "idle", id |-> 0, rec |-> None, step |-> 1, alone |-> FALSE]
IdleScan == [on |-> FALSE, cursor |-> 0, page |-> [p \in Products |-> None], last |-> FALSE]

Live == {p \in Products : store[p] # None}

\* What the record of a call puts in each store; a delete carries no record.
VecOf(r) == IF r = None THEN None ELSE r.vec
DocOf(r) == IF r = None THEN None ELSE r.doc

\* index() embeds the text unless the product brings a vector, and stamps the
\* current model on what had no model_id.
StampUnset(d, m) == [doc |-> d, vec |-> <<d, m>>, model |-> None]
Stamp(d, m) ==
  [doc |-> d, vec |-> IF d \in Supplied THEN <<d, Client>> ELSE <<d, m>>, model |-> m]

\* The order of the writes in index() and in delete().
DeleteStoreLast(kind) ==
  IF kind = "index" THEN <<"vector", "store", "text", "memory">>
                    ELSE <<"vector", "text", "store", "memory">>
TextBeforeStore(kind) ==
  IF kind = "index" THEN <<"vector", "text", "store", "memory">>
                    ELSE <<"store", "vector", "text", "memory">>
DeleteKeepsText(kind) ==
  IF kind = "index" THEN <<"vector", "store", "text", "memory">>
                    ELSE <<"store", "vector", "memory", "memory">>
Order(kind) ==
  IF kind = "index" THEN <<"vector", "store", "text", "memory">>
                    ELSE <<"store", "vector", "text", "memory">>

Effect(t) == Order(op[t].kind)[op[t].step]

-----------------------------------------------------------------------------
(* A call starts, writes one store after the other, and ends.              *)

\* Two calls on one product that overlap are neither of them alone.
NobodyOn(p) == \A w \in Tasks : op[w].id # p

Start(t, kind, p, r) ==
  /\ op' = [u \in Tasks |->
              IF u = t
              THEN [kind |-> kind, id |-> p, rec |-> r, step |-> 1,
                    alone |-> NobodyOn(p)]
              ELSE IF op[u].id = p THEN [op[u] EXCEPT !.alone = FALSE] ELSE op[u]]
  /\ clean' = [clean EXCEPT ![p] = FALSE]
  /\ warm'  = [warm EXCEPT ![p] = FALSE]

\* The call goes on to its next write, or returns Ok after its last.
Proceed(t) ==
  IF op[t].step < 4
  THEN /\ op' = [op EXCEPT ![t].step = @ + 1]
       /\ UNCHANGED <<clean, warm>>
  ELSE /\ op' = [op EXCEPT ![t] = IdleOp]
       /\ clean' = [clean EXCEPT ![op[t].id] = op[t].alone]
       /\ warm'  = [warm EXCEPT ![op[t].id] = op[t].alone]

\* A delete is marked as soon as its first write has taken effect.  The mark
\* goes when the product is stored again by a client, or by a reindex that
\* listed it before somebody else wrote it.
StillGone(t, e) ==
  /\ gone[op[t].id]
  /\ ~ (op[t].kind = "index" /\ e = "store" /\ (scan[t].on => op[t].id \in moved[t]))
MarkGone(t, e) ==
  gone' = [gone EXCEPT ![op[t].id] =
             (op[t].kind = "delete" /\ op[t].step = 1) \/ StillGone(t, e)]

Writing(t, e) == op[t].kind # "idle" /\ Effect(t) = e

WriteVector(t) ==
  /\ Writing(t, "vector")
  /\ vectors' = [vectors EXCEPT ![op[t].id] = VecOf(op[t].rec)]
  /\ Proceed(t) /\ MarkGone(t, "vector")
  /\ UNCHANGED <<store, text, autocomplete, lexicon, model, scan, restarts,
                 persisted, moved, owed>>

WriteStore(t) ==
  LET p == op[t].id IN
  /\ Writing(t, "store")
  /\ store' = [store EXCEPT ![p] = op[t].rec]
  /\ persisted' = [persisted EXCEPT ![p] = @ \cup ({DocOf(op[t].rec)} \ {None})]
  /\ moved' = [u \in Tasks |-> IF u # t /\ scan[u].on THEN moved[u] \cup {p} ELSE moved[u]]
  /\ owed'  = [u \in Tasks |-> IF u # t THEN owed[u] \ {p} ELSE owed[u]]
  /\ Proceed(t) /\ MarkGone(t, "store")
  /\ UNCHANGED <<vectors, text, autocomplete, lexicon, model, scan, restarts>>

WriteText(t) ==
  /\ Writing(t, "text")
  /\ text' = [text EXCEPT ![op[t].id] = DocOf(op[t].rec)]
  /\ Proceed(t) /\ MarkGone(t, "text")
  /\ UNCHANGED <<store, vectors, autocomplete, lexicon, model, scan, restarts,
                 persisted, moved, owed>>

\* The in-memory structures are updated one lock at a time, with no await in
\* between; no reader relates one to another, so one step stands for all.
WriteMemory(t) ==
  /\ Writing(t, "memory")
  /\ autocomplete' = [autocomplete EXCEPT ![op[t].id] = DocOf(op[t].rec)]
  /\ lexicon' = lexicon \cup ({DocOf(op[t].rec)} \ {None})
  /\ Proceed(t) /\ MarkGone(t, "memory")
  /\ UNCHANGED <<store, vectors, text, model, scan, restarts, persisted, moved, owed>>

Free(t) == op[t].kind = "idle" /\ ~scan[t].on

BeginIndex(t, p, d) ==
  /\ Free(t)
  /\ Start(t, "index", p, Stamp(d, model))
  /\ UNCHANGED <<stores, model, scan, restarts, persisted, gone, moved, owed>>

BeginDelete(t, p) ==
  /\ Free(t)
  /\ Start(t, "delete", p, None)
  /\ UNCHANGED <<stores, model, scan, restarts, persisted, gone, moved, owed>>

\* The embedding or the next write fails, or the handler's future is dropped
\* at an await: a write already on the blocking pool still lands, whenever that
\* is, and the call counts as running until then.  Before "memory" there is
\* only the second, and nobody drops a spawned reindex.
Abandon(t) ==
  /\ Faults
  /\ op[t].kind # "idle"
  /\ Effect(t) = "memory" => ~scan[t].on
  /\ op' = [op EXCEPT ![t] = IdleOp]
  /\ UNCHANGED <<stores, model, scan, restarts, history>>

-----------------------------------------------------------------------------
(* reindex_all(): page by page over the product table, in key order.       *)

Pending(t) == {p \in Products : scan[t].page[p] # None}
Between(t) == scan[t].on /\ op[t].kind = "idle"

\* list_products_page(cursor, BATCH): the first BATCH products after cursor.
Selected(c) ==
  {p \in Live : p > c /\ Cardinality({q \in Live : c < q /\ q < p}) < Batch}

\* The cursor of the next page: the key of the last product listed.
CursorKept(c, sel) == {c}
CursorPast(c, sel) ==
  {n \in Products : n - 1 \in sel /\ \A q \in sel : q < n} \cup (IF sel = {} THEN {c} ELSE {})
NextCursor(c, sel) ==
  {n \in (IF sel = {} THEN {c} ELSE sel) : \A q \in sel : q <= n}

BeginReindex(t) ==
  /\ Free(t)
  /\ scan'  = [scan EXCEPT ![t].on = TRUE]
  /\ owed'  = [owed EXCEPT ![t] = Live]
  /\ UNCHANGED <<stores, model, op, restarts, persisted, clean, warm, gone, moved>>

ListPage(t) ==
  LET sel == Selected(scan[t].cursor) IN
  /\ Between(t) /\ Pending(t) = {} /\ ~scan[t].last
  /\ \E next \in NextCursor(scan[t].cursor, sel) :
       scan' = [scan EXCEPT ![t] =
                  [on     |-> TRUE,
                   cursor |-> next,
                   page   |-> [p \in Products |-> IF p \in sel THEN store[p] ELSE None],
                   last   |-> Cardinality(sel) < Batch]]
  /\ moved' = [moved EXCEPT ![t] = {}]
  /\ UNCHANGED <<stores, model, op, restarts, persisted, clean, warm, gone, owed>>

TakeFromPage(t, p) ==
  /\ Between(t)
  /\ p \in Pending(t) /\ \A q \in Pending(t) : p <= q
  /\ scan' = [scan EXCEPT ![t].page[p] = None]
  /\ owed' = [owed EXCEPT ![t] = @ \ {p}]

\* index() refuses a product stamped with another model.
AcceptAnyModel(r) == TRUE
Accepts(r) == r.model = model

\* The product is embedded again, whatever vector it had, and handed to index().
ReindexProduct(t, p) ==
  LET r == scan[t].page[p] IN
  /\ TakeFromPage(t, p)
  /\ Accepts(r)
  /\ Start(t, "index", p, [r EXCEPT !.vec = <<r.doc, model>>])
  /\ UNCHANGED <<stores, model, restarts, persisted, gone, moved>>

\* errors += 1: the embedding failed, or index() refused the model.
ReindexError(t, p) ==
  /\ TakeFromPage(t, p)
  /\ Faults \/ ~Accepts(scan[t].page[p])
  /\ UNCHANGED <<stores, model, op, restarts, persisted, clean, warm, gone, moved>>

EndReindex(t) ==
  /\ scan'  = [scan EXCEPT ![t] = IdleScan]
  /\ moved' = [moved EXCEPT ![t] = {}]
  /\ owed'  = [owed EXCEPT ![t] = {}]
  /\ UNCHANGED <<stores, model, op, restarts, persisted, clean, warm, gone>>

\* The last page is done: flush the vectors and the text, compact, report.
FinishReindex(t) ==
  /\ Between(t) /\ Pending(t) = {} /\ scan[t].last
  /\ EndReindex(t)

\* Listing a page fails, and the ? ends the whole reindex.
AbortReindex(t) ==
  /\ Faults
  /\ Between(t) /\ Pending(t) = {} /\ ~scan[t].last
  /\ EndReindex(t)

-----------------------------------------------------------------------------
\* The process stops and starts again, perhaps with another model.  What was
\* in memory is gone; a named index starts a reindex of its own.
Restart ==
  /\ restarts < MaxRestarts
  /\ restarts' = restarts + 1
  /\ model' \in Models
  /\ autocomplete' = [p \in Products |-> None]
  /\ lexicon' = {}
  /\ warm' = [p \in Products |-> FALSE]
  /\ op' = [t \in Tasks |-> IdleOp]
  /\ moved' = [t \in Tasks |-> {}]
  /\ \E loaders \in SUBSET Tasks :
       /\ Cardinality(loaders) = (IF RebuildOnStart THEN 1 ELSE 0)
       /\ scan' = [t \in Tasks |->
                     IF t \in loaders THEN [IdleScan EXCEPT !.on = TRUE] ELSE IdleScan]
       /\ owed' = [t \in Tasks |-> IF t \in loaders THEN Live ELSE {}]
  /\ UNCHANGED <<store, vectors, text, persisted, clean, gone>>

Init ==
  /\ store        = [p \in Products |-> None]
  /\ vectors      = [p \in Products |-> None]
  /\ text         = [p \in Products |-> None]
  /\ autocomplete = [p \in Products |-> None]
  /\ lexicon = {}
  /\ model \in Models
  /\ op   = [t \in Tasks |-> IdleOp]
  /\ scan = [t \in Tasks |-> IdleScan]
  /\ restarts = 0
  /\ persisted = [p \in Products |-> {}]
  /\ clean = [p \in Products |-> TRUE]
  /\ warm  = [p \in Products |-> TRUE]
  /\ gone  = [p \in Products |-> FALSE]
  /\ moved = [t \in Tasks |-> {}]
  /\ owed  = [t \in Tasks |-> {}]

\* What a task does of itself once a request has started it.
Work(t) ==
  \/ WriteVector(t) \/ WriteStore(t) \/ WriteText(t) \/ WriteMemory(t)
  \/ ListPage(t) \/ FinishReindex(t)
  \/ \E p \in Products : ReindexProduct(t, p) \/ ReindexError(t, p)

Next ==
  \/ \E t \in Tasks :
       \/ Work(t) \/ Abandon(t) \/ AbortReindex(t) \/ BeginReindex(t)
       \/ \E p \in Products : BeginDelete(t, p) \/ \E d \in Docs : BeginIndex(t, p, d)
  \/ Restart

Spec == Init /\ [][Next]_vars

\* The runtime polls every ready task: one that can go on does.
FairSpec == Spec /\ \A t \in Tasks : WF_vars(Work(t))

-----------------------------------------------------------------------------
(* Properties *)

IndexCalls  == [kind : {"index"}, id : Products, rec : Records,
                step : 1..4, alone : BOOLEAN]
DeleteCalls == [kind : {"delete"}, id : Products, rec : {None},
                step : 1..4, alone : BOOLEAN]
Ops   == {IdleOp} \cup IndexCalls \cup DeleteCalls
Pages == [Products -> Records \cup {None}]
Scans == [on : BOOLEAN, cursor : 0..N, page : Pages, last : BOOLEAN]

\* Types of the state of mod.rs's SearchEngine: a stored record always has a
\* vector and the model_id that index() stamps on it.
TypeOK ==
  /\ store \in [Products -> Records \cup {None}]
  /\ vectors \in [Products -> Vectors \cup {None}]
  /\ text \in [Products -> Docs \cup {None}]
  /\ autocomplete \in [Products -> Docs \cup {None}]
  /\ lexicon \subseteq Docs
  /\ model \in Models
  /\ op \in [Tasks -> Ops]
  /\ scan \in [Tasks -> Scans]
  /\ restarts \in 0..MaxRestarts
  /\ persisted \in [Products -> SUBSET Docs]
  /\ clean \in [Products -> BOOLEAN] /\ warm \in [Products -> BOOLEAN]
  /\ gone \in [Products -> BOOLEAN]
  /\ moved \in [Tasks -> SUBSET Products] /\ owed \in [Tasks -> SUBSET Products]

\* The stores agree on a product whose latest call ran alone and succeeded,
\* however many earlier calls raced, failed half way or died in a restart:
\* one quiet successful call repairs the product.  The in-memory index agrees
\* if that call was made by this process.
CleanAgreement ==
  \A p \in Products :
    /\ clean[p] => vectors[p] = VecOf(store[p]) /\ text[p] = DocOf(store[p])
    /\ clean[p] /\ warm[p] => autocomplete[p] = DocOf(store[p])

\* The comment at mod.rs:146-148: the text indexes and the spell checker never
\* hold a document of a product that was not persisted first.
NoPhantomText ==
  /\ \A p \in Products : {text[p], autocomplete[p]} \ {None} \subseteq persisted[p]
  /\ \A d \in lexicon : \E p \in Products : d \in persisted[p]

\* The comment at mod.rs:173-175: once a delete has begun to take effect, even
\* if it then failed, no reindex that lists the product table afterwards brings
\* the product back; only a client's index() does, or a reindex that had listed
\* the product before.
NoResurrection == \A p \in Products : gone[p] => store[p] = None

\* The model_id stored with a product names the model that made its vector,
\* also after a restart with another model and reindexes under it.
ModelStampTrue ==
  \A p \in Products :
    store[p] # None => store[p].vec[2] \in {Client, store[p].model}

\* A reindex that comes to its end has visited every product that was in the
\* table all the time, however the table grew and shrank between its pages.
ReindexSkipsNothing ==
  \A t \in Tasks : Between(t) /\ scan[t].last /\ Pending(t) = {} => owed[t] = {}

\* A reindex ends while clients keep indexing and deleting, unless they keep
\* storing new products beyond its cursor: the ids of the code are unbounded, and
\* nothing else, not even what the reindexes themselves write, keeps one going.
StoredAhead(t) ==
  \E p \in Products : p > scan[t].cursor /\ store[p] = None /\ store'[p] # None

ReindexTerminates ==
  \A t \in Tasks : <>[](scan[t].on) => []<><<StoredAhead(t)>>_vars

\* The message at mod.rs:133-137 and the README promise that a reindex moves
\* the catalogue to the current model.
ReindexMigrates ==
  [][\A t \in Tasks : FinishReindex(t) => \A p \in Live : store[p].model = model]_vars
=============================================================================
