--------------------------- MODULE CatalogProofs ---------------------------
(***************************************************************************)
(* Theorems about Catalog, for any number of products, documents, models   *)
(* and tasks.                                                              *)
(***************************************************************************)
EXTENDS Catalog, FiniteSetTheorems, TLAPS

USE CatalogAssumption

\* The order of the writes of index() and delete(), position by position.
LEMMA OrderIs ==
  /\ Order("index")[1] = "vector" /\ Order("index")[2] = "store"
  /\ Order("index")[3] = "text"   /\ Order("index")[4] = "memory"
  /\ Order("delete")[1] = "store" /\ Order("delete")[2] = "vector"
  /\ Order("delete")[3] = "text"  /\ Order("delete")[4] = "memory"
  BY DEF Order

\* A record or its absence yields a vector and a document or their absence.
LEMMA Fields ==
  ASSUME NEW r \in Records \cup {None}
  PROVE  /\ VecOf(r) \in Vectors \cup {None}
         /\ DocOf(r) \in Docs \cup {None}
         /\ r # None => r \in Records /\ VecOf(r) = r.vec /\ DocOf(r) = r.doc
  BY DEF VecOf, DocOf, Records

\* index() makes a complete record of every document.
LEMMA StampIsRecord ==
  ASSUME NEW d \in Docs, NEW m \in Models
  PROVE  Stamp(d, m) \in Records
  BY DEF Stamp, Records, Vectors

\* So does a reindex of a record of its page.
LEMMA ReindexedIsRecord ==
  ASSUME NEW r \in Records, NEW m \in Models
  PROVE  [r EXCEPT !.vec = <<r.doc, m>>] \in Records
  BY DEF Records, Vectors


\* The shape of a call in progress, and what an update of it yields.
LEMMA CallShape ==
  ASSUME NEW o \in Ops, o # IdleOp
  PROVE  /\ o.id \in Products /\ o.step \in 1..4 /\ o.alone \in BOOLEAN
         /\ o.rec \in Records \cup {None}
         /\ o.kind \in {"index", "delete"}
         /\ o.kind = "index" <=> o.rec \in Records
         /\ o.kind = "delete" <=> o.rec = None
         /\ [o EXCEPT !.alone = FALSE] \in Ops
         /\ \A s \in 1..4 : [o EXCEPT !.step = s] \in Ops
<1>1. o \in IndexCalls \/ o \in DeleteCalls
  BY DEF Ops
<1>2. CASE o \in IndexCalls
  BY <1>2 DEF IndexCalls, Ops
<1>3. CASE o \in DeleteCalls
  BY <1>3 DEF DeleteCalls, Ops
<1>4. QED
  BY <1>1, <1>2, <1>3

\* A task is idle exactly when it has no call, and then names no product.
LEMMA IdleShape ==
  ASSUME NEW o \in Ops
  PROVE  /\ o.kind = "idle" <=> o = IdleOp
         /\ o = IdleOp => o.id \notin Products
<1>1. IdleOp.kind = "idle" /\ IdleOp.id \notin Products
  BY DEF IdleOp, Products
<1>2. CASE o = IdleOp
  BY <1>1, <1>2
<1>3. CASE o # IdleOp
  BY <1>3, CallShape
<1>4. QED
  BY <1>2, <1>3

\* Starting a call, going on with it and dropping it keep op well typed.
LEMMA StartTypes ==
  ASSUME TypeOK, NEW t \in Tasks, NEW kind, NEW p \in Products, NEW r,
         Start(t, kind, p, r),
         \/ kind = "index" /\ r \in Records
         \/ kind = "delete" /\ r = None
  PROVE  /\ op' \in [Tasks -> Ops]
         /\ clean' \in [Products -> BOOLEAN] /\ warm' \in [Products -> BOOLEAN]
<1> USE DEF TypeOK, Start
<1>1. ASSUME NEW u \in Tasks
      PROVE  op'[u] \in Ops
  <2>1. CASE u = t
    <3>1. op'[u] = [kind |-> kind, id |-> p, rec |-> r, step |-> 1, alone |-> NobodyOn(p)]
      BY <1>1, <2>1
    <3>2. NobodyOn(p) \in BOOLEAN
      BY DEF NobodyOn
    <3>3. QED
      BY <3>1, <3>2 DEF Ops, IndexCalls, DeleteCalls
  <2>2. CASE u # t
    <3>1. op'[u] = IF op[u].id = p THEN [op[u] EXCEPT !.alone = FALSE] ELSE op[u]
      BY <1>1, <2>2
    <3>2. op[u] \in Ops
      BY <1>1
    <3>3. op[u].id = p => op[u] # IdleOp
      BY <3>2, IdleShape
    <3>4. op[u].id = p => [op[u] EXCEPT !.alone = FALSE] \in Ops
      BY <3>2, <3>3, CallShape
    <3>5. QED
      BY <3>1, <3>2, <3>4
  <2>3. QED  BY <2>1, <2>2
<1>2. QED
  BY <1>1

LEMMA ProceedTypes ==
  ASSUME TypeOK, NEW t \in Tasks, op[t].kind # "idle", Proceed(t)
  PROVE  /\ op' \in [Tasks -> Ops]
         /\ clean' \in [Products -> BOOLEAN] /\ warm' \in [Products -> BOOLEAN]
<1> USE DEF TypeOK, Proceed
<1>1. op[t] \in Ops /\ op[t] # IdleOp
  BY DEF IdleOp
<1>2. op[t].id \in Products /\ op[t].step \in 1..4 /\ op[t].alone \in BOOLEAN
  BY <1>1, CallShape
<1>3. CASE op[t].step < 4
  <2>1. op[t].step + 1 \in 1..4
    BY <1>2, <1>3
  <2>2. [op[t] EXCEPT !.step = @ + 1] \in Ops
    BY <1>1, <2>1, CallShape
  <2>3. QED
    BY <1>3, <2>2
<1>4. CASE ~ (op[t].step < 4)
  BY <1>2, <1>4 DEF Ops
<1>5. QED
  BY <1>3, <1>4

LEMMA TypeInit == Init => TypeOK
  BY DEF Init, TypeOK, Ops, Scans, Pages, IdleScan

\* Each write puts a field of the record of the call into one store.
LEMMA WriteTypes ==
  ASSUME TypeOK, NEW t \in Tasks,
         WriteVector(t) \/ WriteStore(t) \/ WriteText(t) \/ WriteMemory(t)
  PROVE  TypeOK'
<1>1. op[t] \in Ops /\ op[t] # IdleOp
  BY DEF TypeOK, Writing, IdleOp, WriteVector, WriteStore, WriteText, WriteMemory
<1>2. op[t].id \in Products /\ op[t].rec \in Records \cup {None}
  BY <1>1, CallShape
<1>3. VecOf(op[t].rec) \in Vectors \cup {None} /\ DocOf(op[t].rec) \in Docs \cup {None}
  BY <1>2, Fields
<1>4. /\ op' \in [Tasks -> Ops]
      /\ clean' \in [Products -> BOOLEAN] /\ warm' \in [Products -> BOOLEAN]
  <2>1. op[t].kind # "idle" /\ Proceed(t)
    BY DEF Writing, WriteVector, WriteStore, WriteText, WriteMemory
  <2>2. QED
    BY <2>1, ProceedTypes
<1>5. gone' \in [Products -> BOOLEAN]
  <2>1. \E e \in {"vector", "store", "text", "memory"} : MarkGone(t, e)
    BY DEF WriteVector, WriteStore, WriteText, WriteMemory
  <2>2. PICK e \in {"vector", "store", "text", "memory"} : MarkGone(t, e)
    BY <2>1
  <2>3. ((op[t].kind = "delete" /\ op[t].step = 1) \/ StillGone(t, e)) \in BOOLEAN
    BY DEF StillGone
  <2>4. QED
    BY <2>2, <2>3 DEF MarkGone, TypeOK
<1>6. CASE WriteVector(t)
  BY <1>2, <1>3, <1>4, <1>5, <1>6 DEF TypeOK, WriteVector
<1>7. CASE WriteStore(t)
  <2>1. store' \in [Products -> Records \cup {None}]
    BY <1>2, <1>7 DEF TypeOK, WriteStore
  <2>2. persisted' \in [Products -> SUBSET Docs]
    BY <1>2, <1>3, <1>7 DEF TypeOK, WriteStore
  <2>3. moved' \in [Tasks -> SUBSET Products] /\ owed' \in [Tasks -> SUBSET Products]
    BY <1>2, <1>7 DEF TypeOK, WriteStore
  <2>4. QED
    BY <2>1, <2>2, <2>3, <1>4, <1>5, <1>7 DEF TypeOK, WriteStore
<1>8. CASE WriteText(t)
  BY <1>2, <1>3, <1>4, <1>5, <1>8 DEF TypeOK, WriteText
<1>9. CASE WriteMemory(t)
  BY <1>2, <1>3, <1>4, <1>5, <1>9 DEF TypeOK, WriteMemory
<1>10. QED
  BY <1>6, <1>7, <1>8, <1>9

LEMMA ReindexTypes ==
  ASSUME TypeOK, NEW t \in Tasks,
         \/ BeginReindex(t) \/ ListPage(t) \/ FinishReindex(t) \/ AbortReindex(t)
         \/ \E p \in Products : ReindexProduct(t, p) \/ ReindexError(t, p)
  PROVE  TypeOK'
<1>1. scan[t] \in Scans /\ IdleScan \in Scans
  BY DEF TypeOK, Scans, Pages, IdleScan
<1>2. CASE BeginReindex(t)
  <2>1. [scan[t] EXCEPT !.on = TRUE] \in Scans
    BY <1>1 DEF Scans
  <2>2. QED
    BY <1>2, <2>1 DEF TypeOK, BeginReindex, Live, stores
<1>3. CASE ListPage(t)
  <2> DEFINE sel == Selected(scan[t].cursor)
             pg  == [p \in Products |-> IF p \in sel THEN store[p] ELSE None]
  <2>1. PICK next \in NextCursor(scan[t].cursor, sel) :
          scan' = [scan EXCEPT ![t] =
            [on |-> TRUE, cursor |-> next, page |-> pg, last |-> Cardinality(sel) < Batch]]
    BY <1>3 DEF ListPage
  <2>2. next \in 0..N
    BY <1>1 DEF NextCursor, Selected, Live, Products, Scans
  <2>3. pg \in Pages
    BY DEF Pages, TypeOK
  <2>4. (Cardinality(sel) < Batch) \in BOOLEAN
    OBVIOUS
  <2>5. [on |-> TRUE, cursor |-> next, page |-> pg, last |-> Cardinality(sel) < Batch] \in Scans
    BY <2>2, <2>3, <2>4 DEF Scans
  <2>6. scan' \in [Tasks -> Scans]
    BY <2>1, <2>5 DEF TypeOK
  <2>7. QED
    BY <1>3, <2>6 DEF TypeOK, ListPage, stores
<1>4. CASE FinishReindex(t) \/ AbortReindex(t)
  BY <1>1, <1>4 DEF TypeOK, FinishReindex, AbortReindex, EndReindex, stores
<1>5. ASSUME NEW p \in Products, TakeFromPage(t, p)
      PROVE  /\ scan' \in [Tasks -> Scans] /\ owed' \in [Tasks -> SUBSET Products]
             /\ scan[t].page[p] \in Records
  <2>1. [scan[t] EXCEPT !.page[p] = None] \in Scans
    BY <1>1 DEF Scans, Pages
  <2>2. QED
    BY <1>1, <1>5, <2>1 DEF TypeOK, TakeFromPage, Pending, Scans, Pages
<1>6. ASSUME NEW p \in Products, ReindexProduct(t, p)
      PROVE  TypeOK'
  <2> DEFINE r == scan[t].page[p]
  <2>1. TakeFromPage(t, p) /\ Start(t, "index", p, [r EXCEPT !.vec = <<r.doc, model>>])
    BY <1>6 DEF ReindexProduct
  <2>2. r \in Records
    BY <1>5, <2>1
  <2>3. [r EXCEPT !.vec = <<r.doc, model>>] \in Records
    BY <2>2, ReindexedIsRecord DEF TypeOK
  <2>4. /\ op' \in [Tasks -> Ops]
        /\ clean' \in [Products -> BOOLEAN] /\ warm' \in [Products -> BOOLEAN]
    BY <2>1, <2>3, StartTypes
  <2>5. QED
    BY <1>5, <1>6, <2>1, <2>4 DEF TypeOK, ReindexProduct, stores
<1>7. ASSUME NEW p \in Products, ReindexError(t, p)
      PROVE  TypeOK'
  BY <1>5, <1>7 DEF TypeOK, ReindexError, stores
<1>8. QED
  BY <1>2, <1>3, <1>4, <1>6, <1>7

LEMMA RequestTypes ==
  ASSUME TypeOK, NEW t \in Tasks,
         \/ Abandon(t)
         \/ \E p \in Products : BeginDelete(t, p) \/ \E d \in Docs : BeginIndex(t, p, d)
  PROVE  TypeOK'
<1>1. CASE Abandon(t)
  BY <1>1 DEF TypeOK, Abandon, Ops, stores, history
<1>2. ASSUME NEW p \in Products, BeginDelete(t, p)
      PROVE  TypeOK'
  <2>1. /\ op' \in [Tasks -> Ops]
        /\ clean' \in [Products -> BOOLEAN] /\ warm' \in [Products -> BOOLEAN]
    BY <1>2, StartTypes DEF BeginDelete
  <2>2. QED
    BY <1>2, <2>1 DEF TypeOK, BeginDelete, stores
<1>3. ASSUME NEW p \in Products, NEW d \in Docs, BeginIndex(t, p, d)
      PROVE  TypeOK'
  <2>1. Stamp(d, model) \in Records
    BY StampIsRecord DEF TypeOK
  <2>2. /\ op' \in [Tasks -> Ops]
        /\ clean' \in [Products -> BOOLEAN] /\ warm' \in [Products -> BOOLEAN]
    BY <1>3, <2>1, StartTypes DEF BeginIndex
  <2>3. QED
    BY <1>3, <2>2 DEF TypeOK, BeginIndex, stores
<1>4. QED
  BY <1>1, <1>2, <1>3

LEMMA RestartTypes == TypeOK /\ Restart => TypeOK'
<1> SUFFICES ASSUME TypeOK, Restart PROVE TypeOK'
  OBVIOUS
<1>1. PICK loaders \in SUBSET Tasks :
        /\ scan' = [t \in Tasks |->
                      IF t \in loaders THEN [IdleScan EXCEPT !.on = TRUE] ELSE IdleScan]
        /\ owed' = [t \in Tasks |-> IF t \in loaders THEN Live ELSE {}]
  BY DEF Restart
<1>2. IdleScan \in Scans
  BY DEF Scans, Pages, IdleScan
<1>3. scan' \in [Tasks -> Scans]
  <2>1. [IdleScan EXCEPT !.on = TRUE] \in Scans
    BY <1>2 DEF Scans
  <2>2. QED
    BY <1>1, <1>2, <2>1
<1>4. owed' \in [Tasks -> SUBSET Products]
  BY <1>1 DEF Live
<1>5. restarts' \in 0..MaxRestarts
  BY DEF Restart, TypeOK
<1>6. op' \in [Tasks -> Ops]
  BY DEF Restart, Ops
<1>7. QED
  BY <1>3, <1>4, <1>5, <1>6 DEF TypeOK, Restart

LEMMA TypeStep == TypeOK /\ [Next]_vars => TypeOK'
<1>1. TypeOK /\ Next => TypeOK'
  BY WriteTypes, ReindexTypes, RequestTypes, RestartTypes DEF Next, Work
<1>2. TypeOK /\ UNCHANGED vars => TypeOK'
  BY DEF TypeOK, vars, stores, history
<1>3. QED
  BY <1>1, <1>2

\* The state of the SearchEngine keeps its types: a stored record is complete.
THEOREM TypeCorrect == Spec => []TypeOK
  BY TypeInit, TypeStep, PTL DEF Spec

-----------------------------------------------------------------------------
(* What a step does to the calls in progress, field by field.              *)

\* The write a call is about to make tells how far it has come.
LEMMA EffectStep ==
  ASSUME TypeOK, NEW t \in Tasks, op[t].kind # "idle"
  PROVE  /\ op[t].kind = "index" =>
              /\ Effect(t) = "vector" <=> op[t].step = 1
              /\ Effect(t) = "store"  <=> op[t].step = 2
              /\ Effect(t) = "text"   <=> op[t].step = 3
              /\ Effect(t) = "memory" <=> op[t].step = 4
         /\ op[t].kind = "delete" =>
              /\ Effect(t) = "store"  <=> op[t].step = 1
              /\ Effect(t) = "vector" <=> op[t].step = 2
              /\ Effect(t) = "text"   <=> op[t].step = 3
              /\ Effect(t) = "memory" <=> op[t].step = 4
<1>1. op[t].step \in 1..4
  BY CallShape, IdleShape DEF TypeOK
<1>2. op[t].step = 1 \/ op[t].step = 2 \/ op[t].step = 3 \/ op[t].step = 4
  BY <1>1
<1>3. CASE op[t].kind = "index"
  BY <1>2, <1>3, OrderIs DEF Effect
<1>4. CASE op[t].kind = "delete"
  BY <1>2, <1>4, OrderIs DEF Effect
<1>5. QED
  BY <1>3, <1>4

LEMMA BusyShape ==
  ASSUME TypeOK, NEW t \in Tasks, op[t].kind # "idle"
  PROVE  /\ op[t] \in Ops /\ op[t] # IdleOp
         /\ op[t].id \in Products /\ op[t].step \in 1..4 /\ op[t].alone \in BOOLEAN
         /\ op[t].kind = "index" \/ (op[t].kind = "delete" /\ op[t].rec = None)
         /\ op[t].rec \in Records \cup {None}
         /\ op[t].kind = "index" => op[t].rec \in Records
<1>1. op[t] \in Ops /\ op[t] # IdleOp
  BY IdleShape DEF TypeOK
<1>2. QED
  BY <1>1, CallShape

\* What the start of a call on p by t does to the calls and the marks.
Started(t, p) ==
  /\ op'[t].id = p /\ op'[t].step = 1
  /\ op'[t].alone => \A w \in Tasks : op[w].id # p
  /\ \A u \in Tasks \ {t} :
       /\ op'[u].kind = op[u].kind /\ op'[u].id = op[u].id
       /\ op'[u].rec = op[u].rec /\ op'[u].step = op[u].step
       /\ op'[u].alone => op[u].alone /\ op[u].id # p
  /\ clean' = [clean EXCEPT ![p] = FALSE] /\ warm' = [warm EXCEPT ![p] = FALSE]

LEMMA StartFields ==
  ASSUME TypeOK, NEW t \in Tasks, NEW kind, NEW p \in Products, NEW r,
         Start(t, kind, p, r)
  PROVE  Started(t, p)
<1>1. op'[t] = [kind |-> kind, id |-> p, rec |-> r, step |-> 1, alone |-> NobodyOn(p)]
  BY DEF Start
<1>3. op'[t].alone = NobodyOn(p)
  BY <1>1
<1>4. op'[t].alone => \A w \in Tasks : op[w].id # p
  BY <1>3, Zenon DEF NobodyOn
<1>2. ASSUME NEW u \in Tasks \ {t}
      PROVE  /\ op'[u].kind = op[u].kind /\ op'[u].id = op[u].id
             /\ op'[u].rec = op[u].rec /\ op'[u].step = op[u].step
             /\ op'[u].alone => op[u].alone /\ op[u].id # p
  <2>1. op'[u] = IF op[u].id = p THEN [op[u] EXCEPT !.alone = FALSE] ELSE op[u]
    BY <1>2 DEF Start
  <2>2. op[u] \in Ops
    BY DEF TypeOK
  <2>3. CASE op[u].id = p
    <3>1. op[u] \in IndexCalls \cup DeleteCalls
      BY <2>2, <2>3, IdleShape DEF Ops
    <3>2. QED
      BY <2>1, <2>3, <3>1 DEF IndexCalls, DeleteCalls
  <2>4. CASE op[u].id # p
    BY <2>1, <2>4
  <2>5. QED
    BY <2>3, <2>4
<1>5. op'[t].kind = kind /\ op'[t].id = p /\ op'[t].rec = r /\ op'[t].step = 1
  BY <1>1
<1>6. clean' = [clean EXCEPT ![p] = FALSE] /\ warm' = [warm EXCEPT ![p] = FALSE]
  BY DEF Start
<1>7. QED
  BY <1>2, <1>4, <1>5, <1>6, Zenon DEF Started

LEMMA ProceedFields ==
  ASSUME TypeOK, NEW t \in Tasks, op[t].kind # "idle", Proceed(t)
  PROVE  /\ \A u \in Tasks \ {t} : op'[u] = op[u]
         /\ op[t].step \in 1..3 =>
              /\ op'[t].kind = op[t].kind /\ op'[t].id = op[t].id /\ op'[t].rec = op[t].rec
              /\ op'[t].step = op[t].step + 1 /\ op'[t].alone = op[t].alone
              /\ clean' = clean /\ warm' = warm
         /\ op[t].step = 4 =>
              /\ op'[t] = IdleOp
              /\ clean' = [clean EXCEPT ![op[t].id] = op[t].alone]
              /\ warm' = [warm EXCEPT ![op[t].id] = op[t].alone]
<1>1. op[t] \in IndexCalls \cup DeleteCalls
  BY IdleShape DEF Ops, TypeOK
<1>2. op \in [Tasks -> Ops]
  BY DEF TypeOK
<1>3. CASE op[t].step \in 1..3
  <2>1. op' = [op EXCEPT ![t].step = @ + 1] /\ clean' = clean /\ warm' = warm
    BY <1>3 DEF Proceed
  <2>2. op'[t] = [op[t] EXCEPT !.step = @ + 1] /\ \A u \in Tasks \ {t} : op'[u] = op[u]
    BY <1>2, <2>1
  <2>3. QED
    BY <1>1, <1>3, <2>1, <2>2 DEF IndexCalls, DeleteCalls
<1>4. CASE op[t].step = 4
  BY <1>2, <1>4 DEF Proceed
<1>5. op[t].step \in 1..3 \/ op[t].step = 4
  BY <1>1 DEF IndexCalls, DeleteCalls
<1>6. QED
  BY <1>3, <1>4, <1>5

\* Every step but a write leaves the durable stores alone.
Writes(t) == WriteVector(t) \/ WriteStore(t) \/ WriteText(t) \/ WriteMemory(t)
Starts(t) ==
  \E p \in Products : \/ BeginDelete(t, p) \/ ReindexProduct(t, p)
                      \/ \E d \in Docs : BeginIndex(t, p, d)
Others(t) ==
  \/ Abandon(t) \/ AbortReindex(t) \/ BeginReindex(t) \/ ListPage(t) \/ FinishReindex(t)
  \/ \E p \in Products : ReindexError(t, p)

LEMMA NextSplits ==
  [Next]_vars <=> (\E t \in Tasks : Writes(t) \/ Starts(t) \/ Others(t)) \/ Restart \/ UNCHANGED vars
  BY DEF Next, Work, Writes, Starts, Others

\* A call that has made a write after a step that is not a write made it before.
LEMMA QuietStep ==
  ASSUME TypeOK,
         (\E t \in Tasks : Starts(t) \/ Others(t)) \/ Restart \/ UNCHANGED vars
  PROVE  /\ store' = store /\ vectors' = vectors /\ text' = text
         /\ persisted' = persisted /\ gone' = gone
         /\ \/ autocomplete' = autocomplete /\ lexicon' = lexicon
            \/ Restart /\ autocomplete' = [p \in Products |-> None] /\ lexicon' = {}
         /\ \A u \in Tasks : op'[u].step # 1 =>
              /\ op'[u].kind = op[u].kind /\ op'[u].id = op[u].id
              /\ op'[u].rec = op[u].rec /\ op'[u].step = op[u].step
              /\ op'[u].alone => op[u].alone
<1>1. CASE Restart
  BY <1>1 DEF Restart, IdleOp
<1>2. CASE UNCHANGED vars
  BY <1>2 DEF vars, stores, history
<1>3. ASSUME NEW t \in Tasks, Starts(t)
      PROVE  /\ UNCHANGED <<stores, persisted, gone>>
             /\ \E p \in Products : \E kind, r : Start(t, kind, p, r)
  <2>1. ASSUME NEW p \in Products, BeginDelete(t, p)
        PROVE  UNCHANGED <<stores, persisted, gone>> /\ Start(t, "delete", p, None)
    BY <2>1 DEF BeginDelete
  <2>2. ASSUME NEW p \in Products, NEW d \in Docs, BeginIndex(t, p, d)
        PROVE  /\ UNCHANGED <<stores, persisted, gone>> /\ Start(t, "index", p, Stamp(d, model))
               /\ Stamp(d, model) \in Records
    BY <2>2, StampIsRecord DEF BeginIndex, TypeOK
  <2>3. ASSUME NEW p \in Products, ReindexProduct(t, p)
        PROVE  /\ UNCHANGED <<stores, persisted, gone>>
               /\ \E r \in Records : Start(t, "index", p, r)
    <3>1. scan[t].page[p] \in Records /\ model \in Models
      BY <2>3 DEF ReindexProduct, TakeFromPage, Pending, TypeOK, Scans, Pages
    <3>2. [scan[t].page[p] EXCEPT !.vec = <<scan[t].page[p].doc, model>>] \in Records
      BY <3>1, ReindexedIsRecord
    <3>3. QED
      BY <2>3, <3>2 DEF ReindexProduct
  <2>4. QED
    BY <1>3, <2>1, <2>2, <2>3 DEF Starts
<1>4. ASSUME NEW t \in Tasks, Others(t)
      PROVE  /\ UNCHANGED <<stores, persisted, gone>>
             /\ op' = op \/ op' = [op EXCEPT ![t] = IdleOp]
  BY <1>4 DEF Others, Abandon, AbortReindex, BeginReindex, ListPage, FinishReindex,
              EndReindex, ReindexError, history
<1>5. ASSUME NEW t \in Tasks, Starts(t)
      PROVE  \A u \in Tasks : op'[u].step # 1 =>
               /\ op'[u].kind = op[u].kind /\ op'[u].id = op[u].id
               /\ op'[u].rec = op[u].rec /\ op'[u].step = op[u].step
               /\ op'[u].alone => op[u].alone
  <2>1. PICK p \in Products : \E kind, r : Start(t, kind, p, r)
    BY <1>3, <1>5
  <2>2. PICK kind, r : Start(t, kind, p, r)
    BY <2>1
  <2>3. QED
    BY <2>2, StartFields DEF Started
<1>6. ASSUME NEW t \in Tasks, Others(t)
      PROVE  \A u \in Tasks : op'[u].step # 1 =>
               /\ op'[u].kind = op[u].kind /\ op'[u].id = op[u].id
               /\ op'[u].rec = op[u].rec /\ op'[u].step = op[u].step
               /\ op'[u].alone => op[u].alone
  BY <1>4, <1>6 DEF TypeOK, IdleOp
<1>7. QED
  BY <1>1, <1>2, <1>3, <1>4, <1>5, <1>6 DEF stores

-----------------------------------------------------------------------------
(* No text index holds a document of a product that was not persisted.     *)

\* A call of index() that is past its put_product has persisted its document.
PersistedInv ==
  \A t \in Tasks :
    op[t].kind = "index" /\ op[t].step > 2 => DocOf(op[t].rec) \in persisted[op[t].id]

PhantomInv == NoPhantomText /\ PersistedInv

LEMMA PhantomWrite ==
  ASSUME TypeOK, PhantomInv, NEW t \in Tasks,
         WriteVector(t) \/ WriteStore(t) \/ WriteText(t) \/ WriteMemory(t)
  PROVE  PhantomInv'
<1> DEFINE p == op[t].id
           d == DocOf(op[t].rec)
<1>1. op[t].kind # "idle" /\ Proceed(t)
  BY DEF Writing, WriteVector, WriteStore, WriteText, WriteMemory
<1>2. /\ op[t] \in Ops /\ op[t] # IdleOp
      /\ p \in Products /\ op[t].step \in 1..4
      /\ op[t].kind = "index" \/ (op[t].kind = "delete" /\ op[t].rec = None)
      /\ op[t].rec \in Records \cup {None}
      /\ op[t].kind = "index" => op[t].rec \in Records
  BY <1>1, BusyShape
<1>3. d \in Docs \cup {None} /\ (op[t].rec = None => d = None)
  BY <1>2, Fields DEF DocOf
<1>4. persisted' \in [Products -> SUBSET Docs] /\ \A q \in Products : persisted[q] \subseteq persisted'[q]
  <2>1. CASE WriteStore(t)
    <3>1. persisted' = [persisted EXCEPT ![p] = @ \cup ({d} \ {None})]
      BY <2>1 DEF WriteStore
    <3>2. QED
      BY <1>2, <1>3, <3>1 DEF TypeOK
  <2>2. CASE WriteVector(t) \/ WriteText(t) \/ WriteMemory(t)
    BY <2>2 DEF TypeOK, WriteVector, WriteText, WriteMemory
  <2>3. QED
    BY <2>1, <2>2
<1>5. PersistedInv'
  <2>1. ASSUME NEW u \in Tasks, op'[u].kind = "index", op'[u].step > 2
        PROVE  DocOf(op'[u].rec) \in persisted'[op'[u].id]
    <3>1. CASE u # t
      <4>1. op'[u] = op[u]
        BY <1>1, <3>1, ProceedFields
      <4>2. op[u].id \in Products
        BY <2>1, <4>1, CallShape, IdleShape DEF TypeOK
      <4>3. QED
        BY <1>4, <2>1, <4>1, <4>2 DEF PhantomInv, PersistedInv
    <3>2. CASE u = t
      <4>1. op[t].step \in 1..3
        BY <1>1, <1>2, <2>1, <3>2, ProceedFields DEF IdleOp
      <4>2. /\ op'[t].rec = op[t].rec /\ op'[t].id = p /\ op[t].kind = "index"
            /\ op[t].step > 1
        BY <1>1, <2>1, <3>2, <4>1, ProceedFields
      <4>3. CASE op[t].step > 2
        BY <1>2, <1>4, <3>2, <4>2, <4>3 DEF PhantomInv, PersistedInv
      <4>4. CASE op[t].step = 2
        <5>1. WriteStore(t)
          BY <1>1, <4>2, <4>4, EffectStep DEF Writing, WriteVector, WriteText, WriteMemory
        <5>2. d \in Docs
          BY <1>2, <4>2, Fields DEF Records, DocOf
        <5>3. d # None
          BY <5>2
        <5>4. QED
          BY <1>2, <3>2, <4>2, <5>1, <5>2, <5>3 DEF WriteStore, TypeOK
      <4>5. QED
        BY <4>1, <4>2, <4>3, <4>4
    <3>3. QED
      BY <3>1, <3>2
  <2>2. QED
    BY <2>1 DEF PersistedInv
<1>6. (Effect(t) = "text" \/ Effect(t) = "memory") => d \in persisted[p] \cup {None}
  BY <1>1, <1>2, <1>3, EffectStep DEF PhantomInv, PersistedInv
<1>7. NoPhantomText'
  <2>1. ASSUME NEW q \in Products
        PROVE  {text'[q], autocomplete'[q]} \ {None} \subseteq persisted'[q]
    BY <1>2, <1>4, <1>6
       DEF PhantomInv, NoPhantomText, TypeOK, Writing, WriteVector, WriteStore, WriteText, WriteMemory
  <2>2. ASSUME NEW e \in lexicon'
        PROVE  \E q \in Products : e \in persisted'[q]
    BY <1>2, <1>4, <1>6
       DEF PhantomInv, NoPhantomText, TypeOK, Writing, WriteVector, WriteStore, WriteText, WriteMemory
  <2>3. QED
    BY <2>1, <2>2 DEF NoPhantomText
<1>8. QED
  BY <1>5, <1>7 DEF PhantomInv

LEMMA PhantomQuiet ==
  ASSUME TypeOK, PhantomInv,
         (\E t \in Tasks : Starts(t) \/ Others(t)) \/ Restart \/ UNCHANGED vars
  PROVE  PhantomInv'
<1>1. PersistedInv'
  BY QuietStep DEF PhantomInv, PersistedInv
<1>2. NoPhantomText'
  <2>1. /\ text' = text /\ persisted' = persisted
        /\ \/ autocomplete' = autocomplete /\ lexicon' = lexicon
           \/ autocomplete' = [p \in Products |-> None] /\ lexicon' = {}
    BY QuietStep
  <2>2. QED
    BY <2>1 DEF PhantomInv, NoPhantomText
<1>3. QED
  BY <1>1, <1>2 DEF PhantomInv

\* BM25 and the spell checker never know a document that put_product did not
\* store first.
THEOREM TextIsPersisted == Spec => []NoPhantomText
<1>1. Init => PhantomInv
  BY DEF Init, PhantomInv, NoPhantomText, PersistedInv, IdleOp
<1>2. TypeOK /\ PhantomInv /\ [Next]_vars => PhantomInv'
  BY PhantomWrite, PhantomQuiet, NextSplits DEF Writes
<1>3. PhantomInv => NoPhantomText
  BY DEF PhantomInv
<1>4. QED
  BY <1>1, <1>2, <1>3, TypeCorrect, PTL DEF Spec

-----------------------------------------------------------------------------
(* A quiet successful call leaves the stores in agreement.                 *)

\* A product in a call is not clean, and a call that is alone is.
AloneInv ==
  \A t \in Tasks : op[t].kind # "idle" =>
    /\ ~ clean[op[t].id]
    /\ op[t].alone => \A u \in Tasks \ {t} : op[u].id # op[t].id

\* What a call that is alone has written so far is still there.
WrittenInv ==
  \A t \in Tasks : op[t].kind # "idle" /\ op[t].alone =>
    /\ \/ op[t].kind = "index" /\ op[t].step \in 2..4
       \/ op[t].kind = "delete" /\ op[t].step \in 3..4
       => vectors[op[t].id] = VecOf(op[t].rec)
    /\ \/ op[t].kind = "index" /\ op[t].step \in 3..4
       \/ op[t].kind = "delete" /\ op[t].step \in 2..4
       => store[op[t].id] = op[t].rec
    /\ op[t].step = 4 => text[op[t].id] = DocOf(op[t].rec)

AgreeInv == AloneInv /\ WrittenInv /\ CleanAgreement

LEMMA AgreeWrite ==
  ASSUME TypeOK, AgreeInv, NEW t \in Tasks, Writes(t)
  PROVE  AgreeInv'
<1> DEFINE p == op[t].id
<1>1. op[t].kind # "idle" /\ Proceed(t)
  BY DEF Writes, Writing, WriteVector, WriteStore, WriteText, WriteMemory
<1>2. /\ p \in Products
      /\ op[t].step \in 1..3 \/ op[t].step = 4
      /\ op[t].kind = "index" \/ op[t].kind = "delete"
      /\ op[t].alone \in BOOLEAN
  BY <1>1, BusyShape
<1>3. /\ \A u \in Tasks \ {t} : op'[u] = op[u]
      /\ op[t].step \in 1..3 =>
              /\ op'[t].kind = op[t].kind /\ op'[t].id = p /\ op'[t].rec = op[t].rec
              /\ op'[t].step = op[t].step + 1 /\ op'[t].alone = op[t].alone
              /\ clean' = clean /\ warm' = warm
      /\ op[t].step = 4 =>
              /\ op'[t] = IdleOp
              /\ clean' = [clean EXCEPT ![p] = op[t].alone]
              /\ warm' = [warm EXCEPT ![p] = op[t].alone]
  BY <1>1, ProceedFields
<1>4. \A q \in Products \ {p} :
        /\ store'[q] = store[q] /\ vectors'[q] = vectors[q]
        /\ text'[q] = text[q] /\ autocomplete'[q] = autocomplete[q]
        /\ clean'[q] = clean[q] /\ warm'[q] = warm[q]
  <2>1. \A q \in Products \ {p} :
          /\ store'[q] = store[q] /\ vectors'[q] = vectors[q]
          /\ text'[q] = text[q] /\ autocomplete'[q] = autocomplete[q]
    BY DEF Writes, WriteVector, WriteStore, WriteText, WriteMemory, TypeOK
  <2>2. \A q \in Products \ {p} : clean'[q] = clean[q] /\ warm'[q] = warm[q]
    BY <1>2, <1>3 DEF TypeOK
  <2>3. QED
    BY <2>1, <2>2
\* What this write did, by what it wrote.
<1>5. /\ Effect(t) = "vector" => /\ vectors'[p] = VecOf(op[t].rec)
                                 /\ store' = store /\ text' = text
      /\ Effect(t) = "store" => /\ store'[p] = op[t].rec
                                /\ vectors' = vectors /\ text' = text
      /\ Effect(t) = "text" => /\ text'[p] = DocOf(op[t].rec)
                               /\ vectors' = vectors /\ store' = store
      /\ Effect(t) = "memory" => /\ autocomplete'[p] = DocOf(op[t].rec)
                                 /\ vectors' = vectors /\ store' = store /\ text' = text
  BY <1>2 DEF Writes, Writing, WriteVector, WriteStore, WriteText, WriteMemory, TypeOK
<1>6. AloneInv'
  <2>1. ASSUME NEW u \in Tasks, op'[u].kind # "idle"
        PROVE  ~ clean'[op'[u].id]
    <3>1. CASE u = t
      BY <1>1, <1>2, <1>3, <2>1, <3>1 DEF AgreeInv, AloneInv, IdleOp
    <3>2. CASE u # t
      <4>1. op'[u] = op[u] /\ op[u].id \in Products /\ ~ clean[op[u].id]
        BY <1>3, <2>1, <3>2, BusyShape DEF AgreeInv, AloneInv
      <4>2. CASE op[u].id = p
        <5>1. ~ op[t].alone
          BY <1>1, <3>2, <4>2 DEF AgreeInv, AloneInv
        <5>2. QED
          BY <1>2, <1>3, <4>1, <4>2, <5>1 DEF TypeOK
      <4>3. CASE op[u].id # p
        BY <1>4, <4>1, <4>3
      <4>4. QED
        BY <4>2, <4>3
    <3>3. QED
      BY <3>1, <3>2
  <2>2. ASSUME NEW u \in Tasks, op'[u].kind # "idle", op'[u].alone, NEW w \in Tasks \ {u}
        PROVE  op'[w].id # op'[u].id
    <3>1. /\ op'[u].id = op[u].id /\ op[u].kind # "idle" /\ op[u].alone
      BY <1>1, <1>2, <1>3, <2>2 DEF IdleOp
    <3>2. op'[w].id = op[w].id \/ op'[w] = IdleOp
      BY <1>2, <1>3
    <3>3. op[u].id \in Products /\ IdleOp.id \notin Products
      BY <3>1, BusyShape DEF IdleOp, Products
    <3>4. QED
      BY <3>1, <3>2, <3>3 DEF AgreeInv, AloneInv
  <2>3. QED
    BY <2>1, <2>2 DEF AloneInv
<1>7. WrittenInv'
  <2>1. ASSUME NEW u \in Tasks, op'[u].kind # "idle", op'[u].alone, u # t
        PROVE  /\ op'[u] = op[u] /\ op[u].kind # "idle" /\ op[u].alone
               /\ op[u].id \in Products \ {p}
    BY <1>1, <1>3, <2>1, BusyShape DEF AgreeInv, AloneInv
  <2>2. CASE op[t].step = 4
    <3>1. ASSUME NEW u \in Tasks, op'[u].kind # "idle"
          PROVE  u # t
      BY <1>3, <2>2, <3>1 DEF IdleOp
    <3>2. QED
      BY <1>4, <2>1, <3>1 DEF AgreeInv, WrittenInv
  <2>3. CASE op[t].step \in 1..3
    <3>1. op[t].step = 1 \/ op[t].step = 2 \/ op[t].step = 3
      BY <2>3
    <3>2. op[t].alone =>
            /\ \/ op[t].kind = "index" /\ op[t].step \in 1..3
               \/ op[t].kind = "delete" /\ op[t].step \in 2..3
               => vectors'[p] = VecOf(op[t].rec)
            /\ \/ op[t].kind = "index" /\ op[t].step \in 2..3
               \/ op[t].kind = "delete" /\ op[t].step \in 1..3
               => store'[p] = op[t].rec
            /\ op[t].step = 3 => text'[p] = DocOf(op[t].rec)
      BY <1>1, <1>2, <1>5, <3>1, EffectStep DEF AgreeInv, WrittenInv
    <3>3. QED
      BY <1>2, <1>3, <1>4, <2>1, <3>1, <3>2 DEF AgreeInv, WrittenInv
  <2>4. QED
    BY <1>2, <2>2, <2>3
<1>8. CleanAgreement'
  <2>1. ASSUME clean'[p]
        PROVE  /\ vectors'[p] = VecOf(store'[p]) /\ text'[p] = DocOf(store'[p])
               /\ autocomplete'[p] = DocOf(store'[p])
    <3>1. op[t].step = 4 /\ op[t].alone
      BY <1>1, <1>2, <1>3, <2>1 DEF AgreeInv, AloneInv, TypeOK
    <3>2. Effect(t) = "memory"
      BY <1>1, <1>2, <3>1, EffectStep
    <3>3. /\ vectors[p] = VecOf(op[t].rec) /\ store[p] = op[t].rec
          /\ text[p] = DocOf(op[t].rec)
      BY <1>1, <1>2, <3>1 DEF AgreeInv, WrittenInv
    <3>4. QED
      BY <1>5, <3>2, <3>3
  <2>2. QED
    BY <1>4, <2>1 DEF AgreeInv, CleanAgreement
<1>9. QED
  BY <1>6, <1>7, <1>8 DEF AgreeInv

\* What every start of a call does, whoever makes it.
LEMMA StartEffects ==
  ASSUME TypeOK, NEW t \in Tasks, Starts(t)
  PROVE  /\ UNCHANGED <<store, vectors, text, autocomplete>>
         /\ \E p \in Products : Started(t, p)
<1>1. PICK p \in Products : \E kind, r : Start(t, kind, p, r)
  BY DEF Starts, BeginDelete, BeginIndex, ReindexProduct
<1>2. PICK kind, r : Start(t, kind, p, r)
  BY <1>1
<1>3. Started(t, p)
  BY <1>2, StartFields
<1>4. UNCHANGED <<store, vectors, text, autocomplete>>
  BY DEF Starts, BeginDelete, BeginIndex, ReindexProduct, stores
<1>5. QED
  BY <1>3, <1>4

LEMMA AgreeStart ==
  ASSUME TypeOK, AgreeInv, NEW t \in Tasks, Starts(t)
  PROVE  AgreeInv'
<1>2. PICK p \in Products : Started(t, p)
  BY StartEffects
<1>3. /\ op'[t].id = p /\ op'[t].step = 1
      /\ op'[t].alone => \A w \in Tasks : op[w].id # p
      /\ \A u \in Tasks \ {t} :
           /\ op'[u].kind = op[u].kind /\ op'[u].id = op[u].id
           /\ op'[u].rec = op[u].rec /\ op'[u].step = op[u].step
           /\ op'[u].alone => op[u].alone /\ op[u].id # p
      /\ clean' = [clean EXCEPT ![p] = FALSE] /\ warm' = [warm EXCEPT ![p] = FALSE]
  BY <1>2 DEF Started
<1>4. UNCHANGED <<store, vectors, text, autocomplete>>
  BY StartEffects
<1>5. AloneInv'
  <2>1. ASSUME NEW u \in Tasks, op'[u].kind # "idle"
        PROVE  ~ clean'[op'[u].id]
    <3>1. CASE u = t
      BY <1>3, <3>1 DEF TypeOK
    <3>2. CASE u # t
      <4>1. op[u].id \in Products /\ ~ clean[op[u].id] /\ op'[u].id = op[u].id
        BY <1>3, <2>1, <3>2, BusyShape DEF AgreeInv, AloneInv
      <4>2. QED
        BY <1>3, <4>1 DEF TypeOK
    <3>3. QED
      BY <3>1, <3>2
  <2>2. ASSUME NEW u \in Tasks, op'[u].kind # "idle", op'[u].alone, NEW w \in Tasks \ {u}
        PROVE  op'[w].id # op'[u].id
    <3>1. CASE u = t
      BY <1>3, <2>2, <3>1
    <3>2. CASE u # t
      BY <1>3, <2>2, <3>2 DEF AgreeInv, AloneInv
    <3>3. QED
      BY <3>1, <3>2
  <2>3. QED
    BY <2>1, <2>2 DEF AloneInv
<1>6. WrittenInv'
  <2>1. ASSUME NEW u \in Tasks, op'[u].kind # "idle", op'[u].alone
        PROVE  /\ \/ op'[u].kind = "index" /\ op'[u].step \in 2..4
                  \/ op'[u].kind = "delete" /\ op'[u].step \in 3..4
                  => vectors[op'[u].id] = VecOf(op'[u].rec)
               /\ \/ op'[u].kind = "index" /\ op'[u].step \in 3..4
                  \/ op'[u].kind = "delete" /\ op'[u].step \in 2..4
                  => store[op'[u].id] = op'[u].rec
               /\ op'[u].step = 4 => text[op'[u].id] = DocOf(op'[u].rec)
    <3>1. CASE u = t
      BY <1>3, <3>1
    <3>2. CASE u # t
      BY <1>3, <2>1, <3>2 DEF AgreeInv, WrittenInv
    <3>3. QED
      BY <3>1, <3>2
  <2>2. QED
    BY <1>4, <2>1 DEF WrittenInv
<1>7. CleanAgreement'
  BY <1>3, <1>4 DEF AgreeInv, CleanAgreement, TypeOK
<1>8. QED
  BY <1>5, <1>6, <1>7 DEF AgreeInv

LEMMA AgreeOther ==
  ASSUME TypeOK, AgreeInv,
         (\E t \in Tasks : Others(t)) \/ Restart \/ UNCHANGED vars
  PROVE  AgreeInv'
<1>1. CASE Restart
  <2>1. \A u \in Tasks : op'[u].kind = "idle"
    BY <1>1 DEF Restart, IdleOp
  <2>2. AloneInv' /\ WrittenInv'
    BY <2>1 DEF AloneInv, WrittenInv
  <2>3. CleanAgreement'
    BY <1>1 DEF Restart, AgreeInv, CleanAgreement
  <2>4. QED
    BY <2>2, <2>3 DEF AgreeInv
<1>2. ASSUME NEW t \in Tasks, Others(t)
      PROVE  AgreeInv'
  <2>1. UNCHANGED <<store, vectors, text, autocomplete, clean, warm>>
    BY <1>2 DEF Others, Abandon, AbortReindex, BeginReindex, ListPage, FinishReindex,
                EndReindex, ReindexError, stores, history
  <2>2. op' = op \/ op' = [op EXCEPT ![t] = IdleOp]
    BY <1>2 DEF Others, Abandon, AbortReindex, BeginReindex, ListPage, FinishReindex,
                EndReindex, ReindexError
  <2>3. \A u \in Tasks : op'[u] = op[u] \/ op'[u] = IdleOp
    BY <2>2 DEF TypeOK
  <2>4. IdleOp.kind = "idle" /\ IdleOp.id \notin Products
    BY DEF IdleOp, Products
  <2>5. AloneInv'
    <3>1. ASSUME NEW u \in Tasks, op'[u].kind # "idle"
          PROVE  /\ ~ clean'[op'[u].id]
                 /\ op'[u].alone => \A w \in Tasks \ {u} : op'[w].id # op'[u].id
      <4>1. op'[u] = op[u] /\ op[u].id \in Products
        BY <2>3, <2>4, <3>1, BusyShape
      <4>2. QED
        BY <2>1, <2>3, <2>4, <3>1, <4>1 DEF AgreeInv, AloneInv
    <3>2. QED
      BY <3>1 DEF AloneInv
  <2>6. WrittenInv'
    BY <2>1, <2>3, <2>4 DEF AgreeInv, WrittenInv
  <2>7. CleanAgreement'
    BY <2>1 DEF AgreeInv, CleanAgreement
  <2>8. QED
    BY <2>5, <2>6, <2>7 DEF AgreeInv
<1>3. CASE UNCHANGED vars
  <2>1. UNCHANGED <<store, vectors, text, autocomplete, op, clean, warm>>
    BY <1>3 DEF vars, stores, history
  <2>2. QED
    BY <2>1 DEF AgreeInv, AloneInv, WrittenInv, CleanAgreement
<1>4. QED
  BY <1>1, <1>2, <1>3

\* After a call that ran alone and succeeded, the product table, the vector
\* index, the text index and (in the same process) autocomplete agree on its
\* product, whatever failed, raced or was cut short before.
THEOREM QuietCallRepairs == Spec => []CleanAgreement
<1>1. Init => AgreeInv
  <2>1. Init => \A t \in Tasks : op[t].kind = "idle"
    BY DEF Init, IdleOp
  <2>2. Init => CleanAgreement
    BY DEF Init, CleanAgreement, VecOf, DocOf
  <2>3. QED
    BY <2>1, <2>2 DEF AgreeInv, AloneInv, WrittenInv
<1>2. TypeOK /\ AgreeInv /\ [Next]_vars => AgreeInv'
  BY AgreeWrite, AgreeStart, AgreeOther, NextSplits
<1>3. AgreeInv => CleanAgreement
  BY DEF AgreeInv
<1>4. QED
  BY <1>1, <1>2, <1>3, TypeCorrect, PTL DEF Spec

-----------------------------------------------------------------------------
(* The stamp of a stored record is the model of its vector.                *)

Stamped(r) == r.vec[2] \in {Client, r.model}

\* So it is for the record of a call of index() in progress.
StampInv ==
  /\ ModelStampTrue
  /\ \A t \in Tasks : op[t].kind = "index" => Stamped(op[t].rec)

\* index() stamps the model it embeds with.
LEMMA StampIsTrue ==
  ASSUME NEW d \in Docs, NEW m \in Models
  PROVE  Stamped(Stamp(d, m))
  BY DEF Stamp, Stamped

\* A reindex keeps the stamp, which index() has compared with the model.
LEMMA ReindexedIsTrue ==
  ASSUME NEW r \in Records, Accepts(r)
  PROVE  Stamped([r EXCEPT !.vec = <<r.doc, model>>])
  BY DEF Stamped, Accepts, Records

\* The start of a call puts its record there and leaves the other records.
LEMMA StartRecords ==
  ASSUME TypeOK, NEW t \in Tasks, NEW kind, NEW p \in Products, NEW r,
         Start(t, kind, p, r)
  PROVE  /\ op'[t].kind = kind /\ op'[t].rec = r /\ op'[t].id = p /\ op'[t].step = 1
         /\ \A u \in Tasks \ {t} : op'[u].kind = op[u].kind /\ op'[u].rec = op[u].rec
<1>1. op'[t] = [kind |-> kind, id |-> p, rec |-> r, step |-> 1, alone |-> NobodyOn(p)]
  BY DEF Start
<1>2. \A u \in Tasks \ {t} : op'[u].kind = op[u].kind /\ op'[u].rec = op[u].rec
  BY StartFields DEF Started
<1>3. QED
  BY <1>1, <1>2

LEMMA StampStart ==
  ASSUME TypeOK, StampInv, NEW t \in Tasks, Starts(t)
  PROVE  \A u \in Tasks : op'[u].kind = "index" => Stamped(op'[u].rec)
<1>1. ASSUME NEW p \in Products, NEW kind, NEW r, Start(t, kind, p, r),
             kind = "index" => Stamped(r)
      PROVE  \A u \in Tasks : op'[u].kind = "index" => Stamped(op'[u].rec)
  BY <1>1, StartRecords DEF StampInv
<1>2. ASSUME NEW p \in Products, BeginDelete(t, p)
      PROVE  Start(t, "delete", p, None)
  BY <1>2 DEF BeginDelete
<1>3. ASSUME NEW p \in Products, NEW d \in Docs, BeginIndex(t, p, d)
      PROVE  Start(t, "index", p, Stamp(d, model)) /\ Stamped(Stamp(d, model))
  BY <1>3, StampIsTrue DEF BeginIndex, TypeOK
<1>4. ASSUME NEW p \in Products, ReindexProduct(t, p)
      PROVE  \E r : Start(t, "index", p, r) /\ Stamped(r)
  <2> DEFINE r == scan[t].page[p]
  <2>1. r \in Records
    BY <1>4 DEF ReindexProduct, TakeFromPage, Pending, TypeOK, Scans, Pages
  <2>2. Accepts(r) /\ Start(t, "index", p, [r EXCEPT !.vec = <<r.doc, model>>])
    BY <1>4 DEF ReindexProduct
  <2>3. QED
    BY <2>1, <2>2, ReindexedIsTrue
<1>5. QED
  BY <1>1, <1>2, <1>3, <1>4 DEF Starts

LEMMA StampWrite ==
  ASSUME TypeOK, StampInv, NEW t \in Tasks, Writes(t)
  PROVE  StampInv'
<1>1. op[t].kind # "idle" /\ Proceed(t)
  BY DEF Writes, Writing, WriteVector, WriteStore, WriteText, WriteMemory
<1>2. \A u \in Tasks : op'[u].kind = "index" => op[u].kind = "index" /\ op'[u].rec = op[u].rec
  BY <1>1, BusyShape, ProceedFields DEF IdleOp
<1>3. op[t].id \in Products /\ (op[t].rec # None => op[t].kind = "index")
  BY <1>1, BusyShape
<1>4. store' = store \/ store' = [store EXCEPT ![op[t].id] = op[t].rec]
  BY DEF Writes, WriteVector, WriteStore, WriteText, WriteMemory
<1>5. ModelStampTrue'
  BY <1>3, <1>4 DEF StampInv, ModelStampTrue, Stamped, TypeOK
<1>6. QED
  BY <1>2, <1>5 DEF StampInv

LEMMA StampQuiet ==
  ASSUME TypeOK, StampInv,
         (\E t \in Tasks : Starts(t) \/ Others(t)) \/ Restart \/ UNCHANGED vars
  PROVE  StampInv'
<1>1. ModelStampTrue'
  BY QuietStep DEF StampInv, ModelStampTrue
<1>2. ASSUME NEW t \in Tasks, Others(t)
      PROVE  \A u \in Tasks : op'[u] = op[u] \/ op'[u] = IdleOp
  BY <1>2 DEF Others, Abandon, AbortReindex, BeginReindex, ListPage, FinishReindex,
              EndReindex, ReindexError, TypeOK
<1>3. \A u \in Tasks : op'[u].kind = "index" => Stamped(op'[u].rec)
  <2>1. CASE \E t \in Tasks : Starts(t)
    BY <2>1, StampStart
  <2>2. CASE \E t \in Tasks : Others(t)
    BY <1>2, <2>2 DEF StampInv, IdleOp
  <2>3. CASE Restart
    BY <2>3 DEF Restart, IdleOp
  <2>4. CASE UNCHANGED vars
    BY <2>4 DEF vars, StampInv
  <2>5. QED
    BY <2>1, <2>2, <2>3, <2>4
<1>4. QED
  BY <1>1, <1>3 DEF StampInv

\* The model_id of a stored product names the model of its vector, over restarts
\* with other models and reindexes under them.
THEOREM StampsAreTrue == Spec => []ModelStampTrue
<1>1. Init => StampInv
  BY DEF Init, StampInv, ModelStampTrue, IdleOp
<1>2. TypeOK /\ StampInv /\ [Next]_vars => StampInv'
  BY StampWrite, StampQuiet, NextSplits
<1>3. StampInv => ModelStampTrue
  BY DEF StampInv
<1>4. QED
  BY <1>1, <1>2, <1>3, TypeCorrect, PTL DEF Spec

-----------------------------------------------------------------------------
(* What a reindex carries: a page entry not yet taken, or the call of      *)
(* index() for it before its put_product.                                  *)

\* A task without a scan has the scan it began with; one with a scan deletes
\* nothing.
ScanInv ==
  \A t \in Tasks :
    /\ ~ scan[t].on => scan[t] = IdleScan /\ owed[t] = {}
    /\ scan[t].on => op[t].kind # "delete"

Carries(t, p) ==
  \/ scan[t].page[p] # None
  \/ op[t].kind = "index" /\ op[t].id = p /\ op[t].step \in 1..2

\* What a reindex carries has not been deleted since it was listed, unless
\* somebody else wrote it.
CarryInv ==
  \A t \in Tasks, p \in Products :
    scan[t].on /\ Carries(t, p) /\ p \notin moved[t] => ~ gone[p]

GoneInv == ScanInv /\ CarryInv /\ NoResurrection

LEMMA ScanTypes ==
  ASSUME TypeOK, NEW t \in Tasks
  PROVE  /\ scan[t] \in Scans /\ scan[t].on \in BOOLEAN /\ scan[t].cursor \in 0..N
         /\ scan[t].last \in BOOLEAN
         /\ \A p \in Products : scan[t].page[p] \in Records \cup {None}
         /\ moved[t] \subseteq Products /\ owed[t] \subseteq Products
  BY DEF TypeOK, Scans, Pages

LEMMA IdleScanIs ==
  /\ IdleScan.on = FALSE /\ IdleScan.cursor = 0 /\ IdleScan.last = FALSE
  /\ \A p \in Products : IdleScan.page[p] = None
  BY DEF IdleScan

\* What a write does to the scans.
LEMMA WriteScans ==
  ASSUME TypeOK, NEW t \in Tasks, Writes(t)
  PROVE  /\ scan' = scan
         /\ op[t].kind # "idle" /\ Proceed(t) /\ op[t].id \in Products
         /\ \A u \in Tasks \ {t} :
              /\ scan[u].on => moved'[u] = moved[u] \/ moved'[u] = moved[u] \cup {op[t].id}
              /\ owed'[u] \subseteq owed[u]
              /\ Effect(t) = "store" =>
                   /\ scan[u].on => op[t].id \in moved'[u]
                   /\ op[t].id \notin owed'[u]
         /\ moved'[t] = moved[t] /\ owed'[t] = owed[t]
         /\ Effect(t) = "store" => store' = [store EXCEPT ![op[t].id] = op[t].rec]
         /\ Effect(t) # "store" => store' = store
         /\ MarkGone(t, Effect(t))
<1>1. op[t].kind # "idle" /\ Proceed(t) /\ scan' = scan /\ MarkGone(t, Effect(t))
  BY DEF Writes, Writing, WriteVector, WriteStore, WriteText, WriteMemory
<1>2. op[t].id \in Products
  BY <1>1, BusyShape
<1>3. CASE WriteStore(t)
  <2>1. /\ Effect(t) = "store"
        /\ store' = [store EXCEPT ![op[t].id] = op[t].rec]
        /\ moved' = [u \in Tasks |-> IF u # t /\ scan[u].on THEN moved[u] \cup {op[t].id} ELSE moved[u]]
        /\ owed'  = [u \in Tasks |-> IF u # t THEN owed[u] \ {op[t].id} ELSE owed[u]]
    BY <1>3 DEF WriteStore, Writing
  <2>2. QED
    BY <1>1, <1>2, <2>1
<1>4. CASE WriteVector(t) \/ WriteText(t) \/ WriteMemory(t)
  <2>1. UNCHANGED <<store, moved, owed>> /\ Effect(t) # "store"
    BY <1>4 DEF Writing, WriteVector, WriteText, WriteMemory
  <2>2. QED
    BY <1>1, <1>2, <2>1
<1>5. QED
  BY <1>3, <1>4 DEF Writes

\* What the start of a call does to the scans.
LEMMA StartScans ==
  ASSUME TypeOK, NEW t \in Tasks, Starts(t)
  PROVE  /\ \A u \in Tasks \ {t} :
              /\ scan'[u] = scan[u] /\ owed'[u] = owed[u]
              /\ op'[u].kind = op[u].kind /\ op'[u].id = op[u].id /\ op'[u].step = op[u].step
         /\ moved' = moved
         /\ \/ Free(t) /\ scan'[t] = scan[t] /\ owed'[t] = owed[t]
            \/ \E p \in Products :
                 /\ TakeFromPage(t, p)
                 /\ op'[t].kind = "index" /\ op'[t].id = p /\ op'[t].step = 1
<1>1. ASSUME NEW p \in Products, NEW kind, NEW r, Start(t, kind, p, r)
      PROVE  /\ \A u \in Tasks \ {t} :
                  op'[u].kind = op[u].kind /\ op'[u].id = op[u].id /\ op'[u].step = op[u].step
             /\ op'[t].kind = kind /\ op'[t].id = p /\ op'[t].step = 1
  <2>1. Started(t, p)
    BY <1>1, StartFields
  <2>2. op'[t].kind = kind
    BY <1>1, StartRecords
  <2>3. QED
    BY <2>1, <2>2 DEF Started
<1>2. ASSUME NEW p \in Products, BeginDelete(t, p) \/ \E d \in Docs : BeginIndex(t, p, d)
      PROVE  /\ UNCHANGED <<scan, owed, moved>> /\ Free(t)
             /\ \E kind, r : Start(t, kind, p, r)
  BY <1>2 DEF BeginDelete, BeginIndex
<1>3. ASSUME NEW p \in Products, ReindexProduct(t, p)
      PROVE  /\ TakeFromPage(t, p) /\ UNCHANGED moved
             /\ \E r : Start(t, "index", p, r)
  BY <1>3 DEF ReindexProduct
<1>4. ASSUME NEW p \in Products, TakeFromPage(t, p)
      PROVE  \A u \in Tasks \ {t} : scan'[u] = scan[u] /\ owed'[u] = owed[u]
  BY <1>4 DEF TakeFromPage, TypeOK
<1>5. QED
  BY <1>1, <1>2, <1>3, <1>4 DEF Starts

\* Taking a product from the page.
LEMMA TakenFromPage ==
  ASSUME TypeOK, NEW t \in Tasks, NEW p \in Products, TakeFromPage(t, p)
  PROVE  /\ scan[t].on /\ op[t].kind = "idle" /\ scan[t].page[p] # None
         /\ scan'[t].on /\ scan'[t].cursor = scan[t].cursor /\ scan'[t].last = scan[t].last
         /\ scan'[t].page[p] = None
         /\ \A q \in Products \ {p} : scan'[t].page[q] = scan[t].page[q]
         /\ owed'[t] = owed[t] \ {p}
         /\ \A u \in Tasks \ {t} : scan'[u] = scan[u] /\ owed'[u] = owed[u]
<1>1. /\ scan' = [scan EXCEPT ![t].page[p] = None]
      /\ owed' = [owed EXCEPT ![t] = @ \ {p}]
      /\ scan[t].on /\ op[t].kind = "idle" /\ scan[t].page[p] # None
  BY DEF TakeFromPage, Between, Pending
<1>2. scan \in [Tasks -> Scans] /\ owed \in [Tasks -> SUBSET Products]
  BY DEF TypeOK
<1>3. scan'[t] = [scan[t] EXCEPT !.page[p] = None]
  BY <1>1, <1>2
<1>4. scan[t] \in Scans
  BY <1>2
<1>5. QED
  BY <1>1, <1>2, <1>3, <1>4 DEF Scans, Pages

\* What the other steps of a task do: they list a page, take a product from it
\* without a call, begin or end a scan, or drop a call.
LEMMA OtherScans ==
  ASSUME TypeOK, NEW t \in Tasks, Others(t)
  PROVE  /\ \A u \in Tasks \ {t} :
              scan'[u] = scan[u] /\ owed'[u] = owed[u] /\ moved'[u] = moved[u] /\ op'[u] = op[u]
         /\ op'[t] = op[t] \/ op'[t] = IdleOp
         /\ store' = store /\ gone' = gone
         /\ \/ scan'[t] = scan[t] /\ owed'[t] = owed[t] /\ moved'[t] = moved[t]
            \/ /\ Free(t)
               /\ scan'[t] = [scan[t] EXCEPT !.on = TRUE] /\ owed'[t] = Live
               /\ op'[t] = op[t] /\ moved'[t] = moved[t]
            \/ ListPage(t) /\ op'[t] = op[t]
            \/ scan'[t] = IdleScan /\ owed'[t] = {} /\ moved'[t] = {}
            \/ \E p \in Products :
                 TakeFromPage(t, p) /\ op'[t] = op[t] /\ moved'[t] = moved[t]
<1> USE DEF TypeOK
<1>1. CASE Abandon(t)
  BY <1>1 DEF Abandon, stores, history
<1>2. CASE BeginReindex(t)
  <2>1. UNCHANGED <<op, moved, store, gone>> /\ Free(t)
    BY <1>2 DEF BeginReindex, stores
  <2>2. scan' = [scan EXCEPT ![t].on = TRUE] /\ owed' = [owed EXCEPT ![t] = Live]
    BY <1>2 DEF BeginReindex
  <2>3. QED
    BY <2>1, <2>2
<1>3. CASE ListPage(t)
  <2>1. UNCHANGED <<op, owed, store, gone>>
    BY <1>3 DEF ListPage, stores
  <2>2. \A u \in Tasks \ {t} : scan'[u] = scan[u] /\ moved'[u] = moved[u]
    BY <1>3 DEF ListPage
  <2>3. QED
    BY <1>3, <2>1, <2>2
<1>4. CASE FinishReindex(t) \/ AbortReindex(t)
  BY <1>4 DEF FinishReindex, AbortReindex, EndReindex, stores
<1>5. ASSUME NEW p \in Products, ReindexError(t, p)
      PROVE  /\ TakeFromPage(t, p) /\ UNCHANGED <<op, moved, store, gone>>
             /\ \A u \in Tasks \ {t} : scan'[u] = scan[u] /\ owed'[u] = owed[u]
  BY <1>5, TakenFromPage DEF ReindexError, stores
<1>6. QED
  BY <1>1, <1>2, <1>3, <1>4, <1>5 DEF Others

\* The page that is listed has the rows of the table after the cursor.
LEMMA ListedPage ==
  ASSUME TypeOK, NEW t \in Tasks, ListPage(t)
  PROVE  LET sel == Selected(scan[t].cursor) IN
         /\ scan[t].on /\ op[t].kind = "idle" /\ \A p \in Products : scan[t].page[p] = None
         /\ ~ scan[t].last
         /\ scan'[t].on /\ scan'[t].cursor \in NextCursor(scan[t].cursor, sel)
         /\ \A p \in Products : scan'[t].page[p] = IF p \in sel THEN store[p] ELSE None
         /\ scan'[t].last = (Cardinality(sel) < Batch)
         /\ moved'[t] = {} /\ owed'[t] = owed[t]
<1> DEFINE sel == Selected(scan[t].cursor)
           pg  == [p \in Products |-> IF p \in sel THEN store[p] ELSE None]
<1>1. PICK next \in NextCursor(scan[t].cursor, sel) :
        scan' = [scan EXCEPT ![t] =
          [on |-> TRUE, cursor |-> next, page |-> pg, last |-> Cardinality(sel) < Batch]]
  BY DEF ListPage
<1>2. scan'[t] = [on |-> TRUE, cursor |-> next, page |-> pg, last |-> Cardinality(sel) < Batch]
  BY <1>1 DEF TypeOK
<1>3. moved'[t] = {} /\ owed'[t] = owed[t]
  BY DEF ListPage, TypeOK
<1>4. scan[t].on /\ op[t].kind = "idle" /\ ~ scan[t].last /\ \A p \in Products : scan[t].page[p] = None
  BY DEF ListPage, Between, Pending
<1>5. QED
  BY <1>2, <1>3, <1>4

LEMMA ScanStep ==
  ASSUME TypeOK, ScanInv, [Next]_vars
  PROVE  ScanInv'
<1>1. ASSUME NEW t \in Tasks, Writes(t)
      PROVE  ScanInv'
  <2>1. op'[t].kind \in {op[t].kind, "idle"} /\ \A u \in Tasks \ {t} : op'[u] = op[u]
    BY <1>1, WriteScans, BusyShape, ProceedFields DEF IdleOp
  <2>2. scan' = scan /\ \A u \in Tasks : owed'[u] \subseteq owed[u]
    BY <1>1, WriteScans
  <2>3. QED
    BY <2>1, <2>2 DEF ScanInv
<1>2. ASSUME NEW t \in Tasks, Starts(t)
      PROVE  ScanInv'
  <2>1. CASE Free(t) /\ scan'[t] = scan[t] /\ owed'[t] = owed[t]
    BY <1>2, <2>1, StartScans DEF ScanInv, Free
  <2>2. CASE \E p \in Products : TakeFromPage(t, p) /\ op'[t].kind = "index"
    BY <1>2, <2>2, StartScans, TakenFromPage DEF ScanInv
  <2>3. QED
    BY <1>2, <2>1, <2>2, StartScans
<1>3. ASSUME NEW t \in Tasks, Others(t)
      PROVE  ScanInv'
  <2>1. \A u \in Tasks \ {t} : scan'[u] = scan[u] /\ owed'[u] = owed[u] /\ op'[u] = op[u]
    BY <1>3, OtherScans
  <2>2. (~ scan'[t].on => scan'[t] = IdleScan /\ owed'[t] = {}) /\ (scan'[t].on => op'[t].kind # "delete")
    <3>1. CASE scan'[t] = scan[t] /\ owed'[t] = owed[t]
      <4>1. op'[t] = op[t] \/ op'[t] = IdleOp
        BY <1>3, OtherScans
      <4>2. IdleOp.kind # "delete"
        BY DEF IdleOp
      <4>3. QED
        BY <3>1, <4>1, <4>2 DEF ScanInv
    <3>2. CASE Free(t) /\ scan'[t] = [scan[t] EXCEPT !.on = TRUE] /\ op'[t] = op[t]
      BY <3>2, ScanTypes DEF Free, Scans
    <3>3. CASE ListPage(t) /\ op'[t] = op[t]
      BY <3>3, ListedPage
    <3>4. CASE scan'[t] = IdleScan /\ owed'[t] = {}
      BY <3>4, IdleScanIs
    <3>5. CASE \E p \in Products : TakeFromPage(t, p) /\ op'[t] = op[t]
      BY <3>5, TakenFromPage
    <3>6. QED
      BY <1>3, <3>1, <3>2, <3>3, <3>4, <3>5, OtherScans
  <2>3. QED
    BY <2>1, <2>2 DEF ScanInv
<1>4. CASE Restart
  <2>1. \A u \in Tasks : op'[u].kind = "idle"
    BY <1>4 DEF Restart, IdleOp
  <2>2. \A u \in Tasks : ~ scan'[u].on => scan'[u] = IdleScan /\ owed'[u] = {}
    BY <1>4 DEF Restart, IdleScan
  <2>3. QED
    BY <2>1, <2>2 DEF ScanInv
<1>5. CASE UNCHANGED vars
  BY <1>5 DEF vars, ScanInv, history
<1>6. QED
  BY <1>1, <1>2, <1>3, <1>4, <1>5, NextSplits

LEMMA ScanInit == Init => ScanInv
  BY DEF Init, ScanInv, IdleOp, IdleScan

LEMMA GoneWrite ==
  ASSUME TypeOK, GoneInv, NEW t \in Tasks, Writes(t)
  PROVE  CarryInv' /\ NoResurrection'
<1> DEFINE p == op[t].id
<1>1. /\ scan' = scan /\ op[t].kind # "idle" /\ Proceed(t) /\ p \in Products
      /\ moved'[t] = moved[t]
      /\ Effect(t) = "store" => store' = [store EXCEPT ![p] = op[t].rec]
      /\ Effect(t) # "store" => store' = store
      /\ \A u \in Tasks \ {t} :
           /\ scan[u].on => moved[u] \subseteq moved'[u]
           /\ scan[u].on /\ Effect(t) = "store" => p \in moved'[u]
      /\ MarkGone(t, Effect(t))
  BY WriteScans
<1>2. /\ op[t].kind = "index" \/ (op[t].kind = "delete" /\ op[t].rec = None)
      /\ op[t].step \in 1..4
  BY <1>1, BusyShape
<1>3. /\ op[t].kind = "index" => (Effect(t) = "store" <=> op[t].step = 2)
      /\ op[t].kind = "delete" => (Effect(t) = "store" <=> op[t].step = 1)
  BY <1>1, EffectStep
\* The mark is set when the row goes, and goes when the row is written.
<1>4. /\ \A q \in Products \ {p} : gone'[q] = gone[q]
      /\ gone'[p] => gone[p] \/ (op[t].kind = "delete" /\ Effect(t) = "store")
      /\ op[t].kind = "index" /\ Effect(t) = "store" => ~ gone'[p]
  <2>1. gone' = [gone EXCEPT ![p] = (op[t].kind = "delete" /\ op[t].step = 1)
                                      \/ StillGone(t, Effect(t))]
    BY <1>1 DEF MarkGone
  <2>2. /\ \A q \in Products \ {p} : gone'[q] = gone[q]
        /\ gone'[p] = ((op[t].kind = "delete" /\ op[t].step = 1) \/ StillGone(t, Effect(t)))
    BY <1>1, <2>1 DEF TypeOK
  <2>3. StillGone(t, Effect(t)) => gone[p]
    BY DEF StillGone
  <2>4. ASSUME op[t].kind = "index", Effect(t) = "store"
        PROVE  ~ StillGone(t, Effect(t))
    <3>1. CASE scan[t].on /\ p \notin moved[t]
      <4>1. Carries(t, p)
        BY <1>3, <2>4 DEF Carries
      <4>2. ~ gone[p]
        BY <1>1, <3>1, <4>1 DEF GoneInv, CarryInv
      <4>3. QED
        BY <4>2 DEF StillGone
    <3>2. CASE ~ (scan[t].on /\ p \notin moved[t])
      BY <2>4, <3>2 DEF StillGone
    <3>3. QED
      BY <3>1, <3>2
  <2>5. QED
    BY <1>3, <2>2, <2>3, <2>4
<1>5. NoResurrection'
  <2>1. ASSUME NEW q \in Products, gone'[q]
        PROVE  store'[q] = None
    <3>1. CASE q # p
      BY <1>1, <1>4, <2>1, <3>1 DEF GoneInv, NoResurrection, TypeOK
    <3>2. CASE q = p
      BY <1>1, <1>2, <1>4, <2>1, <3>2 DEF GoneInv, NoResurrection, TypeOK
    <3>3. QED
      BY <3>1, <3>2
  <2>2. QED
    BY <2>1 DEF NoResurrection
<1>6. CarryInv'
  <2>1. ASSUME NEW u \in Tasks, NEW q \in Products,
               scan'[u].on, Carries(u, q)', q \notin moved'[u]
        PROVE  ~ gone'[q]
    <3>1. scan[u].on /\ q \notin moved[u] /\ scan'[u] = scan[u]
      BY <1>1, <2>1
    <3>2. Carries(u, q)
      <4>1. CASE u = t
        <5>1. op'[u].kind = "index" => op[u].step \in 1..3
          BY <1>1, <1>2, <4>1, ProceedFields DEF IdleOp
        <5>2. op[u].step \in 1..3 =>
                op'[u].kind = op[u].kind /\ op'[u].id = op[u].id /\ op'[u].step = op[u].step + 1
          BY <1>1, <4>1, ProceedFields
        <5>3. QED
          BY <2>1, <3>1, <5>1, <5>2 DEF Carries
      <4>2. CASE u # t
        BY <1>1, <2>1, <3>1, <4>2, ProceedFields DEF Carries
      <4>3. QED
        BY <4>1, <4>2
    <3>3. ~ gone[q]
      BY <3>1, <3>2 DEF GoneInv, CarryInv
    <3>4. CASE q = p /\ op[t].kind = "delete" /\ Effect(t) = "store"
      BY <1>1, <2>1, <3>1, <3>4 DEF GoneInv, ScanInv
    <3>5. QED
      BY <1>4, <3>3, <3>4
  <2>2. QED
    BY <2>1 DEF CarryInv
<1>7. QED
  BY <1>5, <1>6

LEMMA GoneQuiet ==
  ASSUME TypeOK, GoneInv,
         (\E t \in Tasks : Starts(t) \/ Others(t)) \/ Restart \/ UNCHANGED vars
  PROVE  CarryInv' /\ NoResurrection'
<1>1. store' = store /\ gone' = gone
  BY QuietStep
<1>2. NoResurrection'
  BY <1>1 DEF GoneInv, NoResurrection
<1>3. ASSUME NEW u \in Tasks, NEW q \in Products,
             scan[u].on, Carries(u, q), q \notin moved[u]
      PROVE  ~ gone[q]
  BY <1>3 DEF GoneInv, CarryInv
<1>4. ASSUME NEW u \in Tasks, NEW q \in Products,
             scan'[u].on, Carries(u, q)', q \notin moved'[u]
      PROVE  ~ gone[q]
  <2>1. ASSUME NEW t \in Tasks, Starts(t)
        PROVE  ~ gone[q]
    <3>1. CASE u # t
      BY <1>3, <1>4, <2>1, <3>1, StartScans DEF Carries
    <3>2. CASE u = t /\ Free(t) /\ scan'[t] = scan[t]
      BY <1>4, <3>2 DEF Free
    <3>3. ASSUME NEW p \in Products, u = t,
                 TakeFromPage(t, p), op'[t].id = p
          PROVE  Carries(u, q) /\ scan[u].on
      BY <1>4, <3>3, TakenFromPage DEF Carries
    <3>4. moved' = moved
      BY <2>1, StartScans
    <3>5. QED
      BY <1>3, <1>4, <2>1, <3>1, <3>2, <3>3, <3>4, StartScans
  <2>2. ASSUME NEW t \in Tasks, Others(t)
        PROVE  ~ gone[q]
    <3>1. CASE u # t
      <4>1. scan'[u] = scan[u] /\ moved'[u] = moved[u] /\ op'[u] = op[u]
        BY <2>2, <3>1, OtherScans
      <4>2. QED
        BY <1>3, <1>4, <4>1 DEF Carries
    <3>2. CASE u = t
      <4>0. op'[t] = op[t] \/ op'[t] = IdleOp
        BY <2>2, OtherScans
      <4>1. CASE scan'[t] = scan[t] /\ moved'[t] = moved[t]
        <5>1. Carries(u, q)
          BY <1>4, <3>2, <4>0, <4>1 DEF Carries, IdleOp
        <5>2. QED
          BY <1>3, <1>4, <3>2, <4>1, <5>1
      <4>2. CASE Free(t) /\ scan'[t] = [scan[t] EXCEPT !.on = TRUE] /\ op'[t] = op[t]
        <5>1. scan[t] = IdleScan /\ op[t].kind = "idle"
          BY <4>2 DEF Free, GoneInv, ScanInv
        <5>2. scan'[t].page[q] = None
          BY <4>2, <5>1, IdleScanIs, ScanTypes DEF Scans
        <5>3. QED
          BY <1>4, <3>2, <4>2, <5>1, <5>2 DEF Carries
      <4>3. CASE ListPage(t) /\ op'[t] = op[t]
        <5>1. q \in Selected(scan[t].cursor)
          BY <1>4, <3>2, <4>3, ListedPage DEF Carries
        <5>2. store[q] # None
          BY <5>1 DEF Selected, Live
        <5>3. QED
          BY <5>2 DEF GoneInv, NoResurrection
      <4>4. CASE scan'[t] = IdleScan
        BY <1>4, <3>2, <4>4, IdleScanIs
      <4>5. ASSUME NEW p \in Products, TakeFromPage(t, p), op'[t] = op[t], moved'[t] = moved[t]
            PROVE  ~ gone[q]
        <5>1. Carries(u, q) /\ scan[u].on
          BY <1>4, <3>2, <4>5, TakenFromPage DEF Carries
        <5>2. QED
          BY <1>3, <1>4, <3>2, <4>5, <5>1
      <4>6. QED
        BY <2>2, <4>1, <4>2, <4>3, <4>4, <4>5, OtherScans
    <3>3. QED
      BY <3>1, <3>2
  <2>3. CASE Restart
    BY <1>4, <2>3 DEF Restart, Carries, IdleOp, IdleScan
  <2>4. CASE UNCHANGED vars
    BY <1>3, <1>4, <2>4 DEF vars, history, Carries
  <2>5. QED
    BY <2>1, <2>2, <2>3, <2>4
<1>5. CarryInv'
  BY <1>1, <1>4 DEF CarryInv
<1>6. QED
  BY <1>2, <1>5

\* A product whose delete has begun to take effect is not in the table, until a
\* client or a reindex that had listed it before puts it there again.
THEOREM DeletedStaysDeleted == Spec => []NoResurrection
<1>1. Init => GoneInv
  <2>1. Init => CarryInv /\ NoResurrection
    BY DEF Init, CarryInv, NoResurrection
  <2>2. QED
    BY <2>1, ScanInit DEF GoneInv
<1>2. TypeOK /\ GoneInv /\ [Next]_vars => GoneInv'
  BY ScanStep, GoneWrite, GoneQuiet, NextSplits DEF GoneInv
<1>3. GoneInv => NoResurrection
  BY DEF GoneInv
<1>4. QED
  BY <1>1, <1>2, <1>3, TypeCorrect, PTL DEF Spec

-----------------------------------------------------------------------------
(* A reindex skips nothing.                                                *)

\* A set of numbers that has a member has a least one.
LEMMA LeastNumber ==
  ASSUME NEW T \in SUBSET Nat, T # {}
  PROVE  \E n \in T : \A m \in T : n <= m
<1> DEFINE R == OpToRel(<, Nat)
<1>1. IsWellFoundedOn(R, Nat)
  BY NatLessThanWellFounded
<1>2. \A x, y \in Nat : <<x, y>> \in R <=> x < y
  BY DEF OpToRel
<1> HIDE DEF R
<1>3. \E n \in T : \A m \in T : ~ (<<m, n>> \in R)
  BY <1>1, WFMin
<1>4. \A n \in T : n \in Nat
  OBVIOUS
<1>5. \A n, m \in T : ~ (m < n) => n <= m
  BY <1>4
<1>6. \A n, m \in T : <<m, n>> \in R <=> m < n
  BY <1>2, <1>4, Zenon
<1>7. QED
  BY <1>3, <1>5, <1>6, Zenon

LEMMA SomeProductsAreFinite ==
  ASSUME NEW S, S \subseteq Products
  PROVE  IsFiniteSet(S) /\ Cardinality(S) \in Nat
<1>1. IsFiniteSet(1..N)
  BY FS_Interval
<1>2. IsFiniteSet(S)
  BY <1>1, FS_Subset DEF Products
<1>3. QED
  BY <1>2, FS_CardinalityType

\* What a page leaves out comes after all that it has.
LEMMA PageIsPrefix ==
  ASSUME NEW c \in 0..N, NEW p \in Live \ Selected(c), p > c, NEW s \in Selected(c)
  PROVE  s < p
<1> DEFINE Before(q) == {x \in Live : c < x /\ x < q}
<1>1. p \in Products /\ s \in Live /\ s \in Products /\ Cardinality(Before(s)) < Batch
  BY DEF Selected, Live
<1>2. ~ (Cardinality(Before(p)) < Batch)
  BY DEF Selected
<1>3. SUFFICES ASSUME ~ (s < p) PROVE FALSE
  OBVIOUS
<1>4. Before(p) \subseteq Before(s)
  BY <1>1, <1>3 DEF Live, Products
<1>5. IsFiniteSet(Before(s)) /\ Cardinality(Before(s)) \in Nat /\ Cardinality(Before(p)) \in Nat
  BY SomeProductsAreFinite DEF Live
<1>6. Cardinality(Before(p)) <= Cardinality(Before(s))
  BY <1>4, <1>5, FS_Subset
<1>7. QED
  BY <1>1, <1>2, <1>5, <1>6

\* A page that is not full has everything after the cursor.
LEMMA ShortPageIsLast ==
  ASSUME NEW c \in 0..N, Cardinality(Selected(c)) < Batch
  PROVE  \A p \in Live : p > c => p \in Selected(c)
<1> DEFINE Before(q) == {x \in Live : c < x /\ x < q}
           Rest == {p \in Live : p > c /\ p \notin Selected(c)}
<1>1. SUFFICES ASSUME Rest # {} PROVE FALSE
  OBVIOUS
<1>2. Rest \in SUBSET Nat
  BY DEF Live, Products
<1>3. PICK p \in Rest : \A m \in Rest : p <= m
  BY <1>1, <1>2, LeastNumber
<1>4. p \in Products /\ p \in Live /\ p > c /\ p \notin Selected(c)
  BY <1>3 DEF Live
<1>5. Before(p) \subseteq Selected(c)
  <2>1. ASSUME NEW x \in Before(p), x \notin Selected(c)
        PROVE  FALSE
    <3>1. x \in Rest
      BY <2>1
    <3>2. p <= x /\ x < p /\ x \in Nat /\ p \in Nat
      BY <1>2, <1>3, <2>1, <3>1
    <3>3. QED
      BY <3>2
  <2>2. QED
    BY <2>1
<1>6. IsFiniteSet(Selected(c)) /\ Cardinality(Selected(c)) \in Nat /\ Cardinality(Before(p)) \in Nat
  <2>1. Selected(c) \subseteq Products /\ Before(p) \subseteq Products
    BY DEF Selected, Live
  <2>2. QED
    BY <2>1, SomeProductsAreFinite
<1>7. Cardinality(Before(p)) <= Cardinality(Selected(c))
  BY <1>5, <1>6, FS_Subset
<1>8. Cardinality(Before(p)) < Batch
  BY <1>6, <1>7
<1>9. p \in Selected(c)
  BY <1>4, <1>8 DEF Selected
<1>10. QED
  BY <1>4, <1>9

\* What a scan still owes is in the table, and either in its page or after its
\* cursor; at the last page in the page.
OwedInv ==
  \A t \in Tasks : scan[t].on => \A p \in owed[t] :
    /\ store[p] # None
    /\ scan[t].page[p] # None \/ (p > scan[t].cursor /\ ~ scan[t].last)

PagingInv == ScanInv /\ OwedInv

LEMMA OwedList ==
  ASSUME TypeOK, PagingInv, NEW t \in Tasks, ListPage(t), NEW p \in owed[t]
  PROVE  scan'[t].page[p] # None \/ (p > scan'[t].cursor /\ ~ scan'[t].last)
<1> DEFINE c   == scan[t].cursor
           sel == Selected(c)
<1>1. /\ scan[t].on /\ \A q \in Products : scan[t].page[q] = None
      /\ scan'[t].cursor \in NextCursor(c, sel)
      /\ \A q \in Products : scan'[t].page[q] = IF q \in sel THEN store[q] ELSE None
      /\ scan'[t].last = (Cardinality(sel) < Batch)
  BY ListedPage
<1>2. p \in Products /\ c \in 0..N
  BY ScanTypes
<1>3. store[p] # None /\ p > c
  BY <1>1, <1>2 DEF PagingInv, OwedInv
<1>4. p \in Live
  BY <1>2, <1>3 DEF Live
<1>5. CASE p \in sel
  BY <1>1, <1>2, <1>3, <1>5
<1>6. CASE p \notin sel
  <2>1. ~ (Cardinality(sel) < Batch)
    BY <1>2, <1>3, <1>4, <1>6, ShortPageIsLast
  <2>2. \A s \in sel : s < p
    BY <1>2, <1>3, <1>4, <1>6, PageIsPrefix
  <2>3. p > scan'[t].cursor
    BY <1>1, <1>3, <2>2 DEF NextCursor
  <2>4. QED
    BY <1>1, <2>1, <2>3
<1>7. QED
  BY <1>5, <1>6

LEMMA OwedWrite ==
  ASSUME TypeOK, PagingInv, NEW t \in Tasks, Writes(t)
  PROVE  OwedInv'
<1>1. /\ scan' = scan /\ op[t].kind # "idle" /\ op[t].id \in Products
      /\ owed'[t] = owed[t]
      /\ Effect(t) = "store" => store' = [store EXCEPT ![op[t].id] = op[t].rec]
      /\ Effect(t) # "store" => store' = store
      /\ \A u \in Tasks \ {t} :
           owed'[u] \subseteq owed[u] /\ (Effect(t) = "store" => op[t].id \notin owed'[u])
  BY WriteScans
<1>2. scan[t].on => op[t].rec # None
  <2>1. scan[t].on => op[t].kind = "index"
    BY <1>1, BusyShape DEF PagingInv, ScanInv
  <2>2. QED
    BY <1>1, <2>1, BusyShape
<1>3. ASSUME NEW u \in Tasks, scan'[u].on, NEW p \in owed'[u]
      PROVE  /\ store'[p] # None
             /\ scan'[u].page[p] # None \/ (p > scan'[u].cursor /\ ~ scan'[u].last)
  <2>1. scan[u].on /\ p \in owed[u] /\ p \in Products
    BY <1>1, <1>3, ScanTypes
  <2>2. /\ store[p] # None
        /\ scan[u].page[p] # None \/ (p > scan[u].cursor /\ ~ scan[u].last)
    BY <2>1 DEF PagingInv, OwedInv
  <2>3. store'[p] # None
    BY <1>1, <1>2, <1>3, <2>1, <2>2 DEF TypeOK
  <2>4. QED
    BY <1>1, <2>2, <2>3
<1>4. QED
  BY <1>3 DEF OwedInv

LEMMA OwedQuiet ==
  ASSUME TypeOK, PagingInv,
         (\E t \in Tasks : Starts(t) \/ Others(t)) \/ Restart \/ UNCHANGED vars
  PROVE  OwedInv'
<1>1. store' = store
  BY QuietStep
<1>2. ASSUME NEW u \in Tasks, scan[u].on, NEW p \in owed[u]
      PROVE  /\ store[p] # None /\ p \in Products
             /\ scan[u].page[p] # None \/ (p > scan[u].cursor /\ ~ scan[u].last)
  BY <1>2, ScanTypes DEF PagingInv, OwedInv
<1>3. ASSUME NEW t \in Tasks, NEW q \in Products, TakeFromPage(t, q), NEW p \in owed'[t]
      PROVE  /\ store[p] # None
             /\ scan'[t].page[p] # None \/ (p > scan'[t].cursor /\ ~ scan'[t].last)
  BY <1>2, <1>3, TakenFromPage
<1>4. ASSUME NEW p \in Live
      PROVE  p > IdleScan.cursor /\ ~ IdleScan.last /\ store[p] # None
  BY <1>4 DEF Live, Products, IdleScan
<1>5. ASSUME NEW u \in Tasks, scan'[u].on, NEW p \in owed'[u]
      PROVE  /\ store[p] # None
             /\ scan'[u].page[p] # None \/ (p > scan'[u].cursor /\ ~ scan'[u].last)
  <2>1. CASE scan'[u] = scan[u] /\ owed'[u] = owed[u]
    BY <1>2, <1>5, <2>1
  <2>2. ASSUME NEW t \in Tasks, Starts(t), ~ (scan'[u] = scan[u] /\ owed'[u] = owed[u])
        PROVE  u = t /\ \E q \in Products : TakeFromPage(t, q)
    BY <2>2, StartScans
  <2>3. ASSUME NEW t \in Tasks, Others(t), u # t
        PROVE  scan'[u] = scan[u] /\ owed'[u] = owed[u]
    BY <2>3, OtherScans
  <2>4. ASSUME NEW t \in Tasks, Others(t), u = t
        PROVE  /\ store[p] # None
               /\ scan'[u].page[p] # None \/ (p > scan'[u].cursor /\ ~ scan'[u].last)
    <3>1. CASE Free(t) /\ scan'[t] = [scan[t] EXCEPT !.on = TRUE] /\ owed'[t] = Live
      <4>1. scan[t] = IdleScan
        BY <3>1 DEF Free, PagingInv, ScanInv
      <4>2. scan'[t].cursor = IdleScan.cursor /\ scan'[t].last = IdleScan.last
        BY <3>1, <4>1 DEF IdleScan
      <4>3. QED
        BY <1>4, <1>5, <2>4, <3>1, <4>2
    <3>2. CASE ListPage(t)
      BY <1>2, <1>5, <2>4, <3>2, OwedList, ListedPage
    <3>3. CASE scan'[t] = IdleScan
      BY <1>5, <2>4, <3>3, IdleScanIs
    <3>4. CASE \E q \in Products : TakeFromPage(t, q)
      BY <1>3, <1>5, <2>4, <3>4
    <3>5. QED
      BY <2>1, <2>4, <3>1, <3>2, <3>3, <3>4, OtherScans
  <2>5. ASSUME Restart
        PROVE  /\ store[p] # None
               /\ scan'[u].page[p] # None \/ (p > scan'[u].cursor /\ ~ scan'[u].last)
    <3>1. PICK loaders \in SUBSET Tasks :
            /\ scan' = [t \in Tasks |->
                          IF t \in loaders THEN [IdleScan EXCEPT !.on = TRUE] ELSE IdleScan]
            /\ owed' = [t \in Tasks |-> IF t \in loaders THEN Live ELSE {}]
      BY <2>5 DEF Restart
    <3>2. u \in loaders /\ p \in Live
      BY <1>5, <3>1
    <3>3. scan'[u].cursor = IdleScan.cursor /\ scan'[u].last = IdleScan.last
      BY <3>1, <3>2 DEF IdleScan
    <3>4. QED
      BY <1>4, <3>2, <3>3
  <2>6. CASE UNCHANGED vars
    BY <2>1, <2>6 DEF vars, history
  <2>7. QED
    BY <1>3, <1>5, <2>1, <2>2, <2>3, <2>4, <2>5, <2>6
<1>6. QED
  BY <1>1, <1>5 DEF OwedInv

\* A reindex that has come to the end of its last page has visited every product
\* that was in the table all the time: the pages, cut by key, neither skip a
\* product nor end too early, for any number of products and any page size.
THEOREM ReindexIsComplete == Spec => []ReindexSkipsNothing
<1>1. Init => PagingInv
  <2>1. Init => OwedInv
    BY DEF Init, OwedInv
  <2>2. QED
    BY <2>1, ScanInit DEF PagingInv
<1>2. TypeOK /\ PagingInv /\ [Next]_vars => PagingInv'
  BY ScanStep, OwedWrite, OwedQuiet, NextSplits DEF PagingInv
<1>3. TypeOK /\ PagingInv => ReindexSkipsNothing
  <2>1. SUFFICES ASSUME TypeOK, PagingInv, NEW t \in Tasks, Between(t), scan[t].last,
                        Pending(t) = {}, NEW p \in owed[t]
                 PROVE  FALSE
    BY DEF ReindexSkipsNothing
  <2>2. scan[t].on /\ p \in Products /\ scan[t].page[p] = None
    BY <2>1, ScanTypes DEF Between, Pending
  <2>3. QED
    BY <2>1, <2>2 DEF PagingInv, OwedInv
<1>4. QED
  BY <1>1, <1>2, <1>3, TypeCorrect, PTL DEF Spec
=============================================================================
