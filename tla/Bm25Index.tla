----------------------------- MODULE Bm25Index -----------------------------
(***************************************************************************)
(* The in-memory text index (vectoria-core/src/search/bm25_index.rs): a    *)
(* list of documents and, behind the same mutex, the BM25 engine built     *)
(* from it.  A writer drops the engine; the next search builds a new one   *)
(* from a copy, without the lock, and installs it only if nobody wrote in  *)
(* between.  An engine knows documents by their position in the list.      *)
(***************************************************************************)
EXTENDS Integers, Sequences

CONSTANTS
  Ids,       \* product ids
  Words,     \* the words of texts and queries, already normalized
  Threads,   \* threads that search
  None,      \* no engine
  MaxWrites  \* bound on upserts and removes

Texts   == SUBSET Words
Entries == [id : Ids, text : Texts]

ASSUME Bm25Assumption ==
  /\ MaxWrites \in Nat
  /\ None \notin Seq(Texts)

VARIABLES
  corpus,      \* the documents, in the order they were first added
  engine,      \* the texts the cached engine was built from, or None
  generation,  \* counts the writes
  search,      \* search[t]: how far the search of thread t is
  answers      \* answers[t]: the query and the hits of the latest search of t

vars == <<corpus, engine, generation, search, answers>>

Idle      == [pc |-> "idle", query |-> None, snap |-> <<>>, gen |-> 0]
Missed(q) == [pc |-> "missed", query |-> q, snap |-> <<>>, gen |-> 0]

TextsOf(c) == [i \in 1..Len(c) |-> c[i].text]

\* An engine returns positions; each is looked up in the list as it is now.
RunSearch(e, c, q) ==
  {<<c[i].id, e[i]>> : i \in {j \in 1..Len(e) : q \in e[j] /\ j <= Len(c)}}

Init ==
  /\ corpus = <<>>
  /\ engine = None
  /\ generation = 0
  /\ search  = [t \in Threads |-> Idle]
  /\ answers = [t \in Threads |-> <<>>]

-----------------------------------------------------------------------------
(* Writers: each runs under the lock from beginning to end.                *)

Position(c, id) == {i \in 1..Len(c) : c[i].id = id}

PutLast(c, id, text) == Append(c, [id |-> id, text |-> text])
Put(c, id, text) ==
  IF Position(c, id) = {}
  THEN Append(c, [id |-> id, text |-> text])
  ELSE [i \in 1..Len(c) |-> IF c[i].id = id THEN [id |-> id, text |-> text] ELSE c[i]]

\* retain(): ids are distinct, so at most one entry goes and the rest close up.
Drop(c, id) ==
  IF Position(c, id) = {}
  THEN c
  ELSE [i \in 1..(Len(c) - 1) |->
          IF \A j \in 1..i : c[j].id # id THEN c[i] ELSE c[i + 1]]

\* What a write leaves of the cached engine.
KeepIfSameLength(c) == IF Len(c) = Len(corpus) THEN engine ELSE None
EngineAfterWrite(c) == None

Write(c) ==
  /\ generation < MaxWrites
  /\ corpus' = c
  /\ engine' = EngineAfterWrite(c)
  /\ generation' = generation + 1
  /\ UNCHANGED <<search, answers>>

Upsert(id, text) == Write(Put(corpus, id, text))
Remove(id)       == Write(Drop(corpus, id))

-----------------------------------------------------------------------------
(* Searchers: a first look under the lock, a copy, a build without the     *)
(* lock, and the installation under the lock.                              *)

Answer(t, q, hits) == answers' = [answers EXCEPT ![t] = <<q, hits>>]

SearchEmpty(t, q) ==
  /\ search[t].pc = "idle"
  /\ corpus = <<>>
  /\ Answer(t, q, {})
  /\ UNCHANGED <<corpus, engine, generation, search>>

SearchCached(t, q) ==
  /\ search[t].pc = "idle"
  /\ corpus # <<>> /\ engine # None
  /\ Answer(t, q, RunSearch(engine, corpus, q))
  /\ UNCHANGED <<corpus, engine, generation, search>>

SearchMisses(t, q) ==
  /\ search[t].pc = "idle"
  /\ corpus # <<>> /\ engine = None
  /\ search' = [search EXCEPT ![t] = Missed(q)]
  /\ UNCHANGED <<corpus, engine, generation, answers>>

\* The lock was released after the miss: the list may have changed already.
TakeSnapshot(t) ==
  /\ search[t].pc = "missed"
  /\ search' = [search EXCEPT ![t].pc = "building", ![t].snap = corpus, ![t].gen = generation]
  /\ UNCHANGED <<corpus, engine, generation, answers>>

\* Nobody wrote since the copy was made.
FreshIfSameLength(t) == Len(search[t].snap) = Len(corpus)
Fresh(t) == search[t].gen = generation

Finish(t, e) ==
  /\ engine' = e
  /\ Answer(t, search[t].query, RunSearch(e, corpus, search[t].query))
  /\ search' = [search EXCEPT ![t] = Idle]
  /\ UNCHANGED <<corpus, generation>>

Install(t) ==
  /\ search[t].pc = "building"
  /\ Fresh(t)
  /\ Finish(t, TextsOf(search[t].snap))

\* Somebody wrote: build again, this time under the lock.
RebuildLocked(t) ==
  /\ search[t].pc = "building"
  /\ ~ Fresh(t)
  /\ Finish(t, TextsOf(corpus))

Next ==
  \/ \E id \in Ids : Remove(id) \/ \E text \in Texts : Upsert(id, text)
  \/ \E t \in Threads :
       \/ TakeSnapshot(t) \/ Install(t) \/ RebuildLocked(t)
       \/ \E q \in Words : SearchEmpty(t, q) \/ SearchCached(t, q) \/ SearchMisses(t, q)

Spec == Init /\ [][Next]_vars

-----------------------------------------------------------------------------
(* Properties *)

Searches ==
  [pc : {"idle", "missed", "building"}, query : Words \cup {None},
   snap : Seq(Entries), gen : Nat]

\* Types, and the shape of the list: one entry per product id, which is what
\* upsert() looks up by id and remove() relies on.
TypeOK ==
  /\ corpus \in Seq(Entries)
  /\ \A i, j \in 1..Len(corpus) : corpus[i].id = corpus[j].id => i = j
  /\ engine \in Seq(Texts) \cup {None}
  /\ generation \in 0..MaxWrites
  /\ search \in [Threads -> Searches]
  /\ \A t \in Threads : search[t].pc # "idle" => search[t].query \in Words

\* The cached engine was built from the texts that are in the list now, entry
\* for entry: a search that finds it never maps a position to another product.
EngineCurrent == engine # None => engine = TextsOf(corpus)

\* Every search answers with the matching documents of one moment, whatever is
\* written and installed while it builds (the comment at bm25_index.rs:54-55).
Abstract == INSTANCE TextIndex
  WITH docs <- {<<corpus[i].id, corpus[i].text>> : i \in 1..Len(corpus)}
ImplementsTextIndex == Abstract!Spec
=============================================================================
