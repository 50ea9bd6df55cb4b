-------------------------- MODULE Bm25IndexProofs --------------------------
(***************************************************************************)
(* Bm25Index implements TextIndex, for any number of documents, threads    *)
(* and writes.  The argument: a cached engine always has the texts of the  *)
(* list (EngineCurrent), because every write drops it and because a copy   *)
(* whose generation is still the current one is still the list (SnapInv).  *)
(***************************************************************************)
EXTENDS Bm25Index, TLAPS

Distinct(c) == \A i, j \in 1..Len(c) : c[i].id = c[j].id => i = j
PairsOf(c)  == {<<c[i].id, c[i].text>> : i \in 1..Len(c)}

-----------------------------------------------------------------------------
(* What a write makes of the list.                                         *)

LEMMA EntriesOf ==
  ASSUME NEW c \in Seq(Entries)
  PROVE  /\ Len(c) \in Nat
         /\ \A i \in 1..Len(c) : c[i] \in Entries /\ c[i].id \in Ids /\ c[i].text \in Texts
<1>1. Len(c) \in Nat /\ \A i \in 1..Len(c) : c[i] \in Entries
  OBVIOUS
<1>2. QED
  BY <1>1 DEF Entries

LEMMA TextsOfType ==
  ASSUME NEW c \in Seq(Entries)
  PROVE  /\ TextsOf(c) \in Seq(Texts) /\ TextsOf(c) # None
         /\ Len(TextsOf(c)) = Len(c)
         /\ \A i \in 1..Len(c) : TextsOf(c)[i] = c[i].text
<1>1. Len(c) \in Nat /\ \A i \in 1..Len(c) : c[i].text \in Texts
  BY EntriesOf
<1>2. TextsOf(c) \in Seq(Texts)
  BY <1>1 DEF TextsOf
<1>3. TextsOf(c) # None
  BY <1>2, Bm25Assumption
<1>4. /\ Len(TextsOf(c)) = Len(c)
      /\ \A i \in 1..Len(c) : TextsOf(c)[i] = c[i].text
  BY <1>1 DEF TextsOf
<1>5. QED
  BY <1>2, <1>3, <1>4

LEMMA EntryOf ==
  ASSUME NEW id \in Ids, NEW text \in Texts
  PROVE  /\ [id |-> id, text |-> text] \in Entries
         /\ [id |-> id, text |-> text].id = id /\ [id |-> id, text |-> text].text = text
  BY DEF Entries

LEMMA PutNew ==
  ASSUME NEW c \in Seq(Entries), Distinct(c), NEW id \in Ids, NEW text \in Texts,
         Position(c, id) = {}
  PROVE  /\ Put(c, id, text) \in Seq(Entries) /\ Distinct(Put(c, id, text))
         /\ PairsOf(Put(c, id, text)) = {x \in PairsOf(c) : x[1] # id} \cup {<<id, text>>}
<1> DEFINE e == [id |-> id, text |-> text]
           d == Append(c, e)
<1>1. e \in Entries /\ e.id = id /\ e.text = text
  BY EntryOf
<1> HIDE DEF e
<1>2. Put(c, id, text) = d
  BY DEF Put, e
<1>3. /\ d \in Seq(Entries) /\ Len(d) = Len(c) + 1 /\ Len(c) \in Nat
      /\ d[Len(c) + 1] = e /\ \A i \in 1..Len(c) : d[i] = c[i]
  BY <1>1
<1>4. \A i \in 1..Len(c) : c[i].id # id
  BY DEF Position
<1> HIDE DEF d
<1>5. Distinct(d)
  BY <1>1, <1>3, <1>4 DEF Distinct
<1>6. PairsOf(d) = PairsOf(c) \cup {<<id, text>>}
  <2>1. \A i \in 1..Len(d) : i \in 1..Len(c) \/ i = Len(c) + 1
    BY <1>3
  <2>2. 1..Len(c) \subseteq 1..Len(d) /\ Len(c) + 1 \in 1..Len(d)
    BY <1>3
  <2>3. QED
    BY <1>1, <1>3, <2>1, <2>2 DEF PairsOf
<1>7. {x \in PairsOf(c) : x[1] # id} = PairsOf(c)
  BY <1>4 DEF PairsOf
<1>8. QED
  BY <1>2, <1>3, <1>5, <1>6, <1>7

LEMMA PutOver ==
  ASSUME NEW c \in Seq(Entries), Distinct(c), NEW id \in Ids, NEW text \in Texts,
         Position(c, id) # {}
  PROVE  /\ Put(c, id, text) \in Seq(Entries) /\ Distinct(Put(c, id, text))
         /\ PairsOf(Put(c, id, text)) = {x \in PairsOf(c) : x[1] # id} \cup {<<id, text>>}
<1> DEFINE e == [id |-> id, text |-> text]
           d == [i \in 1..Len(c) |-> IF c[i].id = id THEN e ELSE c[i]]
<1>1. e \in Entries /\ e.id = id /\ e.text = text
  BY EntryOf
<1> HIDE DEF e
<1>2. Put(c, id, text) = d
  BY DEF Put, e
<1>3. /\ Len(c) \in Nat /\ d \in Seq(Entries) /\ Len(d) = Len(c)
      /\ \A i \in 1..Len(c) : d[i] = IF c[i].id = id THEN e ELSE c[i]
  BY <1>1
<1>4. PICK k \in 1..Len(c) : c[k].id = id
  BY DEF Position
<1> HIDE DEF d
<1>5. \A i \in 1..Len(c) : d[i].id = c[i].id
  BY <1>1, <1>3
<1>6. Distinct(d)
  BY <1>3, <1>5 DEF Distinct
<1>7. PairsOf(d) = {x \in PairsOf(c) : x[1] # id} \cup {<<id, text>>}
  <2>1. ASSUME NEW x \in PairsOf(d)
        PROVE  x \in {y \in PairsOf(c) : y[1] # id} \cup {<<id, text>>}
    <3>1. PICK i \in 1..Len(c) : x = <<d[i].id, d[i].text>>
      BY <1>3 DEF PairsOf
    <3>2. QED
      BY <1>1, <1>3, <3>1 DEF PairsOf
  <2>2. ASSUME NEW x \in PairsOf(c), x[1] # id
        PROVE  x \in PairsOf(d)
    <3>1. PICK i \in 1..Len(c) : x = <<c[i].id, c[i].text>>
      BY DEF PairsOf
    <3>2. QED
      BY <1>3, <2>2, <3>1 DEF PairsOf
  <2>3. <<id, text>> \in PairsOf(d)
    BY <1>1, <1>3, <1>4 DEF PairsOf
  <2>4. QED
    BY <2>1, <2>2, <2>3
<1>8. QED
  BY <1>2, <1>3, <1>6, <1>7

LEMMA DropKeeps ==
  ASSUME NEW c \in Seq(Entries), Distinct(c), NEW id \in Ids
  PROVE  /\ Drop(c, id) \in Seq(Entries) /\ Distinct(Drop(c, id))
         /\ PairsOf(Drop(c, id)) = {x \in PairsOf(c) : x[1] # id}
<1>1. CASE Position(c, id) = {}
  <2>1. Drop(c, id) = c /\ \A i \in 1..Len(c) : c[i].id # id
    BY <1>1 DEF Drop, Position
  <2>2. QED
    BY <2>1 DEF PairsOf
<1>2. CASE Position(c, id) # {}
  <2> DEFINE d == Drop(c, id)
  <2>1. PICK k \in 1..Len(c) : c[k].id = id
    BY <1>2 DEF Position
  <2>2. Len(c) \in Nat \ {0} /\ k \in Nat /\ \A i \in 1..Len(c) : c[i] \in Entries
    BY EntriesOf
  <2>3. d = [i \in 1..(Len(c) - 1) |-> IF \A j \in 1..i : c[j].id # id THEN c[i] ELSE c[i + 1]]
    BY <1>2 DEF Drop
  <2>4. ASSUME NEW i \in 1..(Len(c) - 1)
        PROVE  (\A j \in 1..i : c[j].id # id) <=> i < k
    BY <2>1, <2>2 DEF Distinct
  <2>5. d = [i \in 1..(Len(c) - 1) |-> IF i < k THEN c[i] ELSE c[i + 1]]
    BY <2>3, <2>4
  <2>6. /\ d \in Seq(Entries) /\ Len(d) = Len(c) - 1
        /\ \A i \in 1..(Len(c) - 1) : d[i] = IF i < k THEN c[i] ELSE c[i + 1]
    BY <2>2, <2>5
  <2> HIDE DEF d
  <2>7. Distinct(d)
    BY <2>2, <2>6 DEF Distinct
  <2>8. ASSUME NEW x \in PairsOf(d)
        PROVE  x \in PairsOf(c) /\ x[1] # id
    <3>1. PICK i \in 1..(Len(c) - 1) : x = <<d[i].id, d[i].text>>
      BY <2>6 DEF PairsOf
    <3>2. PICK j \in 1..Len(c) : d[i] = c[j] /\ j # k
      BY <2>2, <2>6
    <3>3. QED
      BY <2>1, <3>1, <3>2 DEF PairsOf, Distinct
  <2>9. ASSUME NEW x \in PairsOf(c), x[1] # id
        PROVE  x \in PairsOf(d)
    <3>1. PICK j \in 1..Len(c) : x = <<c[j].id, c[j].text>>
      BY DEF PairsOf
    <3>2. j # k
      BY <2>1, <2>9, <3>1
    <3>3. PICK i \in 1..(Len(c) - 1) : d[i] = c[j]
      <4>1. CASE j < k
        BY <2>2, <2>6, <4>1
      <4>2. CASE j > k
        <5>1. j - 1 \in 1..(Len(c) - 1) /\ ~ (j - 1 < k) /\ (j - 1) + 1 = j
          BY <2>2, <4>2
        <5>2. QED
          BY <2>6, <5>1
      <4>3. QED
        BY <2>2, <3>2, <4>1, <4>2
    <3>4. QED
      BY <2>6, <3>1, <3>3 DEF PairsOf
  <2>10. QED
    BY <2>6, <2>7, <2>8, <2>9 DEF d
<1>3. QED
  BY <1>1, <1>2
-----------------------------------------------------------------------------
(* Types.                                                                  *)

Writers == \E id \in Ids : Remove(id) \/ \E text \in Texts : Upsert(id, text)

LEMMA WritesBounded == MaxWrites \in Nat
  BY Bm25Assumption

LEMMA WriteTypes ==
  ASSUME TypeOK, Writers
  PROVE  TypeOK'
<1>1. corpus \in Seq(Entries) /\ Distinct(corpus)
  BY DEF TypeOK, Distinct
<1>2. PICK c : /\ Write(c) /\ c \in Seq(Entries) /\ Distinct(c)
  <2>1. ASSUME NEW id \in Ids, Remove(id)
        PROVE  Write(Drop(corpus, id)) /\ Drop(corpus, id) \in Seq(Entries) /\ Distinct(Drop(corpus, id))
    BY <1>1, <2>1, DropKeeps DEF Remove
  <2>2. ASSUME NEW id \in Ids, NEW text \in Texts, Upsert(id, text)
        PROVE  /\ Write(Put(corpus, id, text)) /\ Put(corpus, id, text) \in Seq(Entries)
               /\ Distinct(Put(corpus, id, text))
    BY <1>1, <2>2, PutNew, PutOver DEF Upsert
  <2>3. QED
    BY <2>1, <2>2 DEF Writers
<1>3. /\ corpus' = c /\ engine' = None /\ generation' = generation + 1
      /\ generation < MaxWrites /\ search' = search
  BY <1>2 DEF Write, EngineAfterWrite
<1>4. QED
  BY <1>2, <1>3, WritesBounded DEF TypeOK, Distinct

LEMMA SearchTypes ==
  ASSUME TypeOK, NEW t \in Threads,
         \/ TakeSnapshot(t) \/ Install(t) \/ RebuildLocked(t)
         \/ \E q \in Words : SearchEmpty(t, q) \/ SearchCached(t, q) \/ SearchMisses(t, q)
  PROVE  TypeOK'
<1>0. corpus \in Seq(Entries) /\ generation \in 0..MaxWrites /\ search \in [Threads -> Searches]
  BY DEF TypeOK
<1>1. CASE TakeSnapshot(t)
  <2>1. search'[t] = [search[t] EXCEPT !.pc = "building", !.snap = corpus, !.gen = generation]
    BY <1>0, <1>1 DEF TakeSnapshot
  <2>2. search'[t] \in Searches
    <3>1. search[t] \in Searches /\ generation \in Nat
      BY <1>0
    <3>2. QED
      BY <1>0, <2>1, <3>1 DEF Searches
  <2>3. search' \in [Threads -> Searches]
    BY <1>0, <1>1, <2>2 DEF TakeSnapshot
  <2>4. \A u \in Threads : search'[u].pc # "idle" => search'[u].query \in Words
    BY <1>0, <1>1, <2>1 DEF TakeSnapshot, TypeOK, Searches
  <2>5. QED
    BY <1>1, <2>3, <2>4 DEF TakeSnapshot, TypeOK
<1>2. CASE Install(t) \/ RebuildLocked(t)
  <2>1. TextsOf(search[t].snap) \in Seq(Texts) /\ TextsOf(corpus) \in Seq(Texts)
    BY <1>0, TextsOfType DEF Searches
  <2>2. engine' \in Seq(Texts) /\ corpus' = corpus /\ generation' = generation
        /\ search' = [search EXCEPT ![t] = Idle]
    BY <1>2, <2>1 DEF Install, RebuildLocked, Finish
  <2>3. Idle \in Searches /\ Idle.pc = "idle"
    BY DEF Idle, Searches
  <2>4. QED
    BY <2>2, <2>3 DEF TypeOK
<1>3. ASSUME NEW q \in Words, SearchEmpty(t, q) \/ SearchCached(t, q)
      PROVE  TypeOK'
  BY <1>3 DEF SearchEmpty, SearchCached, TypeOK
<1>4. ASSUME NEW q \in Words, SearchMisses(t, q)
      PROVE  TypeOK'
  <2>1. Missed(q) \in Searches /\ Missed(q).query = q
    BY DEF Missed, Searches
  <2>2. UNCHANGED <<corpus, engine, generation>> /\ search' = [search EXCEPT ![t] = Missed(q)]
    BY <1>4 DEF SearchMisses
  <2>3. search' \in [Threads -> Searches]
    BY <1>0, <2>1, <2>2
  <2>4. \A u \in Threads : search'[u].pc # "idle" => search'[u].query \in Words
    BY <1>0, <2>1, <2>2 DEF TypeOK
  <2>5. QED
    BY <2>2, <2>3, <2>4 DEF TypeOK
<1>5. QED
  BY <1>1, <1>2, <1>3, <1>4

\* The list keeps one entry per product id, whatever is written.
THEOREM TypeCorrect == Spec => []TypeOK
<1>1. Init => TypeOK
  <2>1. Idle \in Searches /\ Idle.pc = "idle"
    BY DEF Idle, Searches
  <2>2. QED
    BY <2>1, WritesBounded DEF Init, TypeOK
<1>2. TypeOK /\ [Next]_vars => TypeOK'
  <2>1. TypeOK /\ UNCHANGED vars => TypeOK'
    BY DEF vars, TypeOK
  <2>2. QED
    BY <2>1, WriteTypes, SearchTypes DEF Next, Writers
<1>3. QED
  BY <1>1, <1>2, PTL DEF Spec

-----------------------------------------------------------------------------
(* The cached engine is current.                                           *)

\* A copy made at the current generation is still the list.
SnapInv ==
  \A t \in Threads : search[t].pc = "building" =>
    /\ search[t].gen \in Nat /\ search[t].gen <= generation
    /\ search[t].gen = generation => search[t].snap = corpus

CurrentInv == EngineCurrent /\ SnapInv

LEMMA CurrentStep ==
  ASSUME TypeOK, CurrentInv, [Next]_vars
  PROVE  CurrentInv'
<1>0. generation \in Nat
  BY DEF TypeOK
<1>1. CASE Writers
  <2>1. engine' = None /\ generation' = generation + 1 /\ search' = search
    BY <1>1 DEF Writers, Remove, Upsert, Write, EngineAfterWrite
  <2>2. QED
    BY <1>0, <2>1 DEF CurrentInv, EngineCurrent, SnapInv
<1>2. ASSUME NEW t \in Threads, TakeSnapshot(t)
      PROVE  CurrentInv'
  <2>1. /\ search'[t].gen = generation /\ search'[t].snap = corpus
        /\ \A u \in Threads \ {t} : search'[u] = search[u]
    BY <1>2 DEF TakeSnapshot, TypeOK, Searches
  <2>2. corpus' = corpus /\ engine' = engine /\ generation' = generation
    BY <1>2 DEF TakeSnapshot
  <2>3. EngineCurrent'
    BY <2>2 DEF CurrentInv, EngineCurrent
  <2>4. SnapInv'
    BY <1>0, <2>1, <2>2 DEF CurrentInv, SnapInv
  <2>5. QED
    BY <2>3, <2>4 DEF CurrentInv
<1>3. ASSUME NEW t \in Threads, Install(t) \/ RebuildLocked(t)
      PROVE  CurrentInv'
  <2>1. engine' = TextsOf(corpus) /\ corpus' = corpus /\ generation' = generation
    BY <1>3 DEF Install, RebuildLocked, Finish, Fresh, CurrentInv, SnapInv
  <2>2. /\ search'[t].pc = "idle"
        /\ \A u \in Threads \ {t} : search'[u] = search[u]
    BY <1>3 DEF Install, RebuildLocked, Finish, Idle, TypeOK
  <2>3. QED
    BY <2>1, <2>2 DEF CurrentInv, EngineCurrent, SnapInv
<1>4. ASSUME NEW t \in Threads, NEW q \in Words,
             SearchEmpty(t, q) \/ SearchCached(t, q) \/ SearchMisses(t, q)
      PROVE  CurrentInv'
  <2>1. engine' = engine /\ corpus' = corpus /\ generation' = generation
    BY <1>4 DEF SearchEmpty, SearchCached, SearchMisses
  <2>2. \A u \in Threads : search'[u] = search[u] \/ search'[u].pc = "missed"
    BY <1>4 DEF SearchEmpty, SearchCached, SearchMisses, Missed, TypeOK
  <2>3. QED
    BY <2>1, <2>2 DEF CurrentInv, EngineCurrent, SnapInv
<1>5. CASE UNCHANGED vars
  BY <1>5 DEF vars, CurrentInv, EngineCurrent, SnapInv
<1>6. QED
  BY <1>1, <1>2, <1>3, <1>4, <1>5 DEF Next, Writers

LEMMA CurrentAlways == Spec => [](TypeOK /\ CurrentInv)
<1>1. Init => CurrentInv
  BY DEF Init, CurrentInv, EngineCurrent, SnapInv, Idle
<1>2. QED
  BY <1>1, CurrentStep, TypeCorrect, PTL DEF Spec

\* A search that finds a cached engine finds one built from the list as it is.
THEOREM CachedEngineIsCurrent == Spec => []EngineCurrent
<1>1. CurrentInv => EngineCurrent
  BY DEF CurrentInv
<1>2. QED
  BY <1>1, CurrentAlways, PTL

-----------------------------------------------------------------------------
(* Refinement.                                                             *)

LEMMA RunSearchIs ==
  ASSUME NEW c \in Seq(Entries), NEW q
  PROVE  RunSearch(TextsOf(c), c, q) = {x \in PairsOf(c) : q \in x[2]}
<1> DEFINE e == TextsOf(c)
<1>1. Len(c) \in Nat /\ Len(e) = Len(c) /\ \A i \in 1..Len(c) : e[i] = c[i].text
  BY TextsOfType, EntriesOf
<1> HIDE DEF e
<1>2. RunSearch(e, c, q) = {<<c[i].id, c[i].text>> : i \in {j \in 1..Len(c) : q \in c[j].text}}
  BY <1>1 DEF RunSearch
<1>3. QED
  BY <1>2 DEF PairsOf, e

LEMMA RefinesStep ==
  ASSUME TypeOK, CurrentInv, [Next]_vars
  PROVE  [Abstract!Next]_<<PairsOf(corpus), answers>>
<1>0. corpus \in Seq(Entries) /\ Distinct(corpus)
  BY DEF TypeOK, Distinct
<1>1. ASSUME NEW id \in Ids, Remove(id)
      PROVE  Abstract!Remove(id)
  <2>1. corpus' = Drop(corpus, id) /\ answers' = answers
    BY <1>1 DEF Remove, Write
  <2>2. PairsOf(corpus') = {x \in PairsOf(corpus) : x[1] # id}
    BY <1>0, <2>1, DropKeeps
  <2>3. QED
    BY <2>1, <2>2 DEF Abstract!Remove, PairsOf
<1>2. ASSUME NEW id \in Ids, NEW text \in Texts, Upsert(id, text)
      PROVE  Abstract!Upsert(id, text)
  <2>1. corpus' = Put(corpus, id, text) /\ answers' = answers
    BY <1>2 DEF Upsert, Write
  <2>2. PairsOf(corpus') = {x \in PairsOf(corpus) : x[1] # id} \cup {<<id, text>>}
    BY <1>0, <2>1, PutNew, PutOver
  <2>3. QED
    BY <2>1, <2>2 DEF Abstract!Upsert, PairsOf
<1>3. ASSUME NEW t \in Threads, NEW q \in Words, SearchEmpty(t, q)
      PROVE  Abstract!Search(t, q)
  <2>1. {x \in PairsOf(corpus) : q \in x[2]} = {}
    BY <1>3 DEF SearchEmpty, PairsOf
  <2>2. QED
    BY <1>3, <2>1 DEF SearchEmpty, Answer, Abstract!Search, PairsOf
<1>4. ASSUME NEW t \in Threads, NEW q \in Words, SearchCached(t, q)
      PROVE  Abstract!Search(t, q)
  <2>1. RunSearch(engine, corpus, q) = {x \in PairsOf(corpus) : q \in x[2]}
    BY <1>0, <1>4, RunSearchIs DEF SearchCached, CurrentInv, EngineCurrent
  <2>2. QED
    BY <1>4, <2>1 DEF SearchCached, Answer, Abstract!Search, PairsOf
<1>5. ASSUME NEW t \in Threads, Install(t) \/ RebuildLocked(t)
      PROVE  \E q \in Words : Abstract!Search(t, q)
  <2> DEFINE q == search[t].query
  <2>1. q \in Words
    BY <1>5 DEF Install, RebuildLocked, TypeOK
  <2>2. Answer(t, q, RunSearch(TextsOf(corpus), corpus, q)) /\ corpus' = corpus
    BY <1>5 DEF Install, RebuildLocked, Finish, Fresh, CurrentInv, SnapInv
  <2>3. RunSearch(TextsOf(corpus), corpus, q) = {x \in PairsOf(corpus) : q \in x[2]}
    BY <1>0, RunSearchIs
  <2>4. Abstract!Search(t, q)
    BY <2>2, <2>3 DEF Answer, Abstract!Search, PairsOf
  <2>5. QED
    BY <2>1, <2>4
<1>6. ASSUME NEW t \in Threads, TakeSnapshot(t) \/ \E q \in Words : SearchMisses(t, q)
      PROVE  UNCHANGED <<corpus, answers>>
  BY <1>6 DEF TakeSnapshot, SearchMisses
<1>7. CASE UNCHANGED <<corpus, answers>>
  BY <1>7
<1>8. CASE UNCHANGED vars
  BY <1>7, <1>8 DEF vars
<1>9. QED
  BY <1>1, <1>2, <1>3, <1>4, <1>5, <1>6, <1>7, <1>8 DEF Next, Abstract!Next, Abstract!Texts, Texts

\* Every search answers with the matching documents of one moment, although
\* the engine is built from a copy while others write.
THEOREM AnswersAreAtomic == Spec => ImplementsTextIndex
<1>1. Init => Abstract!Init
  BY DEF Init, Abstract!Init
<1>2. TypeOK /\ CurrentInv /\ [Next]_vars => [Abstract!Next]_<<PairsOf(corpus), answers>>
  BY RefinesStep
<1>3. QED
  BY <1>1, <1>2, CurrentAlways, PTL DEF Spec, ImplementsTextIndex, Abstract!Spec, PairsOf
=============================================================================
