------------------------- MODULE AggregationProofs -------------------------
(***************************************************************************)
(* Theorems about Aggregation, for any products, users, events and number  *)
(* of requests: what a cycle that no other call overlapped has done, in    *)
(* each of its four parts, whatever events and products come and go.       *)
(***************************************************************************)
EXTENDS Aggregation, SequenceTheorems, FiniteSetTheorems, TLAPS

USE AggregationAssumption

-----------------------------------------------------------------------------
(* The inductive invariant                                                 *)

Pcs == {"idle", "list", "pick", "recent", "walk", "write", "pairs", "done"}

Calls ==
  [pc : Pcs, kind : {None, "cycle", "recommend"},
   left : SUBSET (Products \cup Users), todo : SUBSET (Products \cup Pairs),
   key : Products \cup Users \cup Pairs \cup {None},
   value : {None} \cup (SUBSET Clicks) \cup (SUBSET Products) \cup (0..MaxScore),
   alone : BOOLEAN, before : SUBSET Clicks, stayed : SUBSET Products,
   base : {None} \cup [Pairs -> 0..MaxScore], missed : SUBSET (Users \X Products)]

\* The ids that list_user_ids() may return.
Listed == {UserOf(Key(v)) : v \in Users}

\* What a call has still to do, and what it holds, by where it stands.
Fits(o) ==
  /\ o.pc \in {"list", "pick", "pairs", "write", "done"} => o.kind = "cycle"
  /\ o.pc \in {"recent", "walk"} =>
       o.kind \in {"cycle", "recommend"} /\ o.key \in Users /\ watched = "profiles"
  /\ o.alone => o.kind = "cycle" /\ o.pc # "idle"
  /\ o.pc \in {"idle", "list", "pick"} => o.key = None
  /\ o.pc \in {"idle", "list", "recent", "done"} => o.left = {}
  /\ o.pc \in {"idle", "list", "recent", "pick", "write", "done"} => o.todo = {}
  /\ watched = "signals" => o.left \subseteq Products
  /\ watched = "brand" => o.left = {}
  /\ watched \in {"profiles", "co_purchased"} => o.left \subseteq Listed
  /\ o.pc = "write" => /\ watched = "signals" /\ o.key \in Products
                       /\ o.value \subseteq EventsOf(o.key)
  /\ o.pc = "walk" => o.todo \subseteq Recent(o.key) /\ o.value \subseteq Recent(o.key)
  /\ o.pc = "pairs" => /\ watched \in Relations /\ o.todo \subseteq Pairs
                       /\ o.key \in Pairs \cup {None}
                       /\ o.key # None => o.key \notin o.todo /\ o.value \in 0..MaxScore
  /\ o.before \subseteq events /\ o.stayed \subseteq known
  /\ watched # "co_purchased" => \A e \in o.before : e[2] \in known
  /\ o.alone /\ watched \in Relations => o.base \in [Pairs -> 0..MaxScore]

\* An event is still to be counted, is about to be stored, or is stored.
Counts(o) ==
  o.pc # "list" =>
    \A e \in o.before :
      IF o.pc = "write" /\ o.key = e[2] THEN e \in o.value
      ELSE e[2] \in o.left \/ (signals[e[2]] # None /\ e \in signals[e[2]])

\* A product p of user u is still to be averaged, is in the mean to be stored,
\* or is stored.
Averaged(o, u, p) ==
  IF o.pc = "walk" /\ o.key = u THEN p \in o.todo \cup o.value
  ELSE u \in o.left \/ (profile[u] # None /\ p \in profile[u])

\* So is each that was clicked before the call, unless a failure lost it.
Averages(o) ==
  o.pc # "list" =>
    \A e \in o.before :
      <<UserOf(Key(e[1])), e[2]>> \notin o.missed
        => Averaged(o, UserOf(Key(e[1])), e[2])

\* The score of pair x once what the call has to write for it is written.
Due(o, x) ==
  IF o.pc = "pairs" /\ (x \in o.todo \/ x = o.key) THEN Add(relation[x], 1) ELSE relation[x]

\* The score that was read is the one in the table still.
Fresh(o) == o.pc = "pairs" /\ o.key # None => o.value = relation[o.key]

Branded(o) ==
  \A x \in Pairs :
    /\ Due(o, x) \in {o.base[x], Add(o.base[x], 1)}
    /\ o.pc = "list" => relation[x] = o.base[x]
    /\ /\ o.pc # "list" /\ {x[1], x[2]} \subseteq o.stayed
       /\ Cardinality({c \in Products : c < x[2]}) < Peers
       => Due(o, x) = Add(o.base[x], 1)

\* The events of log whose users the call is done with, or has come to.
Past(o, log) == IF o.pc = "list" THEN {} ELSE {e \in log : UserOf(Key(e[1])) \notin o.left}

Tallied(o) ==
  \A x \in Pairs : Due(o, x) \in Add(o.base[x], Both(Past(o, o.before), x))
                                 ..Add(o.base[x], Both(Past(o, events), x))

Mirrored(o) ==
  Symmetric(o.base) => \A x \in Pairs : Due(o, x) = Due(o, <<x[2], x[1]>>)

\* How far a cycle that overlaps no other call has come with its part.
Progress(o) ==
  /\ watched = "signals"  => Counts(o)
  /\ watched = "profiles" => Averages(o)
  /\ watched = "brand"    => Branded(o) /\ Fresh(o)
  /\ watched = "co_purchased" => Tallied(o) /\ Mirrored(o) /\ Fresh(o)

WorldOK ==
  watched \in Parts /\ known \subseteq Products /\ events \subseteq Clicks /\ IsFiniteSet(events)

TablesOK ==
  /\ signals \in [Products -> {None} \cup SUBSET events]
  /\ profile \in [Users -> {None} \cup SUBSET Products]
  /\ relation \in [Pairs -> 0..MaxScore]
  /\ ProfilesAreOwn

CallsOK == task \in [Tasks -> Calls] /\ \A t \in Tasks : Fits(task[t])

AloneIsAlone ==
  \A t, u \in Tasks : task[t].alone /\ u # t => task[u].pc = "idle"

Progresses == \A t \in Tasks : task[t].alone => Progress(task[t])

AggInv == WorldOK /\ TablesOK /\ CallsOK /\ AloneIsAlone /\ Progresses

-----------------------------------------------------------------------------
(* Scores and the number of users behind a pair                            *)

LEMMA AddIsSaturating ==
  ASSUME NEW s \in 0..MaxScore
  PROVE  /\ Add(s, 0) = s
         /\ \A n \in Nat : Add(s, n) \in 0..MaxScore /\ Add(Add(s, n), 1) = Add(s, n + 1)
         /\ \A m, n \in Nat : m <= n => Add(s, m) <= Add(s, n)
         /\ \A r \in 0..MaxScore : r <= s => Add(r, 1) <= Add(s, 1)
  BY DEF Add

\* One user more, among those at the end (n) and perhaps those at the start (k).
LEMMA OneUserMore ==
  ASSUME NEW b \in 0..MaxScore, NEW r \in 0..MaxScore, NEW m \in Nat, NEW n \in Nat,
         NEW k \in Nat, k <= m + 1, r \in Add(b, m)..Add(b, n)
  PROVE  Add(r, 1) \in Add(b, k)..Add(b, n + 1)
  BY DEF Add

UsersOfBoth(log, x) == {u \in Users : {x[1], x[2]} \subseteq History(log, u)}

LEMMA BothIsFinite ==
  ASSUME NEW log, IsFiniteSet(log), NEW x
  PROVE  IsFiniteSet(UsersOfBoth(log, x)) /\ Both(log, x) \in Nat
         /\ Both(log, x) = Cardinality(UsersOfBoth(log, x))
<1> DEFINE S == UsersOfBoth(log, x)
           f == [u \in S |-> CHOOSE e \in log : UserOf(Key(e[1])) = u]
<1>1. ASSUME NEW u \in S PROVE f[u] \in log /\ UserOf(Key(f[u][1])) = u
  <2>1. PICK v \in Users : UserOf(Key(v)) = u /\ <<v, x[1]>> \in log
    BY DEF UsersOfBoth, History
  <2>2. \E e \in log : UserOf(Key(e[1])) = u
    BY <2>1
  <2>3. QED
    BY <2>2
<1>2. f \in Injection(S, log)
  BY <1>1 DEF Injection, IsInjective
<1>3. IsFiniteSet(S)
  BY <1>2, FS_Injection
<1>4. Both(log, x) = Cardinality(S)
  BY DEF Both, UsersOfBoth
<1>5. QED
  BY <1>3, <1>4, FS_CardinalityType

LEMMA BothIsMonotone ==
  ASSUME NEW log, IsFiniteSet(log), NEW part \in SUBSET log, NEW x
  PROVE  Both(part, x) \in Nat /\ Both(log, x) \in Nat /\ Both(part, x) <= Both(log, x)
<1>1. IsFiniteSet(part)
  BY FS_Subset
<1>2. UsersOfBoth(part, x) \subseteq UsersOfBoth(log, x)
  BY DEF UsersOfBoth, History
<1>3. QED
  BY <1>1, <1>2, BothIsFinite, FS_Subset

\* One user more: u, of whom the smaller log has no event.
LEMMA BothAndOne ==
  ASSUME NEW log, IsFiniteSet(log), NEW u \in Users, NEW part,
         part = {e \in log : UserOf(Key(e[1])) # u}, NEW x
  PROVE  /\ Both(part, x) \in Nat
         /\ Both(log, x) = IF {x[1], x[2]} \subseteq History(log, u)
                           THEN Both(part, x) + 1 ELSE Both(part, x)
<1> DEFINE S == UsersOfBoth(part, x)
           T == UsersOfBoth(log, x)
<1>1. part \subseteq log /\ IsFiniteSet(part)
  BY FS_Subset
<1>2. u \notin S
  BY DEF UsersOfBoth, History
<1>3. \A v \in Users : v # u => (v \in S <=> v \in T)
  <2> SUFFICES ASSUME NEW v \in Users, v # u PROVE v \in S <=> v \in T
    OBVIOUS
  <2>1. History(part, v) = History(log, v)
    BY DEF History
  <2>2. QED
    BY <2>1 DEF UsersOfBoth
<1>4. u \in T <=> {x[1], x[2]} \subseteq History(log, u)
  BY DEF UsersOfBoth
<1>5. S \subseteq Users /\ T \subseteq Users
  BY DEF UsersOfBoth
<1> HIDE DEF S, T
<1>6. T = IF u \in T THEN S \cup {u} ELSE S
  <2>1. T \ {u} = S
    BY <1>2, <1>3, <1>5, Zenon
  <2>2. QED
    BY <2>1
<1>7. /\ Both(part, x) \in Nat /\ Both(part, x) = Cardinality(S) /\ IsFiniteSet(S)
      /\ Both(log, x) = Cardinality(T)
  BY <1>1, BothIsFinite DEF S, T
<1>8. Cardinality(S \cup {u}) = Cardinality(S) + 1
  BY <1>2, <1>7, FS_AddElement
<1>9. QED
  BY <1>4, <1>6, <1>7, <1>8

-----------------------------------------------------------------------------
(* Keys of users                                                           *)

LEMMA LeastNumber ==
  ASSUME NEW T \in SUBSET Nat, T # {}
  PROVE  \E n \in T : \A m \in T : n <= m
<1> DEFINE R == OpToRel(<, Nat)
<1>1. IsWellFoundedOn(R, Nat)
  BY NatLessThanWellFounded
<1>2. \A x, y \in Nat : <<x, y>> \in R <=> x < y
  BY DEF OpToRel
<1> HIDE DEF R
<1>3. PICK n \in T : \A m \in T : ~ (<<m, n>> \in R)
  BY <1>1, WFMin
<1>4. \A m \in T : m \in Nat
  OBVIOUS
<1>5. \A m \in T : ~ (m < n)
  BY <1>2, <1>3, <1>4, Zenon
<1>6. QED
  BY <1>4, <1>5

LEMMA KeyIs ==
  ASSUME NEW u \in Users
  PROVE  /\ u \in Seq(Bytes) /\ Len(u) \in Nat /\ Key(u) \in Seq(Bytes \cup {Uuid})
         /\ Len(Key(u)) = Len(u) + 2 /\ DOMAIN Key(u) = 1..(Len(u) + 2)
         /\ \A i \in 1..Len(u) : Key(u)[i] = u[i]
         /\ Key(u)[Len(u) + 1] = Nul /\ Key(u)[Len(u) + 2] = Uuid
<1>1. u \in Seq(Bytes \cup {Uuid}) /\ u \in Seq(Bytes) /\ Len(u) \in Nat
  OBVIOUS
<1>2. <<Nul, Uuid>> \in Seq(Bytes \cup {Uuid})
  OBVIOUS
<1>3. QED
  BY <1>1, <1>2 DEF Key

\* What is read off a key as its user is what stands before the first NUL.
LEMMA UserOfIs ==
  ASSUME NEW v \in Users
  PROVE  \E n \in 0..Len(v) :
           /\ Len(UserOf(Key(v))) = n /\ Key(v)[n + 1] = Nul
           /\ \A i \in 1..n : UserOf(Key(v))[i] = Key(v)[i] /\ Key(v)[i] # Nul
<1> DEFINE key == Key(v)
           first(i) == key[i] = Nul /\ \A j \in 1..(i - 1) : key[j] # Nul
           end == CHOOSE i \in DOMAIN key : first(i)
<1>0. /\ Len(v) \in Nat /\ DOMAIN key = 1..(Len(v) + 2) /\ key[Len(v) + 1] = Nul
      /\ key \in Seq(Bytes \cup {Uuid}) /\ Len(key) = Len(v) + 2
  BY KeyIs
<1> HIDE DEF key
<1>1. \E i \in 1..(Len(v) + 1) : first(i)
  <2> DEFINE Nuls == {i \in 1..(Len(v) + 1) : key[i] = Nul}
  <2>1. Len(v) + 1 \in Nuls /\ Nuls \subseteq Nat
    BY <1>0
  <2>2. PICK i \in Nuls : \A j \in Nuls : i <= j
    <3> HIDE DEF Nuls
    <3>1. QED
      BY <2>1, LeastNumber
  <2>3. first(i)
    BY <1>0, <2>2
  <2>4. QED
    BY <2>2, <2>3
<1>2. end \in 1..(Len(v) + 2) /\ first(end)
  BY <1>0, <1>1
<1>3. end \in 1..(Len(v) + 1)
  BY <1>0, <1>1, <1>2
<1>4. UserOf(key) = SubSeq(key, 1, end - 1)
  BY DEF UserOf
<1> HIDE DEF end
<1>5. Len(UserOf(key)) = end - 1 /\ \A i \in 1..(end - 1) : UserOf(key)[i] = key[i]
  BY <1>0, <1>3, <1>4
<1>6. QED
  BY <1>2, <1>3, <1>5 DEF key

\* What it takes for a key to begin with {user}\0.
LEMMA ScanIs ==
  ASSUME NEW u \in Seq(Bytes), NEW v \in Users
  PROVE  IsPrefix(u \o <<Nul>>, Key(v)) <=>
           /\ Len(u) <= Len(v) /\ Key(v)[Len(u) + 1] = Nul
           /\ \A i \in 1..Len(u) : u[i] = Key(v)[i]
<1> DEFINE s == u \o <<Nul>>
           key == Key(v)
<1>1. /\ Len(v) \in Nat /\ Len(key) = Len(v) + 2 /\ key \in Seq(Bytes \cup {Uuid})
      /\ key[Len(v) + 2] # Nul
  BY KeyIs
<1>2. /\ s \in Seq(Bytes) /\ Len(s) = Len(u) + 1 /\ s[Len(u) + 1] = Nul
      /\ \A i \in 1..Len(u) : s[i] = u[i] /\ Len(u) \in Nat
  OBVIOUS
<1> HIDE DEF s, key
<1>3. SubSeq(s, 1, Len(s)) = s
  BY <1>2
<1>4. ASSUME Len(s) <= Len(key)
      PROVE  /\ SubSeq(key, 1, Len(s)) \in Seq(Bytes \cup {Uuid})
             /\ Len(SubSeq(key, 1, Len(s))) = Len(s)
             /\ \A i \in 1..Len(s) : SubSeq(key, 1, Len(s))[i] = key[i]
  BY <1>1, <1>2, <1>4
<1>5. IsPrefix(s, key) <=> Len(s) <= Len(key) /\ \A i \in 1..Len(s) : s[i] = key[i]
  <2>1. s \in Seq(Bytes \cup {Uuid})
    BY <1>2
  <2>2. CASE Len(s) <= Len(key)
    <3> DEFINE part == SubSeq(key, 1, Len(s))
    <3>1. part \in Seq(Bytes \cup {Uuid}) /\ Len(part) = Len(s)
          /\ \A i \in 1..Len(s) : part[i] = key[i]
      BY <1>4, <2>2
    <3>2. IsPrefix(s, key) <=> s = part
      BY <1>3, <2>2 DEF IsPrefix
    <3> HIDE DEF part
    <3>3. s = part <=> \A i \in 1..Len(s) : s[i] = part[i]
      BY <2>1, <3>1, SeqEqual
    <3>4. QED
      BY <2>2, <3>1, <3>2, <3>3
  <2>3. CASE ~ (Len(s) <= Len(key))
    BY <2>3 DEF IsPrefix
  <2>4. QED
    BY <2>2, <2>3
<1>6. IsPrefix(s, key) <=> Len(u) <= Len(v) /\ key[Len(u) + 1] = Nul
                             /\ \A i \in 1..Len(u) : u[i] = key[i]
  <2>1. Len(u) \in Nat
    OBVIOUS
  <2>2. (\A i \in 1..Len(s) : s[i] = key[i]) <=>
          key[Len(u) + 1] = Nul /\ \A i \in 1..Len(u) : u[i] = key[i]
    BY <1>2, <2>1
  <2>3. key[Len(u) + 1] = Nul => Len(u) # Len(v) + 1
    BY <1>1
  <2>4. QED
    BY <1>1, <1>2, <1>5, <2>1, <2>2, <2>3
<1>7. QED
  BY <1>6 DEF s, key

\* A user is found under the id that list_user_ids() has for it.
LEMMA ListedFinds ==
  ASSUME NEW v \in Users
  PROVE  UserOf(Key(v)) \in Users /\ IsPrefix(UserOf(Key(v)) \o <<Nul>>, Key(v))
<1>1. UserOf(Key(v)) \in Users /\ UserOf(Key(v)) \in Seq(Bytes)
  BY UsersAssumption
<1>2. QED
  BY <1>1, UserOfIs, ScanIs

\* All that is found under such an id is listed as that id.
LEMMA ListedOwns ==
  ASSUME NEW v \in Users, NEW u \in Listed, IsPrefix(u \o <<Nul>>, Key(v))
  PROVE  UserOf(Key(v)) = u
<1>1. PICK w \in Users : u = UserOf(Key(w))
  BY DEF Listed
<1> DEFINE a == UserOf(Key(v))
<1>2. u \in Seq(Bytes) /\ a \in Seq(Bytes)
  BY <1>1, UsersAssumption
<1>3. \A i \in 1..Len(u) : u[i] # Nul
  BY <1>1, UserOfIs
<1>4. Len(u) <= Len(v) /\ Key(v)[Len(u) + 1] = Nul /\ \A i \in 1..Len(u) : u[i] = Key(v)[i]
  BY <1>2, ScanIs
<1>5. Len(a) <= Len(v) /\ Key(v)[Len(a) + 1] = Nul
      /\ \A i \in 1..Len(a) : a[i] = Key(v)[i] /\ Key(v)[i] # Nul
  BY UserOfIs
<1>6. Len(u) \in Nat /\ Len(a) \in Nat
  BY <1>2
<1> HIDE DEF a
<1>7. Len(u) = Len(a)
  <2>1. ~ (Len(u) < Len(a))
    BY <1>4, <1>5, <1>6
  <2>2. ~ (Len(a) < Len(u))
    BY <1>3, <1>4, <1>5, <1>6
  <2>3. QED
    BY <1>6, <2>1, <2>2
<1>8. a = u
  BY <1>2, <1>4, <1>5, <1>7, SeqEqual
<1>9. QED
  BY <1>8 DEF a

\* What is found under any id is its own, or that of an id it is followed by a NUL in.
LEMMA ScanFinds ==
  ASSUME NEW u \in Users, NEW v \in Users, IsPrefix(u \o <<Nul>>, Key(v))
  PROVE  v = u \/ IsPrefix(u \o <<Nul>>, v)
<1>1. u \in Seq(Bytes) /\ v \in Seq(Bytes) /\ Len(u) \in Nat /\ Len(v) \in Nat
  OBVIOUS
<1>2. Len(u) <= Len(v) /\ Key(v)[Len(u) + 1] = Nul /\ \A i \in 1..Len(u) : u[i] = Key(v)[i]
  BY <1>1, ScanIs
<1>3. \A i \in 1..Len(v) : Key(v)[i] = v[i]
  BY KeyIs
<1>4. CASE Len(u) = Len(v)
  BY <1>1, <1>2, <1>3, <1>4, SeqEqual
<1>5. CASE Len(u) < Len(v)
  <2> DEFINE s == u \o <<Nul>>
             part == SubSeq(v, 1, Len(s))
  <2>1. /\ s \in Seq(Bytes) /\ Len(s) = Len(u) + 1 /\ s[Len(u) + 1] = Nul
        /\ \A i \in 1..Len(u) : s[i] = u[i]
    BY <1>1
  <2> HIDE DEF s
  <2>2. part \in Seq(Bytes) /\ Len(part) = Len(s) /\ \A i \in 1..Len(s) : part[i] = v[i]
    BY <1>1, <1>5, <2>1
  <2>3. \A i \in 1..Len(s) : s[i] = v[i]
    BY <1>1, <1>2, <1>3, <1>5, <2>1
  <2> HIDE DEF part
  <2>4. s = part
    BY <2>1, <2>2, <2>3, SeqEqual
  <2>5. SubSeq(s, 1, Len(s)) = s
    BY <2>1
  <2>6. IsPrefix(s, v)
    BY <1>1, <1>5, <2>1, <2>4, <2>5 DEF IsPrefix, part
  <2>7. QED
    BY <2>6 DEF s
<1>6. QED
  BY <1>1, <1>2, <1>4, <1>5

\* Under an id that is listed a scan finds the whole history, and no more.
LEMMA ListedHistory ==
  ASSUME NEW u \in Listed
  PROVE  Recent(u) = History(events, u)
<1>1. \A v \in Users : IsPrefix(u \o <<Nul>>, Key(v)) <=> UserOf(Key(v)) = u
  BY ListedFinds, ListedOwns
<1>2. QED
  BY <1>1 DEF Recent, History

-----------------------------------------------------------------------------
(* Steps of one call                                                       *)

\* Call t goes on to o; products and events stay as they are.
Moves(t, o) == task' = [task EXCEPT ![t] = o] /\ UNCHANGED <<watched, known, events>>

\* o is of the same kind as call t and as old.
Keeps(t, o) ==
  /\ o.kind = task[t].kind /\ o.alone = task[t].alone /\ o.before = task[t].before
  /\ o.stayed = task[t].stayed /\ o.base = task[t].base /\ o.missed = task[t].missed

LEMMA EventsArePairs ==
  ASSUME WorldOK, NEW e \in events
  PROVE  e = <<e[1], e[2]>> /\ e[1] \in Users /\ e[2] \in Products
  BY DEF WorldOK

\* The products of an event are found under the id a cycle lists for its user.
LEMMA EventsAreFound ==
  ASSUME WorldOK, NEW e \in events
  PROVE  /\ UserOf(Key(e[1])) \in Listed /\ UserOf(Key(e[1])) \in Users
         /\ e[2] \in Recent(UserOf(Key(e[1]))) /\ e[2] \in Products
<1>1. e = <<e[1], e[2]>> /\ e[1] \in Users /\ e[2] \in Products
  BY EventsArePairs
<1>2. UserOf(Key(e[1])) \in Users /\ IsPrefix(UserOf(Key(e[1])) \o <<Nul>>, Key(e[1]))
  BY <1>1, ListedFinds
<1>3. QED
  BY <1>1, <1>2 DEF Listed, Recent

LEMMA IdleFits ==
  Idle \in Calls /\ Fits(Idle) /\ Idle.pc = "idle" /\ ~ Idle.alone
  BY DEF Idle, Calls, Pcs, Fits

LEMMA TablesStay ==
  ASSUME TablesOK, UNCHANGED <<events, tables>>
  PROVE  TablesOK'
  BY DEF TablesOK, tables, ProfilesAreOwn

\* Progress is measured in the tables and in the events.
LEMMA ProgressStays ==
  ASSUME NEW o, Progress(o), UNCHANGED <<watched, events, tables>>
  PROVE  Progress(o)'
<1>1. UNCHANGED <<watched, events, signals, profile, relation>>
  BY DEF tables
<1>2. /\ Counts(o) => Counts(o)'
      /\ Averages(o) => Averages(o)'
  BY <1>1 DEF Counts, Averages, Averaged
<1>3. \A x : Due(o, x)' = Due(o, x)
  BY <1>1 DEF Due
<1>4. /\ Branded(o) => Branded(o)'
      /\ Fresh(o) => Fresh(o)'
  BY <1>1, <1>3 DEF Branded, Fresh
<1>5. Mirrored(o) => Mirrored(o)'
  BY <1>3 DEF Mirrored
<1>6. Tallied(o) => Tallied(o)'
  BY <1>1, <1>3 DEF Tallied, Past
<1>7. QED
  BY <1>1, <1>2, <1>4, <1>5, <1>6 DEF Progress

\* A call that stands at o after a step has the progress of o.
LEMMA ProgressOf ==
  ASSUME NEW u, NEW o, task'[u] = o, Progress(o)'
  PROVE  Progress(task[u])'
<1>1. /\ Counts(o)' => Counts(task[u])'
      /\ Averages(o)' => Averages(task[u])'
  BY DEF Counts, Averages, Averaged
<1>2. \A x : Due(o, x)' = Due(task[u], x)'
  BY DEF Due
<1>3. /\ Branded(o)' => Branded(task[u])'
      /\ Fresh(o)' => Fresh(task[u])'
  BY <1>2 DEF Branded, Fresh
<1>4. Mirrored(o)' => Mirrored(task[u])'
  BY <1>2 DEF Mirrored
<1>5. Tallied(o)' => Tallied(task[u])'
  BY <1>2 DEF Tallied, Past
<1>6. QED
  BY <1>1, <1>3, <1>4, <1>5 DEF Progress

\* What has to be shown of a step of a call: where it goes, and what it stores.
LEMMA StepKeeps ==
  ASSUME AggInv, NEW t \in Tasks, NEW o \in Calls, Moves(t, o), task[t].pc # "idle",
         Fits(o), o.alone => task[t].alone /\ Progress(o)', TablesOK'
  PROVE  AggInv'
<1>1. task \in [Tasks -> Calls] /\ \A u \in Tasks : Fits(task[u])
  BY DEF AggInv, CallsOK
<1>2. task'[t] = o /\ \A u \in Tasks \ {t} : task'[u] = task[u]
  BY <1>1 DEF Moves
<1>3. UNCHANGED <<watched, known, events>>
  BY DEF Moves
<1>4. ASSUME NEW c, Fits(c) PROVE Fits(c)'
  BY <1>3, <1>4 DEF Fits, EventsOf, Recent
<1>5. CallsOK'
  <2>1. task' \in [Tasks -> Calls]
    BY <1>1 DEF Moves
  <2>2. ASSUME NEW u \in Tasks PROVE Fits(task[u])'
    <3>1. PICK c : c = task'[u]
      OBVIOUS
    <3>2. Fits(c)
      BY <1>1, <1>2, <3>1
    <3>3. Fits(c)'
      BY <1>4, <3>2
    <3>4. QED
      BY <3>1, <3>3 DEF Fits, EventsOf, Recent
  <2>3. QED
    BY <2>1, <2>2 DEF CallsOK
<1>6. ASSUME NEW u \in Tasks, task'[u].alone PROVE u = t /\ task[t].alone
  <2>1. CASE u = t
    BY <1>2, <1>6, <2>1
  <2>2. CASE u # t
    <3>1. task[u].alone
      BY <1>2, <1>6, <2>2
    <3>2. task[t].pc = "idle"
      BY <2>2, <3>1 DEF AggInv, AloneIsAlone
    <3>3. QED
      BY <3>2
  <2>3. QED
    BY <2>1, <2>2
<1>7. AloneIsAlone'
  <2> SUFFICES ASSUME NEW u \in Tasks, NEW v \in Tasks, task'[u].alone, v # u
               PROVE  task'[v].pc = "idle"
    BY DEF AloneIsAlone
  <2>1. u = t /\ task[t].alone
    BY <1>6
  <2>2. task[v].pc = "idle" /\ task'[v] = task[v]
    BY <1>2, <2>1 DEF AggInv, AloneIsAlone
  <2>3. QED
    BY <2>2
<1>8. Progresses'
  <2> SUFFICES ASSUME NEW u \in Tasks, task'[u].alone PROVE Progress(task[u])'
    BY DEF Progresses
  <2>1. u = t /\ o = task'[u] /\ o.alone
    BY <1>2, <1>6
  <2>2. Progress(o)'
    BY <2>1
  <2> HIDE DEF Progress
  <2>3. QED
    BY <2>1, <2>2, ProgressOf
<1>9. WorldOK'
  BY <1>3 DEF AggInv, WorldOK
<1>10. QED
  BY <1>5, <1>7, <1>8, <1>9 DEF AggInv

\* A step that gives nothing to do up, and stores nothing.
LEMMA OverKeeps ==
  ASSUME AggInv, NEW t \in Tasks, Moves(t, Idle), task[t].pc # "idle", TablesOK'
  PROVE  AggInv'
  BY IdleFits, StepKeeps

\* What a step of call t reads of the invariant.
LEMMA CallIs ==
  ASSUME AggInv, NEW t \in Tasks
  PROVE  /\ task[t] \in Calls /\ Fits(task[t]) /\ WorldOK /\ TablesOK
         /\ task[t].alone \in BOOLEAN /\ task[t].alone => Progress(task[t])
         /\ task \in [Tasks -> Calls]
<1>1. task[t] \in Calls /\ Fits(task[t]) /\ WorldOK /\ TablesOK /\ task \in [Tasks -> Calls]
  BY DEF AggInv, CallsOK
<1>2. task[t].alone \in BOOLEAN
  BY <1>1 DEF Calls
<1>3. task[t].alone => Progress(task[t])
  BY DEF AggInv, Progresses
<1>4. QED
  BY <1>1, <1>2, <1>3

LEMMA RecomputeKeeps ==
  ASSUME AggInv, NEW t \in Tasks, NEW p \in Products, Recompute(t, p)
  PROVE  AggInv'
<1>0. /\ task[t] \in Calls /\ Fits(task[t]) /\ WorldOK /\ TablesOK
      /\ task[t].alone => Progress(task[t])
  BY CallIs
<1>1. /\ watched = "signals" /\ task[t].pc = "pick" /\ p \in task[t].left
      /\ UNCHANGED <<tables, watched, known, events>>
  BY DEF Recompute, Step, At
<1>2. PICK o \in Calls :
        /\ Moves(t, o) /\ Keeps(t, o) /\ o.pc = "write" /\ o.left = task[t].left \ {p}
        /\ o.todo = task[t].todo /\ o.key = p /\ o.value = EventsOf(p)
  <2> DEFINE value == EventsOf(p)
             n == [task[t] EXCEPT !.pc = "write", !.left = @ \ {p}, !.key = p, !.value = value]
  <2>1. Moves(t, n)
    BY DEF Recompute, Step, Counted, Moves
  <2>2. value \subseteq Clicks
    BY <1>0 DEF EventsOf, WorldOK
  <2> HIDE DEF value
  <2>3. /\ n \in Calls /\ Keeps(t, n) /\ n.pc = "write" /\ n.left = task[t].left \ {p}
        /\ n.todo = task[t].todo /\ n.key = p /\ n.value = value
    BY <1>0, <2>2 DEF Calls, Pcs, Keeps
  <2> HIDE DEF n
  <2>4. QED
    BY <2>1, <2>3 DEF value
<1>3. Fits(o)
  BY <1>0, <1>1, <1>2 DEF Fits, Keeps, Relations
<1>4. ASSUME o.alone PROVE Progress(o)'
  <2>1. Counts(task[t]) /\ UNCHANGED <<watched, signals>>
    BY <1>0, <1>1, <1>2, <1>4 DEF Progress, Keeps, tables
  <2>2. \A e \in o.before : e \in events
    BY <1>0, <1>2 DEF Fits, Keeps
  <2>3. Counts(o)'
    BY <1>1, <1>2, <2>1, <2>2 DEF Counts, Keeps, EventsOf
  <2>4. QED
    BY <1>1, <2>1, <2>3 DEF Progress
<1>5. QED
  BY <1>0, <1>1, <1>2, <1>3, <1>4, StepKeeps, TablesStay DEF Keeps

LEMMA PutSignalsKeeps ==
  ASSUME AggInv, NEW t \in Tasks, PutSignals(t)
  PROVE  AggInv'
<1>0. /\ task[t] \in Calls /\ Fits(task[t]) /\ WorldOK /\ TablesOK
      /\ task[t].alone => Progress(task[t])
  BY CallIs
<1>1. /\ watched = "signals" /\ task[t].pc = "write"
      /\ signals' = [signals EXCEPT ![task[t].key] = task[t].value]
      /\ UNCHANGED <<profile, relation, watched, known, events>>
  BY DEF PutSignals, Step, At
<1>2. PICK o \in Calls :
        /\ Moves(t, o) /\ Keeps(t, o) /\ o.pc = "pick" /\ o.left = task[t].left
        /\ o.todo = task[t].todo /\ o.key = None
  <2> DEFINE n == [task[t] EXCEPT !.pc = "pick", !.key = None, !.value = None]
  <2>1. Moves(t, n)
    BY DEF PutSignals, Step, Moves
  <2>2. /\ n \in Calls /\ Keeps(t, n) /\ n.pc = "pick" /\ n.left = task[t].left
        /\ n.todo = task[t].todo /\ n.key = None
    BY <1>0 DEF Calls, Pcs, Keeps
  <2> HIDE DEF n
  <2>3. QED
    BY <2>1, <2>2
<1>3. Fits(o)
  BY <1>0, <1>1, <1>2 DEF Fits, Keeps, Relations
<1>4. task[t].key \in Products /\ task[t].value \subseteq events /\ task[t].value # None
  <2>1. task[t].key \in Products /\ task[t].value \subseteq events
    BY <1>0, <1>1 DEF Fits, EventsOf
  <2>2. task[t].value \in SUBSET Clicks
    BY <1>0, <2>1 DEF WorldOK
  <2>3. QED
    BY <2>1, <2>2
<1>5. ASSUME o.alone PROVE Progress(o)'
  <2>1. Counts(task[t])
    BY <1>0, <1>1, <1>2, <1>5 DEF Progress, Keeps
  <2>2. \A e \in o.before : e[2] \in Products
    BY <1>0, <1>2, EventsArePairs DEF Fits, Keeps
  <2>3. \A q \in Products : signals'[q] = IF q = task[t].key THEN task[t].value ELSE signals[q]
    BY <1>0, <1>1, <1>4 DEF TablesOK
  <2>4. Counts(o)'
    <3> SUFFICES ASSUME NEW e \in o.before
                 PROVE  e[2] \in o.left \/ (signals'[e[2]] # None /\ e \in signals'[e[2]])
      BY <1>2 DEF Counts
    <3>1. IF task[t].key = e[2] THEN e \in task[t].value
          ELSE e[2] \in task[t].left \/ (signals[e[2]] # None /\ e \in signals[e[2]])
      BY <1>1, <1>2, <2>1 DEF Counts, Keeps
    <3>2. QED
      BY <1>2, <1>4, <2>2, <2>3, <3>1
  <2>5. QED
    BY <1>1, <2>4 DEF Progress
<1>6. TablesOK'
  BY <1>0, <1>1, <1>4 DEF TablesOK, ProfilesAreOwn
<1>7. QED
  BY <1>0, <1>1, <1>2, <1>3, <1>5, <1>6, StepKeeps DEF Keeps

-----------------------------------------------------------------------------
(* Profiles                                                                *)

LEMMA RecommendFromKeeps ==
  ASSUME AggInv, NEW t \in Tasks, RecommendFrom(t)
  PROVE  AggInv'
<1>0. task[t] \in Calls /\ Fits(task[t]) /\ WorldOK /\ TablesOK
  BY CallIs
<1>1. /\ task[t].pc = "recent" /\ watched = "profiles" /\ task[t].key \in Users
      /\ UNCHANGED <<tables, watched, known, events>>
  BY <1>0 DEF RecommendFrom, Step, At, Fits
<1>2. TablesOK'
  BY <1>0, <1>1, TablesStay
<1>3. CASE Recent(task[t].key) = {}
  <2>1. Moves(t, Idle)
    BY <1>3 DEF RecommendFrom, Step, Moves
  <2>2. QED
    BY <1>1, <1>2, <2>1, OverKeeps
<1>4. CASE Recent(task[t].key) # {}
  <2>1. PICK o \in Calls :
          /\ Moves(t, o) /\ Keeps(t, o) /\ o.pc = "walk" /\ o.left = task[t].left
          /\ o.todo = Recent(task[t].key) /\ o.key = task[t].key /\ o.value = {}
    <3> DEFINE recent == Recent(task[t].key)
               n == [task[t] EXCEPT !.pc = "walk", !.todo = recent, !.value = {}]
    <3>1. Moves(t, n)
      BY <1>4 DEF RecommendFrom, Step, Moves
    <3>2. recent \subseteq Products
      BY DEF Recent
    <3> HIDE DEF recent
    <3>3. /\ n \in Calls /\ Keeps(t, n) /\ n.pc = "walk" /\ n.left = task[t].left
          /\ n.todo = recent /\ n.key = task[t].key /\ n.value = {}
      BY <1>0, <3>2 DEF Calls, Pcs, Keeps
    <3> HIDE DEF n
    <3>4. QED
      BY <3>1, <3>3 DEF recent
  <2>2. Fits(o)
    BY <1>0, <1>1, <2>1 DEF Fits, Keeps, Relations
  <2>3. ~ o.alone \/ task[t].kind = "cycle"
    BY <1>0, <2>1 DEF Keeps, Fits
  <2>4. ASSUME o.alone PROVE task[t].alone /\ Progress(o)'
    <3>1. task[t].alone /\ Averages(task[t]) /\ UNCHANGED <<watched, profile>>
      BY <1>1, <2>1, <2>4, CallIs DEF Progress, Keeps, tables
    <3>2. \A e \in o.before : e[2] \in Recent(UserOf(Key(e[1])))
      BY <1>0, <2>1, EventsAreFound DEF Fits, Keeps
    <3>3. Averages(o)'
      BY <1>1, <2>1, <3>1, <3>2 DEF Averages, Averaged, Keeps
    <3>4. QED
      BY <1>1, <3>1, <3>3 DEF Progress
  <2>5. QED
    BY <1>1, <1>2, <2>1, <2>2, <2>4, StepKeeps
<1>5. QED
  BY <1>3, <1>4

LEMMA AccumulateKeeps ==
  ASSUME AggInv, NEW t \in Tasks, NEW p \in Products, Accumulate(t, p)
  PROVE  AggInv'
<1>0. /\ task[t] \in Calls /\ Fits(task[t]) /\ WorldOK /\ TablesOK
      /\ task[t].alone => Progress(task[t])
  BY CallIs
<1>1. /\ task[t].pc = "walk" /\ p \in task[t].todo /\ watched = "profiles"
      /\ UNCHANGED <<tables, watched, known, events>>
      /\ task[t].todo \subseteq Recent(task[t].key) /\ task[t].value \subseteq Recent(task[t].key)
      /\ task[t].value \subseteq Products
  BY <1>0 DEF Accumulate, Step, At, Fits, Recent
<1>2. PICK value : value = IF p \in known THEN task[t].value \cup {p} ELSE task[t].value
  OBVIOUS
<1>3. PICK o \in Calls :
        /\ Moves(t, o) /\ Keeps(t, o) /\ o.pc = "walk" /\ o.left = task[t].left
        /\ o.todo = task[t].todo \ {p} /\ o.key = task[t].key /\ o.value = value
  <2> DEFINE n == [task[t] EXCEPT !.todo = task[t].todo \ {p},
                                  !.value = IF p \in known THEN @ \cup {p} ELSE @]
  <2>1. Moves(t, n)
    BY DEF Accumulate, Rest, Step, Moves
  <2>2. value \subseteq Products
    BY <1>1, <1>2
  <2>3. n = [task[t] EXCEPT !.todo = task[t].todo \ {p}, !.value = value]
    BY <1>2
  <2> HIDE DEF n
  <2>4. /\ n \in Calls /\ Keeps(t, n) /\ n.pc = "walk" /\ n.left = task[t].left
        /\ n.todo = task[t].todo \ {p} /\ n.key = task[t].key /\ n.value = value
    BY <1>0, <1>1, <2>2, <2>3 DEF Calls, Pcs, Keeps
  <2>5. QED
    BY <2>1, <2>4
<1>4. Fits(o)
  BY <1>0, <1>1, <1>2, <1>3 DEF Fits, Keeps, Relations
<1>5. ASSUME o.alone PROVE Progress(o)'
  <2>1. Averages(task[t]) /\ UNCHANGED <<watched, profile>>
    BY <1>0, <1>1, <1>3, <1>5 DEF Progress, Keeps, tables
  <2>2. \A e \in o.before : e[2] \in known
    BY <1>0, <1>1, <1>3 DEF Fits, Keeps
  <2>3. Averages(o)'
    <3> SUFFICES ASSUME NEW e \in o.before, NEW u, u = UserOf(Key(e[1])),
                        <<u, e[2]>> \notin o.missed
                 PROVE  Averaged(o, u, e[2])'
      BY DEF Averages
    <3>1. Averaged(task[t], u, e[2])
      BY <1>1, <1>3, <2>1 DEF Averages, Keeps
    <3>2. CASE o.key = u
      BY <1>1, <1>2, <1>3, <2>2, <3>1, <3>2 DEF Averaged
    <3>3. CASE o.key # u
      BY <1>1, <1>3, <2>1, <3>1, <3>3 DEF Averaged
    <3>4. QED
      BY <3>2, <3>3
  <2>4. QED
    BY <1>1, <2>1, <2>3 DEF Progress
<1>6. QED
  BY <1>0, <1>1, <1>3, <1>4, <1>5, StepKeeps, TablesStay DEF Keeps

\* Where a call stands when it is done with a user.
LEMMA AfterUserIs ==
  ASSUME AggInv, NEW t \in Tasks, task[t].pc = "walk"
  PROVE  \/ task[t].kind = "recommend" /\ AfterUser(t) = Idle
         \/ /\ task[t].kind = "cycle" /\ AfterUser(t) \in Calls
            /\ Keeps(t, AfterUser(t)) /\ AfterUser(t).pc = "pick"
            /\ AfterUser(t).left = task[t].left /\ AfterUser(t).todo = task[t].todo
            /\ AfterUser(t).key = None
<1>0. task[t] \in Calls /\ Fits(task[t])
  BY CallIs
<1>1. CASE task[t].kind = "recommend"
  BY <1>1 DEF AfterUser
<1>2. CASE task[t].kind # "recommend"
  <2>1. task[t].kind = "cycle"
    BY <1>0, <1>2 DEF Fits
  <2> DEFINE n == [task[t] EXCEPT !.pc = "pick", !.key = None, !.value = None]
  <2>2. AfterUser(t) = n
    BY <1>2 DEF AfterUser
  <2>3. /\ n \in Calls /\ Keeps(t, n) /\ n.pc = "pick" /\ n.left = task[t].left
        /\ n.todo = task[t].todo /\ n.key = None
    BY <1>0 DEF Calls, Pcs, Keeps
  <2>4. QED
    BY <2>1, <2>2, <2>3
<1>3. QED
  BY <1>1, <1>2

LEMMA NoProfileKeeps ==
  ASSUME AggInv, NEW t \in Tasks, NoProfile(t)
  PROVE  AggInv'
<1>0. /\ task[t] \in Calls /\ Fits(task[t]) /\ WorldOK /\ TablesOK
      /\ task[t].alone => Progress(task[t])
  BY CallIs
<1>1. /\ task[t].pc = "walk" /\ task[t].todo = {} /\ task[t].value = {} /\ watched = "profiles"
      /\ UNCHANGED <<tables, watched, known, events>>
  BY <1>0 DEF NoProfile, Step, At, Fits
<1>2. Moves(t, AfterUser(t)) /\ TablesOK'
  BY <1>0, <1>1, TablesStay DEF NoProfile, Step, Moves
<1>3. CASE AfterUser(t) = Idle
  BY <1>1, <1>2, <1>3, OverKeeps
<1>4. CASE AfterUser(t) # Idle
  <2>1. PICK o \in Calls : /\ Moves(t, o) /\ Keeps(t, o) /\ o.pc = "pick" /\ o.key = None
                           /\ o.left = task[t].left /\ o.todo = {} /\ task[t].kind = "cycle"
    BY <1>1, <1>2, <1>4, AfterUserIs
  <2>2. Fits(o)
    BY <1>0, <1>1, <2>1 DEF Fits, Keeps, Relations
  <2>3. ASSUME o.alone PROVE Progress(o)'
    <3>1. Averages(task[t]) /\ UNCHANGED <<watched, profile>>
      BY <1>0, <1>1, <2>1, <2>3 DEF Progress, Keeps, tables
    <3>2. Averages(o)'
      BY <1>1, <2>1, <3>1 DEF Averages, Averaged, Keeps
    <3>3. QED
      BY <1>1, <3>1, <3>2 DEF Progress
  <2>4. QED
    BY <1>1, <1>2, <2>1, <2>2, <2>3, StepKeeps DEF Keeps
<1>5. QED
  BY <1>3, <1>4

LEMMA PutProfileKeeps ==
  ASSUME AggInv, NEW t \in Tasks, PutProfile(t)
  PROVE  AggInv'
<1>0. /\ task[t] \in Calls /\ Fits(task[t]) /\ WorldOK /\ TablesOK
      /\ task[t].alone => Progress(task[t])
  BY CallIs
<1>1. /\ task[t].pc = "walk" /\ task[t].todo = {} /\ task[t].value # {} /\ watched = "profiles"
      /\ profile' = [profile EXCEPT ![task[t].key] = task[t].value]
      /\ UNCHANGED <<signals, relation, watched, known, events>>
      /\ task[t].key \in Users /\ task[t].value \subseteq Recent(task[t].key)
  BY <1>0 DEF PutProfile, Step, At, Fits
<1>2. Moves(t, AfterUser(t))
  BY DEF PutProfile, Step, Moves
<1>3. task[t].value \in SUBSET Products /\ task[t].value # None
      /\ \A p \in task[t].value : \E v \in Users :
           <<v, p>> \in events /\ (v = task[t].key \/ IsPrefix(task[t].key \o <<Nul>>, v))
  BY <1>1, ScanFinds DEF Recent
<1>4. \A u \in Users : profile'[u] = IF u = task[t].key THEN task[t].value ELSE profile[u]
  BY <1>0, <1>1 DEF TablesOK
<1>5. TablesOK'
  <2>1. profile' \in [Users -> {None} \cup SUBSET Products]
    BY <1>0, <1>1, <1>3 DEF TablesOK
  <2>2. ProfilesAreOwn'
    BY <1>0, <1>1, <1>3, <1>4 DEF TablesOK, ProfilesAreOwn
  <2>3. QED
    BY <1>0, <1>1, <2>1, <2>2 DEF TablesOK
<1>6. CASE AfterUser(t) = Idle
  BY <1>1, <1>2, <1>5, <1>6, OverKeeps
<1>7. CASE AfterUser(t) # Idle
  <2>1. PICK o \in Calls : /\ Moves(t, o) /\ Keeps(t, o) /\ o.pc = "pick" /\ o.key = None
                           /\ o.left = task[t].left /\ o.todo = {} /\ task[t].kind = "cycle"
    BY <1>1, <1>2, <1>7, AfterUserIs
  <2>2. Fits(o)
    BY <1>0, <1>1, <2>1 DEF Fits, Keeps, Relations
  <2>3. ASSUME o.alone PROVE Progress(o)'
    <3>1. Averages(task[t])
      BY <1>0, <1>1, <2>1, <2>3 DEF Progress, Keeps
    <3>2. \A e \in o.before : UserOf(Key(e[1])) \in Users
      BY <1>0, <2>1, EventsAreFound DEF Fits, Keeps
    <3>3. Averages(o)'
      <4> SUFFICES ASSUME NEW e \in o.before, NEW u \in Users,
                          u = UserOf(Key(e[1])), <<u, e[2]>> \notin o.missed
                   PROVE  Averaged(o, u, e[2])'
        BY <3>2 DEF Averages
      <4>1. Averaged(task[t], u, e[2])
        BY <1>1, <2>1, <3>1 DEF Averages, Keeps
      <4>2. QED
        BY <1>1, <1>3, <1>4, <2>1, <4>1 DEF Averaged
    <3>4. QED
      BY <1>1, <3>3 DEF Progress
  <2>4. QED
    BY <1>1, <1>5, <2>1, <2>2, <2>3, StepKeeps DEF Keeps
<1>8. QED
  BY <1>6, <1>7

LEMMA ProfileFailsKeeps ==
  ASSUME AggInv, NEW t \in Tasks, ProfileFails(t)
  PROVE  AggInv'
<1>0. task[t] \in Calls /\ Fits(task[t]) /\ WorldOK /\ TablesOK
  BY CallIs
<1>1. /\ task[t].pc = "walk" /\ task[t].todo = {} /\ watched = "profiles"
      /\ UNCHANGED <<tables, watched, known, events>>
  BY <1>0 DEF ProfileFails, At, Fits
<1>2. TablesOK'
  BY <1>0, <1>1, TablesStay DEF ProfileFails, TablesOK, tables, ProfilesAreOwn
<1>3. PICK c \in Calls :
        /\ c = AfterUser(t)
        /\ c = Idle \/ (Keeps(t, c) /\ c.pc = "pick" /\ c.key = None
                        /\ c.left = task[t].left /\ c.todo = {} /\ task[t].kind = "cycle")
  BY <1>1, AfterUserIs, IdleFits
<1>4. PICK missed \in SUBSET (Users \X Products) :
        /\ missed = Missing(t, Products)
        /\ task[t].alone => missed = task[t].missed \cup ({task[t].key} \X Products)
  <2>1. task[t].missed \subseteq Users \X Products /\ task[t].key \in Users
    BY <1>0, <1>1 DEF Calls, Fits
  <2>2. Missing(t, Products) \subseteq Users \X Products
    BY <2>1 DEF Missing
  <2>3. task[t].alone => Missing(t, Products) = task[t].missed \cup ({task[t].key} \X Products)
    BY DEF Missing
  <2>4. QED
    BY <2>2, <2>3
<1> DEFINE n == [c EXCEPT !.missed = missed]
<1>5. /\ n \in Calls /\ n.alone = c.alone /\ n.pc = c.pc /\ n.key = c.key /\ n.left = c.left
      /\ n.todo = c.todo /\ n.kind = c.kind /\ n.before = c.before /\ n.stayed = c.stayed
      /\ n.value = c.value /\ n.base = c.base /\ n.missed = missed
  BY <1>4 DEF Calls
<1>6. Moves(t, n)
  BY <1>1, <1>3, <1>4 DEF ProfileFails, Moves
<1> HIDE DEF n
<1>7. Fits(n)
  <2>1. CASE c = Idle
    <3>1. Fits(c) /\ c.pc = "idle"
      BY <2>1, IdleFits
    <3>2. QED
      BY <1>5, <3>1 DEF Fits
  <2>2. CASE c # Idle
    BY <1>0, <1>1, <1>3, <1>5, <2>2 DEF Fits, Keeps, Relations
  <2>3. QED
    BY <2>1, <2>2
<1>8. ASSUME n.alone PROVE task[t].alone /\ Progress(n)'
  <2>1. c # Idle
    BY <1>5, <1>8, IdleFits
  <2>2. Keeps(t, c) /\ c.pc = "pick" /\ c.left = task[t].left /\ task[t].alone
    BY <1>3, <1>5, <1>8, <2>1 DEF Keeps
  <2>3. Averages(task[t]) /\ UNCHANGED <<watched, profile>>
    BY <1>0, <1>1, <2>2, CallIs DEF Progress, tables
  <2>4. \A e \in n.before : UserOf(Key(e[1])) \in Users /\ e[2] \in Products
    BY <1>0, <1>5, <2>2, EventsAreFound DEF Fits, Keeps
  <2>5. Averages(n)'
    <3> SUFFICES ASSUME NEW e \in n.before, NEW u \in Users,
                        u = UserOf(Key(e[1])), <<u, e[2]>> \notin n.missed
                 PROVE  Averaged(n, u, e[2])'
      BY <2>4 DEF Averages
    <3>1. u # task[t].key /\ <<u, e[2]>> \notin task[t].missed
      BY <1>4, <1>5, <2>2, <2>4
    <3>2. Averaged(task[t], u, e[2])
      BY <1>1, <1>5, <2>2, <2>3, <3>1 DEF Averages, Keeps
    <3>3. QED
      BY <1>5, <2>2, <2>3, <3>1, <3>2 DEF Averaged
  <2>6. QED
    BY <1>1, <2>2, <2>3, <2>5 DEF Progress
<1>9. QED
  BY <1>1, <1>2, <1>5, <1>6, <1>7, <1>8, StepKeeps

LEMMA ReadFailsKeeps ==
  ASSUME AggInv, NEW t \in Tasks, NEW p \in Products, ReadFails(t, p)
  PROVE  AggInv'
<1>0. /\ task[t] \in Calls /\ Fits(task[t]) /\ WorldOK /\ TablesOK
      /\ task[t].alone => Progress(task[t])
  BY CallIs
<1>1. /\ task[t].pc = "walk" /\ p \in task[t].todo /\ watched = "profiles"
      /\ task[t].key \in Users /\ UNCHANGED <<tables, watched, known, events>>
  BY <1>0 DEF ReadFails, At, Fits
<1>2. TablesOK'
  BY <1>0, <1>1, TablesStay DEF ReadFails, TablesOK, tables, ProfilesAreOwn
<1>3. PICK missed \in SUBSET (Users \X Products) :
        /\ missed = Missing(t, {p})
        /\ task[t].alone => missed = task[t].missed \cup ({task[t].key} \X {p})
  <2>1. task[t].missed \subseteq Users \X Products
    BY <1>0 DEF Calls
  <2>2. Missing(t, {p}) \subseteq Users \X Products
    BY <1>1, <2>1 DEF Missing
  <2>3. task[t].alone => Missing(t, {p}) = task[t].missed \cup ({task[t].key} \X {p})
    BY DEF Missing
  <2>4. QED
    BY <2>2, <2>3
<1>4. PICK o \in Calls :
        /\ Moves(t, o) /\ o.kind = task[t].kind /\ o.alone = task[t].alone
        /\ o.before = task[t].before /\ o.stayed = task[t].stayed /\ o.base = task[t].base
        /\ o.pc = "walk" /\ o.left = task[t].left /\ o.todo = task[t].todo \ {p}
        /\ o.key = task[t].key /\ o.value = task[t].value /\ o.missed = missed
  <2> DEFINE n == [task[t] EXCEPT !.todo = task[t].todo \ {p}, !.missed = missed]
  <2>1. Moves(t, n)
    BY <1>1, <1>3 DEF ReadFails, Rest, Moves
  <2>2. /\ n \in Calls /\ n.kind = task[t].kind /\ n.alone = task[t].alone
        /\ n.before = task[t].before /\ n.stayed = task[t].stayed /\ n.base = task[t].base
        /\ n.pc = "walk" /\ n.left = task[t].left /\ n.todo = task[t].todo \ {p}
        /\ n.key = task[t].key /\ n.value = task[t].value /\ n.missed = missed
    BY <1>0, <1>1 DEF Calls, Pcs
  <2> HIDE DEF n
  <2>3. QED
    BY <2>1, <2>2
<1>5. Fits(o)
  BY <1>0, <1>1, <1>4 DEF Fits, Relations
<1>6. ASSUME o.alone PROVE Progress(o)'
  <2>1. Averages(task[t]) /\ UNCHANGED <<watched, profile>>
    BY <1>0, <1>1, <1>4, <1>6 DEF Progress, tables
  <2>2. Averages(o)'
    <3> SUFFICES ASSUME NEW e \in o.before, NEW u, u = UserOf(Key(e[1])),
                        <<u, e[2]>> \notin o.missed
                 PROVE  Averaged(o, u, e[2])'
      BY DEF Averages
    <3>1. <<u, e[2]>> \notin task[t].missed /\ (u = task[t].key => e[2] # p)
      BY <1>3, <1>4, <1>6
    <3>2. Averaged(task[t], u, e[2])
      BY <1>1, <1>4, <2>1, <3>1 DEF Averages
    <3>3. QED
      BY <1>1, <1>4, <2>1, <3>1, <3>2 DEF Averaged
  <2>3. QED
    BY <1>1, <2>1, <2>2 DEF Progress
<1>7. QED
  BY <1>1, <1>2, <1>4, <1>5, <1>6, StepKeeps

LEMMA NextUserProfiles ==
  ASSUME AggInv, NEW t \in Tasks, NEW u \in Users, NextUser(t, u), watched = "profiles"
  PROVE  AggInv'
<1>0. /\ task[t] \in Calls /\ Fits(task[t]) /\ WorldOK /\ TablesOK
      /\ task[t].alone => Progress(task[t])
  BY CallIs
<1>1. /\ task[t].pc = "pick" /\ u \in task[t].left
      /\ UNCHANGED <<tables, watched, known, events>>
  BY DEF NextUser, Step, At
<1>2. PICK o \in Calls :
        /\ Moves(t, o) /\ Keeps(t, o) /\ o.pc = "walk" /\ o.left = task[t].left \ {u}
        /\ o.todo = Recent(u) /\ o.key = u /\ o.value = {}
  <2> DEFINE recent == Recent(u)
             n == [task[t] EXCEPT !.pc = "walk", !.left = @ \ {u}, !.key = u,
                                  !.todo = recent, !.value = {}]
  <2>1. Moves(t, n)
    BY DEF NextUser, Step, Moves
  <2>2. recent \subseteq Products
    BY DEF Recent
  <2> HIDE DEF recent
  <2>3. /\ n \in Calls /\ Keeps(t, n) /\ n.pc = "walk" /\ n.left = task[t].left \ {u}
        /\ n.todo = recent /\ n.key = u /\ n.value = {}
    BY <1>0, <2>2 DEF Calls, Pcs, Keeps
  <2> HIDE DEF n
  <2>4. QED
    BY <2>1, <2>3 DEF recent
<1>3. Fits(o)
  BY <1>0, <1>1, <1>2 DEF Fits, Keeps, Relations
<1>4. ASSUME o.alone PROVE Progress(o)'
  <2>1. Averages(task[t]) /\ UNCHANGED <<watched, profile>>
    BY <1>0, <1>1, <1>2, <1>4 DEF Progress, Keeps, tables
  <2>2. \A e \in o.before : e[2] \in Recent(UserOf(Key(e[1])))
    BY <1>0, <1>2, EventsAreFound DEF Fits, Keeps
  <2>3. Averages(o)'
    BY <1>1, <1>2, <2>1, <2>2 DEF Averages, Averaged, Keeps
  <2>4. QED
    BY <2>1, <2>3 DEF Progress
<1>5. QED
  BY <1>0, <1>1, <1>2, <1>3, <1>4, StepKeeps, TablesStay DEF Keeps

-----------------------------------------------------------------------------
(* Relations                                                               *)

LEMMA MirrorIsPair ==
  ASSUME NEW x \in Pairs
  PROVE  <<x[2], x[1]>> \in Pairs /\ x[1] \in Products /\ x[2] \in Products
  BY DEF Pairs

\* A step between list and done that leaves the score due to every pair as it is.
LEMMA DueStays ==
  ASSUME AggInv, NEW t \in Tasks, NEW o \in Calls, Keeps(t, o), o.left = task[t].left,
         task[t].alone, UNCHANGED <<watched, events>>, watched \in Relations,
         o.pc # "list", task[t].pc # "list",
         \A x \in Pairs : Due(o, x)' = Due(task[t], x), Fresh(o)'
  PROVE  Progress(o)'
<1>1. Progress(task[t])
  BY CallIs
<1>2. CASE watched = "brand"
  <2>1. Branded(task[t])
    BY <1>1, <1>2 DEF Progress
  <2> SUFFICES Branded(o)'
    BY <1>2 DEF Progress
  <2> SUFFICES ASSUME NEW x \in Pairs
               PROVE  /\ Due(o, x)' \in {o.base[x], Add(o.base[x], 1)}
                      /\ /\ {x[1], x[2]} \subseteq o.stayed
                         /\ Cardinality({c \in Products : c < x[2]}) < Peers
                         => Due(o, x)' = Add(o.base[x], 1)
    BY DEF Branded
  <2>2. Due(o, x)' = Due(task[t], x)
    OBVIOUS
  <2>3. QED
    BY <2>1, <2>2 DEF Branded, Keeps
<1>3. CASE watched = "co_purchased"
  <2>1. Tallied(task[t]) /\ Mirrored(task[t])
    BY <1>1, <1>3 DEF Progress
  <2>2. Past(o, o.before) = Past(task[t], task[t].before)
        /\ Past(o, events)' = Past(task[t], events)
    BY DEF Past, Keeps
  <2>3. Tallied(o)'
    <3> SUFFICES ASSUME NEW x \in Pairs
                 PROVE  Due(o, x)' \in Add(o.base[x], Both(Past(o, o.before), x))
                                       ..Add(o.base[x], Both(Past(o, events)', x))
      BY DEF Tallied
    <3>1. Due(o, x)' = Due(task[t], x)
      OBVIOUS
    <3>2. Due(task[t], x) \in Add(task[t].base[x], Both(Past(task[t], task[t].before), x))
                              ..Add(task[t].base[x], Both(Past(task[t], events), x))
      BY <2>1 DEF Tallied
    <3>3. QED
      BY <2>2, <3>1, <3>2 DEF Keeps
  <2>4. Mirrored(o)'
    <3> SUFFICES ASSUME Symmetric(o.base), NEW x \in Pairs
                 PROVE  Due(o, x)' = Due(o, <<x[2], x[1]>>)'
      BY DEF Mirrored
    <3>1. Due(task[t], x) = Due(task[t], <<x[2], x[1]>>)
      BY <2>1 DEF Mirrored, Keeps
    <3>2. QED
      BY <3>1, MirrorIsPair
  <2>5. QED
    BY <1>3, <2>3, <2>4 DEF Progress
<1>4. QED
  BY <1>2, <1>3 DEF Relations

LEMMA ReadScoreKeeps ==
  ASSUME AggInv, NEW t \in Tasks, NEW x \in Pairs, ReadScore(t, x)
  PROVE  AggInv'
<1>0. /\ task[t] \in Calls /\ Fits(task[t]) /\ WorldOK /\ TablesOK
      /\ task[t].alone => Progress(task[t])
  BY CallIs
<1>1. /\ task[t].pc = "pairs" /\ task[t].key = None /\ x \in task[t].todo /\ watched \in Relations
      /\ UNCHANGED <<tables, watched, known, events, relation>>
      /\ relation[x] \in 0..MaxScore /\ None \notin Pairs
  BY <1>0 DEF ReadScore, Step, At, Fits, tables, TablesOK, Pairs
<1>2. PICK o \in Calls :
        /\ Moves(t, o) /\ Keeps(t, o) /\ o.pc = "pairs" /\ o.left = task[t].left
        /\ o.todo = task[t].todo \ {x} /\ o.key = x /\ o.value = relation[x]
  <2> DEFINE n == [task[t] EXCEPT !.todo = @ \ {x}, !.key = x, !.value = relation[x]]
  <2>1. Moves(t, n)
    BY DEF ReadScore, Step, Moves
  <2>2. /\ n \in Calls /\ Keeps(t, n) /\ n.pc = "pairs" /\ n.left = task[t].left
        /\ n.todo = task[t].todo \ {x} /\ n.key = x /\ n.value = relation[x]
    BY <1>0, <1>1 DEF Calls, Pcs, Keeps
  <2> HIDE DEF n
  <2>3. QED
    BY <2>1, <2>2
<1>3. Fits(o)
  BY <1>0, <1>1, <1>2 DEF Fits, Keeps, Relations
<1>4. ASSUME NEW y \in Pairs PROVE Due(o, y)' = Due(task[t], y)
  BY <1>1, <1>2 DEF Due
<1>5. Fresh(o)'
  BY <1>1, <1>2 DEF Fresh
<1>6. o.alone => Progress(o)'
  BY <1>1, <1>2, <1>4, <1>5, DueStays DEF Keeps
<1>7. QED
  BY <1>0, <1>1, <1>2, <1>3, <1>6, StepKeeps, TablesStay DEF Keeps

LEMMA WriteScoreKeeps ==
  ASSUME AggInv, NEW t \in Tasks, WriteScore(t)
  PROVE  AggInv'
<1>0. /\ task[t] \in Calls /\ Fits(task[t]) /\ WorldOK /\ TablesOK
      /\ task[t].alone => Progress(task[t])
  BY CallIs
<1> DEFINE x == task[t].key
<1>1. /\ task[t].pc = "pairs" /\ x \in Pairs /\ watched \in Relations
      /\ relation' = [relation EXCEPT ![x] = Add(task[t].value, 1)]
      /\ UNCHANGED <<signals, profile, watched, known, events>>
      /\ x \notin task[t].todo /\ task[t].value \in 0..MaxScore /\ None \notin Pairs
  BY <1>0 DEF WriteScore, Step, At, Fits, Pairs, NewScore
<1>2. PICK o \in Calls :
        /\ Moves(t, o) /\ Keeps(t, o) /\ o.pc = "pairs" /\ o.left = task[t].left
        /\ o.todo = task[t].todo /\ o.key = None
  <2> DEFINE n == [task[t] EXCEPT !.key = None, !.value = None]
  <2>1. Moves(t, n)
    BY DEF WriteScore, Step, Moves
  <2>2. /\ n \in Calls /\ Keeps(t, n) /\ n.pc = "pairs" /\ n.left = task[t].left
        /\ n.todo = task[t].todo /\ n.key = None
    BY <1>0, <1>1 DEF Calls, Pcs, Keeps
  <2> HIDE DEF n
  <2>3. QED
    BY <2>1, <2>2
<1>3. Fits(o)
  BY <1>0, <1>1, <1>2 DEF Fits, Keeps, Relations
<1>4. /\ relation' \in [Pairs -> 0..MaxScore]
      /\ \A y \in Pairs : relation'[y] = IF y = x THEN Add(task[t].value, 1) ELSE relation[y]
  <2>1. Add(task[t].value, 1) \in 0..MaxScore
    BY <1>1, AddIsSaturating
  <2>2. QED
    BY <1>0, <1>1, <2>1 DEF TablesOK
<1>5. TablesOK'
  BY <1>0, <1>1, <1>4 DEF TablesOK, ProfilesAreOwn
<1>6. ASSUME task[t].alone PROVE Progress(o)'
  <2>1. task[t].value = relation[x]
    BY <1>0, <1>1, <1>6 DEF Progress, Fresh, Relations
  <2>2. ASSUME NEW y \in Pairs PROVE Due(o, y)' = Due(task[t], y)
    <3>1. CASE y = x
      <4>1. Due(task[t], y) = Add(relation[x], 1)
        BY <1>1, <3>1 DEF Due
      <4>2. Due(o, y)' = relation'[y]
        BY <1>1, <1>2, <3>1 DEF Due
      <4>3. QED
        BY <1>1, <1>4, <2>1, <3>1, <4>1, <4>2
    <3>2. CASE y # x
      BY <1>1, <1>2, <1>4, <3>2 DEF Due
    <3>3. QED
      BY <3>1, <3>2
  <2>3. Fresh(o)'
    BY <1>2 DEF Fresh
  <2>4. QED
    BY <1>1, <1>2, <1>6, <2>2, <2>3, DueStays
<1>7. QED
  BY <1>1, <1>2, <1>3, <1>5, <1>6, StepKeeps DEF Keeps

LEMMA PairsDoneKeeps ==
  ASSUME AggInv, NEW t \in Tasks, PairsDone(t)
  PROVE  AggInv'
<1>0. /\ task[t] \in Calls /\ Fits(task[t]) /\ WorldOK /\ TablesOK
  BY CallIs
<1>1. /\ task[t].pc = "pairs" /\ task[t].key = None /\ task[t].todo = {} /\ watched \in Relations
      /\ UNCHANGED <<tables, watched, known, events, relation>> /\ None \notin Pairs
  BY <1>0 DEF PairsDone, Step, At, Fits, tables, Pairs
<1>2. PICK o \in Calls :
        /\ Moves(t, o) /\ Keeps(t, o) /\ o.pc = "pick" /\ o.left = task[t].left
        /\ o.todo = task[t].todo /\ o.key = task[t].key
  <2> DEFINE n == [task[t] EXCEPT !.pc = "pick"]
  <2>1. Moves(t, n)
    BY DEF PairsDone, Step, Moves
  <2>2. /\ n \in Calls /\ Keeps(t, n) /\ n.pc = "pick" /\ n.left = task[t].left
        /\ n.todo = task[t].todo /\ n.key = task[t].key
    BY <1>0 DEF Calls, Pcs, Keeps
  <2> HIDE DEF n
  <2>3. QED
    BY <2>1, <2>2
<1>3. Fits(o)
  BY <1>0, <1>1, <1>2 DEF Fits, Keeps, Relations
<1>4. ASSUME NEW y \in Pairs PROVE Due(o, y)' = Due(task[t], y)
  BY <1>1, <1>2 DEF Due
<1>5. Fresh(o)'
  BY <1>2 DEF Fresh
<1>6. o.alone => Progress(o)'
  BY <1>1, <1>2, <1>4, <1>5, DueStays DEF Keeps
<1>7. QED
  BY <1>0, <1>1, <1>2, <1>3, <1>6, StepKeeps, TablesStay DEF Keeps

LEMMA CompleteKeeps ==
  ASSUME AggInv, NEW t \in Tasks, Complete(t)
  PROVE  AggInv'
<1>0. /\ task[t] \in Calls /\ Fits(task[t]) /\ WorldOK /\ TablesOK
      /\ task[t].alone => Progress(task[t])
  BY CallIs
<1>1. /\ task[t].pc = "pick" /\ task[t].left = {} /\ task[t].todo = {} /\ watched \in Parts
      /\ UNCHANGED <<tables, watched, known, events, relation, signals, profile>>
  BY <1>0 DEF Complete, Step, At, Fits, tables, WorldOK
<1>2. PICK o \in Calls :
        /\ Moves(t, o) /\ Keeps(t, o) /\ o.pc = "done" /\ o.left = task[t].left
        /\ o.todo = task[t].todo
  <2> DEFINE n == [task[t] EXCEPT !.pc = "done"]
  <2>1. Moves(t, n)
    BY DEF Complete, Step, Moves
  <2>2. /\ n \in Calls /\ Keeps(t, n) /\ n.pc = "done" /\ n.left = task[t].left
        /\ n.todo = task[t].todo
    BY <1>0 DEF Calls, Pcs, Keeps
  <2> HIDE DEF n
  <2>3. QED
    BY <2>1, <2>2
<1>3. Fits(o)
  BY <1>0, <1>1, <1>2 DEF Fits, Keeps, Relations
<1>4. ASSUME task[t].alone PROVE Progress(o)'
  <2>1. CASE watched \in Relations
    <3>1. ASSUME NEW y \in Pairs PROVE Due(o, y)' = Due(task[t], y)
      BY <1>1, <1>2 DEF Due
    <3>2. Fresh(o)'
      BY <1>2 DEF Fresh
    <3>3. QED
      BY <1>1, <1>2, <1>4, <2>1, <3>1, <3>2, DueStays
  <2>2. CASE watched = "signals"
    BY <1>0, <1>1, <1>2, <1>4, <2>2 DEF Progress, Counts, Keeps
  <2>3. CASE watched = "profiles"
    BY <1>0, <1>1, <1>2, <1>4, <2>3 DEF Progress, Averages, Averaged, Keeps
  <2>4. QED
    BY <1>1, <2>1, <2>2, <2>3 DEF Parts
<1>5. QED
  BY <1>0, <1>1, <1>2, <1>3, <1>4, StepKeeps, TablesStay DEF Keeps

LEMMA ReturnKeeps ==
  ASSUME AggInv, NEW t \in Tasks, Return(t) \/ Abandon(t)
  PROVE  AggInv'
<1>0. task[t] \in Calls /\ TablesOK
  BY CallIs
<1>1. Moves(t, Idle) /\ task[t].pc # "idle" /\ UNCHANGED <<events, tables>>
  BY DEF Return, Abandon, Step, Moves, At, Running
<1>2. TablesOK'
  BY <1>0, <1>1, TablesStay
<1>3. QED
  BY <1>1, <1>2, OverKeeps

\* The cycle comes to user u, whose events count from now on.
LEMMA NextUserPairs ==
  ASSUME AggInv, NEW t \in Tasks, NEW u \in Users, NextUser(t, u), watched = "co_purchased"
  PROVE  AggInv'
<1>0. /\ task[t] \in Calls /\ Fits(task[t]) /\ WorldOK /\ TablesOK
      /\ task[t].alone => Progress(task[t])
  BY CallIs
<1>1. /\ task[t].pc = "pick" /\ u \in task[t].left /\ task[t].key = None
      /\ UNCHANGED <<tables, watched, known, events, relation>> /\ None \notin Pairs
      /\ u \in Listed
  BY <1>0 DEF NextUser, Step, At, Fits, tables, Pairs
<1>2. PICK o \in Calls :
        /\ Moves(t, o) /\ Keeps(t, o) /\ o.pc = "pairs" /\ o.left = task[t].left \ {u}
        /\ o.todo = CoPairs(Recent(u)) /\ o.key = None
  <2> DEFINE pairs == CoPairs(Recent(u))
             n == [task[t] EXCEPT !.pc = "pairs", !.left = @ \ {u}, !.todo = pairs]
  <2>1. Moves(t, n)
    BY DEF NextUser, Step, Moves
  <2>2. pairs \subseteq Pairs
    BY DEF CoPairs
  <2> HIDE DEF pairs
  <2>3. /\ n \in Calls /\ Keeps(t, n) /\ n.pc = "pairs" /\ n.left = task[t].left \ {u}
        /\ n.todo = pairs /\ n.key = task[t].key
    BY <1>0, <2>2 DEF Calls, Pcs, Keeps
  <2> HIDE DEF n
  <2>4. QED
    BY <1>1, <2>1, <2>3 DEF pairs
<1>3. \A x \in Pairs : x \in o.todo <=> {x[1], x[2]} \subseteq History(events, u)
  BY <1>1, <1>2, ListedHistory DEF CoPairs
<1>4. Fits(o)
  <2>1. o.todo \subseteq Pairs
    BY <1>2 DEF CoPairs
  <2>2. QED
    BY <1>0, <1>1, <1>2, <2>1 DEF Fits, Keeps, Relations
<1>5. ASSUME o.alone PROVE Progress(o)'
  <2> DEFINE old == Past(task[t], task[t].before)
             new == Past(o, task[t].before)
             oldAll == Past(task[t], events)
             newAll == Past(o, events)
  <2>1. Tallied(task[t]) /\ Mirrored(task[t]) /\ o.base \in [Pairs -> 0..MaxScore]
        /\ task[t].before \subseteq events
    BY <1>0, <1>2, <1>5 DEF Progress, Keeps, Fits, Relations
  <2>2. /\ old = {e \in new : UserOf(Key(e[1])) # u} /\ new \subseteq events
        /\ oldAll = {e \in newAll : UserOf(Key(e[1])) # u} /\ newAll \subseteq events
        /\ IsFiniteSet(new) /\ IsFiniteSet(newAll)
    <3>1. old = {e \in new : UserOf(Key(e[1])) # u} /\ oldAll = {e \in newAll : UserOf(Key(e[1])) # u}
      BY <1>1, <1>2 DEF Past
    <3>2. new \subseteq events /\ newAll \subseteq events
      BY <2>1 DEF Past
    <3>3. IsFiniteSet(events)
      BY <1>0 DEF WorldOK
    <3>4. QED
      BY <3>1, <3>2, <3>3, FS_Subset
  <2>4. Past(o, o.before)' = new /\ Past(o, events)' = newAll
    BY <1>1, <1>2 DEF Past, Keeps
  <2>5. Tallied(o)'
    <3> SUFFICES ASSUME NEW x \in Pairs
                 PROVE  Due(o, x)' \in Add(o.base[x], Both(new, x))..Add(o.base[x], Both(newAll, x))
      BY <2>4 DEF Tallied
    <3> HIDE DEF new, old, newAll, oldAll
    <3>1. relation[x] \in Add(o.base[x], Both(old, x))..Add(o.base[x], Both(oldAll, x))
      BY <1>1, <1>2, <2>1 DEF Tallied, Due, Keeps, old, oldAll
    <3>2. /\ Both(old, x) \in Nat /\ Both(oldAll, x) \in Nat
          /\ Both(new, x) \in {Both(old, x), Both(old, x) + 1}
          /\ Both(newAll, x) = IF {x[1], x[2]} \subseteq History(newAll, u)
                               THEN Both(oldAll, x) + 1 ELSE Both(oldAll, x)
          /\ Both(new, x) = IF {x[1], x[2]} \subseteq History(new, u)
                            THEN Both(old, x) + 1 ELSE Both(old, x)
      BY <2>2, BothAndOne
    <3>3. History(newAll, u) = History(events, u) /\ History(new, u) \subseteq History(events, u)
      <4>1. \A e \in events : UserOf(Key(e[1])) = u => e \in newAll
        BY <1>2 DEF Past, newAll
      <4>2. QED
        BY <2>2, <4>1 DEF History
    <3>4. o.base[x] \in 0..MaxScore /\ relation[x] \in 0..MaxScore
      BY <1>0, <2>1 DEF TablesOK
    <3>5. CASE {x[1], x[2]} \subseteq History(events, u)
      <4>1. Due(o, x)' = Add(relation[x], 1)
        BY <1>1, <1>2, <1>3, <3>5 DEF Due
      <4>2. Both(newAll, x) = Both(oldAll, x) + 1
        BY <3>2, <3>3, <3>5
      <4>3. Both(new, x) <= Both(old, x) + 1 /\ Both(new, x) \in Nat
        BY <3>2
      <4>4. Add(relation[x], 1) \in Add(o.base[x], Both(new, x))..Add(o.base[x], Both(oldAll, x) + 1)
        BY <3>1, <3>2, <3>4, <4>3, OneUserMore
      <4>5. QED
        BY <4>1, <4>2, <4>4
    <3>6. CASE ~ ({x[1], x[2]} \subseteq History(events, u))
      <4>1. Due(o, x)' = relation[x]
        BY <1>1, <1>2, <1>3, <3>6 DEF Due
      <4>2. Both(newAll, x) = Both(oldAll, x) /\ Both(new, x) = Both(old, x)
        BY <2>2, <3>2, <3>3, <3>6
      <4>3. QED
        BY <3>1, <4>1, <4>2
    <3>7. QED
      BY <3>5, <3>6
  <2>6. Mirrored(o)'
    <3> SUFFICES ASSUME Symmetric(o.base), NEW x \in Pairs
                 PROVE  Due(o, x)' = Due(o, <<x[2], x[1]>>)'
      BY DEF Mirrored
    <3>1. relation[x] = relation[<<x[2], x[1]>>]
      BY <1>1, <1>2, <2>1 DEF Mirrored, Due, Keeps
    <3>2. x \in o.todo <=> <<x[2], x[1]>> \in o.todo
      BY <1>3, MirrorIsPair
    <3>3. x # o.key /\ <<x[2], x[1]>> # o.key
      BY <1>1, <1>2, MirrorIsPair
    <3>4. QED
      BY <1>1, <1>2, <3>1, <3>2, <3>3 DEF Due
  <2>7. Fresh(o)'
    BY <1>2 DEF Fresh
  <2>8. QED
    BY <1>1, <2>5, <2>6, <2>7 DEF Progress
<1>6. QED
  BY <1>0, <1>1, <1>2, <1>4, <1>5, StepKeeps, TablesStay DEF Keeps

-----------------------------------------------------------------------------
(* The part opens                                                          *)

\* Nothing counts as done before the part opens, and no one without events after.
LEMMA NothingBefore ==
  ASSUME NEW x
  PROVE  Both({}, x) = 0
<1>1. UsersOfBoth({}, x) = {}
  BY DEF UsersOfBoth, History
<1>2. QED
  BY <1>1, BothIsFinite, FS_EmptySet

LEMMA ListKeeps ==
  ASSUME AggInv, NEW t \in Tasks, List(t)
  PROVE  AggInv'
<1>0. /\ task[t] \in Calls /\ Fits(task[t]) /\ WorldOK /\ TablesOK
      /\ task[t].alone => Progress(task[t])
  BY CallIs
<1>1. /\ task[t].pc = "list" /\ task[t].left = {} /\ task[t].todo = {} /\ task[t].key = None
      /\ UNCHANGED <<tables, watched, known, events, relation>>
      /\ watched \in Parts /\ None \notin Pairs
  BY <1>0 DEF List, Step, At, Fits, tables, WorldOK, Pairs
<1>2. CASE watched = "signals"
  <2>1. PICK o \in Calls :
          /\ Moves(t, o) /\ Keeps(t, o) /\ o.pc = "pick" /\ o.left = known
          /\ o.todo = {} /\ o.key = None
    <3> DEFINE n == [task[t] EXCEPT !.pc = "pick", !.left = known]
    <3>1. Moves(t, n)
      BY <1>2 DEF List, Step, Moves
    <3>2. /\ n \in Calls /\ Keeps(t, n) /\ n.pc = "pick" /\ n.left = known
          /\ n.todo = {} /\ n.key = None
      BY <1>0, <1>1 DEF Calls, Pcs, Keeps, WorldOK
    <3> HIDE DEF n
    <3>3. QED
      BY <3>1, <3>2
  <2>2. Fits(o)
    BY <1>0, <1>1, <1>2, <2>1 DEF Fits, Keeps, Relations, WorldOK
  <2>3. Progress(o)'
    BY <1>0, <1>1, <1>2, <2>1 DEF Progress, Counts, Fits, Keeps
  <2>4. QED
    BY <1>0, <1>1, <2>1, <2>2, <2>3, StepKeeps, TablesStay DEF Keeps
<1>3. CASE watched = "brand"
  <2>1. PICK o \in Calls :
          /\ Moves(t, o) /\ Keeps(t, o) /\ o.pc = "pairs" /\ o.left = {}
          /\ o.todo = BrandPairs(known) /\ o.key = None
    <3> DEFINE pairs == BrandPairs(known)
               n == [task[t] EXCEPT !.pc = "pairs", !.todo = pairs]
    <3>1. Moves(t, n)
      BY <1>3 DEF List, Step, Moves
    <3>2. pairs \subseteq Pairs
      BY DEF BrandPairs
    <3> HIDE DEF pairs
    <3>3. /\ n \in Calls /\ Keeps(t, n) /\ n.pc = "pairs" /\ n.left = {}
          /\ n.todo = pairs /\ n.key = None
      BY <1>0, <1>1, <3>2 DEF Calls, Pcs, Keeps
    <3> HIDE DEF n
    <3>4. QED
      BY <3>1, <3>3 DEF pairs
  <2>2. Fits(o)
    <3>1. o.todo \subseteq Pairs
      BY <2>1 DEF BrandPairs
    <3>2. QED
      BY <1>0, <1>1, <1>3, <2>1, <3>1 DEF Fits, Keeps, Relations
  <2>3. ASSUME o.alone PROVE Progress(o)'
    <3>1. Branded(task[t])
      BY <1>0, <1>3, <2>1, <2>3 DEF Progress, Keeps
    <3>2. o.stayed \subseteq known /\ known \subseteq Products
      BY <1>0, <2>1 DEF Fits, Keeps, WorldOK
    <3>3. Branded(o)'
      <4> SUFFICES ASSUME NEW x \in Pairs
                   PROVE  /\ Due(o, x)' \in {o.base[x], Add(o.base[x], 1)}
                          /\ /\ {x[1], x[2]} \subseteq o.stayed
                             /\ Cardinality({c \in Products : c < x[2]}) < Peers
                             => Due(o, x)' = Add(o.base[x], 1)
        BY <2>1 DEF Branded
      <4>1. Due(o, x)' = IF x \in BrandPairs(known) THEN Add(o.base[x], 1) ELSE o.base[x]
        BY <1>1, <2>1, <3>1 DEF Branded, Due, Keeps
      <4>2. ASSUME {x[1], x[2]} \subseteq o.stayed,
                   Cardinality({c \in Products : c < x[2]}) < Peers
            PROVE  x \in BrandPairs(known)
        <5> DEFINE all  == {c \in Products : c < x[2]}
                   here == {c \in known : c < x[2]}
        <5>1. IsFiniteSet(all) /\ here \in SUBSET all
          BY <3>2, FS_Subset
        <5>2. Cardinality(here) <= Cardinality(all) /\ IsFiniteSet(here)
          BY <5>1, FS_Subset
        <5>3. Cardinality(here) \in Nat /\ Cardinality(all) \in Nat
          BY <5>1, <5>2, FS_CardinalityType
        <5>4. Cardinality(here) < Peers
          BY <4>2, <5>2, <5>3
        <5>5. QED
          BY <3>2, <4>2, <5>4 DEF BrandPairs, First
      <4>3. QED
        BY <4>1, <4>2
    <3>4. Fresh(o)'
      BY <2>1 DEF Fresh
    <3>5. QED
      BY <1>1, <1>3, <3>3, <3>4 DEF Progress
  <2>4. QED
    BY <1>0, <1>1, <2>1, <2>2, <2>3, StepKeeps, TablesStay DEF Keeps
<1>4. CASE watched \in {"profiles", "co_purchased"}
  <2>1. PICK o \in Calls :
          /\ Moves(t, o) /\ Keeps(t, o) /\ o.pc = "pick" /\ o.left = Active
          /\ o.todo = {} /\ o.key = None
    <3> DEFINE active == Active
               n == [task[t] EXCEPT !.pc = "pick", !.left = active]
    <3>1. Moves(t, n)
      BY <1>4 DEF List, Step, Moves
    <3>2. active \subseteq Users
      BY <1>0, EventsAreFound DEF Active
    <3> HIDE DEF active
    <3>3. /\ n \in Calls /\ Keeps(t, n) /\ n.pc = "pick" /\ n.left = active
          /\ n.todo = {} /\ n.key = None
      BY <1>0, <1>1, <3>2 DEF Calls, Pcs, Keeps
    <3> HIDE DEF n
    <3>4. QED
      BY <3>1, <3>3 DEF active
  <2>2. Fits(o)
    <3>1. o.left \subseteq Listed
      BY <1>0, <2>1, EventsAreFound DEF Active
    <3>2. QED
      BY <1>0, <1>1, <1>4, <2>1, <3>1 DEF Fits, Keeps, Relations
  <2>3. \A e \in events : UserOf(Key(e[1])) \in o.left
    BY <2>1 DEF Active
  <2>4. o.before \subseteq events
    BY <1>0, <2>1 DEF Fits, Keeps
  <2>5. CASE watched = "profiles"
    <3>1. Progress(o)'
      BY <1>1, <2>1, <2>3, <2>4, <2>5 DEF Progress, Averages, Averaged
    <3>2. QED
      BY <1>0, <1>1, <2>1, <2>2, <3>1, StepKeeps, TablesStay DEF Keeps
  <2>6. CASE watched = "co_purchased"
    <3>1. ASSUME o.alone PROVE Progress(o)'
      <4>1. Tallied(task[t]) /\ Mirrored(task[t])
        BY <1>0, <2>1, <2>6, <3>1 DEF Progress, Keeps
      <4>2. Past(o, o.before)' = {} /\ Past(o, events)' = {}
            /\ Past(task[t], task[t].before) = {} /\ Past(task[t], events) = {}
        BY <1>1, <2>1, <2>3, <2>4 DEF Past
      <4>3. ASSUME NEW x \in Pairs PROVE Due(o, x)' = Due(task[t], x)
        BY <1>1, <2>1 DEF Due
      <4>4. Tallied(o)'
        BY <2>1, <4>1, <4>2, <4>3 DEF Tallied, Keeps
      <4>5. Mirrored(o)'
        BY <2>1, <4>1, <4>3, MirrorIsPair DEF Mirrored, Keeps
      <4>6. Fresh(o)'
        BY <2>1 DEF Fresh
      <4>7. QED
        BY <1>1, <2>6, <4>4, <4>5, <4>6 DEF Progress
    <3>2. QED
      BY <1>0, <1>1, <2>1, <2>2, <3>1, StepKeeps, TablesStay DEF Keeps
  <2>7. QED
    BY <1>4, <2>5, <2>6
<1>5. QED
  BY <1>1, <1>2, <1>3, <1>4 DEF Parts, Relations

-----------------------------------------------------------------------------
(* Calls begin, events and products come and go                            *)

\* A call begins: none before it overlaps no other from here on.
LEMMA EnterKeeps ==
  ASSUME AggInv, NEW t \in Tasks, NEW o \in Calls, Enter(t, o), Fits(o),
         o.alone => (\A u \in Tasks : task[u].pc = "idle") /\ Progress(o)
  PROVE  AggInv'
<1>0. WorldOK /\ TablesOK /\ task \in [Tasks -> Calls] /\ \A u \in Tasks : Fits(task[u])
  BY DEF AggInv, CallsOK
<1>1. UNCHANGED <<watched, known, events, tables, signals, profile, relation>>
  BY DEF Enter, tables
<1> DEFINE other(u) == [task[u] EXCEPT !.alone = FALSE, !.before = {}, !.stayed = {},
                                       !.base = None, !.missed = {}]
<1>2. task' = [u \in Tasks |-> IF u = t THEN o ELSE other(u)]
  BY DEF Enter
<1>3. ASSUME NEW u \in Tasks
      PROVE  /\ other(u) \in Calls /\ Fits(other(u)) /\ ~ other(u).alone
             /\ other(u).pc = task[u].pc
  <2> DEFINE n == other(u)
  <2>1. /\ n \in Calls /\ ~ n.alone /\ n.pc = task[u].pc /\ n.kind = task[u].kind
        /\ n.left = task[u].left /\ n.todo = task[u].todo /\ n.key = task[u].key
        /\ n.value = task[u].value /\ n.before = {} /\ n.stayed = {}
    BY <1>0 DEF Calls
  <2> HIDE DEF n
  <2>2. Fits(n)
    BY <1>0, <2>1 DEF Fits
  <2>3. QED
    BY <2>1, <2>2 DEF n
<1>4. task'[t] = o /\ \A u \in Tasks \ {t} : task'[u] = other(u)
  BY <1>2
<1>5. task' \in [Tasks -> Calls]
  BY <1>2, <1>3
<1> HIDE DEF other
<1>6. ASSUME NEW u \in Tasks PROVE Fits(task[u])'
  <2>1. PICK c : c = task'[u]
    OBVIOUS
  <2>2. Fits(c)
    BY <1>3, <1>4, <2>1
  <2>3. QED
    BY <1>1, <2>1, <2>2 DEF Fits, EventsOf, Recent
<1>7. \A u \in Tasks : task'[u].alone => u = t /\ o.alone
  BY <1>3, <1>4
<1>8. AloneIsAlone'
  BY <1>3, <1>4, <1>7 DEF AloneIsAlone
<1>9. Progresses'
  <2> SUFFICES ASSUME NEW u \in Tasks, task'[u].alone PROVE Progress(task[u])'
    BY DEF Progresses
  <2>1. task'[u] = o /\ Progress(o)
    BY <1>4, <1>7
  <2>2. Progress(o)'
    BY <1>1, <2>1, ProgressStays
  <2>3. QED
    BY <2>1, <2>2, ProgressOf
<1>10. QED
  BY <1>0, <1>1, <1>5, <1>6, <1>8, <1>9, TablesStay DEF AggInv, CallsOK, WorldOK

LEMMA BeginCycleKeeps ==
  ASSUME AggInv, NEW t \in Tasks, BeginCycle(t)
  PROVE  AggInv'
<1>0. WorldOK /\ TablesOK
  BY DEF AggInv
<1>1. CASE Running # {}
  <2> DEFINE n == [Idle EXCEPT !.pc = "list", !.kind = "cycle"]
  <2>1. Enter(t, n)
    BY <1>1 DEF BeginCycle
  <2>2. /\ n \in Calls /\ ~ n.alone /\ n.pc = "list" /\ n.kind = "cycle" /\ n.left = {}
        /\ n.todo = {} /\ n.key = None /\ n.before = {} /\ n.stayed = {}
    BY DEF Idle, Calls, Pcs
  <2> HIDE DEF n
  <2>3. Fits(n)
    BY <2>2 DEF Fits
  <2>4. QED
    BY <2>1, <2>2, <2>3, EnterKeeps
<1>2. CASE Running = {}
  <2>0. PICK before \in SUBSET events :
          before = IF watched = "co_purchased" THEN events ELSE {e \in events : e[2] \in known}
    OBVIOUS
  <2>1. PICK stayed \in SUBSET Products : stayed = (IF watched = "brand" THEN known ELSE {})
    BY <1>0 DEF WorldOK
  <2>2. PICK base \in {None} \cup [Pairs -> 0..MaxScore] :
          base = IF watched \in Relations THEN relation ELSE None
    BY <1>0 DEF TablesOK
  <2> DEFINE n == [Idle EXCEPT !.pc = "list", !.kind = "cycle", !.alone = TRUE,
                     !.before = before, !.stayed = stayed, !.base = base]
  <2>3. Enter(t, n)
    BY <1>2, <2>0, <2>1, <2>2 DEF BeginCycle
  <2>4. /\ n \in Calls /\ n.alone /\ n.pc = "list" /\ n.kind = "cycle" /\ n.left = {}
        /\ n.todo = {} /\ n.key = None /\ n.before = before /\ n.stayed = stayed
        /\ n.base = base
    BY <1>0 DEF Idle, Calls, Pcs, WorldOK
  <2> HIDE DEF n
  <2>5. stayed \subseteq known /\ (watched # "co_purchased" => \A e \in before : e[2] \in known)
    BY <2>0, <2>1
  <2>6. Fits(n)
    BY <1>0, <2>0, <2>2, <2>4, <2>5 DEF Fits, TablesOK
  <2>7. ASSUME watched \in Relations
        PROVE  /\ relation = n.base /\ \A x \in Pairs : relation[x] \in 0..MaxScore
               /\ \A x \in Pairs : Due(n, x) = relation[x]
    BY <1>0, <2>2, <2>4, <2>7 DEF Due, TablesOK
  <2>8. CASE watched = "brand"
    <3>1. Branded(n) /\ Fresh(n)
      BY <2>4, <2>7, <2>8 DEF Branded, Fresh, Relations
    <3>2. Progress(n)
      BY <2>8, <3>1 DEF Progress
    <3>3. QED
      BY <1>2, <2>3, <2>4, <2>6, <3>2, EnterKeeps DEF Running, At
  <2>9. CASE watched = "co_purchased"
    <3>1. Past(n, n.before) = {} /\ Past(n, events) = {}
      BY <2>4 DEF Past
    <3>2. ASSUME NEW x \in Pairs
          PROVE  Due(n, x) \in Add(n.base[x], Both({}, x))..Add(n.base[x], Both({}, x))
      <4>1. Due(n, x) = n.base[x] /\ n.base[x] \in 0..MaxScore
        BY <2>7, <2>9 DEF Relations
      <4>2. Both({}, x) = 0 /\ Add(n.base[x], 0) = n.base[x]
        BY <4>1, NothingBefore, AddIsSaturating
      <4>3. QED
        BY <4>1, <4>2
    <3>3. Tallied(n)
      BY <3>1, <3>2 DEF Tallied
    <3>4. Mirrored(n)
      <4> SUFFICES ASSUME Symmetric(n.base), NEW x \in Pairs
                   PROVE  Due(n, x) = Due(n, <<x[2], x[1]>>)
        BY DEF Mirrored
      <4>1. <<x[2], x[1]>> \in Pairs
        BY MirrorIsPair
      <4>2. Due(n, x) = n.base[x] /\ Due(n, <<x[2], x[1]>>) = n.base[<<x[2], x[1]>>]
        BY <2>7, <2>9, <4>1 DEF Relations
      <4>3. QED
        BY <4>2 DEF Symmetric
    <3>5. Progress(n)
      BY <2>4, <2>9, <3>3, <3>4 DEF Progress, Fresh
    <3>6. QED
      BY <1>2, <2>3, <2>4, <2>6, <3>5, EnterKeeps DEF Running, At
  <2>10. CASE watched \in {"signals", "profiles"}
    <3>1. Progress(n)
      BY <2>4, <2>10 DEF Progress, Counts, Averages
    <3>2. QED
      BY <1>2, <2>3, <2>4, <2>6, <3>1, EnterKeeps DEF Running, At
  <2>11. QED
    BY <1>0, <2>8, <2>9, <2>10 DEF WorldOK, Parts, Relations
<1>3. QED
  BY <1>1, <1>2

LEMMA RecommendKeeps ==
  ASSUME AggInv, NEW t \in Tasks, NEW u \in Users, Recommend(t, u)
  PROVE  AggInv'
<1> DEFINE n == [Idle EXCEPT !.pc = "recent", !.kind = "recommend", !.key = u]
<1>1. Enter(t, n) /\ watched = "profiles"
  BY DEF Recommend
<1>2. /\ n \in Calls /\ ~ n.alone /\ n.pc = "recent" /\ n.kind = "recommend" /\ n.left = {}
      /\ n.todo = {} /\ n.key = u /\ n.before = {} /\ n.stayed = {}
  BY DEF Idle, Calls, Pcs
<1> HIDE DEF n
<1>3. Fits(n)
  BY <1>1, <1>2 DEF Fits, Relations
<1>4. QED
  BY <1>1, <1>2, <1>3, EnterKeeps

LEMMA PutEventKeeps ==
  ASSUME AggInv, NEW u \in Users, NEW p \in Products, PutEvent(u, p)
  PROVE  AggInv'
<1>0. WorldOK /\ TablesOK /\ CallsOK /\ AloneIsAlone /\ Progresses
  BY DEF AggInv
<1>1. /\ events' = events \cup {<<u, p>>} /\ <<u, p>> \in Clicks
      /\ UNCHANGED <<watched, known, tables, task, signals, profile, relation>>
  BY DEF PutEvent, tables
<1>2. WorldOK'
  BY <1>0, <1>1, FS_AddElement DEF WorldOK
<1>3. TablesOK'
  BY <1>0, <1>1 DEF TablesOK, ProfilesAreOwn
<1>4. ASSUME NEW t \in Tasks PROVE Fits(task[t])'
  <2>1. Fits(task[t])
    BY <1>0 DEF CallsOK
  <2>2. /\ \A q : EventsOf(q) \subseteq EventsOf(q)'
        /\ \A v : Recent(v) \subseteq Recent(v)'
    BY <1>1 DEF EventsOf, Recent
  <2>3. QED
    BY <1>1, <2>1, <2>2 DEF Fits
<1>5. ASSUME NEW t \in Tasks, task[t].alone PROVE Progress(task[t])'
  <2>1. Progress(task[t])
    BY <1>0, <1>5 DEF Progresses
  <2>2. CASE watched = "co_purchased"
    <3>1. Tallied(task[t]) /\ Mirrored(task[t]) /\ Fresh(task[t])
          /\ task[t].base \in [Pairs -> 0..MaxScore] /\ task[t].before \subseteq events
      BY <1>0, <1>5, <2>1, <2>2 DEF Progress, CallsOK, Fits, Relations
    <3>2. Mirrored(task[t])' /\ Fresh(task[t])'
      BY <1>1, <3>1 DEF Mirrored, Fresh, Due
    <3>3. Tallied(task[t])'
      <4> SUFFICES ASSUME NEW x \in Pairs
                   PROVE  Due(task[t], x)'
                            \in Add(task[t].base[x], Both(Past(task[t], task[t].before)', x))
                                ..Add(task[t].base[x], Both(Past(task[t], events)', x))
        BY <1>1 DEF Tallied
      <4> DEFINE b == task[t].base[x]
                 start == Past(task[t], task[t].before)
                 all == Past(task[t], events)
                 more == Past(task[t], events)'
                 due == Due(task[t], x)
      <4>1. due \in Add(b, Both(start, x))..Add(b, Both(all, x))
        BY <3>1 DEF Tallied
      <4>2. Due(task[t], x)' = due /\ Past(task[t], task[t].before)' = start
        BY <1>1 DEF Due, Past
      <4>3. all \in SUBSET more /\ IsFiniteSet(more) /\ start \in SUBSET more
        <5>1. more \subseteq events' /\ IsFiniteSet(events')
          BY <1>1, <1>2 DEF Past, WorldOK
        <5>2. IsFiniteSet(more)
          BY <5>1, FS_Subset
        <5>3. QED
          BY <1>1, <3>1, <5>2 DEF Past
      <4>4. b \in 0..MaxScore
        BY <3>1
      <4>5. Due(task[t], x)' = due /\ Past(task[t], task[t].before)' = start
            /\ Past(task[t], events)' = more
        BY <4>2
      <4> HIDE DEF b, start, all, more, due
      <4>6. Both(start, x) \in Nat /\ Both(all, x) \in Nat /\ Both(more, x) \in Nat
            /\ Both(all, x) <= Both(more, x)
        BY <4>3, BothIsMonotone
      <4>7. Add(b, Both(all, x)) <= Add(b, Both(more, x))
            /\ Add(b, Both(start, x)) \in 0..MaxScore
            /\ Add(b, Both(all, x)) \in 0..MaxScore /\ Add(b, Both(more, x)) \in 0..MaxScore
        BY <4>4, <4>6, AddIsSaturating
      <4>8. due \in Add(b, Both(start, x))..Add(b, Both(more, x))
        BY <4>1, <4>7
      <4>9. QED
        BY <4>5, <4>8 DEF b
    <3>4. QED
      BY <1>1, <2>2, <3>2, <3>3 DEF Progress
  <2>3. CASE watched # "co_purchased"
    BY <1>1, <2>1, <2>3 DEF Progress, Counts, Averages, Averaged, Branded, Fresh, Due
  <2>4. QED
    BY <2>2, <2>3
<1>6. QED
  BY <1>0, <1>1, <1>2, <1>3, <1>4, <1>5 DEF AggInv, CallsOK, AloneIsAlone, Progresses

LEMMA PutProductKeeps ==
  ASSUME AggInv, NEW p \in Products, PutProduct(p)
  PROVE  AggInv'
<1>0. WorldOK /\ TablesOK /\ CallsOK /\ AloneIsAlone /\ Progresses
  BY DEF AggInv
<1>1. /\ known' = known \cup {p}
      /\ UNCHANGED <<watched, events, tables, task, signals, profile, relation>>
  BY DEF PutProduct, tables
<1>2. ASSUME NEW t \in Tasks PROVE Fits(task[t])'
  <2>1. Fits(task[t])
    BY <1>0 DEF CallsOK
  <2>2. QED
    BY <1>1, <2>1 DEF Fits, EventsOf, Recent
<1>3. ASSUME NEW t \in Tasks, task[t].alone PROVE Progress(task[t])'
  <2>1. Progress(task[t])
    BY <1>0, <1>3 DEF Progresses
  <2>2. QED
    BY <1>1, <2>1, ProgressStays
<1>4. TablesOK' /\ CallsOK'
  BY <1>0, <1>1, <1>2, TablesStay DEF CallsOK
<1>5. AloneIsAlone' /\ Progresses'
  BY <1>0, <1>1, <1>3 DEF AloneIsAlone, Progresses
<1>6. WorldOK'
  BY <1>0, <1>1 DEF WorldOK
<1>7. QED
  BY <1>4, <1>5, <1>6 DEF AggInv

LEMMA WithoutIs ==
  ASSUME NEW log, NEW p
  PROVE  /\ Without(log, p) \subseteq log
         /\ watched = "co_purchased" => Without(log, p) = log
         /\ watched # "co_purchased" => \A e \in Without(log, p) : e[2] # p
  BY DEF Without

LEMMA DeleteProductKeeps ==
  ASSUME AggInv, NEW p \in Products, DeleteProduct(p)
  PROVE  AggInv'
<1>0. WorldOK /\ TablesOK /\ AloneIsAlone /\ Progresses
      /\ task \in [Tasks -> Calls] /\ \A t \in Tasks : Fits(task[t])
  BY DEF AggInv, CallsOK
<1>1. /\ known' = known \ {p}
      /\ UNCHANGED <<watched, events, tables, signals, profile, relation>>
  BY DEF DeleteProduct, tables
<1> DEFINE less(t) == [task[t] EXCEPT !.stayed = @ \ {p}, !.before = Without(@, p)]
<1>2. task' = [t \in Tasks |-> less(t)]
  BY DEF DeleteProduct
<1>3. ASSUME NEW t \in Tasks
      PROVE  /\ less(t) \in Calls /\ less(t).pc = task[t].pc /\ less(t).kind = task[t].kind
             /\ less(t).left = task[t].left /\ less(t).todo = task[t].todo
             /\ less(t).key = task[t].key /\ less(t).value = task[t].value
             /\ less(t).alone = task[t].alone /\ less(t).before = Without(task[t].before, p)
             /\ less(t).stayed = task[t].stayed \ {p} /\ less(t).base = task[t].base
             /\ less(t).missed = task[t].missed
  <2>1. task[t] \in Calls
    BY <1>0
  <2>2. PICK rest \in SUBSET Products : rest = task[t].stayed \ {p}
    BY <2>1 DEF Calls
  <2>3. PICK kept \in SUBSET Clicks : kept = Without(task[t].before, p)
    BY <2>1 DEF Calls, Without
  <2>4. less(t) = [task[t] EXCEPT !.stayed = rest, !.before = kept]
    BY <2>2, <2>3
  <2> HIDE DEF less
  <2>5. /\ less(t) \in Calls /\ less(t).pc = task[t].pc /\ less(t).kind = task[t].kind
        /\ less(t).left = task[t].left /\ less(t).todo = task[t].todo
        /\ less(t).key = task[t].key /\ less(t).value = task[t].value
    BY <2>1, <2>4 DEF Calls
  <2>6. /\ less(t).alone = task[t].alone /\ less(t).before = kept
        /\ less(t).stayed = rest /\ less(t).base = task[t].base
        /\ less(t).missed = task[t].missed
    BY <2>1, <2>4 DEF Calls
  <2>7. QED
    BY <2>2, <2>3, <2>5, <2>6
<1>4. task' \in [Tasks -> Calls] /\ \A t \in Tasks : task'[t] = less(t)
  BY <1>2, <1>3
<1> HIDE DEF less
<1>5. ASSUME NEW t \in Tasks PROVE Fits(task[t])'
  <2>1. PICK o : o = task'[t]
    OBVIOUS
  <2>2. Fits(task[t])
    BY <1>0
  <2>3. /\ o.pc = task[t].pc /\ o.kind = task[t].kind /\ o.alone = task[t].alone
        /\ o.left = task[t].left /\ o.todo = task[t].todo /\ o.key = task[t].key
        /\ o.value = task[t].value /\ o.before \subseteq task[t].before
        /\ o.base = task[t].base /\ o.stayed = task[t].stayed \ {p}
        /\ watched # "co_purchased" => \A e \in o.before : e[2] # p
    BY <1>3, <1>4, <2>1, WithoutIs
  <2>4. \A x : EventsOf(x)' = EventsOf(x) /\ Recent(x)' = Recent(x)
    BY <1>1 DEF EventsOf, Recent
  <2>5. Fits(o)'
    BY <1>1, <2>2, <2>3, <2>4 DEF Fits
  <2>6. QED
    BY <2>1, <2>5 DEF Fits, EventsOf, Recent
<1>6. AloneIsAlone'
  BY <1>0, <1>3, <1>4 DEF AloneIsAlone
<1>7. ASSUME NEW t \in Tasks, task'[t].alone PROVE Progress(task[t])'
  <2>1. PICK o : o = task'[t]
    OBVIOUS
  <2>2. Progress(task[t])
    BY <1>0, <1>3, <1>4, <1>7 DEF Progresses
  <2>3. /\ o.pc = task[t].pc /\ o.left = task[t].left /\ o.todo = task[t].todo
        /\ o.key = task[t].key /\ o.value = task[t].value /\ o.before \subseteq task[t].before
        /\ o.stayed \subseteq task[t].stayed /\ o.base = task[t].base
        /\ o.missed = task[t].missed
        /\ watched = "co_purchased" => o.before = task[t].before
    BY <1>3, <1>4, <2>1, WithoutIs
  <2>4. (Counts(task[t]) => Counts(o)') /\ (Averages(task[t]) => Averages(o)')
        /\ (Fresh(task[t]) => Fresh(o)')
    BY <1>1, <2>3 DEF Counts, Averages, Averaged, Fresh
  <2>5. \A x : Due(o, x)' = Due(task[t], x)
    BY <1>1, <2>3 DEF Due
  <2>6. Branded(task[t]) => Branded(o)'
    <3> SUFFICES ASSUME Branded(task[t]) PROVE Branded(o)'
      OBVIOUS
    <3> SUFFICES ASSUME NEW x \in Pairs
                 PROVE  /\ Due(o, x)' \in {o.base[x], Add(o.base[x], 1)}
                        /\ o.pc = "list" => relation'[x] = o.base[x]
                        /\ /\ o.pc # "list" /\ {x[1], x[2]} \subseteq o.stayed
                           /\ Cardinality({c \in Products : c < x[2]}) < Peers
                           => Due(o, x)' = Add(o.base[x], 1)
      BY DEF Branded
    <3>1. QED
      BY <1>1, <2>3, <2>5 DEF Branded
  <2>7. watched = "co_purchased" /\ Tallied(task[t]) => Tallied(o)'
    <3> SUFFICES ASSUME watched = "co_purchased", Tallied(task[t]) PROVE Tallied(o)'
      OBVIOUS
    <3>1. Past(o, o.before)' = Past(task[t], task[t].before)
          /\ Past(o, events)' = Past(task[t], events)
      BY <1>1, <2>3 DEF Past
    <3>2. QED
      BY <2>3, <2>5, <3>1 DEF Tallied
  <2>8. Mirrored(task[t]) => Mirrored(o)'
    BY <2>3, <2>5 DEF Mirrored
  <2>9. Progress(o)'
    BY <1>1, <2>2, <2>4, <2>6, <2>7, <2>8 DEF Progress
  <2>10. QED
    BY <2>1, <2>9, ProgressOf
<1>8. WorldOK' /\ TablesOK'
  BY <1>0, <1>1, TablesStay DEF WorldOK
<1>9. QED
  BY <1>4, <1>5, <1>6, <1>7, <1>8 DEF AggInv, CallsOK, Progresses

-----------------------------------------------------------------------------
(* The theorems                                                            *)

LEMMA AggInit == Init => AggInv
<1> SUFFICES ASSUME Init PROVE AggInv
  OBVIOUS
<1>1. \A t \in Tasks : task[t] = Idle
  BY DEF Init
<1>2. CallsOK /\ AloneIsAlone /\ Progresses
  BY <1>1, IdleFits DEF Init, CallsOK, AloneIsAlone, Progresses
<1>3. WorldOK /\ TablesOK
  BY FS_EmptySet DEF Init, WorldOK, TablesOK, ProfilesAreOwn
<1>4. QED
  BY <1>2, <1>3 DEF AggInv

LEMMA AggStep == AggInv /\ [Next]_vars => AggInv'
<1> SUFFICES ASSUME AggInv, [Next]_vars PROVE AggInv'
  OBVIOUS
<1>1. CASE UNCHANGED vars
  <2>1. UNCHANGED <<watched, known, events, tables, task>>
    BY <1>1 DEF vars
  <2>2. WorldOK' /\ TablesOK' /\ AloneIsAlone'
    BY <2>1, TablesStay DEF AggInv, WorldOK, AloneIsAlone
  <2>3. ASSUME NEW t \in Tasks PROVE Fits(task[t]) => Fits(task[t])'
    BY <2>1 DEF Fits, EventsOf, Recent
  <2>4. ASSUME NEW t \in Tasks PROVE Progress(task[t]) => Progress(task[t])'
    <3>1. \A x : Due(task[t], x)' = Due(task[t], x)
      BY <2>1 DEF Due, tables
    <3>2. Past(task[t], task[t].before)' = Past(task[t], task[t].before)
          /\ Past(task[t], events)' = Past(task[t], events)
      BY <2>1 DEF Past
    <3>3. (Tallied(task[t]) => Tallied(task[t])') /\ (Mirrored(task[t]) => Mirrored(task[t])')
      BY <2>1, <3>1, <3>2 DEF Tallied, Mirrored
    <3>4. (Counts(task[t]) => Counts(task[t])') /\ (Averages(task[t]) => Averages(task[t])')
          /\ (Fresh(task[t]) => Fresh(task[t])')
      BY <2>1 DEF Counts, Averages, Averaged, Fresh, tables
    <3>5. Branded(task[t]) => Branded(task[t])'
      BY <2>1, <3>1 DEF Branded, tables
    <3>6. QED
      BY <2>1, <3>3, <3>4, <3>5 DEF Progress
  <2>5. QED
    BY <2>1, <2>2, <2>3, <2>4 DEF AggInv, CallsOK, Progresses
<1>2. ASSUME NEW t \in Tasks, Work(t) PROVE AggInv'
  <2>1. CASE \E u \in Users : NextUser(t, u)
    BY <2>1, NextUserProfiles, NextUserPairs DEF NextUser
  <2>2. CASE ~ \E u \in Users : NextUser(t, u)
    BY <1>2, <2>2, BeginCycleKeeps, ListKeeps, RecomputeKeeps, AccumulateKeeps, PutSignalsKeeps,
       RecommendFromKeeps, NoProfileKeeps, PutProfileKeeps, ReadScoreKeeps, WriteScoreKeeps,
       PairsDoneKeeps, CompleteKeeps, ReturnKeeps DEF Work
  <2>3. QED
    BY <2>1, <2>2
<1>3. CASE Next
  BY <1>2, <1>3, PutProductKeeps, DeleteProductKeeps, PutEventKeeps, ReturnKeeps,
     ProfileFailsKeeps, ReadFailsKeeps, RecommendKeeps DEF Next, Tasks
<1>4. QED
  BY <1>1, <1>3

\* The inductive invariant holds, whatever cycles and requests overlap.
LEMMA AggAlways == Spec => []AggInv
  BY AggInit, AggStep, PTL DEF Spec

\* A call that is done and overlapped no other has come through its whole part.
LEMMA DoneIs ==
  ASSUME AggInv, NEW t \in Tasks, NEW part, Finished(t, part)
  PROVE  /\ watched = part /\ task[t].pc = "done" /\ task[t].left = {} /\ Progress(task[t])
         /\ \A x : Due(task[t], x) = relation[x]
         /\ Past(task[t], task[t].before) = task[t].before /\ Past(task[t], events) = events
<1>1. watched = part /\ task[t].pc = "done" /\ task[t].alone
  BY DEF Finished, At
<1>2. Fits(task[t]) /\ Progress(task[t])
  BY <1>1, CallIs
<1>3. task[t].left = {}
  BY <1>1, <1>2 DEF Fits
<1>4. QED
  BY <1>1, <1>2, <1>3 DEF Due, Past

\* Every table and every call has its type, and what a cycle remembers of its
\* start is still there.
THEOREM TypeCorrect == Spec => []TypeOK
<1>1. AggInv => TypeOK
  BY DEF AggInv, WorldOK, TablesOK, CallsOK, Fits, Calls, Pcs, TypeOK
<1>2. QED
  BY <1>1, AggAlways, PTL

\* A stored profile is never made of no products, and each of them was clicked
\* by its own user or by one whose id goes on after its own with a NUL: the scan
\* for {user}\0 finds the keys of these and no others.
THEOREM ProfilesAreOfOneUser == Spec => []ProfilesAreOwn
<1>1. AggInv => ProfilesAreOwn
  BY DEF AggInv, TablesOK
<1>2. QED
  BY <1>1, AggAlways, PTL

\* A cycle that overlapped no other call has counted every event recorded before
\* it began, for each product that was there all the time.
THEOREM CyclesCount == Spec => []QuietCycleCounts
<1>1. AggInv => QuietCycleCounts
  BY DoneIs DEF QuietCycleCounts, Progress, Counts
<1>2. QED
  BY <1>1, AggAlways, PTL

\* Such a cycle leaves in the profile of every id it lists the products clicked
\* before it began that were there all the time, but for those whose read, or
\* whose profile's write, failed.
THEOREM CyclesProfile == Spec => []QuietCycleProfiles
<1>1. AggInv => QuietCycleProfiles
  BY DoneIs DEF QuietCycleProfiles, Progress, Averages, Averaged
<1>2. QED
  BY <1>1, AggAlways, PTL

\* Such a cycle adds one to the scores of a brand, up to the limit of peers.
THEOREM CyclesLinkBrands == Spec => []QuietCycleBrands
<1>1. ASSUME AggInv PROVE QuietCycleBrands
  <2> SUFFICES ASSUME NEW t \in Tasks, Finished(t, "brand"), NEW x \in Pairs
               PROVE  /\ relation[x] \in {task[t].base[x], Add(task[t].base[x], 1)}
                      /\ {x[1], x[2]} \subseteq task[t].stayed
                           /\ Cardinality({c \in Products : c < x[2]}) < Peers
                           => relation[x] = Add(task[t].base[x], 1)
    BY DEF QuietCycleBrands
  <2>1. Branded(task[t]) /\ task[t].pc = "done" /\ Due(task[t], x) = relation[x]
    BY <1>1, DoneIs DEF Progress
  <2>2. QED
    BY <2>1 DEF Branded
<1>2. QED
  BY <1>1, AggAlways, PTL

\* Such a cycle adds to the score of a pair one for every id it lists with both
\* products in its history, those at its start at least and those at its end at most.
THEOREM CyclesRelate == Spec => []QuietCycleRelates
<1>1. ASSUME AggInv PROVE QuietCycleRelates
  BY <1>1, DoneIs DEF QuietCycleRelates, Progress, Tallied
<1>2. QED
  BY <1>1, AggAlways, PTL

\* Such a cycle leaves symmetric relations symmetric.
THEOREM CyclesMirror == Spec => []QuietCycleMirrors
<1>1. ASSUME AggInv PROVE QuietCycleMirrors
  <2> SUFFICES ASSUME NEW t \in Tasks, Finished(t, "co_purchased"), Symmetric(task[t].base),
                      NEW x \in Pairs
               PROVE  relation[x] = relation[<<x[2], x[1]>>]
    BY DEF QuietCycleMirrors, Symmetric
  <2>1. Mirrored(task[t]) /\ \A y : Due(task[t], y) = relation[y]
    BY <1>1, DoneIs DEF Progress
  <2>2. Due(task[t], x) = Due(task[t], <<x[2], x[1]>>)
    BY <2>1 DEF Mirrored
  <2>3. QED
    BY <2>1, <2>2
<1>2. QED
  BY <1>1, AggAlways, PTL
=============================================================================
