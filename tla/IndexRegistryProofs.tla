------------------------ MODULE IndexRegistryProofs ------------------------
(***************************************************************************)
(* Theorems about IndexRegistry, for any number of names, tenants and      *)
(* concurrent requests, any limit, and with failures or without.           *)
(***************************************************************************)
EXTENDS IndexRegistry, SequenceTheorems, FiniteSetTheorems, TLAPS

USE RegistryAssumption

-----------------------------------------------------------------------------
(* Keys and their directories                                              *)

\* Sequences are equal when they agree position by position.
LEMMA SameSequence ==
  ASSUME NEW S, NEW s \in Seq(S), NEW t \in Seq(S),
         Len(s) = Len(t), \A i \in 1..Len(s) : s[i] = t[i]
  PROVE  s = t
  OBVIOUS

\* An index is the admin's or a tenant's, and its directory is in "data" or two
\* levels below "t".
LEMMA KeyShape ==
  ASSUME NEW k \in Keys
  PROVE  /\ k = <<k[1], k[2]>>
         /\ \/ k[1] = Admin /\ k[1] \notin Tenants /\ PathOf(k) = <<k[2]>>
            \/ /\ k[1] # Admin /\ k[1] \in Tenants /\ k[2] # None
               /\ PathOf(k) = <<TRoot, k[1], k[2]>>
<1>1. CASE k \in {Admin} \X (Names \cup {Default})
  BY <1>1 DEF PathOf
<1>2. CASE k \in Tenants \X TenantNames
  <2>1. k = <<k[1], k[2]>> /\ k[1] \in Tenants /\ k[1] # Admin /\ k[2] # None
    BY <1>2
  <2> DEFINE S == {TRoot, k[1], k[2]}
             p == <<TRoot>>
             q == <<k[1], k[2]>>
  <2>2. p \in Seq(S) /\ q \in Seq(S) /\ <<TRoot, k[1], k[2]>> \in Seq(S)
    OBVIOUS
  <2>3. /\ p \o q \in Seq(S) /\ Len(p \o q) = 3
        /\ \A i \in 1..3 : (p \o q)[i] = IF i <= 1 THEN p[i] ELSE q[i - 1]
    <3> HIDE DEF S
    <3>1. Len(p) = 1 /\ Len(q) = 2
      OBVIOUS
    <3>2. QED
      BY <2>2, <3>1, ConcatProperties
  <2>4. (p \o q)[1] = TRoot /\ (p \o q)[2] = k[1] /\ (p \o q)[3] = k[2]
    BY <2>3
  <2>5. p \o q = <<TRoot, k[1], k[2]>>
    <3> DEFINE r == <<TRoot, k[1], k[2]>>
    <3>1. /\ r \in Seq(S) /\ Len(r) = 3
          /\ r[1] = TRoot /\ r[2] = k[1] /\ r[3] = k[2]
      OBVIOUS
    <3> HIDE DEF S, p, q, r
    <3>2. \A i \in 1..3 : (p \o q)[i] = r[i]
      <4>1. \A i \in 1..3 : i = 1 \/ i = 2 \/ i = 3
        OBVIOUS
      <4>2. (p \o q)[1] = r[1] /\ (p \o q)[2] = r[2] /\ (p \o q)[3] = r[3]
        BY <2>4, <3>1 DEF p, q
      <4>3. QED
        BY <4>1, <4>2
    <3>3. QED
      BY <2>3, <3>1, <3>2, SameSequence DEF r
  <2>6. QED
    BY <2>1, <2>5 DEF PathOf
<1>3. QED
  BY <1>1, <1>2 DEF Keys

\* A prefix agrees with the sequence as far as it goes.
LEMMA PrefixMeans ==
  ASSUME NEW S, NEW s \in Seq(S), NEW t \in Seq(S)
  PROVE  IsPrefix(s, t) <=> Len(s) <= Len(t) /\ \A i \in 1..Len(s) : s[i] = t[i]
<1>1. SubSeq(s, 1, Len(s)) = s
  BY SubSeqFull
<1>2. Len(s) \in Nat /\ Len(t) \in Nat
  OBVIOUS
<1>3. ASSUME Len(s) <= Len(t)
      PROVE  s = SubSeq(t, 1, Len(s)) <=> \A i \in 1..Len(s) : s[i] = t[i]
  <2>1. \A i \in 1..Len(s) : t[i] \in S
    BY <1>2, <1>3
  <2> DEFINE u == SubSeq(t, 1, Len(s))
  <2>2. u \in Seq(S) /\ Len(u) = Len(s) /\ \A i \in 1..Len(s) : u[i] = t[i]
    <3>1. /\ u \in Seq(S)
          /\ Len(u) = IF 1 <= Len(s) THEN Len(s) - 1 + 1 ELSE 0
          /\ \A i \in 1..(Len(s) - 1 + 1) : u[i] = t[1 + i - 1]
      BY <1>2, <2>1, SubSeqProperties
    <3> HIDE DEF u
    <3>2. QED
      BY <1>2, <3>1
  <2> HIDE DEF u
  <2>3. (\A i \in 1..Len(s) : s[i] = u[i]) => s = u
    BY <2>2, SameSequence
  <2>4. QED
    BY <2>2, <2>3 DEF u
<1>4. QED
  BY <1>1, <1>3 DEF IsPrefix

\* Only the directory of the admin's index "t" holds directories of others: those
\* of the tenants' indexes.
LEMMA PrefixIs ==
  ASSUME NEW j \in Keys, NEW k \in Keys
  PROVE  IsPrefix(PathOf(j), PathOf(k)) <=> j = k \/ (j = Reserved /\ k[1] \in Tenants)
<1> DEFINE S == {TRoot, j[1], j[2], k[1], k[2]}
           p == PathOf(j)
           q == PathOf(k)
<1>1. p \in Seq(S) /\ q \in Seq(S)
  <2>1. PathOf(j) = <<j[2]>> \/ PathOf(j) = <<TRoot, j[1], j[2]>>
    BY KeyShape
  <2>2. PathOf(k) = <<k[2]>> \/ PathOf(k) = <<TRoot, k[1], k[2]>>
    BY KeyShape
  <2>3. /\ <<j[2]>> \in Seq(S) /\ <<TRoot, j[1], j[2]>> \in Seq(S)
        /\ <<k[2]>> \in Seq(S) /\ <<TRoot, k[1], k[2]>> \in Seq(S)
    OBVIOUS
  <2>4. QED
    BY <2>1, <2>2, <2>3
<1>2. IsPrefix(p, q) <=> Len(p) <= Len(q) /\ \A i \in 1..Len(p) : p[i] = q[i]
  <2> HIDE DEF S, p, q
  <2>1. QED
    BY <1>1, PrefixMeans
<1>3. CASE j[1] = Admin /\ k[1] = Admin
  BY <1>2, <1>3, KeyShape DEF Reserved
<1>4. CASE j[1] = Admin /\ k[1] # Admin
  <2>1. p = <<j[2]>> /\ q = <<TRoot, k[1], k[2]>> /\ k[1] \in Tenants /\ j = <<Admin, j[2]>>
    BY <1>4, KeyShape
  <2>2. Len(p) = 1 /\ Len(q) = 3 /\ p[1] = j[2] /\ q[1] = TRoot
    BY <2>1
  <2>3. IsPrefix(p, q) <=> j[2] = TRoot
    BY <1>2, <2>2
  <2>4. QED
    BY <1>4, <2>1, <2>3 DEF Reserved
<1>5. CASE j[1] # Admin /\ k[1] = Admin
  BY <1>2, <1>5, KeyShape DEF Reserved
<1>6. CASE j[1] # Admin /\ k[1] # Admin
  BY <1>2, <1>6, KeyShape DEF Reserved
<1>7. QED
  BY <1>3, <1>4, <1>5, <1>6

\* No two indexes share a directory.
LEMMA PathsDiffer ==
  ASSUME NEW j \in Keys, NEW k \in Keys, PathOf(j) = PathOf(k)
  PROVE  j = k
  BY KeyShape

LEMMA PathsAre ==
  ASSUME NEW k \in Keys
  PROVE  PathOf(k) \in Paths
  BY DEF Paths

-----------------------------------------------------------------------------
(* What a request holds while it is at each step of its call               *)

NoKey == <<None, None>>

\* That nobody is ever told "none" is left to the invariant below.
Told == Answers \cup {"none"}

CallsOf(pcs, kinds, keys, ats) ==
  [pc : pcs, kind : kinds, key : keys, at : ats, todo : SUBSET Keys,
   alone : BOOLEAN, prior : Told, stale : BOOLEAN]

Creating == {"check", "mkdir", "open", "insert"}

CreateOp(o) ==
  /\ o \in CallsOf(Creating, {"create"}, Keys, Keys)
  /\ o.key = o.at
DeleteOp(o) ==
  /\ o \in CallsOf({"remove", "rmdir"}, {"delete"}, Keys \ {DefaultKey}, Keys)
  /\ o.key = o.at
TenantOp(o) ==
  /\ o \in CallsOf({"store", "list", "cascade", "rmdir"}, {"tenant"},
                 Tenants \X {None}, Keys \cup {NoKey})
  /\ \A k \in o.todo : k[1] = o.key[1]
  /\ o.pc = "rmdir" => o.at \in Keys /\ o.at[1] = o.key[1]
UseOp(o) ==
  o \in CallsOf({"use"}, {"use"}, {NoKey}, Keys)

OpOK(o) == o = Idle \/ CreateOp(o) \/ DeleteOp(o) \/ TenantOp(o) \/ UseOp(o)

TypeOK ==
  /\ engines \subseteq Keys
  /\ disk \in [Paths -> {"none", "empty", "data"}]
  /\ tenants \subseteq Tenants
  /\ DOMAIN op = Tasks /\ op = [t \in Tasks |-> op[t]]
  /\ \A t \in Tasks : OpOK(op[t])
  /\ answered \in [Judged -> Told]
  /\ loose \subseteq Tenants

\* The step of a call tells its kind.
LEMMA StepTellsKind ==
  ASSUME NEW o, OpOK(o)
  PROVE  /\ o.pc = "idle" => o = Idle
         /\ o.pc \in Creating => CreateOp(o)
         /\ o.pc = "remove" => DeleteOp(o)
         /\ o.pc = "rmdir" => DeleteOp(o) \/ TenantOp(o)
         /\ o.pc \in {"store", "list", "cascade"} => TenantOp(o)
         /\ o.pc = "use" => UseOp(o)
         /\ o.alone \in BOOLEAN /\ o.stale \in BOOLEAN /\ o.prior \in Told
<1>1. CASE o = Idle
  BY <1>1 DEF Idle, Creating, Answers, Told
<1>2. CASE CreateOp(o)
  BY <1>2 DEF CreateOp, CallsOf, Creating
<1>3. CASE DeleteOp(o)
  BY <1>3 DEF DeleteOp, CallsOf, Creating
<1>4. CASE TenantOp(o)
  BY <1>4 DEF TenantOp, CallsOf, Creating
<1>5. CASE UseOp(o)
  BY <1>5 DEF UseOp, CallsOf, Creating
<1>6. QED
  BY <1>1, <1>2, <1>3, <1>4, <1>5 DEF OpOK

\* Writing what is there already changes nothing.
LEMMA SameMarks ==
  ASSUME NEW S, NEW r \in [pc : S, kind : S, key : S, at : S, todo : S,
                           alone : S, prior : S, stale : S],
         r.alone = FALSE, r.stale = FALSE
  PROVE  [r EXCEPT !.alone = FALSE] = r /\ [r EXCEPT !.stale = FALSE] = r
  OBVIOUS

\* Losing its exclusiveness, or an engine in use losing its place in the map,
\* leaves a call what it is.
LEMMA MarksKeepShape ==
  ASSUME NEW o, OpOK(o), NEW b \in BOOLEAN
  PROVE  /\ OpOK([o EXCEPT !.alone = @ /\ b])
         /\ OpOK([o EXCEPT !.stale = @ \/ (o.pc = "use" /\ b)])
         /\ o # Idle => OpOK([o EXCEPT !.alone = b])
<1>1. CASE o = Idle
  <2>1. Idle.alone = FALSE /\ Idle.stale = FALSE /\ Idle.pc # "use"
    BY DEF Idle
  <2>2. (Idle.alone /\ b) = FALSE /\ (Idle.stale \/ (Idle.pc = "use" /\ b)) = FALSE
    BY <2>1
  <2>3. [Idle EXCEPT !.alone = FALSE] = Idle /\ [Idle EXCEPT !.stale = FALSE] = Idle
    <3> DEFINE S == {"idle", None, NoKey, {}, FALSE, "unsure"}
    <3>1. Idle \in [pc : S, kind : S, key : S, at : S, todo : S,
                    alone : S, prior : S, stale : S]
      BY DEF Idle, NoKey
    <3>2. QED
      BY <2>1, <3>1, SameMarks
  <2>4. QED
    BY <1>1, <2>2, <2>3 DEF OpOK
<1>2. CASE CreateOp(o)
  BY <1>2 DEF OpOK, CreateOp, CallsOf
<1>3. CASE DeleteOp(o)
  BY <1>3 DEF OpOK, DeleteOp, CallsOf
<1>4. CASE TenantOp(o)
  BY <1>4 DEF OpOK, TenantOp, CallsOf
<1>5. CASE UseOp(o)
  BY <1>5 DEF OpOK, UseOp, CallsOf
<1>6. QED
  BY <1>1, <1>2, <1>3, <1>4, <1>5 DEF OpOK

LEMMA InitTypes ==
  ASSUME Init
  PROVE  TypeOK
<1>1. DefaultKey \in Keys
  BY DEF Keys, DefaultKey
<1>2. QED
  BY <1>1 DEF Init, TypeOK, OpOK, Answers, Told, Judged

SameCall(o, before) ==
  /\ o.pc = before.pc /\ o.kind = before.kind /\ o.key = before.key /\ o.at = before.at
  /\ o.todo = before.todo /\ o.prior = before.prior

\* And of all it holds these marks alone are changed.
LEMMA AloneKeepsCall ==
  ASSUME NEW o, OpOK(o), NEW b \in BOOLEAN, NEW p, p = [o EXCEPT !.alone = b]
  PROVE  SameCall(p, o) /\ p.stale = o.stale /\ p.alone = b
<1>1. CASE o = Idle
  BY <1>1 DEF SameCall, Idle
<1>2. CASE o # Idle
  BY <1>2 DEF SameCall, OpOK, CreateOp, DeleteOp, TenantOp, UseOp, CallsOf
<1>3. QED
  BY <1>1, <1>2

LEMMA StaleKeepsCall ==
  ASSUME NEW o, OpOK(o), NEW b \in BOOLEAN, NEW p, p = [o EXCEPT !.stale = b]
  PROVE  SameCall(p, o) /\ p.alone = o.alone /\ p.stale = b
<1>1. CASE o = Idle
  BY <1>1 DEF SameCall, Idle
<1>2. CASE o # Idle
  BY <1>2 DEF SameCall, OpOK, CreateOp, DeleteOp, TenantOp, UseOp, CallsOf
<1>3. QED
  BY <1>1, <1>2

\* The next step of a call is all that changes when it goes on.
LEMMA GoKeepsCall ==
  ASSUME NEW o, OpOK(o), NEW c, NEW p, p = [o EXCEPT !.pc = c]
  PROVE  /\ p.pc = c /\ p.kind = o.kind /\ p.key = o.key /\ p.at = o.at /\ p.todo = o.todo
         /\ p.prior = o.prior /\ p.alone = o.alone /\ p.stale = o.stale
<1>1. CASE o = Idle
  BY <1>1 DEF Idle
<1>2. CASE o # Idle
  BY <1>2 DEF OpOK, CreateOp, DeleteOp, TenantOp, UseOp, CallsOf
<1>3. QED
  BY <1>1, <1>2

\* A request that comes in takes its place among the others.
LEMMA StartTypes ==
  ASSUME TypeOK, NEW t \in Tasks, NEW o, OpOK(o), o # Idle, Start(t, o)
  PROVE  /\ DOMAIN op' = Tasks /\ op' = [w \in Tasks |-> op'[w]] /\ \A w \in Tasks : OpOK(op'[w])
         /\ SameCall(op'[t], o) /\ op'[t].stale = o.stale
         /\ op'[t].alone => \A v \in Tasks : Busy(v) => ~ Clash(op[v].key, o.key)
         /\ \A w \in Tasks \ {t} :
              /\ SameCall(op'[w], op[w]) /\ op'[w].stale = op[w].stale
              /\ op'[w].alone => op[w].alone /\ ~ Clash(op[w].key, o.key)
<1> DEFINE alone == \A v \in Tasks : Busy(v) => ~ Clash(op[v].key, o.key)
           apart(w) == ~ Clash(op[w].key, o.key)
<1>1. op' = [w \in Tasks |-> IF w = t THEN [o EXCEPT !.alone = alone]
                             ELSE [op[w] EXCEPT !.alone = @ /\ apart(w)]]
  BY DEF Start
<1>2. alone \in BOOLEAN /\ \A w \in Tasks : apart(w) \in BOOLEAN
  BY DEF Clash
<1>7. /\ alone => \A v \in Tasks : Busy(v) => ~ Clash(op[v].key, o.key)
      /\ \A w \in Tasks : apart(w) => ~ Clash(op[w].key, o.key)
  OBVIOUS
<1> HIDE DEF alone, apart
<1>3. \A w \in Tasks : OpOK(op[w]) /\ op[w].alone \in BOOLEAN
  BY StepTellsKind DEF TypeOK
<1>4. \A w \in Tasks : OpOK([op[w] EXCEPT !.alone = @ /\ apart(w)])
  BY <1>2, <1>3, MarksKeepShape
<1>5. OpOK([o EXCEPT !.alone = alone])
  BY <1>2, MarksKeepShape
<1>6. DOMAIN op' = Tasks /\ op' = [w \in Tasks |-> op'[w]] /\ \A w \in Tasks : OpOK(op'[w])
  BY <1>1, <1>4, <1>5
<1>8. SameCall(op'[t], o) /\ op'[t].stale = o.stale /\ op'[t].alone = alone
  BY <1>1, <1>2, AloneKeepsCall
<1>9. ASSUME NEW w \in Tasks \ {t}
      PROVE  /\ SameCall(op'[w], op[w]) /\ op'[w].stale = op[w].stale
             /\ op'[w].alone => op[w].alone /\ ~ Clash(op[w].key, o.key)
  <2> DEFINE b == op[w].alone /\ apart(w)
  <2>1. b \in BOOLEAN /\ op'[w] = [op[w] EXCEPT !.alone = b]
    BY <1>1, <1>2, <1>3
  <2>2. b => op[w].alone /\ ~ Clash(op[w].key, o.key)
    BY <1>7
  <2> HIDE DEF b
  <2>3. QED
    BY <1>3, <2>1, <2>2, AloneKeepsCall
<1>10. QED
  BY <1>6, <1>7, <1>8, <1>9

\* Taking an engine out of the map marks those who hold it.
LEMMA TakeOutTypes ==
  ASSUME TypeOK, NEW t \in Tasks, NEW k \in Keys, NEW o, OpOK(o), TakeOut(t, k, o)
  PROVE  /\ engines' \subseteq Keys /\ engines' = engines \ {k}
         /\ DOMAIN op' = Tasks /\ op' = [w \in Tasks |-> op'[w]]
         /\ \A w \in Tasks : OpOK(op'[w])
         /\ answered' \in [Judged -> Told]
         /\ \A j \in Judged : answered'[j] = IF j = k THEN "unsure" ELSE answered[j]
         /\ op'[t] = o
         /\ \A w \in Tasks \ {t} :
              /\ SameCall(op'[w], op[w]) /\ op'[w].alone = op[w].alone
              /\ op[w].stale => op'[w].stale
              /\ op[w].pc = "use" /\ op[w].at = k => op'[w].stale
<1>1. \A w \in Tasks : OpOK(op[w]) /\ op[w].stale \in BOOLEAN
  BY StepTellsKind DEF TypeOK
<1> DEFINE held(w) == op[w].at = k
           mark(w) == op[w].stale \/ (op[w].pc = "use" /\ held(w))
<1>2. \A w \in Tasks : OpOK([op[w] EXCEPT !.stale = @ \/ (op[w].pc = "use" /\ held(w))])
  <2>1. \A w \in Tasks : held(w) \in BOOLEAN
    OBVIOUS
  <2> HIDE DEF held
  <2>2. QED
    BY <1>1, <2>1, MarksKeepShape
<1>3. op' = [w \in Tasks |-> IF w = t THEN o ELSE [op[w] EXCEPT !.stale = mark(w)]]
  BY DEF TakeOut, At
<1>4. \A w \in Tasks : OpOK(op'[w])
  BY <1>2, <1>3
<1>5. /\ answered' \in [Judged -> Told]
      /\ \A j \in Judged : answered'[j] = IF j = k THEN "unsure" ELSE answered[j]
  BY DEF TakeOut, Unsure, TypeOK, Answers, Told
<1>6. engines' \subseteq Keys /\ engines' = engines \ {k}
  BY DEF TakeOut, TypeOK
<1>7. ASSUME NEW w \in Tasks \ {t}
      PROVE  /\ SameCall(op'[w], op[w]) /\ op'[w].alone = op[w].alone
             /\ op[w].stale => op'[w].stale
             /\ op[w].pc = "use" /\ op[w].at = k => op'[w].stale
  <2>1. mark(w) \in BOOLEAN /\ op'[w] = [op[w] EXCEPT !.stale = mark(w)]
    BY <1>1, <1>3
  <2>2. /\ op[w].stale => mark(w)
        /\ op[w].pc = "use" /\ op[w].at = k => mark(w)
    OBVIOUS
  <2> HIDE DEF mark
  <2>3. QED
    BY <1>1, <2>1, <2>2, StaleKeepsCall
<1>8. QED
  BY <1>3, <1>4, <1>5, <1>6, <1>7

\* What Go(), Return() and Use() do to the calls.
LEMMA GoMoves ==
  ASSUME TypeOK, NEW t \in Tasks, NEW c, Go(t, c)
  PROVE  /\ op'[t].pc = c /\ op'[t].kind = op[t].kind /\ op'[t].key = op[t].key
         /\ op'[t].at = op[t].at /\ op'[t].todo = op[t].todo /\ op'[t].prior = op[t].prior
         /\ op'[t].alone = op[t].alone /\ op'[t].stale = op[t].stale
         /\ \A w \in Tasks \ {t} : op'[w] = op[w]
<1>1. OpOK(op[t]) /\ op'[t] = [op[t] EXCEPT !.pc = c]
  BY DEF Go, TypeOK
<1>2. \A w \in Tasks \ {t} : op'[w] = op[w]
  BY DEF Go, TypeOK
<1>3. QED
  BY <1>1, <1>2, GoKeepsCall

LEMMA ReturnMoves ==
  ASSUME TypeOK, NEW t \in Tasks, Return(t)
  PROVE  op'[t] = Idle /\ \A w \in Tasks \ {t} : op'[w] = op[w]
  BY DEF Return, TypeOK

LEMMA AfterDeleteMoves ==
  ASSUME TypeOK, NEW t \in Tasks, AfterDelete(t)
  PROVE  /\ \/ op'[t] = Idle /\ op[t].kind # "tenant"
            \/ /\ op'[t].pc = "cascade" /\ op[t].kind = "tenant" /\ op'[t].kind = "tenant"
               /\ op'[t].key = op[t].key /\ op'[t].at = op[t].at /\ op'[t].todo = op[t].todo
               /\ op'[t].alone = op[t].alone
         /\ \A w \in Tasks \ {t} : op'[w] = op[w]
  BY GoMoves, ReturnMoves DEF AfterDelete

LEMMA UseMoves ==
  ASSUME TypeOK, NEW t \in Tasks, Use(t)
  PROVE  /\ op'[t] = Idle
         /\ \A w \in Tasks \ {t} :
              /\ SameCall(op'[w], op[w]) /\ op'[w].stale = op[w].stale
              /\ op'[w].alone => op[w].alone /\ ~ (op[t].stale /\ Clash(op[w].key, op[t].at))
<1> DEFINE apart(w) == ~ (op[t].stale /\ Clash(op[w].key, op[t].at))
           b(w) == op[w].alone /\ apart(w)
<1>1. \A w \in Tasks : OpOK(op[w])
  BY DEF TypeOK
<1>2. op' = [w \in Tasks |-> IF w = t THEN Idle ELSE [op[w] EXCEPT !.alone = b(w)]]
  BY DEF Use
<1>3. \A w \in Tasks : b(w) \in BOOLEAN
  <2>1. \A w \in Tasks : op[w].alone \in BOOLEAN
    BY <1>1, StepTellsKind
  <2>2. QED
    BY <2>1
<1>4. \A w \in Tasks : b(w) => op[w].alone /\ ~ (op[t].stale /\ Clash(op[w].key, op[t].at))
  OBVIOUS
<1> HIDE DEF b
<1>5. ASSUME NEW w \in Tasks \ {t}
      PROVE  /\ SameCall(op'[w], op[w]) /\ op'[w].stale = op[w].stale
             /\ op'[w].alone => op[w].alone /\ ~ (op[t].stale /\ Clash(op[w].key, op[t].at))
  <2>1. op'[w] = [op[w] EXCEPT !.alone = b(w)]
    BY <1>2
  <2>2. SameCall(op'[w], op[w]) /\ op'[w].stale = op[w].stale /\ op'[w].alone = b(w)
    BY <1>1, <1>3, <2>1, AloneKeepsCall
  <2>3. QED
    BY <1>4, <2>2
<1>6. QED
  BY <1>2, <1>5

LEMMA TypeStep ==
  ASSUME TypeOK, [Next]_vars
  PROVE  TypeOK'
<1> DEFINE Ops == DOMAIN op = Tasks /\ op = [w \in Tasks |-> op[w]] /\ \A w \in Tasks : OpOK(op[w])
<1>0. /\ engines \subseteq Keys /\ disk \in [Paths -> {"none", "empty", "data"}]
      /\ tenants \subseteq Tenants /\ Ops
      /\ answered \in [Judged -> Told] /\ loose \subseteq Tenants
  BY DEF TypeOK
<1>a. OpOK(Idle)
  BY DEF OpOK
<1>g. ASSUME NEW t \in Tasks, NEW o, OpOK(o), op' = [op EXCEPT ![t] = o]
      PROVE  Ops'
  BY <1>0, <1>g
<1>r. ASSUME NEW t \in Tasks, Return(t)
      PROVE  Ops'
  BY <1>r, <1>a, <1>g DEF Return
<1>1. ASSUME NEW t \in Tasks, NEW k \in Keys, BeginCreate(t, k)
      PROVE  TypeOK'
  <2> DEFINE o == [Idle EXCEPT !.pc = "check", !.kind = "create", !.key = k, !.at = k]
  <2>1. OpOK(o) /\ o # Idle
    BY DEF OpOK, CreateOp, CallsOf, Creating, Idle, Answers, Told
  <2>2. Start(t, o)
    BY <1>1 DEF BeginCreate
  <2> HIDE DEF o
  <2>3. Ops'
    BY <2>1, <2>2, StartTypes
  <2>4. QED
    BY <1>0, <1>1, <2>3 DEF TypeOK, BeginCreate, history
<1>2. ASSUME NEW t \in Tasks, NEW k \in Keys, BeginDelete(t, k)
      PROVE  TypeOK'
  <2> DEFINE o == [Idle EXCEPT !.pc = "remove", !.kind = "delete", !.key = k, !.at = k]
  <2>1. OpOK(o) /\ o # Idle
    <3>1. k # DefaultKey
      BY <1>2 DEF BeginDelete
    <3>2. QED
      BY <3>1 DEF OpOK, DeleteOp, CallsOf, Idle, Answers, Told
  <2>2. Start(t, o)
    BY <1>2 DEF BeginDelete
  <2> HIDE DEF o
  <2>3. Ops'
    BY <2>1, <2>2, StartTypes
  <2>4. QED
    BY <1>0, <1>2, <2>3 DEF TypeOK, BeginDelete, history
<1>3. ASSUME NEW t \in Tasks, NEW n \in Tenants, BeginDeleteTenant(t, n)
      PROVE  TypeOK'
  <2> DEFINE o == [Idle EXCEPT !.pc = "store", !.kind = "tenant", !.key = <<n, None>>]
  <2>1. OpOK(o) /\ o # Idle
    BY DEF OpOK, TenantOp, CallsOf, Idle, Answers, Told, NoKey
  <2>2. Start(t, o)
    BY <1>3 DEF BeginDeleteTenant
  <2> HIDE DEF o
  <2>3. Ops'
    BY <2>1, <2>2, StartTypes
  <2>4. QED
    BY <1>0, <1>3, <2>3 DEF TypeOK, BeginDeleteTenant, history
<1>4. ASSUME NEW t \in Tasks, NEW k \in Keys, Resolve(t, k)
      PROVE  TypeOK'
  <2>1. OpOK([Idle EXCEPT !.pc = "use", !.kind = "use", !.at = k])
    BY DEF OpOK, UseOp, CallsOf, Idle, Answers, Told, NoKey
  <2>2. Ops'
    BY <1>4, <1>g, <2>1 DEF Resolve
  <2>3. QED
    BY <1>0, <1>4, <2>2 DEF TypeOK, Resolve, history
<1>5. ASSUME NEW n \in Tenants, CreateTenant(n)
      PROVE  TypeOK'
  BY <1>0, <1>5 DEF TypeOK, CreateTenant, history
<1>6. ASSUME NEW t \in Tasks, Check(t)
      PROVE  TypeOK'
  <2>1. OpOK([op[t] EXCEPT !.pc = "mkdir"])
    BY <1>0, <1>6, StepTellsKind DEF Check, At, OpOK, CreateOp, CallsOf, Creating
  <2>2. Ops'
    BY <1>6, <1>g, <1>r, <2>1 DEF Check, Go
  <2>3. QED
    BY <1>0, <1>6, <2>2 DEF TypeOK, Check, history
<1>7. ASSUME NEW t \in Tasks, MakeDir(t)
      PROVE  TypeOK'
  <2>1. Answered(t) \in Told
    BY <1>0 DEF Answered, Answers, Told
  <2>2. OpOK([op[t] EXCEPT !.pc = "open", !.prior = Answered(t)])
    BY <1>0, <1>7, <2>1, StepTellsKind DEF MakeDir, At, OpOK, CreateOp, CallsOf, Creating
  <2>3. op' = [op EXCEPT ![t] = [op[t] EXCEPT !.pc = "open", !.prior = Answered(t)]]
    BY <1>0, <1>7 DEF MakeDir
  <2>4. Ops'
    BY <1>g, <2>2, <2>3
  <2>5. disk' \in [Paths -> {"none", "empty", "data"}] /\ answered' \in [Judged -> Told]
    BY <1>0, <1>7 DEF MakeDir, Unsure, Answers, Told
  <2>6. QED
    BY <1>0, <1>7, <2>4, <2>5 DEF TypeOK, MakeDir, history
<1>8. ASSUME NEW t \in Tasks, Open(t)
      PROVE  TypeOK'
  <2>1. OpOK([op[t] EXCEPT !.pc = "insert"])
    BY <1>0, <1>8, StepTellsKind DEF Open, At, OpOK, CreateOp, CallsOf, Creating
  <2>2. Ops'
    BY <1>8, <1>g, <2>1 DEF Open, Go
  <2>3. QED
    BY <1>0, <1>8, <2>2 DEF TypeOK, Open, history
<1>9. ASSUME NEW t \in Tasks, CreateFails(t)
      PROVE  TypeOK'
  <2>1. Ops'
    BY <1>9, <1>r DEF CreateFails
  <2>2. QED
    BY <1>0, <1>9, <2>1 DEF TypeOK, CreateFails, history
<1>10. ASSUME NEW t \in Tasks, Insert(t)
       PROVE  TypeOK'
  <2>1. op[t].at \in Keys
    BY <1>0, <1>10, StepTellsKind DEF Insert, At, CreateOp, CallsOf, Creating
  <2>2. Ops'
    BY <1>10, <1>r DEF Insert
  <2>3. \A k \in Judged : disk[PathOf(k)] \in Told
    BY <1>0, PathsAre DEF Judged, Answers, Told
  <2>4. answered' \in [Judged -> Told]
    <3>1. CASE op[t].at \in Judged /\ op[t].at \notin engines /\ op[t].alone
      <4>1. PICK v \in Told : answered' = [answered EXCEPT ![op[t].at] = v]
        BY <1>10, <2>3, <3>1 DEF Insert, Answers, Told
      <4>2. QED
        BY <1>0, <4>1
    <3>2. QED
      BY <1>0, <1>10, <3>1 DEF Insert
  <2>5. QED
    BY <1>0, <1>10, <2>1, <2>2, <2>4 DEF TypeOK, Insert
<1>11. ASSUME NEW t \in Tasks, RemoveName(t)
       PROVE  TypeOK'
  <2>1. DeleteOp(op[t]) /\ op[t].at \in Keys
    BY <1>0, <1>11, StepTellsKind DEF RemoveName, At, DeleteOp, CallsOf
  <2>2. OpOK([op[t] EXCEPT !.pc = "rmdir"])
    BY <2>1 DEF OpOK, DeleteOp, CallsOf
  <2>3. CASE op[t].at \in engines
    BY <1>0, <1>11, <2>1, <2>2, <2>3, TakeOutTypes DEF TypeOK, RemoveName
  <2>4. CASE op[t].at \notin engines
    BY <1>0, <1>11, <2>4, <1>r DEF TypeOK, RemoveName
  <2>5. QED
    BY <2>3, <2>4
<1>b. ASSUME NEW t \in Tasks, At(t, "rmdir"), AfterDelete(t)
      PROVE  Ops'
  <2>1. OpOK(op[t])
    BY <1>0
  <2>2. CASE op[t].kind = "tenant"
    <3>1. OpOK([op[t] EXCEPT !.pc = "cascade"])
      BY <1>b, <2>1, <2>2, StepTellsKind DEF At, OpOK, TenantOp, DeleteOp, CallsOf
    <3>2. QED
      BY <1>b, <1>g, <2>2, <3>1 DEF AfterDelete, Go
  <2>3. CASE op[t].kind # "tenant"
    BY <1>b, <1>r, <2>3 DEF AfterDelete
  <2>4. QED
    BY <2>2, <2>3
<1>12. ASSUME NEW t \in Tasks, RemoveDir(t)
       PROVE  TypeOK'
  <2>1. Ops'
    BY <1>12, <1>b DEF RemoveDir
  <2>2. disk' \in [Paths -> {"none", "empty", "data"}]
    BY <1>0, <1>12 DEF RemoveDir, Removed
  <2>3. answered' \in [Judged -> Told]
    BY <1>0, <1>12 DEF RemoveDir, Answers, Told
  <2>4. QED
    BY <1>0, <1>12, <2>1, <2>2, <2>3 DEF TypeOK, RemoveDir
<1>13. ASSUME NEW t \in Tasks, RemoveDirFails(t)
       PROVE  TypeOK'
  <2>1. Ops'
    BY <1>13, <1>b DEF RemoveDirFails
  <2>2. QED
    BY <1>0, <1>13, <2>1 DEF TypeOK, RemoveDirFails
<1>14. ASSUME NEW t \in Tasks, DeleteFromStore(t)
       PROVE  TypeOK'
  <2>1. TenantOp(op[t]) /\ op[t].key[1] \in Tenants
    BY <1>0, <1>14, StepTellsKind DEF DeleteFromStore, At, TenantOp, CallsOf
  <2>2. OpOK([op[t] EXCEPT !.pc = "list"])
    BY <2>1 DEF OpOK, TenantOp, CallsOf
  <2>3. Ops'
    BY <1>14, <1>g, <1>r, <2>2 DEF DeleteFromStore, Go
  <2>4. QED
    BY <1>0, <1>14, <2>1, <2>3 DEF TypeOK, DeleteFromStore
<1>15. ASSUME NEW t \in Tasks, ListOwned(t)
       PROVE  TypeOK'
  <2>1. TenantOp(op[t])
    BY <1>0, <1>15, StepTellsKind DEF ListOwned, At
  <2>2. OpOK([op[t] EXCEPT !.pc = "cascade", !.todo = OwnedBy(op[t].key[1])])
    <3>1. OwnedBy(op[t].key[1]) \subseteq Keys
      BY <1>0 DEF OwnedBy
    <3>2. QED
      BY <2>1, <3>1 DEF OpOK, TenantOp, CallsOf, OwnedBy
  <2>3. op' = [op EXCEPT ![t] = [op[t] EXCEPT !.pc = "cascade", !.todo = OwnedBy(op[t].key[1])]]
    BY <1>0, <1>15 DEF ListOwned
  <2>4. Ops'
    BY <1>g, <2>2, <2>3
  <2>5. QED
    BY <1>0, <1>15, <2>4 DEF TypeOK, ListOwned, history
<1>16. ASSUME NEW t \in Tasks, CascadeNext(t)
       PROVE  TypeOK'
  <2>1. TenantOp(op[t])
    BY <1>0, <1>16, StepTellsKind DEF CascadeNext, At
  <2> DEFINE o(k) == [op[t] EXCEPT !.at = k, !.todo = @ \ {k}]
  <2>2. PICK k \in op[t].todo :
          IF k \in engines THEN TakeOut(t, k, [o(k) EXCEPT !.pc = "rmdir"])
          ELSE op' = [op EXCEPT ![t] = o(k)] /\ UNCHANGED <<engines, answered>>
    BY <1>16 DEF CascadeNext
  <2>3. k \in Keys /\ k[1] = op[t].key[1]
    BY <2>1 DEF TenantOp, CallsOf
  <2>4. op[t].pc = "cascade"
    BY <1>16 DEF CascadeNext, At
  <2>5. OpOK(o(k)) /\ OpOK([o(k) EXCEPT !.pc = "rmdir"])
    BY <2>1, <2>3, <2>4 DEF OpOK, TenantOp, CallsOf
  <2>6. /\ engines' \subseteq Keys /\ Ops' /\ answered' \in [Judged -> Told]
    <3> HIDE DEF o
    <3>1. CASE k \in engines
      BY <2>2, <2>3, <2>5, <3>1, TakeOutTypes
    <3>2. CASE k \notin engines
      BY <1>0, <1>g, <2>2, <2>5, <3>2
    <3>3. QED
      BY <3>1, <3>2
  <2>7. QED
    BY <1>0, <1>16, <2>6 DEF TypeOK, CascadeNext
<1>17. ASSUME NEW t \in Tasks, CascadeDone(t)
       PROVE  TypeOK'
  <2>1. Ops'
    BY <1>17, <1>r DEF CascadeDone
  <2>2. QED
    BY <1>0, <1>17, <2>1 DEF TypeOK, CascadeDone, history
<1>18. ASSUME NEW t \in Tasks, Use(t)
       PROVE  TypeOK'
  <2>1. UseOp(op[t]) /\ op[t].at \in Keys /\ op[t].stale \in BOOLEAN
    BY <1>0, <1>18, StepTellsKind DEF Use, At, UseOp, CallsOf
  <2> DEFINE apart(w) == ~ (op[t].stale /\ Clash(op[w].key, op[t].at))
  <2>2. \A w \in Tasks : apart(w) \in BOOLEAN
    OBVIOUS
  <2>3. op' = [w \in Tasks |-> IF w = t THEN Idle ELSE [op[w] EXCEPT !.alone = @ /\ apart(w)]]
    BY <1>18 DEF Use
  <2> HIDE DEF apart
  <2>4. \A w \in Tasks : OpOK([op[w] EXCEPT !.alone = @ /\ apart(w)])
    BY <1>0, <2>2, MarksKeepShape
  <2>5. Ops'
    BY <1>a, <2>3, <2>4
  <2>6. PathOf(op[t].at) \in Paths
    BY <2>1, PathsAre
  <2>7. disk' \in [Paths -> {"none", "empty", "data"}] /\ answered' \in [Judged -> Told]
    BY <1>0, <1>18, <2>6 DEF Use, Unsure, Answers, Told
  <2>8. QED
    BY <1>0, <1>18, <2>5, <2>7 DEF TypeOK, Use
<1>19. ASSUME Restart
       PROVE  TypeOK'
  <2>1. \A owners : OnDisk(owners) \subseteq Keys
    BY DEF OnDisk
  <2>2. \A found, failed, n : \A S \in LoadedFrom(found, failed, n) : S \subseteq found
    BY DEF LoadedFrom
  <2>3. DefaultKey \in Keys
    BY DEF DefaultKey, Keys
  <2>4. PICK failed, flat, owned :
          /\ flat \in LoadedFrom(OnDisk({Admin}), failed, 1)
          /\ owned \in LoadedFrom(OnDisk(Tenants), failed, 1 + Cardinality(flat))
          /\ engines' = {DefaultKey} \cup flat \cup owned
          /\ tenants' \subseteq tenants
          /\ \E left : Forgotten(left)
          /\ loose' \subseteq loose \cup Tenants
    BY <1>0, <1>19 DEF Restart, TenantsFound
  <2>5. engines' \subseteq Keys
    BY <2>1, <2>2, <2>3, <2>4
  <2>6. answered' \in [Judged -> Told]
    BY <1>0, <2>4 DEF Forgotten, Answers, Told
  <2>7. Ops'
    BY <1>19, <1>a DEF Restart
  <2>8. QED
    BY <1>0, <1>19, <2>4, <2>5, <2>6, <2>7 DEF TypeOK, Restart
<1>20. CASE UNCHANGED vars
  BY <1>20 DEF TypeOK, vars, history
<1>21. QED
  BY <1>1, <1>2, <1>3, <1>4, <1>5, <1>6, <1>7, <1>8, <1>9, <1>10, <1>11, <1>12, <1>13,
     <1>14, <1>15, <1>16, <1>17, <1>18, <1>19, <1>20 DEF Next, Call

-----------------------------------------------------------------------------
(* The number of engines                                                   *)

LEMMA KeysAreFinite ==
  /\ IsFiniteSet(Keys)
  /\ \A S \in SUBSET Keys : IsFiniteSet(S) /\ Cardinality(S) \in Nat
<1>1. IsFiniteSet(Names) /\ IsFiniteSet(TenantNames)
  BY FS_Subset
<1>2. IsFiniteSet(Names \cup {Default}) /\ IsFiniteSet({Admin})
  BY <1>1, FS_AddElement, FS_Singleton
<1>3. IsFiniteSet({Admin} \X (Names \cup {Default})) /\ IsFiniteSet(Tenants \X TenantNames)
  BY <1>1, <1>2, FS_Product
<1>4. IsFiniteSet(Keys)
  BY <1>3, FS_Union DEF Keys
<1>5. QED
  BY <1>4, FS_Subset, FS_CardinalityType

LEMMA TasksAreFinite ==
  /\ Cardinality(Tasks) \in Nat \ {0}
  /\ \A S \in SUBSET Tasks : /\ IsFiniteSet(S) /\ Cardinality(S) \in Nat
                             /\ Cardinality(S) <= Cardinality(Tasks)
  BY FS_Subset, FS_CardinalityType, FS_EmptySet

Admissible == {"mkdir", "open", "insert"}

\* Without a new engine and a new request past the check nothing is to be shown.
LEMMA NoMoreEngines ==
  ASSUME TypeOK, LimitHolds, engines' \subseteq engines,
         \A w \in Tasks : op'[w].pc \in Admissible => op[w].pc \in Admissible
  PROVE  LimitHolds'
<1>1. Admitted' \subseteq Admitted /\ Admitted \subseteq Tasks
  BY DEF Admitted, Admissible
<1>2. engines \subseteq Keys
  BY DEF TypeOK
<1>3. Cardinality(Admitted') <= Cardinality(Admitted) /\ Cardinality(engines') <= Cardinality(engines)
  BY <1>1, <1>2, KeysAreFinite, TasksAreFinite, FS_Subset
<1>4. /\ Cardinality(Admitted') \in Nat /\ Cardinality(Admitted) \in Nat
      /\ Cardinality(engines') \in Nat /\ Cardinality(engines) \in Nat
  BY <1>1, <1>2, KeysAreFinite, TasksAreFinite
<1>5. QED
  BY <1>3, <1>4, TasksAreFinite DEF LimitHolds

\* Requests that come in stand before the check.
LEMMA StartAdmitsNone ==
  ASSUME TypeOK, NEW t \in Tasks, NEW o, OpOK(o), o # Idle, Start(t, o), o.pc \notin Admissible
  PROVE  \A w \in Tasks : op'[w].pc \in Admissible => op[w].pc \in Admissible
  BY StartTypes DEF SameCall

LEMMA TakeOutAdmitsNone ==
  ASSUME TypeOK, NEW t \in Tasks, NEW k \in Keys, NEW o, OpOK(o), o.pc \notin Admissible,
         TakeOut(t, k, o)
  PROVE  \A w \in Tasks : op'[w].pc \in Admissible => op[w].pc \in Admissible
  BY TakeOutTypes DEF SameCall

\* A restart loads no more engines than there is room for.
LEMMA RestartHoldsLimit ==
  ASSUME TypeOK, Restart
  PROVE  Cardinality(engines') <= Limit
<1>1. PICK failed, flat, owned :
        /\ flat \in LoadedFrom(OnDisk({Admin}), failed, 1)
        /\ owned \in LoadedFrom(OnDisk(Tenants), failed, 1 + Cardinality(flat))
        /\ engines' = {DefaultKey} \cup flat \cup owned
  BY DEF Restart
<1>2. flat \subseteq Keys /\ owned \subseteq Keys /\ DefaultKey \in Keys
  BY <1>1 DEF LoadedFrom, OnDisk, DefaultKey, Keys
<1>3. /\ Cardinality(flat) + 1 <= Limit \/ flat = {}
      /\ Cardinality(owned) + (1 + Cardinality(flat)) <= Limit \/ owned = {}
  BY <1>1 DEF LoadedFrom
<1>4. /\ IsFiniteSet(flat) /\ Cardinality(flat) \in Nat
      /\ IsFiniteSet(owned) /\ Cardinality(owned) \in Nat
      /\ flat \cup owned \subseteq Keys /\ IsFiniteSet(flat \cup owned)
      /\ Cardinality(flat \cup owned) \in Nat
  BY <1>2, KeysAreFinite
<1>5. Cardinality(flat \cup owned) <= Cardinality(flat) + Cardinality(owned)
  <2>1. /\ Cardinality(flat \cup owned) =
             Cardinality(flat) + Cardinality(owned) - Cardinality(flat \cap owned)
    BY <1>4, FS_Union
  <2>2. Cardinality(flat \cap owned) \in Nat
    BY <1>2, KeysAreFinite
  <2>3. QED
    BY <1>4, <2>1, <2>2
<1>6. Cardinality(engines') <= Cardinality(flat \cup owned) + 1 /\ Cardinality(engines') \in Nat
  <2>1. engines' = (flat \cup owned) \cup {DefaultKey}
    BY <1>1
  <2> DEFINE S == flat \cup owned
  <2>2. IsFiniteSet(S) /\ Cardinality(S) \in Nat
    BY <1>4
  <2>3. Cardinality(S \cup {DefaultKey}) = IF DefaultKey \in S THEN Cardinality(S)
                                           ELSE Cardinality(S) + 1
    BY <2>2, FS_AddElement
  <2>4. QED
    BY <2>1, <2>2, <2>3
<1>7. 1 + Cardinality(flat) + Cardinality(owned) <= Limit
  BY <1>3, <1>4, FS_EmptySet
<1>8. QED
  BY <1>4, <1>5, <1>6, <1>7

LEMMA LimitStep ==
  ASSUME TypeOK, LimitHolds, [Next]_vars
  PROVE  LimitHolds'
<1>0. /\ engines \subseteq Keys /\ op = [w \in Tasks |-> op[w]] /\ DOMAIN op = Tasks
      /\ \A w \in Tasks : OpOK(op[w])
  BY DEF TypeOK
<1> DEFINE NoneAdmitted == \A w \in Tasks : op'[w].pc \in Admissible => op[w].pc \in Admissible
<1>n. ASSUME NoneAdmitted, engines' \subseteq engines
      PROVE  LimitHolds'
  BY <1>n, NoMoreEngines
<1>r. ASSUME NEW t \in Tasks, Return(t)
      PROVE  NoneAdmitted
  BY <1>0, <1>r DEF Return, Idle, Admissible
<1>s. Cardinality(engines) \in Nat /\ IsFiniteSet(engines)
  BY <1>0, KeysAreFinite
<1>1. ASSUME NEW t \in Tasks, NEW k \in Keys, BeginCreate(t, k)
      PROVE  LimitHolds'
  <2> DEFINE o == [Idle EXCEPT !.pc = "check", !.kind = "create", !.key = k, !.at = k]
  <2>1. OpOK(o) /\ o # Idle /\ o.pc \notin Admissible
    BY DEF OpOK, CreateOp, CallsOf, Creating, Idle, Answers, Told, Admissible
  <2>2. Start(t, o) /\ engines' \subseteq engines
    BY <1>1 DEF BeginCreate
  <2> HIDE DEF o
  <2>3. QED
    BY <1>n, <2>1, <2>2, StartAdmitsNone
<1>2. ASSUME NEW t \in Tasks, NEW k \in Keys, BeginDelete(t, k)
      PROVE  LimitHolds'
  <2> DEFINE o == [Idle EXCEPT !.pc = "remove", !.kind = "delete", !.key = k, !.at = k]
  <2>1. OpOK(o) /\ o # Idle /\ o.pc \notin Admissible
    <3>1. k # DefaultKey
      BY <1>2 DEF BeginDelete
    <3>2. QED
      BY <3>1 DEF OpOK, DeleteOp, CallsOf, Idle, Answers, Told, Admissible
  <2>2. Start(t, o) /\ engines' \subseteq engines
    BY <1>2 DEF BeginDelete
  <2> HIDE DEF o
  <2>3. QED
    BY <1>n, <2>1, <2>2, StartAdmitsNone
<1>3. ASSUME NEW t \in Tasks, NEW n \in Tenants, BeginDeleteTenant(t, n)
      PROVE  LimitHolds'
  <2> DEFINE o == [Idle EXCEPT !.pc = "store", !.kind = "tenant", !.key = <<n, None>>]
  <2>1. OpOK(o) /\ o # Idle /\ o.pc \notin Admissible
    BY DEF OpOK, TenantOp, CallsOf, Idle, Answers, Told, NoKey, Admissible
  <2>2. Start(t, o) /\ engines' \subseteq engines
    BY <1>3 DEF BeginDeleteTenant
  <2> HIDE DEF o
  <2>3. QED
    BY <1>n, <2>1, <2>2, StartAdmitsNone
<1>4. ASSUME NEW t \in Tasks, NEW k \in Keys, Resolve(t, k)
      PROVE  LimitHolds'
  <2>1. NoneAdmitted
    BY <1>0, <1>4 DEF Resolve, Idle, Admissible
  <2>2. QED
    BY <1>4, <1>n, <2>1 DEF Resolve
<1>5. ASSUME NEW n \in Tenants, CreateTenant(n)
      PROVE  LimitHolds'
  BY <1>5, <1>n DEF CreateTenant
<1>6. ASSUME NEW t \in Tasks, Check(t)
      PROVE  LimitHolds'
  <2>1. CASE op[t].at \notin engines /\ HasRoom
    <3>1. Go(t, "mkdir") /\ engines' = engines /\ Cardinality(engines) < Limit
      BY <1>6, <2>1 DEF Check, HasRoom
    <3>2. Cardinality(Admitted') \in Nat /\ Cardinality(Admitted') <= Cardinality(Tasks)
      <4>1. Admitted' \subseteq Tasks
        BY DEF Admitted
      <4>2. QED
        BY <4>1, TasksAreFinite
    <3>3. QED
      BY <1>s, <3>1, <3>2, TasksAreFinite DEF LimitHolds
  <2>2. CASE ~ (op[t].at \notin engines /\ HasRoom)
    BY <1>6, <1>n, <1>r, <2>2 DEF Check
  <2>3. QED
    BY <2>1, <2>2
<1>7. ASSUME NEW t \in Tasks, MakeDir(t)
      PROVE  LimitHolds'
  <2>1. NoneAdmitted
    BY <1>0, <1>7 DEF MakeDir, At, Admissible
  <2>2. QED
    BY <1>7, <1>n, <2>1 DEF MakeDir
<1>8. ASSUME NEW t \in Tasks, Open(t)
      PROVE  LimitHolds'
  <2>1. NoneAdmitted
    BY <1>0, <1>8 DEF Open, Go, At, Admissible
  <2>2. QED
    BY <1>8, <1>n, <2>1 DEF Open
<1>9. ASSUME NEW t \in Tasks, CreateFails(t)
      PROVE  LimitHolds'
  BY <1>9, <1>n, <1>r DEF CreateFails
<1>10. ASSUME NEW t \in Tasks, Insert(t)
       PROVE  LimitHolds'
  <2>1. t \in Admitted /\ Admitted' = Admitted \ {t} /\ Admitted \subseteq Tasks
    BY <1>0, <1>10 DEF Insert, At, Admitted, Return, Idle
  <2>2. Cardinality(Admitted') = Cardinality(Admitted) - 1 /\ Cardinality(Admitted) \in Nat
    BY <2>1, FS_RemoveElement, TasksAreFinite
  <2>3. Cardinality(engines') <= Cardinality(engines) + 1 /\ Cardinality(engines') \in Nat
    <3>1. engines' = engines \cup {op[t].at}
      BY <1>10 DEF Insert
    <3>2. IsFiniteSet(engines')
      BY <1>s, <3>1, FS_AddElement
    <3>3. Cardinality(engines') = IF op[t].at \in engines THEN Cardinality(engines)
                                  ELSE Cardinality(engines) + 1
      BY <1>s, <3>1, FS_AddElement
    <3>4. QED
      BY <1>s, <3>2, <3>3
  <2>4. QED
    BY <1>s, <2>2, <2>3, TasksAreFinite DEF LimitHolds
<1>11. ASSUME NEW t \in Tasks, RemoveName(t)
       PROVE  LimitHolds'
  <2>1. DeleteOp(op[t]) /\ op[t].at \in Keys
    BY <1>0, <1>11, StepTellsKind DEF RemoveName, At, DeleteOp, CallsOf
  <2> DEFINE o == [op[t] EXCEPT !.pc = "rmdir"]
  <2>2. OpOK(o) /\ o.pc \notin Admissible
    BY <2>1 DEF OpOK, DeleteOp, CallsOf, Admissible
  <2>3. CASE op[t].at \in engines
    <3>1. TakeOut(t, op[t].at, o)
      BY <1>11, <2>3 DEF RemoveName
    <3> HIDE DEF o
    <3>2. engines' \subseteq engines
      BY <3>1 DEF TakeOut
    <3>3. QED
      BY <1>n, <2>1, <2>2, <3>1, <3>2, TakeOutAdmitsNone
  <2>4. CASE op[t].at \notin engines
    BY <1>11, <1>n, <1>r, <2>4 DEF RemoveName
  <2>5. QED
    BY <2>3, <2>4
<1>b. ASSUME NEW t \in Tasks, AfterDelete(t), engines' = engines
      PROVE  LimitHolds'
  <2>1. NoneAdmitted
    BY <1>b, AfterDeleteMoves DEF Admissible, Idle
  <2>2. QED
    BY <1>b, <1>n, <2>1
<1>12. ASSUME NEW t \in Tasks, RemoveDir(t) \/ RemoveDirFails(t)
       PROVE  LimitHolds'
  BY <1>12, <1>b DEF RemoveDir, RemoveDirFails
<1>13. ASSUME NEW t \in Tasks, DeleteFromStore(t)
       PROVE  LimitHolds'
  <2>1. NoneAdmitted
    <3>1. CASE op[t].key[1] \in tenants
      <4>1. Go(t, "list")
        BY <1>13, <3>1 DEF DeleteFromStore
      <4>2. QED
        BY <4>1, GoMoves DEF Admissible
    <3>2. CASE op[t].key[1] \notin tenants
      BY <1>13, <1>r, <3>2 DEF DeleteFromStore
    <3>3. QED
      BY <3>1, <3>2
  <2>2. QED
    BY <1>13, <1>n, <2>1 DEF DeleteFromStore
<1>14. ASSUME NEW t \in Tasks, ListOwned(t)
       PROVE  LimitHolds'
  <2>1. NoneAdmitted
    BY <1>0, <1>14 DEF ListOwned, Admissible
  <2>2. QED
    BY <1>14, <1>n, <2>1 DEF ListOwned
<1>15. ASSUME NEW t \in Tasks, CascadeNext(t)
       PROVE  LimitHolds'
  <2>1. TenantOp(op[t]) /\ op[t].pc = "cascade"
    BY <1>0, <1>15, StepTellsKind DEF CascadeNext, At
  <2> DEFINE o(k) == [op[t] EXCEPT !.at = k, !.todo = @ \ {k}]
  <2>2. PICK k \in op[t].todo :
          IF k \in engines THEN TakeOut(t, k, [o(k) EXCEPT !.pc = "rmdir"])
          ELSE op' = [op EXCEPT ![t] = o(k)] /\ UNCHANGED <<engines, answered>>
    BY <1>15 DEF CascadeNext
  <2>3. k \in Keys /\ k[1] = op[t].key[1]
    BY <2>1 DEF TenantOp, CallsOf
  <2>4. /\ OpOK([o(k) EXCEPT !.pc = "rmdir"]) /\ [o(k) EXCEPT !.pc = "rmdir"].pc \notin Admissible
        /\ o(k).pc \notin Admissible
    BY <2>1, <2>3 DEF OpOK, TenantOp, CallsOf, Admissible
  <2> HIDE DEF o
  <2>5. CASE k \in engines
    <3>1. engines' \subseteq engines
      BY <2>2, <2>5 DEF TakeOut
    <3>2. QED
      BY <1>n, <2>2, <2>3, <2>4, <2>5, <3>1, TakeOutAdmitsNone
  <2>6. CASE k \notin engines
    <3>1. NoneAdmitted
      BY <1>0, <2>2, <2>4, <2>6
    <3>2. QED
      BY <1>n, <2>2, <2>6, <3>1
  <2>7. QED
    BY <2>5, <2>6
<1>16. ASSUME NEW t \in Tasks, CascadeDone(t)
       PROVE  LimitHolds'
  BY <1>16, <1>n, <1>r DEF CascadeDone
<1>17. ASSUME NEW t \in Tasks, Use(t)
       PROVE  LimitHolds'
  <2>1. NoneAdmitted
    BY <1>17, UseMoves DEF Admissible, Idle, SameCall
  <2>2. QED
    BY <1>17, <1>n, <2>1 DEF Use
<1>18. ASSUME Restart
       PROVE  LimitHolds'
  <2>1. Admitted' = {}
    BY <1>18 DEF Restart, Admitted, Idle
  <2>2. Cardinality(engines') \in Nat
    BY <1>18, TypeStep, KeysAreFinite DEF TypeOK, Next
  <2>3. QED
    BY <1>18, <2>1, <2>2, RestartHoldsLimit, TasksAreFinite, FS_EmptySet DEF LimitHolds
<1>19. CASE UNCHANGED vars
  BY <1>19, <1>n DEF vars
<1>20. QED
  BY <1>1, <1>2, <1>3, <1>4, <1>5, <1>6, <1>7, <1>8, <1>9, <1>10, <1>11, <1>12, <1>13,
     <1>14, <1>15, <1>16, <1>17, <1>18, <1>19 DEF Next, Call

\* LimitHolds is inductive: however many requests pass the check before the first
\* of them inserts, the registry holds Limit engines and one for each of them but
\* one at most.
THEOREM LimitIsKept == Spec => []LimitHolds
<1>1. Init => TypeOK /\ LimitHolds
  <2> SUFFICES ASSUME Init PROVE TypeOK /\ LimitHolds
    OBVIOUS
  <2>1. Cardinality(engines) = 1
    BY FS_Singleton DEF Init
  <2>2. Admitted = {}
    BY DEF Init, Admitted, Idle
  <2>3. QED
    BY <2>1, <2>2, InitTypes, TasksAreFinite, FS_EmptySet DEF LimitHolds
<1>2. (TypeOK /\ LimitHolds) /\ [Next]_vars => (TypeOK /\ LimitHolds)'
  BY TypeStep, LimitStep
<1>3. QED
  BY <1>1, <1>2, PTL DEF Spec

-----------------------------------------------------------------------------
(* Tenants and their indexes                                               *)

\* Deletion o will come to index k, and call o is busy with its directory.
Covers(o, k) ==
  /\ o.kind = "tenant" /\ o.key = <<k[1], None>>
  /\ o.pc = "list" \/ (o.pc \in {"cascade", "rmdir"} /\ k \in o.todo)
Occupies(o, k) == o.at = k /\ o.pc \in {"open", "insert", "rmdir"}

Answering(n) == n \in tenants \cup loose

CreatesForTenants ==
  \A w \in Tasks : op[w].pc \in Creating /\ op[w].at[1] \in Tenants => Answering(op[w].at[1])

OrphansAreCovered ==
  \A k \in engines : k[1] \in Tenants /\ ~ Answering(k[1]) => \E w \in Tasks : Covers(op[w], k)

DirectoriesAreKnown ==
  \A k \in Keys : k[1] \in Tenants \ loose /\ disk[PathOf(k)] # "none" =>
    k \in engines \/ \E w \in Tasks : Occupies(op[w], k)

OrphanInv == TypeOK /\ CreatesForTenants /\ OrphansAreCovered /\ DirectoriesAreKnown

\* What a step must see to when no tenant goes.
LEMMA OrphanFrame ==
  ASSUME OrphanInv, TypeOK', tenants \subseteq tenants', loose \subseteq loose',
         \A k \in engines' : k \in engines \/ (k[1] \in Tenants => Answering(k[1])'),
         \A w \in Tasks : op'[w].pc \in Creating =>
           \/ op[w].pc \in Creating /\ op'[w].at = op[w].at
           \/ op'[w].at[1] \in Tenants => op'[w].at[1] \in tenants',
         \A w \in Tasks : \A k \in engines \cap engines' : Covers(op[w], k) => Covers(op'[w], k),
         \A k \in Keys : k[1] \in Tenants /\ disk'[PathOf(k)] # "none" =>
           disk[PathOf(k)] # "none" \/ \E w \in Tasks : Occupies(op'[w], k),
         \A k \in engines \ engines' : \E w \in Tasks : Occupies(op'[w], k),
         \A w \in Tasks : \A k \in Keys :
           k[1] \in Tenants \ loose' /\ disk'[PathOf(k)] # "none" /\ Occupies(op[w], k) =>
             Occupies(op'[w], k) \/ k \in engines'
  PROVE  OrphanInv'
<1>1. CreatesForTenants'
  BY DEF OrphanInv, CreatesForTenants, Answering
<1>2. OrphansAreCovered'
  BY DEF OrphanInv, OrphansAreCovered, Answering
<1>3. DirectoriesAreKnown'
  BY DEF OrphanInv, DirectoriesAreKnown
<1>4. QED
  BY <1>1, <1>2, <1>3 DEF OrphanInv

\* A step of one request that leaves the map, the directories and the tenants as
\* they are.
LEMMA OrphanQuiet ==
  ASSUME OrphanInv, TypeOK', NEW t \in Tasks,
         UNCHANGED <<engines, disk, tenants>>, loose \subseteq loose',
         \A w \in Tasks \ {t} : SameCall(op'[w], op[w]),
         op'[t].pc \in Creating =>
           \/ op[t].pc \in Creating /\ op'[t].at = op[t].at
           \/ op'[t].at[1] \in Tenants => op'[t].at[1] \in tenants,
         \A k \in engines : Covers(op[t], k) => Covers(op'[t], k),
         \A k \in Keys : k[1] \in Tenants \ loose' /\ disk[PathOf(k)] # "none" /\ Occupies(op[t], k)
                           => Occupies(op'[t], k) \/ k \in engines
  PROVE  OrphanInv'
<1>1. \A w \in Tasks : op'[w].pc \in Creating =>
           \/ op[w].pc \in Creating /\ op'[w].at = op[w].at
           \/ op'[w].at[1] \in Tenants => op'[w].at[1] \in tenants'
  BY DEF SameCall
<1>2. \A w \in Tasks : \A k \in engines \cap engines' : Covers(op[w], k) => Covers(op'[w], k)
  BY DEF SameCall, Covers
<1>3. \A w \in Tasks : \A k \in Keys :
           k[1] \in Tenants \ loose' /\ disk'[PathOf(k)] # "none" /\ Occupies(op[w], k) =>
             Occupies(op'[w], k) \/ k \in engines'
  BY DEF SameCall, Occupies
<1>4. QED
  BY <1>1, <1>2, <1>3, OrphanFrame

LEMMA OrphanStep ==
  ASSUME OrphanInv, [Next]_vars
  PROVE  OrphanInv'
<1>0. /\ TypeOK /\ TypeOK'
      /\ engines \subseteq Keys /\ tenants \subseteq Tenants /\ loose \subseteq Tenants
      /\ \A w \in Tasks : OpOK(op[w])
  BY TypeStep DEF OrphanInv, TypeOK
<1> DEFINE Same(t) == \A w \in Tasks \ {t} : SameCall(op'[w], op[w])
<1>s. \A o : SameCall(o, o)
  BY DEF SameCall
<1>1. ASSUME NEW t \in Tasks, NEW k \in Keys, BeginCreate(t, k)
      PROVE  OrphanInv'
  <2> DEFINE o == [Idle EXCEPT !.pc = "check", !.kind = "create", !.key = k, !.at = k]
  <2>1. OpOK(o) /\ o # Idle /\ o.at = k
    BY DEF OpOK, CreateOp, CallsOf, Creating, Idle, Answers, Told
  <2>2. Start(t, o) /\ op[t].pc = "idle" /\ UNCHANGED <<engines, disk, tenants, loose>>
    BY <1>1 DEF BeginCreate, At, history
  <2>3. k[1] \in Tenants => k[1] \in tenants
    BY <1>1 DEF BeginCreate, Authenticated
  <2> HIDE DEF o
  <2>4. Same(t) /\ op'[t].at = k
    BY <1>0, <2>1, <2>2, StartTypes DEF SameCall
  <2>5. ~ \E j \in Keys : Covers(op[t], j) \/ Occupies(op[t], j)
    BY <2>2 DEF Covers, Occupies
  <2>6. QED
    BY <1>0, <2>2, <2>3, <2>4, <2>5, OrphanQuiet
<1>2. ASSUME NEW t \in Tasks, NEW k \in Keys, BeginDelete(t, k)
      PROVE  OrphanInv'
  <2> DEFINE o == [Idle EXCEPT !.pc = "remove", !.kind = "delete", !.key = k, !.at = k]
  <2>1. OpOK(o) /\ o # Idle /\ o.pc = "remove"
    <3>1. k # DefaultKey
      BY <1>2 DEF BeginDelete
    <3>2. QED
      BY <3>1 DEF OpOK, DeleteOp, CallsOf, Idle, Answers, Told
  <2>2. Start(t, o) /\ op[t].pc = "idle" /\ UNCHANGED <<engines, disk, tenants, loose>>
    BY <1>2 DEF BeginDelete, At, history
  <2> HIDE DEF o
  <2>3. Same(t) /\ op'[t].pc = "remove"
    BY <1>0, <2>1, <2>2, StartTypes DEF SameCall
  <2>4. ~ \E j \in Keys : Covers(op[t], j) \/ Occupies(op[t], j)
    BY <2>2 DEF Covers, Occupies
  <2>5. QED
    BY <1>0, <2>2, <2>3, <2>4, OrphanQuiet DEF Creating
<1>3. ASSUME NEW t \in Tasks, NEW n \in Tenants, BeginDeleteTenant(t, n)
      PROVE  OrphanInv'
  <2> DEFINE o == [Idle EXCEPT !.pc = "store", !.kind = "tenant", !.key = <<n, None>>]
  <2>1. OpOK(o) /\ o # Idle /\ o.pc = "store"
    BY DEF OpOK, TenantOp, CallsOf, Idle, Answers, Told, NoKey
  <2>2. Start(t, o) /\ op[t].pc = "idle" /\ UNCHANGED <<engines, disk, tenants, loose>>
    BY <1>3 DEF BeginDeleteTenant, At, history
  <2> HIDE DEF o
  <2>3. Same(t) /\ op'[t].pc = "store"
    BY <1>0, <2>1, <2>2, StartTypes DEF SameCall
  <2>4. ~ \E j \in Keys : Covers(op[t], j) \/ Occupies(op[t], j)
    BY <2>2 DEF Covers, Occupies
  <2>5. QED
    BY <1>0, <2>2, <2>3, <2>4, OrphanQuiet DEF Creating
<1>4. ASSUME NEW t \in Tasks, NEW k \in Keys, Resolve(t, k)
      PROVE  OrphanInv'
  <2>1. op[t].pc = "idle" /\ UNCHANGED <<engines, disk, tenants, loose>>
    BY <1>4 DEF Resolve, At, history
  <2>2. Same(t) /\ op'[t].pc = "use"
    BY <1>0, <1>4, <1>s DEF Resolve, Idle, TypeOK
  <2>3. ~ \E j \in Keys : Covers(op[t], j) \/ Occupies(op[t], j)
    BY <2>1 DEF Covers, Occupies
  <2>4. QED
    BY <1>0, <2>1, <2>2, <2>3, OrphanQuiet DEF Creating
<1>5. ASSUME NEW n \in Tenants, CreateTenant(n)
      PROVE  OrphanInv'
  <2>1. UNCHANGED <<engines, disk, loose, op>> /\ tenants \subseteq tenants'
    BY <1>5 DEF CreateTenant, history
  <2>2. QED
    BY <1>0, <2>1, OrphanFrame
<1>6. ASSUME NEW t \in Tasks, Check(t)
      PROVE  OrphanInv'
  <2>1. op[t].pc = "check" /\ UNCHANGED <<engines, disk, tenants, loose>>
    BY <1>6 DEF Check, At, history
  <2>2. Same(t) /\ (op'[t].pc \in Creating => op'[t].at = op[t].at)
    BY <1>0, <1>6, <1>s, GoMoves, ReturnMoves DEF Check, Idle, Creating
  <2>3. ~ \E j \in Keys : Covers(op[t], j) \/ Occupies(op[t], j)
    BY <2>1 DEF Covers, Occupies
  <2>4. QED
    BY <1>0, <2>1, <2>2, <2>3, OrphanQuiet DEF Creating
<1>7. ASSUME NEW t \in Tasks, MakeDir(t)
      PROVE  OrphanInv'
  <2> DEFINE k == op[t].at
  <2>1. op[t].pc = "mkdir" /\ UNCHANGED <<engines, tenants, loose>> /\ k \in Keys
    BY <1>0, <1>7, StepTellsKind DEF MakeDir, At, CreateOp, CallsOf, Creating
  <2>2. op'[t].pc = "open" /\ op'[t].at = k /\ \A w \in Tasks \ {t} : op'[w] = op[w]
    <3>1. op' = [op EXCEPT ![t] = [op[t] EXCEPT !.pc = "open", !.prior = Answered(t)]]
      BY <1>0, <1>7 DEF MakeDir, TypeOK
    <3>2. CreateOp(op[t])
      BY <1>0, <2>1, StepTellsKind DEF Creating
    <3>3. QED
      BY <1>0, <3>1, <3>2 DEF TypeOK, CreateOp, CallsOf
  <2>3. \A j \in Keys : j[1] \in Tenants /\ disk'[PathOf(j)] # "none" =>
          disk[PathOf(j)] # "none" \/ j = k
    <3>1. \A j \in Keys : disk'[PathOf(j)] # disk[PathOf(j)] => IsPrefix(PathOf(j), PathOf(k))
      BY <1>7, PathsAre DEF MakeDir
    <3>2. \A j \in Keys : j[1] \in Tenants => j # Reserved
      BY DEF Reserved
    <3>3. QED
      BY <2>1, <3>1, <3>2, PrefixIs
  <2>4. ~ \E j \in Keys : Covers(op[t], j) \/ Occupies(op[t], j)
    BY <2>1 DEF Covers, Occupies
  <2>5. Occupies(op'[t], k)
    BY <2>2 DEF Occupies
  <2> HIDE DEF k
  <2>6. QED
    BY <1>0, <2>1, <2>2, <2>3, <2>4, <2>5, OrphanFrame DEF Creating, k
<1>8. ASSUME NEW t \in Tasks, Open(t)
      PROVE  OrphanInv'
  <2>1. op[t].pc = "open" /\ UNCHANGED <<engines, disk, tenants, loose>> /\ Go(t, "insert")
    BY <1>8 DEF Open, At, history
  <2>2. Same(t) /\ op'[t].pc = "insert" /\ op'[t].at = op[t].at
    BY <1>0, <1>s, <2>1, GoMoves
  <2>3. \A j \in Keys : ~ Covers(op[t], j) /\ (Occupies(op[t], j) => Occupies(op'[t], j))
    BY <2>1, <2>2 DEF Covers, Occupies
  <2>4. QED
    BY <1>0, <2>1, <2>2, <2>3, OrphanQuiet DEF Creating
<1>9. ASSUME NEW t \in Tasks, CreateFails(t)
      PROVE  OrphanInv'
  <2>1. /\ op[t].pc \in {"mkdir", "open"} /\ UNCHANGED <<engines, disk, tenants>>
        /\ Return(t) /\ loose \subseteq loose'
        /\ op[t].pc = "open" /\ op[t].at[1] \in Tenants => op[t].at[1] \in loose'
    BY <1>9 DEF CreateFails, At
  <2>2. Same(t) /\ op'[t] = Idle
    BY <1>0, <1>s, <2>1, ReturnMoves
  <2>3. \A j \in Keys : ~ Covers(op[t], j) /\ (Occupies(op[t], j) => j[1] \notin Tenants \ loose')
    BY <2>1 DEF Covers, Occupies
  <2>4. QED
    BY <1>0, <2>1, <2>2, <2>3, OrphanQuiet DEF Creating, Idle
<1>10. ASSUME NEW t \in Tasks, Insert(t)
       PROVE  OrphanInv'
  <2>0. PICK k : k = op[t].at
    OBVIOUS
  <2>1. /\ op[t].pc = "insert" /\ UNCHANGED <<disk, tenants, loose>>
        /\ engines' = engines \cup {k} /\ Return(t)
    BY <1>10, <2>0 DEF Insert, At
  <2>2. op'[t].pc \notin Creating /\ \A w \in Tasks \ {t} : op'[w] = op[w]
    BY <1>0, <2>1, ReturnMoves DEF Idle, Creating
  <2>3. k[1] \in Tenants => Answering(k[1])'
    BY <2>0, <2>1 DEF OrphanInv, CreatesForTenants, Creating, Answering
  <2>4. \A j \in Keys : ~ Covers(op[t], j) /\ (Occupies(op[t], j) => j = k)
    BY <2>0, <2>1 DEF Covers, Occupies
  <2>5. QED
    BY <1>0, <2>1, <2>2, <2>3, <2>4, OrphanFrame
<1>11. ASSUME NEW t \in Tasks, NEW k \in Keys, NEW o, OpOK(o), TakeOut(t, k, o), k \in engines,
              o.at = k, o.pc = "rmdir", UNCHANGED <<disk, tenants, loose>>,
              \A j \in engines \ {k} : Covers(op[t], j) => Covers(o, j),
              ~ \E j \in Keys : Occupies(op[t], j)
       PROVE  OrphanInv'
  <2>1. /\ engines' = engines \ {k} /\ op'[t] = o
        /\ \A w \in Tasks \ {t} : SameCall(op'[w], op[w])
    BY <1>0, <1>11, TakeOutTypes
  <2>2. Occupies(op'[t], k)
    BY <1>11, <2>1 DEF Occupies
  <2>3. \A w \in Tasks \ {t} : /\ op'[w].pc = op[w].pc /\ op'[w].at = op[w].at
                               /\ \A j \in Keys : Covers(op[w], j) => Covers(op'[w], j)
                               /\ \A j \in Keys : Occupies(op[w], j) => Occupies(op'[w], j)
    BY <2>1 DEF SameCall, Covers, Occupies
  <2>4. op'[t].pc \notin Creating
    BY <1>11, <2>1 DEF Creating
  <2>5. \A w \in Tasks : op'[w].pc \in Creating => op[w].pc \in Creating /\ op'[w].at = op[w].at
    BY <2>3, <2>4
  <2>6. \A w \in Tasks : \A j \in engines \cap engines' : Covers(op[w], j) => Covers(op'[w], j)
    BY <1>0, <1>11, <2>1, <2>3
  <2>7. \A w \in Tasks : \A j \in Keys : Occupies(op[w], j) => Occupies(op'[w], j)
    BY <1>11, <2>3
  <2>8. QED
    BY <1>0, <1>11, <2>1, <2>2, <2>5, <2>6, <2>7, OrphanFrame
<1>12. ASSUME NEW t \in Tasks, RemoveName(t)
       PROVE  OrphanInv'
  <2>1. DeleteOp(op[t]) /\ op[t].at \in Keys /\ op[t].pc = "remove" /\ UNCHANGED <<disk, tenants, loose>>
    BY <1>0, <1>12, StepTellsKind DEF RemoveName, At, DeleteOp, CallsOf
  <2> DEFINE o == [op[t] EXCEPT !.pc = "rmdir"]
  <2>2. ~ \E j \in Keys : Covers(op[t], j) \/ Occupies(op[t], j)
    BY <2>1 DEF Covers, Occupies
  <2>3. CASE op[t].at \in engines
    <3>1. OpOK(o) /\ o.pc = "rmdir" /\ o.at = op[t].at
      BY <2>1 DEF OpOK, DeleteOp, CallsOf
    <3>2. TakeOut(t, op[t].at, o)
      BY <1>12, <2>3 DEF RemoveName
    <3> HIDE DEF o
    <3>3. PICK k \in Keys : k = op[t].at
      BY <2>1
    <3>4. QED
      BY <1>11, <1>0, <2>1, <2>2, <2>3, <3>1, <3>2, <3>3
  <2>4. CASE op[t].at \notin engines
    <3>1. Return(t) /\ engines' = engines
      BY <1>12, <2>4 DEF RemoveName
    <3>2. Same(t) /\ op'[t].pc = "idle"
      BY <1>0, <1>s, <3>1, ReturnMoves DEF Idle
    <3>3. QED
      BY <1>0, <2>1, <2>2, <3>1, <3>2, OrphanQuiet DEF Creating
  <2>5. QED
    BY <2>3, <2>4
<1>13. ASSUME NEW t \in Tasks, RemoveDir(t) \/ RemoveDirFails(t)
       PROVE  OrphanInv'
  <2>1. /\ op[t].pc = "rmdir" /\ AfterDelete(t) /\ UNCHANGED <<engines, tenants>>
        /\ loose \subseteq loose' /\ op[t].at \in Keys
    BY <1>0, <1>13, StepTellsKind
    DEF RemoveDir, RemoveDirFails, At, DeleteOp, TenantOp, CallsOf
  <2>2. \A w \in Tasks \ {t} : op'[w] = op[w]
    BY <1>0, <2>1, AfterDeleteMoves
  <2>3. op'[t].pc \notin Creating /\ \A j \in Keys : Covers(op[t], j) => Covers(op'[t], j)
    BY <1>0, <2>1, AfterDeleteMoves DEF Creating, Covers, Idle
  <2>4. \A j \in Keys : disk'[PathOf(j)] # "none" => disk[PathOf(j)] # "none"
    BY <1>13, PathsAre DEF RemoveDir, RemoveDirFails, Removed
  <2>5. \A j \in Keys : Occupies(op[t], j) =>
          disk'[PathOf(j)] = "none" \/ (j[1] \in Tenants => j[1] \in loose')
    <3>1. CASE RemoveDir(t)
      <4>1. disk'[PathOf(op[t].at)] = "none"
        BY <2>1, <3>1, PathsAre, PrefixIs DEF RemoveDir, Removed, Under
      <4>2. QED
        BY <4>1 DEF Occupies
    <3>2. CASE RemoveDirFails(t)
      BY <3>2 DEF RemoveDirFails, Occupies
    <3>3. QED
      BY <1>13, <3>1, <3>2
  <2>6. QED
    BY <1>0, <2>1, <2>2, <2>3, <2>4, <2>5, OrphanFrame
<1>14. ASSUME NEW t \in Tasks, DeleteFromStore(t)
       PROVE  OrphanInv'
  <2>0. PICK n : n = op[t].key[1]
    OBVIOUS
  <2>1. TenantOp(op[t]) /\ op[t].pc = "store" /\ UNCHANGED <<engines, disk>> /\ n \in Tenants
    BY <1>0, <1>14, <2>0, StepTellsKind DEF DeleteFromStore, At, TenantOp, CallsOf
  <2>2. ~ \E j \in Keys : Covers(op[t], j) \/ Occupies(op[t], j)
    BY <2>1 DEF Covers, Occupies
  <2>3. CASE n \notin tenants
    <3>1. Return(t) /\ UNCHANGED <<tenants, loose>>
      BY <1>14, <2>0, <2>3 DEF DeleteFromStore
    <3>2. Same(t) /\ op'[t].pc = "idle"
      BY <1>0, <1>s, <3>1, ReturnMoves DEF Idle
    <3>3. QED
      BY <1>0, <2>1, <2>2, <3>1, <3>2, OrphanQuiet DEF Creating
  <2>4. CASE n \in tenants
    <3>1. /\ Go(t, "list") /\ tenants' = tenants \ {n} /\ loose \subseteq loose'
          /\ (\E w \in Tasks : op[w].kind = "create" /\ op[w].key[1] = n) => n \in loose'
      BY <1>14, <2>0, <2>4 DEF DeleteFromStore
    <3>2. /\ \A w \in Tasks \ {t} : op'[w] = op[w]
          /\ op'[t].pc = "list" /\ op'[t].kind = "tenant" /\ op'[t].key = <<n, None>>
      <4>1. op[t].kind = "tenant" /\ op[t].key = <<n, None>>
        BY <2>0, <2>1 DEF TenantOp, CallsOf
      <4>2. QED
        BY <1>0, <3>1, <4>1, GoMoves
    <3>3. CreatesForTenants'
      <4>1. SUFFICES ASSUME NEW w \in Tasks, op'[w].pc \in Creating, op'[w].at[1] \in Tenants
                     PROVE  op'[w].at[1] \in tenants' \cup loose'
        BY DEF CreatesForTenants, Answering
      <4>2. op'[w] = op[w]
        BY <3>2, <4>1 DEF Creating
      <4>3. op[w].kind = "create" /\ op[w].key = op[w].at
        BY <1>0, <4>1, <4>2, StepTellsKind DEF CreateOp, CallsOf
      <4>4. QED
        BY <3>1, <4>1, <4>2, <4>3 DEF OrphanInv, CreatesForTenants, Answering
    <3>4. OrphansAreCovered'
      <4>1. SUFFICES ASSUME NEW k \in engines, k[1] \in Tenants, k[1] \notin tenants' \cup loose'
                     PROVE  \E w \in Tasks : Covers(op'[w], k)
        BY <2>1 DEF OrphansAreCovered, Answering
      <4>2. CASE k[1] = n
        BY <3>2, <4>2 DEF Covers
      <4>3. CASE k[1] # n
        <5>1. PICK w \in Tasks : Covers(op[w], k)
          BY <3>1, <4>1, <4>3 DEF OrphanInv, OrphansAreCovered, Answering
        <5>2. w # t
          BY <1>0, <2>2, <5>1
        <5>3. QED
          BY <3>2, <5>1, <5>2
      <4>4. QED
        BY <4>2, <4>3
    <3>5. DirectoriesAreKnown'
      <4>1. SUFFICES ASSUME NEW k \in Keys, k[1] \in Tenants \ loose', disk[PathOf(k)] # "none",
                            k \notin engines
                     PROVE  \E w \in Tasks : Occupies(op'[w], k)
        BY <2>1 DEF DirectoriesAreKnown
      <4>2. PICK w \in Tasks : Occupies(op[w], k)
        BY <3>1, <4>1 DEF OrphanInv, DirectoriesAreKnown
      <4>3. w # t
        BY <2>2, <4>2
      <4>4. QED
        BY <3>2, <4>2, <4>3
    <3>6. QED
      BY <1>0, <3>3, <3>4, <3>5 DEF OrphanInv
  <2>5. QED
    BY <2>3, <2>4
<1>15. ASSUME NEW t \in Tasks, ListOwned(t)
       PROVE  OrphanInv'
  <2>1. TenantOp(op[t]) /\ op[t].pc = "list" /\ UNCHANGED <<engines, disk, tenants, loose>>
    BY <1>0, <1>15, StepTellsKind DEF ListOwned, At, history
  <2>2. /\ op'[t].pc = "cascade" /\ op'[t].todo = OwnedBy(op[t].key[1])
        /\ op'[t].kind = op[t].kind /\ op'[t].key = op[t].key /\ Same(t)
    <3>1. op' = [op EXCEPT ![t] = [op[t] EXCEPT !.pc = "cascade", !.todo = OwnedBy(op[t].key[1])]]
      BY <1>0, <1>15 DEF ListOwned, TypeOK
    <3>2. QED
      BY <1>0, <1>s, <2>1, <3>1 DEF TypeOK, TenantOp, CallsOf
  <2>3. \A k \in engines : Covers(op[t], k) => Covers(op'[t], k)
    BY <2>1, <2>2 DEF Covers, OwnedBy
  <2>4. ~ \E j \in Keys : Occupies(op[t], j)
    BY <2>1 DEF Occupies
  <2>5. QED
    BY <1>0, <2>1, <2>2, <2>3, <2>4, OrphanQuiet DEF Creating
<1>16. ASSUME NEW t \in Tasks, CascadeNext(t)
       PROVE  OrphanInv'
  <2>1. TenantOp(op[t]) /\ op[t].pc = "cascade" /\ UNCHANGED <<disk, tenants, loose>>
    BY <1>0, <1>16, StepTellsKind DEF CascadeNext, At
  <2> DEFINE o(k) == [op[t] EXCEPT !.at = k, !.todo = @ \ {k}]
  <2>2. PICK k \in op[t].todo :
          IF k \in engines THEN TakeOut(t, k, [o(k) EXCEPT !.pc = "rmdir"])
          ELSE op' = [op EXCEPT ![t] = o(k)] /\ UNCHANGED <<engines, answered>>
    BY <1>16 DEF CascadeNext
  <2> DEFINE p == [o(k) EXCEPT !.pc = "rmdir"]
  <2>3. k \in Keys /\ k[1] = op[t].key[1]
    BY <2>1 DEF TenantOp, CallsOf
  <2>4. /\ OpOK(p) /\ p.pc = "rmdir" /\ p.at = k /\ p.todo = op[t].todo \ {k}
        /\ p.kind = op[t].kind /\ p.key = op[t].key
    BY <2>1, <2>3 DEF OpOK, TenantOp, CallsOf
  <2>5. /\ o(k).pc = "cascade" /\ o(k).todo = op[t].todo \ {k}
        /\ o(k).kind = op[t].kind /\ o(k).key = op[t].key
    BY <2>1 DEF TenantOp, CallsOf
  <2>6. ~ \E j \in Keys : Occupies(op[t], j)
    BY <2>1 DEF Occupies
  <2>7. CASE k \in engines
    <3> HIDE DEF o, p
    <3>1. TakeOut(t, k, p)
      BY <2>2, <2>7 DEF p
    <3>2. \A j \in engines \ {k} : Covers(op[t], j) => Covers(p, j)
      BY <2>1, <2>4 DEF Covers
    <3>3. QED
      BY <1>11, <2>1, <2>3, <2>4, <2>6, <2>7, <3>1, <3>2
  <2>8. CASE k \notin engines
    <3> HIDE DEF o, p
    <3>1. op' = [op EXCEPT ![t] = o(k)] /\ engines' = engines
      BY <2>2, <2>8
    <3>2. op'[t] = o(k) /\ Same(t)
      BY <1>0, <1>s, <3>1 DEF TypeOK
    <3>3. \A j \in engines : Covers(op[t], j) => Covers(op'[t], j)
      BY <2>1, <2>5, <2>8, <3>2 DEF Covers
    <3>4. QED
      BY <1>0, <2>1, <2>5, <2>6, <3>1, <3>2, <3>3, OrphanQuiet DEF Creating
  <2>9. QED
    BY <2>7, <2>8
<1>17. ASSUME NEW t \in Tasks, CascadeDone(t)
       PROVE  OrphanInv'
  <2>1. /\ op[t].pc = "cascade" /\ op[t].todo = {} /\ Return(t)
        /\ UNCHANGED <<engines, disk, tenants, loose>>
    BY <1>17 DEF CascadeDone, At, history
  <2>2. Same(t) /\ op'[t].pc = "idle"
    BY <1>0, <1>s, <2>1, ReturnMoves DEF Idle
  <2>3. ~ \E j \in Keys : Covers(op[t], j) \/ Occupies(op[t], j)
    BY <2>1 DEF Covers, Occupies
  <2>4. QED
    BY <1>0, <2>1, <2>2, <2>3, OrphanQuiet DEF Creating
<1>18. ASSUME NEW t \in Tasks, Use(t)
       PROVE  OrphanInv'
  <2>1. op[t].pc = "use" /\ UNCHANGED <<engines, tenants, loose>>
    BY <1>18 DEF Use, At
  <2>2. \A w \in Tasks \ {t} : /\ op'[w].pc = op[w].pc /\ op'[w].at = op[w].at
                               /\ \A j \in Keys : Covers(op[w], j) => Covers(op'[w], j)
                               /\ \A j \in Keys : Occupies(op[w], j) => Occupies(op'[w], j)
    BY <1>0, <1>18, UseMoves DEF SameCall, Covers, Occupies
  <2>3. op'[t].pc \notin Creating
    BY <1>0, <1>18, UseMoves DEF Idle, Creating
  <2>4. ~ \E j \in Keys : Covers(op[t], j) \/ Occupies(op[t], j)
    BY <2>1 DEF Covers, Occupies
  <2>5. \A j \in Keys : disk'[PathOf(j)] # "none" => disk[PathOf(j)] # "none"
    <3>1. disk \in [Paths -> {"none", "empty", "data"}]
      BY <1>0 DEF TypeOK
    <3>2. disk' = disk \/ (disk[PathOf(op[t].at)] # "none" /\ disk' = [disk EXCEPT ![PathOf(op[t].at)] = "data"])
      BY <1>18 DEF Use
    <3>3. QED
      BY <3>1, <3>2, PathsAre
  <2>6. \A w \in Tasks : op'[w].pc \in Creating => op[w].pc \in Creating /\ op'[w].at = op[w].at
    BY <2>2, <2>3
  <2>7. \A w \in Tasks : \A j \in engines \cap engines' : Covers(op[w], j) => Covers(op'[w], j)
    BY <1>0, <2>2, <2>4
  <2>8. \A w \in Tasks : \A j \in Keys : Occupies(op[w], j) => Occupies(op'[w], j)
    BY <2>4, <2>2
  <2>9. QED
    BY <1>0, <2>1, <2>5, <2>6, <2>7, <2>8, OrphanFrame
<1>19. ASSUME Restart
       PROVE  OrphanInv'
  <2>1. PICK failed, flat, owned :
          /\ flat \in LoadedFrom(OnDisk({Admin}), failed, 1)
          /\ owned \in LoadedFrom(OnDisk(Tenants), failed, 1 + Cardinality(flat))
          /\ engines' = {DefaultKey} \cup flat \cup owned
          /\ loose' = loose \cup (tenants \ tenants')
                        \cup ({k[1] : k \in OnDisk({Admin} \cup Tenants) \ (flat \cup owned)} \cap Tenants)
                        \cup {n \in Tenants : \E t \in Tasks :
                                op[t].key[1] = n /\ (op[t].kind = "tenant" \/ At(t, "rmdir"))}
    BY <1>19 DEF Restart
  <2>2. disk' = disk /\ \A w \in Tasks : op'[w] = Idle
    BY <1>19 DEF Restart
  <2>3. CreatesForTenants'
    BY <2>2 DEF CreatesForTenants, Creating, Idle
  <2>4. \A k \in Keys : k[1] \in Tenants /\ disk[PathOf(k)] # "none" => k \in OnDisk({Admin} \cup Tenants)
    BY DEF OnDisk, Reserved, DefaultKey
  <2>5. DirectoriesAreKnown'
    BY <2>1, <2>2, <2>4 DEF DirectoriesAreKnown
  <2>6. OrphansAreCovered'
    <3>1. SUFFICES ASSUME NEW k \in engines', k[1] \in Tenants, k[1] \notin tenants, k[1] \notin loose'
                   PROVE  FALSE
      \* a tenant the restart has lost counts as loose
      BY <2>1 DEF OrphansAreCovered, Answering
    <3>2. k \in Keys /\ disk[PathOf(k)] # "none"
      BY <2>1, <3>1 DEF LoadedFrom, OnDisk, DefaultKey
    <3>3. k[1] \notin loose
      BY <2>1, <3>1
    <3>4. \A w \in Tasks : op[w].key[1] = k[1] => op[w].kind # "tenant" /\ op[w].pc # "rmdir"
      BY <2>1, <3>1 DEF At
    <3>5. CASE k \in engines
      <4>1. PICK w \in Tasks : Covers(op[w], k)
        BY <3>1, <3>3, <3>5 DEF OrphanInv, OrphansAreCovered, Answering
      <4>2. QED
        BY <3>4, <4>1 DEF Covers
    <3>6. CASE k \notin engines
      <4>1. PICK w \in Tasks : Occupies(op[w], k)
        BY <3>1, <3>2, <3>3, <3>6 DEF OrphanInv, DirectoriesAreKnown
      <4>2. CASE op[w].pc \in {"open", "insert"}
        BY <3>1, <3>3, <4>1, <4>2 DEF Occupies, OrphanInv, CreatesForTenants, Creating, Answering
      <4>3. CASE op[w].pc = "rmdir"
        <5>1. op[w].key[1] = k[1]
          BY <1>0, <4>1, <4>3, StepTellsKind DEF Occupies, DeleteOp, TenantOp
        <5>2. QED
          BY <3>4, <4>3, <5>1
      <4>4. QED
        BY <4>1, <4>2, <4>3 DEF Occupies
    <3>7. QED
      BY <3>5, <3>6
  <2>7. QED
    BY <1>0, <2>3, <2>5, <2>6 DEF OrphanInv
<1>20. CASE UNCHANGED vars
  BY <1>0, <1>20, OrphanFrame DEF vars, history
<1>21. QED
  BY <1>1, <1>2, <1>3, <1>4, <1>5, <1>6, <1>7, <1>8, <1>9, <1>10, <1>12, <1>13,
     <1>14, <1>15, <1>16, <1>17, <1>18, <1>19, <1>20 DEF Next, Call

\* Why the deletion of a tenant leaves no index behind: an index that is served
\* without its tenant is still ahead of the deletion, which reads the list of the
\* tenant's indexes after the tenant has gone, so that none is added to it; and a
\* directory nobody serves is one that a call is busy with, so that a restart
\* brings no index back.
THEOREM TenantsTakeTheirIndexesAlong == Spec => []NoOrphans
<1>1. Init => OrphanInv
  <2> SUFFICES ASSUME Init PROVE OrphanInv
    OBVIOUS
  <2>1. CreatesForTenants
    BY DEF Init, CreatesForTenants, Creating, Idle
  <2>2. OrphansAreCovered
    BY DEF Init, OrphansAreCovered, DefaultKey
  <2>3. DirectoriesAreKnown
    BY PathsAre DEF Init, DirectoriesAreKnown
  <2>4. QED
    BY <2>1, <2>2, <2>3, InitTypes DEF OrphanInv
<1>2. OrphanInv /\ [Next]_vars => OrphanInv'
  BY OrphanStep
<1>3. OrphanInv => NoOrphans
  BY DEF OrphanInv, OrphansAreCovered, Answering, Covers, NoOrphans
<1>4. QED
  BY <1>1, <1>2, <1>3, PTL DEF Spec

-----------------------------------------------------------------------------
(* Calls on the same directories                                           *)

\* A call from its first step to its last one, and one past its first effect.
Working(o) == o.pc \notin {"idle", "use"}
Holding(o) == o.pc \in {"mkdir", "open", "insert", "rmdir"}

LEMMA ClashIsMutual ==
  ASSUME NEW a, NEW b
  PROVE  Clash(a, b) <=> Clash(b, a)
  BY DEF Clash

\* What a holding call is about follows from where it is.
LEMMA HoldingShape ==
  ASSUME NEW o, OpOK(o), Holding(o)
  PROVE  /\ o.at \in Keys /\ Working(o) /\ o.kind # "use"
         /\ \/ o.key = o.at
            \/ o.key[1] = o.at[1] /\ o.key[2] = None /\ o.at[1] \in Tenants
<1>1. o # Idle /\ ~ UseOp(o)
  BY DEF Holding, Idle, UseOp, CallsOf
<1>2. CASE CreateOp(o)
  BY <1>2 DEF CreateOp, CallsOf, Holding, Working
<1>3. CASE DeleteOp(o)
  BY <1>3 DEF DeleteOp, CallsOf, Holding, Working
<1>4. CASE TenantOp(o)
  BY <1>4 DEF TenantOp, CallsOf, Holding, Working
<1>5. QED
  BY <1>1, <1>2, <1>3, <1>4 DEF OpOK

\* A call clashes with every index at or under its directory.
LEMMA HoldingClashes ==
  ASSUME NEW o, OpOK(o), Holding(o), NEW k \in Keys, IsPrefix(PathOf(o.at), PathOf(k))
  PROVE  Clash(o.key, k)
<1>1. o.at = k \/ (o.at = Reserved /\ k[1] \in Tenants)
  BY HoldingShape, PrefixIs
<1>2. CASE o.at = k
  BY <1>2, HoldingShape DEF Clash
<1>3. CASE o.at = Reserved /\ k[1] \in Tenants
  BY <1>3, HoldingShape DEF Clash, Reserved
<1>4. QED
  BY <1>1, <1>2, <1>3

\* So do two calls of which one is at or under the directory of the other.
LEMMA HoldersClash ==
  ASSUME NEW o, OpOK(o), Holding(o), NEW p, OpOK(p), Holding(p),
         IsPrefix(PathOf(o.at), PathOf(p.at))
  PROVE  Clash(o.key, p.key) /\ Clash(p.key, o.key)
<1>1. o.at \in Keys /\ p.at \in Keys
  BY HoldingShape
<1>2. o.at = p.at \/ (o.at = Reserved /\ p.at[1] \in Tenants)
  BY <1>1, PrefixIs
<1>3. p.key[1] = p.at[1] /\ (p.key = p.at \/ p.key[2] = None)
  BY HoldingShape
<1>4. o.key[1] = o.at[1] /\ (o.key = o.at \/ o.key[2] = None)
  BY HoldingShape
<1>5. CASE o.at = p.at
  BY <1>3, <1>4, <1>5 DEF Clash
<1>6. CASE o.at = Reserved /\ p.at[1] \in Tenants
  <2>1. o.key = Reserved
    BY <1>6, HoldingShape DEF Reserved
  <2>2. QED
    BY <1>3, <1>6, <2>1 DEF Clash
<1>7. QED
  BY <1>2, <1>5, <1>6

-----------------------------------------------------------------------------
(* The map and the directories against what the calls have told            *)

\* A call that is alone overlaps no other.
Exclusive ==
  \A w, v \in Tasks : w # v /\ Working(op[w]) /\ Working(op[v]) /\ Clash(op[w].key, op[v].key)
                        => ~ op[w].alone

\* An index is unsure while a call on it has begun to make or to remove its directory.
Stains(o, k) == o.pc \in {"open", "insert", "rmdir"} /\ o.at = k

StainedIsUnsure ==
  \A w \in Tasks : \A k \in Judged : Stains(op[w], k) => answered[k] = "unsure"

\* Whoever is alone finds the index out of the map, has its directory made, an
\* empty one if there was none, and finds that engine in the map which is in use.
AloneIsOut ==
  \A w \in Tasks : op[w].alone /\ Holding(op[w]) => op[w].at \notin engines

AloneIsMade ==
  \A w \in Tasks : op[w].alone /\ op[w].pc \in {"open", "insert"} /\ op[w].at \in Judged =>
    /\ disk[PathOf(op[w].at)] # "none"
    /\ op[w].prior = "absent" => disk[PathOf(op[w].at)] = "empty"

UsedIsServed ==
  \A w \in Tasks : op[w].pc = "use" /\ ~ op[w].stale => op[w].at \in engines

NoneIsNeverTold == \A k \in Judged : answered[k] # "none"

ServedInv ==
  /\ TypeOK /\ ServedAsAnswered /\ NoneIsNeverTold
  /\ Exclusive /\ StainedIsUnsure /\ AloneIsOut /\ AloneIsMade /\ UsedIsServed

\* A task's call goes on, is dropped, or stays, and gains no exclusiveness.
Continues(w) ==
  Working(op'[w]) => /\ Working(op[w]) /\ op'[w].key = op[w].key
                     /\ op'[w].alone => op[w].alone

LEMMA ExclusiveFrame ==
  ASSUME Exclusive, \A w \in Tasks : Continues(w)
  PROVE  Exclusive'
  BY DEF Exclusive, Continues

\* A new call takes the exclusiveness of those it meets, and has it if it meets none.
LEMMA ExclusiveStart ==
  ASSUME TypeOK, Exclusive, NEW t \in Tasks, NEW o, OpOK(o), o # Idle, Start(t, o)
  PROVE  Exclusive'
<1>1. SUFFICES ASSUME NEW w \in Tasks, NEW v \in Tasks, w # v, Working(op'[w]), Working(op'[v]),
                      Clash(op'[w].key, op'[v].key), op'[w].alone
               PROVE  FALSE
  BY DEF Exclusive
<1>2. CASE w = t
  <2>1. SameCall(op'[v], op[v]) /\ op'[t].key = o.key
    BY <1>1, <1>2, StartTypes DEF SameCall
  <2>2. Busy(v)
    <3>1. op[v].pc # "use" /\ op[v].pc # "idle" /\ OpOK(op[v])
      BY <1>1, <2>1 DEF TypeOK, SameCall, Working
    <3>2. QED
      BY <3>1 DEF Busy, OpOK, Idle, CreateOp, DeleteOp, TenantOp, UseOp, CallsOf
  <2>3. ~ Clash(op[v].key, o.key)
    BY <1>1, <1>2, <2>2, StartTypes
  <2>4. QED
    BY <1>1, <1>2, <2>1, <2>3, ClashIsMutual DEF SameCall
<1>3. CASE w # t
  <2>1. SameCall(op'[w], op[w]) /\ op[w].alone /\ ~ Clash(op[w].key, o.key)
    BY <1>1, <1>3, StartTypes
  <2>2. v # t
    BY <1>1, <2>1, StartTypes DEF SameCall
  <2>3. SameCall(op'[v], op[v])
    BY <1>1, <2>2, StartTypes
  <2>4. QED
    BY <1>1, <2>1, <2>3 DEF SameCall, Working, Exclusive
<1>4. QED
  BY <1>2, <1>3

\* Steps that leave the map, the directories and the answers as they are.
LEMMA ServedQuiet ==
  ASSUME ServedInv, TypeOK', Exclusive', UNCHANGED <<engines, disk, answered>>,
         \A w \in Tasks :
           /\ op'[w].pc \in {"open", "insert"} =>
                /\ op[w].pc \in {"open", "insert"} /\ op'[w].at = op[w].at
                /\ op'[w].prior = op[w].prior /\ (op'[w].alone => op[w].alone)
           /\ op'[w].pc = "rmdir" => op[w].pc = "rmdir" /\ op'[w].at = op[w].at
           /\ Holding(op'[w]) =>
                \/ Holding(op[w]) /\ op'[w].at = op[w].at /\ (op'[w].alone => op[w].alone)
                \/ op'[w].at \notin engines
           /\ op'[w].pc = "use" =>
                \/ op[w].pc = "use" /\ op'[w].at = op[w].at /\ op'[w].stale = op[w].stale
                \/ op'[w].at \in engines
  PROVE  ServedInv'
<1>1. ServedAsAnswered'
  BY DEF ServedInv, ServedAsAnswered
<1>2. StainedIsUnsure'
  BY DEF ServedInv, StainedIsUnsure, Stains
<1>3. AloneIsOut'
  BY DEF ServedInv, AloneIsOut
<1>4. AloneIsMade'
  BY DEF ServedInv, AloneIsMade, Holding
<1>5. UsedIsServed'
  BY DEF ServedInv, UsedIsServed
<1>6. NoneIsNeverTold'
  BY DEF ServedInv, NoneIsNeverTold
<1>7. QED
  BY <1>1, <1>2, <1>3, <1>4, <1>5, <1>6 DEF ServedInv

\* The steps of one request that only move it on.
LEMMA ServedMoves ==
  ASSUME ServedInv, TypeOK', NEW t \in Tasks, UNCHANGED <<engines, disk, answered>>,
         \A w \in Tasks \ {t} : op'[w] = op[w],
         \/ op'[t] = Idle
         \/ op'[t].pc \in {"list", "cascade"} /\ Continues(t)
         \/ op'[t].pc = "use" /\ op'[t].at \in engines
         \/ op'[t].pc = "mkdir" /\ op'[t].at \notin engines /\ Continues(t)
         \/ /\ op[t].pc = "open" /\ op'[t].pc = "insert" /\ op'[t].at = op[t].at
            /\ op'[t].prior = op[t].prior /\ op'[t].alone = op[t].alone /\ Continues(t)
  PROVE  ServedInv'
<1>1. \A w \in Tasks : Continues(w)
  BY DEF Continues, Working, Idle
<1>2. Exclusive'
  BY <1>1, ExclusiveFrame DEF ServedInv
<1>3. ASSUME NEW w \in Tasks
      PROVE  /\ op'[w].pc \in {"open", "insert"} =>
                  /\ op[w].pc \in {"open", "insert"} /\ op'[w].at = op[w].at
                  /\ op'[w].prior = op[w].prior /\ (op'[w].alone => op[w].alone)
             /\ op'[w].pc = "rmdir" => op[w].pc = "rmdir" /\ op'[w].at = op[w].at
             /\ Holding(op'[w]) =>
                  \/ Holding(op[w]) /\ op'[w].at = op[w].at /\ (op'[w].alone => op[w].alone)
                  \/ op'[w].at \notin engines
             /\ op'[w].pc = "use" =>
                  \/ op[w].pc = "use" /\ op'[w].at = op[w].at /\ op'[w].stale = op[w].stale
                  \/ op'[w].at \in engines
  BY DEF Holding, Idle
<1>4. QED
  BY <1>2, <1>3, ServedQuiet

\* A request that comes in.
LEMMA ServedStart ==
  ASSUME ServedInv, TypeOK', NEW t \in Tasks, UNCHANGED <<engines, disk, answered>>,
         NEW o, OpOK(o), o # Idle, o.pc \in {"check", "remove", "store"}, Start(t, o)
  PROVE  ServedInv'
<1>1. Exclusive'
  BY ExclusiveStart DEF ServedInv
<1>2. op'[t].pc \in {"check", "remove", "store"}
  BY StartTypes DEF ServedInv, SameCall
<1>3. \A w \in Tasks \ {t} : /\ op'[w].pc = op[w].pc /\ op'[w].at = op[w].at
                             /\ op'[w].prior = op[w].prior /\ op'[w].stale = op[w].stale
                             /\ op'[w].alone => op[w].alone
  BY StartTypes DEF ServedInv, SameCall
<1>4. ASSUME NEW w \in Tasks
      PROVE  /\ op'[w].pc \in {"open", "insert"} =>
                  /\ op[w].pc \in {"open", "insert"} /\ op'[w].at = op[w].at
                  /\ op'[w].prior = op[w].prior /\ (op'[w].alone => op[w].alone)
             /\ op'[w].pc = "rmdir" => op[w].pc = "rmdir" /\ op'[w].at = op[w].at
             /\ Holding(op'[w]) =>
                  \/ Holding(op[w]) /\ op'[w].at = op[w].at /\ (op'[w].alone => op[w].alone)
                  \/ op'[w].at \notin engines
             /\ op'[w].pc = "use" =>
                  \/ op[w].pc = "use" /\ op'[w].at = op[w].at /\ op'[w].stale = op[w].stale
                  \/ op'[w].at \in engines
  BY <1>2, <1>3 DEF Holding
<1>5. QED
  BY <1>1, <1>4, ServedQuiet

\* Making the directory of an index puts its former answer aside and touches no
\* other index's directory.
LEMMA ServedMakeDir ==
  ASSUME ServedInv, TypeOK', NEW t \in Tasks, MakeDir(t)
  PROVE  ServedInv'
<1>0. PICK k : k = op[t].at
  OBVIOUS
<1>1. /\ TypeOK /\ op[t].pc = "mkdir" /\ engines' = engines /\ k \in Keys /\ CreateOp(op[t])
      /\ \A w \in Tasks : OpOK(op[w])
  BY <1>0, StepTellsKind DEF ServedInv, TypeOK, MakeDir, At, CreateOp, CallsOf, Creating
<1>2. /\ \A w \in Tasks \ {t} : op'[w] = op[w]
      /\ op'[t].pc = "open" /\ op'[t].at = k /\ op'[t].key = op[t].key
      /\ op'[t].prior = Answered(t) /\ op'[t].alone = op[t].alone
  <2>1. op' = [op EXCEPT ![t] = [op[t] EXCEPT !.pc = "open", !.prior = Answered(t)]]
    BY <1>1 DEF MakeDir, TypeOK
  <2>2. QED
    BY <1>0, <1>1, <2>1 DEF TypeOK, CreateOp, CallsOf
<1>3. \A j \in Judged : disk'[PathOf(j)] = IF j = k /\ disk[PathOf(j)] = "none" THEN "empty"
                                           ELSE disk[PathOf(j)]
  <2>1. \A j \in Judged : IsPrefix(PathOf(j), PathOf(k)) <=> j = k
    BY <1>1, PrefixIs DEF Judged
  <2>2. QED
    BY <1>0, <1>1, <2>1, PathsAre DEF MakeDir, Judged
<1>4. \A j \in Judged : answered'[j] = IF j = k THEN "unsure" ELSE answered[j]
  BY <1>0 DEF MakeDir, Unsure
<1>5. ServedAsAnswered'
  BY <1>1, <1>3, <1>4 DEF ServedInv, ServedAsAnswered
<1>6. Exclusive'
  BY <1>1, <1>2, ExclusiveFrame DEF ServedInv, Continues, Working
<1>7. StainedIsUnsure'
  BY <1>1, <1>2, <1>4 DEF ServedInv, StainedIsUnsure, Stains
<1>8. AloneIsOut'
  BY <1>0, <1>1, <1>2 DEF ServedInv, AloneIsOut, Holding
<1>9. AloneIsMade'
  <2>1. SUFFICES ASSUME NEW w \in Tasks, op'[w].alone, op'[w].pc \in {"open", "insert"},
                        op'[w].at \in Judged
                 PROVE  /\ disk'[PathOf(op'[w].at)] # "none"
                        /\ op'[w].prior = "absent" => disk'[PathOf(op'[w].at)] = "empty"
    BY DEF AloneIsMade
  <2>2. CASE w = t
    <3>1. k \in Judged /\ disk'[PathOf(k)] # "none"
      BY <1>2, <1>3, <2>1, <2>2
    <3>2. answered[k] = "absent" => disk[PathOf(k)] = "none"
      BY <3>1 DEF ServedInv, ServedAsAnswered, OnDiskAs
    <3>3. op'[w].prior = answered[k]
      BY <1>0, <1>2, <2>2, <3>1 DEF Answered
    <3>4. QED
      BY <1>2, <1>3, <2>2, <3>1, <3>2, <3>3
  <2>3. CASE w # t
    <3>1. op'[w] = op[w]
      BY <1>2, <2>3
    <3>2. op[w].at # k
      <4>1. SUFFICES ASSUME op[w].at = k PROVE FALSE
        OBVIOUS
      <4>2. Holding(op[w]) /\ Holding(op[t]) /\ IsPrefix(PathOf(op[t].at), PathOf(op[w].at))
        BY <1>0, <1>1, <2>1, <3>1, <4>1, PrefixIs DEF Holding
      <4>3. Clash(op[w].key, op[t].key) /\ Working(op[w]) /\ Working(op[t])
        BY <1>1, <4>2, HoldersClash, HoldingShape
      <4>4. QED
        BY <2>1, <2>3, <3>1, <4>3 DEF ServedInv, Exclusive
    <3>3. QED
      BY <1>3, <2>1, <3>1, <3>2 DEF ServedInv, AloneIsMade
  <2>4. QED
    BY <2>2, <2>3
<1>10. UsedIsServed'
  BY <1>1, <1>2 DEF ServedInv, UsedIsServed
<1>11. NoneIsNeverTold'
  BY <1>4 DEF ServedInv, NoneIsNeverTold
<1>12. QED
  BY <1>5, <1>6, <1>7, <1>8, <1>9, <1>10, <1>11 DEF ServedInv

\* A call that is alone and holds an index meets no other that holds it.
LEMMA AloneMeetsNone ==
  ASSUME ServedInv, NEW t \in Tasks, NEW w \in Tasks, w # t, Holding(op[t]), Holding(op[w]),
         IsPrefix(PathOf(op[t].at), PathOf(op[w].at))
  PROVE  ~ op[t].alone /\ ~ op[w].alone
<1>1. OpOK(op[t]) /\ OpOK(op[w])
  BY DEF ServedInv, TypeOK
<1>2. /\ Clash(op[w].key, op[t].key) /\ Clash(op[t].key, op[w].key)
      /\ Working(op[w]) /\ Working(op[t])
  BY <1>1, HoldersClash, HoldingShape
<1>3. QED
  BY <1>2 DEF ServedInv, Exclusive

\* An engine enters the map with the directory its call has made.
LEMMA ServedInsert ==
  ASSUME ServedInv, TypeOK', NEW t \in Tasks, Insert(t)
  PROVE  ServedInv'
<1>0. PICK k : k = op[t].at
  OBVIOUS
<1>1. /\ TypeOK /\ op[t].pc = "insert" /\ UNCHANGED disk /\ engines' = engines \cup {k}
      /\ Return(t) /\ k \in Keys
  BY <1>0, StepTellsKind DEF ServedInv, TypeOK, Insert, At, CreateOp, CallsOf, Creating
<1>2. op'[t] = Idle /\ \A w \in Tasks \ {t} : op'[w] = op[w]
  BY <1>1, ReturnMoves
<1>3. Holding(op[t]) /\ (k \in Judged => answered[k] = "unsure")
  BY <1>0, <1>1 DEF ServedInv, StainedIsUnsure, Stains, Holding
<1>4. \A j \in Judged \ {k} : answered'[j] = answered[j]
  BY <1>0, <1>1 DEF Insert, ServedInv, TypeOK
<1>5. ASSUME k \in Judged
      PROVE  /\ answered'[k] # "unsure" => answered'[k] = disk[PathOf(k)] /\ answered'[k] # "absent"
             /\ answered'[k] # "unsure" => op[t].alone
             /\ answered'[k] \notin {"none", "swept"}
  <2>1. CASE k \notin engines /\ op[t].alone
    <3>1. answered'[k] = IF op[t].prior = "absent" THEN "empty" ELSE disk[PathOf(k)]
      BY <1>0, <1>5, <2>1 DEF Insert, ServedInv, TypeOK
    <3>2. disk[PathOf(k)] # "none" /\ (op[t].prior = "absent" => disk[PathOf(k)] = "empty")
      BY <1>0, <1>1, <1>5, <2>1 DEF ServedInv, AloneIsMade
    <3>3. disk[PathOf(k)] \in {"none", "empty", "data"}
      BY <1>1, PathsAre DEF TypeOK
    <3>4. QED
      BY <2>1, <3>1, <3>2, <3>3
  <2>2. CASE ~ (k \notin engines /\ op[t].alone)
    <3>1. answered' = answered
      BY <1>0, <2>2 DEF Insert
    <3>2. QED
      BY <1>3, <1>5, <3>1
  <2>3. QED
    BY <2>1, <2>2
<1>6. ServedAsAnswered'
  <2>1. SUFFICES ASSUME NEW j \in Judged, answered'[j] # "unsure"
                 PROVE  /\ disk'[PathOf(j)] = OnDiskAs(answered'[j])
                        /\ j \in engines' <=> answered'[j] # "absent"
    BY DEF ServedAsAnswered
  <2>2. CASE j = k
    BY <1>1, <1>5, <2>1, <2>2 DEF OnDiskAs
  <2>3. CASE j # k
    BY <1>1, <1>4, <2>1, <2>3 DEF ServedInv, ServedAsAnswered
  <2>4. QED
    BY <2>2, <2>3
<1>7. Exclusive'
  BY <1>2, ExclusiveFrame DEF ServedInv, Continues, Working, Idle
<1>m. ASSUME NEW w \in Tasks \ {t}, Holding(op[w]), op[w].at = k
      PROVE  ~ op[t].alone /\ ~ op[w].alone
  BY <1>0, <1>1, <1>3, <1>m, PrefixIs, AloneMeetsNone
<1>8. StainedIsUnsure'
  <2>1. SUFFICES ASSUME NEW w \in Tasks, NEW j \in Judged, Stains(op'[w], j)
                 PROVE  answered'[j] = "unsure"
    BY DEF StainedIsUnsure
  <2>2. w # t /\ op'[w] = op[w] /\ answered[j] = "unsure"
    BY <1>2, <2>1 DEF Stains, Idle, ServedInv, StainedIsUnsure
  <2>3. CASE j = k
    <3>1. Holding(op[w]) /\ OpOK(op[w]) /\ OpOK(op[t])
      BY <1>1, <2>1, <2>2 DEF Stains, Holding, TypeOK
    <3>2. IsPrefix(PathOf(op[w].at), PathOf(op[t].at))
      BY <1>0, <1>1, <2>1, <2>2, <2>3, PrefixIs DEF Stains
    <3>3. ~ op[t].alone
      BY <1>3, <2>2, <3>1, <3>2, AloneMeetsNone
    <3>4. QED
      BY <1>5, <2>3, <3>3
  <2>4. CASE j # k
    BY <1>4, <2>2, <2>4
  <2>5. QED
    BY <2>3, <2>4
<1>9. AloneIsOut'
  BY <1>1, <1>2, <1>m DEF ServedInv, AloneIsOut, Holding, Idle
<1>10. AloneIsMade'
  BY <1>1, <1>2 DEF ServedInv, AloneIsMade, Idle
<1>11. UsedIsServed'
  BY <1>1, <1>2 DEF ServedInv, UsedIsServed, Idle
<1>12. NoneIsNeverTold'
  BY <1>4, <1>5 DEF ServedInv, NoneIsNeverTold
<1>13. QED
  BY <1>6, <1>7, <1>8, <1>9, <1>10, <1>11, <1>12 DEF ServedInv

\* An engine leaves the map, and what was told of it is put aside.
LEMMA ServedTakeOut ==
  ASSUME ServedInv, TypeOK', NEW t \in Tasks, NEW k \in Keys, NEW o, OpOK(o), TakeOut(t, k, o),
         o.at = k, o.pc = "rmdir", o.key = op[t].key, o.alone = op[t].alone, Working(op[t]),
         UNCHANGED disk
  PROVE  ServedInv'
<1>1. /\ TypeOK /\ engines' = engines \ {k} /\ op'[t] = o
      /\ \A j \in Judged : answered'[j] = IF j = k THEN "unsure" ELSE answered[j]
      /\ \A w \in Tasks \ {t} : /\ SameCall(op'[w], op[w]) /\ op'[w].alone = op[w].alone
                                /\ op[w].stale => op'[w].stale
                                /\ op[w].pc = "use" /\ op[w].at = k => op'[w].stale
  BY TakeOutTypes DEF ServedInv
<1>2. ServedAsAnswered'
  BY <1>1, PrefixIs DEF ServedInv, ServedAsAnswered, Judged
<1>3. Exclusive'
  BY <1>1, ExclusiveFrame DEF ServedInv, Continues, SameCall, Working
<1>4. StainedIsUnsure'
  <2>1. SUFFICES ASSUME NEW w \in Tasks, NEW j \in Judged, Stains(op'[w], j)
                 PROVE  answered'[j] = "unsure"
    BY DEF StainedIsUnsure
  <2>2. CASE w = t
    BY <1>1, <2>1, <2>2 DEF Stains
  <2>3. CASE w # t
    BY <1>1, <2>1, <2>3 DEF Stains, SameCall, ServedInv, StainedIsUnsure
  <2>4. QED
    BY <2>2, <2>3
<1>5. AloneIsOut'
  BY <1>1 DEF ServedInv, AloneIsOut, Holding, SameCall
<1>6. AloneIsMade'
  BY <1>1 DEF ServedInv, AloneIsMade, SameCall
<1>7. UsedIsServed'
  BY <1>1 DEF ServedInv, UsedIsServed, SameCall
<1>8. NoneIsNeverTold'
  BY <1>1 DEF ServedInv, NoneIsNeverTold
<1>9. QED
  BY <1>2, <1>3, <1>4, <1>5, <1>6, <1>7, <1>8 DEF ServedInv

\* A directory goes with all under it, which is told of those that were served, and
\* nobody makes it meanwhile if the call is alone.
LEMMA ServedRemoveDir ==
  ASSUME ServedInv, TypeOK', NEW t \in Tasks, RemoveDir(t)
  PROVE  ServedInv'
<1>0. PICK k : k = op[t].at
  OBVIOUS
<1>1. /\ TypeOK /\ op[t].pc = "rmdir" /\ engines' = engines /\ AfterDelete(t)
      /\ OpOK(op[t]) /\ Holding(op[t]) /\ k \in Keys
  BY <1>0, HoldingShape DEF ServedInv, TypeOK, RemoveDir, At, Holding
<1>2. /\ \A w \in Tasks \ {t} : op'[w] = op[w]
      /\ op'[t].pc \in {"idle", "cascade"} /\ Continues(t)
  BY <1>1, AfterDeleteMoves DEF Continues, Working, Idle
<1>3. \A j \in Judged : disk'[PathOf(j)] = IF IsPrefix(PathOf(k), PathOf(j)) THEN "none"
                                           ELSE disk[PathOf(j)]
  BY <1>0, PathsAre DEF RemoveDir, Removed, Under, Judged
<1>4. \A j \in Judged :
        answered'[j] = IF j = k /\ op[t].alone THEN "absent"
                       ELSE IF /\ j # k /\ IsPrefix(PathOf(k), PathOf(j))
                               /\ answered[j] \in {"empty", "data"}
                            THEN "swept" ELSE answered[j]
  BY <1>0, PathsAre DEF RemoveDir, Swept, Under, Judged
<1>5. k \in Judged => answered[k] = "unsure"
  BY <1>0, <1>1 DEF ServedInv, StainedIsUnsure, Stains
<1>6. op[t].alone => k \notin engines
  BY <1>0, <1>1 DEF ServedInv, AloneIsOut
<1>7. IsPrefix(PathOf(k), PathOf(k))
  BY <1>1, PrefixIs
<1>8. ServedAsAnswered'
  <2>1. SUFFICES ASSUME NEW j \in Judged, answered'[j] # "unsure"
                 PROVE  /\ disk'[PathOf(j)] = OnDiskAs(answered'[j])
                        /\ j \in engines' <=> answered'[j] # "absent"
    BY DEF ServedAsAnswered
  <2>2. CASE j = k
    BY <1>1, <1>3, <1>4, <1>5, <1>6, <1>7, <2>1, <2>2 DEF OnDiskAs
  <2>3. CASE j # k /\ IsPrefix(PathOf(k), PathOf(j))
    <3>1. answered[j] # "unsure" /\ disk'[PathOf(j)] = "none"
      BY <1>3, <1>4, <2>1, <2>3
    <3>2. answered'[j] = answered[j] \/ (answered'[j] = "swept" /\ answered[j] # "absent")
      BY <1>4, <2>3
    <3>3. answered'[j] \in {"absent", "swept"}
      BY <1>0, <1>1, <1>4, <2>3, <3>1 DEF ServedInv, TypeOK, NoneIsNeverTold, Answers, Told
    <3>4. j \in engines <=> answered[j] # "absent"
      BY <3>1 DEF ServedInv, ServedAsAnswered
    <3>5. QED
      BY <1>1, <3>1, <3>2, <3>3, <3>4 DEF OnDiskAs
  <2>4. CASE j # k /\ ~ IsPrefix(PathOf(k), PathOf(j))
    BY <1>1, <1>3, <1>4, <2>1, <2>4 DEF ServedInv, ServedAsAnswered
  <2>5. QED
    BY <2>2, <2>3, <2>4
<1>9. Exclusive'
  <2>1. \A w \in Tasks : Continues(w)
    BY <1>2 DEF Continues
  <2>2. QED
    BY <2>1, ExclusiveFrame DEF ServedInv
<1>10. StainedIsUnsure'
  <2>1. SUFFICES ASSUME NEW w \in Tasks, NEW j \in Judged, Stains(op'[w], j)
                 PROVE  answered'[j] = "unsure"
    BY DEF StainedIsUnsure
  <2>2. w # t /\ op'[w] = op[w] /\ answered[j] = "unsure"
    BY <1>2, <2>1 DEF Stains, ServedInv, StainedIsUnsure
  <2>3. CASE j = k /\ op[t].alone
    <3>1. Holding(op[w])
      BY <2>1, <2>2 DEF Stains, Holding
    <3>2. IsPrefix(PathOf(op[w].at), PathOf(op[t].at))
      BY <1>0, <1>7, <2>1, <2>2, <2>3 DEF Stains
    <3>3. ~ op[t].alone
      BY <1>1, <2>2, <3>1, <3>2, AloneMeetsNone
    <3>4. QED
      BY <2>3, <3>3
  <2>4. CASE ~ (j = k /\ op[t].alone)
    BY <1>4, <2>2, <2>4
  <2>5. QED
    BY <2>3, <2>4
<1>11. AloneIsOut'
  BY <1>1, <1>2 DEF ServedInv, AloneIsOut, Holding
<1>12. AloneIsMade'
  <2>1. SUFFICES ASSUME NEW w \in Tasks, op'[w].alone, op'[w].pc \in {"open", "insert"},
                        op'[w].at \in Judged
                 PROVE  /\ disk'[PathOf(op'[w].at)] # "none"
                        /\ op'[w].prior = "absent" => disk'[PathOf(op'[w].at)] = "empty"
    BY DEF AloneIsMade
  <2>2. w # t /\ op'[w] = op[w] /\ Holding(op[w])
    BY <1>2, <2>1 DEF Holding
  <2>3. ~ IsPrefix(PathOf(k), PathOf(op[w].at))
    BY <1>0, <1>1, <2>1, <2>2, AloneMeetsNone
  <2>4. QED
    BY <1>3, <2>1, <2>2, <2>3 DEF ServedInv, AloneIsMade
<1>13. UsedIsServed'
  BY <1>1, <1>2 DEF ServedInv, UsedIsServed
<1>14. NoneIsNeverTold'
  BY <1>4 DEF ServedInv, NoneIsNeverTold
<1>15. QED
  BY <1>8, <1>9, <1>10, <1>11, <1>12, <1>13, <1>14 DEF ServedInv

\* A write lands in the directory of the engine's index: through an engine in the map
\* it is a write to that index, through another nothing is told of the index any more.
LEMMA ServedUse ==
  ASSUME ServedInv, TypeOK', NEW t \in Tasks, Use(t)
  PROVE  ServedInv'
<1>0. PICK k : k = op[t].at
  OBVIOUS
<1>1. /\ TypeOK /\ op[t].pc = "use" /\ engines' = engines /\ k \in Keys
      /\ op[t].stale \in BOOLEAN /\ \A w \in Tasks : OpOK(op[w])
  BY <1>0, StepTellsKind DEF ServedInv, TypeOK, Use, At, UseOp, CallsOf
<1>2. /\ op'[t] = Idle
      /\ \A w \in Tasks \ {t} :
           /\ SameCall(op'[w], op[w]) /\ op'[w].stale = op[w].stale
           /\ op'[w].alone => op[w].alone /\ ~ (op[t].stale /\ Clash(op[w].key, k))
  BY <1>0, <1>1, UseMoves
<1>3. \/ disk' = disk /\ answered' = answered
      \/ /\ disk[PathOf(k)] # "none" /\ disk' = [disk EXCEPT ![PathOf(k)] = "data"]
         /\ op[t].stale => \A j \in Judged : answered'[j] = IF j = k THEN "unsure" ELSE answered[j]
         /\ ~ op[t].stale => \A j \in Judged :
              answered'[j] = IF j = k /\ answered[j] = "empty" THEN "data" ELSE answered[j]
  <2>1. answered \in [Judged -> Told]
    BY <1>1 DEF TypeOK
  <2>2. QED
    BY <1>0, <2>1 DEF Use, Unsure
<1>4. \A j \in Judged : j # k => disk'[PathOf(j)] = disk[PathOf(j)] /\ answered'[j] = answered[j]
  BY <1>1, <1>3, PathsDiffer, PathsAre DEF Judged, TypeOK
<1>5. ~ op[t].stale => k \in engines
  BY <1>0, <1>1 DEF ServedInv, UsedIsServed
<1>6. ASSUME k \in Judged, disk' # disk \/ answered' # answered
      PROVE  /\ disk[PathOf(k)] # "none" /\ disk'[PathOf(k)] = "data"
             /\ op[t].stale => answered'[k] = "unsure"
             /\ ~ op[t].stale => answered'[k] = IF answered[k] = "empty" THEN "data" ELSE answered[k]
  BY <1>1, <1>3, <1>6, PathsAre DEF TypeOK
<1>7. ServedAsAnswered'
  <2>1. SUFFICES ASSUME NEW j \in Judged, answered'[j] # "unsure"
                 PROVE  /\ disk'[PathOf(j)] = OnDiskAs(answered'[j])
                        /\ j \in engines' <=> answered'[j] # "absent"
    BY DEF ServedAsAnswered
  <2>2. CASE j # k
    BY <1>1, <1>4, <2>1, <2>2 DEF ServedInv, ServedAsAnswered
  <2>3. CASE j = k /\ (disk' # disk \/ answered' # answered)
    <3>1. ~ op[t].stale /\ k \in engines
      BY <1>1, <1>5, <1>6, <2>1, <2>3
    <3>2. answered[k] # "unsure"
      BY <1>6, <2>1, <2>3, <3>1
    <3>3. answered[k] # "absent" /\ answered[k] = disk[PathOf(k)]
      <4>1. disk[PathOf(k)] # "none"
        BY <1>3, <2>3
      <4>2. QED
        BY <2>3, <3>1, <3>2, <4>1 DEF ServedInv, ServedAsAnswered, OnDiskAs
    <3>4. disk[PathOf(k)] \in {"none", "empty", "data"}
      BY <1>1, PathsAre DEF TypeOK
    <3>5. QED
      BY <1>1, <1>6, <2>3, <3>1, <3>3, <3>4 DEF OnDiskAs
  <2>4. CASE disk' = disk /\ answered' = answered
    BY <1>1, <2>1, <2>4 DEF ServedInv, ServedAsAnswered
  <2>5. QED
    BY <2>2, <2>3, <2>4
<1>8. Exclusive'
  <2>1. \A w \in Tasks : Continues(w)
    BY <1>2 DEF Continues, SameCall, Working, Idle
  <2>2. QED
    BY <2>1, ExclusiveFrame DEF ServedInv
<1>9. StainedIsUnsure'
  <2>1. SUFFICES ASSUME NEW w \in Tasks, NEW j \in Judged, Stains(op'[w], j)
                 PROVE  answered'[j] = "unsure"
    BY DEF StainedIsUnsure
  <2>2. Stains(op[w], j)
    BY <1>2, <2>1 DEF Stains, SameCall, Idle
  <2>3. answered[j] = "unsure"
    BY <2>2 DEF ServedInv, StainedIsUnsure
  <2>4. QED
    BY <1>3, <2>3
<1>10. AloneIsOut'
  BY <1>1, <1>2 DEF ServedInv, AloneIsOut, Holding, SameCall, Idle
<1>11. AloneIsMade'
  <2>1. SUFFICES ASSUME NEW w \in Tasks, op'[w].alone, op'[w].pc \in {"open", "insert"},
                        op'[w].at \in Judged
                 PROVE  /\ disk'[PathOf(op'[w].at)] # "none"
                        /\ op'[w].prior = "absent" => disk'[PathOf(op'[w].at)] = "empty"
    BY DEF AloneIsMade
  <2>2. /\ w # t /\ SameCall(op'[w], op[w]) /\ op[w].alone /\ Holding(op[w])
        /\ ~ (op[t].stale /\ Clash(op[w].key, k))
    BY <1>2, <2>1 DEF Holding, SameCall, Idle
  <2>3. op[w].at # k
    <3>1. SUFFICES ASSUME op[w].at = k PROVE FALSE
      OBVIOUS
    <3>2. Clash(op[w].key, k)
      BY <1>1, <2>2, <3>1, PrefixIs, HoldingClashes
    <3>3. k \notin engines
      BY <2>2, <3>1 DEF ServedInv, AloneIsOut
    <3>4. QED
      BY <1>1, <1>5, <2>2, <3>2, <3>3
  <2>4. QED
    BY <1>4, <2>1, <2>2, <2>3 DEF SameCall, ServedInv, AloneIsMade
<1>12. UsedIsServed'
  BY <1>1, <1>2 DEF ServedInv, UsedIsServed, SameCall, Idle
<1>13. NoneIsNeverTold'
  BY <1>3 DEF ServedInv, NoneIsNeverTold
<1>14. QED
  BY <1>7, <1>8, <1>9, <1>10, <1>11, <1>12, <1>13 DEF ServedInv

\* With room left and no failure a restart loads every directory it finds.
LEMMA RestartLoadsAll ==
  ASSUME NEW flat, NEW owned,
         flat \in LoadedFrom(OnDisk({Admin}), {}, 1),
         owned \in LoadedFrom(OnDisk(Tenants), {}, 1 + Cardinality(flat)),
         Cardinality({DefaultKey} \cup flat \cup owned) < Limit
  PROVE  OnDisk({Admin} \cup Tenants) \subseteq flat \cup owned
<1>1. /\ flat \subseteq OnDisk({Admin}) /\ owned \subseteq OnDisk(Tenants)
      /\ flat = OnDisk({Admin}) \/ Cardinality(flat) + 1 >= Limit
      /\ owned = OnDisk(Tenants) \/ Cardinality(owned) + (1 + Cardinality(flat)) >= Limit
  BY DEF LoadedFrom
<1>2. /\ flat \subseteq Keys /\ owned \subseteq Keys
      /\ DefaultKey \notin flat \cup owned /\ flat \cap owned = {}
  BY <1>1 DEF OnDisk
<1>3. /\ IsFiniteSet(flat) /\ Cardinality(flat) \in Nat
      /\ IsFiniteSet(owned) /\ Cardinality(owned) \in Nat
  BY <1>2, KeysAreFinite
<1> DEFINE S == flat \cup owned
<1>4. IsFiniteSet(S) /\ Cardinality(S) = Cardinality(flat) + Cardinality(owned)
  <2>1. Cardinality(S) = Cardinality(flat) + Cardinality(owned) - Cardinality(flat \cap owned)
    BY <1>3, FS_Union
  <2>2. Cardinality(flat \cap owned) = 0
    BY <1>2, FS_EmptySet
  <2>3. QED
    BY <1>3, <2>1, <2>2, FS_Union
<1>5. Cardinality(S \cup {DefaultKey}) = Cardinality(S) + 1
  BY <1>2, <1>4, FS_AddElement
<1>6. S \cup {DefaultKey} = {DefaultKey} \cup flat \cup owned
  OBVIOUS
<1>7. Cardinality(flat) + Cardinality(owned) + 1 < Limit
  BY <1>3, <1>4, <1>5, <1>6
<1>8. flat = OnDisk({Admin}) /\ owned = OnDisk(Tenants)
  BY <1>1, <1>3, <1>7
<1>9. QED
  BY <1>8 DEF OnDisk

\* What a restart does not load is told nothing of, the rest is served as before.
LEMMA ServedRestart ==
  ASSUME ServedInv, TypeOK', Restart
  PROVE  ServedInv'
<1>1. PICK failed, flat, owned, left :
        /\ flat \in LoadedFrom(OnDisk({Admin}), failed, 1)
        /\ owned \in LoadedFrom(OnDisk(Tenants), failed, 1 + Cardinality(flat))
        /\ left = OnDisk({Admin} \cup Tenants) \ (flat \cup owned)
        /\ engines' = {DefaultKey} \cup flat \cup owned
        /\ Forgotten(IF failed = {} /\ Cardinality(engines') < Limit THEN {} ELSE left)
  BY DEF Restart
<1>2. disk' = disk /\ \A w \in Tasks : op'[w] = Idle
  BY DEF Restart
<1>3. \A j \in Judged : answered'[j] = IF j \in left THEN "unsure"
                                       ELSE IF answered[j] = "swept" THEN "absent" ELSE answered[j]
  <2>1. failed = {} /\ Cardinality(engines') < Limit => left = {}
    BY <1>1, RestartLoadsAll
  <2>2. QED
    BY <1>1, <2>1 DEF Forgotten
<1>4. \A j \in Judged : j \in OnDisk({Admin} \cup Tenants) <=> disk[PathOf(j)] # "none"
  BY KeyShape DEF OnDisk, Judged
<1>5. flat \cup owned \subseteq OnDisk({Admin} \cup Tenants)
  BY <1>1 DEF LoadedFrom, OnDisk
<1>6. ServedAsAnswered'
  <2>1. SUFFICES ASSUME NEW j \in Judged, answered'[j] # "unsure"
                 PROVE  /\ disk[PathOf(j)] = OnDiskAs(answered'[j])
                        /\ j \in engines' <=> answered'[j] # "absent"
    BY <1>2 DEF ServedAsAnswered
  <2>2. /\ j \notin left /\ answered[j] # "unsure"
        /\ answered'[j] = IF answered[j] = "swept" THEN "absent" ELSE answered[j]
    BY <1>3, <2>1
  <2>3. disk[PathOf(j)] = OnDiskAs(answered[j])
    BY <2>1, <2>2 DEF ServedInv, ServedAsAnswered
  <2>4. answered[j] # "none"
    BY DEF ServedInv, NoneIsNeverTold
  <2>5. j \in engines' <=> disk[PathOf(j)] # "none"
    BY <1>1, <1>4, <1>5, <2>2 DEF Judged
  <2>6. answered[j] \in Told
    BY DEF ServedInv, TypeOK
  <2>7. QED
    BY <2>2, <2>3, <2>4, <2>5, <2>6 DEF OnDiskAs, Answers, Told
<1>7. Exclusive' /\ StainedIsUnsure' /\ AloneIsOut' /\ AloneIsMade' /\ UsedIsServed'
  BY <1>2 DEF Exclusive, StainedIsUnsure, Stains, AloneIsOut, AloneIsMade, UsedIsServed,
              Working, Holding, Idle
<1>8. NoneIsNeverTold'
  BY <1>3 DEF ServedInv, NoneIsNeverTold
<1>9. QED
  BY <1>6, <1>7, <1>8 DEF ServedInv

LEMMA ServedStep ==
  ASSUME ServedInv, [Next]_vars
  PROVE  ServedInv'
<1>0. TypeOK /\ TypeOK' /\ \A w \in Tasks : OpOK(op[w])
  BY TypeStep DEF ServedInv, TypeOK
<1>1. ASSUME NEW t \in Tasks, NEW k \in Keys, BeginCreate(t, k)
      PROVE  ServedInv'
  <2> DEFINE o == [Idle EXCEPT !.pc = "check", !.kind = "create", !.key = k, !.at = k]
  <2>1. OpOK(o) /\ o # Idle /\ o.pc = "check"
    BY DEF OpOK, CreateOp, CallsOf, Creating, Idle, Answers, Told
  <2>2. Start(t, o) /\ UNCHANGED <<engines, disk, answered>>
    BY <1>1 DEF BeginCreate, history
  <2> HIDE DEF o
  <2>3. QED
    BY <1>0, <2>1, <2>2, ServedStart
<1>2. ASSUME NEW t \in Tasks, NEW k \in Keys, BeginDelete(t, k)
      PROVE  ServedInv'
  <2> DEFINE o == [Idle EXCEPT !.pc = "remove", !.kind = "delete", !.key = k, !.at = k]
  <2>1. OpOK(o) /\ o # Idle /\ o.pc = "remove"
    <3>1. k # DefaultKey
      BY <1>2 DEF BeginDelete
    <3>2. QED
      BY <3>1 DEF OpOK, DeleteOp, CallsOf, Idle, Answers, Told
  <2>2. Start(t, o) /\ UNCHANGED <<engines, disk, answered>>
    BY <1>2 DEF BeginDelete, history
  <2> HIDE DEF o
  <2>3. QED
    BY <1>0, <2>1, <2>2, ServedStart
<1>3. ASSUME NEW t \in Tasks, NEW n \in Tenants, BeginDeleteTenant(t, n)
      PROVE  ServedInv'
  <2> DEFINE o == [Idle EXCEPT !.pc = "store", !.kind = "tenant", !.key = <<n, None>>]
  <2>1. OpOK(o) /\ o # Idle /\ o.pc = "store"
    BY DEF OpOK, TenantOp, CallsOf, Idle, Answers, Told, NoKey
  <2>2. Start(t, o) /\ UNCHANGED <<engines, disk, answered>>
    BY <1>3 DEF BeginDeleteTenant, history
  <2> HIDE DEF o
  <2>3. QED
    BY <1>0, <2>1, <2>2, ServedStart
<1>4. ASSUME NEW t \in Tasks, NEW k \in Keys, Resolve(t, k)
      PROVE  ServedInv'
  <2>1. /\ UNCHANGED <<engines, disk, answered>> /\ \A w \in Tasks \ {t} : op'[w] = op[w]
        /\ op'[t].pc = "use" /\ op'[t].at \in engines
    BY <1>0, <1>4 DEF Resolve, history, Idle, TypeOK
  <2>2. QED
    BY <1>0, <2>1, ServedMoves
<1>r. ASSUME NEW t \in Tasks, Return(t), UNCHANGED <<engines, disk, answered>>
      PROVE  ServedInv'
  BY <1>0, <1>r, ReturnMoves, ServedMoves
<1>g. ASSUME NEW t \in Tasks, NEW c, Go(t, c), UNCHANGED <<engines, disk, answered>>,
             Working(op[t]), c \in {"list", "cascade"} \/ (c = "mkdir" /\ op[t].at \notin engines)
      PROVE  ServedInv'
  <2>1. /\ op'[t].pc = c /\ op'[t].at = op[t].at /\ Continues(t)
        /\ \A w \in Tasks \ {t} : op'[w] = op[w]
    BY <1>0, <1>g, GoMoves DEF Continues
  <2>2. QED
    BY <1>0, <1>g, <2>1, ServedMoves
<1>5. ASSUME NEW n \in Tenants, CreateTenant(n)
      PROVE  ServedInv'
  <2>1. UNCHANGED <<engines, disk, answered, op>>
    BY <1>5 DEF CreateTenant, history
  <2>2. Exclusive'
    BY <2>1 DEF ServedInv, Exclusive
  <2>3. QED
    BY <1>0, <2>1, <2>2, ServedQuiet DEF ServedInv, UsedIsServed
<1>6. ASSUME NEW t \in Tasks, Check(t)
      PROVE  ServedInv'
  <2>1. Working(op[t]) /\ UNCHANGED <<engines, disk, answered>>
    BY <1>6 DEF Check, history, Working, At
  <2>2. CASE op[t].at \notin engines /\ HasRoom
    BY <1>6, <1>g, <2>1, <2>2 DEF Check
  <2>3. CASE ~ (op[t].at \notin engines /\ HasRoom)
    BY <1>6, <1>r, <2>1, <2>3 DEF Check
  <2>4. QED
    BY <2>2, <2>3
<1>7. ASSUME NEW t \in Tasks, Open(t)
      PROVE  ServedInv'
  <2>1. op[t].pc = "open" /\ Go(t, "insert") /\ UNCHANGED <<engines, disk, answered>>
    BY <1>7 DEF Open, history, At
  <2>2. /\ op'[t].pc = "insert" /\ op'[t].at = op[t].at /\ op'[t].prior = op[t].prior
        /\ op'[t].alone = op[t].alone /\ Continues(t)
        /\ \A w \in Tasks \ {t} : op'[w] = op[w]
    BY <1>0, <2>1, GoMoves DEF Continues, Working
  <2>3. QED
    BY <1>0, <2>1, <2>2, ServedMoves
<1>8. ASSUME NEW t \in Tasks, CreateFails(t)
      PROVE  ServedInv'
  BY <1>8, <1>r DEF CreateFails
<1>9. ASSUME NEW t \in Tasks, RemoveName(t)
      PROVE  ServedInv'
  <2> DEFINE o == [op[t] EXCEPT !.pc = "rmdir"]
  <2>1. op[t].pc = "remove" /\ DeleteOp(op[t]) /\ UNCHANGED disk
    BY <1>0, <1>9, StepTellsKind DEF RemoveName, At
  <2>2. PICK k \in Keys : k = op[t].at
    BY <2>1 DEF DeleteOp, CallsOf
  <2>3. /\ OpOK(o) /\ o.pc = "rmdir" /\ o.at = k /\ o.key = op[t].key /\ o.alone = op[t].alone
        /\ Working(op[t])
    BY <2>1, <2>2 DEF OpOK, DeleteOp, CallsOf, Working
  <2>4. CASE k \in engines
    <3>1. TakeOut(t, k, o)
      BY <1>9, <2>2, <2>4 DEF RemoveName
    <3> HIDE DEF o
    <3>2. QED
      BY <1>0, <2>1, <2>3, <3>1, ServedTakeOut
  <2>5. CASE k \notin engines
    BY <1>9, <1>r, <2>2, <2>5 DEF RemoveName
  <2>6. QED
    BY <2>4, <2>5
<1>10. ASSUME NEW t \in Tasks, RemoveDirFails(t)
       PROVE  ServedInv'
  <2>1. Working(op[t]) /\ AfterDelete(t) /\ UNCHANGED <<engines, disk, answered>>
    BY <1>10 DEF RemoveDirFails, At, Working
  <2>2. QED
    BY <1>g, <1>r, <2>1 DEF AfterDelete
<1>11. ASSUME NEW t \in Tasks, DeleteFromStore(t)
       PROVE  ServedInv'
  <2>1. Working(op[t]) /\ UNCHANGED <<engines, disk, answered>> /\ (Go(t, "list") \/ Return(t))
    BY <1>11 DEF DeleteFromStore, At, Working
  <2>2. QED
    BY <1>g, <1>r, <2>1
<1>12. ASSUME NEW t \in Tasks, ListOwned(t)
       PROVE  ServedInv'
  <2>1. TenantOp(op[t]) /\ Working(op[t]) /\ UNCHANGED <<engines, disk, answered>>
    BY <1>0, <1>12, StepTellsKind DEF ListOwned, At, Working, history
  <2>2. /\ op'[t].pc = "cascade" /\ op'[t].key = op[t].key /\ op'[t].alone = op[t].alone
        /\ \A w \in Tasks \ {t} : op'[w] = op[w]
    <3>1. op' = [op EXCEPT ![t] = [op[t] EXCEPT !.pc = "cascade", !.todo = OwnedBy(op[t].key[1])]]
      BY <1>0, <1>12 DEF ListOwned, TypeOK
    <3>2. QED
      BY <1>0, <2>1, <3>1 DEF TypeOK, TenantOp, CallsOf
  <2>3. QED
    BY <1>0, <2>1, <2>2, ServedMoves DEF Continues
<1>13. ASSUME NEW t \in Tasks, CascadeNext(t)
       PROVE  ServedInv'
  <2>1. TenantOp(op[t]) /\ op[t].pc = "cascade" /\ Working(op[t]) /\ UNCHANGED disk
    BY <1>0, <1>13, StepTellsKind DEF CascadeNext, At, Working
  <2> DEFINE o(k) == [op[t] EXCEPT !.at = k, !.todo = @ \ {k}]
  <2>2. PICK k \in op[t].todo :
          IF k \in engines THEN TakeOut(t, k, [o(k) EXCEPT !.pc = "rmdir"])
          ELSE op' = [op EXCEPT ![t] = o(k)] /\ UNCHANGED <<engines, answered>>
    BY <1>13 DEF CascadeNext
  <2> DEFINE p == [o(k) EXCEPT !.pc = "rmdir"]
  <2>3. k \in Keys /\ k[1] = op[t].key[1]
    BY <2>1 DEF TenantOp, CallsOf
  <2>4. OpOK(p) /\ p.pc = "rmdir" /\ p.at = k /\ p.key = op[t].key /\ p.alone = op[t].alone
    BY <2>1, <2>3 DEF OpOK, TenantOp, CallsOf
  <2>5. o(k).pc = "cascade" /\ o(k).key = op[t].key /\ o(k).alone = op[t].alone
    BY <2>1 DEF TenantOp, CallsOf
  <2>6. CASE k \in engines
    <3> HIDE DEF o, p
    <3>1. TakeOut(t, k, p)
      BY <2>2, <2>6 DEF p
    <3>2. QED
      BY <1>0, <2>1, <2>3, <2>4, <3>1, ServedTakeOut
  <2>7. CASE k \notin engines
    <3> HIDE DEF o, p
    <3>1. op' = [op EXCEPT ![t] = o(k)] /\ UNCHANGED <<engines, answered>>
      BY <2>2, <2>7
    <3>2. op'[t] = o(k) /\ \A w \in Tasks \ {t} : op'[w] = op[w]
      BY <1>0, <3>1 DEF TypeOK
    <3>3. QED
      BY <1>0, <2>1, <2>5, <3>1, <3>2, ServedMoves DEF Continues
  <2>8. QED
    BY <2>6, <2>7
<1>14. ASSUME NEW t \in Tasks, CascadeDone(t)
       PROVE  ServedInv'
  BY <1>14, <1>r DEF CascadeDone, history
<1>15. CASE UNCHANGED vars
  <2>1. UNCHANGED <<engines, disk, answered, op>>
    BY <1>15 DEF vars, history
  <2>2. Exclusive'
    BY <2>1 DEF ServedInv, Exclusive
  <2>3. QED
    BY <1>0, <2>1, <2>2, ServedQuiet DEF ServedInv, UsedIsServed
<1>16. QED
  BY <1>0, <1>1, <1>2, <1>3, <1>4, <1>5, <1>6, <1>7, <1>8, <1>9, <1>10, <1>11, <1>12,
     <1>13, <1>14, <1>15, ServedMakeDir, ServedInsert, ServedRemoveDir, ServedUse, ServedRestart
  DEF Next, Call

\* The map and the directories agree with what the calls have told, although each
\* call changes them in separate steps: from the first effect of a call to its end
\* nothing is told of the indexes it is on, and the call that tells again has met
\* nobody on its directories since it came in, not even a writer whose engine had
\* left the map.
THEOREM RegistryServesAsAnswered == Spec => []ServedAsAnswered
<1>1. Init => ServedInv
  <2> SUFFICES ASSUME Init PROVE ServedInv
    OBVIOUS
  <2>1. ServedAsAnswered /\ NoneIsNeverTold
    BY PathsAre DEF Init, ServedAsAnswered, OnDiskAs, NoneIsNeverTold, Judged
  <2>2. Exclusive /\ StainedIsUnsure /\ AloneIsOut /\ AloneIsMade /\ UsedIsServed
    BY DEF Init, Exclusive, StainedIsUnsure, Stains, AloneIsOut, AloneIsMade, UsedIsServed,
           Working, Holding, Idle
  <2>3. QED
    BY <2>1, <2>2, InitTypes DEF ServedInv
<1>2. ServedInv /\ [Next]_vars => ServedInv'
  BY ServedStep
<1>3. ServedInv => ServedAsAnswered
  BY DEF ServedInv
<1>4. QED
  BY <1>1, <1>2, <1>3, PTL DEF Spec
=============================================================================
