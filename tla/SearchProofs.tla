---------------------------- MODULE SearchProofs ----------------------------
(***************************************************************************)
(* Theorems about Search: what apply_overrides() does to the list, for any *)
(* pins, slots and suppressions, and that the filters hold on every way to *)
(* a response, for any catalogue, calls, faults and products that come and *)
(* go.                                                                     *)
(***************************************************************************)
EXTENDS Search, FiniteSetTheorems, TLAPS

-----------------------------------------------------------------------------
(* Lists                                                                   *)

Distinct(s) == \A i, j \in DOMAIN s : s[i] = s[j] => i = j

\* Where p is in s first, or 0.
IndexOf(s, p) == SelectInSeq(s, LAMBDA q : q = p)

LEMMA LeastNumber ==
  ASSUME NEW T \in SUBSET Nat, T # {}
  PROVE  Min(T) \in T /\ \A m \in T : Min(T) <= m
<1> DEFINE R == OpToRel(<, Nat)
<1>1. IsWellFoundedOn(R, Nat)
  BY NatLessThanWellFounded
<1>2. \A x, y \in Nat : <<x, y>> \in R <=> x < y
  BY DEF OpToRel
<1> HIDE DEF R
<1>3. PICK n \in T : \A m \in T : ~ (<<m, n>> \in R)
  BY <1>1, WFMin
<1>4. \A m \in T : m \in Nat
  OBVIOUS
<1>5. \A m \in T : ~ (m < n)
  BY <1>2, <1>3, <1>4, Zenon
<1>6. \A m \in T : n <= m
  BY <1>4, <1>5
<1>7. QED
  BY <1>6 DEF Min

LEMMA IndexIs ==
  ASSUME NEW s, Len(s) \in Nat, NEW p
  PROVE  /\ IndexOf(s, p) \in 0..Len(s)
         /\ IndexOf(s, p) = 0 <=> ~ Contains(s, p)
         /\ IndexOf(s, p) # 0 => s[IndexOf(s, p)] = p
<1> DEFINE I == {i \in 1..Len(s) : s[i] = p}
<1>1. IndexOf(s, p) = IF I # {} THEN Min(I) ELSE 0
  BY DEF IndexOf, SelectInSeq
<1>2. I # {} => Min(I) \in I
  BY LeastNumber
<1>3. Contains(s, p) <=> I # {}
  BY DEF Contains
<1>4. QED
  BY <1>1, <1>2, <1>3

LEMMA PartIs ==
  ASSUME NEW S, NEW s \in Seq(S), NEW m \in Nat \ {0}, NEW n \in Nat, n <= Len(s)
  PROVE  /\ SubSeq(s, m, n) \in Seq(S)
         /\ Len(SubSeq(s, m, n)) = IF m <= n THEN n - m + 1 ELSE 0
         /\ \A k \in 1..Len(SubSeq(s, m, n)) : SubSeq(s, m, n)[k] = s[m + k - 1]
  OBVIOUS

\* remove() closes the gap.
LEMMA RemoveIs ==
  ASSUME NEW S, NEW s \in Seq(S), NEW p
  PROVE  /\ RemoveFirst(s, p) \in Seq(S)
         /\ ~ Contains(s, p) => RemoveFirst(s, p) = s
         /\ Contains(s, p) =>
              /\ Len(RemoveFirst(s, p)) = Len(s) - 1
              /\ \A k \in 1..Len(s) - 1 :
                   RemoveFirst(s, p)[k] = IF k < IndexOf(s, p) THEN s[k] ELSE s[k + 1]
<1> DEFINE a == IndexOf(s, p)
<1>1. CASE ~ Contains(s, p)
  BY <1>1 DEF RemoveFirst, Contains
<1>2. CASE Contains(s, p)
  <2>1. a \in 1..Len(s)
    BY <1>2, IndexIs
  <2> DEFINE u == SubSeq(s, 1, a - 1)
             v == SubSeq(s, a + 1, Len(s))
  <2>2. RemoveFirst(s, p) = u \o v
    BY <1>2 DEF RemoveFirst, RemoveAt, Contains, IndexOf
  <2> HIDE DEF a
  <2>3. /\ u \in Seq(S) /\ Len(u) = a - 1 /\ \A k \in 1..a - 1 : u[k] = s[k]
        /\ v \in Seq(S) /\ Len(v) = Len(s) - a /\ \A k \in 1..Len(s) - a : v[k] = s[a + k]
    BY <2>1, PartIs
  <2> HIDE DEF u, v
  <2>4. /\ u \o v \in Seq(S) /\ Len(u \o v) = Len(s) - 1
    BY <2>1, <2>3
  <2>5. ASSUME NEW k \in 1..Len(s) - 1
        PROVE  (u \o v)[k] = IF k < a THEN s[k] ELSE s[k + 1]
    <3>1. (u \o v)[k] = IF k < a THEN u[k] ELSE v[k - (a - 1)]
      BY <2>1, <2>3
    <3>2. ~ (k < a) => v[k - (a - 1)] = s[k + 1]
      <4> SUFFICES ASSUME ~ (k < a) PROVE v[k - (a - 1)] = s[k + 1]
        OBVIOUS
      <4>1. k - (a - 1) \in 1..Len(s) - a /\ a + (k - (a - 1)) = k + 1
        BY <2>1
      <4>2. QED
        BY <2>3, <4>1
    <3>3. QED
      BY <2>1, <2>3, <3>1, <3>2
  <2>6. QED
    BY <1>2, <2>2, <2>4, <2>5 DEF a
<1>3. QED
  BY <1>1, <1>2

LEMMA InsertIs ==
  ASSUME NEW S, NEW s \in Seq(S), NEW n \in 1..Len(s) + 1, NEW e \in S
  PROVE  /\ InsertAt(s, n, e) \in Seq(S)
         /\ Len(InsertAt(s, n, e)) = Len(s) + 1
         /\ \A k \in 1..Len(s) + 1 :
              InsertAt(s, n, e)[k] = IF k < n THEN s[k] ELSE IF k = n THEN e ELSE s[k - 1]
<1> DEFINE u == SubSeq(s, 1, n - 1)
           v == SubSeq(s, n, Len(s))
<1>1. /\ u \in Seq(S) /\ Len(u) = n - 1 /\ \A k \in 1..n - 1 : u[k] = s[k]
      /\ v \in Seq(S) /\ Len(v) = Len(s) - n + 1 /\ \A k \in 1..Len(v) : v[k] = s[n + k - 1]
  BY PartIs
<1> HIDE DEF u, v
<1>2. InsertAt(s, n, e) = u \o <<e>> \o v
  BY DEF InsertAt, u, v
<1>3. u \o <<e>> \in Seq(S) /\ Len(u \o <<e>>) = n
      /\ \A k \in 1..n : (u \o <<e>>)[k] = IF k < n THEN s[k] ELSE e
  BY <1>1
<1>4. QED
  BY <1>1, <1>2, <1>3

\* insert() and MoveTo() put it where they say.
LEMMA TargetIs ==
  ASSUME NEW S, NEW s \in Seq(S), NEW n \in Nat \ {0}
  PROVE  /\ Target(s, n) \in 1..Len(s) + 1 /\ Target(s, n) <= n
         /\ Target(s, n) = n \/ Target(s, n) = Len(s) + 1
  BY DEF Target

\* Where the element at k has been before the one at a, if any, went to n.
Source(a, n, k) ==
  LET m == IF k < n THEN k ELSE k - 1 IN IF a = 0 \/ m < a THEN m ELSE m + 1

\* The others stay as they are, in their order.
LEMMA MoveIs ==
  ASSUME NEW S, NEW s \in Seq(S), NEW p \in S, NEW n \in Nat \ {0}
  PROVE  LET t == MoveTo(s, p, n)
             a == IndexOf(s, p)
             to == Target(RemoveFirst(s, p), n)
         IN  /\ t \in Seq(S) /\ to \in 1..Len(t) /\ t[to] = p
             /\ Len(t) = IF a = 0 THEN Len(s) + 1 ELSE Len(s)
             /\ \A k \in 1..Len(t) \ {to} :
                  /\ Source(a, to, k) \in 1..Len(s) \ {a}
                  /\ t[k] = s[Source(a, to, k)]
<1> DEFINE r == RemoveFirst(s, p)
           a == IndexOf(s, p)
           to == Target(r, n)
<1>1. a \in 0..Len(s) /\ (a = 0 <=> ~ Contains(s, p))
  BY IndexIs
<1>2. /\ r \in Seq(S)
      /\ Len(r) = IF a = 0 THEN Len(s) ELSE Len(s) - 1
      /\ \A k \in 1..Len(r) : r[k] = IF a = 0 \/ k < a THEN s[k] ELSE s[k + 1]
  BY <1>1, RemoveIs
<1> HIDE DEF r, a
<1>3. to \in 1..Len(r) + 1
  BY <1>2, TargetIs
<1> HIDE DEF to
<1>4. MoveTo(s, p, n) = InsertAt(r, to, p)
  BY DEF MoveTo, r, to
<1> DEFINE t == InsertAt(r, to, p)
<1>5. /\ t \in Seq(S) /\ Len(t) = Len(r) + 1
      /\ \A k \in 1..Len(r) + 1 : t[k] = IF k < to THEN r[k] ELSE IF k = to THEN p ELSE r[k - 1]
  <2>1. r \in Seq(S)
    BY <1>2
  <2>2. QED
    BY <1>3, <2>1, InsertIs
<1> HIDE DEF t
<1>6. ASSUME NEW k \in 1..Len(t) \ {to}
      PROVE  Source(a, to, k) \in 1..Len(s) \ {a} /\ t[k] = s[Source(a, to, k)]
  <2> DEFINE m == IF k < to THEN k ELSE k - 1
  <2>1. m \in 1..Len(r) /\ t[k] = r[m]
    BY <1>2, <1>3, <1>5, <1>6
  <2>2. Source(a, to, k) = IF a = 0 \/ m < a THEN m ELSE m + 1
    BY DEF Source
  <2> HIDE DEF m
  <2>3. QED
    BY <1>1, <1>2, <2>1, <2>2
<1>7. /\ t \in Seq(S) /\ to \in 1..Len(t) /\ t[to] = p
      /\ Len(t) = IF a = 0 THEN Len(s) + 1 ELSE Len(s)
  BY <1>1, <1>2, <1>3, <1>5
<1>8. QED
  BY <1>4, <1>6, <1>7 DEF t, to, r, a

\* None overtakes another, and every place but the one that was left is kept.
LEMMA SourcesRise ==
  ASSUME NEW a \in Nat, NEW n \in Nat \ {0}
  PROVE  \A k, m \in Nat \ {0, n} : k < m => Source(a, n, k) < Source(a, n, m)
  BY DEF Source

\* Where the element at i goes.
Goal(a, n, i) == LET m == IF a = 0 \/ i < a THEN i ELSE i - 1 IN IF m < n THEN m ELSE m + 1

LEMMA PlacesAreKept ==
  ASSUME NEW a \in Nat, NEW n \in Nat \ {0}, NEW i \in Nat \ {0}, i # a
  PROVE  Goal(a, n, i) # n /\ Source(a, n, Goal(a, n, i)) = i
<1>1. Goal(a, n, i) # n
  BY DEF Goal
<1>2. Source(a, n, Goal(a, n, i)) = i
  BY DEF Source, Goal
<1>3. QED
  BY <1>1, <1>2

LEMMA MoveKeepsDistinct ==
  ASSUME NEW S, NEW s \in Seq(S), NEW p \in S, NEW n \in Nat \ {0}, Distinct(s)
  PROVE  Distinct(MoveTo(s, p, n)) /\ Range(MoveTo(s, p, n)) = Range(s) \cup {p}
<1> DEFINE t == MoveTo(s, p, n)
           a == IndexOf(s, p)
           to == Target(RemoveFirst(s, p), n)
<1>1. /\ t \in Seq(S) /\ to \in 1..Len(t) /\ t[to] = p
      /\ Len(t) = IF a = 0 THEN Len(s) + 1 ELSE Len(s)
      /\ \A k \in 1..Len(t) \ {to} :
           Source(a, to, k) \in 1..Len(s) \ {a} /\ t[k] = s[Source(a, to, k)]
  BY MoveIs
<1>2. a \in 0..Len(s) /\ (a # 0 => s[a] = p) /\ (a = 0 => \A i \in 1..Len(s) : s[i] # p)
  BY IndexIs DEF Contains
<1> HIDE DEF t, a, to
<1> DEFINE l == Len(s)
           u == IF a = 0 THEN l + 1 ELSE l
<1>0. /\ a \in Nat /\ l \in Nat /\ a <= l /\ to \in Nat \ {0} /\ to <= u
      /\ u \in Nat /\ 1..Len(t) = 1..u /\ u = IF a = 0 THEN l + 1 ELSE l
  BY <1>1, <1>2
<1> HIDE DEF l, u
<1>3. \A k, m \in 1..Len(t) \ {to} : k < m => Source(a, to, k) < Source(a, to, m)
  <2>1. \A k, m \in Nat \ {0, to} : k < m => Source(a, to, k) < Source(a, to, m)
    BY <1>0, SourcesRise
  <2>2. QED
    BY <1>0, <2>1
<1>4. \A i \in 1..Len(s) \ {a} : \E k \in 1..Len(t) \ {to} : Source(a, to, k) = i
  <2> SUFFICES ASSUME NEW i \in 1..Len(s) \ {a}
               PROVE  \E k \in 1..Len(t) \ {to} : Source(a, to, k) = i
    OBVIOUS
  <2>1. i \in 1..l /\ i # a
    BY DEF l
  <2>2. i \in Nat \ {0}
    BY <1>0, <2>1
  <2>3. Goal(a, to, i) # to /\ Source(a, to, Goal(a, to, i)) = i
    BY <1>0, <2>1, <2>2, PlacesAreKept
  <2>4. Goal(a, to, i) \in 1..u
    BY <1>0, <2>1 DEF Goal
  <2>5. QED
    BY <1>0, <2>3, <2>4
<1>5. \A k \in 1..Len(t) \ {to} : t[k] # p
  BY <1>1, <1>2 DEF Distinct
<1>6. \A k, m \in 1..Len(t) \ {to} : t[k] = t[m] => k = m
  <2> SUFFICES ASSUME NEW k \in 1..Len(t) \ {to}, NEW m \in 1..Len(t) \ {to}, t[k] = t[m]
               PROVE  k = m
    OBVIOUS
  <2>0. /\ Source(a, to, k) \in 1..Len(s) /\ Source(a, to, m) \in 1..Len(s)
        /\ s[Source(a, to, k)] = s[Source(a, to, m)]
    BY <1>1
  <2>1. Source(a, to, k) = Source(a, to, m) /\ Source(a, to, k) \in Nat
    <3>1. \A x, y \in 1..Len(s) : s[x] = s[y] => x = y
      BY DEF Distinct
    <3>2. QED
      BY <2>0, <3>1
  <2>2. ~ (k < m) /\ ~ (m < k)
    BY <1>3, <2>1
  <2>3. QED
    BY <2>2
<1>7. Distinct(t)
  <2>1. DOMAIN t = 1..Len(t)
    BY <1>1
  <2> SUFFICES ASSUME NEW k \in 1..Len(t), NEW m \in 1..Len(t), t[k] = t[m] PROVE k = m
    BY <2>1 DEF Distinct
  <2>2. CASE k = to
    BY <1>1, <1>5, <2>2
  <2>3. CASE m = to
    BY <1>1, <1>5, <2>3
  <2>4. CASE k # to /\ m # to
    BY <1>6, <2>4
  <2>5. QED
    BY <2>2, <2>3, <2>4
<1>8. Range(t) \subseteq Range(s) \cup {p}
  BY <1>1 DEF Range
<1>9. Range(s) \cup {p} \subseteq Range(t)
  <2>1. p \in Range(t)
    BY <1>1 DEF Range
  <2>2. ASSUME NEW i \in 1..Len(s), i # a PROVE s[i] \in Range(t)
    BY <1>1, <1>4, <2>2 DEF Range
  <2>3. ASSUME NEW i \in 1..Len(s) PROVE s[i] \in Range(t)
    BY <1>2, <2>1, <2>2
  <2>4. QED
    BY <2>1, <2>3 DEF Range
<1>10. QED
  BY <1>7, <1>8, <1>9 DEF t

\* s has the others of t in the order of t.
LEMMA MoveKeepsOrder ==
  ASSUME NEW S, NEW s \in Seq(S), NEW p \in S, NEW n \in Nat \ {0},
         NEW i \in DOMAIN MoveTo(s, p, n), NEW j \in DOMAIN MoveTo(s, p, n), i < j,
         MoveTo(s, p, n)[i] # p, MoveTo(s, p, n)[j] # p
  PROVE  \E k, m \in DOMAIN s : /\ k < m
                                /\ s[k] = MoveTo(s, p, n)[i] /\ s[m] = MoveTo(s, p, n)[j]
<1> DEFINE t == MoveTo(s, p, n)
           a == IndexOf(s, p)
           to == Target(RemoveFirst(s, p), n)
<1>1. /\ t \in Seq(S) /\ to \in 1..Len(t) /\ t[to] = p
      /\ Len(t) = IF a = 0 THEN Len(s) + 1 ELSE Len(s)
      /\ \A k \in 1..Len(t) \ {to} :
           Source(a, to, k) \in 1..Len(s) \ {a} /\ t[k] = s[Source(a, to, k)]
  BY MoveIs
<1>2. a \in 0..Len(s)
  BY IndexIs
<1>3. i \in 1..Len(t) /\ j \in 1..Len(t) /\ t[i] # p /\ t[j] # p
  BY <1>1
<1> HIDE DEF t, a, to
<1>4. \A k, m \in 1..Len(t) \ {to} : k < m => Source(a, to, k) < Source(a, to, m)
  <2> DEFINE l == Len(s)
  <2>1. /\ a \in Nat /\ l \in Nat /\ a <= l /\ to \in Nat \ {0}
        /\ to <= IF a = 0 THEN l + 1 ELSE l
    BY <1>1, <1>2
  <2> HIDE DEF l
  <2>2. \A k, m \in Nat \ {0, to} : k < m => Source(a, to, k) < Source(a, to, m)
    BY <2>1, SourcesRise
  <2>3. QED
    BY <1>1, <2>2
<1>5. i \in 1..Len(t) \ {to} /\ j \in 1..Len(t) \ {to}
  BY <1>1, <1>3
<1>6. Source(a, to, i) < Source(a, to, j)
  BY <1>4, <1>5
<1>7. /\ Source(a, to, i) \in DOMAIN s /\ s[Source(a, to, i)] = t[i]
      /\ Source(a, to, j) \in DOMAIN s /\ s[Source(a, to, j)] = t[j]
  <2>1. \A k \in 1..Len(t) \ {to} : Source(a, to, k) \in 1..Len(s) /\ t[k] = s[Source(a, to, k)]
    BY <1>1
  <2>2. DOMAIN s = 1..Len(s)
    OBVIOUS
  <2>3. QED
    BY <1>5, <2>1, <2>2
<1>8. QED
  BY <1>6, <1>7 DEF t

\* An order of a set has each of its members once.
LEMMA OrdersAre ==
  ASSUME NEW S, IsFiniteSet(S), NEW s \in SetToSeqs(S)
  PROVE  s \in Seq(S) /\ Distinct(s) /\ Range(s) = S
<1> DEFINE N == 1..Cardinality(S)
<1>1. s \in [N -> S] /\ \A i, j \in N : i # j => s[i] # s[j]
  BY DEF SetToSeqs
<1>2. Cardinality(S) \in Nat /\ IsFiniteSet(N) /\ Cardinality(N) = Cardinality(S)
  BY FS_CardinalityType, FS_Interval
<1>3. s \in Injection(N, S)
  BY <1>1 DEF Injection, IsInjective
<1>4. s \in Surjection(N, S)
  BY <1>2, <1>3, FS_Injection
<1>5. \A x \in S : \E i \in N : s[i] = x
  BY <1>4 DEF Surjection
<1>6. s \in Seq(S)
  BY <1>1, <1>2
<1>7. Distinct(s)
  BY <1>1 DEF Distinct
<1>8. Range(s) = S
  BY <1>1, <1>5 DEF Range
<1>9. QED
  BY <1>6, <1>7, <1>8

LEMMA LesserOf ==
  ASSUME NEW a \in Nat, NEW b \in Nat
  PROVE  Min({a, b}) \in Nat /\ Min({a, b}) <= a /\ Min({a, b}) <= b
<1>1. {a, b} \in SUBSET Nat /\ {a, b} # {}
  OBVIOUS
<1>2. Min({a, b}) \in {a, b} /\ \A m \in {a, b} : Min({a, b}) <= m
  BY <1>1, LeastNumber
<1>3. QED
  BY <1>2

Staying(s, X)   == {i \in DOMAIN s : s[i] \notin X}
Retained(s, at) == [k \in DOMAIN at |-> s[at[k]]]

\* retain() keeps the order of what stays.
LEMMA RetainIs ==
  ASSUME NEW S, NEW s \in Seq(S), Distinct(s), NEW X, NEW at \in Ascending(Staying(s, X))
  PROVE  LET t == Retained(s, at)
         IN  /\ t \in Seq(S) /\ Distinct(t) /\ Range(t) = Range(s) \ X
             /\ \A i, j \in DOMAIN t : i < j =>
                  \E k, m \in DOMAIN s : k < m /\ s[k] = t[i] /\ s[m] = t[j]
<1> USE DEF Staying, Retained
<1> DEFINE T == Staying(s, X)
           t == Retained(s, at)
<1>1. DOMAIN s = 1..Len(s) /\ Len(s) \in Nat
  OBVIOUS
<1>2. IsFiniteSet(T)
  <2>1. IsFiniteSet(1..Len(s)) /\ T \subseteq 1..Len(s)
    BY <1>1, FS_Interval
  <2>2. QED
    BY <2>1, FS_Subset
<1>3. at \in SetToSeqs(T) /\ \A i, j \in DOMAIN at : i < j => at[i] < at[j]
  BY DEF Ascending
<1> HIDE DEF T
<1>4. at \in Seq(T) /\ Distinct(at) /\ Range(at) = T
  BY <1>2, <1>3, OrdersAre
<1>5. DOMAIN at = 1..Len(at) /\ Len(at) \in Nat /\ \A k \in DOMAIN at : at[k] \in T
  BY <1>4
<1>6. T \subseteq DOMAIN s /\ \A i \in DOMAIN s : i \in T <=> s[i] \notin X
  BY DEF T
<1>7. t \in Seq(S)
  BY <1>1, <1>5, <1>6
<1>8. Distinct(t)
  BY <1>4, <1>5, <1>6 DEF Distinct
<1>9. Range(t) = Range(s) \ X
  <2>1. ASSUME NEW k \in DOMAIN at PROVE t[k] \in Range(s) \ X
    BY <1>5, <1>6 DEF Range
  <2>2. ASSUME NEW i \in DOMAIN s, s[i] \notin X PROVE s[i] \in Range(t)
    <3>1. PICK k \in DOMAIN at : at[k] = i
      BY <1>4, <1>6, <2>2 DEF Range
    <3>2. t[k] = s[i]
      BY <3>1
    <3>3. QED
      BY <3>2 DEF Range
  <2>3. QED
    BY <2>1, <2>2 DEF Range
<1>10. \A i, j \in DOMAIN t : i < j =>
         \E k, m \in DOMAIN s : k < m /\ s[k] = t[i] /\ s[m] = t[j]
  BY <1>3, <1>5, <1>6
<1>11. QED
  BY <1>7, <1>8, <1>9, <1>10

LEMMA JoinIs ==
  ASSUME NEW S, NEW t \in Seq(S), NEW v \in Seq(S),
         Distinct(t), Distinct(v), Range(t) \cap Range(v) = {}
  PROVE  t \o v \in Seq(S) /\ Distinct(t \o v) /\ Range(t \o v) = Range(t) \cup Range(v)
<1> DEFINE w == t \o v
           l == Len(t)
<1>1. l \in Nat /\ Len(v) \in Nat /\ DOMAIN t = 1..l /\ DOMAIN v = 1..Len(v)
  OBVIOUS
<1>2. w \in Seq(S) /\ DOMAIN w = 1..l + Len(v)
  OBVIOUS
<1>3. \A k \in 1..l : k \in DOMAIN w /\ w[k] = t[k]
  BY <1>1, <1>2
<1>4. \A k \in 1..Len(v) : l + k \in DOMAIN w /\ w[l + k] = v[k]
  BY <1>1, <1>2
<1>5. \A k \in DOMAIN w : k \in 1..l \/ (k - l \in 1..Len(v) /\ k = l + (k - l))
  BY <1>1, <1>2
<1> HIDE DEF w, l
<1>6. \A i \in 1..l, j \in 1..Len(v) : t[i] # v[j]
  <2>1. \A i \in 1..l : t[i] \in Range(t)
    BY <1>1 DEF Range
  <2>2. \A j \in 1..Len(v) : v[j] \in Range(v)
    BY <1>1 DEF Range
  <2>3. QED
    BY <2>1, <2>2
<1>7. Distinct(w)
  <2> SUFFICES ASSUME NEW i \in DOMAIN w, NEW j \in DOMAIN w, w[i] = w[j] PROVE i = j
    BY DEF Distinct
  <2>1. CASE i \in 1..l /\ j \in 1..l
    <3>1. t[i] = t[j] /\ i \in DOMAIN t /\ j \in DOMAIN t
      BY <1>1, <1>3, <2>1
    <3>2. QED
      BY <3>1 DEF Distinct
  <2>2. CASE i \in 1..l /\ j \notin 1..l
    BY <1>3, <1>4, <1>5, <1>6, <2>2
  <2>3. CASE i \notin 1..l /\ j \in 1..l
    BY <1>3, <1>4, <1>5, <1>6, <2>3
  <2>4. CASE i \notin 1..l /\ j \notin 1..l
    <3>1. /\ i - l \in 1..Len(v) /\ i = l + (i - l)
          /\ j - l \in 1..Len(v) /\ j = l + (j - l)
      BY <1>5, <2>4
    <3>2. v[i - l] = v[j - l]
      BY <1>4, <3>1
    <3>3. i - l = j - l
      BY <1>1, <3>1, <3>2 DEF Distinct
    <3>4. QED
      BY <3>1, <3>3
  <2>5. QED
    BY <2>1, <2>2, <2>3, <2>4
<1>8. Range(w) = Range(t) \cup Range(v)
  <2>1. ASSUME NEW k \in DOMAIN w PROVE w[k] \in Range(t) \cup Range(v)
    <3>1. CASE k \in 1..l
      BY <1>1, <1>3, <3>1 DEF Range
    <3>2. CASE k \notin 1..l
      <4>1. w[k] = v[k - l] /\ k - l \in DOMAIN v
        BY <1>1, <1>4, <1>5, <3>2
      <4>2. QED
        BY <4>1 DEF Range
    <3>3. QED
      BY <3>1, <3>2
  <2>2. Range(t) \subseteq Range(w)
    BY <1>1, <1>3 DEF Range
  <2>3. Range(v) \subseteq Range(w)
    BY <1>1, <1>4 DEF Range
  <2>4. QED
    BY <2>1, <2>2, <2>3 DEF Range
<1>9. QED
  BY <1>2, <1>7, <1>8 DEF w

\* A list cut in two.
LEMMA CutIs ==
  ASSUME NEW S, NEW s \in Seq(S), Distinct(s), NEW n \in Nat, n <= Len(s)
  PROVE  LET u == SubSeq(s, 1, n)
             v == SubSeq(s, n + 1, Len(s))
         IN  /\ u \in Seq(S) /\ v \in Seq(S) /\ Len(u) = n
             /\ Distinct(u) /\ Distinct(v)
             /\ Range(u) \cap Range(v) = {} /\ Range(u) \cup Range(v) = Range(s)
<1> DEFINE u == SubSeq(s, 1, n)
           v == SubSeq(s, n + 1, Len(s))
           m == Len(s)
<1>1. m \in Nat /\ n <= m /\ DOMAIN s = 1..m
  OBVIOUS
<1>2. u \in Seq(S) /\ Len(u) = n /\ \A k \in 1..n : u[k] = s[k]
  BY PartIs
<1>3. v \in Seq(S) /\ Len(v) = m - n /\ \A k \in 1..m - n : v[k] = s[n + k]
  <2>1. Len(v) = m - n
    BY PartIs
  <2>2. \A k \in 1..m - n : n + 1 + k - 1 = n + k
    BY <1>1
  <2>3. v \in Seq(S) /\ \A k \in 1..m - n : v[k] = s[n + 1 + k - 1]
    BY <2>1, PartIs
  <2>4. QED
    BY <2>1, <2>2, <2>3
<1> HIDE DEF u, v, m
<1>4. DOMAIN u = 1..n /\ DOMAIN v = 1..m - n
  <2>1. DOMAIN u = 1..Len(u) /\ DOMAIN v = 1..Len(v)
    BY <1>2, <1>3
  <2>2. QED
    BY <1>2, <1>3, <2>1
<1>5. \A k \in 1..n : k \in 1..m
  BY <1>1
<1>6. \A k \in 1..m - n : n + k \in 1..m /\ n + k \notin 1..n
  BY <1>1
<1>7. \A i, j \in 1..m : s[i] = s[j] => i = j
  BY <1>1 DEF Distinct
<1>8. Distinct(u)
  BY <1>2, <1>4, <1>5, <1>7 DEF Distinct
<1>9. Distinct(v)
  <2> SUFFICES ASSUME NEW i \in 1..m - n, NEW j \in 1..m - n, v[i] = v[j] PROVE i = j
    BY <1>4 DEF Distinct
  <2>1. n + i = n + j
    BY <1>3, <1>6, <1>7
  <2>2. QED
    BY <1>1, <2>1
<1>10. Range(u) \cap Range(v) = {}
  <2>1. \A i \in 1..n, j \in 1..m - n : u[i] # v[j]
    BY <1>2, <1>3, <1>5, <1>6, <1>7
  <2>2. QED
    BY <1>4, <2>1 DEF Range
<1>11. \A k \in 1..n : u[k] \in Range(s)
  BY <1>1, <1>2, <1>5 DEF Range
<1>12. \A k \in 1..m - n : v[k] \in Range(s)
  BY <1>1, <1>3, <1>6 DEF Range
<1>13. ASSUME NEW i \in 1..m PROVE s[i] \in Range(u) \cup Range(v)
  <2>1. CASE i \in 1..n
    BY <1>2, <1>4, <2>1 DEF Range
  <2>2. CASE i \notin 1..n
    <3>1. i - n \in 1..m - n /\ n + (i - n) = i
      BY <1>1, <2>2
    <3>2. v[i - n] = s[i]
      BY <1>3, <3>1
    <3>3. QED
      BY <1>4, <3>1, <3>2 DEF Range
  <2>3. QED
    BY <2>1, <2>2
<1>14. Range(u) \cup Range(v) = Range(s)
  <2>1. Range(s) = {s[i] : i \in 1..m}
    BY <1>1 DEF Range
  <2>2. Range(u) = {u[i] : i \in 1..n} /\ Range(v) = {v[i] : i \in 1..m - n}
    BY <1>4 DEF Range
  <2>3. QED
    BY <1>11, <1>12, <1>13, <2>1, <2>2
<1>15. QED
  BY <1>2, <1>3, <1>8, <1>9, <1>10, <1>14 DEF u, v, m

\* The cross-encoder loses no hit and repeats none.
LEMMA RerankedIs ==
  ASSUME NEW S, NEW s \in Seq(S), Distinct(s), NEW r \in Reranked(s)
  PROVE  r \in Seq(S) /\ Distinct(r) /\ Range(r) = Range(s)
<1> DEFINE n == Min({TopN, Len(s)})
           u == SubSeq(s, 1, n)
           v == SubSeq(s, n + 1, Len(s))
<1>1. n \in Nat /\ n <= Len(s)
  <2>1. TopN \in Nat /\ Len(s) \in Nat
    BY SearchAssumption
  <2>2. QED
    BY <2>1, LesserOf
<1>2. PICK t \in SetToSeqs(Range(u)) : r = t \o v
  BY DEF Reranked
<1> HIDE DEF n
<1>3. /\ u \in Seq(S) /\ v \in Seq(S) /\ Len(u) = n /\ Distinct(u) /\ Distinct(v)
      /\ Range(u) \cap Range(v) = {} /\ Range(u) \cup Range(v) = Range(s)
  BY <1>1, CutIs
<1> HIDE DEF u, v
<1>4. IsFiniteSet(Range(u))
  <2>1. DOMAIN u = 1..n
    BY <1>3
  <2>2. IsFiniteSet(1..n)
    BY <1>1, FS_Interval
  <2>3. Range(u) = {u[k] : k \in 1..n}
    BY <2>1 DEF Range
  <2>4. u \in Surjection(1..n, Range(u))
    <3>1. u \in [1..n -> Range(u)]
      BY <1>3, <2>1 DEF Range
    <3>2. QED
      BY <2>3, <3>1 DEF Surjection
  <2>5. QED
    BY <2>2, <2>4, FS_Surjection
<1>5. t \in Seq(Range(u)) /\ Distinct(t) /\ Range(t) = Range(u)
  BY <1>4, OrdersAre
<1>6. Range(u) \subseteq S
  BY <1>3 DEF Range
<1>7. t \in Seq(S)
  BY <1>5, <1>6
<1>8. t \o v \in Seq(S) /\ Distinct(t \o v) /\ Range(t \o v) = Range(t) \cup Range(v)
  BY <1>3, <1>5, <1>7, JoinIs
<1>9. QED
  BY <1>2, <1>3, <1>5, <1>8

-----------------------------------------------------------------------------
(* PromotionsLand                                                          *)

Landed(s, P)  == \A y \in P : y[2] \in 1..Len(s) /\ s[y[2]] = y[1]
Before(P, S)  == \A y \in P, x \in S : y[2] < x.position /\ y[1] # x.product

\* A product that rises leaves the places above its own alone.
LEMMA MoveLands ==
  ASSUME NEW S, NEW s \in Seq(S), NEW p \in S, NEW n \in Nat \ {0}, Rises(s, p, n),
         NEW P, Landed(s, P), \A y \in P : y[2] < n /\ y[1] # p
  PROVE  Landed(MoveTo(s, p, n), P \cup {<<p, Target(RemoveFirst(s, p), n)>>})
<1> DEFINE t == MoveTo(s, p, n)
           r == RemoveFirst(s, p)
           a == IndexOf(s, p)
           to == Target(r, n)
<1>1. /\ t \in Seq(S) /\ to \in 1..Len(t) /\ t[to] = p
      /\ Len(t) = IF a = 0 THEN Len(s) + 1 ELSE Len(s)
      /\ \A k \in 1..Len(t) \ {to} :
           Source(a, to, k) \in 1..Len(s) \ {a} /\ t[k] = s[Source(a, to, k)]
  BY MoveIs
<1>2. a \in 0..Len(s) /\ (a = 0 <=> ~ Contains(s, p)) /\ (a # 0 => s[a] = p)
  BY IndexIs
<1>3. Len(r) + 1 = Len(t) /\ r \in Seq(S)
  <2>1. r \in Seq(S) /\ (Contains(s, p) => Len(r) = Len(s) - 1) /\ (~ Contains(s, p) => r = s)
    BY RemoveIs
  <2> HIDE DEF r, t, a, to
  <2>2. QED
    BY <1>1, <1>2, <2>1
<1>4. to = n \/ to = Len(t)
  BY <1>3, TargetIs
<1>5. a = 0 \/ to <= a
  BY <1>2 DEF Rises, IndexOf
<1> HIDE DEF t, r, a, to
<1>6. ASSUME NEW y \in P PROVE y[2] \in 1..Len(t) /\ t[y[2]] = y[1]
  <2> DEFINE i == y[2]
  <2>1. i \in 1..Len(s) /\ s[i] = y[1] /\ i < n /\ y[1] # p
    BY <1>6 DEF Landed
  <2> HIDE DEF i
  <2>2. i # a
    BY <1>2, <2>1
  <2>3. i < to /\ i \in 1..Len(t)
    BY <1>1, <1>2, <1>4, <1>5, <2>1, <2>2
  <2>4. Source(a, to, i) = i
    BY <1>1, <1>2, <1>5, <2>1, <2>3 DEF Source
  <2>5. t[i] = s[i]
    BY <1>1, <2>3, <2>4
  <2>6. QED
    BY <2>1, <2>3, <2>5 DEF i
<1>7. <<p, to>>[1] = p /\ <<p, to>>[2] = to
  OBVIOUS
<1>8. QED
  BY <1>1, <1>6, <1>7 DEF Landed, t, to, r

\* The products that are placed go into places of their own.
LEMMA TheRestIsBelow ==
  ASSUME NEW S \in SUBSET Targets, NEW x \in NextOf(S), NoClash(S), NEW P, Before(P, S),
         NEW to \in Nat, to <= x.position
  PROVE  NoClash(S \ {x}) /\ Before(P, S \ {x}) /\ Before(P \cup {<<x.product, to>>}, S \ {x})
<1>1. x \in S /\ \A y \in S : x.position <= y.position
  BY DEF NextOf, FirstBy
<1>2. \A y \in S : y.position \in Nat
  BY OverridesAssumption DEF Targets
<1>3. \A y \in S \ {x} : y.product # x.product /\ to < y.position
  <2> SUFFICES ASSUME NEW y \in S \ {x} PROVE y.product # x.product /\ to < y.position
    OBVIOUS
  <2>1. y.product # x.product /\ y.position # x.position
    BY <1>1 DEF NoClash
  <2>2. x.position \in Nat /\ y.position \in Nat /\ x.position <= y.position
    BY <1>1, <1>2
  <2>3. QED
    BY <2>1, <2>2
<1>4. NoClash(S \ {x}) /\ Before(P, S \ {x})
  BY DEF NoClash, Before
<1>5. Before({<<x.product, to>>}, S \ {x})
  <2>1. <<x.product, to>>[1] = x.product /\ <<x.product, to>>[2] = to
    OBVIOUS
  <2>2. QED
    BY <1>3, <2>1 DEF Before
<1>6. Before(P \cup {<<x.product, to>>}, S \ {x})
  BY <1>4, <1>5 DEF Before
<1>7. QED
  BY <1>4, <1>6

-----------------------------------------------------------------------------
(* What holds of a call's state                                            *)

Editing == {"pin", "sponsor", "respond"}
Ranked  == {"suppress"} \cup Editing
Finding == {"vector", "text", "reformulate", "expand", "retext", "clicks", "score"}

Entries == {"rows", "vectors", "texts"} \X Products \X BOOLEAN

BaseInv ==
  /\ case \in Cases /\ call \in 1..Len(case.calls)
  /\ rows \subseteq Products /\ churn \in Seq(Entries)
  /\ DOMAIN work = DOMAIN NoWork
  /\ IsFiniteSet(DOMAIN work.score) /\ DOMAIN work.score \subseteq Products
  /\ given = NotGiven \/ given \in Tables[case.overrides]
  /\ phase \in Ranked => given \in Tables[case.overrides]

\* The steps that look for candidates and change nothing else.
Retrieve ==
  \/ VectorSearch \/ FirstTextSearch \/ Reformulate \/ Expand \/ SecondTextSearch \/ GetClicks

LEMMA NoWorkIs ==
  /\ "score" \in DOMAIN NoWork /\ "filters" \in DOMAIN NoWork /\ "todo" \in DOMAIN NoWork
  /\ DOMAIN NoWork.score = {}
  BY DEF NoWork, Empty

LEMMA RetrieveIs ==
  ASSUME DOMAIN work = DOMAIN NoWork, Retrieve
  PROVE  /\ DOMAIN work' = DOMAIN NoWork /\ work'.score = work.score
         /\ work'.filters = work.filters
         /\ phase \in Finding /\ phase' \in Finding
         /\ UNCHANGED <<stores, case, gazetteer, cache, call, answers, stable, edits>>
<1> DEFINE Stays == /\ DOMAIN work' = DOMAIN work /\ work'.score = work.score
                    /\ work'.filters = work.filters
<1>1. CASE VectorSearch
  <2>1. Stays
    BY <1>1, NoWorkIs DEF VectorSearch
  <2>2. phase \in Finding /\ phase' \in Finding
    BY <1>1 DEF VectorSearch, Finding
  <2>3. UNCHANGED <<stores, case, gazetteer, cache, call, answers, stable, edits>>
    BY <1>1 DEF VectorSearch
  <2>4. QED
    BY <2>1, <2>2, <2>3
<1>2. CASE FirstTextSearch
  <2>1. Stays
    BY <1>2, NoWorkIs DEF FirstTextSearch
  <2>2. phase \in Finding /\ phase' \in Finding
    BY <1>2 DEF FirstTextSearch, Finding
  <2>3. UNCHANGED <<stores, case, gazetteer, cache, call, answers, stable, edits>>
    BY <1>2 DEF FirstTextSearch
  <2>4. QED
    BY <2>1, <2>2, <2>3
<1>3. CASE Reformulate
  <2>1. Stays
    BY <1>3, NoWorkIs DEF Reformulate
  <2>2. phase \in Finding /\ phase' \in Finding
    BY <1>3 DEF Reformulate, Finding
  <2>3. UNCHANGED <<stores, case, gazetteer, cache, call, answers, stable, edits>>
    BY <1>3 DEF Reformulate
  <2>4. QED
    BY <2>1, <2>2, <2>3
<1>4. CASE Expand
  <2>1. Stays
    BY <1>4, NoWorkIs DEF Expand
  <2>2. phase \in Finding /\ phase' \in Finding
    BY <1>4 DEF Expand, Finding
  <2>3. UNCHANGED <<stores, case, gazetteer, cache, call, answers, stable, edits>>
    BY <1>4 DEF Expand
  <2>4. QED
    BY <2>1, <2>2, <2>3
<1>5. CASE SecondTextSearch
  <2>1. Stays
    BY <1>5, NoWorkIs DEF SecondTextSearch
  <2>2. phase \in Finding /\ phase' \in Finding
    BY <1>5 DEF SecondTextSearch, Finding
  <2>3. UNCHANGED <<stores, case, gazetteer, cache, call, answers, stable, edits>>
    BY <1>5 DEF SecondTextSearch
  <2>4. QED
    BY <2>1, <2>2, <2>3
<1>6. CASE GetClicks
  <2>1. Stays
    BY <1>6, NoWorkIs DEF GetClicks
  <2>2. phase \in Finding /\ phase' \in Finding
    BY <1>6 DEF GetClicks, Finding
  <2>3. UNCHANGED <<stores, case, gazetteer, cache, call, answers, stable, edits>>
    BY <1>6 DEF GetClicks
  <2>4. QED
    BY <2>1, <2>2, <2>3
<1>7. QED
  BY <1>1, <1>2, <1>3, <1>4, <1>5, <1>6 DEF Retrieve

\* parse() starts a call's work anew.
LEMMA ParseIs ==
  ASSUME Parse
  PROVE  /\ DOMAIN work' = DOMAIN NoWork /\ DOMAIN work'.score = {}
         /\ phase = "parse" /\ phase' \in Finding
         /\ UNCHANGED <<stores, case, gazetteer, cache, call, answers, stable, edits>>
         /\ \E f : work'.filters = Merged(Req.filters, parse(Req.q).filters, f)
<1>1. DOMAIN work' = DOMAIN NoWork /\ work'.score = NoWork.score
  BY NoWorkIs DEF Parse
<1>2. work'.filters =
        Merged(Req.filters, parse(Req.q).filters, ExtractFilters(gazetteer, parse(Req.q).q))
  BY NoWorkIs DEF Parse
<1>3. \E f : work'.filters = Merged(Req.filters, parse(Req.q).filters, f)
  BY <1>2
<1>4. phase = "parse" /\ phase' \in Finding
  BY DEF Parse, Finding
<1>5. UNCHANGED <<stores, case, gazetteer, cache, call, answers, stable, edits>>
  BY DEF Parse
<1>6. QED
  BY <1>1, <1>3, <1>4, <1>5, NoWorkIs

\* A candidate that is there and passes the filters gets a score.
LEMMA ScoreIs ==
  ASSUME DOMAIN work = DOMAIN NoWork, ScoreCandidate
  PROVE  /\ DOMAIN work' = DOMAIN NoWork /\ work'.filters = work.filters
         /\ \/ work'.score = work.score
            \/ \E p \in rows : /\ DOMAIN work'.score = DOMAIN work.score \cup {p}
                               /\ MatchesFilters(Doc(p).meta, work.filters)
<1> DEFINE p == Head(work.todo)
<1>1. DOMAIN work' = DOMAIN NoWork /\ work'.filters = work.filters
  BY NoWorkIs DEF ScoreCandidate
<1>2. PICK s : work'.score = IF p \in rows /\ MatchesFilters(Doc(p).meta, work.filters)
                             THEN Over([x \in {p} |-> s], work.score) ELSE work.score
  BY NoWorkIs DEF ScoreCandidate
<1>3. DOMAIN Over([x \in {p} |-> s], work.score) = DOMAIN work.score \cup {p}
  BY DEF Over
<1>4. QED
  BY <1>1, <1>2, <1>3

\* The steps that edit the list: work and the rest of the call stay.
LEMMA OverrideIs ==
  ASSUME Override
  PROVE  /\ phase \in {"suppress", "pin", "sponsor"} /\ phase' \in Editing
         /\ UNCHANGED <<rows, ranking, given>>
  BY DEF Override, Suppress, PinsDone, Done, ApplyPin, ApplySlot, Place, Editing

LEMMA CaseIs ==
  ASSUME case \in Cases, call \in 1..Len(case.calls)
  PROVE  /\ case.there \subseteq Products /\ case.churn \in Seq(Entries)
         /\ Req.limit \in Nat /\ Req.offset \in Nat
         /\ Len(case.calls) \in Nat
         /\ \A g \in Tables[case.overrides] : g.pins \cup g.slots \subseteq Targets
<1>1. /\ case.there \subseteq Products
      /\ case.calls \in Seq(Range(case.calls))
      /\ \A r \in Range(case.calls) : r.limit \in Nat /\ r.offset \in Nat
      /\ \A g \in Tables[case.overrides] : g.pins \cup g.slots \subseteq Targets
  BY SearchAssumption
<1>2. Req \in Range(case.calls) /\ Len(case.calls) \in Nat
  BY <1>1 DEF Req
<1>3. case.churn \in Seq(Entries)
  <2> DEFINE E == {"rows", "vectors", "texts"} \X (DOMAIN case.products) \X BOOLEAN
  <2>1. case.churn \in Seq(E)
    BY SearchAssumption
  <2>3. DOMAIN case.products \subseteq Products
    BY SearchAssumption
  <2>4. E \subseteq Entries
    BY <2>3 DEF Entries
  <2> HIDE DEF E
  <2>2. QED
    BY <2>1, <2>4
<1>4. QED
  BY <1>1, <1>2, <1>3

LEMMA BaseInit ==
  ASSUME Init
  PROVE  BaseInv
<1>1. case \in Cases /\ call = 1
  BY DEF Init
<1>2. case.calls \in Seq(Range(case.calls)) \ {<<>>}
  BY <1>1, SearchAssumption
<1>3. call \in 1..Len(case.calls)
  BY <1>1, <1>2
<1>4. rows \subseteq Products /\ churn \in Seq(Entries)
  BY <1>1, <1>3, CaseIs DEF Init
<1>5. work = NoWork /\ phase \notin Ranked /\ given = NotGiven
  BY DEF Init, Ranked, Editing
<1>6. IsFiniteSet(DOMAIN work.score) /\ DOMAIN work.score \subseteq Products
  BY <1>5, NoWorkIs, FS_EmptySet
<1>7. QED
  BY <1>1, <1>3, <1>4, <1>5, <1>6 DEF BaseInv

LEMMA BaseStep ==
  ASSUME BaseInv, [Next]_vars
  PROVE  BaseInv'
<1> USE DEF BaseInv, vars, stores, edits, overrideVars
<1>1. CASE Lookup
  <2>1. phase' \notin Ranked
    BY <1>1 DEF Lookup, Ranked, Editing
  <2>2. UNCHANGED <<stores, case, call, work, given>>
    BY <1>1 DEF Lookup
  <2>3. QED
    BY <2>1, <2>2
<1>2. CASE Parse
  <2>1. /\ DOMAIN work' = DOMAIN NoWork /\ DOMAIN work'.score = {} /\ phase' \notin Ranked
        /\ UNCHANGED <<stores, case, call, given>>
    BY <1>2, ParseIs DEF Finding, Ranked, Editing
  <2>2. QED
    BY <2>1, FS_EmptySet
<1>3. CASE Retrieve
  <2>1. /\ DOMAIN work' = DOMAIN NoWork /\ work'.score = work.score /\ phase' \notin Ranked
        /\ UNCHANGED <<stores, case, call, given>>
    BY <1>3, RetrieveIs DEF Finding, Ranked, Editing
  <2>2. QED
    BY <2>1
<1>4. CASE ScoreCandidate
  <2>1. phase' \notin Ranked /\ UNCHANGED <<stores, case, call, given>>
    BY <1>4 DEF ScoreCandidate, Ranked, Editing
  <2>2. /\ DOMAIN work' = DOMAIN NoWork
        /\ \/ work'.score = work.score
           \/ \E p \in rows : DOMAIN work'.score = DOMAIN work.score \cup {p}
    BY <1>4, ScoreIs
  <2>3. IsFiniteSet(DOMAIN work'.score) /\ DOMAIN work'.score \subseteq Products
    BY <2>2, FS_AddElement
  <2>4. QED
    BY <2>1, <2>2, <2>3
<1>5. CASE Rank
  <2>1. given' \in Tables[case.overrides]
    BY <1>5 DEF Rank
  <2>2. UNCHANGED <<stores, case, call, work>>
    BY <1>5 DEF Rank
  <2>3. QED
    BY <2>1, <2>2
<1>6. CASE ApplyOverrides
  <2>1. UNCHANGED <<stores, case, call, work, given>> /\ phase \in Ranked
    BY <1>6, OverrideIs DEF ApplyOverrides, Ranked, Editing
  <2>2. QED
    BY <2>1
<1>7. CASE Respond \/ EndList \/ Fail
  <2>1. phase' \notin Ranked /\ UNCHANGED <<stores, case, call, work, given>>
    BY <1>7 DEF Respond, EndList, Fail, Ranked, Editing
  <2>2. QED
    BY <2>1
<1>8. CASE BeginList
  <2>1. phase' \notin Ranked /\ UNCHANGED <<stores, case, call, given>>
    BY <1>8 DEF BeginList, Ranked, Editing
  <2>2. DOMAIN work' = DOMAIN NoWork /\ work'.score = NoWork.score
    BY <1>8, NoWorkIs DEF BeginList
  <2>3. QED
    BY <2>1, <2>2, NoWorkIs, FS_EmptySet
<1>9. CASE TakeFromList
  <2>1. phase' \notin Ranked /\ UNCHANGED <<stores, case, call, given>>
    BY <1>9 DEF TakeFromList, Ranked, Editing
  <2>2. DOMAIN work' = DOMAIN NoWork /\ work'.score = work.score
    BY <1>9, NoWorkIs DEF TakeFromList
  <2>3. QED
    BY <2>1, <2>2
<1>10. CASE NextCall
  <2>1. phase' \notin Ranked /\ UNCHANGED <<stores, case, work, given>>
    BY <1>10 DEF NextCall, Ranked, Editing
  <2>2. call' \in 1..Len(case.calls)
    BY <1>10, CaseIs DEF NextCall
  <2>3. QED
    BY <2>1, <2>2
<1>11. CASE ComeOrGo
  <2>1. churn # <<>> /\ churn' = Tail(churn)
    BY <1>11 DEF ComeOrGo
  <2>2. Head(churn) \in Entries /\ churn' \in Seq(Entries)
    BY <2>1
  <2>3. Head(churn)[2] \in Products
    BY <2>2 DEF Entries
  <2>4. rows' \subseteq rows \cup {Head(churn)[2]}
    BY <1>11 DEF ComeOrGo
  <2>5. UNCHANGED <<phase, case, call, work, given>>
    BY <1>11 DEF ComeOrGo
  <2>6. QED
    BY <2>2, <2>3, <2>4, <2>5
<1>12. CASE UNCHANGED vars
  BY <1>12
<1>13. QED
  BY <1>1, <1>2, <1>3, <1>4, <1>5, <1>6, <1>7, <1>8, <1>9, <1>10, <1>11, <1>12
     DEF Next, Retrieve, Finished

LEMMA CallsAreInOrder == Spec => []BaseInv
<1>1. Init => BaseInv
  BY BaseInit
<1>2. BaseInv /\ [Next]_vars => BaseInv'
  BY BaseStep
<1>3. QED
  BY <1>1, <1>2, PTL DEF Spec

-----------------------------------------------------------------------------
(* EachProductOnce                                                         *)

ListInv ==
  /\ phase \in Ranked => /\ ranking \in Seq(Products) /\ Distinct(ranking)
                         /\ Range(ranking) = DOMAIN work.score
                         /\ hits \in Seq(Products) /\ Distinct(hits)
  /\ phase = "suppress" => hits = ranking
  /\ phase \in Finding \cup {"parse", "suppress", "pin"} => sponsored = {}
  /\ phase \in Editing => /\ pins \subseteq given.pins /\ slots \subseteq given.slots
                          /\ Range(hits) = (Range(ranking) \ given.suppressed) \cup sponsored

\* The two sorts and the reranker give each scored product one place.
LEMMA RankIs ==
  ASSUME BaseInv, Rank
  PROVE  /\ ranking' \in Seq(Products) /\ Distinct(ranking')
         /\ Range(ranking') = DOMAIN work.score /\ hits' = ranking'
<1>1. PICK s \in Sorted(DOMAIN work.score, work.score) :
        \E r \in (IF "rerank" \in Req.options THEN Reranked(s) ELSE {s}) :
          ranking' = r /\ hits' = r
  BY DEF Rank
<1>2. s \in SetToSeqs(DOMAIN work.score)
  BY <1>1 DEF Sorted, SortedByScore
<1>3. IsFiniteSet(DOMAIN work.score) /\ DOMAIN work.score \subseteq Products
  BY DEF BaseInv
<1>4. s \in Seq(DOMAIN work.score) /\ Distinct(s) /\ Range(s) = DOMAIN work.score
  BY <1>2, <1>3, OrdersAre
<1>5. s \in Seq(Products)
  BY <1>3, <1>4
<1>6. ASSUME NEW r \in Reranked(s)
      PROVE  r \in Seq(Products) /\ Distinct(r) /\ Range(r) = Range(s)
  BY <1>4, <1>5, <1>6, RerankedIs
<1>7. hits' = ranking' /\ (ranking' = s \/ ranking' \in Reranked(s))
  BY <1>1
<1>8. QED
  BY <1>4, <1>5, <1>6, <1>7

LEMMA TargetsAre ==
  ASSUME NEW x \in Targets
  PROVE  x.product \in Products /\ x.position \in Nat \ {0}
  BY OverridesAssumption DEF Targets

LEMMA PlaceIs ==
  ASSUME NEW x \in Targets, hits \in Seq(Products), Distinct(hits), Place(x)
  PROVE  /\ hits' \in Seq(Products) /\ Distinct(hits')
         /\ Range(hits') = Range(hits) \cup {x.product}
<1>1. x.product \in Products /\ x.position \in Nat \ {0}
  BY TargetsAre
<1>2. hits' = MoveTo(hits, x.product, x.position)
  BY DEF Place
<1>3. MoveTo(hits, x.product, x.position) \in Seq(Products)
  BY <1>1, MoveIs
<1>4. QED
  BY <1>1, <1>2, <1>3, MoveKeepsDistinct

LEMMA ContainsIs ==
  ASSUME NEW S, NEW s \in Seq(S), NEW p
  PROVE  Contains(s, p) <=> p \in Range(s)
  BY DEF Contains, Range

\* Each override keeps one place for each product.
LEMMA EditKeepsList ==
  ASSUME BaseInv, ListInv, Override
  PROVE  /\ phase \in Ranked /\ phase' \in Editing /\ UNCHANGED <<rows, ranking, given>>
         /\ hits' \in Seq(Products) /\ Distinct(hits')
         /\ pins' \subseteq given.pins /\ slots' \subseteq given.slots
         /\ Range(hits') = (Range(ranking) \ given.suppressed) \cup sponsored'
         /\ phase' = "pin" => sponsored' = {}
<1> DEFINE Goals == /\ hits' \in Seq(Products) /\ Distinct(hits')
                    /\ pins' \subseteq given.pins /\ slots' \subseteq given.slots
                    /\ Range(hits') = (Range(ranking) \ given.suppressed) \cup sponsored'
                    /\ phase' = "pin" => sponsored' = {}
<1>1. phase \in Ranked /\ phase' \in Editing /\ UNCHANGED <<rows, ranking, given>>
  BY OverrideIs DEF Ranked, Editing
<1>2. hits \in Seq(Products) /\ Distinct(hits)
  BY <1>1 DEF ListInv
<1>3. phase \in Editing =>
        /\ pins \subseteq given.pins /\ slots \subseteq given.slots
        /\ Range(hits) = (Range(ranking) \ given.suppressed) \cup sponsored
  BY DEF ListInv
<1>4. ASSUME Suppress PROVE Goals
  <2>1. phase = "suppress"
    BY <1>4 DEF Suppress
  <2>2. hits = ranking /\ sponsored = {} /\ sponsored' = {}
    BY <1>4, <2>1 DEF ListInv, Suppress
  <2>3. PICK at \in Ascending({i \in DOMAIN hits : hits[i] \notin given.suppressed}) :
          hits' = [k \in DOMAIN at |-> hits[at[k]]]
    BY <1>4 DEF Suppress
  <2>8. at \in Ascending(Staying(hits, given.suppressed))
    BY DEF Staying
  <2> DEFINE t == Retained(hits, at)
  <2>4. t \in Seq(Products) /\ Distinct(t) /\ Range(t) = Range(hits) \ given.suppressed
    BY <1>2, <2>8, RetainIs
  <2> HIDE DEF t
  <2>6. hits' = t
    BY <2>3 DEF t, Retained
  <2>5. pins' = given.pins /\ slots' = given.slots
    BY <1>4 DEF Suppress
  <2>7. given.suppressed = given.suppressed' /\ Range(hits) = Range(ranking)
    BY <1>1, <2>2
  <2>9. QED
    BY <2>2, <2>4, <2>5, <2>6, <2>7
<1>5. ASSUME NEW x \in Targets, ApplyPin(x)
      PROVE  Goals
  <2>1. phase = "pin" /\ phase' = "pin" /\ sponsored' = sponsored /\ slots' = slots
    BY <1>5 DEF ApplyPin
  <2>2. pins' \subseteq pins /\ sponsored = {} /\ phase \in Editing
    BY <1>5, <2>1 DEF ApplyPin, ListInv, Editing
  <2>3. /\ hits' \in Seq(Products) /\ Distinct(hits') /\ Range(hits') = Range(hits)
    <3>1. CASE Contains(hits, x.product)
      <4>1. Place(x) /\ x.product \in Range(hits)
        BY <1>2, <1>5, <3>1, ContainsIs DEF ApplyPin
      <4>2. QED
        BY <1>2, <4>1, PlaceIs
    <3>2. CASE ~ Contains(hits, x.product)
      BY <1>2, <1>5, <3>2 DEF ApplyPin
    <3>3. QED
      BY <3>1, <3>2
  <2>4. QED
    BY <1>3, <2>1, <2>2, <2>3
<1>6. ASSUME PinsDone PROVE Goals
  <2>1. phase \in Editing /\ phase' # "pin"
    BY <1>6 DEF PinsDone, Editing
  <2>2. UNCHANGED <<hits, pins, slots, sponsored>>
    BY <1>6 DEF PinsDone
  <2>3. Range(hits') = Range(hits) /\ Distinct(hits')
    BY <1>2, <2>2
  <2>4. QED
    BY <1>2, <1>3, <2>1, <2>2, <2>3
<1>7. ASSUME NEW x \in Targets, ApplySlot(x)
      PROVE  Goals
  <2>1. phase = "sponsor" /\ phase' = "sponsor" /\ pins' = pins /\ slots' \subseteq slots
    BY <1>7 DEF ApplySlot
  <2>2. phase \in Editing /\ phase' # "pin"
    BY <2>1 DEF Editing
  <2>3. CASE x.product \in rows
    <3>1. Place(x) /\ sponsored' = sponsored \cup {x.product}
      BY <1>7, <2>3 DEF ApplySlot
    <3>2. hits' \in Seq(Products) /\ Distinct(hits') /\ Range(hits') = Range(hits) \cup {x.product}
      BY <1>2, <3>1, PlaceIs
    <3>3. QED
      BY <1>3, <2>1, <2>2, <3>1, <3>2
  <2>4. CASE x.product \notin rows
    <3>1. UNCHANGED <<hits, sponsored>>
      BY <1>7, <2>4 DEF ApplySlot
    <3>2. QED
      BY <1>2, <1>3, <2>1, <2>2, <3>1
  <2>5. QED
    BY <2>3, <2>4
<1>8. ASSUME Done PROVE Goals
  <2>1. phase \in Editing /\ phase' # "pin"
    BY <1>8 DEF Done, Editing
  <2>2. UNCHANGED <<hits, pins, slots, sponsored>>
    BY <1>8 DEF Done
  <2>3. Range(hits') = Range(hits) /\ Distinct(hits')
    BY <1>2, <2>2
  <2>4. QED
    BY <1>2, <1>3, <2>1, <2>2, <2>3
<1>9. Goals
  BY <1>4, <1>5, <1>6, <1>7, <1>8 DEF Override
<1>10. QED
  BY <1>1, <1>9

\* What the other steps leave alone; they go to phases where no list is edited.
LEMMA OthersKeepList ==
  ASSUME [Next]_vars, ~ Override, ~ Rank
  PROVE  \/ phase' \notin Ranked /\ (phase' \in Finding \cup {"parse"} =>
                /\ phase \in Finding \cup {"parse", "lookup"}
                /\ sponsored' = sponsored \/ sponsored' = {}
                /\ phase = "lookup" => sponsored' = {})
         \/ UNCHANGED <<overrideVars, work>>
<1> USE DEF Ranked, Editing, Finding
<1>1. CASE Lookup
  BY <1>1 DEF Lookup
<1>2. CASE Parse
  BY <1>2, ParseIs DEF edits
<1>3. CASE Retrieve
  BY <1>3 DEF Retrieve, VectorSearch, FirstTextSearch, Reformulate, Expand, SecondTextSearch,
              GetClicks, edits
<1>4. CASE ScoreCandidate
  BY <1>4 DEF ScoreCandidate, edits
<1>5. CASE Respond \/ EndList \/ Fail
  BY <1>5 DEF Respond, EndList, Fail
<1>6. CASE BeginList \/ TakeFromList
  BY <1>6 DEF BeginList, TakeFromList
<1>7. CASE NextCall
  BY <1>7 DEF NextCall
<1>8. CASE ComeOrGo \/ UNCHANGED vars
  BY <1>8 DEF ComeOrGo, vars
<1>9. QED
  BY <1>1, <1>2, <1>3, <1>4, <1>5, <1>6, <1>7, <1>8
     DEF Next, Retrieve, Finished, ApplyOverrides

LEMMA ListStep ==
  ASSUME BaseInv, ListInv, [Next]_vars
  PROVE  ListInv'
<1>1. CASE Rank
  <2>1. /\ ranking' \in Seq(Products) /\ Distinct(ranking')
        /\ Range(ranking') = DOMAIN work.score /\ hits' = ranking'
    BY <1>1, RankIs
  <2>2. phase = "score" /\ phase' = "suppress" /\ UNCHANGED <<work, sponsored>>
    BY <1>1 DEF Rank
  <2>3. sponsored' = {} /\ phase' \notin Editing /\ phase' \notin Finding
    BY <2>2 DEF ListInv, Finding, Editing
  <2>4. QED
    BY <2>1, <2>2, <2>3 DEF ListInv
<1>2. CASE Override
  <2>1. /\ phase \in Ranked /\ phase' \in Editing /\ UNCHANGED <<rows, ranking, given>>
        /\ hits' \in Seq(Products) /\ Distinct(hits')
        /\ pins' \subseteq given.pins /\ slots' \subseteq given.slots
        /\ Range(hits') = (Range(ranking) \ given.suppressed) \cup sponsored'
        /\ phase' = "pin" => sponsored' = {}
    BY <1>2, EditKeepsList
  <2>2. phase' # "suppress" /\ phase' \notin Finding \cup {"parse", "suppress"}
    BY <2>1 DEF Editing, Finding
  <2>3. work' = work
    <3>1. phase \notin Finding \cup {"lookup", "parse", "list", "next"} \/ UNCHANGED work
      BY <2>1 DEF Ranked, Editing, Finding
    <3>2. CASE ApplyOverrides \/ UNCHANGED vars \/ ComeOrGo \/ Respond
      BY <3>2 DEF ApplyOverrides, vars, ComeOrGo, Respond
    <3>3. CASE ~ (ApplyOverrides \/ UNCHANGED vars \/ ComeOrGo \/ Respond)
      BY <3>1, <3>3 DEF Next, Lookup, Parse, VectorSearch, FirstTextSearch, Reformulate, Expand,
        SecondTextSearch, GetClicks, ScoreCandidate, Rank, BeginList, TakeFromList, EndList,
        Fail, NextCall, Finished, Finding
    <3>4. QED
      BY <3>2, <3>3
  <2>4. QED
    BY <2>1, <2>2, <2>3 DEF ListInv, Ranked
<1>3. CASE ~ Rank /\ ~ Override
  <2>1. CASE UNCHANGED <<overrideVars, work>>
    BY <2>1 DEF overrideVars, ListInv
  <2>2. CASE ~ UNCHANGED <<overrideVars, work>>
    <3>1. /\ phase' \notin Ranked
          /\ phase' \in Finding \cup {"parse"} => sponsored' = {}
      BY <1>3, <2>2, OthersKeepList DEF ListInv
    <3>2. phase' # "suppress" /\ phase' # "pin" /\ phase' \notin Editing
      BY <3>1 DEF Ranked, Editing
    <3>3. QED
      BY <3>1, <3>2 DEF ListInv
  <2>3. QED
    BY <2>1, <2>2
<1>4. QED
  BY <1>1, <1>2, <1>3

LEMMA ListInit ==
  ASSUME Init
  PROVE  ListInv
<1>1. phase = "lookup" /\ sponsored = {}
  BY DEF Init
<1>2. QED
  BY <1>1 DEF ListInv, Ranked, Editing, Finding

LEMMA ListsAreInOrder == Spec => [](BaseInv /\ ListInv)
<1>1. Init => BaseInv /\ ListInv
  BY BaseInit, ListInit
<1>2. (BaseInv /\ ListInv) /\ [Next]_vars => (BaseInv /\ ListInv)'
  BY BaseStep, ListStep
<1>3. QED
  BY <1>1, <1>2, PTL DEF Spec

\* Whatever the tables hold for a query, and whatever comes and goes meanwhile,
\* apply_overrides() leaves each ranked product that is not suppressed, and each
\* sponsored one, in the list once.
THEOREM ListHasEachOnce == Spec => []EachProductOnce
<1>1. BaseInv /\ ListInv => EachProductOnce
  BY DEF ListInv, EachProductOnce, Ranked, Editing, Distinct
<1>2. QED
  BY <1>1, ListsAreInOrder, PTL

-----------------------------------------------------------------------------
(* OrganicOrder                                                            *)

\* The pairs of s stand in t in the same order, unless X names one of the two.
InOrder(s, t, X) ==
  \A i, j \in DOMAIN s :
    i < j /\ {s[i], s[j]} \cap X = {} =>
      \E k, m \in DOMAIN t : k < m /\ t[k] = s[i] /\ t[m] = s[j]

LEMMA MoveKeepsInOrder ==
  ASSUME NEW S, NEW s \in Seq(S), NEW p \in S, NEW n \in Nat \ {0}, NEW t, NEW X, p \in X,
         InOrder(s, t, X)
  PROVE  InOrder(MoveTo(s, p, n), t, X)
<1> DEFINE u == MoveTo(s, p, n)
<1> SUFFICES ASSUME NEW i \in DOMAIN u, NEW j \in DOMAIN u, i < j, {u[i], u[j]} \cap X = {}
             PROVE  \E k, m \in DOMAIN t : k < m /\ t[k] = u[i] /\ t[m] = u[j]
  BY DEF InOrder
<1>1. u[i] # p /\ u[j] # p
  OBVIOUS
<1>2. PICK k, m \in DOMAIN s : k < m /\ s[k] = u[i] /\ s[m] = u[j]
  BY <1>1, MoveKeepsOrder
<1>3. QED
  BY <1>2 DEF InOrder

LEMMA PlaceKeepsInOrder ==
  ASSUME NEW x \in Targets, hits \in Seq(Products), Place(x), NEW t, NEW X, x.product \in X,
         InOrder(hits, t, X)
  PROVE  InOrder(hits', t, X)
<1>1. x.product \in Products /\ x.position \in Nat \ {0}
  BY TargetsAre
<1>2. hits' = MoveTo(hits, x.product, x.position)
  BY DEF Place
<1>3. QED
  BY <1>1, <1>2, MoveKeepsInOrder

LEMMA EditKeepsOrder ==
  ASSUME BaseInv, ListInv, OrganicOrder, Override
  PROVE  OrganicOrder'
<1> DEFINE X == Overridden
<1>1. phase \in Ranked /\ phase' \in Editing /\ UNCHANGED <<ranking, given>>
  BY OverrideIs DEF Ranked, Editing
<1>2. hits \in Seq(Products) /\ Distinct(hits) /\ Overridden' = X
  BY <1>1 DEF ListInv, Overridden
<1>3. phase \in Editing => InOrder(hits, ranking, X)
  BY DEF OrganicOrder, InOrder, Editing
<1>4. ASSUME Suppress PROVE InOrder(hits', ranking, X)
  <2>1. hits = ranking
    BY <1>4 DEF Suppress, ListInv
  <2>2. PICK at \in Ascending({i \in DOMAIN hits : hits[i] \notin given.suppressed}) :
          hits' = [k \in DOMAIN at |-> hits[at[k]]]
    BY <1>4 DEF Suppress
  <2>3. at \in Ascending(Staying(hits, given.suppressed))
    BY DEF Staying
  <2> DEFINE t == Retained(hits, at)
  <2>4. \A i, j \in DOMAIN t : i < j =>
          \E k, m \in DOMAIN hits : k < m /\ hits[k] = t[i] /\ hits[m] = t[j]
    BY <1>2, <2>3, RetainIs
  <2> HIDE DEF t
  <2>5. hits' = t
    BY <2>2 DEF t, Retained
  <2>6. QED
    BY <2>1, <2>4, <2>5 DEF InOrder
<1>5. ASSUME NEW x \in Targets, ApplyPin(x) PROVE InOrder(hits', ranking, X)
  <2>1. x \in given.pins /\ phase \in Editing
    BY <1>5 DEF ApplyPin, NextOf, FirstBy, ListInv, Editing
  <2>2. x.product \in X
    BY <2>1 DEF Overridden
  <2>3. CASE Place(x)
    BY <1>2, <1>3, <2>1, <2>2, <2>3, PlaceKeepsInOrder
  <2>4. CASE hits' = hits
    BY <1>3, <2>1, <2>4
  <2>5. QED
    BY <1>5, <2>3, <2>4 DEF ApplyPin
<1>6. ASSUME NEW x \in Targets, ApplySlot(x) PROVE InOrder(hits', ranking, X)
  <2>1. x \in given.slots /\ phase \in Editing
    BY <1>6 DEF ApplySlot, NextOf, FirstBy, ListInv, Editing
  <2>2. x.product \in X
    BY <2>1 DEF Overridden
  <2>3. CASE Place(x)
    BY <1>2, <1>3, <2>1, <2>2, <2>3, PlaceKeepsInOrder
  <2>4. CASE hits' = hits
    BY <1>3, <2>1, <2>4
  <2>5. QED
    BY <1>6, <2>3, <2>4 DEF ApplySlot
<1>7. ASSUME PinsDone \/ Done PROVE InOrder(hits', ranking, X)
  <2>1. phase \in Editing /\ hits' = hits
    BY <1>7 DEF PinsDone, Done, Editing
  <2>2. QED
    BY <1>3, <2>1
<1>8. InOrder(hits', ranking, X)
  BY <1>4, <1>5, <1>6, <1>7 DEF Override
<1> HIDE DEF X
<1>9. QED
  BY <1>1, <1>2, <1>8 DEF OrganicOrder, InOrder

LEMMA OrderStep ==
  ASSUME BaseInv, ListInv, OrganicOrder, [Next]_vars
  PROVE  OrganicOrder'
<1>1. CASE Override
  BY <1>1, EditKeepsOrder
<1>2. CASE Rank
  BY <1>2 DEF Rank, OrganicOrder
<1>3. CASE ~ Rank /\ ~ Override
  <2>1. CASE UNCHANGED <<overrideVars, work>>
    BY <2>1 DEF overrideVars, OrganicOrder, Overridden
  <2>2. CASE phase' \notin Ranked
    BY <2>2 DEF Ranked, Editing, OrganicOrder
  <2>3. QED
    BY <1>3, <2>1, <2>2, OthersKeepList
<1>4. QED
  BY <1>1, <1>2, <1>3

\* The products that no pin or slot names stay in the order of the ranking.
THEOREM OthersKeepTheirOrder == Spec => []OrganicOrder
<1>1. Init => OrganicOrder
  BY DEF Init, OrganicOrder
<1>2. BaseInv /\ ListInv /\ OrganicOrder /\ [Next]_vars => OrganicOrder'
  BY OrderStep
<1>3. QED
  BY <1>1, <1>2, ListsAreInOrder, PTL DEF Spec

-----------------------------------------------------------------------------
(* PromotionsLand                                                          *)

\* While nothing has moved down, what is placed stands above all that is still to
\* be applied.
Landing(S) == NoClash(S) /\ Before(placed, S) /\ Landed(hits, placed)

LandInv ==
  /\ phase = "pin" /\ upward => Landing(pins)
  /\ phase = "sponsor" /\ upward => Landing(slots)
  /\ phase = "respond" /\ upward => Landed(hits, placed)

LEMMA PlaceLands ==
  ASSUME NEW S \in SUBSET Targets, NEW x \in NextOf(S), hits \in Seq(Products), Landing(S),
         Place(x), upward'
  PROVE  NoClash(S \ {x}) /\ Before(placed', S \ {x}) /\ Landed(hits', placed')
<1> DEFINE n == x.position
           p == x.product
           to == Target(RemoveFirst(hits, p), n)
           P == placed \cup {<<p, to>>}
<1>1. x \in S /\ x \in Targets
  BY DEF NextOf, FirstBy
<1>2. p \in Products /\ n \in Nat \ {0}
  BY <1>1, TargetsAre
<1>3. RemoveFirst(hits, p) \in Seq(Products)
  BY RemoveIs
<1>4. to \in Nat /\ to <= n
  BY <1>2, <1>3, TargetIs
<1>5. hits' = MoveTo(hits, p, n) /\ placed' = P /\ Rises(hits, p, n)
  BY DEF Place
<1>6. NoClash(S) /\ Before(placed, S) /\ Landed(hits, placed)
  BY DEF Landing
<1>7. \A y \in placed : y[2] < n /\ y[1] # p
  BY <1>1, <1>6 DEF Before
<1>8. Landed(MoveTo(hits, p, n), P)
  BY <1>2, <1>5, <1>6, <1>7, MoveLands
<1>9. NoClash(S \ {x}) /\ Before(P, S \ {x})
  <2> HIDE DEF to
  <2>1. QED
    BY <1>4, <1>6, TheRestIsBelow
<1>10. QED
  BY <1>5, <1>8, <1>9

LEMMA GivenAre ==
  ASSUME BaseInv, phase \in Ranked
  PROVE  given.pins \subseteq Targets /\ given.slots \subseteq Targets
  BY CaseIs DEF BaseInv

LEMMA EditLands ==
  ASSUME BaseInv, ListInv, LandInv, Override
  PROVE  LandInv'
<1>1. phase \in Ranked /\ phase' \in Editing
  BY OverrideIs DEF Ranked, Editing
<1>2. hits \in Seq(Products) /\ given.pins \subseteq Targets /\ given.slots \subseteq Targets
  BY <1>1, GivenAre DEF ListInv
<1>3. CASE Suppress
  <2>1. phase' = "pin" /\ placed' = {} /\ pins' = given.pins
    BY <1>3 DEF Suppress
  <2>2. upward' => NoClash(pins')
    BY <1>3 DEF Suppress
  <2>3. Before(placed', pins') /\ Landed(hits', placed')
    BY <2>1 DEF Before, Landed
  <2>4. QED
    BY <2>1, <2>2, <2>3 DEF LandInv, Landing
<1>4. ASSUME NEW x \in Targets, ApplyPin(x) PROVE LandInv'
  <2>1. phase = "pin" /\ phase' = "pin" /\ x \in NextOf(pins) /\ pins' = pins \ {x}
    BY <1>4 DEF ApplyPin
  <2>2. pins \in SUBSET Targets
    BY <1>2, <2>1 DEF ListInv, Editing
  <2>3. CASE Place(x)
    <3>1. upward' => upward
      BY <2>3 DEF Place
    <3>2. upward' => Landing(pins)
      BY <2>1, <3>1 DEF LandInv
    <3>3. upward' => NoClash(pins') /\ Before(placed', pins') /\ Landed(hits', placed')
      BY <1>2, <2>1, <2>2, <2>3, <3>2, PlaceLands
    <3>4. QED
      BY <2>1, <3>3 DEF LandInv, Landing
  <2>4. CASE UNCHANGED <<hits, placed, upward>>
    <3>1. upward' => NoClash(pins') /\ Before(placed', pins') /\ Landed(hits', placed')
      BY <2>1, <2>4 DEF LandInv, Landing, NoClash, Before
    <3>2. QED
      BY <2>1, <3>1 DEF LandInv, Landing
  <2>5. QED
    BY <1>4, <2>3, <2>4 DEF ApplyPin
<1>5. CASE PinsDone
  <2>1. phase' = "sponsor" /\ placed' = {} /\ slots' = slots /\ upward' = NoClash(slots)
    BY <1>5 DEF PinsDone
  <2>2. Before(placed', slots') /\ Landed(hits', placed')
    BY <2>1 DEF Before, Landed
  <2>3. upward' => NoClash(slots')
    BY <2>1
  <2>4. QED
    BY <2>1, <2>2, <2>3 DEF LandInv, Landing
<1>6. ASSUME NEW x \in Targets, ApplySlot(x) PROVE LandInv'
  <2>1. phase = "sponsor" /\ phase' = "sponsor" /\ x \in NextOf(slots) /\ slots' = slots \ {x}
    BY <1>6 DEF ApplySlot
  <2>2. slots \in SUBSET Targets
    BY <1>2, <2>1 DEF ListInv, Editing
  <2>3. CASE Place(x)
    <3>1. upward' => upward
      BY <2>3 DEF Place
    <3>2. upward' => Landing(slots)
      BY <2>1, <3>1 DEF LandInv
    <3>3. upward' => NoClash(slots') /\ Before(placed', slots') /\ Landed(hits', placed')
      BY <1>2, <2>1, <2>2, <2>3, <3>2, PlaceLands
    <3>4. QED
      BY <2>1, <3>3 DEF LandInv, Landing
  <2>4. CASE UNCHANGED <<hits, placed, upward>>
    <3>1. upward' => NoClash(slots') /\ Before(placed', slots') /\ Landed(hits', placed')
      BY <2>1, <2>4 DEF LandInv, Landing, NoClash, Before
    <3>2. QED
      BY <2>1, <3>1 DEF LandInv, Landing
  <2>5. QED
    BY <1>6, <2>3, <2>4 DEF ApplySlot
<1>7. CASE Done
  <2>1. phase = "sponsor" /\ phase' = "respond" /\ UNCHANGED <<hits, placed, upward>>
    BY <1>7 DEF Done
  <2>2. QED
    BY <2>1 DEF LandInv, Landing
<1>8. QED
  BY <1>3, <1>4, <1>5, <1>6, <1>7 DEF Override

LEMMA LandStep ==
  ASSUME BaseInv, ListInv, LandInv, [Next]_vars
  PROVE  LandInv'
<1>1. CASE Override
  BY <1>1, EditLands
<1>2. CASE Rank
  <2>1. phase' = "suppress"
    BY <1>2 DEF Rank
  <2>2. QED
    BY <2>1 DEF LandInv
<1>3. CASE ~ Rank /\ ~ Override
  <2>1. CASE UNCHANGED <<overrideVars, work>>
    BY <2>1 DEF overrideVars, LandInv, Landing
  <2>2. CASE phase' \notin Ranked
    BY <2>2 DEF Ranked, Editing, LandInv
  <2>3. QED
    BY <1>3, <2>1, <2>2, OthersKeepList
<1>4. QED
  BY <1>1, <1>2, <1>3

\* As long as positions differ and no product is moved down, each pin and slot
\* that has been applied is where it was put.
THEOREM PlacedProductsStay == Spec => []PromotionsLand
<1>1. Init => LandInv
  BY DEF Init, LandInv
<1>2. BaseInv /\ ListInv /\ LandInv /\ [Next]_vars => LandInv'
  BY LandStep
<1>3. LandInv => PromotionsLand
  BY DEF LandInv, Landing, Landed, PromotionsLand
<1>4. QED
  BY <1>1, <1>2, <1>3, ListsAreInOrder, PTL DEF Spec

-----------------------------------------------------------------------------
(* FiltersHold                                                             *)

Asked(r) == IF r.kind # "search" THEN r.filters ELSE Over(r.filters, parse(r.q).filters)

Passes(p, filters) == MatchesFilters(Doc(p).meta, filters)
Passed(a) == \A p \in Range(a.page) \ a.ads : Passes(p, Asked(a.req))

\* f asks for all that g asks for.
Covers(f, g) == \A x \in DOMAIN g : x \in DOMAIN f /\ f[x] = g[x]

\* What is in the cache passes under the request it is the answer to.
CachedWell(e) == /\ e[1] = CacheKey(e[2].req) /\ e[2].req.kind = "search" /\ Passed(e[2])
                 /\ {"req", "page", "ads", "cached"} \subseteq DOMAIN e[2]

AnswersPass == /\ answers \in Seq(Range(answers))
               /\ \A i \in DOMAIN answers : Passed(answers[i])
               /\ \A e \in cache : CachedWell(e)

WorkPasses ==
  /\ \A p \in DOMAIN work.score : Passes(p, work.filters)
  /\ phase \in Finding \cup Ranked \cup {"parse"} => Req.kind = "search"
  /\ phase \in Finding \cup Ranked => Covers(work.filters, Asked(Req))
  /\ phase = "list" => /\ Req.kind # "search" /\ work.filters = Req.filters
                       /\ hits \in Seq(Products) /\ \A p \in Range(hits) : Passes(p, work.filters)

LEMMA MatchesLess ==
  ASSUME NEW m, NEW f, NEW g, Covers(f, g), MatchesFilters(m, f)
  PROVE  MatchesFilters(m, g)
<1> SUFFICES ASSUME NEW x \in DOMAIN g
             PROVE  CASE x = "price_max" -> "price" \in DOMAIN m /\ m.price <= g[x]
                      [] x = "price_min" -> Get(m, "price", 0) >= g[x]
                      [] OTHER           -> x \in DOMAIN m /\ m[x] = g[x]
  BY DEF MatchesFilters
<1>1. x \in DOMAIN f /\ f[x] = g[x]
  BY DEF Covers
<1>2. QED
  BY <1>1 DEF MatchesFilters

LEMMA MergedCovers ==
  ASSUME NEW u, NEW p, NEW l
  PROVE  Covers(Merged(u, p, l), Over(u, p))
  BY DEF Covers, Merged, Over

LEMMA AppendIs ==
  ASSUME NEW s, s \in Seq(Range(s)), NEW a
  PROVE  /\ Append(s, a) \in Seq(Range(Append(s, a)))
         /\ \A i \in DOMAIN Append(s, a) :
              Append(s, a)[i] = a \/ (i \in DOMAIN s /\ Append(s, a)[i] = s[i])
<1> DEFINE T == Range(s) \cup {a}
           t == Append(s, a)
<1>1. s \in Seq(T)
  OBVIOUS
<1>2. t \in Seq(T) /\ Len(t) = Len(s) + 1 /\ Len(s) \in Nat
  BY <1>1
<1>3. DOMAIN t = 1..Len(s) + 1 /\ DOMAIN s = 1..Len(s)
  BY <1>1, <1>2
<1>4. \A i \in 1..Len(s) + 1 : t[i] = IF i <= Len(s) THEN s[i] ELSE a
  BY <1>1
<1> HIDE DEF T, t
<1>5. t \in Seq(Range(t))
  <2>1. \A i \in 1..Len(t) : t[i] \in Range(t)
    BY <1>2, <1>3 DEF Range
  <2>2. QED
    BY <1>2, <2>1
<1>6. \A i \in DOMAIN t : t[i] = a \/ (i \in DOMAIN s /\ t[i] = s[i])
  BY <1>2, <1>3, <1>4
<1>7. QED
  BY <1>5, <1>6 DEF t

\* The steps that answer, and the others.
LEMMA AnswersStay ==
  ASSUME AnswersPass, UNCHANGED <<answers, cache, case>>
  PROVE  AnswersPass'
  BY DEF AnswersPass, Passed, Passes, CachedWell, Doc

LEMMA AnswersGrow ==
  ASSUME AnswersPass, case' = case, NEW a, answers' = Append(answers, a), Passed(a),
         \A e \in cache' : e \in cache \/ CachedWell(e)
  PROVE  AnswersPass'
<1>1. \A b : Passed(b)' <=> Passed(b)
  BY DEF Passed, Passes, Doc
<1>2. \A e : CachedWell(e)' <=> CachedWell(e)
  BY <1>1 DEF CachedWell
<1>3. answers' \in Seq(Range(answers'))
  BY AppendIs DEF AnswersPass
<1>4. \A i \in DOMAIN answers' : answers'[i] = a \/ (i \in DOMAIN answers /\ answers'[i] = answers[i])
  BY AppendIs DEF AnswersPass
<1>5. \A i \in DOMAIN answers' : Passed(answers'[i])
  BY <1>4 DEF AnswersPass
<1>6. \A e \in cache' : CachedWell(e)
  BY DEF AnswersPass
<1>7. QED
  BY <1>1, <1>2, <1>3, <1>5, <1>6 DEF AnswersPass

\* A page has nothing that the list has not.
LEMMA PageIs ==
  ASSUME BaseInv, hits \in Seq(Products)
  PROVE  Range(Page(hits, Req)) \subseteq Range(hits)
<1> DEFINE m == Offset(Req) + 1
           n == Min({Offset(Req) + Limit(Req), Len(hits)})
           t == SubSeq(hits, m, n)
<1>1. Offset(Req) \in Nat /\ Limit(Req) \in Nat
  <2>1. Req.limit \in Nat /\ Req.offset \in Nat /\ MaxLimit \in Nat /\ MaxOffset \in Nat
    BY CaseIs, SearchAssumption DEF BaseInv
  <2>2. QED
    BY <2>1, LesserOf DEF Offset, Limit
<1>2. Offset(Req) + Limit(Req) \in Nat /\ Len(hits) \in Nat /\ m \in Nat \ {0}
  BY <1>1
<1>3. n \in Nat /\ n <= Len(hits)
  BY <1>2, LesserOf
<1> HIDE DEF m, n
<1>4. /\ t \in Seq(Products) /\ Len(t) = IF m <= n THEN n - m + 1 ELSE 0
      /\ \A k \in 1..Len(t) : t[k] = hits[m + k - 1]
  BY <1>2, <1>3, PartIs
<1> HIDE DEF t
<1>5. \A k \in 1..Len(t) : m + k - 1 \in 1..Len(hits)
  BY <1>2, <1>3, <1>4
<1>6. \A k \in 1..Len(t) : t[k] \in Range(hits)
  <2>1. \A i \in 1..Len(hits) : hits[i] \in Range(hits)
    BY DEF Range
  <2>2. QED
    BY <1>4, <1>5, <2>1
<1>7. Range(t) \subseteq Range(hits)
  BY <1>4, <1>6 DEF Range
<1>8. QED
  BY <1>7 DEF t, m, n, Page

LEMMA CachedAnswer ==
  ASSUME AnswersPass, Lookup
  PROVE  AnswersPass'
<1>1. UNCHANGED <<cache, case>> /\ Req.kind = "search"
  BY DEF Lookup
<1>2. CASE UNCHANGED answers
  BY <1>1, <1>2, AnswersStay
<1>3. CASE ~ UNCHANGED answers
  <2>1. PICK e \in cache : /\ e[1] = CacheKey(Req)
                           /\ answers' = Append(answers, [e[2] EXCEPT !.req = Req, !.cached = TRUE])
    BY <1>3 DEF Lookup
  <2> DEFINE a == e[2]
             b == [a EXCEPT !.req = Req, !.cached = TRUE]
  <2>2. /\ e[1] = CacheKey(a.req) /\ a.req.kind = "search" /\ Passed(a)
        /\ {"req", "page", "ads", "cached"} \subseteq DOMAIN a
    BY DEF AnswersPass, CachedWell
  <2>3. b.req = Req /\ b.page = a.page /\ b.ads = a.ads
    BY <2>2
  <2>4. CacheKey(a.req) = CacheKey(Req)
    BY <2>1, <2>2
  <2>5. a.req.q = Req.q /\ a.req.filters = Req.filters
    BY <2>4 DEF CacheKey
  <2>6. Asked(a.req) = Asked(Req)
    BY <1>1, <2>2, <2>5 DEF Asked
  <2> HIDE DEF b
  <2>7. Passed(b)
    BY <2>2, <2>3, <2>6 DEF Passed
  <2>8. answers' = Append(answers, b)
    BY <2>1 DEF b
  <2>9. QED
    BY <1>1, <2>7, <2>8, AnswersGrow
<1>4. QED
  BY <1>2, <1>3

LEMMA AnswerIs ==
  ASSUME NEW s, NEW n
  PROVE  /\ Answer(s, n).req = Req /\ Answer(s, n).page = s /\ Answer(s, n).ads = sponsored
         /\ {"req", "page", "ads", "cached"} \subseteq DOMAIN Answer(s, n)
  BY DEF Answer

LEMMA PageAnswer ==
  ASSUME BaseInv, ListInv, AnswersPass, WorkPasses, Respond
  PROVE  AnswersPass'
<1> DEFINE a == Answer(Page(hits, Req), Len(hits))
<1>1. phase = "respond" /\ case' = case /\ answers' = Append(answers, a)
  BY DEF Respond
<1>2. /\ hits \in Seq(Products) /\ Range(ranking) = DOMAIN work.score
      /\ Range(hits) = (Range(ranking) \ given.suppressed) \cup sponsored
  BY <1>1 DEF ListInv, Ranked, Editing
<1>3. Range(Page(hits, Req)) \ sponsored \subseteq DOMAIN work.score
  BY <1>2, PageIs
<1>4. Req.kind = "search" /\ Covers(work.filters, Asked(Req))
  BY <1>1 DEF WorkPasses, Ranked, Editing
<1>5. \A p \in Range(Page(hits, Req)) \ sponsored : Passes(p, Asked(Req))
  BY <1>3, <1>4, MatchesLess DEF WorkPasses, Passes
<1>6. /\ a.req = Req /\ a.page = Page(hits, Req) /\ a.ads = sponsored
      /\ {"req", "page", "ads", "cached"} \subseteq DOMAIN a
  BY AnswerIs
<1>7. \A e \in cache' : e \in cache \/ e = <<CacheKey(Req), a>>
  BY DEF Respond
<1> HIDE DEF a
<1>8. Passed(a)
  BY <1>5, <1>6 DEF Passed
<1>9. CachedWell(<<CacheKey(Req), a>>)
  BY <1>4, <1>6, <1>8 DEF CachedWell
<1>10. QED
  BY <1>1, <1>7, <1>8, <1>9, AnswersGrow

LEMMA ListAnswer ==
  ASSUME AnswersPass, WorkPasses, EndList
  PROVE  AnswersPass'
<1> DEFINE a == Answer(hits, Len(hits))
<1>1. phase = "list" /\ UNCHANGED <<cache, case>> /\ answers' = Append(answers, a)
  BY DEF EndList
<1>2. Req.kind # "search" /\ \A p \in Range(hits) : Passes(p, Req.filters)
  BY <1>1 DEF WorkPasses
<1>3. a.req = Req /\ a.page = hits
  BY AnswerIs
<1> HIDE DEF a
<1>4. Passed(a)
  BY <1>2, <1>3 DEF Passed, Asked
<1>5. QED
  BY <1>1, <1>4, AnswersGrow

LEMMA AnswersStep ==
  ASSUME BaseInv, ListInv, AnswersPass, WorkPasses, [Next]_vars
  PROVE  AnswersPass'
<1>1. CASE Lookup \/ Respond \/ EndList
  BY <1>1, CachedAnswer, PageAnswer, ListAnswer
<1>2. CASE Retrieve
  BY <1>2, RetrieveIs, AnswersStay DEF BaseInv
<1>3. CASE Parse
  BY <1>3, ParseIs, AnswersStay
<1>4. CASE ScoreCandidate \/ Rank \/ ApplyOverrides
  <2>1. UNCHANGED <<answers, cache, case>>
    BY <1>4 DEF ScoreCandidate, Rank, ApplyOverrides
  <2>2. QED
    BY <2>1, AnswersStay
<1>5. CASE BeginList \/ TakeFromList \/ Fail \/ NextCall \/ ComeOrGo \/ UNCHANGED vars
  <2>1. UNCHANGED <<answers, cache, case>>
    BY <1>5 DEF BeginList, TakeFromList, Fail, NextCall, ComeOrGo, vars
  <2>2. QED
    BY <2>1, AnswersStay
<1>6. QED
  BY <1>1, <1>2, <1>3, <1>4, <1>5 DEF Next, Retrieve, Finished

LEMMA ParsedWork ==
  ASSUME WorkPasses, Parse
  PROVE  WorkPasses'
<1>1. /\ DOMAIN work'.score = {} /\ phase = "parse" /\ phase' \in Finding
      /\ UNCHANGED <<case, call>>
  BY ParseIs
<1>2. PICK f : work'.filters = Merged(Req.filters, parse(Req.q).filters, f)
  BY ParseIs
<1>3. Req' = Req /\ Req.kind = "search"
  BY <1>1 DEF Req, WorkPasses
<1>4. Asked(Req) = Over(Req.filters, parse(Req.q).filters)
  BY <1>3 DEF Asked
<1>5. Covers(work'.filters, Asked(Req))
  BY <1>2, <1>4, MergedCovers
<1>6. phase' # "list"
  BY <1>1 DEF Finding
<1>7. QED
  BY <1>1, <1>3, <1>5, <1>6 DEF WorkPasses

\* A step that keeps the scores and filters, and goes on within the search.
LEMMA SearchGoesOn ==
  ASSUME WorkPasses, work'.score = work.score, work'.filters = work.filters,
         UNCHANGED <<case, call>>, phase \in Finding \cup Ranked, phase' \in Finding \cup Ranked
  PROVE  WorkPasses'
<1>1. Req' = Req /\ \A p, f : Passes(p, f)' <=> Passes(p, f)
  BY DEF Req, Passes, Doc
<1>2. phase' # "list"
  BY DEF Finding, Ranked, Editing
<1>3. QED
  BY <1>1, <1>2 DEF WorkPasses

\* A step to where nothing is asked of the phase.
LEMMA SearchRests ==
  ASSUME WorkPasses, work'.score = work.score, work'.filters = work.filters,
         case' = case, phase' \notin Finding \cup Ranked \cup {"parse", "list"}
  PROVE  WorkPasses'
<1>1. \A p, f : Passes(p, f)' <=> Passes(p, f)
  BY DEF Passes, Doc
<1>2. QED
  BY <1>1 DEF WorkPasses

LEMMA ScoredWork ==
  ASSUME BaseInv, WorkPasses, ScoreCandidate
  PROVE  WorkPasses'
<1>1. /\ work'.filters = work.filters
      /\ \/ work'.score = work.score
         \/ \E p \in rows : /\ DOMAIN work'.score = DOMAIN work.score \cup {p}
                            /\ Passes(p, work.filters)
  BY ScoreIs DEF BaseInv, Passes
<1>2. phase = "score" /\ phase' = "score" /\ UNCHANGED <<case, call>>
  BY DEF ScoreCandidate
<1>3. Req' = Req /\ \A p, f : Passes(p, f)' <=> Passes(p, f)
  BY <1>2 DEF Req, Passes, Doc
<1>4. \A p \in DOMAIN work'.score : Passes(p, work.filters)
  BY <1>1 DEF WorkPasses
<1>5. Req.kind = "search" /\ Covers(work.filters, Asked(Req))
  BY <1>2 DEF WorkPasses, Finding
<1>6. QED
  BY <1>1, <1>2, <1>3, <1>4, <1>5 DEF WorkPasses

LEMMA ListBegun ==
  ASSUME WorkPasses, BeginList
  PROVE  WorkPasses'
<1>1. /\ phase' = "list" /\ Req.kind # "search" /\ UNCHANGED <<case, call>> /\ hits' = <<>>
  BY DEF BeginList
<1>2. work'.filters = Req.filters /\ work'.score = NoWork.score
  BY NoWorkIs DEF BeginList
<1>3. Req' = Req
  BY <1>1 DEF Req
<1>4. hits' \in Seq(Products) /\ Range(hits') = {}
  BY <1>1 DEF Range
<1>5. phase' \notin Finding \cup Ranked \cup {"parse"}
  BY <1>1 DEF Finding, Ranked, Editing
<1>6. QED
  BY <1>1, <1>2, <1>3, <1>4, <1>5, NoWorkIs DEF WorkPasses

LEMMA ListTaken ==
  ASSUME BaseInv, WorkPasses, TakeFromList
  PROVE  WorkPasses'
<1> DEFINE p == Head(work.todo)
<1>1. phase = "list" /\ phase' = "list" /\ UNCHANGED <<case, call>>
  BY DEF TakeFromList
<1>2. work'.filters = work.filters /\ work'.score = work.score
  BY NoWorkIs DEF TakeFromList, BaseInv
<1>3. Req' = Req /\ \A x, f : Passes(x, f)' <=> Passes(x, f)
  BY <1>1 DEF Req, Passes, Doc
<1>4. /\ Req.kind # "search" /\ work.filters = Req.filters
      /\ hits \in Seq(Products) /\ \A x \in Range(hits) : Passes(x, work.filters)
  BY <1>1 DEF WorkPasses
<1>5. \/ hits' = hits
      \/ hits' = Append(hits, p) /\ p \in rows /\ Passes(p, work.filters)
  BY DEF TakeFromList, Passes
<1>6. rows \subseteq Products
  BY DEF BaseInv
<1> HIDE DEF p
<1>7. hits' \in Seq(Products) /\ \A x \in Range(hits') : Passes(x, work.filters)
  <2>1. CASE hits' = hits
    BY <1>4, <2>1
  <2>2. CASE hits' = Append(hits, p) /\ p \in rows /\ Passes(p, work.filters)
    <3>1. hits \in Seq(Range(hits))
      BY <1>4 DEF Range
    <3>2. \A i \in DOMAIN hits' : hits'[i] = p \/ (i \in DOMAIN hits /\ hits'[i] = hits[i])
      BY <2>2, <3>1, AppendIs
    <3>3. hits' \in Seq(Products)
      BY <1>4, <1>6, <2>2
    <3>4. QED
      BY <1>4, <2>2, <3>2, <3>3 DEF Range
  <2>3. QED
    BY <1>5, <2>1, <2>2
<1>8. phase' \notin Finding \cup Ranked \cup {"parse"}
  BY <1>1 DEF Finding, Ranked, Editing
<1>9. QED
  BY <1>1, <1>2, <1>3, <1>4, <1>7, <1>8 DEF WorkPasses

LEMMA WorkStep ==
  ASSUME BaseInv, WorkPasses, [Next]_vars
  PROVE  WorkPasses'
<1>1. CASE Lookup
  <2>1. /\ phase' \in {"parse", "next"} /\ Req.kind = "search"
        /\ UNCHANGED <<work, case, call>>
    BY <1>1 DEF Lookup
  <2>2. Req' = Req /\ \A p, f : Passes(p, f)' <=> Passes(p, f)
    BY <2>1 DEF Req, Passes, Doc
  <2>3. phase' \notin Finding \cup Ranked /\ phase' # "list"
    BY <2>1 DEF Finding, Ranked, Editing
  <2>4. QED
    BY <2>1, <2>2, <2>3 DEF WorkPasses
<1>2. CASE Parse \/ ScoreCandidate \/ BeginList \/ TakeFromList
  BY <1>2, ParsedWork, ScoredWork, ListBegun, ListTaken
<1>3. CASE Retrieve
  BY <1>3, RetrieveIs, SearchGoesOn DEF BaseInv
<1>4. CASE Rank
  <2>1. /\ phase \in Finding /\ phase' \in Ranked /\ UNCHANGED <<work, case, call>>
    BY <1>4 DEF Rank, Finding, Ranked
  <2>2. QED
    BY <2>1, SearchGoesOn
<1>5. CASE ApplyOverrides
  <2>1. phase \in Ranked /\ phase' \in Ranked /\ UNCHANGED <<work, case, call>>
    BY <1>5, OverrideIs DEF ApplyOverrides, Ranked, Editing
  <2>2. QED
    BY <2>1, SearchGoesOn
<1>6. CASE Respond \/ EndList \/ Fail \/ NextCall
  <2>1. phase' \in {"next", "lookup"} /\ UNCHANGED <<work, case>>
    BY <1>6 DEF Respond, EndList, Fail, NextCall
  <2>2. phase' \notin Finding \cup Ranked \cup {"parse", "list"}
    BY <2>1 DEF Finding, Ranked, Editing
  <2>3. QED
    BY <2>1, <2>2, SearchRests
<1>7. CASE ComeOrGo \/ UNCHANGED vars
  <2>1. UNCHANGED <<work, case, call, phase, hits>>
    BY <1>7 DEF ComeOrGo, vars, overrideVars, edits
  <2>2. QED
    BY <2>1 DEF WorkPasses, Passes, Doc, Req
<1>8. QED
  BY <1>1, <1>2, <1>3, <1>4, <1>5, <1>6, <1>7 DEF Next, Retrieve, Finished

LEMMA PassesInit ==
  ASSUME Init
  PROVE  AnswersPass /\ WorkPasses
<1>1. answers = <<>> /\ cache = {} /\ work = NoWork /\ phase = "lookup"
  BY DEF Init
<1>2. answers \in Seq(Range(answers)) /\ DOMAIN answers = {}
  BY <1>1
<1>3. phase \notin Finding \cup Ranked \cup {"parse", "list"}
  BY <1>1 DEF Finding, Ranked, Editing
<1>4. QED
  BY <1>1, <1>2, <1>3, NoWorkIs DEF AnswersPass, WorkPasses

LEMMA AnswersAreInOrder == Spec => [](BaseInv /\ ListInv /\ AnswersPass /\ WorkPasses)
<1>1. Init => AnswersPass /\ WorkPasses
  BY PassesInit
<1>2. BaseInv /\ ListInv /\ (AnswersPass /\ WorkPasses) /\ [Next]_vars
        => (AnswersPass /\ WorkPasses)'
  BY AnswersStep, WorkStep
<1>3. QED
  BY <1>1, <1>2, ListsAreInOrder, PTL DEF Spec

\* Every product on a page passes the caller's filters, and where they are silent
\* those of the words of the query, unless a sponsored slot has brought it in: on a
\* fresh page, on a cached one and in a list, whatever fails or goes meanwhile.
THEOREM PagesPassTheFilters == Spec => []FiltersHold
<1>1. AnswersPass => FiltersHold
  BY DEF AnswersPass, Passed, Passes, Asked, FiltersHold
<1>2. QED
  BY <1>1, AnswersAreInOrder, PTL

-----------------------------------------------------------------------------
(* Pages                                                                   *)

LEMMA OffsetsAre ==
  ASSUME NEW r, r.limit \in Nat, r.offset \in Nat
  PROVE  Offset(r) \in Nat /\ Limit(r) \in Nat
<1>1. MaxLimit \in Nat /\ MaxOffset \in Nat
  BY SearchAssumption
<1>2. QED
  BY <1>1, LesserOf DEF Offset, Limit

\* What stands after the offset o of a list, l elements at most.
Cut(s, o, l) == SubSeq(s, o + 1, Min({o + l, Len(s)}))

StandsAfter(t, s, o, l) ==
  /\ \A k \in DOMAIN t : k \in 1..l /\ o + k \in DOMAIN s /\ t[k] = s[o + k]
  /\ \A i \in DOMAIN s : o < i /\ i <= o + l => i - o \in DOMAIN t

LEMMA CutOut ==
  ASSUME NEW S, NEW s \in Seq(S), NEW o \in Nat, NEW l \in Nat
  PROVE  StandsAfter(Cut(s, o, l), s, o, l)
<1> DEFINE m == Len(s)
           n == Min({o + l, m})
           c == o + 1
           t == SubSeq(s, c, n)
<1>1. m \in Nat /\ o + l \in Nat /\ DOMAIN s = 1..m /\ c \in Nat \ {0} /\ c = o + 1
  OBVIOUS
<1>2. n \in Nat /\ n <= o + l /\ n <= m /\ n \in {o + l, m}
  <2> HIDE DEF m
  <2>1. {o + l, m} \in SUBSET Nat /\ {o + l, m} # {}
    BY <1>1
  <2>2. n \in {o + l, m}
    BY <2>1, LeastNumber
  <2>3. QED
    BY <1>1, <2>2, LesserOf
<1> HIDE DEF n, c
<1>3. /\ t \in Seq(S) /\ Len(t) = IF c <= n THEN n - c + 1 ELSE 0
      /\ \A k \in 1..Len(t) : t[k] = s[c + k - 1]
  <2>1. c \in Nat \ {0} /\ n \in Nat /\ n <= Len(s)
    BY <1>1, <1>2
  <2>2. QED
    BY <2>1, PartIs
<1> HIDE DEF t, m
<1>4. DOMAIN t = 1..Len(t) /\ Len(t) \in Nat
  BY <1>3
<1>5. Len(t) = IF o < n THEN n - o ELSE 0
  BY <1>1, <1>2, <1>3
<1>6. \A k \in 1..Len(t) : k \in 1..l /\ o + k \in 1..m /\ c + k - 1 = o + k
  BY <1>1, <1>2, <1>5
<1>7. \A i \in 1..m : o < i /\ i <= o + l => i - o \in 1..Len(t)
  BY <1>1, <1>2, <1>5
<1>8. QED
  <2>1. StandsAfter(t, s, o, l)
    BY <1>1, <1>3, <1>4, <1>6, <1>7 DEF StandsAfter
  <2>2. t = Cut(s, o, l)
    BY DEF t, n, m, c, Cut
  <2>3. QED
    BY <2>1, <2>2

\* The arithmetic of PagesPartition: two pages that follow one another in one list
\* share no product and leave none out between them, whatever the limits are,
\* beyond the end of the list too.
LEMMA PagesFollow ==
  ASSUME NEW S, NEW s \in Seq(S), Distinct(s),
         NEW a, a.limit \in Nat, a.offset \in Nat, NEW b, b.limit \in Nat, b.offset \in Nat,
         Offset(b) = Offset(a) + Limit(a)
  PROVE  /\ Range(Page(s, a)) \cap Range(Page(s, b)) = {}
         /\ \A k \in DOMAIN s :
              Offset(a) < k /\ k <= Offset(b) + Limit(b) =>
                s[k] \in Range(Page(s, a)) \cup Range(Page(s, b))
<1> DEFINE o == Offset(a)
           l == Limit(a)
           m == Offset(b)
           n == Limit(b)
           u == Page(s, a)
           v == Page(s, b)
<1>1. o \in Nat /\ l \in Nat /\ m \in Nat /\ n \in Nat /\ m = o + l
  BY OffsetsAre
<1>2. u = Cut(s, o, l) /\ v = Cut(s, m, n)
  BY DEF Page, Cut
<1> HIDE DEF o, l, m, n, u, v
<1>3. /\ \A k \in DOMAIN u : k \in 1..l /\ o + k \in DOMAIN s /\ u[k] = s[o + k]
      /\ \A i \in DOMAIN s : o < i /\ i <= o + l => i - o \in DOMAIN u
  <2>1. StandsAfter(u, s, o, l)
    BY <1>1, <1>2, CutOut
  <2>2. QED
    BY <2>1 DEF StandsAfter
<1>4. /\ \A k \in DOMAIN v : k \in 1..n /\ m + k \in DOMAIN s /\ v[k] = s[m + k]
      /\ \A i \in DOMAIN s : m < i /\ i <= m + n => i - m \in DOMAIN v
  <2>1. StandsAfter(v, s, m, n)
    BY <1>1, <1>2, CutOut
  <2>2. QED
    BY <2>1 DEF StandsAfter
<1>5. DOMAIN s = 1..Len(s) /\ Len(s) \in Nat
  OBVIOUS
<1>6. \A i \in DOMAIN u, j \in DOMAIN v : u[i] # v[j]
  <2> SUFFICES ASSUME NEW i \in DOMAIN u, NEW j \in DOMAIN v PROVE u[i] # v[j]
    OBVIOUS
  <2>1. i \in 1..l /\ j \in 1..n
    BY <1>3, <1>4
  <2>2. o + i # m + j
    BY <1>1, <2>1
  <2>3. o + i \in DOMAIN s /\ m + j \in DOMAIN s /\ u[i] = s[o + i] /\ v[j] = s[m + j]
    BY <1>3, <1>4
  <2>4. QED
    BY <2>2, <2>3 DEF Distinct
<1>7. Range(u) \cap Range(v) = {}
  BY <1>6 DEF Range
<1>8. ASSUME NEW k \in DOMAIN s, o < k, k <= m + n
      PROVE  s[k] \in Range(u) \cup Range(v)
  <2>0. k \in Nat
    BY <1>5
  <2>1. CASE k <= m
    <3>1. k - o \in DOMAIN u
      BY <1>1, <1>3, <1>8, <2>1
    <3>2. u[k - o] = s[k]
      <4>1. o + (k - o) = k
        BY <1>1, <2>0
      <4>2. QED
        BY <1>3, <3>1, <4>1
    <3>3. QED
      BY <3>1, <3>2 DEF Range
  <2>2. CASE ~ (k <= m)
    <3>1. k - m \in DOMAIN v
      BY <1>1, <1>4, <1>8, <2>0, <2>2
    <3>2. v[k - m] = s[k]
      <4>1. m + (k - m) = k
        BY <1>1, <2>0
      <4>2. QED
        BY <1>4, <3>1, <4>1
    <3>3. QED
      BY <3>1, <3>2 DEF Range
  <2>3. QED
    BY <2>1, <2>2
<1>9. QED
  BY <1>7, <1>8 DEF o, l, m, n, u, v
=============================================================================
