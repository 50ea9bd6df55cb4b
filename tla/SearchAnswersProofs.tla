------------------------ MODULE SearchAnswersProofs ------------------------
(***************************************************************************)
(* Theorems about what Search answers: what it finds for the words of a    *)
(* query, the one ranking that the pages of a query are cut from, the      *)
(* numbers that are cut out of a query, and the filters that the gazetteer *)
(* sets.                                                                   *)
(***************************************************************************)
EXTENDS SearchProofs, SequenceTheorems

-----------------------------------------------------------------------------
(* Folds of sequences, step by step                                        *)

LEMMA UpTo ==
  ASSUME NEW n \in Nat, NEW T, 0 \in T, \A m \in 1..n : m - 1 \in T => m \in T
  PROVE  \A m \in 0..n : m \in T
<1> SUFFICES ASSUME (0..n) \ T # {} PROVE FALSE
  OBVIOUS
<1> DEFINE U == (0..n) \ T
           m == Min(U)
<1>1. U \in SUBSET Nat /\ U # {}
  OBVIOUS
<1>2. m \in U /\ \A k \in U : m <= k
  BY <1>1, LeastNumber
<1> HIDE DEF m
<1>3. m \in 1..n /\ m - 1 \in 0..n
  BY <1>2
<1>4. m - 1 \notin U
  BY <1>2, <1>3
<1>5. QED
  BY <1>2, <1>3, <1>4

LEMMA PrefixIs ==
  ASSUME NEW n \in Nat, NEW m \in 1..n
  PROVE  /\ 1..m \in SUBSET (1..n) /\ 1..m # {}
         /\ Max(1..m) = m /\ (1..m) \ {Max(1..m)} = 1..(m - 1)
<1>1. m \in 1..m /\ \A k \in 1..m : m >= k
  OBVIOUS
<1>2. Max(1..m) \in 1..m /\ \A k \in 1..m : Max(1..m) >= k
  BY <1>1 DEF Max
<1>3. Max(1..m) = m
  BY <1>1, <1>2
<1>4. 1..m \in SUBSET (1..n)
  OBVIOUS
<1>5. QED
  BY <1>1, <1>3, <1>4

LEMMA NoPrefix == 1..0 = {}
  OBVIOUS

LEMMA LastIs ==
  ASSUME NEW n \in Nat, NEW T \in SUBSET (1..n), n \in T
  PROVE  Max(T) = n
<1>1. n \in T /\ \A m \in T : n >= m
  OBVIOUS
<1>2. Max(T) \in T /\ \A m \in T : Max(T) >= m
  BY <1>1 DEF Max
<1>3. Max(T) \in 1..n /\ Max(T) >= n
  BY <1>2
<1>4. QED
  BY <1>3

\* The equation that a fold of s is defined by has a solution.
Solves(g, F, base, s, n) ==
  \A T \in SUBSET (1..n) :
    g[T] = IF T = {} THEN base ELSE F[<<g[T \ {Max(T)}], s[Max(T)]>>]

LEMMA FoldExists ==
  ASSUME NEW A, NEW B, NEW F \in [A \X B -> A], NEW base \in A, NEW n \in Nat,
         NEW s \in [1..n -> B]
  PROVE  \E g \in [SUBSET (1..n) -> A] : Solves(g, F, base, s, n)
<1> DEFINE P == {m \in 0..n : \E g \in [SUBSET (1..m) -> A] : Solves(g, F, base, s, m)}
<1>1. 0 \in P
  <2> DEFINE g == [T \in SUBSET (1..0) |-> base]
  <2>1. SUBSET (1..0) = {{}}
    OBVIOUS
  <2>2. g \in [SUBSET (1..0) -> A] /\ Solves(g, F, base, s, 0)
    BY <2>1 DEF Solves
  <2>3. QED
    BY <2>2
<1>2. ASSUME NEW m \in 1..n, m - 1 \in P PROVE m \in P
  <2>1. PICK g \in [SUBSET (1..(m - 1)) -> A] : Solves(g, F, base, s, m - 1)
    BY <1>2
  <2> DEFINE h == [T \in SUBSET (1..m) |-> IF m \in T THEN F[<<g[T \ {m}], s[m]>>] ELSE g[T]]
  <2>2. \A T \in SUBSET (1..m) : T \ {m} \in SUBSET (1..(m - 1))
    OBVIOUS
  <2>3. \A T \in SUBSET (1..m) : m \notin T => T \in SUBSET (1..(m - 1))
    OBVIOUS
  <2>4. s[m] \in B
    OBVIOUS
  <2>5. h \in [SUBSET (1..m) -> A]
    <3> SUFFICES ASSUME NEW T \in SUBSET (1..m)
                 PROVE  (IF m \in T THEN F[<<g[T \ {m}], s[m]>>] ELSE g[T]) \in A
      OBVIOUS
    <3>1. m \in T => <<g[T \ {m}], s[m]>> \in A \X B
      BY <2>2, <2>4
    <3>2. QED
      BY <2>3, <3>1
  <2>6. ASSUME NEW T \in SUBSET (1..m)
        PROVE  h[T] = IF T = {} THEN base ELSE F[<<h[T \ {Max(T)}], s[Max(T)]>>]
    <3>1. CASE m \in T
      <4>1. Max(T) = m
        BY <3>1, LastIs
      <4>2. T \ {m} \in SUBSET (1..m) /\ h[T \ {m}] = g[T \ {m}]
        BY <2>2, <2>3
      <4>3. QED
        BY <3>1, <4>1, <4>2
    <3>2. CASE m \notin T
      <4>1. T \in SUBSET (1..(m - 1)) /\ h[T] = g[T]
        BY <2>3, <3>2
      <4>2. T \ {Max(T)} \in SUBSET (1..m) /\ m \notin T \ {Max(T)}
        BY <3>2
      <4>3. h[T \ {Max(T)}] = g[T \ {Max(T)}]
        BY <4>2
      <4> HIDE DEF h
      <4>4. QED
        BY <2>1, <4>1, <4>3 DEF Solves
    <3>3. QED
      BY <3>1, <3>2
  <2> HIDE DEF h
  <2>7. Solves(h, F, base, s, m)
    BY <2>6 DEF Solves
  <2>8. QED
    BY <2>5, <2>7
<1> HIDE DEF P
<1>3. \A m \in 1..n : m - 1 \in P => m \in P
  BY <1>2
<1>4. n \in P
  <2>1. \A m \in 0..n : m \in P
    BY <1>1, <1>3, UpTo
  <2>2. QED
    BY <2>1
<1>5. QED
  BY <1>4 DEF P

HasGreatest(m) == \A T \in SUBSET (1..m) : T # {} => Max(T) \in T

LEMMA GreatestIs ==
  ASSUME NEW n \in Nat
  PROVE  HasGreatest(n)
<1> DEFINE P == {m \in 0..n : HasGreatest(m)}
<1>1. 0 \in P
  <2>1. \A U \in SUBSET (1..0) : U = {}
    BY NoPrefix
  <2>2. HasGreatest(0)
    BY <2>1 DEF HasGreatest
  <2>3. QED
    BY <2>2
<1>2. ASSUME NEW m \in 1..n, m - 1 \in P PROVE m \in P
  <2>1. ASSUME NEW U \in SUBSET (1..m), U # {} PROVE Max(U) \in U
    <3>1. CASE m \in U
      BY <3>1, LastIs
    <3>2. CASE m \notin U
      <4>1. U \in SUBSET (1..(m - 1))
        BY <3>2
      <4>2. QED
        BY <1>2, <2>1, <4>1 DEF HasGreatest
    <3>3. QED
      BY <3>1, <3>2
  <2>2. QED
    BY <2>1 DEF HasGreatest
<1> HIDE DEF P
<1>3. \A m \in 1..n : m - 1 \in P => m \in P
  BY <1>2
<1>4. \A m \in 0..n : m \in P
  BY <1>1, <1>3, UpTo
<1>5. n \in P
  BY <1>4
<1>6. QED
  BY <1>5 DEF P

-----------------------------------------------------------------------------
(* Texts                                                                   *)

\* One step of Join(), and of Tokens() on q.
Joined(q, t) == IF q = <<>> THEN t ELSE q \o <<Space>> \o t
Read(q, ts, i) ==
  IF q[i] = Space THEN ts
  ELSE IF i = 1 \/ q[i - 1] = Space THEN Append(ts, <<q[i]>>)
  ELSE [ts EXCEPT ![Len(ts)] = Append(@, q[i])]

LEMMA JoinFolds ==
  ASSUME NEW S, Space \in S, NEW ts \in Seq(Seq(S))
  PROVE  \E h : /\ Join(ts) = h[1..Len(ts)]
                /\ \A T \in SUBSET (1..Len(ts)) :
                     h[T] = IF T = {} THEN <<>> ELSE Joined(h[T \ {Max(T)}], ts[Max(T)])
<1> DEFINE n == Len(ts)
           A == Seq(S)
           F == [z \in A \X A |-> Joined(z[1], z[2])]
<1>1. n \in Nat /\ ts \in [1..n -> A] /\ DOMAIN ts = 1..n
  OBVIOUS
<1>2. F \in [A \X A -> A]
  BY DEF Joined
<1>3. <<>> \in A
  OBVIOUS
<1> HIDE DEF A, n
<1>4. PICK g \in [SUBSET (1..n) -> A] : Solves(g, F, <<>>, ts, n)
  <2> HIDE DEF F
  <2>1. QED
    BY <1>1, <1>2, <1>3, FoldExists
<1>5. ASSUME NEW T \in SUBSET (1..n)
      PROVE  g[T] = IF T = {} THEN <<>> ELSE Joined(g[T \ {Max(T)}], ts[Max(T)])
  <2>1. T # {} => Max(T) \in 1..n
    BY <1>1, GreatestIs DEF HasGreatest
  <2>2. T \ {Max(T)} \in SUBSET (1..n)
    OBVIOUS
  <2>3. T # {} => <<g[T \ {Max(T)}], ts[Max(T)]>> \in A \X A
    BY <1>1, <2>1, <2>2
  <2>4. T # {} => F[<<g[T \ {Max(T)}], ts[Max(T)]>>] = Joined(g[T \ {Max(T)}], ts[Max(T)])
    BY <2>3
  <2> HIDE DEF F
  <2>5. QED
    BY <1>4, <2>4 DEF Solves
<1>6. g = [T \in SUBSET DOMAIN ts |->
             IF T = {} THEN <<>>
             ELSE IF g[T \ {Max(T)}] = <<>> THEN ts[Max(T)]
                  ELSE g[T \ {Max(T)}] \o <<Space>> \o ts[Max(T)]]
  BY <1>1, <1>5 DEF Joined
<1> HIDE DEF F
<1>7. PICK h : /\ Join(ts) = h[DOMAIN ts]
               /\ h = [T \in SUBSET DOMAIN ts |->
                         IF T = {} THEN <<>>
                         ELSE IF h[T \ {Max(T)}] = <<>> THEN ts[Max(T)]
                              ELSE h[T \ {Max(T)}] \o <<Space>> \o ts[Max(T)]]
  BY <1>6 DEF Join, FoldLeft, MapThenFoldSet
<1>8. \A T \in SUBSET (1..n) :
        h[T] = IF T = {} THEN <<>> ELSE Joined(h[T \ {Max(T)}], ts[Max(T)])
  BY <1>1, <1>7 DEF Joined
<1>9. QED
  BY <1>1, <1>7, <1>8 DEF n

\* join() of texts is a text.
LEMMA JoinedText ==
  ASSUME NEW S, Space \in S, NEW ts \in Seq(Seq(S))
  PROVE  Join(ts) \in Seq(S)
<1> DEFINE n == Len(ts)
<1>1. n \in Nat /\ \A m \in 1..n : ts[m] \in Seq(S)
  OBVIOUS
<1>2. PICK h : /\ Join(ts) = h[1..n]
               /\ \A T \in SUBSET (1..n) :
                    h[T] = IF T = {} THEN <<>> ELSE Joined(h[T \ {Max(T)}], ts[Max(T)])
  BY JoinFolds
<1> HIDE DEF n
<1> DEFINE P == {m \in 0..n : h[1..m] \in Seq(S)}
<1>3. 0 \in P
  <2>1. h[{}] = <<>>
    BY <1>2
  <2>2. h[1..0] = <<>>
    BY <2>1, NoPrefix, Zenon
  <2>3. h[1..0] \in Seq(S)
    BY <2>2, EmptySeq
  <2>4. 0 \in 0..n
    BY <1>1
  <2>5. QED
    BY <2>3, <2>4
<1>4. ASSUME NEW m \in 1..n, m - 1 \in P PROVE m \in P
  <2>1. h[1..m] = Joined(h[1..(m - 1)], ts[m])
    BY <1>1, <1>2, PrefixIs
  <2>2. h[1..(m - 1)] \in Seq(S) /\ ts[m] \in Seq(S)
    BY <1>1, <1>4
  <2>3. h[1..m] \in Seq(S)
    BY <2>1, <2>2 DEF Joined
  <2>4. QED
    BY <1>1, <2>3
<1> HIDE DEF P
<1>5. \A m \in 1..n : m - 1 \in P => m \in P
  BY <1>4
<1>6. \A m \in 0..n : m \in P
  BY <1>1, <1>3, <1>5, UpTo
<1>7. n \in P
  BY <1>1, <1>6
<1>8. QED
  BY <1>2, <1>7 DEF P

LEMMA ReadIs ==
  ASSUME NEW S, NEW q \in Seq(S), NEW ts \in Seq(Seq(S)), NEW i \in 1..Len(q)
  PROVE  Read(q, ts, i) \in Seq(Seq(S))
<1> DEFINE U == Seq(S)
           k == Len(ts)
           x == Append(ts[k], q[i])
<1>1. q[i] \in S /\ <<q[i]>> \in U
  OBVIOUS
<1>2. ts \in [1..k -> U] /\ k \in Nat
  OBVIOUS
<1>3. k # 0 => x \in U
  <2>1. k # 0 => ts[k] \in U
    BY <1>2
  <2>2. QED
    BY <1>1, <2>1
<1>4. Append(ts, <<q[i]>>) \in Seq(U)
  BY <1>1
<1>5. [ts EXCEPT ![k] = x] \in [1..k -> U]
  <2>1. \A j \in 1..k : j = k => k # 0
    OBVIOUS
  <2> HIDE DEF U, x, k
  <2>2. QED
    BY <1>2, <1>3, <2>1
<1> HIDE DEF U
<1>6. [ts EXCEPT ![k] = x] \in Seq(U)
  <2> HIDE DEF k, x
  <2>1. QED
    BY <1>2, <1>5
<1>7. QED
  BY <1>4, <1>6 DEF Read, U

\* The words are read one symbol at a time.
LEMMA TokensFold ==
  ASSUME NEW S, NEW q \in Seq(S)
  PROVE  \E h : /\ Tokens(q) = h[1..Len(q)]
                /\ \A T \in SUBSET (1..Len(q)) :
                     h[T] = IF T = {} THEN <<>> ELSE Read(q, h[T \ {Max(T)}], Max(T))
<1> DEFINE n == Len(q)
           A == Seq(Seq(S))
           B == 1..n
           F == [z \in A \X B |-> Read(q, z[1], z[2])]
           id == [i \in 1..n |-> i]
<1>1. n \in Nat /\ q \in [1..n -> S] /\ DOMAIN q = 1..n
  OBVIOUS
<1>2. \A ts \in A, i \in B : Read(q, ts, i) \in A
  BY ReadIs
<1>3. F \in [A \X B -> A] /\ <<>> \in A /\ id \in [1..n -> B]
  BY <1>2
<1> HIDE DEF A, B, n
<1>4. PICK g \in [SUBSET (1..n) -> A] : Solves(g, F, <<>>, id, n)
  <2> HIDE DEF F, id
  <2>1. QED
    BY <1>1, <1>3, FoldExists
<1>5. ASSUME NEW T \in SUBSET (1..n)
      PROVE  g[T] = IF T = {} THEN <<>> ELSE Read(q, g[T \ {Max(T)}], Max(T))
  <2>1. T # {} => Max(T) \in 1..n
    BY <1>1, GreatestIs DEF HasGreatest
  <2>2. T \ {Max(T)} \in SUBSET (1..n)
    OBVIOUS
  <2>3. T # {} => id[Max(T)] = Max(T) /\ <<g[T \ {Max(T)}], Max(T)>> \in A \X B
    BY <2>1, <2>2 DEF B
  <2>4. T # {} => F[<<g[T \ {Max(T)}], id[Max(T)]>>] = Read(q, g[T \ {Max(T)}], Max(T))
    BY <2>3
  <2> HIDE DEF F, id
  <2>5. QED
    BY <1>4, <2>4 DEF Solves
<1> DEFINE Step(ts, i) ==
             IF q[i] = Space THEN ts
             ELSE IF i = 1 \/ q[i - 1] = Space THEN Append(ts, <<q[i]>>)
             ELSE [ts EXCEPT ![Len(ts)] = Append(@, q[i])]
           Equation(h) ==
             h = [T \in SUBSET DOMAIN [i \in DOMAIN q |-> i] |->
                    IF T = {} THEN <<>>
                    ELSE Step(h[T \ {Max(T)}], [i \in DOMAIN q |-> i][Max(T)])]
<1>6. [i \in DOMAIN q |-> i] = id /\ DOMAIN id = 1..n
  BY <1>1
<1>7. ASSUME NEW T \in SUBSET (1..n), T # {} PROVE id[Max(T)] = Max(T)
  BY <1>1, <1>7, GreatestIs DEF HasGreatest
<1> HIDE DEF F, id
<1>8. Equation(g)
  BY <1>5, <1>6, <1>7 DEF Read
<1>9. PICK h : Equation(h) /\ Tokens(q) = h[DOMAIN [i \in DOMAIN q |-> i]]
  <2>1. \E h : Equation(h) /\ Tokens(q) = h[DOMAIN [i \in DOMAIN q |-> i]]
    BY <1>8 DEF Tokens, FoldLeftDomain, FoldLeft, MapThenFoldSet
  <2>2. QED
    BY <2>1
<1>10. Tokens(q) = h[1..n]
  BY <1>6, <1>9
<1>11. \A T \in SUBSET (1..n) :
         h[T] = IF T = {} THEN <<>> ELSE Read(q, h[T \ {Max(T)}], Max(T))
  BY ZenonT(40), <1>6, <1>7, <1>9 DEF Read
<1>12. QED
  BY <1>10, <1>11 DEF n

Reading(c, q, S) ==
  /\ c[0] = <<>> /\ c[Len(q)] = Tokens(q)
  /\ \A m \in 1..Len(q) : c[m] = Read(q, c[m - 1], m)
  /\ \A m \in 0..Len(q) : c[m] \in Seq(Seq(S))

LEMMA TokensAre ==
  ASSUME NEW S, NEW q \in Seq(S)
  PROVE  \E c : Reading(c, q, S)
<1> DEFINE n == Len(q)
<1>1. n \in Nat
  OBVIOUS
<1>2. PICK h : /\ Tokens(q) = h[1..n]
               /\ \A T \in SUBSET (1..n) :
                    h[T] = IF T = {} THEN <<>> ELSE Read(q, h[T \ {Max(T)}], Max(T))
  BY TokensFold
<1> DEFINE c == [m \in 0..n |-> h[1..m]]
<1>3. c[0] = <<>>
  <2>1. c[0] = h[1..0]
    BY <1>1
  <2>2. h[{}] = <<>>
    BY <1>2
  <2>3. QED
    BY <2>1, <2>2, NoPrefix, Zenon
<1>4. ASSUME NEW m \in 1..n PROVE c[m] = Read(q, c[m - 1], m)
  <2> HIDE DEF n
  <2>1. h[1..m] = Read(q, h[1..(m - 1)], m)
    BY <1>1, <1>2, PrefixIs
  <2>2. m \in 0..n /\ m - 1 \in 0..n
    BY <1>1
  <2>3. QED
    BY <2>1, <2>2
<1>5. c[n] = Tokens(q)
  BY <1>1, <1>2
<1> HIDE DEF c, n
<1> DEFINE P == {m \in 0..n : c[m] \in Seq(Seq(S))}
<1>6. 0 \in P
  <2>1. c[0] \in Seq(Seq(S))
    BY <1>3, EmptySeq
  <2>2. QED
    BY <1>1, <2>1
<1>7. ASSUME NEW m \in 1..n, m - 1 \in P PROVE m \in P
  <2>1. c[m - 1] \in Seq(Seq(S))
    BY <1>7
  <2>2. c[m] \in Seq(Seq(S))
    BY <1>4, <2>1, ReadIs DEF n
  <2>3. QED
    BY <1>1, <2>2
<1> HIDE DEF P
<1>8. \A m \in 1..n : m - 1 \in P => m \in P
  BY <1>7
<1>9. \A m \in 0..n : m \in P
  BY <1>1, <1>6, <1>8, UpTo
<1>10. \A m \in 0..n : c[m] \in Seq(Seq(S))
  BY <1>9 DEF P
<1>11. Reading(c, q, S)
  BY <1>3, <1>4, <1>5, <1>10 DEF Reading, n
<1>12. QED
  BY <1>11

\* split_whitespace() of a text has texts.
LEMMA TokensText ==
  ASSUME NEW S, NEW q \in Seq(S)
  PROVE  Tokens(q) \in Seq(Seq(S))
<1>1. PICK c : Reading(c, q, S)
  BY TokensAre
<1>2. Len(q) \in 0..Len(q)
  OBVIOUS
<1>3. QED
  BY <1>1, <1>2 DEF Reading

LEMMA TrimmedText ==
  ASSUME NEW S, NEW t \in Seq(S)
  PROVE  Trimmed(t) \in Seq(S)
<1> DEFINE letters == {i \in DOMAIN t : IsLetters(t[i])}
           a == Min(letters)
           b == Max(letters)
<1>1. CASE letters = {}
  BY <1>1, EmptySeq DEF Trimmed
<1>2. CASE letters # {}
  <2>1. letters \in SUBSET (1..Len(t)) /\ Len(t) \in Nat
    OBVIOUS
  <2> HIDE DEF letters
  <2>2. a \in letters
    BY <1>2, <2>1, LeastNumber
  <2>3. b \in letters
    BY <1>2, <2>1, GreatestIs DEF HasGreatest
  <2>4. a \in 1..Len(t) /\ b \in 1..Len(t)
    BY <2>1, <2>2, <2>3
  <2>5. Trimmed(t) = SubSeq(t, a, b)
    BY <1>2 DEF Trimmed, letters
  <2> HIDE DEF a, b
  <2>6. SubSeq(t, a, b) \in Seq(S)
    BY <2>4
  <2>7. QED
    BY <2>5, <2>6
<1>3. QED
  BY <1>1, <1>2

\* The texts of a sequence of texts, one behind the other.
Flat(g, ss, m) ==
  \A i \in 1..m : g[i] = IF i = 1 THEN ss[i] ELSE g[i - 1] \o ss[i]

LEMMA FlatExists ==
  ASSUME NEW S, NEW n \in Nat, NEW ss \in [1..n -> Seq(S)]
  PROVE  \E g \in [1..n -> Seq(S)] : Flat(g, ss, n)
<1> DEFINE P == {m \in 0..n : \E g \in [1..m -> Seq(S)] : Flat(g, ss, m)}
<1>1. 0 \in P
  <2> DEFINE g == [i \in 1..0 |-> <<>>]
  <2>1. Flat(g, ss, 0)
    BY DEF Flat
  <2>2. g \in [1..0 -> Seq(S)]
    OBVIOUS
  <2> HIDE DEF g
  <2>3. \E f \in [1..0 -> Seq(S)] : Flat(f, ss, 0)
    BY <2>1, <2>2
  <2>4. 0 \in 0..n
    OBVIOUS
  <2>5. QED
    BY <2>3, <2>4
<1>2. ASSUME NEW m \in 1..n, m - 1 \in P PROVE m \in P
  <2>1. PICK g \in [1..(m - 1) -> Seq(S)] : Flat(g, ss, m - 1)
    BY <1>2
  <2> DEFINE x == IF m = 1 THEN ss[m] ELSE g[m - 1] \o ss[m]
             h == [i \in 1..m |-> IF i = m THEN x ELSE g[i]]
  <2>2. x \in Seq(S)
    <3>1. ss[m] \in Seq(S)
      OBVIOUS
    <3>2. m # 1 => m - 1 \in 1..(m - 1)
      OBVIOUS
    <3>3. m # 1 => g[m - 1] \in Seq(S)
      BY <3>2
    <3>4. QED
      BY <3>1, <3>3
  <2>3. \A i \in 1..m : i # m => i \in 1..(m - 1)
    OBVIOUS
  <2> HIDE DEF x
  <2>4. h \in [1..m -> Seq(S)]
    BY <2>2, <2>3
  <2>5. ASSUME NEW i \in 1..m PROVE h[i] = IF i = 1 THEN ss[i] ELSE h[i - 1] \o ss[i]
    <3>1. i # 1 => i - 1 \in 1..m /\ i - 1 # m
      OBVIOUS
    <3>2. i # 1 => h[i - 1] = g[i - 1]
      BY <3>1
    <3>3. CASE i = m
      BY <3>2, <3>3 DEF x
    <3>4. CASE i # m
      <4>1. i \in 1..(m - 1) /\ h[i] = g[i]
        BY <2>3, <3>4
      <4>2. g[i] = IF i = 1 THEN ss[i] ELSE g[i - 1] \o ss[i]
        BY <2>1, <4>1 DEF Flat
      <4> HIDE DEF h
      <4>3. QED
        BY <3>2, <4>1, <4>2
    <3>5. QED
      BY <3>3, <3>4
  <2> HIDE DEF h
  <2>6. Flat(h, ss, m)
    BY <2>5 DEF Flat
  <2>7. QED
    BY <2>4, <2>6
<1> HIDE DEF P
<1>3. \A m \in 1..n : m - 1 \in P => m \in P
  BY <1>2
<1>4. \A m \in 0..n : m \in P
  BY <1>1, <1>3, UpTo
<1>5. n \in P
  BY <1>4
<1>6. QED
  BY <1>5 DEF P

\* The texts of a sequence of texts, up to each.
Collects(h, ss, S) ==
  /\ h[0] = <<>> /\ h[Len(ss)] = FlattenSeq(ss)
  /\ \A i \in 1..Len(ss) : h[i] = h[i - 1] \o ss[i]
  /\ \A i \in 0..Len(ss) : h[i] \in Seq(S)

LEMMA CollectsIs ==
  ASSUME NEW S, NEW ss \in Seq(Seq(S)), Len(ss) > 0
  PROVE  \E h : Collects(h, ss, S)
<1> DEFINE n == Len(ss)
           Equation(h) == h = [i \in 1..n |-> IF i = 1 THEN ss[i] ELSE h[i - 1] \o ss[i]]
<1>1. n \in Nat /\ n # 0 /\ ss \in [1..n -> Seq(S)]
  OBVIOUS
<1>2. PICK g \in [1..n -> Seq(S)] : Flat(g, ss, n)
  BY <1>1, FlatExists
<1>3. Equation(g)
  BY <1>2 DEF Flat
<1>4. \E f : Equation(f) /\ FlattenSeq(ss) = f[n]
  BY <1>1, <1>3 DEF FlattenSeq
<1>5. PICK f : Equation(f) /\ FlattenSeq(ss) = f[n]
  BY <1>4
<1>6. \A i \in 1..n : f[i] = IF i = 1 THEN ss[i] ELSE f[i - 1] \o ss[i]
  BY <1>5
<1> HIDE DEF Equation, n
<1> DEFINE h == [i \in 0..n |-> IF i = 0 THEN <<>> ELSE f[i]]
<1>7. h[0] = <<>> /\ h[n] = FlattenSeq(ss)
  BY <1>1, <1>5
<1>8. \A i \in 1..n : h[i] = f[i] /\ h[i - 1] = IF i = 1 THEN <<>> ELSE f[i - 1]
  BY <1>1
<1>9. \A i \in 1..n : ss[i] \in Seq(S)
  BY <1>1
<1> HIDE DEF h
<1>10. \A i \in 1..n : h[i] = h[i - 1] \o ss[i]
  <2>1. ASSUME NEW i \in 1..n PROVE h[i] = h[i - 1] \o ss[i]
    <3>1. h[i] = IF i = 1 THEN ss[i] ELSE f[i - 1] \o ss[i]
      BY <1>6, <1>8
    <3>2. h[i - 1] = IF i = 1 THEN <<>> ELSE f[i - 1]
      BY <1>8
    <3>3. <<>> \o ss[i] = ss[i]
      BY <1>9, ConcatEmptySeq
    <3>4. QED
      BY <3>1, <3>2, <3>3, Zenon
  <2>2. QED
    BY <2>1
<1> DEFINE P == {i \in 0..n : h[i] \in Seq(S)}
<1>11. 0 \in P
  <2>1. h[0] \in Seq(S)
    BY <1>7, EmptySeq
  <2>2. 0 \in 0..n
    BY <1>1
  <2>3. QED
    BY <2>1, <2>2
<1>12. \A i \in 1..n : i - 1 \in P => i \in P
  <2>1. ASSUME NEW i \in 1..n, i - 1 \in P PROVE i \in P
    <3>1. h[i - 1] \in Seq(S) /\ ss[i] \in Seq(S)
      BY <1>9, <2>1
    <3>2. h[i - 1] \o ss[i] \in Seq(S)
      BY <3>1
    <3>3. h[i] = h[i - 1] \o ss[i]
      BY <1>10
    <3>4. h[i] \in Seq(S)
      BY <3>2, <3>3, Zenon
    <3>5. i \in 0..n
      BY <1>1
    <3>6. QED
      BY <3>4, <3>5
  <2>2. QED
    BY <2>1
<1> HIDE DEF P
<1>13. \A i \in 0..n : i \in P
  BY <1>1, <1>11, <1>12, UpTo
<1>14. \A i \in 0..n : h[i] \in Seq(S)
  BY <1>13 DEF P
<1>15. Collects(h, ss, S)
  BY <1>7, <1>10, <1>14 DEF Collects, n
<1>16. QED
  BY <1>15

LEMMA FlattenText ==
  ASSUME NEW S, NEW ss \in Seq(Seq(S))
  PROVE  FlattenSeq(ss) \in Seq(S)
<1>1. CASE Len(ss) = 0
  <2>1. ss = <<>>
    BY <1>1
  <2>2. FlattenSeq(ss) = <<>>
    BY <1>1, <2>1 DEF FlattenSeq
  <2>3. QED
    BY <2>2, EmptySeq
<1>2. CASE Len(ss) > 0
  <2>1. PICK h : Collects(h, ss, S)
    BY <1>2, CollectsIs
  <2>2. Len(ss) \in 0..Len(ss)
    OBVIOUS
  <2>3. QED
    BY <2>1, <2>2 DEF Collects
<1>3. Len(ss) \in Nat
  OBVIOUS
<1>4. QED
  BY <1>1, <1>2, <1>3

-----------------------------------------------------------------------------
(* The words of a text, and of a longer one                                *)

LEMMA TextIn ==
  ASSUME NEW S, NEW q \in Seq(S)
  PROVE  IsText(q) /\ Range(q) \subseteq S
<1>1. DOMAIN q = 1..Len(q) /\ Len(q) \in Nat /\ \A i \in 1..Len(q) : q[i] \in S
  OBVIOUS
<1>2. \A i \in 1..Len(q) : q[i] \in Range(q)
  BY <1>1 DEF Range
<1>3. q \in [1..Len(q) -> Range(q)]
  BY <1>1, <1>2
<1>4. q \in Seq(Range(q))
  BY <1>1, <1>3
<1>5. QED
  BY <1>1, <1>4 DEF IsText, Range

LEMMA LowerText ==
  ASSUME NEW q, IsText(q)
  PROVE  IsText(LowerOf(q)) /\ Len(LowerOf(q)) = Len(q)
<1> DEFINE S == {In(Lower, q[i]) : i \in 1..Len(q)}
<1>1. DOMAIN q = 1..Len(q) /\ Len(q) \in Nat
  BY DEF IsText
<1>2. LowerOf(q) \in [1..Len(q) -> S]
  BY <1>1 DEF LowerOf
<1> HIDE DEF S
<1>3. LowerOf(q) \in Seq(S) /\ Len(LowerOf(q)) = Len(q)
  BY <1>1, <1>2
<1>4. QED
  BY <1>3, TextIn

\* q goes on, behind a space.
Longer(q, x) == q \o <<Space>> \o x

LEMMA LongerIs ==
  ASSUME NEW S, Space \in S, NEW q \in Seq(S), NEW x \in Seq(S)
  PROVE  /\ Longer(q, x) \in Seq(S) /\ Len(Longer(q, x)) = Len(q) + 1 + Len(x)
         /\ \A i \in 1..Len(q) : Longer(q, x)[i] = q[i]
         /\ Longer(q, x)[Len(q) + 1] = Space
<1> DEFINE y == q \o <<Space>>
<1>1. <<Space>> \in Seq(S) /\ Len(<<Space>>) = 1 /\ <<Space>>[1] = Space
  OBVIOUS
<1>2. y \in Seq(S) /\ Len(y) = Len(q) + 1
  BY <1>1
<1>3. \A i \in 1..Len(q) : y[i] = q[i]
  BY <1>1
<1>4. y[Len(q) + 1] = Space
  BY <1>1
<1> HIDE DEF y
<1>5. y \o x \in Seq(S) /\ Len(y \o x) = Len(q) + 1 + Len(x)
  BY <1>2
<1>6. \A i \in 1..Len(y) : (y \o x)[i] = y[i]
  BY <1>2
<1>7. Longer(q, x) = y \o x
  BY DEF Longer, y
<1>8. \A i \in 1..Len(q) : i \in 1..Len(y)
  BY <1>2
<1>9. Len(q) + 1 \in 1..Len(y)
  BY <1>2
<1>10. QED
  BY <1>2, <1>3, <1>4, <1>5, <1>6, <1>7, <1>8, <1>9

\* us begins with ts, and has more behind it if a word is being read.
Follows(us, ts, more) ==
  /\ Len(us) >= Len(ts)
  /\ \A j \in 1..Len(ts) : us[j] = ts[j]
  /\ more => Len(us) > Len(ts)

LEMMA ReadFollows ==
  ASSUME NEW S, NEW q \in Seq(S), NEW ts \in Seq(Seq(S)), NEW us \in Seq(Seq(S)),
         NEW i \in 2..Len(q), Follows(us, ts, q[i - 1] # Space)
  PROVE  Follows(Read(q, us, i), ts, q[i] # Space)
<1>1. CASE q[i] = Space
  BY <1>1 DEF Read, Follows
<1>2. CASE q[i] # Space /\ q[i - 1] = Space
  <2>1. Read(q, us, i) = Append(us, <<q[i]>>)
    BY <1>2 DEF Read
  <2>2. <<q[i]>> \in Seq(S)
    OBVIOUS
  <2>3. /\ Len(Append(us, <<q[i]>>)) = Len(us) + 1
        /\ \A j \in 1..Len(us) : Append(us, <<q[i]>>)[j] = us[j]
    BY <2>2
  <2>4. \A j \in 1..Len(ts) : j \in 1..Len(us)
    BY DEF Follows
  <2>5. QED
    BY <2>1, <2>3, <2>4 DEF Follows
<1>3. CASE q[i] # Space /\ q[i - 1] # Space
  <2> DEFINE vs == [us EXCEPT ![Len(us)] = Append(@, q[i])]
  <2>1. Read(q, us, i) = vs
    BY <1>3 DEF Read
  <2>2. Len(us) > Len(ts)
    BY <1>3 DEF Follows
  <2>3. \A j \in 1..Len(ts) : j \in 1..Len(us) /\ j # Len(us)
    BY <2>2
  <2>4. \A j \in 1..Len(ts) : vs[j] = us[j]
    BY <2>3
  <2>5. Len(vs) = Len(us)
    OBVIOUS
  <2> HIDE DEF vs
  <2>6. QED
    BY <2>1, <2>2, <2>4, <2>5 DEF Follows
<1>4. QED
  BY <1>1, <1>2, <1>3

LEMMA SameStart ==
  ASSUME NEW S, NEW q \in Seq(S), NEW y \in Seq(S), Len(q) <= Len(y),
         \A i \in 1..Len(q) : y[i] = q[i],
         NEW c, Reading(c, q, S), NEW d, Reading(d, y, S)
  PROVE  d[Len(q)] = Tokens(q)
<1> DEFINE n == Len(q)
           P == {m \in 0..n : c[m] = d[m]}
<1>1. n \in Nat /\ Len(y) \in Nat /\ \A m \in 1..n : m \in 1..Len(y)
  OBVIOUS
<1>2. 0 \in P
  BY <1>1 DEF Reading
<1>3. ASSUME NEW m \in 1..n, m - 1 \in P PROVE m \in P
  <2>1. c[m] = Read(q, c[m - 1], m) /\ d[m] = Read(y, d[m - 1], m)
    BY <1>1 DEF Reading
  <2>2. y[m] = q[m] /\ (m # 1 => y[m - 1] = q[m - 1])
    <3>1. m # 1 => m - 1 \in 1..n
      BY <1>1
    <3>2. QED
      BY <3>1
  <2>3. Read(q, c[m - 1], m) = Read(y, c[m - 1], m)
    BY <2>2 DEF Read
  <2>4. QED
    BY <1>1, <1>3, <2>1, <2>3
<1> HIDE DEF P
<1>4. \A m \in 1..n : m - 1 \in P => m \in P
  BY <1>3
<1>5. n \in P
  <2> HIDE DEF n
  <2>1. \A m \in 0..n : m \in P
    BY <1>1, <1>2, <1>4, UpTo
  <2>2. QED
    BY <1>1, <2>1
<1>6. QED
  BY <1>5 DEF P, Reading

LEMMA TokensGrow ==
  ASSUME NEW S, Space \in S, NEW q \in Seq(S), NEW x \in Seq(S)
  PROVE  Range(Tokens(q)) \subseteq Range(Tokens(Longer(q, x)))
<1> DEFINE y == Longer(q, x)
           n == Len(q)
           l == Len(y)
<1>1. /\ y \in Seq(S) /\ l = n + 1 + Len(x) /\ y[n + 1] = Space
      /\ \A i \in 1..n : y[i] = q[i]
  BY LongerIs
<1>2. n \in Nat /\ l \in Nat /\ n + 1 \in 1..l
  BY <1>1
<1> HIDE DEF y
<1>3. PICK c : Reading(c, q, S)
  BY TokensAre
<1>4. PICK d : Reading(d, y, S)
  BY <1>1, TokensAre
<1>9. d[n] = Tokens(q)
  BY <1>1, <1>2, <1>3, <1>4, SameStart
<1>10. Tokens(q) \in Seq(Seq(S)) /\ \A m \in 0..l : d[m] \in Seq(Seq(S))
  BY <1>4, TokensText DEF Reading
<1> DEFINE Q == {m \in 0..l : m > n => Follows(d[m], Tokens(q), y[m] # Space)}
<1>11. 0 \in Q
  BY <1>2
<1>12. ASSUME NEW m \in 1..l, m - 1 \in Q PROVE m \in Q
  <2>1. d[m] = Read(y, d[m - 1], m)
    BY <1>4 DEF Reading
  <2>2. CASE m <= n
    BY <1>2, <2>2
  <2>3. CASE m = n + 1
    <3>1. d[m] = Tokens(q)
      BY <1>1, <1>2, <1>9, <2>1, <2>3 DEF Read
    <3>2. Follows(d[m], Tokens(q), y[m] # Space)
      BY <1>1, <1>10, <2>3, <3>1 DEF Follows
    <3>3. QED
      BY <1>2, <3>2
  <2>4. CASE m > n + 1
    <3>1. m \in 2..l /\ m - 1 > n /\ m - 1 \in 0..l
      BY <1>2, <2>4
    <3>2. Follows(d[m - 1], Tokens(q), y[m - 1] # Space)
      BY <1>12, <3>1
    <3>3. d[m - 1] \in Seq(Seq(S))
      BY <1>10, <3>1
    <3>4. Follows(Read(y, d[m - 1], m), Tokens(q), y[m] # Space)
      BY <1>1, <1>10, <3>1, <3>2, <3>3, ReadFollows
    <3>5. QED
      BY <1>2, <2>1, <3>4
  <2>5. QED
    BY <1>2, <2>2, <2>3, <2>4
<1> HIDE DEF Q
<1>13. \A m \in 1..l : m - 1 \in Q => m \in Q
  BY <1>12
<1>14. \A m \in 0..l : m \in Q
  BY <1>2, <1>11, <1>13, UpTo
<1>15. Follows(Tokens(y), Tokens(q), y[l] # Space)
  <2>1. l \in 0..l /\ l > n
    BY <1>1, <1>2
  <2>2. Follows(d[l], Tokens(q), y[l] # Space)
    BY <1>14, <2>1 DEF Q
  <2>3. d[l] = Tokens(y)
    BY <1>4 DEF Reading
  <2> HIDE DEF l, n
  <2>4. QED
    BY <2>2, <2>3
<1>16. Tokens(y) \in Seq(Seq(S))
  BY <1>1, TokensText
<1>17. \A j \in DOMAIN Tokens(q) : j \in DOMAIN Tokens(y) /\ Tokens(y)[j] = Tokens(q)[j]
  <2>1. Len(Tokens(y)) >= Len(Tokens(q)) /\ \A j \in 1..Len(Tokens(q)) : Tokens(y)[j] = Tokens(q)[j]
    BY <1>15 DEF Follows
  <2>2. /\ DOMAIN Tokens(q) = 1..Len(Tokens(q)) /\ Len(Tokens(q)) \in Nat
        /\ DOMAIN Tokens(y) = 1..Len(Tokens(y)) /\ Len(Tokens(y)) \in Nat
    BY <1>10, <1>16
  <2>3. QED
    BY <2>1, <2>2
<1>18. QED
  BY <1>17 DEF Range, y

LEMMA FiniteImage ==
  ASSUME NEW f, IsFiniteSet(DOMAIN f), f = [x \in DOMAIN f |-> f[x]]
  PROVE  IsFiniteSet({f[x] : x \in DOMAIN f})
<1> DEFINE T == {f[x] : x \in DOMAIN f}
<1>1. f \in Surjection(DOMAIN f, T)
  BY DEF Surjection
<1>2. QED
  BY <1>1, FS_Surjection

LEMMA LongerRest ==
  ASSUME NEW S, Space \in S, NEW q \in Seq(S), NEW x \in Seq(S), NEW k \in 1..Len(x)
  PROVE  Longer(q, x)[Len(q) + 1 + k] = x[k]
<1> DEFINE y == q \o <<Space>>
<1>1. y \in Seq(S) /\ Len(y) = Len(q) + 1
  OBVIOUS
<1> HIDE DEF y
<1>2. (y \o x)[Len(y) + k] = x[k]
  BY <1>1
<1>3. Longer(q, x) = y \o x
  BY DEF Longer, y
<1>4. QED
  BY <1>1, <1>2, <1>3

LEMMA MoreSymbols ==
  ASSUME NEW S, NEW T, S \subseteq T, NEW q \in Seq(S)
  PROVE  q \in Seq(T)
<1>1. q \in [1..Len(q) -> S] /\ Len(q) \in Nat
  OBVIOUS
<1>2. q \in [1..Len(q) -> T]
  BY <1>1
<1>3. QED
  BY <1>1, <1>2

LEMMA ArrayIs ==
  ASSUME NEW T, NEW n \in Nat, NEW f \in [1..n -> T]
  PROVE  f \in Seq(T) /\ Len(f) = n
OBVIOUS

LEMMA SameArray ==
  ASSUME NEW I, NEW T, NEW f \in [I -> T], NEW g \in [I -> T], \A i \in I : f[i] = g[i]
  PROVE  f = g
OBVIOUS

LEMMA LowerGrows ==
  ASSUME NEW S, Space \in S, NEW q \in Seq(S), NEW x \in Seq(S)
  PROVE  LowerOf(Longer(q, x)) = Longer(LowerOf(q), LowerOf(x))
<1> DEFINE T == {Space} \cup {In(Lower, c) : c \in S}
           y == Longer(q, x)
<1>1. In(Lower, Space) = Space
  BY LexiconAssumption DEF In
<1>2. \A c \in S : In(Lower, c) \in T
  OBVIOUS
<1> HIDE DEF T
<1> DEFINE a == LowerOf(q)
           b == LowerOf(x)
<1>3. a \in [1..Len(q) -> T] /\ b \in [1..Len(x) -> T] /\ Len(q) \in Nat /\ Len(x) \in Nat
  BY <1>2 DEF LowerOf
<1> HIDE DEF a, b
<1>4. a \in Seq(T) /\ b \in Seq(T) /\ Len(a) = Len(q) /\ Len(b) = Len(x)
  BY <1>3, ArrayIs
<1>5. Space \in T
  BY DEF T
<1> DEFINE l == Len(q) + 1 + Len(x)
<1>6. y \in Seq(S) /\ Len(y) = l
  BY LongerIs
<1>7. LowerOf(y) \in [1..l -> T]
  BY <1>2, <1>6 DEF LowerOf
<1> DEFINE z == Longer(a, b)
<1>8. z \in Seq(T) /\ Len(z) = l
  <2>1. z \in Seq(T) /\ Len(z) = Len(a) + 1 + Len(b)
    BY <1>4, <1>5, LongerIs
  <2>2. QED
    BY <1>4, <2>1
<1>9. z \in [1..l -> T]
  BY <1>8
<1>10. /\ DOMAIN q = 1..Len(q) /\ DOMAIN x = 1..Len(x) /\ DOMAIN y = 1..l
  BY <1>6
<1> HIDE DEF z
<1>11. ASSUME NEW i \in 1..l PROVE LowerOf(y)[i] = z[i]
  <2>1. LowerOf(y)[i] = In(Lower, y[i])
    BY <1>10 DEF LowerOf
  <2>2. CASE i \in 1..Len(q)
    <3>1. y[i] = q[i]
      BY <2>2, LongerIs
    <3>2. z[i] = a[i]
      <4>1. i \in 1..Len(a)
        BY <1>4, <2>2
      <4>2. Longer(a, b)[i] = a[i]
        BY <1>4, <1>5, <4>1, LongerIs
      <4>3. QED
        BY <4>2 DEF z
    <3>3. a[i] = In(Lower, q[i])
      BY <1>10, <2>2 DEF LowerOf, a
    <3>4. QED
      BY <2>1, <3>1, <3>2, <3>3
  <2>3. CASE i = Len(q) + 1
    <3>1. y[i] = Space
      BY <2>3, LongerIs
    <3>2. z[i] = Space
      <4>1. Longer(a, b)[Len(a) + 1] = Space
        BY <1>4, <1>5, LongerIs
      <4>2. QED
        BY <1>4, <2>3, <4>1 DEF z
    <3>3. QED
      BY <1>1, <2>1, <3>1, <3>2
  <2>4. CASE i > Len(q) + 1
    <3> DEFINE k == i - (Len(q) + 1)
    <3>1. k \in 1..Len(x) /\ i = Len(q) + 1 + k
      BY <1>3, <2>4
    <3> HIDE DEF k
    <3>2. y[i] = x[k]
      BY <3>1, LongerRest
    <3>3. z[i] = b[k]
      <4> HIDE DEF y, l, z
      <4>3. k \in 1..Len(b)
        BY <1>4, <3>1
      <4>1. Longer(a, b)[Len(a) + 1 + k] = b[k]
        BY <1>4, <1>5, <4>3, LongerRest
      <4>2. QED
        BY <1>4, <3>1, <4>1 DEF z
    <3>4. b[k] = In(Lower, x[k])
      BY <1>10, <3>1 DEF LowerOf, b
    <3>5. QED
      BY <2>1, <3>2, <3>3, <3>4
  <2>5. QED
    BY <1>3, <2>2, <2>3, <2>4
<1> HIDE DEF y, z, l
<1> DEFINE w == LowerOf(y)
<1>14. w \in [1..l -> T] /\ \A i \in 1..l : w[i] = z[i]
  BY <1>7, <1>11 DEF y, l
<1> HIDE DEF w
<1>12. w = z
  <2>1. z \in [1..l -> T]
    BY <1>9
  <2>2. w \in [1..l -> T]
    BY <1>14
  <2>3. \A i \in 1..l : w[i] = z[i]
    BY <1>14
  <2> DEFINE I == 1..l
  <2>4. z \in [I -> T] /\ w \in [I -> T] /\ \A i \in I : w[i] = z[i]
    BY <2>1, <2>2, <2>3
  <2> HIDE DEF I
  <2>5. QED
    BY <2>4, SameArray
<1>13. QED
  BY <1>12 DEF w, y, z, a, b

\* A word without the marks around it.
Bare(t) == SelectSeq(t, LAMBDA c : c \notin Marks)

LEMMA TermsAre ==
  ASSUME NEW q
  PROVE  Terms(q) = {Bare(Tokens(LowerOf(q))[i]) : i \in DOMAIN Tokens(LowerOf(q))} \ {<<>>}
BY DEF Terms, Bare

LEMMA TermsGrow ==
  ASSUME NEW S, Space \in S, NEW q \in Seq(S), NEW x \in Seq(S)
  PROVE  Terms(q) \subseteq Terms(Longer(q, x))
<1> DEFINE T == {Space} \cup Range(LowerOf(q)) \cup Range(LowerOf(x))
<1>1. IsText(q) /\ IsText(x)
  BY TextIn
<1>2. IsText(LowerOf(q)) /\ IsText(LowerOf(x))
  BY <1>1, LowerText
<1>3. LowerOf(q) \in Seq(T) /\ LowerOf(x) \in Seq(T) /\ Space \in T
  BY <1>2, MoreSymbols DEF IsText
<1> HIDE DEF T
<1>4. Range(Tokens(LowerOf(q))) \subseteq Range(Tokens(LowerOf(Longer(q, x))))
  BY <1>3, TokensGrow, LowerGrows
<1>5. \A r : Terms(r) = {Bare(t) : t \in Range(Tokens(LowerOf(r)))} \ {<<>>}
  BY TermsAre DEF Range
<1>6. Terms(q) = {Bare(t) : t \in Range(Tokens(LowerOf(q)))} \ {<<>>}
  BY <1>5
<1>7. Terms(Longer(q, x)) = {Bare(t) : t \in Range(Tokens(LowerOf(Longer(q, x))))} \ {<<>>}
  BY <1>5
<1>8. QED
  BY <1>4, <1>6, <1>7

LEMMA TermsFinite ==
  ASSUME NEW q, IsText(q)
  PROVE  IsFiniteSet(Terms(q))
<1> DEFINE ts == Tokens(LowerOf(q))
<1>1. ts \in Seq(Seq(Range(LowerOf(q))))
  BY LowerText, TokensText DEF IsText
<1>2. DOMAIN ts = 1..Len(ts) /\ Len(ts) \in Nat
  BY <1>1
<1>3. IsFiniteSet(DOMAIN ts)
  BY <1>2, FS_Interval
<1> DEFINE f == [i \in DOMAIN ts |-> Bare(ts[i])]
<1>4. IsFiniteSet({f[i] : i \in DOMAIN f})
  BY <1>3, FiniteImage
<1>5. {f[i] : i \in DOMAIN f} = {Bare(ts[i]) : i \in DOMAIN ts}
  OBVIOUS
<1>6. IsFiniteSet({Bare(ts[i]) : i \in DOMAIN ts})
  BY <1>4, <1>5
<1>7. QED
  BY <1>6, TermsAre, FS_Subset

-----------------------------------------------------------------------------
(* What is left of a query without the numbers                             *)

LEMMA RawIs ==
  ASSUME NEW n \in Nat
  PROVE  Raw(n) \in Seq({D}) /\ Len(Raw(n)) = n
<1>1. Raw(n) \in [1..n -> {D}]
  BY DEF Raw
<1>2. QED
  BY <1>1, ArrayIs

Phone(gap, m) == <<"(", D, D, ")">> \o gap \o Raw(m) \o <<"-">> \o Raw(4)

LEMMA PhonesAre ==
  ASSUME NEW s \in PHONES
  PROVE  Len(s) \in Nat /\ Len(s) > 0
<1> DEFINE S == {"(", ")", "-", D, Space}
<1>1. PICK gap \in {<<>>, <<Space>>}, m \in {4, 5} :
        s = Phone(gap, m)
  <2>1. PHONES = {Phone(gap, m) : gap \in {<<>>, <<Space>>}, m \in {4, 5}}
    BY DEF PHONES, Phone
  <2>2. QED
    BY <2>1
<1>2. gap \in Seq(S)
  <2>1. <<Space>> \in Seq(S)
    OBVIOUS
  <2>2. QED
    BY <2>1, EmptySeq
<1>3. Raw(m) \in Seq(S) /\ Raw(4) \in Seq(S)
  <2>1. Raw(m) \in Seq({D}) /\ Raw(4) \in Seq({D}) /\ {D} \subseteq S
    BY RawIs
  <2> HIDE DEF S
  <2>2. QED
    BY <2>1, MoreSymbols
<1>4. <<"(", D, D, ")">> \in Seq(S) /\ Len(<<"(", D, D, ")">>) = 4 /\ <<"-">> \in Seq(S)
  <2>1. "(" \in S /\ ")" \in S /\ "-" \in S /\ D \in S
    OBVIOUS
  <2> HIDE DEF S
  <2>2. \A a, b, c, d \in S : <<a, b, c, d>> \in Seq(S) /\ Len(<<a, b, c, d>>) = 4
    OBVIOUS
  <2>3. \A a \in S : <<a>> \in Seq(S)
    OBVIOUS
  <2>4. QED
    BY <2>1, <2>2, <2>3
<1> HIDE DEF S
<1>5. /\ <<"(", D, D, ")">> \o gap \in Seq(S)
      /\ Len(<<"(", D, D, ")">> \o gap) > 0
  BY <1>2, <1>4
<1>6. ASSUME NEW a \in Seq(S), NEW b \in Seq(S), Len(a) > 0
      PROVE  a \o b \in Seq(S) /\ Len(a \o b) > 0
  BY <1>6
<1>7. \A a, b \in Seq(S) : Len(a) > 0 => a \o b \in Seq(S) /\ Len(a \o b) > 0
  BY <1>6
<1> DEFINE t == <<"(", D, D, ")">> \o gap
           u == t \o Raw(m)
           v == u \o <<"-">>
<1>8. u \in Seq(S) /\ Len(u) > 0
  BY <1>3, <1>5, <1>7
<1> HIDE DEF u
<1>9. v \in Seq(S) /\ Len(v) > 0
  BY <1>4, <1>7, <1>8
<1> HIDE DEF v
<1>10. v \o Raw(4) \in Seq(S) /\ Len(v \o Raw(4)) > 0
  BY <1>3, <1>7, <1>9
<1>11. s = v \o Raw(4)
  BY <1>1 DEF Phone, v, u
<1>12. QED
  BY <1>10, <1>11

LEMMA ShapesAre ==
  ASSUME NEW s \in {CNPJ, CPF, Raw(14), Raw(11)} \cup PHONES \cup CEPS
  PROVE  Len(s) \in Nat /\ Len(s) > 0
<1>1. CASE s = CNPJ \/ s = CPF
  <2>1. Len(CPF) = 14
    BY DEF CPF
  <2>2. Len(CNPJ) = 18
    BY DEF CNPJ
  <2>3. QED
    BY <1>1, <2>1, <2>2
<1>2. CASE s = Raw(14) \/ s = Raw(11) \/ s = Raw(8)
  BY <1>2, RawIs
<1>3. CASE s = Raw(5) \o <<"-">> \o Raw(3)
  <2> DEFINE S == {D, "-"}
  <2>2. /\ Raw(5) \in Seq({D}) /\ Raw(3) \in Seq({D})
        /\ Len(Raw(5)) = 5 /\ Len(Raw(3)) = 3
    BY RawIs
  <2>3. <<"-">> \in Seq(S) /\ {D} \subseteq S
    OBVIOUS
  <2> HIDE DEF S
  <2>1. /\ Raw(5) \in Seq(S) /\ Raw(3) \in Seq(S) /\ <<"-">> \in Seq(S)
        /\ Len(Raw(5)) = 5 /\ Len(Raw(3)) = 3
    BY <2>2, <2>3, MoreSymbols
  <2>4. QED
    BY <1>3, <2>1
<1>4. CASE s \in PHONES
  BY <1>4, PhonesAre
<1>5. QED
  BY <1>1, <1>2, <1>3, <1>4 DEF CEPS

LEMMA EndsAre ==
  ASSUME NEW q, Len(q) \in Nat, NEW i \in 1..Len(q), NEW e \in Ends(q, i)
  PROVE  e \in (i + 1)..(Len(q) + 1)
<1> DEFINE shapes == {CNPJ, CPF, Raw(14), Raw(11)} \cup PHONES \cup CEPS
<1>1. \E s \in shapes : e = i + Len(s) /\ Fits(q, i, s)
  <2>1. ASSUME NEW X \in SUBSET shapes, e \in Found(q, i, X)
        PROVE  \E s \in shapes : e = i + Len(s) /\ Fits(q, i, s)
    BY <2>1 DEF Found
  <2>2. \E X \in SUBSET shapes : e \in Found(q, i, X)
    BY DEF Ends, try_cnpj_formatted, try_cnpj_raw, try_cpf_formatted, try_cpf_raw,
           try_br_phone, try_cep, TryDocument
  <2>3. QED
    BY <2>1, <2>2
<1>2. PICK s \in shapes : e = i + Len(s) /\ Fits(q, i, s)
  BY <1>1
<1>3. Len(s) \in Nat /\ Len(s) > 0
  BY ShapesAre
<1>4. i + Len(s) - 1 <= Len(q)
  BY <1>2 DEF Fits
<1>5. QED
  BY <1>2, <1>3, <1>4

\* The scan from position i on, which goes on at a later one.
Scanned(g, q, i) ==
  IF i > Len(q) THEN <<>>
  ELSE IF Ends(q, i) = {} THEN <<q[i]>> \o g[i + 1]
  ELSE g[CHOOSE e \in Ends(q, i) : TRUE]

LEMMA ScannedIs ==
  ASSUME NEW S, NEW q \in Seq(S), NEW i \in 1..(Len(q) + 1), NEW g,
         \A k \in (i + 1)..(Len(q) + 1) : g[k] \in Seq(S)
  PROVE  /\ Scanned(g, q, i) \in Seq(S)
         /\ \A h : (\A k \in (i + 1)..(Len(q) + 1) : h[k] = g[k]) =>
              Scanned(h, q, i) = Scanned(g, q, i)
<1>1. CASE i > Len(q)
  BY <1>1, EmptySeq DEF Scanned
<1>2. CASE i <= Len(q) /\ Ends(q, i) = {}
  <2>1. i + 1 \in (i + 1)..(Len(q) + 1) /\ q[i] \in S
    BY <1>2
  <2>2. g[i + 1] \in Seq(S) /\ <<q[i]>> \in Seq(S)
    BY <2>1
  <2>3. <<q[i]>> \o g[i + 1] \in Seq(S)
    BY <2>2
  <2>4. QED
    BY <1>2, <2>1, <2>3 DEF Scanned
<1>3. CASE i <= Len(q) /\ Ends(q, i) # {}
  <2> DEFINE e == CHOOSE e \in Ends(q, i) : TRUE
  <2>1. e \in Ends(q, i)
    BY <1>3
  <2>2. i \in 1..Len(q) /\ Len(q) \in Nat
    BY <1>3
  <2> HIDE DEF e
  <2>3. e \in (i + 1)..(Len(q) + 1)
    BY <2>1, <2>2, EndsAre
  <2>4. \A h : Scanned(h, q, i) = h[e]
    BY <1>3 DEF Scanned, e
  <2>5. QED
    BY <2>3, <2>4
<1>4. QED
  BY <1>1, <1>2, <1>3

LEMMA ScanExists ==
  ASSUME NEW S, NEW q \in Seq(S)
  PROVE  \E g \in [1..(Len(q) + 1) -> Seq(S)] : \A i \in 1..(Len(q) + 1) : g[i] = Scanned(g, q, i)
<1> DEFINE n == Len(q) + 1
           G == [1..n -> Seq(S)]
           P == {m \in 0..n : \E g \in G : \A i \in (n + 1 - m)..n : g[i] = Scanned(g, q, i)}
<1>1. n \in Nat /\ n >= 1
  OBVIOUS
<1>2. 0 \in P
  <2> DEFINE g == [i \in 1..n |-> <<>>]
  <2>1. g \in G
    BY EmptySeq
  <2>2. \A i \in (n + 1 - 0)..n : g[i] = Scanned(g, q, i)
    BY <1>1
  <2> HIDE DEF g, G, n
  <2>3. 0 \in 0..n
    BY <1>1
  <2>4. QED
    BY <2>1, <2>2, <2>3
<1>3. ASSUME NEW m \in 1..n, m - 1 \in P PROVE m \in P
  <2>1. PICK g \in G : \A i \in (n + 1 - (m - 1))..n : g[i] = Scanned(g, q, i)
    BY <1>3
  <2> DEFINE k == n + 1 - m
             h == [g EXCEPT ![k] = Scanned(g, q, k)]
  <2>2. k \in 1..n
    BY <1>1
  <2>3. \A i \in 1..n : g[i] \in Seq(S)
    OBVIOUS
  <2> HIDE DEF k, n
  <2>4. Scanned(g, q, k) \in Seq(S)
    BY <1>1, <2>2, <2>3, ScannedIs DEF n
  <2>5. h \in G /\ h[k] = Scanned(g, q, k) /\ \A i \in 1..n : i # k => h[i] = g[i]
    BY <2>2, <2>4
  <2> HIDE DEF h, G
  <2>6. ASSUME NEW i \in k..n PROVE h[i] = Scanned(h, q, i)
    <3>1. i \in 1..n /\ \A j \in (i + 1)..n : j \in 1..n /\ j # k
      BY <1>1, <2>2
    <3>2. \A j \in (i + 1)..(Len(q) + 1) : g[j] \in Seq(S) /\ h[j] = g[j]
      BY <2>3, <2>5, <3>1 DEF n
    <3>3. Scanned(h, q, i) = Scanned(g, q, i)
      BY <3>1, <3>2, ScannedIs DEF n
    <3>4. CASE i = k
      BY <2>5, <3>3, <3>4
    <3>5. CASE i # k
      <4>1. i \in (n + 1 - (m - 1))..n
        BY <1>1, <3>5 DEF k
      <4>2. QED
        BY <2>1, <2>5, <3>1, <3>3, <3>5, <4>1
    <3>6. QED
      BY <3>4, <3>5
  <2>7. \A i \in (n + 1 - m)..n : h[i] = Scanned(h, q, i)
    BY <2>6 DEF k
  <2>8. m \in 0..n
    BY <1>1
  <2>9. QED
    BY <2>5, <2>7, <2>8
<1> HIDE DEF P
<1>4. \A m \in 1..n : m - 1 \in P => m \in P
  BY <1>3
<1>5. n \in P
  <2> HIDE DEF n
  <2>1. \A m \in 0..n : m \in P
    BY <1>1, <1>2, <1>4, UpTo
  <2>2. QED
    BY <1>1, <2>1
<1>6. PICK g \in G : \A i \in (n + 1 - n)..n : g[i] = Scanned(g, q, i)
  BY <1>5 DEF P
<1>7. n + 1 - n = 1
  BY <1>1
<1>8. QED
  BY <1>6, <1>7

Scan(g, q, S) ==
  /\ Kept(q) = g[1]
  /\ \A i \in 1..(Len(q) + 1) : g[i] = Scanned(g, q, i) /\ g[i] \in Seq(S)

LEMMA ScanIs ==
  ASSUME NEW S, NEW q \in Seq(S)
  PROVE  \E g : Scan(g, q, S)
<1> DEFINE n == Len(q) + 1
           Equation(g) == g = [i \in 1..n |->
             IF i > Len(q) THEN <<>>
             ELSE IF Ends(q, i) = {} THEN <<q[i]>> \o g[i + 1]
             ELSE g[CHOOSE e \in Ends(q, i) : TRUE]]
<1>1. PICK f \in [1..n -> Seq(S)] : \A i \in 1..n : f[i] = Scanned(f, q, i)
  BY ScanExists
<1>2. Equation(f)
  BY <1>1 DEF Scanned
<1>3. \E g : Equation(g) /\ Kept(q) = g[1]
  BY ZenonT(40), <1>2 DEF Kept
<1>4. PICK g : Equation(g) /\ Kept(q) = g[1]
  BY <1>3
<1>5. \A i \in 1..n : g[i] = Scanned(g, q, i)
  BY <1>4 DEF Scanned
<1> DEFINE P == {m \in 0..n : m = 0 \/ \A i \in (n + 1 - m)..n : g[i] \in Seq(S)}
<1>6. n \in Nat /\ n >= 1
  OBVIOUS
<1>7. 0 \in P
  BY <1>6
<1>8. ASSUME NEW m \in 1..n, m - 1 \in P PROVE m \in P
  <2> DEFINE k == n + 1 - m
  <2>1. k \in 1..n /\ \A i \in (k + 1)..n : m # 1 /\ i \in (n + 1 - (m - 1))..n
    BY <1>6
  <2>2. \A i \in (k + 1)..n : g[i] \in Seq(S)
    BY <1>8, <2>1
  <2> HIDE DEF k, Equation
  <2>3. Scanned(g, q, k) \in Seq(S)
    BY <2>1, <2>2, ScannedIs
  <2>4. g[k] \in Seq(S)
    BY <1>5, <2>1, <2>3
  <2> HIDE DEF n
  <2>5. \A i \in k..n : g[i] \in Seq(S)
    BY <1>6, <2>1, <2>2, <2>4
  <2>6. QED
    BY <1>6, <2>5 DEF k
<1> HIDE DEF P, Equation
<1>9. \A m \in 1..n : m - 1 \in P => m \in P
  BY <1>8
<1>10. n \in P
  <2> HIDE DEF n
  <2>1. \A m \in 0..n : m \in P
    BY <1>6, <1>7, <1>9, UpTo
  <2>2. QED
    BY <1>6, <2>1
<1>11. \A i \in 1..n : g[i] \in Seq(S)
  <2>1. n + 1 - n = 1 /\ n # 0
    BY <1>6
  <2> HIDE DEF n
  <2>2. QED
    BY <1>10, <2>1 DEF P
<1>12. Scan(g, q, S)
  BY <1>4, <1>5, <1>11 DEF Scan
<1>13. QED
  BY <1>12

LEMMA KeptText ==
  ASSUME NEW S, NEW q \in Seq(S)
  PROVE  Kept(q) \in Seq(S)
<1>1. PICK g : Scan(g, q, S)
  BY ScanIs
<1>2. 1 \in 1..(Len(q) + 1)
  OBVIOUS
<1>3. QED
  BY <1>1, <1>2 DEF Scan

LEMMA ParsedText ==
  ASSUME NEW q, IsText(q)
  PROVE  IsText(parse(q).q)
<1> DEFINE S == Range(q) \cup {Space}
<1>1. q \in Seq(S) /\ Space \in S
  BY MoreSymbols DEF IsText
<1> HIDE DEF S
<1>2. Kept(q) \in Seq(S)
  BY <1>1, KeptText
<1>3. Join(Tokens(Kept(q))) \in Seq(S)
  BY <1>1, <1>2, TokensText, JoinedText
<1>4. remove_br_noise(q) \in Seq(S)
  BY <1>1, <1>3 DEF remove_br_noise, Cleaned
<1>5. parse(q).q = remove_br_noise(q)
  BY DEF parse
<1>6. QED
  BY <1>4, <1>5, TextIn

-----------------------------------------------------------------------------
(* The terms a query is expanded with                                      *)

AddedTerm(seen, terms, t) ==
  LET w == Trimmed(t) IN
  IF Len(terms) = MaxTerms \/ SizeOf(w) < MinTerm \/ w \in seen \cup Range(terms)
  THEN terms ELSE Append(terms, w)

LEMMA AddedTermIs ==
  ASSUME NEW S, NEW seen, NEW terms \in Seq(Seq(S)), NEW t \in Seq(S)
  PROVE  AddedTerm(seen, terms, t) \in Seq(Seq(S))
<1>1. Trimmed(t) \in Seq(S)
  BY TrimmedText
<1>2. Append(terms, Trimmed(t)) \in Seq(Seq(S))
  BY <1>1
<1>3. QED
  BY <1>2 DEF AddedTerm

AddedTerms(seen, words) ==
  FoldLeft(LAMBDA terms, t : AddedTerm(seen, terms, t), <<>>, words)

LEMMA AddedTermsText ==
  ASSUME NEW S, NEW seen, NEW words \in Seq(Seq(S))
  PROVE  AddedTerms(seen, words) \in Seq(Seq(S))
<1> DEFINE A == Seq(Seq(S))
           B == Seq(S)
           n == Len(words)
           F == [x \in A \X B |-> AddedTerm(seen, x[1], x[2])]
           Equation(g) == g = [T \in SUBSET (DOMAIN words) |->
             IF T = {} THEN <<>> ELSE AddedTerm(seen, g[T \ {Max(T)}], words[Max(T)])]
<1>1. n \in Nat /\ words \in [1..n -> B] /\ DOMAIN words = 1..n
  OBVIOUS
<1>2. F \in [A \X B -> A] /\ \A a \in A, b \in B : F[<<a, b>>] = AddedTerm(seen, a, b)
  BY AddedTermIs
<1>3. <<>> \in A
  BY EmptySeq
<1> HIDE DEF A, B, F
<1>4. PICK g \in [SUBSET (1..n) -> A] : Solves(g, F, <<>>, words, n)
  BY <1>1, <1>2, <1>3, FoldExists
<1>5. ASSUME NEW T \in SUBSET (1..n), T # {}
      PROVE  g[T] = AddedTerm(seen, g[T \ {Max(T)}], words[Max(T)])
  <2>1. Max(T) \in 1..n
    BY <1>1, <1>5, GreatestIs DEF HasGreatest
  <2>2. g[T \ {Max(T)}] \in A /\ words[Max(T)] \in B
    BY <1>1, <1>4, <2>1
  <2>3. g[T] = F[<<g[T \ {Max(T)}], words[Max(T)]>>]
    BY <1>4, <1>5 DEF Solves
  <2>4. QED
    BY <1>2, <2>2, <2>3
<1>6. \A T \in SUBSET (1..n) :
        g[T] = IF T = {} THEN <<>> ELSE AddedTerm(seen, g[T \ {Max(T)}], words[Max(T)])
  BY <1>4, <1>5 DEF Solves
<1>7. Equation(g)
  BY <1>1, <1>4, <1>6
<1>8. \E h : Equation(h) /\ AddedTerms(seen, words) = h[DOMAIN words]
  BY <1>7 DEF AddedTerms, FoldLeft, MapThenFoldSet
<1>9. PICK h : Equation(h) /\ AddedTerms(seen, words) = h[DOMAIN words]
  BY <1>8
<1>10. \A T \in SUBSET (1..n) :
         h[T] = IF T = {} THEN <<>> ELSE AddedTerm(seen, h[T \ {Max(T)}], words[Max(T)])
  BY <1>1, <1>9
<1> HIDE DEF Equation
<1> DEFINE P == {m \in 0..n : h[1..m] \in A}
<1>11. 0 \in P
  <2>1. h[{}] = <<>>
    BY <1>10
  <2>2. h[1..0] = <<>>
    BY <2>1, NoPrefix, Zenon
  <2>3. QED
    BY <1>1, <1>3, <2>2
<1>12. ASSUME NEW m \in 1..n, m - 1 \in P PROVE m \in P
  <2>1. h[1..m] = AddedTerm(seen, h[1..(m - 1)], words[m])
    BY <1>1, <1>10, PrefixIs
  <2>2. h[1..(m - 1)] \in A /\ words[m] \in B
    BY <1>1, <1>12
  <2>3. h[1..m] \in A
    BY <2>1, <2>2, AddedTermIs DEF A, B
  <2>4. QED
    BY <1>1, <2>3
<1> HIDE DEF P
<1>13. \A m \in 1..n : m - 1 \in P => m \in P
  BY <1>12
<1>14. \A m \in 0..n : m \in P
  BY <1>1, <1>11, <1>13, UpTo
<1>15. h[1..n] \in A
  BY <1>1, <1>14 DEF P
<1>16. QED
  BY <1>1, <1>9, <1>15 DEF A

\* The texts that may be read.
ReadTexts == {LowerOf(Doc(p).text) : p \in DOMAIN case.products}

LEMMA ExpansionText ==
  ASSUME case \in Cases, NEW base, NEW X, NEW s \in Seq(X),
         NEW readable \in SUBSET (DOMAIN case.products)
  PROVE  \E S : Space \in S /\ ExpansionTerms(base, s, readable) \in Seq(Seq(S))
<1> DEFINE S == {Space} \cup UNION {Range(t) : t \in ReadTexts}
           k == Min({TopCandidates, Len(s)})
           best == SubSeq(s, 1, k)
           ss == [i \in DOMAIN best |->
                    IF best[i] \in readable THEN Tokens(LowerOf(Doc(best[i]).text)) ELSE <<>>]
           seen == Range(Tokens(LowerOf(base)))
<1>1. \A p \in DOMAIN case.products : LowerOf(Doc(p).text) \in Seq(S)
  <2> SUFFICES ASSUME NEW p \in DOMAIN case.products PROVE LowerOf(Doc(p).text) \in Seq(S)
    OBVIOUS
  <2>1. IsText(LowerOf(Doc(p).text))
    BY DataAssumption, LowerText DEF Doc
  <2>2. Range(LowerOf(Doc(p).text)) \subseteq S
    BY DEF ReadTexts
  <2> HIDE DEF S
  <2>3. QED
    BY <2>1, <2>2, MoreSymbols DEF IsText
<1>2. Space \in S
  OBVIOUS
<1> HIDE DEF S
<1>3. k \in Nat /\ k <= Len(s)
  BY LesserOf DEF TopCandidates
<1> HIDE DEF k
<1>4. best \in Seq(X)
  BY <1>3, PartIs
<1>5. ss \in [1..Len(best) -> Seq(Seq(S))] /\ Len(best) \in Nat
  <2>1. \A p \in readable : Tokens(LowerOf(Doc(p).text)) \in Seq(Seq(S))
    BY <1>1, TokensText
  <2>2. <<>> \in Seq(Seq(S))
    BY EmptySeq
  <2>3. DOMAIN best = 1..Len(best) /\ Len(best) \in Nat
    BY <1>4
  <2> HIDE DEF best
  <2>4. QED
    BY <2>1, <2>2, <2>3
<1> HIDE DEF best
<1>6. ss \in Seq(Seq(Seq(S)))
  BY <1>5, ArrayIs
<1> HIDE DEF ss
<1>7. FlattenSeq(ss) \in Seq(Seq(S))
  BY <1>6, FlattenText
<1> HIDE DEF seen
<1>8. AddedTerms(seen, FlattenSeq(ss)) \in Seq(Seq(S))
  BY <1>7, AddedTermsText
<1>9. ExpansionTerms(base, s, readable)
        = AddedTerms(seen, FlattenSeq(ss))
  BY DEF ExpansionTerms, AddedTerms, AddedTerm, ss, best, k, seen
<1>10. QED
  BY <1>2, <1>8, <1>9

-----------------------------------------------------------------------------
(* The stores, and the products in them                                    *)

Churned == {"rows", "vectors", "texts"} \X (DOMAIN case.products) \X BOOLEAN

\* The stores hold products of the case; what has been there since the call began
\* is there; the candidates of a call are finitely many of those products.
StoresInv ==
  /\ rows \cup vectors \cup texts \subseteq DOMAIN case.products
  /\ churn \in Seq(Churned)
  /\ stable \subseteq rows \cap texts
  /\ work.first \subseteq DOMAIN case.products
  /\ DOMAIN work.cand \subseteq DOMAIN case.products

LEMMA WorkIs ==
  /\ {"q", "eff", "filters", "weights", "first", "cand", "clicks", "todo", "score", "marks"}
       = DOMAIN NoWork
  /\ NoWork.first = {} /\ DOMAIN NoWork.cand = {} /\ NoWork.marks = {}
BY DEF NoWork, Empty

LEMMA ProductsAre ==
  ASSUME case \in Cases, call \in 1..Len(case.calls)
  PROVE  /\ IsFiniteSet(DOMAIN case.products) /\ DOMAIN case.products \subseteq Products
         /\ case.there \subseteq DOMAIN case.products /\ case.churn \in Seq(Churned)
         /\ IsText(Req.q) /\ Req \in Range(case.calls)
<1>1. /\ IsFiniteSet(DOMAIN case.products) /\ DOMAIN case.products \subseteq Products
      /\ case.there \subseteq DOMAIN case.products /\ case.churn \in Seq(Churned)
  BY SearchAssumption, DataAssumption DEF Churned
<1>2. case.calls \in Seq(Range(case.calls))
  BY SearchAssumption
<1>3. Req \in Range(case.calls)
  BY <1>2 DEF Req
<1>4. IsText(Req.q)
  BY <1>3, DataAssumption
<1>5. QED
  BY <1>1, <1>3, <1>4

\* The first results are those of the whole index if there is room for all.
LEMMA TopKIs ==
  ASSUME NEW S, NEW score, NEW k, NEW R \in TopK(S, score, k)
  PROVE  /\ R \subseteq S
         /\ IsFiniteSet(S) /\ k \in Nat /\ Cardinality(S) <= k => R = S
<1>1. R \subseteq S /\ Cardinality(R) = Min({k, Cardinality(S)})
  BY DEF TopK
<1>2. ASSUME IsFiniteSet(S), k \in Nat, Cardinality(S) <= k PROVE R = S
  <2>1. Cardinality(S) \in Nat
    BY <1>2, FS_CardinalityType
  <2>2. Min({k, Cardinality(S)}) = Cardinality(S)
    <3> DEFINE n == Cardinality(S)
               T == {k, n}
    <3>1. T \in SUBSET Nat /\ T # {}
      BY <1>2, <2>1
    <3>2. Min(T) \in T /\ \A m \in T : Min(T) <= m
      BY <3>1, LeastNumber
    <3>3. n \in T
      OBVIOUS
    <3> HIDE DEF n
    <3>4. QED
      BY <1>2, <2>1, <3>2, <3>3 DEF n
  <2>3. QED
    BY <1>1, <1>2, <2>2, FS_Subset
<1>3. QED
  BY <1>1, <1>2

LEMMA FoundIs ==
  ASSUME NEW q, NEW f, NEW R \in OrNothing(SearchText(q, f))
  PROVE  R \subseteq texts
<1>1. CASE R = {}
  BY <1>1
<1>2. CASE R \in SearchText(q, f)
  BY <1>2, TopKIs DEF SearchText
<1>3. QED
  BY <1>1, <1>2 DEF OrNothing

LEMMA StoresInit ==
  ASSUME Init
  PROVE  StoresInv
<1>1. case \in Cases /\ call \in 1..Len(case.calls)
  BY BaseInit DEF BaseInv
<1>2. /\ rows = case.there /\ vectors = case.there /\ texts = case.there /\ stable = {}
      /\ churn = case.churn /\ work = NoWork
  BY DEF Init
<1>3. QED
  BY <1>1, <1>2, ProductsAre, WorkIs DEF StoresInv

LEMMA StoresRest ==
  ASSUME StoresInv, UNCHANGED <<stores, case, stable>>,
         work'.first \subseteq DOMAIN case.products,
         DOMAIN work'.cand \subseteq DOMAIN case.products
  PROVE  StoresInv'
<1>1. Churned' = Churned
  BY DEF Churned
<1>2. QED
  BY <1>1 DEF StoresInv, stores

LEMMA RetrieveKeepsStores ==
  ASSUME BaseInv, StoresInv, Retrieve
  PROVE  StoresInv'
<1> USE DEF BaseInv
<1>1. UNCHANGED <<stores, case, stable>>
  BY RetrieveIs
<1> DEFINE P == DOMAIN case.products
<1>2. work.first \subseteq P /\ DOMAIN work.cand \subseteq P /\ texts \subseteq P /\ vectors \subseteq P
  BY DEF StoresInv
<1>3. CASE VectorSearch
  <2>1. PICK R \in TopK(vectors, Similarity, Pool(Req)) :
          work'.first = work.first /\ DOMAIN work'.cand = R
    BY <1>3, WorkIs DEF VectorSearch
  <2>2. QED
    BY <1>1, <1>2, <2>1, TopKIs, StoresRest
<1>4. CASE FirstTextSearch
  <2>1. \E f : \E R \in OrNothing(SearchText(Normalize(work.q), f)) :
          work'.first = R /\ DOMAIN work'.cand \in {DOMAIN work.cand, R}
    BY <1>4, WorkIs DEF FirstTextSearch
  <2>2. QED
    BY <1>1, <1>2, <2>1, FoundIs, StoresRest
<1>5. CASE Reformulate \/ Expand \/ GetClicks
  <2>1. work'.first = work.first /\ work'.cand = work.cand
    <3>1. CASE Reformulate
      BY <3>1, WorkIs DEF Reformulate
    <3>2. CASE Expand
      BY <3>2, WorkIs DEF Expand
    <3>3. CASE GetClicks
      BY <3>3, WorkIs DEF GetClicks
    <3>4. QED
      BY <1>5, <3>1, <3>2, <3>3
  <2>2. QED
    BY <1>1, <1>2, <2>1, StoresRest
<1>6. CASE SecondTextSearch
  <2>1. \E R \in OrNothing(SearchText(work.eff, work.filters)) \cup {work.first} :
          work'.first = work.first /\ DOMAIN work'.cand = DOMAIN work.cand \cup R
    BY ZenonT(40), <1>6, WorkIs DEF SecondTextSearch
  <2>2. QED
    BY <1>1, <1>2, <2>1, FoundIs, StoresRest
<1>7. QED
  BY <1>3, <1>4, <1>5, <1>6 DEF Retrieve

LEMMA ChurnIs ==
  ASSUME StoresInv, ComeOrGo
  PROVE  /\ StoresInv' /\ stable' \subseteq stable
         /\ UNCHANGED <<overrideVars, case, gazetteer, cache, call, work, answers>>
<1> DEFINE e == Head(churn)
           New(store, S) == IF e[1] # store THEN S ELSE IF e[3] THEN S \cup {e[2]} ELSE S \ {e[2]}
<1>1. /\ churn # <<>> /\ churn' = Tail(churn) /\ stable' = stable \ {e[2]}
      /\ rows' = New("rows", rows) /\ vectors' = New("vectors", vectors)
      /\ texts' = New("texts", texts)
      /\ UNCHANGED <<overrideVars, case, gazetteer, cache, call, work, answers>>
  BY DEF ComeOrGo
<1>2. e \in Churned /\ churn' \in Seq(Churned)
  BY <1>1 DEF StoresInv
<1>3. e[2] \in DOMAIN case.products
  BY <1>2 DEF Churned
<1> HIDE DEF e
<1>4. /\ rows' \cup vectors' \cup texts' \subseteq DOMAIN case.products
      /\ stable' \subseteq rows' \cap texts'
  BY <1>1, <1>3 DEF StoresInv
<1>5. Churned' = Churned
  BY <1>1 DEF Churned
<1>6. QED
  BY <1>1, <1>2, <1>4, <1>5 DEF StoresInv

LEMMA StoresStep ==
  ASSUME BaseInv, StoresInv, [Next]_vars
  PROVE  StoresInv'
<1> USE DEF BaseInv
<1>1. CASE Retrieve
  BY <1>1, RetrieveKeepsStores
<1>2. CASE ComeOrGo
  BY <1>2, ChurnIs
<1>3. CASE Lookup
  <2>1. stable' = rows \cap texts /\ UNCHANGED <<stores, case, work>>
    BY <1>3 DEF Lookup
  <2>2. QED
    BY <2>1 DEF StoresInv, Churned, stores
<1>4. CASE Parse \/ BeginList
  <2>1. UNCHANGED <<stores, case, stable>>
    BY <1>4 DEF Parse, BeginList
  <2>3. Parse => work'.first = NoWork.first /\ work'.cand = NoWork.cand
    BY WorkIs DEF Parse
  <2>4. BeginList => work'.first = NoWork.first /\ work'.cand = NoWork.cand
    BY WorkIs DEF BeginList
  <2>2. QED
    BY <1>4, <2>1, <2>3, <2>4, WorkIs, StoresRest
<1>5. CASE ScoreCandidate \/ TakeFromList
  <2>1. /\ UNCHANGED <<stores, case, stable>>
        /\ work'.first = work.first /\ work'.cand = work.cand
    BY <1>5, WorkIs DEF ScoreCandidate, TakeFromList
  <2>2. QED
    BY <2>1, StoresRest DEF StoresInv
<1>6. CASE Rank \/ ApplyOverrides \/ Respond \/ EndList \/ Fail \/ NextCall \/ UNCHANGED vars
  <2>1. UNCHANGED <<stores, case, stable, work>>
    BY <1>6, OverrideIs
       DEF Rank, ApplyOverrides, Respond, EndList, Fail, NextCall, vars, stores
  <2>2. QED
    BY <2>1, StoresRest DEF StoresInv
<1>7. QED
  BY <1>1, <1>2, <1>3, <1>4, <1>5, <1>6 DEF Next, Retrieve, Finished

StableInv == BaseInv /\ ListInv /\ AnswersPass /\ WorkPasses /\ StoresInv

LEMMA StoresAreInOrder == Spec => []StableInv
<1>1. Init => StoresInv
  BY StoresInit
<1>2. (BaseInv /\ ListInv /\ AnswersPass /\ WorkPasses) /\ StoresInv /\ [Next]_vars => StoresInv'
  BY StoresStep
<1>3. QED
  BY <1>1, <1>2, AnswersAreInOrder, PTL DEF Spec, StableInv

-----------------------------------------------------------------------------
(* What the text index finds                                               *)

LEMMA PoolIs ==
  ASSUME case \in Cases, call \in 1..Len(case.calls)
  PROVE  Pool(Req) \in Nat
<1> DEFINE page == Limit(Req) + Offset(Req)
           asked == IF Req.pool = 0 THEN 5 * page ELSE Req.pool
           T == {asked, page}
<1>1. {Req.limit, Req.offset, Req.pool} \subseteq Nat /\ MaxPool \in Nat
  BY ProductsAre, SearchAssumption
<1>2. page \in Nat
  BY <1>1, OffsetsAre
<1> HIDE DEF page
<1>3. asked \in Nat
  BY <1>1, <1>2
<1> HIDE DEF asked
<1>4. Max(T) \in T
  <2>1. \E m \in T : \A k \in T : m >= k
    BY <1>2, <1>3
  <2>2. QED
    BY <2>1 DEF Max
<1>5. Max({asked, page}) \in Nat
  BY <1>2, <1>3, <1>4
<1>6. Min({MaxPool, Max({asked, page})}) \in Nat
  BY <1>1, <1>5, LesserOf
<1>7. QED
  BY <1>6 DEF Pool, asked, page

LEMMA TextScoreIs ==
  ASSUME case \in Cases, call \in 1..Len(case.calls), NEW q, NEW p \in DOMAIN case.products
  PROVE  TextScore(q)[p]
           = 1000 * Cardinality(Terms(Normalize(Doc(p).text)) \cap Terms(q))
BY ProductsAre DEF TextScore

\* A product with one of the words is found.
LEMMA HasTerm ==
  ASSUME case \in Cases, call \in 1..Len(case.calls), NEW p \in DOMAIN case.products,
         NEW q, NEW r, TextScore(q)[p] > 0, Terms(q) \subseteq Terms(r), IsText(r)
  PROVE  TextScore(r)[p] > 0
<1> DEFINE T == Terms(Normalize(Doc(p).text))
<1>1. T \cap Terms(q) # {}
  BY FS_EmptySet, TextScoreIs
<1>2. T \cap Terms(r) # {} /\ IsFiniteSet(T \cap Terms(r))
  BY <1>1, TermsFinite, FS_Subset
<1>3. Cardinality(T \cap Terms(r)) \in Nat /\ Cardinality(T \cap Terms(r)) # 0
  BY <1>2, FS_CardinalityType, FS_EmptySet
<1>4. TextScore(r)[p] = 1000 * Cardinality(T \cap Terms(r))
  BY TextScoreIs
<1> HIDE DEF T
<1>5. QED
  BY <1>3, <1>4

Room(q, r) == ~ (Cardinality({p \in DOMAIN case.products : TextScore(q)[p] > 0}) > Pool(r))

LEMMA FoundAll ==
  ASSUME BaseInv, StoresInv, NEW q, NEW f, NEW R \in SearchText(q, f), Room(q, Req)
  PROVE  R = {p \in texts : TextScore(q)[p] > 0 /\ MatchesFacets(Doc(p).meta, f)}
<1> DEFINE X == {p \in texts : TextScore(q)[p] > 0 /\ MatchesFacets(Doc(p).meta, f)}
           Y == {p \in DOMAIN case.products : TextScore(q)[p] > 0}
<1>1. IsFiniteSet(Y)
  BY ProductsAre, FS_Subset DEF BaseInv
<1>2. X \subseteq Y
  BY DEF StoresInv
<1>3. IsFiniteSet(X) /\ Cardinality(X) <= Cardinality(Y)
      /\ Cardinality(X) \in Nat /\ Cardinality(Y) \in Nat
  BY <1>1, <1>2, FS_Subset, FS_CardinalityType
<1>4. Pool(Req) \in Nat
  BY PoolIs DEF BaseInv
<1>5. ~ (Cardinality(Y) > Pool(Req))
  BY DEF Room
<1>6. R \in TopK(X, TextScore(q), Pool(Req))
  BY DEF SearchText
<1> HIDE DEF X, Y
<1>7. QED
  BY <1>3, <1>4, <1>5, <1>6, TopKIs DEF X

LEMMA FacetsAreFewer ==
  ASSUME NEW m, NEW f, MatchesFilters(m, f)
  PROVE  MatchesFacets(m, f) /\ MatchesFacets(m, Empty)
BY DEF MatchesFilters, MatchesFacets, RangeKeys, Empty

-----------------------------------------------------------------------------
(* Correction and expansion take nothing away                              *)

\* What the text index must find for the words of the call's query.
Wanted ==
  {p \in stable : TextScore(Normalize(work.q))[p] > 0
                  /\ MatchesFilters(Doc(p).meta, work.filters)}

\* A search whose text retrieval neither fails nor is asked another question.
Sought ==
  /\ Req.mode # "semantic" /\ Spelled(work.q) /\ Room(Normalize(work.q), Req)
  /\ work.marks \cap {"rewritten", "failed"} = {}

\* From step to step: what must be found is among the results of the first search,
\* then among the candidates, then to be scored or scored.  A query that has results
\* is not corrected, only expanded, and an expanded query has the words it had.
FoundInv ==
  /\ phase \in {"reformulate", "expand", "retext"} => Wanted \subseteq work.first
  /\ phase = "expand" /\ Wanted # {} => work.eff = work.q
  /\ phase = "retext" /\ Wanted # {} =>
       work.eff = work.q \/ (IsText(work.eff) /\ Terms(work.q) \subseteq Terms(work.eff))
  /\ Room(work.eff, Req) =>
       /\ phase = "clicks" => Wanted \subseteq DOMAIN work.cand
       /\ phase = "score" => Wanted \subseteq Range(work.todo) \cup DOMAIN work.score
       /\ phase \in Ranked => Wanted \subseteq DOMAIN work.score

QueryInv ==
  /\ phase \in Finding \cup Ranked => work.q = parse(Req.q).q
  /\ phase \in {"vector", "text", "reformulate"} => work.eff = work.q
  /\ phase = "score" => work.todo \in Seq(DOMAIN case.products)

KeptInv == QueryInv /\ (Sought => FoundInv)

LEMMA SoughtStays ==
  ASSUME UNCHANGED <<case, call>>, work'.q = work.q, work'.filters = work.filters,
         work.marks \subseteq work'.marks, stable' \subseteq stable
  PROVE  /\ Req' = Req /\ Wanted' \subseteq Wanted /\ (Sought' => Sought)
         /\ \A q, r : Room(q, r)' <=> Room(q, r)
<1>1. Req' = Req
  BY DEF Req
<1>2. \A q : TextScore(q)' = TextScore(q)
  BY DEF TextScore, Doc
<1>3. \A q, r : Room(q, r)' <=> Room(q, r)
  BY <1>2 DEF Room
<1>4. Wanted' \subseteq Wanted
  BY <1>2 DEF Wanted, Doc
<1>5. Sought' => Sought
  BY <1>1, <1>3 DEF Sought
<1>6. QED
  BY <1>1, <1>3, <1>4, <1>5

\* How a retrieval step starts: what it needs of the invariant.
LEMMA RetrieveSeeks ==
  ASSUME BaseInv, KeptInv, Retrieve, work'.q = work.q, work.marks \subseteq work'.marks
  PROVE  /\ work'.q = parse(Req'.q).q
         /\ Wanted' \subseteq Wanted /\ (Sought' => Sought /\ FoundInv)
         /\ \A q : Room(q, Req)' <=> Room(q, Req)
<1>1. /\ UNCHANGED <<case, call, stable>> /\ work'.filters = work.filters /\ phase \in Finding
  BY RetrieveIs DEF BaseInv
<1>2. /\ Req' = Req /\ Wanted' \subseteq Wanted /\ (Sought' => Sought)
      /\ \A q, r : Room(q, r)' <=> Room(q, r)
  BY <1>1, SoughtStays
<1>3. \A q : Room(q, Req)' <=> Room(q, Req)
  BY <1>2 DEF Room
<1>4. QED
  BY <1>1, <1>2, <1>3 DEF KeptInv, QueryInv

LEMMA FirstKeeps ==
  ASSUME BaseInv, StoresInv, KeptInv, FirstTextSearch
  PROVE  KeptInv'
<1> DEFINE q == Normalize(work.q)
           f == IF "snippets" \in Req.options THEN Empty ELSE work.filters
           found == SearchText(q, f)
<1>1. PICK R \in OrNothing(found) :
        /\ work'.first = R /\ work'.marks = work.marks \cup Lost(R, found)
        /\ work'.q = work.q /\ work'.eff = work.eff /\ work'.filters = work.filters
  BY WorkIs DEF FirstTextSearch, BaseInv
<1>2. phase = "text" /\ phase' = "reformulate"
  BY DEF FirstTextSearch
<1>3. /\ work'.q = parse(Req'.q).q
      /\ Wanted' \subseteq Wanted /\ (Sought' => Sought /\ FoundInv)
  BY <1>1, RetrieveSeeks DEF Retrieve
<1>4. work.eff = work.q
  BY <1>2 DEF KeptInv, QueryInv
<1>5. QueryInv'
  BY <1>1, <1>2, <1>3, <1>4 DEF QueryInv
<1>6. ASSUME Sought' PROVE Wanted \subseteq R
  <2>1. R \in found
    BY <1>1, <1>6 DEF Sought, Lost
  <2>2. Room(q, Req)
    BY <1>3, <1>6 DEF Sought
  <2> HIDE DEF q, f
  <2>3. R = {p \in texts : TextScore(q)[p] > 0 /\ MatchesFacets(Doc(p).meta, f)}
    BY <2>1, <2>2, FoundAll
  <2>4. \A p \in Wanted : /\ p \in texts /\ TextScore(q)[p] > 0
                          /\ MatchesFilters(Doc(p).meta, work.filters)
    BY DEF Wanted, StoresInv, q
  <2>5. \A p \in Wanted : MatchesFacets(Doc(p).meta, f)
    BY <2>4, FacetsAreFewer DEF f
  <2>6. QED
    BY <2>3, <2>4, <2>5
<1>7. Sought' => FoundInv'
  BY <1>1, <1>2, <1>3, <1>6 DEF FoundInv, Ranked, Editing
<1>8. QED
  BY <1>5, <1>7 DEF KeptInv

\* The query e, and the marks m.
Asks(e, m) == work' = [work EXCEPT !.eff = e, !.marks = work.marks \cup m]

LEMMA AsksIs ==
  ASSUME DOMAIN work = DOMAIN NoWork, NEW e, NEW m, Asks(e, m)
  PROVE  /\ work'.eff = e /\ work'.marks = work.marks \cup m
         /\ work'.q = work.q /\ work'.first = work.first /\ work'.filters = work.filters
         /\ work'.cand = work.cand /\ work'.weights = work.weights
BY WorkIs DEF Asks

LEMMA ReformulateIs ==
  ASSUME Reformulate
  PROVE  /\ phase = "reformulate" /\ phase' = "expand"
         /\ \/ Asks(Correct(case.dictionary, work.q), {"corrected"})
               /\ work.first = {} /\ Correct(case.dictionary, work.q) # work.q
            \/ ~ (work.first = {} /\ Correct(case.dictionary, work.q) # work.q)
               /\ \/ \E q : Asks(q, IF q = work.q THEN {} ELSE {"rewritten"})
                  \/ UNCHANGED work
<1> DEFINE corrected == Correct(case.dictionary, work.q)
<1>1. phase = "reformulate" /\ phase' = "expand"
  BY DEF Reformulate
<1>2. CASE work.first = {} /\ corrected # work.q
  BY <1>1, <1>2 DEF Reformulate, Asks
<1>3. CASE ~ (work.first = {} /\ corrected # work.q)
  <2>1. CASE Cardinality(work.first) < Max({Limit(Req), 1})
    <3>1. \E q \in case.rewrites \cup {work.q} :
            work' = [work EXCEPT !.eff = q,
                                 !.marks = IF q = work.q THEN @ ELSE @ \cup {"rewritten"}]
      BY <1>3, <2>1 DEF Reformulate
    <3>2. PICK q \in case.rewrites \cup {work.q} :
            work' = [work EXCEPT !.eff = q,
                                 !.marks = IF q = work.q THEN @ ELSE @ \cup {"rewritten"}]
      BY <3>1
    <3>3. Asks(q, IF q = work.q THEN {} ELSE {"rewritten"})
      <4>1. (IF q = work.q THEN work.marks ELSE work.marks \cup {"rewritten"})
              = work.marks \cup (IF q = work.q THEN {} ELSE {"rewritten"})
        OBVIOUS
      <4>2. QED
        BY <3>2, <4>1 DEF Asks
    <3>4. QED
      BY <1>1, <1>3, <3>3
  <2>2. CASE ~ Cardinality(work.first) < Max({Limit(Req), 1})
    BY <1>1, <1>3, <2>2 DEF Reformulate
  <2>3. QED
    BY <2>1, <2>2
<1>4. QED
  BY <1>2, <1>3

LEMMA ReformulateKeeps ==
  ASSUME BaseInv, StoresInv, KeptInv, Reformulate
  PROVE  KeptInv'
<1>1. /\ phase = "reformulate" /\ phase' = "expand"
      /\ work'.q = work.q /\ work'.first = work.first /\ work.marks \subseteq work'.marks
      /\ work'.filters = work.filters
      /\ work'.eff = work.eff \/ work'.eff = work.q \/ work.first = {} \/ "rewritten" \in work'.marks
  BY ReformulateIs, AsksIs DEF BaseInv
<1>3. /\ work'.q = parse(Req'.q).q
      /\ Wanted' \subseteq Wanted /\ (Sought' => Sought /\ FoundInv)
  BY <1>1, RetrieveSeeks DEF Retrieve
<1>4. work.eff = work.q
  BY <1>1 DEF KeptInv, QueryInv
<1>5. QueryInv'
  BY <1>1, <1>3 DEF QueryInv
<1>6. ASSUME Sought' PROVE Wanted' \subseteq work.first /\ (Wanted' # {} => work'.eff = work.q)
  <2>1. Wanted \subseteq work.first
    BY <1>1, <1>3, <1>6 DEF FoundInv
  <2>2. "rewritten" \notin work'.marks
    BY <1>6 DEF Sought
  <2>3. QED
    BY <1>1, <1>3, <1>4, <2>1, <2>2
<1>7. Sought' => FoundInv'
  BY <1>1, <1>6 DEF FoundInv, Ranked, Editing
<1>8. QED
  BY <1>5, <1>7 DEF KeptInv

LEMMA ExpandIs ==
  ASSUME BaseInv, StoresInv, Expand
  PROVE  /\ phase = "expand" /\ phase' = "retext"
         /\ \/ UNCHANGED work
            \/ \E s \in Seq(DOMAIN case.products), readable \in SUBSET (DOMAIN case.products) :
               LET e == Expanded(work.eff, ExpansionTerms(work.eff, s, readable)) IN
               Asks(e, IF e = work.eff THEN {} ELSE {"expanded"})
<1> DEFINE c == work.cand
           few == Cardinality(work.first) < Max({Limit(Req) \div 2, 1})
           safe == {p \in DOMAIN c : c[p].bm25 > 0 \/ c[p].semantic >= MIN_SEMANTIC_EXPANSION}
           best == [p \in safe |-> Max({c[p].semantic, c[p].bm25})]
<1>1. phase = "expand" /\ phase' = "retext"
  BY DEF Expand
<1>2. CASE ~ (few /\ DOMAIN c # {})
  BY <1>1, <1>2 DEF Expand
<1>3. CASE few /\ DOMAIN c # {}
  <2>1. \E s \in SortedByScore(safe, best) :
        \E readable \in (IF case.faulty THEN SUBSET rows ELSE {rows}) :
          LET e == Expanded(work.eff, ExpansionTerms(work.eff, s, readable)) IN
          work' = [work EXCEPT !.eff = e,
                               !.marks = IF e = work.eff THEN @ ELSE @ \cup {"expanded"}]
    BY <1>3 DEF Expand
  <2>2. PICK s \in SortedByScore(safe, best), readable \in SUBSET rows :
          LET e == Expanded(work.eff, ExpansionTerms(work.eff, s, readable)) IN
          work' = [work EXCEPT !.eff = e,
                               !.marks = IF e = work.eff THEN @ ELSE @ \cup {"expanded"}]
    BY <2>1
  <2> DEFINE e == Expanded(work.eff, ExpansionTerms(work.eff, s, readable))
  <2>3. work' = [work EXCEPT !.eff = e,
                             !.marks = IF e = work.eff THEN @ ELSE @ \cup {"expanded"}]
    BY <2>2
  <2>4. IsFiniteSet(safe) /\ safe \subseteq DOMAIN case.products
    BY ProductsAre, FS_Subset DEF BaseInv, StoresInv
  <2> HIDE DEF safe, best
  <2>5. s \in Seq(DOMAIN case.products)
    BY <2>4, OrdersAre, MoreSymbols DEF SortedByScore
  <2>6. readable \in SUBSET (DOMAIN case.products)
    BY DEF StoresInv
  <2> DEFINE d == e
  <2> HIDE DEF d
  <2>7. (IF d = work.eff THEN work.marks ELSE work.marks \cup {"expanded"})
          = work.marks \cup (IF d = work.eff THEN {} ELSE {"expanded"})
    OBVIOUS
  <2>8. work' = [work EXCEPT !.eff = d,
                             !.marks = IF d = work.eff THEN @ ELSE @ \cup {"expanded"}]
    BY <2>3 DEF d
  <2>9. Asks(d, IF d = work.eff THEN {} ELSE {"expanded"})
    BY <2>7, <2>8 DEF Asks
  <2>10. QED
    BY <1>1, <2>5, <2>6, <2>9 DEF d
<1>4. QED
  BY <1>2, <1>3

\* The terms go behind the query.
LEMMA ExpandedIs ==
  ASSUME BaseInv, StoresInv, Expand, IsText(work.eff)
  PROVE  /\ IsText(work'.eff) /\ Terms(work.eff) \subseteq Terms(work'.eff)
         /\ phase = "expand" /\ phase' = "retext"
         /\ work'.q = work.q /\ work'.first = work.first /\ work.marks \subseteq work'.marks
         /\ work'.filters = work.filters
<1>1. /\ phase = "expand" /\ phase' = "retext"
      /\ work'.q = work.q /\ work'.first = work.first /\ work.marks \subseteq work'.marks
      /\ work'.filters = work.filters
  BY ExpandIs, AsksIs DEF BaseInv
<1>2. CASE work'.eff = work.eff
  BY <1>1, <1>2
<1>3. CASE work'.eff # work.eff
  <2>1. PICK s \in Seq(DOMAIN case.products), readable \in SUBSET (DOMAIN case.products) :
          work'.eff = Expanded(work.eff, ExpansionTerms(work.eff, s, readable))
    BY <1>3, ExpandIs, AsksIs DEF BaseInv
  <2> DEFINE terms == ExpansionTerms(work.eff, s, readable)
  <2>6. PICK S : Space \in S /\ terms \in Seq(Seq(S))
    BY ExpansionText DEF BaseInv
  <2> HIDE DEF terms
  <2>7. work'.eff = Longer(work.eff, Join(terms))
    BY <1>3, <2>1 DEF Expanded, Longer, terms
  <2> DEFINE T == S \cup Range(work.eff)
  <2>8. Join(terms) \in Seq(S)
    BY <2>6, JoinedText
  <2>9. S \subseteq T /\ Range(work.eff) \subseteq T /\ Space \in T
    BY <2>6
  <2> HIDE DEF T
  <2>10. Join(terms) \in Seq(T) /\ work.eff \in Seq(T)
    BY <2>8, <2>9, MoreSymbols DEF IsText
  <2>11. Longer(work.eff, Join(terms)) \in Seq(T)
    BY <2>9, <2>10, LongerIs
  <2>12. IsText(Longer(work.eff, Join(terms)))
    BY <2>11, TextIn
  <2>13. Terms(work.eff) \subseteq Terms(Longer(work.eff, Join(terms)))
    BY <2>9, <2>10, TermsGrow
  <2>14. QED
    BY <1>1, <2>7, <2>12, <2>13
<1>4. QED
  BY <1>2, <1>3

LEMMA ExpandKeeps ==
  ASSUME BaseInv, StoresInv, KeptInv, Expand
  PROVE  KeptInv'
<1>1. /\ phase = "expand" /\ phase' = "retext"
      /\ work'.q = work.q /\ work'.first = work.first /\ work.marks \subseteq work'.marks
      /\ work'.filters = work.filters
  BY ExpandIs, AsksIs DEF BaseInv
<1>2. /\ work'.q = parse(Req'.q).q
      /\ Wanted' \subseteq Wanted /\ (Sought' => Sought /\ FoundInv)
  BY <1>1, RetrieveSeeks DEF Retrieve
<1>3. QueryInv'
  BY <1>1, <1>2 DEF QueryInv
<1>4. IsText(work.q)
  <2>1. work.q = parse(Req.q).q
    BY <1>1 DEF KeptInv, QueryInv, Finding
  <2>2. QED
    BY <2>1, ProductsAre, ParsedText DEF BaseInv
<1>5. ASSUME Sought'
      PROVE  /\ Wanted' \subseteq work.first
             /\ Wanted' # {} => IsText(work'.eff) /\ Terms(work.q) \subseteq Terms(work'.eff)
  <2>1. Wanted \subseteq work.first /\ (Wanted # {} => work.eff = work.q)
    BY <1>1, <1>2, <1>5 DEF FoundInv
  <2>2. IsText(work.eff) => IsText(work'.eff) /\ Terms(work.eff) \subseteq Terms(work'.eff)
    BY ExpandedIs
  <2>3. QED
    BY <1>2, <1>4, <2>1, <2>2
<1>6. Sought' => FoundInv'
  BY <1>1, <1>5 DEF FoundInv, Ranked, Editing
<1>7. QED
  BY <1>3, <1>6 DEF KeptInv

LEMMA SecondKeeps ==
  ASSUME BaseInv, StoresInv, KeptInv, SecondTextSearch
  PROVE  KeptInv'
<1> DEFINE again == work.eff # work.q
           found == IF again THEN SearchText(work.eff, work.filters) ELSE {work.first}
<1>1. PICK R \in IF again THEN OrNothing(found) ELSE found :
        /\ DOMAIN work'.cand = DOMAIN work.cand \cup R
        /\ work'.marks = work.marks \cup Lost(R, found)
        /\ work'.q = work.q /\ work'.eff = work.eff /\ work'.filters = work.filters
  BY WorkIs DEF SecondTextSearch, BaseInv
<1>2. phase = "retext" /\ phase' = "clicks"
  BY DEF SecondTextSearch
<1>3. /\ work'.q = parse(Req'.q).q
      /\ Wanted' \subseteq Wanted /\ (Sought' => Sought /\ FoundInv)
      /\ \A q : Room(q, Req)' <=> Room(q, Req)
  BY <1>1, RetrieveSeeks DEF Retrieve
<1>4. QueryInv'
  BY <1>2, <1>3 DEF QueryInv
<1>5. ASSUME Sought', Room(work.eff, Req), NEW p \in Wanted PROVE p \in R
  <2>1. R \in found
    BY <1>1, <1>5 DEF Sought, Lost
  <2>2. Wanted \subseteq work.first
    BY <1>2, <1>3, <1>5 DEF FoundInv
  <2>3. CASE ~ again
    BY <1>5, <2>1, <2>2, <2>3
  <2>4. CASE again
    <3>1. IsText(work.eff) /\ Terms(work.q) \subseteq Terms(work.eff)
      BY <1>2, <1>3, <1>5, <2>4 DEF FoundInv
    <3>2. Terms(Normalize(work.q)) \subseteq Terms(work.eff)
      BY <1>3, <1>5, <3>1 DEF Sought, Spelled
    <3>3. /\ p \in texts /\ p \in DOMAIN case.products /\ TextScore(Normalize(work.q))[p] > 0
          /\ MatchesFilters(Doc(p).meta, work.filters)
      BY <1>5 DEF Wanted, StoresInv
    <3>4. TextScore(work.eff)[p] > 0
      BY <3>1, <3>2, <3>3, HasTerm DEF BaseInv
    <3>5. MatchesFacets(Doc(p).meta, work.filters)
      BY <3>3, FacetsAreFewer
    <3>6. R = {x \in texts : TextScore(work.eff)[x] > 0
                             /\ MatchesFacets(Doc(x).meta, work.filters)}
      BY <1>5, <2>1, <2>4, FoundAll
    <3>7. QED
      BY <3>3, <3>4, <3>5, <3>6
  <2>5. QED
    BY <2>3, <2>4
<1>6. Sought' => FoundInv'
  <2> SUFFICES ASSUME Sought' PROVE FoundInv'
    OBVIOUS
  <2>1. Room(work.eff, Req)' <=> Room(work.eff, Req)
    BY <1>1, <1>3 DEF Room
  <2>2. Room(work.eff, Req)' => Wanted' \subseteq DOMAIN work'.cand
    BY <1>1, <1>3, <1>5, <2>1
  <2>3. QED
    BY <1>2, <2>2 DEF FoundInv, Ranked, Editing
<1>7. QED
  BY <1>4, <1>6 DEF KeptInv

LEMMA ClicksKeep ==
  ASSUME BaseInv, StoresInv, KeptInv, GetClicks
  PROVE  KeptInv'
<1>1. PICK s \in Ascending(DOMAIN work.cand) :
        /\ work'.todo = s /\ work'.cand = work.cand /\ work'.marks = work.marks
        /\ work'.q = work.q /\ work'.eff = work.eff /\ work'.filters = work.filters
  BY WorkIs DEF GetClicks, BaseInv
<1>2. phase = "clicks" /\ phase' = "score" /\ case' = case
  BY DEF GetClicks
<1>3. /\ work'.q = parse(Req'.q).q
      /\ Wanted' \subseteq Wanted /\ (Sought' => Sought /\ FoundInv)
      /\ \A q : Room(q, Req)' <=> Room(q, Req)
  BY <1>1, RetrieveSeeks DEF Retrieve
<1>4. s \in Seq(DOMAIN work.cand) /\ Range(s) = DOMAIN work.cand
  <2>1. IsFiniteSet(DOMAIN work.cand)
    BY ProductsAre, FS_Subset DEF BaseInv, StoresInv
  <2>2. QED
    BY <2>1, OrdersAre DEF Ascending
<1>5. s \in Seq(DOMAIN case.products)
  BY <1>4, MoreSymbols DEF StoresInv
<1>6. QueryInv'
  BY <1>1, <1>2, <1>3, <1>5 DEF QueryInv
<1>7. Sought' => FoundInv'
  <2> SUFFICES ASSUME Sought' PROVE FoundInv'
    OBVIOUS
  <2>1. Room(work.eff, Req)' <=> Room(work.eff, Req)
    BY <1>1, <1>3 DEF Room
  <2>2. Room(work.eff, Req)' => Wanted' \subseteq Range(work'.todo)
    BY <1>1, <1>2, <1>3, <1>4, <2>1 DEF FoundInv
  <2>3. QED
    BY <1>2, <2>2 DEF FoundInv, Ranked, Editing
<1>8. QED
  BY <1>6, <1>7 DEF KeptInv

LEMMA TailOf ==
  ASSUME NEW S, NEW s \in Seq(S), s # <<>>
  PROVE  Tail(s) \in Seq(S)
OBVIOUS

LEMMA HeadAndTail ==
  ASSUME NEW S, NEW s \in Seq(S), s # <<>>
  PROVE  Range(s) = {Head(s)} \cup Range(Tail(s))
<1> DEFINE n == Len(s)
           t == Tail(s)
<1>1. n \in Nat /\ n >= 1 /\ DOMAIN s = 1..n /\ Head(s) = s[1]
  OBVIOUS
<1>2. DOMAIN t = 1..(n - 1) /\ \A i \in 1..(n - 1) : t[i] = s[i + 1]
  OBVIOUS
<1> HIDE DEF n, t
<1>3. ASSUME NEW i \in 1..n PROVE s[i] \in {s[1]} \cup Range(t)
  <2>1. i = 1 \/ (i - 1 \in 1..(n - 1) /\ t[i - 1] = s[i])
    BY <1>1, <1>2
  <2>2. QED
    BY <1>2, <2>1 DEF Range
<1>4. ASSUME NEW i \in 1..(n - 1) PROVE t[i] \in Range(s)
  <2>1. i + 1 \in 1..n
    BY <1>1
  <2>2. QED
    BY <1>1, <1>2, <2>1 DEF Range
<1>5. Range(s) \subseteq {s[1]} \cup Range(t)
  BY <1>1, <1>3 DEF Range
<1>6. Range(t) \subseteq Range(s)
  <2>1. Range(t) = {t[i] : i \in 1..(n - 1)}
    BY <1>2 DEF Range
  <2>2. QED
    BY <1>4, <2>1
<1>7. s[1] \in Range(s)
  BY <1>1 DEF Range
<1>8. QED
  BY <1>1, <1>5, <1>6, <1>7 DEF t

\* Looking up the next candidate.
LEMMA LookedUp ==
  ASSUME DOMAIN work = DOMAIN NoWork, ScoreCandidate
  PROVE  /\ phase = "score" /\ phase' = "score" /\ work.todo # <<>>
         /\ UNCHANGED <<stores, overrideVars, case, gazetteer, cache, call, answers, stable>>
         /\ work'.todo = Tail(work.todo) /\ work'.q = work.q /\ work'.eff = work.eff
         /\ work'.filters = work.filters /\ work'.marks = work.marks
         /\ LET p == Head(work.todo)
                s == Score(work.cand[p], Ncd(Terms(work.eff), Terms(Doc(p).text)), Doc(p).meta,
                           Doc(p).popularity, Ctr(work.clicks, p), work.weights)
            IN  work'.score = IF p \in rows /\ MatchesFilters(Doc(p).meta, work.filters)
                              THEN Over([x \in {p} |-> s], work.score) ELSE work.score
<1>1. /\ phase = "score" /\ work.todo # <<>>
      /\ UNCHANGED <<stores, phase, case, gazetteer, cache, call, answers, stable, edits>>
  BY DEF ScoreCandidate
<1>2. UNCHANGED overrideVars
  BY <1>1 DEF overrideVars, edits
<1>3. /\ work'.todo = Tail(work.todo) /\ work'.q = work.q /\ work'.eff = work.eff
      /\ work'.filters = work.filters /\ work'.marks = work.marks
  BY WorkIs DEF ScoreCandidate
<1>4. LET p == Head(work.todo)
          s == Score(work.cand[p], Ncd(Terms(work.eff), Terms(Doc(p).text)), Doc(p).meta,
                     Doc(p).popularity, Ctr(work.clicks, p), work.weights)
      IN  work'.score = IF p \in rows /\ MatchesFilters(Doc(p).meta, work.filters)
                        THEN Over([x \in {p} |-> s], work.score) ELSE work.score
  BY WorkIs DEF ScoreCandidate
<1>5. QED
  BY <1>1, <1>2, <1>3, <1>4

LEMMA ScoreKeeps ==
  ASSUME BaseInv, StoresInv, KeptInv, ScoreCandidate
  PROVE  KeptInv'
<1> DEFINE p == Head(work.todo)
<1>1. /\ phase = "score" /\ phase' = "score" /\ work.todo # <<>>
      /\ UNCHANGED <<stores, case, call, stable>>
      /\ work'.todo = Tail(work.todo) /\ work'.q = work.q /\ work'.eff = work.eff
      /\ work'.filters = work.filters /\ work'.marks = work.marks
  BY LookedUp DEF BaseInv
<1>2. DOMAIN work'.score = IF p \in rows /\ MatchesFilters(Doc(p).meta, work.filters)
                           THEN {p} \cup DOMAIN work.score ELSE DOMAIN work.score
  BY LookedUp DEF Over, BaseInv
<1>3. /\ Req' = Req /\ Wanted' \subseteq Wanted /\ (Sought' => Sought)
      /\ Room(work.eff, Req)' <=> Room(work.eff, Req)
  BY <1>1, SoughtStays DEF Room
<1>4. work.todo \in Seq(DOMAIN case.products) /\ work.q = parse(Req.q).q
  BY <1>1 DEF KeptInv, QueryInv, Finding
<1>5. work'.todo \in Seq(DOMAIN case'.products)
  <2>1. Tail(work.todo) \in Seq(DOMAIN case.products)
    BY <1>1, <1>4, TailOf
  <2>2. QED
    BY <1>1, <2>1
<1>6. QueryInv'
  BY <1>1, <1>3, <1>4, <1>5 DEF QueryInv
<1>7. Range(work.todo) \subseteq {p} \cup Range(work'.todo)
  BY <1>1, <1>4, HeadAndTail
<1>8. p \in Wanted => p \in DOMAIN work'.score
  BY <1>2 DEF Wanted, StoresInv
<1> HIDE DEF p
<1>9. DOMAIN work.score \subseteq DOMAIN work'.score
  BY <1>2
<1>10. ASSUME Sought', Room(work.eff, Req)
       PROVE  Wanted' \subseteq Range(work'.todo) \cup DOMAIN work'.score
  <2>1. Wanted \subseteq Range(work.todo) \cup DOMAIN work.score
    BY <1>1, <1>3, <1>10 DEF KeptInv, FoundInv
  <2>2. QED
    BY <1>3, <1>7, <1>8, <1>9, <2>1
<1>11. Sought' => FoundInv'
  <2> SUFFICES ASSUME Sought' PROVE FoundInv'
    OBVIOUS
  <2>1. Room(work.eff, Req)' => Wanted' \subseteq Range(work'.todo) \cup DOMAIN work'.score
    BY <1>3, <1>10
  <2>2. QED
    BY <1>1, <2>1 DEF FoundInv, Ranked, Editing
<1>12. QED
  BY <1>6, <1>11 DEF KeptInv

\* Steps that leave what the call knows, and go on within it.
LEMMA ListGoesOn ==
  ASSUME KeptInv, UNCHANGED <<case, call, work>>, stable' \subseteq stable,
         \/ phase' = phase
         \/ phase = "score" /\ work.todo = <<>> /\ phase' \in Ranked
         \/ phase \in Ranked /\ phase' \in Ranked
  PROVE  KeptInv'
<1>1. /\ Req' = Req /\ Wanted' \subseteq Wanted /\ (Sought' => Sought)
      /\ Room(work.eff, Req)' <=> Room(work.eff, Req)
  BY SoughtStays DEF Room
<1>2. phase' = phase \/ (phase' \in Ranked /\ phase \in {"score"} \cup Ranked)
  OBVIOUS
<1>3. QueryInv'
  BY <1>1, <1>2 DEF KeptInv, QueryInv, Ranked, Editing, Finding
<1>4. phase = "score" /\ phase' # phase => Range(work.todo) = {}
  BY DEF Range, Ranked, Editing
<1>5. ASSUME Sought' PROVE FoundInv'
  <2>1. Sought /\ FoundInv
    BY <1>1, <1>5 DEF KeptInv
  <2>2. CASE phase' = phase
    BY <1>1, <2>1, <2>2 DEF FoundInv
  <2>3. CASE phase' # phase
    <3>1. phase' \in Ranked /\ phase \in {"score"} \cup Ranked
      BY <1>2, <2>3
    <3>2. Room(work.eff, Req) => Wanted \subseteq DOMAIN work.score
      BY <1>4, <2>1, <2>3, <3>1 DEF FoundInv
    <3>3. QED
      BY <1>1, <3>1, <3>2 DEF FoundInv, Ranked, Editing
  <2>4. QED
    BY <2>2, <2>3
<1>6. QED
  BY <1>3, <1>5 DEF KeptInv

LEMMA KeptStep ==
  ASSUME StableInv, KeptInv, [Next]_vars
  PROVE  KeptInv'
<1> USE DEF StableInv
<1>1. CASE Retrieve
  <2>1. CASE VectorSearch
    <3>1. /\ phase = "vector" /\ work'.q = work.q /\ work'.eff = work.eff
          /\ work'.marks = work.marks
      BY <2>1, WorkIs DEF VectorSearch, BaseInv
    <3>2. phase' = IF Req.mode = "semantic" THEN "clicks" ELSE "text"
      BY <2>1 DEF VectorSearch
    <3>3. /\ work'.q = parse(Req'.q).q /\ (Sought' => Sought)
      BY <1>1, <3>1, RetrieveSeeks
    <3>4. work.eff = work.q
      BY <3>1 DEF KeptInv, QueryInv
    <3>5. QueryInv'
      BY <3>1, <3>2, <3>3, <3>4 DEF QueryInv
    <3>6. Sought' => phase' = "text"
      BY <3>2, <3>3 DEF Sought
    <3>7. QED
      BY <3>5, <3>6 DEF KeptInv, FoundInv, Ranked, Editing
  <2>2. QED
    BY <1>1, <2>1, FirstKeeps, ReformulateKeeps, ExpandKeeps, SecondKeeps, ClicksKeep DEF Retrieve
<1>2. CASE Parse
  <2>1. /\ work'.q = parse(Req.q).q /\ work'.eff = parse(Req.q).q
    BY <1>2, WorkIs DEF Parse
  <2>2. phase' \in {"text", "vector"} /\ UNCHANGED <<case, call>>
    BY <1>2 DEF Parse
  <2>3. Req' = Req
    BY <2>2 DEF Req
  <2>4. QED
    BY <2>1, <2>2, <2>3 DEF KeptInv, QueryInv, FoundInv, Ranked, Editing
<1>3. CASE ScoreCandidate
  BY <1>3, ScoreKeeps
<1>4. CASE Rank
  BY <1>4, ListGoesOn DEF Rank, Ranked
<1>5. CASE ApplyOverrides
  BY <1>5, OverrideIs, ListGoesOn DEF ApplyOverrides, Ranked, Editing
<1>6. CASE ComeOrGo
  BY <1>6, ChurnIs, ListGoesOn DEF overrideVars
<1>7. CASE UNCHANGED vars
  BY <1>7, ListGoesOn DEF vars, overrideVars
<1>8. CASE Lookup \/ Respond \/ EndList \/ Fail \/ NextCall \/ BeginList \/ TakeFromList
  <2>1. phase' \in {"parse", "next", "lookup", "list"}
    BY <1>8 DEF Lookup, Respond, EndList, Fail, NextCall, BeginList, TakeFromList
  <2>2. QED
    BY <2>1 DEF KeptInv, QueryInv, FoundInv, Finding, Ranked, Editing
<1>9. QED
  BY <1>1, <1>2, <1>3, <1>4, <1>5, <1>6, <1>7, <1>8 DEF Next, Retrieve, Finished

KeepsMatches(a) == Spelled(parse(a.req.q).q) => Matching(a) \subseteq a.ranking

AnswersKeep == \A i \in DOMAIN answers : KeepsMatches(answers[i])

LEMMA KeepsGrow ==
  ASSUME AnswersPass, AnswersKeep, case' = case, NEW a, answers' = Append(answers, a),
         KeepsMatches(a)
  PROVE  AnswersKeep'
<1>1. \A q : TextScore(q)' = TextScore(q)
  BY DEF TextScore, Doc
<1>2. \A b : KeepsMatches(b)' <=> KeepsMatches(b)
  BY <1>1 DEF KeepsMatches, Matching, Doc
<1>3. \A i \in DOMAIN answers' : answers'[i] = a \/ (i \in DOMAIN answers /\ answers'[i] = answers[i])
  BY AppendIs DEF AnswersPass
<1>4. \A i \in DOMAIN answers' : KeepsMatches(answers'[i])
  BY <1>3 DEF AnswersKeep
<1>5. QED
  BY <1>2, <1>4 DEF AnswersKeep

LEMMA KeepsStay ==
  ASSUME AnswersKeep, UNCHANGED <<answers, case>>
  PROVE  AnswersKeep'
<1>1. \A q : TextScore(q)' = TextScore(q)
  BY DEF TextScore, Doc
<1>2. \A b : KeepsMatches(b)' <=> KeepsMatches(b)
  BY <1>1 DEF KeepsMatches, Matching, Doc
<1>3. QED
  BY <1>2 DEF AnswersKeep

LEMMA KeepsStep ==
  ASSUME StableInv, KeptInv, AnswersKeep, [Next]_vars
  PROVE  AnswersKeep'
<1> USE DEF StableInv
<1>1. CASE Respond
  <2> DEFINE a == Answer(Page(hits, Req), Len(hits))
  <2>1. case' = case /\ answers' = Append(answers, a) /\ phase \in Ranked
    BY <1>1 DEF Respond, Ranked, Editing
  <2>2. /\ a.req = Req /\ a.work = work /\ a.stable = stable /\ a.ranking = Range(ranking)
    BY DEF Answer
  <2> HIDE DEF a
  <2>3. Range(ranking) = DOMAIN work.score /\ work.q = parse(Req.q).q
    BY <2>1 DEF ListInv, KeptInv, QueryInv
  <2>4. ASSUME Spelled(parse(a.req.q).q), NEW p \in Matching(a) PROVE p \in a.ranking
    <3>0. a.req.mode # "semantic" /\ a.work.marks \cap {"rewritten", "failed"} = {}
      BY <2>4 DEF Matching
    <3>a. Room(a.work.eff, a.req) /\ Room(Normalize(parse(a.req.q).q), a.req)
      BY <2>4 DEF Matching, Room
    <3>b. /\ p \in a.stable /\ TextScore(Normalize(parse(a.req.q).q))[p] > 0
          /\ MatchesFilters(Doc(p).meta, a.work.filters)
      BY <2>4 DEF Matching
    <3>c. parse(a.req.q).q = work.q
      BY <2>2, <2>3
    <3>1. /\ Req.mode # "semantic" /\ work.marks \cap {"rewritten", "failed"} = {}
          /\ Room(work.eff, Req) /\ Room(Normalize(work.q), Req)
          /\ p \in Wanted
      <4>1. Room(work.eff, Req) /\ Room(Normalize(work.q), Req)
        BY <2>2, <3>a, <3>c, Zenon
      <4>2. p \in Wanted
        BY <2>2, <3>b, <3>c DEF Wanted
      <4>3. QED
        BY <2>2, <3>0, <4>1, <4>2
    <3>2. Sought
      <4>1. Spelled(work.q)
        BY <2>4, <3>c
      <4>2. QED
        BY <3>1, <4>1 DEF Sought
    <3>3. QED
      BY <2>1, <2>2, <2>3, <3>1, <3>2 DEF KeptInv, FoundInv
  <2>5. KeepsMatches(a)
    BY <2>4 DEF KeepsMatches
  <2>6. QED
    BY <2>1, <2>5, KeepsGrow
<1>2. CASE EndList
  <2> DEFINE a == Answer(hits, Len(hits))
  <2>1. phase = "list" /\ case' = case /\ answers' = Append(answers, a)
    BY <1>2 DEF EndList
  <2>2. a.req.kind # "search"
    BY <2>1, AnswerIs DEF WorkPasses
  <2> HIDE DEF a
  <2>3. KeepsMatches(a)
    BY <2>2 DEF KeepsMatches, Matching
  <2>4. QED
    BY <2>1, <2>3, KeepsGrow
<1>3. CASE Lookup
  <2>1. case' = case
    BY <1>3 DEF Lookup
  <2>2. CASE UNCHANGED answers
    BY <2>1, <2>2, KeepsStay
  <2>3. CASE ~ UNCHANGED answers
    <3>1. PICK e \in cache :
            answers' = Append(answers, [e[2] EXCEPT !.req = Req, !.cached = TRUE])
      BY <1>3, <2>3 DEF Lookup
    <3> DEFINE a == [e[2] EXCEPT !.req = Req, !.cached = TRUE]
    <3>2. "cached" \in DOMAIN e[2]
      BY DEF AnswersPass, CachedWell
    <3>3. a.cached = TRUE
      BY <3>2
    <3>4. answers' = Append(answers, a)
      BY <3>1
    <3> HIDE DEF a
    <3>5. KeepsMatches(a)
      BY <3>3 DEF KeepsMatches, Matching
    <3>6. QED
      BY <2>1, <3>4, <3>5, KeepsGrow
  <2>4. QED
    BY <2>2, <2>3
<1>4. CASE Retrieve \/ Parse \/ ScoreCandidate \/ Rank \/ ApplyOverrides
  <2>1. UNCHANGED <<answers, case>>
    BY <1>4, RetrieveIs DEF Parse, ScoreCandidate, Rank, ApplyOverrides, BaseInv
  <2>2. QED
    BY <2>1, KeepsStay
<1>5. CASE BeginList \/ TakeFromList \/ Fail \/ NextCall \/ ComeOrGo \/ UNCHANGED vars
  <2>1. UNCHANGED <<answers, case>>
    BY <1>5 DEF BeginList, TakeFromList, Fail, NextCall, ComeOrGo, vars
  <2>2. QED
    BY <2>1, KeepsStay
<1>6. QED
  BY <1>1, <1>2, <1>3, <1>4, <1>5 DEF Next, Retrieve, Finished

\* Correction and expansion add to what a query finds and take nothing away: a product
\* that has been in storage and in the text index throughout, with a word of the
\* query, is ranked, whatever comes, goes or is looked up meanwhile.
THEOREM MatchesAreKept == Spec => []MatchesKept
<1>1. Init => KeptInv /\ AnswersKeep
  <2> SUFFICES ASSUME Init PROVE KeptInv /\ AnswersKeep
    OBVIOUS
  <2>1. phase = "lookup" /\ answers = <<>>
    BY DEF Init
  <2>2. DOMAIN answers = {}
    BY <2>1
  <2>3. QED
    BY <2>1, <2>2 DEF KeptInv, QueryInv, FoundInv, AnswersKeep, Finding, Ranked, Editing
<1>2. StableInv /\ (KeptInv /\ AnswersKeep) /\ [Next]_vars => (KeptInv /\ AnswersKeep)'
  BY KeptStep, KeepsStep
<1>3. AnswersKeep => MatchesKept
  BY DEF AnswersKeep, KeepsMatches, MatchesKept
<1>4. QED
  BY <1>1, <1>2, <1>3, StoresAreInOrder, PTL DEF Spec

-----------------------------------------------------------------------------
(* One order of a set, and one end of a run                                *)

\* B has no two members of S both ways, and s follows B.
OneWay(S, B)  == \A x, y \in S : <<x, y>> \in B => <<y, x>> \notin B
Ordered(s, B) == \A i, j \in DOMAIN s : i < j => <<s[i], s[j]>> \in B

\* s and t put the members of a set in the order B, which has no two of them both
\* ways: t begins with s.
LEMMA OrderBegins ==
  ASSUME NEW S, NEW s \in Seq(S), NEW t \in Seq(S), Distinct(s), Distinct(t),
         Range(s) = S, Range(t) = S,
         NEW B, OneWay(S, B), Ordered(s, B), Ordered(t, B)
  PROVE  Len(s) <= Len(t) /\ \A i \in 1..Len(s) : s[i] = t[i]
<1> DEFINE n == Len(s)
           m == Len(t)
<1>1. n \in Nat /\ m \in Nat /\ DOMAIN s = 1..n /\ DOMAIN t = 1..m
  OBVIOUS
<1>2. /\ \A i \in 1..n : s[i] \in S /\ \E j \in 1..m : t[j] = s[i]
      /\ \A j \in 1..m : t[j] \in S /\ \E i \in 1..n : s[i] = t[j]
  BY <1>1 DEF Range
<1>3. /\ \A i, j \in 1..n : s[i] = s[j] => i = j
      /\ \A i, j \in 1..m : t[i] = t[j] => i = j
  BY <1>1 DEF Distinct
<1>4. /\ \A i, j \in 1..n : i < j => <<s[i], s[j]>> \in B
      /\ \A i, j \in 1..m : i < j => <<t[i], t[j]>> \in B
  BY <1>1 DEF Ordered
<1> HIDE DEF n, m
<1> DEFINE P == {k \in 0..n : k <= m /\ \A i \in 1..k : s[i] = t[i]}
<1>5. 0 \in P
  BY <1>1
<1>6. ASSUME NEW k \in 1..n, k - 1 \in P PROVE k \in P
  <2>1. k - 1 \in 0..n /\ k - 1 <= m /\ \A i \in 1..(k - 1) : s[i] = t[i]
    BY <1>6
  <2>2. PICK j \in 1..m : t[j] = s[k]
    BY <1>2
  <2>3. j >= k
    <3>1. SUFFICES ASSUME j \in 1..(k - 1) PROVE FALSE
      BY <1>1, <2>1
    <3>2. s[j] = s[k] /\ j \in 1..n
      BY <1>1, <2>1, <2>2, <3>1
    <3>3. QED
      BY <1>3, <3>1, <3>2
  <2>4. k \in 1..m
    BY <1>1, <2>3
  <2>5. PICK i \in 1..n : s[i] = t[k]
    BY <1>2, <2>4
  <2>6. i >= k
    <3>1. SUFFICES ASSUME i \in 1..(k - 1) PROVE FALSE
      BY <1>1, <2>1
    <3>2. t[i] = t[k] /\ i \in 1..m
      BY <1>1, <2>1, <2>4, <2>5, <3>1
    <3>3. QED
      BY <1>3, <2>4, <3>1, <3>2
  <2>7. s[k] = t[k]
    <3>1. SUFFICES ASSUME i # k, j # k PROVE FALSE
      BY <2>2, <2>5
    <3>2. k < i /\ k < j
      BY <1>1, <2>3, <2>6, <3>1
    <3>3. <<s[k], t[k]>> \in B /\ <<t[k], s[k]>> \in B
      BY <1>4, <2>2, <2>4, <2>5, <3>2
    <3>4. QED
      BY <1>2, <2>4, <3>3 DEF OneWay
  <2>8. \A l \in 1..k : s[l] = t[l]
    BY <1>1, <2>1, <2>7
  <2>9. QED
    BY <1>1, <2>4, <2>8
<1> HIDE DEF P
<1>7. \A k \in 1..n : k - 1 \in P => k \in P
  BY <1>6
<1>8. n \in P
  <2>1. \A k \in 0..n : k \in P
    BY <1>1, <1>5, <1>7, UpTo
  <2>2. QED
    BY <1>1, <2>1
<1>9. QED
  BY <1>1, <1>8 DEF P, n, m

LEMMA OneOrder ==
  ASSUME NEW S, NEW s \in Seq(S), NEW t \in Seq(S), Distinct(s), Distinct(t),
         Range(s) = S, Range(t) = S,
         NEW B, OneWay(S, B), Ordered(s, B), Ordered(t, B)
  PROVE  s = t
<1>1. Len(s) <= Len(t) /\ \A i \in 1..Len(s) : s[i] = t[i]
  BY OrderBegins
<1>2. Len(t) <= Len(s)
  BY OrderBegins
<1>3. Len(s) = Len(t)
  BY <1>1, <1>2
<1>4. QED
  BY <1>1, <1>3

\* The order by scores that differ.
LEMMA OneByScore ==
  ASSUME NEW S, IsFiniteSet(S), NEW score, \A x \in S : score[x] \in Int,
         \A x, y \in S : x # y => score[x] # score[y],
         NEW s \in SortedByScore(S, score), NEW t \in SortedByScore(S, score)
  PROVE  s = t
<1> DEFINE B == {z \in S \X S : score[z[1]] > score[z[2]]}
<1>1. /\ s \in Seq(S) /\ Distinct(s) /\ Range(s) = S
      /\ t \in Seq(S) /\ Distinct(t) /\ Range(t) = S
  BY OrdersAre DEF SortedByScore
<1>2. /\ \A i, j \in DOMAIN s : i < j => score[s[i]] >= score[s[j]]
      /\ \A i, j \in DOMAIN t : i < j => score[t[i]] >= score[t[j]]
  BY DEF SortedByScore
<1>3. \A x, y \in S : <<x, y>> \in B <=> score[x] > score[y]
  OBVIOUS
<1> HIDE DEF B
<1>4. ASSUME NEW u \in Seq(S), Distinct(u),
             \A i, j \in DOMAIN u : i < j => score[u[i]] >= score[u[j]],
             NEW i \in DOMAIN u, NEW j \in DOMAIN u, i < j
      PROVE  <<u[i], u[j]>> \in B
  <2>1. u[i] \in S /\ u[j] \in S /\ i \in Nat /\ j \in Nat
    OBVIOUS
  <2>2. u[i] # u[j]
    BY <1>4, <2>1 DEF Distinct
  <2>3. score[u[i]] \in Int /\ score[u[j]] \in Int /\ score[u[i]] # score[u[j]]
    BY <2>1, <2>2
  <2>4. score[u[i]] > score[u[j]]
    BY <1>4, <2>3
  <2>5. QED
    BY <1>3, <2>1, <2>4
<1>5. OneWay(S, B)
  BY <1>3 DEF OneWay
<1>6. Ordered(s, B) /\ Ordered(t, B)
  BY <1>1, <1>2, <1>4 DEF Ordered
<1>7. QED
  BY <1>1, <1>5, <1>6, OneOrder

\* The order by scores and then by ids.
LEMMA OneSorted ==
  ASSUME NEW S \in SUBSET Nat, IsFiniteSet(S), NEW score, \A x \in S : score[x] \in Int,
         NEW s \in Sorted(S, score), NEW t \in Sorted(S, score)
  PROVE  s = t
<1> DEFINE B == {z \in S \X S : \/ score[z[1]] > score[z[2]]
                                \/ score[z[1]] = score[z[2]] /\ z[1] < z[2]}
<1>1. /\ s \in Seq(S) /\ Distinct(s) /\ Range(s) = S
      /\ t \in Seq(S) /\ Distinct(t) /\ Range(t) = S
  BY OrdersAre DEF Sorted, SortedByScore
<1> DEFINE InB(u) == \A i, j \in DOMAIN u : i < j =>
                       /\ score[u[i]] >= score[u[j]]
                       /\ score[u[i]] = score[u[j]] => u[i] < u[j]
<1>2. InB(s) /\ InB(t)
  BY DEF Sorted, SortedByScore
<1>3. \A x, y \in S : <<x, y>> \in B <=> score[x] > score[y] \/ (score[x] = score[y] /\ x < y)
  OBVIOUS
<1> HIDE DEF B
<1>4. ASSUME NEW u \in Seq(S), InB(u), NEW i \in DOMAIN u, NEW j \in DOMAIN u, i < j
      PROVE  <<u[i], u[j]>> \in B
  <2>1. u[i] \in S /\ u[j] \in S
    OBVIOUS
  <2>2. score[u[i]] \in Int /\ score[u[j]] \in Int
    BY <2>1
  <2>3. score[u[i]] > score[u[j]] \/ (score[u[i]] = score[u[j]] /\ u[i] < u[j])
    BY <1>4, <2>2
  <2>4. QED
    BY <1>3, <2>1, <2>3
<1>5. OneWay(S, B)
  BY <1>3 DEF OneWay
<1> HIDE DEF InB
<1>6. Ordered(s, B) /\ Ordered(t, B)
  BY <1>1, <1>2, <1>4 DEF Ordered
<1>7. QED
  BY <1>1, <1>5, <1>6, OneOrder

LEMMA OneAscending ==
  ASSUME NEW S \in SUBSET Nat, IsFiniteSet(S), NEW s \in Ascending(S), NEW t \in Ascending(S)
  PROVE  s = t
<1> DEFINE B == {z \in S \X S : z[1] < z[2]}
<1>1. /\ s \in Seq(S) /\ Distinct(s) /\ Range(s) = S
      /\ t \in Seq(S) /\ Distinct(t) /\ Range(t) = S
  BY OrdersAre DEF Ascending
<1>2. /\ \A i, j \in DOMAIN s : i < j => s[i] < s[j]
      /\ \A i, j \in DOMAIN t : i < j => t[i] < t[j]
  BY DEF Ascending
<1>3. Ordered(s, B) /\ Ordered(t, B)
  BY <1>1, <1>2 DEF Ordered
<1>4. OneWay(S, B)
  BY DEF OneWay
<1> HIDE DEF B
<1>5. QED
  BY <1>1, <1>3, <1>4, OneOrder

-----------------------------------------------------------------------------
(* The edits of a list, one after the other                                *)

\* A list with the pins and slots still to apply, and what the next one makes of it.
List == [hits |-> hits, pins |-> pins, slots |-> slots]
Lowest(S) == CHOOSE x \in FirstBy(S) : TRUE
Moved(list, x, there) == IF there THEN MoveTo(list, x.product, x.position) ELSE list
NextEdit(c) ==
  IF c.pins # {}
  THEN [hits |-> Moved(c.hits, Lowest(c.pins), Contains(c.hits, Lowest(c.pins).product)),
        pins |-> c.pins \ {Lowest(c.pins)}, slots |-> c.slots]
  ELSE [hits |-> Moved(c.hits, Lowest(c.slots), Lowest(c.slots).product \in rows),
        pins |-> c.pins, slots |-> c.slots \ {Lowest(c.slots)}]
Applied(c) == c.pins = {} /\ c.slots = {}

\* T goes from c to d, edit by edit.
Runs(T, n, c, d) ==
  /\ T[0] = c /\ T[n] = d
  /\ \A k \in 0..(n - 1) : ~ Applied(T[k]) /\ T[k + 1] = NextEdit(T[k])
LeadsTo(c, d) == \E n \in Nat : \E T : Runs(T, n, c, d)

LEMMA LeadsNowhere ==
  ASSUME NEW c
  PROVE  LeadsTo(c, c)
<1> DEFINE T == [k \in {0} |-> c]
<1>1. Runs(T, 0, c, c)
  BY DEF Runs
<1>2. QED
  BY <1>1 DEF LeadsTo

LEMMA LeadsOn ==
  ASSUME NEW c, NEW d, LeadsTo(c, d), ~ Applied(d)
  PROVE  LeadsTo(c, NextEdit(d))
<1>1. PICK n \in Nat : \E T : Runs(T, n, c, d)
  BY DEF LeadsTo
<1>2. PICK T : Runs(T, n, c, d)
  BY <1>1
<1> DEFINE e == NextEdit(d)
           U == [k \in 0..(n + 1) |-> IF k = n + 1 THEN e ELSE T[k]]
<1>3. U[n + 1] = e /\ \A k \in 0..n : U[k] = T[k]
  OBVIOUS
<1>4. ASSUME NEW k \in 0..n
      PROVE  ~ Applied(U[k]) /\ U[k + 1] = NextEdit(U[k])
  <2>1. CASE k = n
    <3>1. U[k] = d /\ U[k + 1] = e
      BY <1>2, <1>3, <2>1 DEF Runs
    <3> HIDE DEF U
    <3>2. QED
      BY <3>1
  <2>2. CASE k # n
    <3>1. k \in 0..(n - 1) /\ k + 1 \in 0..n
      BY <2>2
    <3>2. ~ Applied(T[k]) /\ T[k + 1] = NextEdit(T[k])
      BY <1>2, <3>1 DEF Runs
    <3>3. U[k] = T[k] /\ U[k + 1] = T[k + 1]
      BY <1>3, <3>1
    <3> HIDE DEF U
    <3>4. QED
      BY <3>2, <3>3
  <2>3. QED
    BY <2>1, <2>2
<1>5. U[0] = c
  BY <1>2, <1>3 DEF Runs
<1> HIDE DEF U, e
<1>6. Runs(U, n + 1, c, e)
  BY <1>3, <1>4, <1>5 DEF Runs
<1>7. QED
  BY <1>6 DEF LeadsTo, e

LEMMA OneEnd ==
  ASSUME NEW c, NEW d, NEW e, LeadsTo(c, d), LeadsTo(c, e), Applied(d), Applied(e)
  PROVE  d = e
<1>1. PICK n \in Nat : \E T : Runs(T, n, c, d)
  BY DEF LeadsTo
<1>2. PICK T : Runs(T, n, c, d)
  BY <1>1
<1>3. PICK m \in Nat : \E U : Runs(U, m, c, e)
  BY DEF LeadsTo
<1>4. PICK U : Runs(U, m, c, e)
  BY <1>3
<1>5. /\ T[0] = c /\ T[n] = d
      /\ \A k \in 0..(n - 1) : ~ Applied(T[k]) /\ T[k + 1] = NextEdit(T[k])
  BY <1>2 DEF Runs
<1>6. /\ U[0] = c /\ U[m] = e
      /\ \A k \in 0..(m - 1) : ~ Applied(U[k]) /\ U[k + 1] = NextEdit(U[k])
  BY <1>4 DEF Runs
<1> DEFINE P == {k \in 0..n : k <= m /\ T[k] = U[k]}
<1>7. 0 \in P
  BY <1>5, <1>6
<1>8. ASSUME NEW k \in 1..n, k - 1 \in P PROVE k \in P
  <2>1. k - 1 \in 0..(n - 1) /\ k - 1 <= m /\ T[k - 1] = U[k - 1]
    BY <1>8
  <2>2. ~ Applied(T[k - 1]) /\ T[k] = NextEdit(T[k - 1])
    BY <1>5, <2>1
  <2>3. k - 1 # m
    BY <1>6, <2>1, <2>2
  <2>4. k - 1 \in 0..(m - 1)
    BY <2>1, <2>3
  <2>5. U[k] = NextEdit(U[k - 1])
    BY <1>6, <2>4
  <2>6. T[k] = U[k]
    BY <2>1, <2>2, <2>5, Zenon
  <2>7. QED
    BY <2>4, <2>6
<1> HIDE DEF P
<1>9. \A k \in 1..n : k - 1 \in P => k \in P
  BY <1>8
<1>10. n \in P
  <2>1. \A k \in 0..n : k \in P
    BY <1>7, <1>9, UpTo
  <2>2. QED
    BY <2>1
<1>11. n <= m /\ U[n] = d
  BY <1>5, <1>10 DEF P
<1>12. n = m
  <2>1. SUFFICES ASSUME n # m PROVE FALSE
    OBVIOUS
  <2>2. n \in 0..(m - 1)
    BY <1>11, <2>1
  <2>3. QED
    BY <1>6, <1>11, <2>2
<1>13. QED
  BY <1>6, <1>11, <1>12

\* Positions of their own put the pins, or the slots, in one order.
LEMMA OneFirst ==
  ASSUME NEW S \in SUBSET Targets, OnePerPosition(S), NEW x \in FirstBy(S)
  PROVE  x = Lowest(S)
<1>1. Lowest(S) \in FirstBy(S)
  BY DEF Lowest
<1> DEFINE y == Lowest(S)
<1> HIDE DEF y
<1>2. y \in FirstBy(S)
  BY <1>1 DEF y
<1>3. x \in S /\ y \in S /\ x.position <= y.position /\ y.position <= x.position
  BY <1>2 DEF FirstBy
<1>4. x.position \in Nat /\ y.position \in Nat
  BY <1>3, TargetsAre
<1>5. QED
  BY <1>3, <1>4 DEF OnePerPosition, y

-----------------------------------------------------------------------------
(* The numbers that scores are made of                                     *)

\* Texts in any symbols join to a text.
LEMMA JoinAnyText ==
  ASSUME NEW n \in Nat, NEW ts, ts = [i \in 1..n |-> ts[i]], \A i \in 1..n : IsText(ts[i])
  PROVE  IsText(Join(ts))
<1> DEFINE S == {Space} \cup UNION {Range(ts[i]) : i \in 1..n}
<1>1. Space \in S
  OBVIOUS
<1>2. ASSUME NEW i \in 1..n PROVE ts[i] \in Seq(S)
  <2>1. ts[i] \in Seq(Range(ts[i])) /\ Range(ts[i]) \subseteq S
    BY DEF IsText
  <2> HIDE DEF S
  <2>2. QED
    BY <2>1, MoreSymbols
<1> HIDE DEF S
<1>3. ts \in [1..n -> Seq(S)]
  BY <1>2
<1>4. ts \in Seq(Seq(S))
  BY <1>3, ArrayIs
<1>5. Join(ts) \in Seq(S)
  BY <1>1, <1>4, JoinedText
<1>6. QED
  BY <1>5, TextIn

LEMMA WordsAre ==
  ASSUME NEW q, IsText(q)
  PROVE  /\ Len(Tokens(q)) \in Nat /\ DOMAIN Tokens(q) = 1..Len(Tokens(q))
         /\ \A i \in DOMAIN Tokens(q) : IsText(Tokens(q)[i])
<1>1. Tokens(q) \in Seq(Seq(Range(q)))
  BY TokensText DEF IsText
<1> DEFINE ts == Tokens(q)
<1> HIDE DEF ts
<1>2. ts \in Seq(Seq(Range(q)))
  BY <1>1 DEF ts
<1>3. ASSUME NEW i \in DOMAIN ts PROVE IsText(ts[i])
  <2>1. ts[i] \in Seq(Range(q))
    BY <1>2
  <2>2. QED
    BY <2>1, TextIn
<1>4. QED
  BY <1>2, <1>3 DEF ts

LEMMA NormalizeText ==
  ASSUME NEW q, IsText(q)
  PROVE  IsText(Normalize(q))
<1> DEFINE ts == Tokens(q)
           n == Len(ts)
           us == [i \in 1..n |-> IF Alphabetic(ts[i]) THEN NormalizeToken(ts[i]) ELSE ts[i]]
<1>1. n \in Nat /\ DOMAIN ts = 1..n /\ \A i \in 1..n : IsText(ts[i])
  BY WordsAre
<1>2. Normalize(q) = Join(us)
  BY <1>1 DEF Normalize
<1> HIDE DEF ts, n
<1>3. ASSUME NEW t, IsText(t) PROVE IsText(NormalizeToken(t))
  <2> DEFINE u == NormalizeToken(t)
             m == Len(t)
  <2>1. m \in Nat /\ DOMAIN t = 1..m
    BY <1>3 DEF IsText
  <2>2. u = [i \in 1..m |-> u[i]]
    BY <2>1 DEF NormalizeToken
  <2> HIDE DEF u, m
  <2>3. u \in [1..m -> Range(u)]
    BY <2>2 DEF Range
  <2>4. u \in Seq(Range(u))
    BY <2>1, <2>3, ArrayIs
  <2>5. QED
    BY <2>4 DEF IsText, u
<1>4. \A i \in 1..n : IsText(us[i])
  BY <1>1, <1>3
<1>5. us = [i \in 1..n |-> us[i]]
  OBVIOUS
<1> HIDE DEF us
<1>6. IsText(Join(us))
  BY <1>1, <1>4, <1>5, JoinAnyText
<1>7. QED
  BY <1>2, <1>6

LEMMA CorrectText ==
  ASSUME NEW q, IsText(q), NEW dictionary, \A w \in DOMAIN dictionary : IsText(dictionary[w])
  PROVE  IsText(Correct(dictionary, q))
<1> DEFINE ts == Tokens(LowerOf(q))
           n == Len(ts)
           us == [i \in 1..n |-> IF Alphabetic(ts[i]) /\ ts[i] \in DOMAIN dictionary
                                 THEN dictionary[ts[i]] ELSE ts[i]]
<1>1. n \in Nat /\ DOMAIN ts = 1..n /\ \A i \in 1..n : IsText(ts[i])
  BY LowerText, WordsAre
<1>2. Correct(dictionary, q) = Join(us)
  BY <1>1 DEF Correct
<1> HIDE DEF ts, n
<1>3. \A i \in 1..n : IsText(us[i])
  BY <1>1
<1>4. us = [i \in 1..n |-> us[i]]
  OBVIOUS
<1> HIDE DEF us
<1>5. IsText(Join(us))
  BY <1>1, <1>3, <1>4, JoinAnyText
<1>6. QED
  BY <1>2, <1>5

LEMMA DataAre ==
  ASSUME case \in Cases
  PROVE  /\ IsFiniteSet(DOMAIN case.clicks) /\ case.clicks \in [DOMAIN case.clicks -> Nat]
         /\ \A p \in DOMAIN case.products :
              /\ IsText(Doc(p).text) /\ Doc(p).popularity \in Int /\ Doc(p).sim \in Int
              /\ Get(Doc(p).meta, "margin", 0) \in Int
         /\ \A w \in DOMAIN case.dictionary : IsText(case.dictionary[w])
         /\ case.weights \in [DOMAIN DefaultWeights -> Int]
         /\ NotGiven \notin Tables[case.overrides]
BY DataAssumption DEF Doc

LEMMA TextScoreInt ==
  ASSUME case \in Cases, call \in 1..Len(case.calls), NEW q, NEW p \in DOMAIN case.products
  PROVE  TextScore(q)[p] \in Int
<1> DEFINE T == Terms(Normalize(Doc(p).text))
<1>1. IsFiniteSet(T)
  BY DataAre, NormalizeText, TermsFinite
<1>2. TextScore(q)[p] = 1000 * Cardinality(T \cap Terms(q))
  BY TextScoreIs
<1> HIDE DEF T
<1>3. T \cap Terms(q) \subseteq T
  OBVIOUS
<1>4. Cardinality(T \cap Terms(q)) \in Nat
  BY <1>1, <1>3, FS_Subset, FS_CardinalityType
<1>5. QED
  BY <1>2, <1>4

LEMMA NcdInt ==
  ASSUME NEW a, NEW b, IsFiniteSet(a), IsFiniteSet(b)
  PROVE  Ncd(a, b) \in Int
<1>1. CASE a = {} \/ b = {}
  BY <1>1 DEF Ncd
<1>2. CASE ~ (a = {} \/ b = {})
  <2> DEFINE m == Cardinality(a \cap b)
             n == Cardinality(a \cup b)
  <2>1. IsFiniteSet(a \cup b) /\ a \cap b \subseteq a
    BY FS_Union
  <2>2. m \in Nat /\ n \in Nat /\ n # 0
    <3>1. IsFiniteSet(a \cap b)
      BY <2>1, FS_Subset
    <3>2. a \cup b # {}
      BY <1>2
    <3>3. QED
      BY <2>1, <3>1, <3>2, FS_CardinalityType, FS_EmptySet
  <2>3. Ncd(a, b) = (1000 * m) \div n
    BY <1>2 DEF Ncd
  <2> HIDE DEF m, n
  <2>4. QED
    BY <2>2, <2>3
<1>3. QED
  BY <1>1, <1>2

\* A finite set of numbers has a greatest one.
LEMMA GreatestOf ==
  ASSUME NEW S \in SUBSET Nat, IsFiniteSet(S), S # {}
  PROVE  Max(S) \in S
<1> DEFINE P == {n \in 0..Cardinality(S) :
                   \A U \in SUBSET Nat :
                     IsFiniteSet(U) /\ Cardinality(U) = n /\ U # {} =>
                       \E x \in U : \A y \in U : x >= y}
           c == Cardinality(S)
<1>1. c \in Nat
  BY FS_CardinalityType
<1>2. 0 \in P
  <2>1. ASSUME NEW U, IsFiniteSet(U), Cardinality(U) = 0 PROVE U = {}
    BY <2>1, FS_EmptySet
  <2>2. QED
    BY <1>1, <2>1
<1>3. ASSUME NEW n \in 1..c, n - 1 \in P PROVE n \in P
  <2>1. SUFFICES ASSUME NEW U \in SUBSET Nat, IsFiniteSet(U), Cardinality(U) = n, U # {}
                 PROVE  \E x \in U : \A y \in U : x >= y
    BY <1>1
  <2>2. PICK u : u \in U
    BY <2>1
  <2>3. IsFiniteSet(U \ {u}) /\ Cardinality(U \ {u}) = n - 1
    BY <2>1, <2>2, FS_RemoveElement
  <2>4. U \ {u} # {} => \E x \in U \ {u} : \A y \in U \ {u} : x >= y
    BY <1>3, <2>3
  <2>5. CASE U \ {u} = {}
    <3>1. \A y \in U : y = u
      BY <2>5
    <3>2. u >= u
      BY <2>2
    <3>3. QED
      BY <2>2, <3>1, <3>2
  <2>6. CASE U \ {u} # {}
    <3>1. PICK x \in U \ {u} : \A y \in U \ {u} : x >= y
      BY <2>4, <2>6
    <3>2. x \in Nat /\ u \in Nat /\ \A y \in U : y \in Nat
      BY <2>2
    <3>3. CASE x >= u
      BY <3>1, <3>3
    <3>4. CASE ~ (x >= u)
      <4>1. ASSUME NEW y \in U PROVE u >= y
        <5>1. y = u \/ x >= y
          BY <3>1
        <5>2. QED
          BY <3>2, <3>4, <5>1
      <4>2. QED
        BY <2>2, <4>1
    <3>5. QED
      BY <3>3, <3>4
  <2>7. QED
    BY <2>5, <2>6
<1> HIDE DEF P
<1>4. \A n \in 1..c : n - 1 \in P => n \in P
  BY <1>3
<1>5. c \in P
  <2> HIDE DEF c
  <2>1. \A n \in 0..c : n \in P
    BY <1>1, <1>2, <1>4, UpTo
  <2>2. QED
    BY <1>1, <2>1
<1>6. \E x \in S : \A y \in S : x >= y
  BY <1>5 DEF P
<1>7. QED
  BY <1>6 DEF Max

LEMMA CtrInt ==
  ASSUME case \in Cases, NEW p
  PROVE  Ctr(case.clicks, p) \in Int
<1> DEFINE k == case.clicks
           S == {k[x] : x \in DOMAIN k} \cup {0}
           m == Max(S)
<1>1. IsFiniteSet(DOMAIN k) /\ k \in [DOMAIN k -> Nat]
  BY DataAre
<1> HIDE DEF k
<1>2. IsFiniteSet({k[x] : x \in DOMAIN k})
  <2>1. k = [x \in DOMAIN k |-> k[x]]
    BY <1>1
  <2>2. QED
    BY <1>1, <2>1, FiniteImage
<1>3. IsFiniteSet(S)
  <2>1. IsFiniteSet({0})
    BY FS_Singleton
  <2>2. QED
    BY <1>2, <2>1, FS_Union
<1>4. S \in SUBSET Nat /\ S # {}
  BY <1>1
<1>5. m \in Nat
  <2> HIDE DEF S
  <2>1. QED
    BY <1>3, <1>4, GreatestOf
<1>6. Ctr(k, p) = IF p \notin DOMAIN k \/ m = 0 THEN 0 ELSE (1000 * k[p]) \div m
  BY DEF Ctr
<1> HIDE DEF m, S
<1>7. p \in DOMAIN k => k[p] \in Nat
  BY <1>1
<1>8. Ctr(k, p) \in Int
  BY <1>5, <1>6, <1>7
<1>9. QED
  BY <1>8 DEF k

LEMMA RrfInt ==
  ASSUME NEW rank \in Nat, NEW weight \in Int
  PROVE  RRF(rank, weight) \in Int
BY DEF RRF, RRF_K

WeightsInt(w) ==
  /\ w.semantic \in Int /\ w.bm25 \in Int /\ w.popularity \in Int /\ w.availability \in Int
  /\ w.margin \in Int /\ w.query_ctr \in Int

LEMMA ScoreInt ==
  ASSUME NEW c, c.semantic_rank \in Nat, c.bm25_rank \in Nat, NEW ncd \in Int,
         NEW meta, Get(meta, "margin", 0) \in Int, NEW popularity \in Int, NEW ctr \in Int,
         NEW w, WeightsInt(w)
  PROVE  Score(c, ncd, meta, popularity, ctr, w) \in Int
<1> DEFINE a == RRF(c.semantic_rank, w.semantic)
           b == RRF(c.bm25_rank, w.bm25)
           d == (ncd * w.bm25) \div 2
           e == popularity * w.popularity
           i == IF Get(meta, "in_stock", TRUE) THEN 1000 ELSE 0
           f == i * w.availability
           g == Get(meta, "margin", 0) * w.margin
           h == ctr * w.query_ctr
<1> USE DEF WeightsInt
<1>1. a \in Int /\ b \in Int
  BY RrfInt
<1>2. d \in Int /\ e \in Int
  OBVIOUS
<1>3. i \in Int
  OBVIOUS
<1>4. f \in Int /\ g \in Int /\ h \in Int
  <2> HIDE DEF i
  <2>1. QED
    BY <1>3
<1>5. Score(c, ncd, meta, popularity, ctr, w) = a + b + d + e + f + g + h
  BY DEF Score
<1> HIDE DEF a, b, d, e, f, g, h
<1>6. QED
  BY <1>1, <1>2, <1>4, <1>5

-----------------------------------------------------------------------------
(* What a search comes to when nothing else moves                          *)

\* All of a request that its list depends on: not the offset.
Subject(r) ==
  [q |-> r.q, mode |-> r.mode, limit |-> Limit(r), filters |-> r.filters,
   options |-> r.options \cap {"weights", "snippets"}]

TheQuery(k)   == parse(k.q).q
TheFilters(k) == Merged(k.filters, parse(k.q).filters, ExtractFilters(gazetteer, TheQuery(k)))
TheWeights(k) ==
  IF "weights" \in k.options THEN case.weights
  ELSE Boosted(DefaultWeights, parse(k.q).boost)

\* The candidates of the vector index.
TheNearest    == CHOOSE s \in SortedByScore(vectors, Similarity) : TRUE
TheVectors(k) == IF k.mode = "bm25" THEN {} ELSE vectors
Near(k, p) ==
  IF p \in TheVectors(k)
  THEN [NoScore EXCEPT !.semantic = Similarity[p], !.semantic_rank = RankIn(TheNearest, p)]
  ELSE NoScore

\* Those of the text index: the first results, or those of the query as corrected and
\* expanded.
Matches(q, filters) == {p \in texts : TextScore(q)[p] > 0 /\ MatchesFacets(Doc(p).meta, filters)}
TheFirst(k) ==
  Matches(Normalize(TheQuery(k)), IF "snippets" \in k.options THEN Empty ELSE TheFilters(k))
TheBase(k) ==
  IF k.mode # "semantic" /\ TheFirst(k) = {} THEN Correct(case.dictionary, TheQuery(k))
  ELSE TheQuery(k)

\* The terms of the best candidates of the vector index, if the first results are few.
TheSafe  == {p \in vectors : Similarity[p] >= MIN_SEMANTIC_EXPANSION}
TheOrder == CHOOSE s \in SortedByScore(TheSafe, Similarity) : TRUE
Few(k)   == Cardinality(TheFirst(k)) < Max({k.limit \div 2, 1})
Expands(k) == k.mode \notin {"bm25", "semantic"} /\ vectors # {} /\ Few(k)
WordsOf(s) ==
  LET best == SubSeq(s, 1, Min({TopCandidates, Len(s)}))
  IN  [i \in DOMAIN best |->
         IF best[i] \in rows THEN Tokens(LowerOf(Doc(best[i]).text)) ELSE <<>>]
TermsOf(base, s) == AddedTerms(Range(Tokens(LowerOf(base))), FlattenSeq(WordsOf(s)))
TheEff(k) ==
  IF Expands(k) THEN Expanded(TheBase(k), TermsOf(TheBase(k), TheOrder))
  ELSE TheBase(k)
TheMatches(k) ==
  IF k.mode = "semantic" THEN {}
  ELSE IF TheEff(k) # TheQuery(k) THEN Matches(TheEff(k), TheFilters(k)) ELSE TheFirst(k)
TheTextScore(k) == TextScore(IF TheEff(k) # TheQuery(k) THEN TheEff(k) ELSE Normalize(TheQuery(k)))
TheBest(k) == CHOOSE s \in Sorted(TheMatches(k), TheTextScore(k)) : TRUE

With(c, score, rank) == [c EXCEPT !.bm25 = score, !.bm25_rank = rank]
TheCand(k, p) ==
  IF p \notin TheMatches(k) THEN Near(k, p)
  ELSE With(Near(k, p), TheTextScore(k)[p], RankIn(TheBest(k), p))

TheScored(k) ==
  {p \in TheVectors(k) \cup TheMatches(k) :
     p \in rows /\ MatchesFilters(Doc(p).meta, TheFilters(k))}
TheScore(k) ==
  [p \in TheScored(k) |->
     Score(TheCand(k, p), Ncd(Terms(TheEff(k)), Terms(Doc(p).text)), Doc(p).meta,
           Doc(p).popularity, Ctr(case.clicks, p), TheWeights(k))]
TheRanking(k) == CHOOSE s \in Sorted(TheScored(k), TheScore(k)) : TRUE

\* The list before the first edit, and after the last one.
TheRest(k)  == CHOOSE s \in Ascending(Staying(TheRanking(k), given.suppressed)) : TRUE
TheStart(k) ==
  [hits |-> Retained(TheRanking(k), TheRest(k)), pins |-> given.pins, slots |-> given.slots]
Ending(s)   == [hits |-> s, pins |-> {}, slots |-> {}]
TheHits(k)  == CHOOSE s : LeadsTo(TheStart(k), Ending(s))

Still == UNCHANGED <<case, gazetteer, rows, vectors, texts>>

LEMMA QuestionStays ==
  ASSUME Still, NEW k
  PROVE  /\ TheFilters(k)' = TheFilters(k) /\ TheWeights(k)' = TheWeights(k)
         /\ TheVectors(k)' = TheVectors(k)
BY DEF Still, TheFilters, TheWeights, TheVectors

LEMMA DocsStay ==
  ASSUME Still
  PROVE  /\ Similarity' = Similarity /\ TheNearest' = TheNearest
         /\ \A p : Doc(p)' = Doc(p)
         /\ \A q : TextScore(q)' = TextScore(q)
         /\ \A q, f : Matches(q, f)' = Matches(q, f)
<1>1. \A p : Doc(p)' = Doc(p)
  BY DEF Still, Doc
<1>2. Similarity' = Similarity
  BY DEF Similarity, Doc, Still
<1>3. \A q : TextScore(q)' = TextScore(q)
  BY DEF TextScore, Doc, Still
<1>4. TheNearest' = TheNearest
  BY <1>2 DEF TheNearest, Still
<1>5. \A q, f : Matches(q, f)' = Matches(q, f)
  BY <1>1, <1>3 DEF Matches, Still
<1>6. QED
  BY <1>1, <1>2, <1>3, <1>4, <1>5

LEMMA CandidatesStay ==
  ASSUME Still, NEW k
  PROVE  /\ TheFirst(k)' = TheFirst(k) /\ TheBase(k)' = TheBase(k) /\ TheEff(k)' = TheEff(k)
         /\ TheMatches(k)' = TheMatches(k) /\ TheTextScore(k)' = TheTextScore(k)
         /\ TheBest(k)' = TheBest(k)
         /\ \A p : Near(k, p)' = Near(k, p)
         /\ \A p : TheCand(k, p)' = TheCand(k, p)
<1>1. TheFirst(k)' = TheFirst(k)
  BY QuestionStays, DocsStay DEF TheFirst
<1>b. TheBase(k)' = TheBase(k)
  BY <1>1 DEF TheBase, TheQuery, Still
<1>t. TheOrder' = TheOrder
  BY DocsStay DEF TheOrder, TheSafe, Still
<1>e. WordsOf(TheOrder)' = WordsOf(TheOrder)
  BY <1>t, DocsStay DEF WordsOf, Still
<1>2. TheEff(k)' = TheEff(k)
  <2>1. Expands(k)' <=> Expands(k)
    BY <1>1 DEF Expands, Few, Still
  <2>2. TermsOf(TheBase(k), TheOrder)' = TermsOf(TheBase(k), TheOrder)
    BY <1>b, <1>e DEF TermsOf
  <2>3. QED
    BY <1>b, <2>1, <2>2 DEF TheEff
<1>3. TheMatches(k)' = TheMatches(k)
  BY <1>1, <1>2, QuestionStays, DocsStay DEF TheMatches
<1>4. TheTextScore(k)' = TheTextScore(k)
  BY <1>2, DocsStay DEF TheTextScore
<1>5. TheBest(k)' = TheBest(k)
  BY <1>3, <1>4 DEF TheBest
<1>6. \A p : Near(k, p)' = Near(k, p)
  BY QuestionStays, DocsStay DEF Near
<1>7. \A p : TheCand(k, p)' = TheCand(k, p)
  BY <1>3, <1>4, <1>5, <1>6 DEF TheCand
<1>8. QED
  BY <1>1, <1>b, <1>2, <1>3, <1>4, <1>5, <1>6, <1>7

LEMMA RankingStays ==
  ASSUME Still, NEW k
  PROVE  /\ TheScored(k)' = TheScored(k) /\ TheScore(k)' = TheScore(k)
         /\ TheRanking(k)' = TheRanking(k)
<1>1. TheScored(k)' = TheScored(k)
  BY QuestionStays, DocsStay, CandidatesStay DEF TheScored, Still
<1>2. TheScore(k)' = TheScore(k)
  BY <1>1, QuestionStays, DocsStay, CandidatesStay DEF TheScore, Still
<1>3. TheRanking(k)' = TheRanking(k)
  BY <1>1, <1>2 DEF TheRanking
<1>4. QED
  BY <1>1, <1>2, <1>3

LEMMA EditsStay ==
  ASSUME UNCHANGED rows
  PROVE  \A c, d : LeadsTo(c, d)' <=> LeadsTo(c, d)
<1>1. \A c : NextEdit(c)' = NextEdit(c)
  BY DEF NextEdit
<1>2. \A T, n, c, d : Runs(T, n, c, d)' <=> Runs(T, n, c, d)
  BY <1>1 DEF Runs
<1>3. QED
  BY <1>2 DEF LeadsTo

LEMMA HitsStay ==
  ASSUME Still, UNCHANGED given, NEW k
  PROVE  TheStart(k)' = TheStart(k) /\ TheHits(k)' = TheHits(k)
<1>1. TheRanking(k)' = TheRanking(k)
  BY RankingStays
<1>2. TheRest(k)' = TheRest(k)
  BY <1>1 DEF TheRest
<1>3. TheStart(k)' = TheStart(k)
  BY <1>1, <1>2 DEF TheStart
<1>4. \A c, d : LeadsTo(c, d)' <=> LeadsTo(c, d)
  BY EditsStay DEF Still
<1>5. TheHits(k)' = TheHits(k)
  BY <1>3, <1>4 DEF TheHits
<1>6. QED
  BY <1>3, <1>5

-----------------------------------------------------------------------------
(* A search while nothing else moves comes to that                          *)

\* What Steady says of the request r of an answer, and of what happened to its query.
Smooth(r) ==
  /\ ~ case.faulty /\ case.churn = <<>>
  /\ \A p, x \in DOMAIN case.products : p # x => Doc(p).sim # Doc(x).sim
  /\ Pool(r) >= Cardinality(DOMAIN case.products)
  /\ \A x \in Range(case.calls) : x.pool = r.pool
  /\ \A g \in Tables[case.overrides] : OnePerPosition(g.pins) /\ OnePerPosition(g.slots)
  /\ "rerank" \notin r.options
Straight(r, marks) ==
  /\ Smooth(r) /\ "rewritten" \notin marks
  /\ "expanded" \in marks => r.mode # "bm25"

LEMMA SteadyIs ==
  ASSUME NEW a
  PROVE  Steady(a) <=> Straight(a.req, a.work.marks)
BY DEF Steady, Straight, Smooth

LEMMA StraightStays ==
  ASSUME case' = case
  PROVE  \A r, m : Straight(r, m)' <=> Straight(r, m)
BY DEF Straight, Smooth, Doc

\* Nothing comes or goes, since there is nothing to; the stores agree.
Waiting == case.churn = <<>> => churn = <<>> /\ texts = vectors

LEMMA StillStep ==
  ASSUME StableInv, Waiting, [Next]_vars
  PROVE  /\ Waiting' /\ UNCHANGED <<case, gazetteer>>
         /\ case.churn = <<>> => Still /\ ~ ComeOrGo
<1>1. CASE ComeOrGo
  <2>1. churn # <<>> /\ UNCHANGED <<case, gazetteer>>
    BY <1>1 DEF ComeOrGo
  <2>2. QED
    BY <2>1 DEF Waiting
<1>2. CASE ~ ComeOrGo
  <2>1. UNCHANGED <<case, gazetteer, rows, vectors, texts, churn>>
    <3>1. CASE Retrieve
      BY <3>1, RetrieveIs DEF StableInv, BaseInv, stores
    <3>2. CASE ApplyOverrides
      BY <3>2, OverrideIs DEF ApplyOverrides
    <3>3. CASE Lookup \/ Parse \/ ScoreCandidate \/ Rank \/ Respond
      BY <3>3 DEF Lookup, Parse, ScoreCandidate, Rank, Respond, stores
    <3>4. CASE BeginList \/ TakeFromList \/ EndList \/ Fail \/ NextCall \/ UNCHANGED vars
      BY <3>4 DEF BeginList, TakeFromList, EndList, Fail, NextCall, vars, stores
    <3>5. QED
      BY <1>2, <3>1, <3>2, <3>3, <3>4 DEF Next, Retrieve, Finished
  <2>2. QED
    BY <1>2, <2>1 DEF Still, Waiting
<1>3. QED
  BY <1>1, <1>2

\* The catalogue is in the pool.
LEMMA PoolHolds ==
  ASSUME StableInv, Smooth(Req), NEW S, S \subseteq DOMAIN case.products, NEW score,
         NEW R \in TopK(S, score, Pool(Req))
  PROVE  R = S /\ IsFiniteSet(S)
<1>1. IsFiniteSet(DOMAIN case.products) /\ Pool(Req) \in Nat
  BY ProductsAre, PoolIs DEF StableInv, BaseInv
<1>2. IsFiniteSet(S) /\ Cardinality(S) <= Cardinality(DOMAIN case.products)
  BY <1>1, FS_Subset
<1>3. Cardinality(S) \in Nat /\ Cardinality(DOMAIN case.products) \in Nat
  BY <1>1, <1>2, FS_CardinalityType
<1>4. Cardinality(S) <= Pool(Req)
  BY <1>1, <1>2, <1>3 DEF Smooth
<1>5. QED
  BY <1>1, <1>2, <1>4, TopKIs

LEMMA AllMatches ==
  ASSUME StableInv, Smooth(Req), NEW q, NEW f, NEW R \in OrNothing(SearchText(q, f))
  PROVE  R = Matches(q, f) /\ R \in SearchText(q, f) /\ IsFiniteSet(R)
<1>1. R \in SearchText(q, f)
  BY DEF OrNothing, Smooth
<1>2. R \in TopK(Matches(q, f), TextScore(q), Pool(Req))
  BY <1>1 DEF SearchText, Matches
<1>3. Matches(q, f) \subseteq DOMAIN case.products
  BY DEF Matches, StableInv, StoresInv
<1>4. QED
  BY <1>1, <1>2, <1>3, PoolHolds

LEMMA RankNat ==
  ASSUME NEW S, IsFiniteSet(S), NEW score, NEW s \in SortedByScore(S, score), NEW p
  PROVE  RankIn(s, p) \in Nat
<1>1. s \in Seq(S)
  BY OrdersAre DEF SortedByScore
<1>2. RankIn(s, p) = IndexOf(s, p)
  BY DEF RankIn, IndexOf
<1>3. QED
  BY <1>1, <1>2, IndexIs

\* Scores of products are in the same order if they are equal.
LEMMA SortedSame ==
  ASSUME NEW S, IsFiniteSet(S), NEW f, NEW g, \A x \in S : f[x] = g[x]
  PROVE  SortedByScore(S, f) = SortedByScore(S, g) /\ Sorted(S, f) = Sorted(S, g)
<1>1. ASSUME NEW s \in SetToSeqs(S), NEW i \in DOMAIN s PROVE f[s[i]] = g[s[i]]
  <2>1. s \in Seq(S)
    BY OrdersAre
  <2>2. QED
    BY <2>1
<1>2. SortedByScore(S, f) = SortedByScore(S, g)
  BY <1>1 DEF SortedByScore
<1>3. \A s \in SortedByScore(S, f) : s \in SetToSeqs(S)
  BY DEF SortedByScore
<1>4. QED
  BY <1>1, <1>2, <1>3 DEF Sorted

\* The request is understood.
Understood(k) ==
  /\ work.q = TheQuery(k) /\ work.filters = TheFilters(k) /\ work.weights = TheWeights(k)

\* The candidates of the vector index; with the first results of the text index, or
\* these alone; with those of the text index.
Numbered(c) == c.semantic_rank \in Nat /\ c.bm25_rank \in Nat
NearOnes(k) ==
  /\ DOMAIN work.cand = TheVectors(k)
  /\ \A p \in DOMAIN work.cand : work.cand[p] = Near(k, p) /\ Numbered(work.cand[p])
Half(k) ==
  /\ work.first = TheFirst(k)
  /\ DOMAIN work.cand = IF TheVectors(k) # {} THEN TheVectors(k) ELSE TheFirst(k)
  /\ \A p \in DOMAIN work.cand :
       /\ Numbered(work.cand[p])
       /\ TheVectors(k) # {} => work.cand[p] = Near(k, p)
       /\ TheVectors(k) = {} => \E b, n : work.cand[p] = With(Near(k, p), b, n)
Whole(k) ==
  /\ DOMAIN work.cand = TheVectors(k) \cup TheMatches(k)
  /\ \A p \in DOMAIN work.cand : work.cand[p] = TheCand(k, p) /\ Numbered(work.cand[p])

\* What is scored is scored as it must be, and the rest is still to do.
Scored(k) ==
  /\ work.clicks = case.clicks
  /\ Range(work.todo) \subseteq DOMAIN work.cand
  /\ DOMAIN work.score \subseteq TheScored(k)
  /\ TheScored(k) \subseteq DOMAIN work.score \cup Range(work.todo)
  /\ \A p \in DOMAIN work.score : work.score[p] = TheScore(k)[p] /\ TheScore(k)[p] \in Int

\* From step to step, a search is on its way to the one list.
RunOf(k) ==
  /\ phase \in Finding \cup Ranked => Understood(k)
  /\ phase \in Finding \ {"score"} => DOMAIN work.score = {}
  /\ phase \in {"vector", "text", "reformulate"} => work.eff = TheQuery(k)
  /\ phase = "expand" => work.eff = TheBase(k)
  /\ phase \in {"retext", "clicks", "score"} => work.eff = TheEff(k) /\ IsText(work.eff)
  /\ phase = "vector" => k.mode # "bm25"
  /\ phase \in {"text", "reformulate", "expand", "retext"} => k.mode # "semantic"
  /\ phase = "text" => NearOnes(k)
  /\ phase \in {"reformulate", "expand", "retext"} => Half(k)
  /\ phase \in {"clicks", "score"} => Whole(k)
  /\ phase = "score" => Scored(k)
  /\ phase \in Ranked => ranking = TheRanking(k)
  /\ phase \in Editing => LeadsTo(TheStart(k), List)
  /\ phase \in {"sponsor", "respond"} => pins = {}
  /\ phase = "respond" => slots = {}

LEMMA SubjectIs ==
  ASSUME NEW r
  PROVE  /\ Subject(r).q = r.q /\ Subject(r).mode = r.mode /\ Subject(r).filters = r.filters
         /\ Subject(r).limit = Limit(r)
         /\ "weights" \in Subject(r).options <=> "weights" \in r.options
         /\ "snippets" \in Subject(r).options <=> "snippets" \in r.options
BY DEF Subject

LEMMA UnderstoodStays ==
  ASSUME Still, NEW k, Understood(k), work'.q = work.q, work'.filters = work.filters,
         work'.weights = work.weights
  PROVE  Understood(k)'
<1>1. TheFilters(k)' = TheFilters(k) /\ TheWeights(k)' = TheWeights(k)
  BY QuestionStays
<1>2. QED
  BY <1>1 DEF Understood, TheQuery

LEMMA HalfStays ==
  ASSUME Still, NEW k, Half(k), work'.first = work.first, work'.cand = work.cand
  PROVE  Half(k)'
<1>1. /\ TheFirst(k)' = TheFirst(k) /\ TheVectors(k)' = TheVectors(k)
      /\ \A p : Near(k, p)' = Near(k, p)
  BY QuestionStays, CandidatesStay
<1>2. QED
  BY <1>1 DEF Half, Numbered

LEMMA WholeStays ==
  ASSUME Still, NEW k, Whole(k), work'.cand = work.cand
  PROVE  Whole(k)'
<1>1. /\ TheMatches(k)' = TheMatches(k) /\ TheVectors(k)' = TheVectors(k)
      /\ \A p : TheCand(k, p)' = TheCand(k, p)
  BY QuestionStays, CandidatesStay
<1>2. QED
  BY <1>1 DEF Whole, Numbered

LEMMA ParseRuns ==
  ASSUME BaseInv, Still, NEW k, k = Subject(Req), Parse
  PROVE  RunOf(k)'
<1>1. /\ work'.q = TheQuery(k) /\ work'.eff = TheQuery(k) /\ work'.filters = TheFilters(k)
      /\ work'.weights = TheWeights(k) /\ work'.cand = Empty
  <2> DEFINE p == parse(Req.q)
             W == [NoWork EXCEPT
                    !.q = p.q, !.eff = p.q,
                    !.filters = Merged(Req.filters, p.filters, ExtractFilters(gazetteer, p.q)),
                    !.weights = IF "weights" \in Req.options THEN case.weights
                                ELSE Boosted(DefaultWeights, p.boost)]
  <2>1. work' = W
    BY DEF Parse
  <2>2. /\ W.q = p.q /\ W.eff = p.q /\ W.cand = NoWork.cand
        /\ W.filters = Merged(Req.filters, p.filters, ExtractFilters(gazetteer, p.q))
        /\ W.weights = IF "weights" \in Req.options THEN case.weights
                       ELSE Boosted(DefaultWeights, p.boost)
    BY WorkIs
  <2>3. NoWork.cand = Empty
    BY DEF NoWork
  <2> HIDE DEF W
  <2>4. /\ p = parse(k.q) /\ Req.filters = k.filters
        /\ "weights" \in Req.options <=> "weights" \in k.options
    BY SubjectIs
  <2> HIDE DEF p
  <2>5. QED
    BY <2>1, <2>2, <2>3, <2>4 DEF TheQuery, TheFilters, TheWeights
<1>2. /\ phase' = IF k.mode = "bm25" THEN "text" ELSE "vector"
      /\ DOMAIN work'.score = {}
  BY ParseIs, SubjectIs DEF Parse
<1>3. Understood(k)'
  <2>1. TheFilters(k)' = TheFilters(k) /\ TheWeights(k)' = TheWeights(k)
    BY QuestionStays
  <2>2. QED
    BY <1>1, <2>1 DEF Understood, TheQuery
<1>4. ASSUME k.mode = "bm25" PROVE NearOnes(k)'
  <2>1. TheVectors(k)' = {} /\ DOMAIN work'.cand = {}
    BY <1>1, <1>4 DEF TheVectors, Empty
  <2>2. QED
    BY <2>1 DEF NearOnes
<1>5. work'.eff = TheQuery(k)'
  BY <1>1 DEF TheQuery
<1>6. QED
  BY <1>2, <1>3, <1>4, <1>5 DEF RunOf, Finding, Ranked, Editing

LEMMA TheQueryText ==
  ASSUME BaseInv, NEW k, k = Subject(Req)
  PROVE  IsText(TheQuery(k)) /\ IsText(TheBase(k))
<1>1. IsText(k.q)
  BY ProductsAre, SubjectIs DEF BaseInv
<1>2. IsText(TheQuery(k))
  BY <1>1, ParsedText DEF TheQuery
<1>3. IsText(Correct(case.dictionary, TheQuery(k)))
  BY <1>2, DataAre, CorrectText DEF BaseInv
<1>4. QED
  BY <1>2, <1>3 DEF TheBase

LEMMA VectorRuns ==
  ASSUME StableInv, Still, NEW k, k = Subject(Req), Smooth(Req), RunOf(k), VectorSearch
  PROVE  RunOf(k)'
<1>1. PICK R \in TopK(vectors, Similarity, Pool(Req)) : \E s \in SortedByScore(R, Similarity) :
        work' = [work EXCEPT !.cand =
          [p \in R |-> [NoScore EXCEPT !.semantic = Similarity[p],
                                       !.semantic_rank = RankIn(s, p)]]]
  BY DEF VectorSearch
<1>2. PICK s \in SortedByScore(R, Similarity) :
        work' = [work EXCEPT !.cand =
          [p \in R |-> [NoScore EXCEPT !.semantic = Similarity[p],
                                       !.semantic_rank = RankIn(s, p)]]]
  BY <1>1
<1>3. /\ phase = "vector" /\ phase' = IF k.mode = "semantic" THEN "clicks" ELSE "text"
  BY SubjectIs DEF VectorSearch
<1>4. k.mode # "bm25" /\ Understood(k) /\ work.eff = TheQuery(k) /\ DOMAIN work.score = {}
  BY <1>3 DEF RunOf, Finding
<1>5. R = vectors /\ IsFiniteSet(vectors)
  BY PoolHolds DEF StableInv, StoresInv
<1>6. s = TheNearest
  <2>1. \A p \in vectors : Similarity[p] = Doc(p).sim /\ Doc(p).sim \in Int
    BY DataAre, ProductsAre DEF Similarity, StableInv, BaseInv, StoresInv
  <2>2. \A p, x \in vectors : p # x => Similarity[p] # Similarity[x]
    BY <2>1 DEF Smooth, StableInv, StoresInv
  <2>3. TheNearest \in SortedByScore(vectors, Similarity)
    BY <1>2, <1>5 DEF TheNearest
  <2>4. QED
    BY <1>2, <1>5, <2>1, <2>2, <2>3, OneByScore
<1> DEFINE C == [p \in R |-> [NoScore EXCEPT !.semantic = Similarity[p],
                                             !.semantic_rank = RankIn(s, p)]]
<1>7. /\ work'.cand = C /\ work'.q = work.q /\ work'.filters = work.filters
      /\ work'.weights = work.weights /\ work'.eff = work.eff /\ work'.score = work.score
  BY <1>2, WorkIs DEF StableInv, BaseInv
<1>8. TheVectors(k) = vectors
  BY <1>4 DEF TheVectors
<1>9. \A p \in vectors : C[p] = Near(k, p) /\ Numbered(C[p])
  <2> SUFFICES ASSUME NEW p \in vectors PROVE C[p] = Near(k, p) /\ Numbered(C[p])
    OBVIOUS
  <2>1. C[p] = [NoScore EXCEPT !.semantic = Similarity[p], !.semantic_rank = RankIn(s, p)]
    BY <1>5
  <2>2. RankIn(s, p) \in Nat
    BY <1>2, <1>5, RankNat
  <2>3. Near(k, p) = [NoScore EXCEPT !.semantic = Similarity[p], !.semantic_rank = RankIn(s, p)]
    BY <1>6, <1>8 DEF Near
  <2> HIDE DEF C
  <2>4. Numbered(C[p])
    BY <2>1, <2>2 DEF Numbered, NoScore
  <2>5. QED
    BY <2>1, <2>3, <2>4
<1>10. DOMAIN C = TheVectors(k)
  BY <1>5, <1>8
<1> HIDE DEF C
<1>11. /\ TheVectors(k)' = TheVectors(k) /\ \A p : Near(k, p)' = Near(k, p)
       /\ TheMatches(k)' = TheMatches(k) /\ \A p : TheCand(k, p)' = TheCand(k, p)
       /\ TheEff(k)' = TheEff(k)
  BY QuestionStays, CandidatesStay
<1>12. NearOnes(k)'
  BY <1>7, <1>8, <1>9, <1>10, <1>11 DEF NearOnes, Numbered
<1>13. ASSUME k.mode = "semantic" PROVE Whole(k)' /\ work'.eff = TheEff(k)' /\ IsText(work'.eff)
  <2>1. TheMatches(k) = {} /\ TheEff(k) = TheQuery(k)
    BY <1>13 DEF TheMatches, TheEff, TheBase, Expands
  <2>4. IsText(TheQuery(k))
    BY TheQueryText DEF StableInv
  <2>2. \A p : TheCand(k, p) = Near(k, p)
    BY <2>1 DEF TheCand
  <2>3. QED
    BY <1>4, <1>7, <1>8, <1>9, <1>10, <1>11, <2>1, <2>2, <2>4 DEF Whole, Numbered
<1>14. Understood(k)'
  BY <1>4, <1>7, UnderstoodStays
<1>15. work'.eff = TheQuery(k)'
  BY <1>4, <1>7 DEF TheQuery
<1>16. DOMAIN work'.score = {}
  BY <1>4, <1>7
<1>17. QED
  BY <1>3, <1>12, <1>13, <1>14, <1>15, <1>16 DEF RunOf, Finding, Ranked, Editing

LEMMA FirstRuns ==
  ASSUME StableInv, Still, NEW k, k = Subject(Req), Smooth(Req), RunOf(k), FirstTextSearch
  PROVE  RunOf(k)'
<1> DEFINE q == Normalize(work.q)
           f == IF "snippets" \in Req.options THEN Empty ELSE work.filters
           C(R, s) == [p \in R |-> [NoScore EXCEPT !.bm25 = TextScore(q)[p],
                                                   !.bm25_rank = RankIn(s, p)]]
<1>1. /\ phase = "text" /\ phase' = "reformulate"
      /\ \E R \in OrNothing(SearchText(q, f)) : \E s \in SortedByScore(R, TextScore(q)) :
           /\ work'.first = R
           /\ work'.cand = IF DOMAIN work.cand # {} THEN work.cand ELSE C(R, s)
           /\ work'.q = work.q /\ work'.filters = work.filters /\ work'.weights = work.weights
           /\ work'.eff = work.eff /\ work'.score = work.score
  BY WorkIs, ZenonT(60) DEF FirstTextSearch, StableInv, BaseInv
<1>2. /\ Understood(k) /\ work.eff = TheQuery(k) /\ DOMAIN work.score = {}
      /\ k.mode # "semantic" /\ NearOnes(k)
  BY <1>1 DEF RunOf, Finding
<1>3. Matches(q, f) = TheFirst(k)
  BY <1>2, SubjectIs DEF Understood, TheFirst
<1> HIDE DEF q, f, C
<1>4. PICK R \in OrNothing(SearchText(q, f)) : \E s \in SortedByScore(R, TextScore(q)) :
        /\ work'.first = R
        /\ work'.cand = IF DOMAIN work.cand # {} THEN work.cand ELSE C(R, s)
        /\ work'.q = work.q /\ work'.filters = work.filters /\ work'.weights = work.weights
        /\ work'.eff = work.eff /\ work'.score = work.score
  BY <1>1
<1>5. PICK s \in SortedByScore(R, TextScore(q)) :
        /\ work'.first = R
        /\ work'.cand = IF DOMAIN work.cand # {} THEN work.cand ELSE C(R, s)
        /\ work'.q = work.q /\ work'.filters = work.filters /\ work'.weights = work.weights
        /\ work'.eff = work.eff /\ work'.score = work.score
  BY <1>4
<1>6. R = TheFirst(k) /\ IsFiniteSet(R)
  BY <1>3, AllMatches
<1>7. /\ TheFirst(k)' = TheFirst(k) /\ TheVectors(k)' = TheVectors(k)
      /\ \A p : Near(k, p)' = Near(k, p)
  BY QuestionStays, CandidatesStay
<1>8. DOMAIN work.cand = TheVectors(k)
  BY <1>2 DEF NearOnes
<1>9. Half(k)'
  <2>1. CASE TheVectors(k) # {}
    <3>1. work'.cand = work.cand
      BY <1>5, <1>8, <2>1
    <3>2. \A p \in DOMAIN work.cand : work.cand[p] = Near(k, p) /\ Numbered(work.cand[p])
      BY <1>2 DEF NearOnes
    <3>3. QED
      BY <1>5, <1>6, <1>7, <1>8, <2>1, <3>1, <3>2 DEF Half, Numbered
  <2>2. CASE TheVectors(k) = {}
    <3>1. work'.cand = C(R, s)
      BY <1>5, <1>8, <2>2
    <3>2. DOMAIN C(R, s) = TheFirst(k)
      BY <1>6 DEF C
    <3>3. ASSUME NEW p \in R
          PROVE  Numbered(C(R, s)[p]) /\ \E b, n : C(R, s)[p] = With(Near(k, p), b, n)
      <4>1. C(R, s)[p] = With(NoScore, TextScore(q)[p], RankIn(s, p))
        BY DEF C, With
      <4>2. RankIn(s, p) \in Nat
        BY <1>6, RankNat
      <4>3. Near(k, p) = NoScore
        BY <2>2 DEF Near
      <4>4. Numbered(C(R, s)[p])
        BY <4>1, <4>2 DEF Numbered, With, NoScore
      <4>5. QED
        BY <4>1, <4>3, <4>4
    <3>4. QED
      BY <1>5, <1>6, <1>7, <2>2, <3>1, <3>2, <3>3 DEF Half, Numbered
  <2>3. QED
    BY <2>1, <2>2
<1>10. Understood(k)'
  BY <1>2, <1>5, UnderstoodStays
<1>11. work'.eff = TheQuery(k)' /\ DOMAIN work'.score = {}
  BY <1>2, <1>5 DEF TheQuery
<1>12. QED
  BY <1>1, <1>2, <1>9, <1>10, <1>11 DEF RunOf, Finding, Ranked, Editing

LEMMA ReformulateRuns ==
  ASSUME StableInv, Still, NEW k, k = Subject(Req), "rewritten" \notin work'.marks, RunOf(k),
         Reformulate
  PROVE  RunOf(k)'
<1>1. phase = "reformulate" /\ phase' = "expand"
  BY ReformulateIs
<1>2. /\ Understood(k) /\ work.eff = TheQuery(k) /\ DOMAIN work.score = {}
      /\ k.mode # "semantic" /\ Half(k)
  BY <1>1 DEF RunOf, Finding
<1>3. work.q = TheQuery(k) /\ work.first = TheFirst(k)
  BY <1>2 DEF Understood, Half
<1> DEFINE e == Correct(case.dictionary, work.q)
<1> HIDE DEF e
<1>4. \/ Asks(e, {"corrected"}) /\ work.first = {} /\ e # work.q
      \/ ~ (work.first = {} /\ e # work.q)
         /\ \/ \E q : Asks(q, IF q = work.q THEN {} ELSE {"rewritten"})
            \/ UNCHANGED work
  BY ReformulateIs DEF e
<1>5. TheBase(k) = IF work.first = {} /\ e # work.q THEN e ELSE work.q
  BY <1>2, <1>3 DEF TheBase, e
<1>6. /\ work'.q = work.q /\ work'.first = work.first /\ work'.filters = work.filters
      /\ work'.cand = work.cand /\ work'.weights = work.weights
  BY <1>4, AsksIs DEF StableInv, BaseInv
<1>7. work'.eff = TheBase(k)
  <2>1. CASE Asks(e, {"corrected"}) /\ work.first = {} /\ e # work.q
    BY <1>5, <2>1, AsksIs DEF StableInv, BaseInv
  <2>2. CASE ~ (work.first = {} /\ e # work.q)
    <3>1. CASE UNCHANGED work
      BY <1>2, <1>3, <1>5, <2>2, <3>1
    <3>2. CASE \E q : Asks(q, IF q = work.q THEN {} ELSE {"rewritten"})
      <4>1. PICK q : Asks(q, IF q = work.q THEN {} ELSE {"rewritten"})
        BY <3>2
      <4>2. /\ work'.eff = q
            /\ work'.marks = work.marks \cup (IF q = work.q THEN {} ELSE {"rewritten"})
        BY <4>1, AsksIs DEF StableInv, BaseInv
      <4>3. q = work.q
        BY <4>2
      <4>4. QED
        BY <1>5, <2>2, <4>2, <4>3
    <3>3. QED
      BY <1>4, <2>2, <3>1, <3>2
  <2>3. QED
    BY <1>4, <2>1, <2>2
<1>8. TheBase(k)' = TheBase(k) /\ Half(k)' /\ Understood(k)'
  BY <1>2, <1>6, CandidatesStay, HalfStays, UnderstoodStays
<1>9. DOMAIN work'.score = {}
  <2>1. work'.score = work.score
    BY RetrieveIs DEF Retrieve, StableInv, BaseInv
  <2>2. QED
    BY <1>2, <2>1
<1>10. QED
  BY <1>1, <1>2, <1>7, <1>8, <1>9 DEF RunOf, Finding, Ranked, Editing

LEMMA NoLess ==
  ASSUME NEW a \in Int
  PROVE  Max({0, a}) = IF a >= 0 THEN a ELSE 0
<1>1. CASE a >= 0
  <2>1. \A x \in {0, a} : (\A y \in {0, a} : x >= y) <=> x = a
    BY <1>1
  <2>2. QED
    BY <1>1, <2>1 DEF Max
<1>2. CASE ~ (a >= 0)
  <2>1. \A x \in {0, a} : (\A y \in {0, a} : x >= y) <=> x = 0
    BY <1>2
  <2>2. QED
    BY <1>2, <2>1 DEF Max
<1>3. QED
  BY <1>1, <1>2

\* Few results of the text index: the candidates of the vector index, which are not
\* equally similar, expand the query in one way.
LEMMA ExpandsOneWay ==
  ASSUME StableInv, NEW k, k = Subject(Req), Smooth(Req), Half(k), vectors # {},
         k.mode # "bm25", Expand
  PROVE  \/ ~ Few(k) /\ UNCHANGED work
         \/ /\ Few(k)
            /\ work'.eff = Expanded(work.eff, TermsOf(work.eff, TheOrder))
<1> DEFINE c == work.cand
           few == Cardinality(work.first) < Max({Limit(Req) \div 2, 1})
           safe == {p \in DOMAIN c : c[p].bm25 > 0 \/ c[p].semantic >= MIN_SEMANTIC_EXPANSION}
           best == [p \in safe |-> Max({c[p].semantic, c[p].bm25})]
           E(s) == Expanded(work.eff, ExpansionTerms(work.eff, s, rows))
<1>1. few <=> Few(k)
  BY SubjectIs DEF Few, Half
<1>2. TheVectors(k) = vectors
  BY DEF TheVectors
<1>3. DOMAIN c = vectors /\ \A p \in vectors : c[p] = Near(k, p)
  BY <1>2 DEF Half
<1>4. CASE ~ few
  BY <1>1, <1>4 DEF Expand
<1>5. CASE few
  <2>1. \E s \in SortedByScore(safe, best) :
        \E readable \in (IF case.faulty THEN SUBSET rows ELSE {rows}) :
          LET e == Expanded(work.eff, ExpansionTerms(work.eff, s, readable)) IN
          work' = [work EXCEPT !.eff = e,
                               !.marks = IF e = work.eff THEN @ ELSE @ \cup {"expanded"}]
    BY <1>3, <1>5 DEF Expand
  <2>2. PICK s \in SortedByScore(safe, best) :
          work' = [work EXCEPT !.eff = E(s),
                               !.marks = IF E(s) = work.eff THEN @ ELSE @ \cup {"expanded"}]
    BY <2>1 DEF Smooth
  <2>3. work'.eff = E(s)
    BY <2>2, WorkIs DEF StableInv, BaseInv
  <2>4. \A p \in vectors : Similarity[p] = Doc(p).sim /\ Similarity[p] \in Int
    BY DataAre, ProductsAre DEF Similarity, StableInv, BaseInv, StoresInv
  <2>5. \A p \in vectors : c[p].bm25 = 0 /\ c[p].semantic = Similarity[p]
    BY <1>2, <1>3 DEF Near, NoScore
  <2>6. safe = TheSafe
    BY <1>3, <2>5 DEF TheSafe
  <2>7. ASSUME NEW p \in TheSafe
        PROVE  best[p] = Similarity[p]
    <3> DEFINE a == Similarity[p]
    <3>1. a \in Int /\ a >= 0
      BY <2>4 DEF TheSafe, MIN_SEMANTIC_EXPANSION
    <3>2. best[p] = Max({a, 0})
      BY <2>5, <2>6 DEF TheSafe
    <3> HIDE DEF a
    <3>3. Max({0, a}) = a
      BY <3>1, NoLess
    <3>4. {a, 0} = {0, a}
      OBVIOUS
    <3>5. QED
      BY <3>2, <3>3, <3>4 DEF a
  <2>8. IsFiniteSet(TheSafe)
    BY ProductsAre, FS_Subset DEF TheSafe, StableInv, BaseInv, StoresInv
  <2> HIDE DEF safe, best, E
  <2>9. s \in SortedByScore(TheSafe, Similarity)
    BY <2>2, <2>6, <2>7, <2>8, SortedSame
  <2>10. s = TheOrder
    <3>1. TheOrder \in SortedByScore(TheSafe, Similarity)
      BY <2>9 DEF TheOrder
    <3>2. \A p, x \in TheSafe : p # x => Similarity[p] # Similarity[x]
      BY <2>4 DEF Smooth, TheSafe, StableInv, StoresInv
    <3>3. \A p \in TheSafe : Similarity[p] \in Int
      BY <2>4 DEF TheSafe
    <3>4. QED
      BY <2>8, <2>9, <3>1, <3>2, <3>3, OneByScore
  <2>11. ExpansionTerms(work.eff, s, rows) = TermsOf(work.eff, s)
    BY DEF ExpansionTerms, TermsOf, WordsOf, AddedTerms, AddedTerm
  <2>12. QED
    BY <1>1, <1>5, <2>3, <2>10, <2>11 DEF E
<1>6. QED
  BY <1>4, <1>5

LEMMA ExpandRuns ==
  ASSUME StableInv, Waiting, Still, NEW k, k = Subject(Req), Straight(Req, work'.marks), RunOf(k),
         Expand
  PROVE  RunOf(k)'
<1>1. /\ phase = "expand" /\ phase' = "retext"
      /\ \/ UNCHANGED work
         \/ \E e : Asks(e, IF e = work.eff THEN {} ELSE {"expanded"})
  BY ExpandIs DEF StableInv
<1>2. /\ Understood(k) /\ work.eff = TheBase(k) /\ DOMAIN work.score = {}
      /\ k.mode # "semantic" /\ Half(k)
  BY <1>1 DEF RunOf, Finding
<1>3. /\ work'.q = work.q /\ work'.first = work.first /\ work'.filters = work.filters
      /\ work'.cand = work.cand /\ work'.weights = work.weights
      /\ "expanded" \notin work'.marks => work'.eff = work.eff
  <2>1. CASE UNCHANGED work
    BY <2>1
  <2>2. CASE \E e : Asks(e, IF e = work.eff THEN {} ELSE {"expanded"})
    <3>1. PICK e : Asks(e, IF e = work.eff THEN {} ELSE {"expanded"})
      BY <2>2
    <3>2. /\ work'.eff = e
          /\ work'.marks = work.marks \cup (IF e = work.eff THEN {} ELSE {"expanded"})
          /\ work'.q = work.q /\ work'.first = work.first /\ work'.filters = work.filters
          /\ work'.cand = work.cand /\ work'.weights = work.weights
      BY <3>1, AsksIs DEF StableInv, BaseInv
    <3>3. QED
      BY <3>2
  <2>3. QED
    BY <1>1, <2>1, <2>2
<1>4. work'.eff = TheEff(k)
  <2>0. k.mode = Req.mode
    BY SubjectIs
  <2>1. CASE k.mode = "bm25"
    <3>1. "expanded" \notin work'.marks
      BY <2>0, <2>1 DEF Straight
    <3>2. QED
      BY <1>2, <1>3, <2>1, <3>1 DEF TheEff, Expands
  <2>2. CASE k.mode # "bm25" /\ vectors = {}
    <3>1. TheVectors(k) = {} /\ texts = {}
      BY <2>2 DEF TheVectors, Waiting, Straight, Smooth
    <3>2. DOMAIN work.cand = {}
      BY <1>2, <3>1 DEF Half, TheFirst, Matches
    <3>3. UNCHANGED work
      BY <3>2 DEF Expand
    <3>4. QED
      BY <1>2, <2>2, <3>3 DEF TheEff, Expands
  <2>3. CASE k.mode # "bm25" /\ vectors # {}
    <3>1. \/ ~ Few(k) /\ UNCHANGED work
          \/ /\ Few(k)
             /\ work'.eff = Expanded(work.eff, TermsOf(work.eff, TheOrder))
      BY <1>2, <2>3, ExpandsOneWay DEF Straight
    <3>2. QED
      BY <1>2, <2>3, <3>1 DEF TheEff, Expands
  <2>4. QED
    BY <2>1, <2>2, <2>3
<1>5. IsText(work'.eff)
  <2>1. IsText(work.eff)
    BY <1>2, TheQueryText DEF StableInv
  <2>2. QED
    BY <2>1, ExpandedIs DEF StableInv
<1>6. TheEff(k)' = TheEff(k) /\ Half(k)' /\ Understood(k)'
  BY <1>2, <1>3, CandidatesStay, HalfStays, UnderstoodStays
<1>7. DOMAIN work'.score = {}
  <2>1. work'.score = work.score
    BY RetrieveIs DEF Retrieve, StableInv, BaseInv
  <2>2. QED
    BY <1>2, <2>1
<1>8. QED
  BY <1>1, <1>2, <1>4, <1>5, <1>6, <1>7 DEF RunOf, Finding, Ranked, Editing

LEMMA WithIs ==
  ASSUME NEW c, DOMAIN c = DOMAIN NoScore, NEW b, NEW n
  PROVE  /\ DOMAIN With(c, b, n) = DOMAIN NoScore
         /\ With(c, b, n).semantic_rank = c.semantic_rank /\ With(c, b, n).bm25_rank = n
         /\ \A d, m : With(With(c, b, n), d, m) = With(c, d, m)
<1>1. {"semantic", "bm25", "semantic_rank", "bm25_rank"} = DOMAIN NoScore
  BY DEF NoScore
<1>2. /\ DOMAIN With(c, b, n) = DOMAIN NoScore
      /\ With(c, b, n).semantic_rank = c.semantic_rank /\ With(c, b, n).bm25_rank = n
  BY <1>1 DEF With
<1>3. ASSUME NEW d, NEW m PROVE With(With(c, b, n), d, m) = With(c, d, m)
  BY <1>1 DEF With
<1>4. QED
  BY <1>2, <1>3

LEMMA NearIs ==
  ASSUME NEW k, NEW p
  PROVE  DOMAIN Near(k, p) = DOMAIN NoScore
BY DEF Near, NoScore

\* A candidate of the first half, or none, with what the text index says of it.
LEMMA CandidateIs ==
  ASSUME NEW k, Half(k), NEW p, NEW b, NEW n \in Nat
  PROVE  LET c == IF p \in DOMAIN work.cand THEN work.cand[p] ELSE NoScore
         IN  With(c, b, n) = With(Near(k, p), b, n) /\ Numbered(With(c, b, n))
<1> DEFINE c == IF p \in DOMAIN work.cand THEN work.cand[p] ELSE NoScore
           w == With(c, b, n)
           v == Near(k, p)
<1>1. DOMAIN v = DOMAIN NoScore
  BY NearIs
<1>2. p \notin DOMAIN work.cand => v = NoScore
  BY DEF Half, Near
<1>3. c = v \/ \E d, m : c = With(v, d, m)
  BY <1>2 DEF Half
<1>4. c.semantic_rank \in Nat
  BY DEF Half, Numbered, NoScore
<1> HIDE DEF c, v
<1>5. w = With(v, b, n) /\ DOMAIN c = DOMAIN NoScore
  <2>1. CASE c = v
    BY <1>1, <2>1
  <2>2. CASE \E d, m : c = With(v, d, m)
    <3>1. PICK d, m : c = With(v, d, m)
      BY <2>2
    <3>2. QED
      BY <1>1, <3>1, WithIs
  <2>3. QED
    BY <1>3, <2>1, <2>2
<1>6. w.semantic_rank \in Nat /\ w.bm25_rank \in Nat
  BY <1>4, <1>5, WithIs
<1>7. QED
  BY <1>5, <1>6 DEF Numbered, c, v

LEMMA SecondRuns ==
  ASSUME StableInv, KeptInv, Still, NEW k, k = Subject(Req), Smooth(Req), RunOf(k),
         SecondTextSearch
  PROVE  RunOf(k)'
<1> DEFINE again == work.eff # work.q
           found == IF again THEN SearchText(work.eff, work.filters) ELSE {work.first}
           score == TextScore(IF again THEN work.eff ELSE Normalize(work.q))
           c == work.cand
           C(R, s) == [p \in DOMAIN c \cup R |->
             IF p \notin R THEN c[p]
             ELSE [(IF p \in DOMAIN c THEN c[p] ELSE NoScore) EXCEPT
                     !.bm25 = score[p], !.bm25_rank = RankIn(s, p)]]
<1>1. /\ phase = "retext" /\ phase' = "clicks"
      /\ \E R \in (IF again THEN OrNothing(found) ELSE found) : \E s \in Sorted(R, score) :
           /\ work'.cand = C(R, s)
           /\ work'.q = work.q /\ work'.filters = work.filters /\ work'.weights = work.weights
           /\ work'.eff = work.eff /\ work'.score = work.score
  BY WorkIs, ZenonT(60) DEF SecondTextSearch, StableInv, BaseInv
<1>2. /\ Understood(k) /\ work.eff = TheEff(k) /\ IsText(work.eff) /\ DOMAIN work.score = {}
      /\ k.mode # "semantic" /\ Half(k)
  BY <1>1 DEF RunOf, Finding
<1>3. work.q = TheQuery(k) /\ work.filters = TheFilters(k) /\ work.first = TheFirst(k)
  BY <1>2 DEF Understood, Half
<1>4. score = TheTextScore(k) /\ (again <=> TheEff(k) # TheQuery(k))
  BY <1>2, <1>3 DEF TheTextScore
<1> HIDE DEF score, C
<1>5. PICK R \in (IF again THEN OrNothing(found) ELSE found) : \E s \in Sorted(R, score) :
        /\ work'.cand = C(R, s)
        /\ work'.q = work.q /\ work'.filters = work.filters /\ work'.weights = work.weights
        /\ work'.eff = work.eff /\ work'.score = work.score
  BY <1>1
<1>6. PICK s \in Sorted(R, score) :
        /\ work'.cand = C(R, s)
        /\ work'.q = work.q /\ work'.filters = work.filters /\ work'.weights = work.weights
        /\ work'.eff = work.eff /\ work'.score = work.score
  BY <1>5
<1>7. R = TheMatches(k)
  <2>1. CASE again
    <3>1. R = Matches(work.eff, work.filters)
      BY <2>1, AllMatches
    <3>2. QED
      BY <1>2, <1>3, <1>4, <2>1, <3>1 DEF TheMatches
  <2>2. CASE ~ again
    BY <1>2, <1>3, <1>4, <2>2 DEF TheMatches
  <2>3. QED
    BY <2>1, <2>2
<1>8. TheMatches(k) \subseteq DOMAIN case.products
  BY DEF TheMatches, TheFirst, Matches, StableInv, StoresInv
<1>9. R \in SUBSET Nat /\ IsFiniteSet(R)
  <2>1. IsFiniteSet(DOMAIN case.products) /\ DOMAIN case.products \subseteq Products
    BY ProductsAre DEF StableInv, BaseInv
  <2>2. QED
    BY <1>7, <1>8, <2>1, FS_Subset, OverridesAssumption
<1>10. s = TheBest(k)
  <2>1. TheBest(k) \in Sorted(R, score)
    BY <1>4, <1>7 DEF TheBest
  <2>2. \A p \in R : score[p] \in Int
    BY <1>7, <1>8, TextScoreInt DEF score, StableInv, BaseInv
  <2>3. QED
    BY <1>9, <2>1, <2>2, OneSorted
<1>11. TheVectors(k) = {} /\ TheEff(k) # TheQuery(k) => TheFirst(k) = {}
  BY DEF TheEff, TheBase, Expands, TheVectors
<1>12. TheVectors(k) = {} => TheFirst(k) \subseteq R
  BY <1>2, <1>7, <1>11 DEF TheMatches
<1>13. DOMAIN c = IF TheVectors(k) # {} THEN TheVectors(k) ELSE TheFirst(k)
  BY <1>2 DEF Half
<1>14. DOMAIN C(R, s) = TheVectors(k) \cup TheMatches(k)
  BY <1>7, <1>12, <1>13 DEF C
<1>15. ASSUME NEW p \in DOMAIN C(R, s)
       PROVE  C(R, s)[p] = TheCand(k, p) /\ Numbered(C(R, s)[p])
  <2>1. CASE p \notin R
    <3>1. C(R, s)[p] = c[p] /\ p \in DOMAIN c
      BY <2>1 DEF C
    <3>2. TheVectors(k) # {}
      BY <1>12, <1>13, <2>1, <3>1
    <3>3. c[p] = Near(k, p) /\ Numbered(c[p])
      BY <1>2, <3>1, <3>2 DEF Half
    <3>4. QED
      BY <1>7, <2>1, <3>1, <3>3 DEF TheCand
  <2>2. CASE p \in R
    <3> DEFINE d == IF p \in DOMAIN c THEN c[p] ELSE NoScore
               n == RankIn(s, p)
    <3>1. C(R, s)[p] = With(d, score[p], n)
      BY <2>2 DEF C, With
    <3>2. n \in Nat
      BY <1>6, <1>9, RankNat DEF Sorted
    <3>3. With(d, score[p], n) = With(Near(k, p), score[p], n) /\ Numbered(With(d, score[p], n))
      <4> HIDE DEF n
      <4>1. QED
        BY <1>2, <3>2, CandidateIs
    <3>4. TheCand(k, p) = With(Near(k, p), score[p], n)
      BY <1>4, <1>7, <1>10, <2>2 DEF TheCand
    <3> HIDE DEF d, n
    <3>5. QED
      BY <3>1, <3>3, <3>4
  <2>3. QED
    BY <2>1, <2>2
<1>16. /\ TheMatches(k)' = TheMatches(k) /\ TheVectors(k)' = TheVectors(k)
       /\ \A p : TheCand(k, p)' = TheCand(k, p)
       /\ TheEff(k)' = TheEff(k)
  BY QuestionStays, CandidatesStay
<1>17. Whole(k)'
  BY <1>6, <1>14, <1>15, <1>16 DEF Whole, Numbered
<1>18. Understood(k)'
  BY <1>2, <1>6, UnderstoodStays
<1>19. work'.eff = TheEff(k)' /\ IsText(work'.eff) /\ DOMAIN work'.score = {}
  BY <1>2, <1>6, <1>16
<1>20. QED
  BY <1>1, <1>17, <1>18, <1>19 DEF RunOf, Finding, Ranked, Editing

LEMMA ClicksRun ==
  ASSUME StableInv, Still, NEW k, Smooth(Req), RunOf(k), GetClicks
  PROVE  RunOf(k)'
<1>1. PICK clicks \in {case.clicks} \cup (IF case.faulty THEN {Empty} ELSE {}) :
        \E s \in Ascending(DOMAIN work.cand) :
          work' = [work EXCEPT !.clicks = clicks, !.todo = s]
  BY DEF GetClicks
<1>2. PICK s \in Ascending(DOMAIN work.cand) :
        work' = [work EXCEPT !.clicks = clicks, !.todo = s]
  BY <1>1
<1>3. phase = "clicks" /\ phase' = "score"
  BY DEF GetClicks
<1>4. /\ Understood(k) /\ work.eff = TheEff(k) /\ IsText(work.eff) /\ Whole(k)
      /\ DOMAIN work.score = {}
  BY <1>3 DEF RunOf, Finding
<1>5. /\ work'.clicks = clicks /\ work'.todo = s /\ work'.cand = work.cand
      /\ work'.q = work.q /\ work'.filters = work.filters /\ work'.weights = work.weights
      /\ work'.eff = work.eff /\ work'.score = work.score
  BY <1>2, WorkIs DEF StableInv, BaseInv
<1>6. clicks = case.clicks
  BY DEF Smooth
<1>7. Range(s) = DOMAIN work.cand
  <2>1. IsFiniteSet(DOMAIN work.cand)
    BY ProductsAre, FS_Subset DEF StableInv, BaseInv, StoresInv
  <2>2. QED
    BY <2>1, OrdersAre DEF Ascending
<1>8. DOMAIN work.cand = TheVectors(k) \cup TheMatches(k)
  BY <1>4 DEF Whole
<1>9. /\ TheScored(k) \subseteq TheVectors(k) \cup TheMatches(k)
      /\ TheScored(k)' = TheScored(k) /\ case' = case /\ TheEff(k)' = TheEff(k)
  BY RankingStays, CandidatesStay DEF TheScored, Still
<1>10. Scored(k)'
  BY <1>4, <1>5, <1>6, <1>7, <1>8, <1>9 DEF Scored
<1>11. Whole(k)' /\ Understood(k)'
  BY <1>4, <1>5, WholeStays, UnderstoodStays
<1>12. work'.eff = TheEff(k)' /\ IsText(work'.eff)
  BY <1>4, <1>5, <1>9
<1>13. QED
  BY <1>3, <1>10, <1>11, <1>12 DEF RunOf, Finding, Ranked, Editing

LEMMA TheWeightsInt ==
  ASSUME case \in Cases, NEW k
  PROVE  WeightsInt(TheWeights(k))
<1>1. CASE "weights" \in k.options
  <2>1. case.weights \in [DOMAIN DefaultWeights -> Int]
    BY DataAre
  <2>2. {"semantic", "bm25", "popularity", "availability", "margin", "query_ctr"}
          = DOMAIN DefaultWeights
    BY DEF DefaultWeights
  <2>3. TheWeights(k) = case.weights
    BY <1>1 DEF TheWeights
  <2>4. QED
    BY <2>1, <2>2, <2>3 DEF WeightsInt
<1>2. CASE "weights" \notin k.options
  <2> DEFINE b == parse(k.q).boost
             m == Min({b * DefaultWeights.availability, 1000})
  <2>1. b \in {1, 2}
    BY DEF parse, AvailabilityBoost
  <2> HIDE DEF b
  <2>2. b * DefaultWeights.availability \in Nat
    BY <2>1 DEF DefaultWeights
  <2>3. m \in Nat
    BY <2>2, LesserOf
  <2>4. TheWeights(k) = [DefaultWeights EXCEPT !.availability = m]
    BY <1>2 DEF TheWeights, Boosted, b
  <2> HIDE DEF m
  <2>5. QED
    BY <2>3, <2>4 DEF WeightsInt, DefaultWeights
<1>3. QED
  BY <1>1, <1>2

\* What a candidate is worth.
TheWorth(k, p) ==
  Score(TheCand(k, p), Ncd(Terms(TheEff(k)), Terms(Doc(p).text)), Doc(p).meta,
        Doc(p).popularity, Ctr(case.clicks, p), TheWeights(k))

LEMMA WorthInt ==
  ASSUME BaseInv, NEW k, k = Subject(Req), NEW p \in DOMAIN case.products,
         Numbered(TheCand(k, p)), IsText(TheEff(k))
  PROVE  TheWorth(k, p) \in Int
<1> DEFINE c == TheCand(k, p)
           n == Ncd(Terms(TheEff(k)), Terms(Doc(p).text))
           m == Doc(p).meta
           o == Doc(p).popularity
           r == Ctr(case.clicks, p)
           w == TheWeights(k)
<1>1. IsText(Doc(p).text) /\ o \in Int /\ Get(m, "margin", 0) \in Int
  BY DataAre DEF BaseInv
<1>2. n \in Int
  BY <1>1, TermsFinite, NcdInt
<1>3. r \in Int /\ WeightsInt(w)
  BY CtrInt, TheWeightsInt DEF BaseInv
<1>4. c.semantic_rank \in Nat /\ c.bm25_rank \in Nat
  BY DEF Numbered
<1> HIDE DEF c, n, m, o, r, w
<1>5. Score(c, n, m, o, r, w) \in Int
  BY <1>1, <1>2, <1>3, <1>4, ScoreInt
<1>6. QED
  BY <1>5 DEF TheWorth, c, n, m, o, r, w

LEMMA ScoreRuns ==
  ASSUME StableInv, KeptInv, Still, NEW k, k = Subject(Req), RunOf(k), ScoreCandidate
  PROVE  RunOf(k)'
<1> DEFINE p == Head(work.todo)
           s == Score(work.cand[p], Ncd(Terms(work.eff), Terms(Doc(p).text)), Doc(p).meta,
                      Doc(p).popularity, Ctr(work.clicks, p), work.weights)
<1>1. /\ phase = "score" /\ phase' = "score" /\ work.todo # <<>>
      /\ work'.todo = Tail(work.todo) /\ work'.q = work.q /\ work'.eff = work.eff
      /\ work'.filters = work.filters
      /\ work'.score = IF p \in rows /\ MatchesFilters(Doc(p).meta, work.filters)
                       THEN Over([x \in {p} |-> s], work.score) ELSE work.score
  BY LookedUp DEF StableInv, BaseInv
<1>2. work'.cand = work.cand /\ work'.weights = work.weights /\ work'.clicks = work.clicks
  BY WorkIs DEF ScoreCandidate, StableInv, BaseInv
<1>3. /\ Understood(k) /\ work.eff = TheEff(k) /\ IsText(work.eff) /\ Whole(k)
      /\ Scored(k)
  BY <1>1 DEF RunOf, Finding
<1>4. work.todo \in Seq(DOMAIN case.products)
  BY <1>1 DEF KeptInv, QueryInv
<1>5. Range(work.todo) = {p} \cup Range(work'.todo)
  BY <1>1, <1>4, HeadAndTail
<1>6. p \in DOMAIN work.cand /\ p \in DOMAIN case.products
  BY <1>3, <1>5 DEF Scored, StableInv, StoresInv
<1>7. work.cand[p] = TheCand(k, p) /\ Numbered(TheCand(k, p))
  BY <1>3, <1>6 DEF Whole
<1>8. s = TheWorth(k, p) /\ TheWorth(k, p) \in Int
  <2>1. work.weights = TheWeights(k) /\ work.clicks = case.clicks
    BY <1>3 DEF Understood, Scored
  <2>2. s = TheWorth(k, p)
    BY <1>3, <1>7, <2>1 DEF TheWorth
  <2>3. QED
    BY <1>3, <1>6, <1>7, <2>2, WorthInt DEF StableInv
<1> HIDE DEF s, p
<1>9. (p \in rows /\ MatchesFilters(Doc(p).meta, work.filters)) <=> p \in TheScored(k)
  BY <1>3, <1>6 DEF TheScored, Whole, Understood
<1>10. \A x \in TheScored(k) : TheScore(k)[x] = TheWorth(k, x)
  BY DEF TheScore, TheWorth
<1>11. Scored(k)'
  <2>1. /\ TheScored(k)' = TheScored(k) /\ TheScore(k)' = TheScore(k) /\ case' = case
    BY RankingStays DEF Still
  <2>2. CASE p \in TheScored(k)
    <3>1. /\ DOMAIN work'.score = {p} \cup DOMAIN work.score /\ work'.score[p] = s
          /\ \A x \in DOMAIN work.score \ {p} : work'.score[x] = work.score[x]
      <4>1. work'.score = Over([x \in {p} |-> s], work.score)
        BY <1>1, <1>9, <2>2
      <4>2. QED
        BY <4>1 DEF Over
    <3>2. TheScore(k)[p] = s /\ s \in Int
      BY <1>8, <1>10, <2>2
    <3>3. QED
      BY <1>2, <1>3, <1>5, <2>1, <2>2, <3>1, <3>2 DEF Scored
  <2>3. CASE p \notin TheScored(k)
    <3>1. work'.score = work.score
      BY <1>1, <1>9, <2>3
    <3>2. QED
      BY <1>2, <1>3, <1>5, <2>1, <2>3, <3>1 DEF Scored
  <2>4. QED
    BY <2>2, <2>3
<1>12. Whole(k)' /\ Understood(k)'
  BY <1>1, <1>2, <1>3, WholeStays, UnderstoodStays
<1>13. work'.eff = TheEff(k)' /\ IsText(work'.eff)
  BY <1>1, <1>3, CandidatesStay
<1>14. QED
  BY <1>1, <1>11, <1>12, <1>13 DEF RunOf, Finding, Ranked, Editing

LEMMA RankRuns ==
  ASSUME StableInv, Still, NEW k, Smooth(Req), RunOf(k), Rank
  PROVE  RunOf(k)'
<1>1. /\ phase = "score" /\ phase' = "suppress" /\ work.todo = <<>> /\ UNCHANGED work
      /\ \E s \in Sorted(DOMAIN work.score, work.score) : ranking' = s
  BY DEF Rank, Smooth
<1>2. Understood(k) /\ Scored(k)
  BY <1>1 DEF RunOf, Finding
<1>3. DOMAIN work.score = TheScored(k)
  <2>1. Range(work.todo) = {}
    BY <1>1 DEF Range
  <2>2. QED
    BY <1>2, <2>1 DEF Scored
<1>4. IsFiniteSet(TheScored(k)) /\ TheScored(k) \in SUBSET Nat
  BY <1>3, OverridesAssumption DEF StableInv, BaseInv
<1>5. \A p \in TheScored(k) : work.score[p] = TheScore(k)[p] /\ TheScore(k)[p] \in Int
  BY <1>2, <1>3 DEF Scored
<1>6. Sorted(TheScored(k), work.score) = Sorted(TheScored(k), TheScore(k))
  BY <1>4, <1>5, SortedSame
<1>7. ranking' \in Sorted(TheScored(k), TheScore(k))
  BY <1>1, <1>3, <1>6
<1>8. TheRanking(k) \in Sorted(TheScored(k), TheScore(k))
  BY <1>7 DEF TheRanking
<1>9. ranking' = TheRanking(k)
  BY <1>4, <1>5, <1>7, <1>8, OneSorted
<1>10. TheRanking(k)' = TheRanking(k) /\ Understood(k)'
  BY <1>1, <1>2, RankingStays, UnderstoodStays
<1>11. QED
  BY <1>1, <1>9, <1>10 DEF RunOf, Finding, Ranked, Editing

\* Each edit is the next one.
LEMMA SuppressRuns ==
  ASSUME StableInv, Still, UNCHANGED given, NEW k, RunOf(k), Suppress
  PROVE  LeadsTo(TheStart(k), List)'
<1>1. phase = "suppress" /\ pins' = given.pins /\ slots' = given.slots
  BY DEF Suppress
<1>2. /\ ranking = TheRanking(k) /\ hits = ranking /\ ranking \in Seq(Products)
  BY <1>1 DEF RunOf, Ranked, StableInv, ListInv
<1>3. PICK at \in Ascending(Staying(hits, given.suppressed)) : hits' = Retained(hits, at)
  BY DEF Suppress, Staying, Retained
<1>4. at = TheRest(k)
  <2> DEFINE S == Staying(hits, given.suppressed)
  <2>1. S \subseteq 1..Len(hits) /\ Len(hits) \in Nat
    BY <1>2 DEF Staying
  <2>3. TheRest(k) \in Ascending(S)
    BY <1>2, <1>3 DEF TheRest
  <2> HIDE DEF S
  <2>2. IsFiniteSet(S) /\ S \in SUBSET Nat
    <3>1. IsFiniteSet(1..Len(hits))
      BY <2>1, FS_Interval
    <3>2. IsFiniteSet(S)
      BY <2>1, <3>1, FS_Subset
    <3>3. S \in SUBSET Nat
      BY <2>1
    <3>4. QED
      BY <3>2, <3>3
  <2>4. at \in Ascending(S)
    BY DEF S
  <2>5. QED
    BY <2>2, <2>3, <2>4, OneAscending
<1>5. List' = TheStart(k)
  BY <1>1, <1>2, <1>3, <1>4 DEF List, TheStart
<1>6. TheStart(k)' = TheStart(k)
  BY HitsStay
<1>7. \A c : LeadsTo(c, c)'
  BY LeadsNowhere, EditsStay DEF Still
<1>8. QED
  BY <1>5, <1>6, <1>7

LEMMA EditRuns ==
  ASSUME Still, UNCHANGED given, NEW k, LeadsTo(TheStart(k), List), List' = NextEdit(List),
         ~ Applied(List)
  PROVE  LeadsTo(TheStart(k), List)'
<1>1. LeadsTo(TheStart(k), NextEdit(List))
  BY LeadsOn
<1>2. TheStart(k)' = TheStart(k)
  BY HitsStay
<1>3. \A c, d : LeadsTo(c, d)' <=> LeadsTo(c, d)
  BY EditsStay DEF Still
<1>4. QED
  BY <1>1, <1>2, <1>3

LEMMA PinIsNext ==
  ASSUME StableInv, Smooth(Req), NEW x \in Targets, ApplyPin(x)
  PROVE  ~ Applied(List) /\ List' = NextEdit(List)
<1>1. phase = "pin" /\ x \in FirstBy(pins) /\ pins' = pins \ {x} /\ slots' = slots
  BY DEF ApplyPin, NextOf
<1>2. hits' = Moved(hits, x, Contains(hits, x.product))
  BY DEF ApplyPin, Place, Moved
<1>3. pins \subseteq given.pins /\ given \in Tables[case.overrides] /\ given.pins \subseteq Targets
  BY <1>1, GivenAre DEF StableInv, ListInv, BaseInv, Ranked, Editing
<1>4. OnePerPosition(pins)
  BY <1>3 DEF Smooth, OnePerPosition
<1>5. x = Lowest(pins)
  BY <1>1, <1>3, <1>4, OneFirst
<1>6. pins # {}
  BY <1>1 DEF FirstBy
<1>7. QED
  BY <1>1, <1>2, <1>5, <1>6 DEF List, NextEdit, Applied

LEMMA SlotIsNext ==
  ASSUME StableInv, Smooth(Req), pins = {}, NEW x \in Targets, ApplySlot(x)
  PROVE  ~ Applied(List) /\ List' = NextEdit(List)
<1>1. phase = "sponsor" /\ x \in FirstBy(slots) /\ slots' = slots \ {x} /\ pins' = pins
  BY DEF ApplySlot, NextOf
<1>2. hits' = Moved(hits, x, x.product \in rows)
  BY DEF ApplySlot, Place, Moved
<1>3. slots \subseteq given.slots /\ given \in Tables[case.overrides] /\ given.slots \subseteq Targets
  BY <1>1, GivenAre DEF StableInv, ListInv, BaseInv, Ranked, Editing
<1>4. OnePerPosition(slots)
  BY <1>3 DEF Smooth, OnePerPosition
<1>5. x = Lowest(slots)
  BY <1>1, <1>3, <1>4, OneFirst
<1>6. slots # {}
  BY <1>1 DEF FirstBy
<1>7. QED
  BY <1>1, <1>2, <1>5, <1>6 DEF List, NextEdit, Applied

LEMMA EditsRun ==
  ASSUME StableInv, Still, NEW k, Smooth(Req), RunOf(k), ApplyOverrides
  PROVE  RunOf(k)'
<1>1. /\ phase \in Ranked /\ phase' \in Editing /\ UNCHANGED <<rows, ranking, given>>
      /\ UNCHANGED work
  BY EditKeepsList DEF ApplyOverrides, StableInv
<1>2. Understood(k) /\ ranking = TheRanking(k)
  BY <1>1 DEF RunOf
<1>3. Understood(k)' /\ ranking' = TheRanking(k)'
  BY <1>1, <1>2, UnderstoodStays, RankingStays
<1>4. /\ LeadsTo(TheStart(k), List)'
      /\ phase' \in {"sponsor", "respond"} => pins' = {}
      /\ phase' = "respond" => slots' = {}
  <2>1. CASE Suppress
    <3>1. phase' = "pin"
      BY <2>1 DEF Suppress
    <3>2. QED
      BY <1>1, <2>1, <3>1, SuppressRuns
  <2>2. CASE \E x \in Targets : ApplyPin(x)
    <3>1. PICK x \in Targets : ApplyPin(x)
      BY <2>2
    <3>2. phase = "pin" /\ phase' = "pin"
      BY <3>1 DEF ApplyPin
    <3>3. LeadsTo(TheStart(k), List)
      BY <3>2 DEF RunOf, Editing
    <3>4. QED
      BY <1>1, <3>1, <3>2, <3>3, PinIsNext, EditRuns
  <2>3. CASE \E x \in Targets : ApplySlot(x)
    <3>1. PICK x \in Targets : ApplySlot(x)
      BY <2>3
    <3>2. phase = "sponsor" /\ phase' = "sponsor" /\ pins' = pins
      BY <3>1 DEF ApplySlot
    <3>3. LeadsTo(TheStart(k), List) /\ pins = {}
      BY <3>2 DEF RunOf, Editing
    <3>4. QED
      BY <1>1, <3>1, <3>2, <3>3, SlotIsNext, EditRuns
  <2>4. CASE PinsDone \/ Done
    <3>1. /\ UNCHANGED <<hits, pins, slots>> /\ phase \in {"pin", "sponsor"}
          /\ phase = "pin" => phase' = "sponsor" /\ pins = {}
          /\ phase = "sponsor" => phase' = "respond" /\ slots = {}
      BY <2>4 DEF PinsDone, Done
    <3>2. /\ LeadsTo(TheStart(k), List) /\ (phase = "sponsor" => pins = {})
      BY <3>1 DEF RunOf, Editing
    <3>3. TheStart(k)' = TheStart(k) /\ List' = List
      BY <1>1, <3>1, HitsStay DEF List
    <3>4. \A c, d : LeadsTo(c, d)' <=> LeadsTo(c, d)
      BY <1>1, EditsStay
    <3>5. LeadsTo(TheStart(k), List)'
      BY <3>2, <3>3, <3>4
    <3>6. QED
      BY <3>1, <3>2, <3>5
  <2>5. QED
    BY <2>1, <2>2, <2>3, <2>4 DEF ApplyOverrides, Override
<1>5. QED
  BY <1>1, <1>3, <1>4 DEF RunOf, Finding, Ranked, Editing

LEMMA RunStays ==
  ASSUME Still, UNCHANGED <<phase, work, given, ranking, hits, pins, slots>>, NEW k, RunOf(k)
  PROVE  RunOf(k)'
<1>1. Understood(k)' <=> Understood(k)
  BY QuestionStays DEF Understood, TheQuery
<1>2. NearOnes(k)' <=> NearOnes(k)
  BY QuestionStays, CandidatesStay DEF NearOnes, Numbered
<1>3. Half(k) => Half(k)'
  BY HalfStays
<1>4. Whole(k) => Whole(k)'
  BY WholeStays
<1>5. Scored(k) => Scored(k)'
  BY RankingStays DEF Scored, Still
<1>6. LeadsTo(TheStart(k), List)' <=> LeadsTo(TheStart(k), List)
  <2>1. TheStart(k)' = TheStart(k) /\ List' = List
    BY HitsStay DEF List
  <2>2. \A c, d : LeadsTo(c, d)' <=> LeadsTo(c, d)
    BY EditsStay DEF Still
  <2>3. QED
    BY <2>1, <2>2
<1>7. /\ TheRanking(k)' = TheRanking(k) /\ TheEff(k)' = TheEff(k)
      /\ TheQuery(k)' = TheQuery(k) /\ TheBase(k)' = TheBase(k)
  BY RankingStays, CandidatesStay DEF TheQuery
<1>8. QED
  BY <1>1, <1>2, <1>3, <1>4, <1>5, <1>6, <1>7 DEF RunOf

\* A search that nothing disturbs, whatever its request is.
RunInv == \A k : k = Subject(Req) /\ Straight(Req, work.marks) => RunOf(k)

LEMMA MarksStay ==
  ASSUME BaseInv, StoresInv,
         Retrieve \/ ScoreCandidate \/ Rank \/ ApplyOverrides \/ UNCHANGED vars
  PROVE  work.marks \subseteq work'.marks
<1>0. DOMAIN work = DOMAIN NoWork
  BY DEF BaseInv
<1>1. CASE VectorSearch \/ Expand \/ GetClicks
  <2>1. CASE VectorSearch
    BY <2>1, WorkIs DEF VectorSearch, BaseInv
  <2>2. CASE Expand
    BY <2>2, ExpandIs, AsksIs DEF BaseInv
  <2>3. CASE GetClicks
    BY <2>3, WorkIs DEF GetClicks, BaseInv
  <2>4. QED
    BY <1>1, <2>1, <2>2, <2>3
<1>2. CASE FirstTextSearch
  <2>1. \E m : work'.marks = work.marks \cup m
    BY <1>0, <1>2, WorkIs, ZenonT(40) DEF FirstTextSearch
  <2>2. QED
    BY <2>1
<1>3. CASE Reformulate
  BY <1>3, ReformulateIs, AsksIs DEF BaseInv
<1>4. CASE SecondTextSearch
  <2>1. \E m : work'.marks = work.marks \cup m
    BY <1>0, <1>4, WorkIs, ZenonT(40) DEF SecondTextSearch
  <2>2. QED
    BY <2>1
<1>5. CASE ScoreCandidate \/ Rank \/ ApplyOverrides \/ UNCHANGED vars
  BY <1>5, LookedUp DEF Rank, ApplyOverrides, vars, BaseInv
<1>6. QED
  BY <1>1, <1>2, <1>3, <1>4, <1>5 DEF Retrieve

LEMMA RunStep ==
  ASSUME StableInv, KeptInv, Waiting, RunInv, [Next]_vars
  PROVE  RunInv'
<1> SUFFICES ASSUME NEW k, k = Subject(Req'), Straight(Req, work.marks)'
             PROVE  RunOf(k)'
  BY DEF RunInv
<1>1. case' = case /\ Straight(Req', work'.marks)
  BY StillStep, StraightStays
<1>2. Still /\ ~ ComeOrGo
  BY <1>1, StillStep DEF Straight, Smooth
<1>3. CASE Lookup \/ Respond \/ EndList \/ Fail \/ NextCall \/ BeginList \/ TakeFromList
  <2>1. phase' \in {"parse", "next", "lookup", "list"}
    BY <1>3 DEF Lookup, Respond, EndList, Fail, NextCall, BeginList, TakeFromList
  <2>2. QED
    BY <2>1 DEF RunOf, Finding, Ranked, Editing
<1>4. CASE Parse
  <2>1. Req' = Req
    BY <1>4 DEF Parse, Req
  <2>2. k = Subject(Req)
    BY <2>1
  <2>3. QED
    BY <1>2, <1>4, <2>2, ParseRuns DEF StableInv
<1>5. CASE Retrieve \/ ScoreCandidate \/ Rank \/ ApplyOverrides \/ UNCHANGED vars
  <2>1. Req' = Req
    <3>1. UNCHANGED <<case, call>>
      BY <1>5, RetrieveIs DEF ScoreCandidate, Rank, ApplyOverrides, vars, StableInv, BaseInv
    <3>2. QED
      BY <3>1 DEF Req
  <2>2. k = Subject(Req) /\ Straight(Req, work'.marks)
    BY <1>1, <2>1
  <2>3. work.marks \subseteq work'.marks
    BY <1>5, MarksStay DEF StableInv
  <2>4. Straight(Req, work.marks)
    BY <2>2, <2>3 DEF Straight
  <2>5. RunOf(k)
    BY <2>2, <2>4 DEF RunInv
  <2>6. Smooth(Req) /\ "rewritten" \notin work'.marks
    BY <2>2 DEF Straight
  <2>7. CASE VectorSearch \/ FirstTextSearch \/ Reformulate
    BY <1>2, <2>2, <2>5, <2>6, <2>7, VectorRuns, FirstRuns, ReformulateRuns
  <2>8. CASE Expand \/ SecondTextSearch \/ GetClicks
    BY <1>2, <2>2, <2>5, <2>6, <2>8, ExpandRuns, SecondRuns, ClicksRun
  <2>9. CASE ScoreCandidate \/ Rank \/ ApplyOverrides
    BY <1>2, <2>2, <2>5, <2>6, <2>9, ScoreRuns, RankRuns, EditsRun
  <2>10. CASE UNCHANGED vars
    BY <1>2, <2>5, <2>10, RunStays DEF vars, overrideVars
  <2>11. QED
    BY <1>5, <2>7, <2>8, <2>9, <2>10 DEF Retrieve
<1>6. QED
  BY <1>2, <1>3, <1>4, <1>5 DEF Next, Retrieve, Finished

-----------------------------------------------------------------------------
(* The answers are pages of that list                                       *)

OnePage(a, k) ==
  /\ given # NotGiven
  /\ TheHits(k) \in Seq(Products) /\ Distinct(TheHits(k))
  /\ a.page = Page(TheHits(k), a.req) /\ a.total = Len(TheHits(k))
CutFromOne(a) ==
  a.req.kind = "search" /\ Straight(a.req, a.work.marks) => OnePage(a, Subject(a.req))

OnePageEach ==
  /\ \A i \in DOMAIN answers : answers[i].req \in Range(case.calls) /\ CutFromOne(answers[i])
  /\ \A e \in cache : /\ e[2].req \in Range(case.calls) /\ Cacheable(e[2].req)
                      /\ CutFromOne(e[2])
                      /\ {"req", "page", "total", "cached", "work"} \subseteq DOMAIN e[2]

\* The tables are read once.
LEMMA GivenStays ==
  ASSUME BaseInv, [Next]_vars, given # NotGiven
  PROVE  UNCHANGED given
<1>1. CASE Retrieve
  BY <1>1, RetrieveIs DEF BaseInv, edits
<1>2. CASE ApplyOverrides
  BY <1>2, OverrideIs DEF ApplyOverrides
<1>3. CASE Lookup \/ Parse \/ ScoreCandidate \/ Rank \/ Respond
  BY <1>3 DEF Lookup, Parse, ScoreCandidate, Rank, Respond, edits
<1>4. CASE BeginList \/ TakeFromList \/ EndList \/ Fail \/ NextCall \/ ComeOrGo \/ UNCHANGED vars
  BY <1>4 DEF BeginList, TakeFromList, EndList, Fail, NextCall, ComeOrGo, vars, edits, overrideVars
<1>5. QED
  BY <1>1, <1>2, <1>3, <1>4 DEF Next, Retrieve, Finished

LEMMA CutStays ==
  ASSUME StableInv, Waiting, [Next]_vars
  PROVE  \A a : CutFromOne(a) => CutFromOne(a)'
<1> SUFFICES ASSUME NEW a, CutFromOne(a), a.req.kind = "search",
                    Straight(a.req, a.work.marks)'
             PROVE  OnePage(a, Subject(a.req))'
  BY DEF CutFromOne
<1>1. Straight(a.req, a.work.marks) /\ case' = case
  BY StillStep, StraightStays
<1>2. Still
  BY <1>1, StillStep DEF Straight, Smooth
<1> DEFINE k == Subject(a.req)
<1> HIDE DEF k
<1>3. OnePage(a, k)
  BY <1>1 DEF CutFromOne, k
<1>4. given # NotGiven /\ given' = given
  BY <1>3, GivenStays DEF OnePage, StableInv
<1>5. \A x : TheHits(x)' = TheHits(x)
  BY <1>2, <1>4, HitsStay
<1>6. \A x : OnePage(a, x)' <=> OnePage(a, x)
  BY <1>4, <1>5 DEF OnePage
<1>7. QED
  BY <1>3, <1>6 DEF k

\* The edits of a search that nothing has disturbed have come to their end.
LEMMA ListIsTheHits ==
  ASSUME StableInv, RunInv, phase = "respond", Straight(Req, work.marks)
  PROVE  LET k == Subject(Req)
         IN  /\ given # NotGiven /\ hits = TheHits(k)
             /\ TheHits(k) \in Seq(Products) /\ Distinct(TheHits(k))
<1> DEFINE k == Subject(Req)
<1>1. RunOf(k)
  BY DEF RunInv
<1>2. /\ phase \in Ranked /\ given \in Tables[case.overrides]
      /\ hits \in Seq(Products) /\ Distinct(hits)
  BY DEF StableInv, BaseInv, ListInv, Ranked, Editing
<1>3. LeadsTo(TheStart(k), List) /\ pins = {} /\ slots = {}
  BY <1>1 DEF RunOf, Editing
<1> HIDE DEF k
<1>4. List = Ending(hits)
  BY <1>3 DEF List, Ending
<1> DEFINE c == TheStart(k)
           h == TheHits(k)
<1>5. LeadsTo(c, Ending(hits))
  BY <1>3, <1>4
<1>6. LeadsTo(c, Ending(h))
  BY <1>5 DEF TheHits
<1> HIDE DEF c, h
<1>7. Applied(Ending(hits)) /\ Applied(Ending(h))
  BY DEF Applied, Ending
<1>8. Ending(hits) = Ending(h)
  BY <1>5, <1>6, <1>7, OneEnd
<1>9. hits = h
  BY <1>8 DEF Ending
<1>10. given # NotGiven
  BY <1>2, DataAre DEF StableInv, BaseInv
<1>11. QED
  BY <1>2, <1>9, <1>10 DEF h, k

LEMMA CutGrows ==
  ASSUME StableInv, Waiting, [Next]_vars, OnePageEach, NEW a, answers' = Append(answers, a),
         a.req \in Range(case.calls), CutFromOne(a)
  PROVE  \A i \in DOMAIN answers' :
           answers'[i].req \in Range(case'.calls) /\ CutFromOne(answers[i])'
<1>1. \A x : CutFromOne(x) => CutFromOne(x)'
  BY CutStays
<1>2. case' = case
  BY StillStep
<1>3. \A i \in DOMAIN answers' : answers'[i] = a \/ (i \in DOMAIN answers /\ answers'[i] = answers[i])
  BY AppendIs DEF StableInv, AnswersPass
<1>4. \A i \in DOMAIN answers' : answers'[i].req \in Range(case.calls) /\ CutFromOne(answers'[i])
  BY <1>3 DEF OnePageEach
<1>5. QED
  BY <1>1, <1>2, <1>4

LEMMA CacheCutStays ==
  ASSUME StableInv, Waiting, [Next]_vars, OnePageEach, UNCHANGED cache
  PROVE  \A e \in cache' : /\ e[2].req \in Range(case'.calls) /\ Cacheable(e[2].req)
                           /\ CutFromOne(e[2])'
                           /\ {"req", "page", "total", "cached", "work"} \subseteq DOMAIN e[2]
<1>1. \A x : CutFromOne(x) => CutFromOne(x)'
  BY CutStays
<1>2. case' = case
  BY StillStep
<1>3. QED
  BY <1>1, <1>2 DEF OnePageEach

LEMMA RespondCuts ==
  ASSUME StableInv, Waiting, [Next]_vars, RunInv, OnePageEach, Respond
  PROVE  OnePageEach'
<1> DEFINE a == Answer(Page(hits, Req), Len(hits))
<1>1. /\ phase = "respond" /\ answers' = Append(answers, a)
      /\ cache' = IF Cacheable(Req)
                  THEN {e \in cache : e[1] # CacheKey(Req)} \cup {<<CacheKey(Req), a>>} ELSE cache
  BY DEF Respond
<1>2. /\ a.req = Req /\ a.work = work /\ a.page = Page(hits, Req) /\ a.total = Len(hits)
      /\ {"req", "page", "total", "cached", "work"} \subseteq DOMAIN a
  BY DEF Answer
<1> HIDE DEF a
<1>3. a.req \in Range(case.calls)
  BY <1>2, ProductsAre DEF StableInv, BaseInv
<1>4. CutFromOne(a)
  BY <1>1, <1>2, ListIsTheHits DEF CutFromOne, OnePage
<1>5. \A i \in DOMAIN answers' : answers'[i].req \in Range(case'.calls) /\ CutFromOne(answers[i])'
  BY <1>1, <1>3, <1>4, CutGrows
<1>6. \A x : CutFromOne(x) => CutFromOne(x)'
  BY CutStays
<1>7. case' = case
  BY StillStep
<1>8. ASSUME NEW e \in cache'
      PROVE  /\ e[2].req \in Range(case'.calls) /\ Cacheable(e[2].req) /\ CutFromOne(e[2])'
             /\ {"req", "page", "total", "cached", "work"} \subseteq DOMAIN e[2]
  <2>1. e \in cache \/ (Cacheable(Req) /\ e = <<CacheKey(Req), a>>)
    BY <1>1
  <2>2. CASE e \in cache
    BY <1>6, <1>7, <2>2 DEF OnePageEach
  <2>3. CASE Cacheable(Req) /\ e = <<CacheKey(Req), a>>
    <3>1. e[2] = a
      BY <2>3
    <3>2. QED
      BY <1>2, <1>3, <1>4, <1>6, <1>7, <2>3, <3>1
  <2>4. QED
    BY <2>1, <2>2, <2>3
<1>9. QED
  BY <1>5, <1>8 DEF OnePageEach

LEMMA LookupCuts ==
  ASSUME StableInv, Waiting, [Next]_vars, OnePageEach, Lookup
  PROVE  OnePageEach'
<1>1. UNCHANGED <<case, cache>>
  BY DEF Lookup
<1>2. \A e \in cache' : /\ e[2].req \in Range(case'.calls) /\ Cacheable(e[2].req)
                        /\ CutFromOne(e[2])'
                        /\ {"req", "page", "total", "cached", "work"} \subseteq DOMAIN e[2]
  BY <1>1, CacheCutStays
<1>3. CASE UNCHANGED answers
  <2>1. \A x : CutFromOne(x) => CutFromOne(x)'
    BY CutStays
  <2>2. QED
    BY <1>1, <1>2, <1>3, <2>1 DEF OnePageEach
<1>4. CASE ~ UNCHANGED answers
  <2>1. /\ Cacheable(Req)
        /\ \E e \in cache : /\ e[1] = CacheKey(Req)
                            /\ answers' = Append(answers, [e[2] EXCEPT !.req = Req, !.cached = TRUE])
    BY <1>4 DEF Lookup
  <2>2. PICK e \in cache : /\ e[1] = CacheKey(Req)
                           /\ answers' = Append(answers, [e[2] EXCEPT !.req = Req, !.cached = TRUE])
    BY <2>1
  <2> DEFINE b == e[2]
             a == [b EXCEPT !.req = Req, !.cached = TRUE]
             r == b.req
  <2>3. answers' = Append(answers, a)
    BY <2>2
  <2>4. /\ CacheKey(r) = CacheKey(Req) /\ r.kind = "search"
        /\ r \in Range(case.calls) /\ Cacheable(r) /\ CutFromOne(b)
        /\ {"req", "page", "total", "cached", "work"} \subseteq DOMAIN b
    BY <2>2 DEF StableInv, AnswersPass, CachedWell, OnePageEach
  <2> HIDE DEF b
  <2>5. a.req = Req /\ a.page = b.page /\ a.total = b.total /\ a.work = b.work
    BY <2>4
  <2> HIDE DEF a
  <2>6. /\ r.q = Req.q /\ r.mode = Req.mode /\ r.limit = Req.limit /\ r.offset = Req.offset
        /\ r.filters = Req.filters
    BY <2>4 DEF CacheKey
  <2>7. /\ {"weights", "snippets", "rerank"} \cap Req.options = {}
        /\ {"weights", "snippets", "rerank"} \cap r.options = {}
    BY <2>1, <2>4 DEF Cacheable
  <2>8. Req \in Range(case.calls)
    BY ProductsAre DEF StableInv, BaseInv
  <2> HIDE DEF r
  <2>9. Subject(r) = Subject(Req)
    <3>3. Limit(r) = Limit(Req)
      BY <2>6 DEF Limit
    <3>1. Req.options \cap {"weights", "snippets"} = r.options \cap {"weights", "snippets"}
      BY <2>7
    <3>2. QED
      BY <2>6, <3>1, <3>3 DEF Subject
  <2>10. \A s : Page(s, r) = Page(s, Req)
    BY <2>6 DEF Page, Offset, Limit
  <2>11. ASSUME Straight(Req, b.work.marks)
         PROVE  Straight(r, b.work.marks)
    <3>1. r.pool = Req.pool
      BY <2>4, <2>11 DEF Straight, Smooth
    <3>2. Pool(r) = Pool(Req)
      BY <2>6, <3>1 DEF Pool, Limit, Offset
    <3>3. QED
      BY <2>6, <2>7, <2>11, <3>1, <3>2 DEF Straight, Smooth
  <2>12. CutFromOne(a)
    <3> SUFFICES ASSUME Straight(Req, b.work.marks) PROVE OnePage(a, Subject(Req))
      BY <2>5 DEF CutFromOne
    <3>1. OnePage(b, Subject(r))
      BY <2>4, <2>11 DEF CutFromOne, r
    <3>2. OnePage(b, Subject(Req))
      BY <2>9, <3>1
    <3>3. b.page = Page(TheHits(Subject(Req)), Req)
      BY <2>10, <3>2 DEF OnePage, r
    <3>4. QED
      BY <2>5, <3>2, <3>3 DEF OnePage
  <2>13. \A i \in DOMAIN answers' : answers'[i].req \in Range(case'.calls) /\ CutFromOne(answers[i])'
    BY <2>3, <2>5, <2>8, <2>12, CutGrows
  <2>14. QED
    BY <1>2, <2>13 DEF OnePageEach
<1>5. QED
  BY <1>3, <1>4

LEMMA CutStep ==
  ASSUME StableInv, Waiting, [Next]_vars, RunInv, OnePageEach
  PROVE  OnePageEach'
<1>1. CASE EndList
  <2> DEFINE a == Answer(hits, Len(hits))
  <2>1. phase = "list" /\ UNCHANGED cache /\ answers' = Append(answers, a)
    BY <1>1 DEF EndList
  <2>2. a.req = Req /\ Req.kind # "search"
    BY <2>1, AnswerIs DEF StableInv, WorkPasses
  <2> HIDE DEF a
  <2>3. CutFromOne(a) /\ a.req \in Range(case.calls)
    BY <2>2, ProductsAre DEF CutFromOne, StableInv, BaseInv
  <2>4. \A i \in DOMAIN answers' : answers'[i].req \in Range(case'.calls) /\ CutFromOne(answers[i])'
    BY <2>1, <2>3, CutGrows
  <2>5. QED
    BY <2>1, <2>4, CacheCutStays DEF OnePageEach
<1>2. CASE UNCHANGED <<answers, cache>>
  <2>1. \A x : CutFromOne(x) => CutFromOne(x)'
    BY CutStays
  <2>2. case' = case
    BY StillStep
  <2>3. QED
    BY <1>2, <2>1, <2>2 DEF OnePageEach
<1>3. CASE Retrieve \/ Parse \/ ScoreCandidate \/ Rank \/ ApplyOverrides
  <2>1. UNCHANGED <<answers, cache>>
    BY <1>3, RetrieveIs DEF Parse, ScoreCandidate, Rank, ApplyOverrides, StableInv, BaseInv
  <2>2. QED
    BY <1>2, <2>1
<1>4. CASE BeginList \/ TakeFromList \/ Fail \/ NextCall \/ ComeOrGo \/ UNCHANGED vars
  <2>1. UNCHANGED <<answers, cache>>
    BY <1>4 DEF BeginList, TakeFromList, Fail, NextCall, ComeOrGo, vars
  <2>2. QED
    BY <1>2, <2>1
<1>5. QED
  BY <1>1, <1>3, <1>4, RespondCuts, LookupCuts DEF Next, Retrieve, Finished

-----------------------------------------------------------------------------
(* Pages that follow one another                                            *)

LEMMA OneOfTwo ==
  ASSUME NEW a \in Nat, NEW b \in Nat
  PROVE  Min({a, b}) = IF a <= b THEN a ELSE b
<1>1. {a, b} \in SUBSET Nat /\ {a, b} # {}
  OBVIOUS
<1> DEFINE T == {a, b}
<1>2. Min(T) \in T /\ \A m \in T : Min(T) <= m
  BY <1>1, LeastNumber
<1>3. QED
  BY <1>2

LEMMA PageLength ==
  ASSUME NEW S, NEW s \in Seq(S), NEW r, r.limit \in Nat, r.offset \in Nat
  PROVE  LET o == Offset(r)
             e == o + Limit(r)
             n == IF e <= Len(s) THEN e ELSE Len(s)
         IN  Len(Page(s, r)) = IF o < n THEN n - o ELSE 0
<1> DEFINE o == Offset(r)
           l == Limit(r)
           m == Len(s)
           n == Min({o + l, m})
<1>1. o \in Nat /\ l \in Nat /\ m \in Nat
  BY OffsetsAre
<1> HIDE DEF o, l, m
<1>2. o + l \in Nat
  BY <1>1
<1>3. n = IF o + l <= m THEN o + l ELSE m
  BY <1>1, <1>2, OneOfTwo
<1> HIDE DEF n
<1>4. n \in Nat /\ n <= m /\ o + 1 \in Nat \ {0}
  BY <1>1, <1>3
<1>5. Len(SubSeq(s, o + 1, n)) = IF o + 1 <= n THEN n - (o + 1) + 1 ELSE 0
  BY <1>4, PartIs DEF m
<1>6. Page(s, r) = SubSeq(s, o + 1, n)
  BY DEF Page, n, m, o, l
<1>7. Len(Page(s, r)) = IF o < n THEN n - o ELSE 0
  BY <1>1, <1>4, <1>5, <1>6
<1>8. QED
  BY <1>3, <1>7 DEF o, l, m

LEMMA PagesAdd ==
  ASSUME NEW S, NEW s \in Seq(S), NEW a, a.limit \in Nat, a.offset \in Nat,
         NEW b, b.limit \in Nat, b.offset \in Nat, Offset(b) = Offset(a) + Limit(a)
  PROVE  Len(Page(s, a)) + Len(Page(s, b))
           = Max({0, Min({Len(s), Offset(b) + Limit(b)}) - Offset(a)})
<1> DEFINE o == Offset(a)
           l == Limit(a)
           u == Offset(b)
           v == Limit(b)
           m == Len(s)
           x == Len(Page(s, a))
           y == Len(Page(s, b))
           w == Min({m, u + v})
<1>1. o \in Nat /\ l \in Nat /\ u \in Nat /\ v \in Nat /\ m \in Nat /\ u = o + l
  BY OffsetsAre
<1>2. /\ x = LET n == IF o + l <= m THEN o + l ELSE m IN IF o < n THEN n - o ELSE 0
      /\ y = LET n == IF u + v <= m THEN u + v ELSE m IN IF u < n THEN n - u ELSE 0
  BY PageLength
<1> HIDE DEF o, l, u, v, m, x, y
<1>3. w = IF m <= u + v THEN m ELSE u + v
  BY <1>1, OneOfTwo
<1> HIDE DEF w
<1>4. w - o \in Int
  BY <1>1, <1>3
<1>5. Max({0, w - o}) = IF w - o >= 0 THEN w - o ELSE 0
  BY <1>4, NoLess
<1>6. x + y = IF w - o >= 0 THEN w - o ELSE 0
  BY <1>1, <1>2, <1>3
<1>7. QED
  BY <1>5, <1>6 DEF w, o, u, v, m, x, y

LEMMA SameSubject ==
  ASSUME BaseInv, NEW a \in Range(case.calls), NEW b \in Range(case.calls), SameQuery(a, b)
  PROVE  Subject(a) = Subject(b)
<1>1. DOMAIN a = {"kind", "q", "mode", "limit", "offset", "pool", "filters", "options", "of"}
  BY DataAssumption DEF BaseInv
<1>2. [a EXCEPT !.offset = b.offset] = b
  BY DEF SameQuery
<1>3. /\ a.q = b.q /\ a.mode = b.mode /\ a.filters = b.filters /\ a.options = b.options
      /\ a.limit = b.limit
  BY <1>1, <1>2
<1>4. QED
  BY <1>3 DEF Subject, Limit

\* While nothing else moves, any two pages of a query that follow one another are cut
\* from one ranking, fresh or cached: they name the same total, no product is on both,
\* and none falls between them, ties in the scores, overrides and pages beyond the
\* end included.
THEOREM PagesPartitionTheRanking == Spec => []PagesPartition
<1> DEFINE PagesInv == Waiting /\ RunInv /\ OnePageEach
<1>1. Init => PagesInv
  <2> SUFFICES ASSUME Init PROVE PagesInv
    OBVIOUS
  <2>1. /\ phase = "lookup" /\ answers = <<>> /\ cache = {} /\ churn = case.churn
        /\ texts = vectors
    BY DEF Init
  <2>2. DOMAIN answers = {}
    BY <2>1
  <2>3. \A k : RunOf(k)
    BY <2>1 DEF RunOf, Finding, Ranked, Editing
  <2>4. QED
    BY <2>1, <2>2, <2>3 DEF Waiting, RunInv, OnePageEach
<1>2. StableInv /\ KeptInv /\ PagesInv /\ [Next]_vars => PagesInv'
  BY StillStep, RunStep, CutStep
<1>3. StableInv /\ PagesInv => PagesPartition
  <2> SUFFICES ASSUME StableInv, OnePageEach, NEW i \in DOMAIN answers, NEW j \in DOMAIN answers,
                      SameQuery(answers[i].req, answers[j].req),
                      Offset(answers[j].req) = Offset(answers[i].req) + Limit(answers[i].req),
                      Steady(answers[i]), Steady(answers[j])
               PROVE  LET a == answers[i]
                          b == answers[j]
                      IN  /\ a.total = b.total
                          /\ Range(a.page) \cap Range(b.page) = {}
                          /\ Len(a.page) + Len(b.page) =
                               Max({0, Min({a.total, Offset(b.req) + Limit(b.req)}) - Offset(a.req)})
    BY DEF PagesPartition
  <2> DEFINE a == answers[i]
             b == answers[j]
  <2>1. /\ a.req \in Range(case.calls) /\ b.req \in Range(case.calls)
        /\ CutFromOne(a) /\ CutFromOne(b)
    BY DEF OnePageEach
  <2>2. Straight(a.req, a.work.marks) /\ Straight(b.req, b.work.marks)
    BY SteadyIs
  <2>3. SameQuery(a.req, b.req) /\ Offset(b.req) = Offset(a.req) + Limit(a.req)
    OBVIOUS
  <2> HIDE DEF a, b
  <2>4. Subject(a.req) = Subject(b.req)
    BY <2>1, <2>3, SameSubject DEF StableInv
  <2>5. a.req.kind = "search" /\ b.req.kind = "search"
    BY <2>3 DEF SameQuery
  <2> DEFINE s == TheHits(Subject(a.req))
  <2>6. /\ s \in Seq(Products) /\ Distinct(s)
        /\ a.page = Page(s, a.req) /\ b.page = Page(s, b.req)
        /\ a.total = Len(s) /\ b.total = Len(s)
    BY <2>1, <2>2, <2>4, <2>5 DEF CutFromOne, OnePage
  <2> HIDE DEF s
  <2>7. a.req.limit \in Nat /\ a.req.offset \in Nat /\ b.req.limit \in Nat /\ b.req.offset \in Nat
    BY <2>1, SearchAssumption DEF StableInv, BaseInv
  <2>8. Range(a.page) \cap Range(b.page) = {}
    BY <2>3, <2>6, <2>7, PagesFollow
  <2>9. Len(a.page) + Len(b.page)
          = Max({0, Min({a.total, Offset(b.req) + Limit(b.req)}) - Offset(a.req)})
    <3> DEFINE x == a.req
               y == b.req
    <3> HIDE DEF x, y
    <3>1. /\ x.limit \in Nat /\ x.offset \in Nat /\ y.limit \in Nat /\ y.offset \in Nat
          /\ Offset(y) = Offset(x) + Limit(x)
      BY <2>3, <2>7 DEF x, y
    <3>2. Len(Page(s, x)) + Len(Page(s, y)) = Max({0, Min({Len(s), Offset(y) + Limit(y)}) - Offset(x)})
      BY <2>6, <3>1, PagesAdd, ZenonT(40)
    <3>3. QED
      BY <2>6, <3>2 DEF x, y
  <2>10. QED
    BY <2>6, <2>8, <2>9 DEF a, b
<1>4. Spec => [](StableInv /\ KeptInv)
  <2>1. Init => KeptInv
    <3>1. Init => phase = "lookup"
      BY DEF Init
    <3>2. QED
      BY <3>1 DEF KeptInv, QueryInv, FoundInv, Finding, Ranked, Editing
  <2>2. StableInv /\ KeptInv /\ [Next]_vars => KeptInv'
    BY KeptStep
  <2>3. QED
    BY <2>1, <2>2, StoresAreInOrder, PTL DEF Spec
<1> HIDE DEF PagesInv
<1>5. QED
  BY <1>1, <1>2, <1>3, <1>4, PTL DEF Spec

-----------------------------------------------------------------------------
(* The numbers to cut out, by their length and the places of their marks   *)

Shapes == {CNPJ, CPF, Raw(14), Raw(11)} \cup PHONES \cup CEPS

Looks(s, n, M) ==
  /\ Len(s) = n /\ DOMAIN s = 1..n
  /\ \A j \in 1..n : s[j] = D <=> j \notin M
  /\ \A j \in 1..n : j \in M => s[j] \in Marks
  /\ 1 \in M => s[1] = "("
  /\ \A j \in 1..n : s[j] = Space => j = 5 /\ 1 \in M /\ 4 \in M

LEMMA SymbolsAre ==
  /\ D \notin Marks /\ {"(", ")", "-", ".", "/", Space} \subseteq Marks
  /\ "(" # Space /\ ")" # Space /\ "-" # Space /\ "." # Space /\ "/" # Space
  /\ D # Space /\ D # "(" /\ D # ")" /\ D # "-"
BY DEF Marks, Space, D

\* One text behind another.
Behind(S, x, y, z) ==
  /\ z \in Seq(S) /\ Len(z) = Len(x) + Len(y) /\ DOMAIN z = 1..(Len(x) + Len(y))
  /\ \A j \in 1..(Len(x) + Len(y)) : z[j] = IF j <= Len(x) THEN x[j] ELSE y[j - Len(x)]

LEMMA BehindIs ==
  ASSUME NEW S, NEW x \in Seq(S), NEW y \in Seq(S)
  PROVE  Behind(S, x, y, x \o y)
BY DEF Behind

LEMMA RawLooks ==
  ASSUME NEW n \in Nat
  PROVE  Looks(Raw(n), n, {})
<1>1. Len(Raw(n)) = n
  BY RawIs
<1>2. DOMAIN Raw(n) = 1..n /\ \A j \in 1..n : Raw(n)[j] = D
  BY DEF Raw
<1>3. D # Space
  BY DEF D, Space
<1>4. QED
  BY <1>1, <1>2, <1>3 DEF Looks

LEMMA DocumentLooks ==
  Looks(CNPJ, 18, {3, 7, 11, 16}) /\ Looks(CPF, 14, {4, 8, 12})
<1>1. Looks(CNPJ, 18, {3, 7, 11, 16})
  BY DEF Looks, CNPJ, D, Marks, Space
<1>2. Looks(CPF, 14, {4, 8, 12})
  BY DEF Looks, CPF, D, Marks, Space
<1>3. QED
  BY <1>1, <1>2

LEMMA CepLooks ==
  Looks(Raw(5) \o <<"-">> \o Raw(3), 9, {6})
<1> DEFINE S == {D, "-"}
           x == Raw(5)
           y == Raw(3)
           d == <<"-">>
           u == x \o d
           v == u \o y
<1>1. /\ Len(x) = 5 /\ Len(y) = 3 /\ x \in Seq(S) /\ y \in Seq(S)
      /\ \A j \in 1..5 : x[j] = D
      /\ \A j \in 1..3 : y[j] = D
  <2>1. x \in Seq({D}) /\ y \in Seq({D}) /\ Len(x) = 5 /\ Len(y) = 3
    BY RawIs
  <2>2. QED
    BY <2>1, MoreSymbols DEF Raw
<1>2. d \in Seq(S) /\ Len(d) = 1 /\ d[1] = "-"
  OBVIOUS
<1> HIDE DEF x, y, d, S
<1>8. Behind(S, x, d, u)
  BY <1>1, <1>2, BehindIs, Zenon
<1> HIDE DEF u
<1>3. u \in Seq(S) /\ Len(u) = 6 /\ \A j \in 1..6 : u[j] = IF j <= 5 THEN x[j] ELSE d[j - 5]
  BY <1>1, <1>2, <1>8 DEF Behind
<1>9. Behind(S, u, y, v)
  BY <1>1, <1>3, BehindIs, Zenon
<1> HIDE DEF v
<1>4. /\ Len(v) = 9 /\ DOMAIN v = 1..9
      /\ \A j \in 1..9 : v[j] = IF j <= 6 THEN u[j] ELSE y[j - 6]
  BY <1>1, <1>3, <1>9 DEF Behind
<1>5. \A j \in 1..9 : v[j] = IF j = 6 THEN "-" ELSE D
  BY <1>1, <1>2, <1>3, <1>4
<1>6. Looks(v, 9, {6})
  BY <1>4, <1>5, SymbolsAre DEF Looks
<1>7. QED
  BY <1>6 DEF v, u, x, y, d

PhoneForm(x, k, m) ==
  /\ Len(x) = 9 + k + m /\ DOMAIN x = 1..(9 + k + m)
  /\ \A j \in 1..(9 + k + m) : x[j] =
       IF j = 1 THEN "(" ELSE IF j = 4 THEN ")" ELSE IF j = 5 + k + m THEN "-"
       ELSE IF j = 5 /\ k = 1 THEN Space ELSE D

LEMMA PhoneLooks ==
  ASSUME NEW m \in {4, 5}
  PROVE  /\ Looks(Phone(<<>>, m), 9 + m, {1, 4, 5 + m})
         /\ Looks(Phone(<<Space>>, m), 10 + m, {1, 4, 5, 6 + m})
<1> DEFINE S == {"(", ")", "-", D, Space}
           p == <<"(", D, D, ")">>
           r == Raw(m)
           y == Raw(4)
           d == <<"-">>
<1>1. /\ Len(r) = m /\ Len(y) = 4 /\ r \in Seq(S) /\ y \in Seq(S)
      /\ \A j \in 1..m : r[j] = D
      /\ \A j \in 1..4 : y[j] = D
  <2>1. r \in Seq({D}) /\ y \in Seq({D}) /\ Len(r) = m /\ Len(y) = 4
    BY RawIs
  <2>2. QED
    BY <2>1, MoreSymbols DEF Raw
<1>2. p \in Seq(S) /\ Len(p) = 4 /\ p[1] = "(" /\ p[2] = D /\ p[3] = D /\ p[4] = ")"
  <2>1. "(" \in S /\ ")" \in S /\ D \in S
    OBVIOUS
  <2> HIDE DEF S
  <2>2. \A a, b, c, e \in S : <<a, b, c, e>> \in Seq(S) /\ Len(<<a, b, c, e>>) = 4
    OBVIOUS
  <2>3. QED
    BY <2>1, <2>2
<1>3. /\ <<Space>> \in Seq(S) /\ Len(<<Space>>) = 1 /\ <<Space>>[1] = Space
      /\ d \in Seq(S) /\ Len(d) = 1 /\ d[1] = "-"
  OBVIOUS
<1>4. <<>> \in Seq(S) /\ Len(<<>>) = 0
  BY EmptySeq
<1> HIDE DEF S, p, r, y, d
<1>5. ASSUME NEW gap \in Seq(S), NEW k \in {0, 1}, Len(gap) = k, k = 1 => gap[1] = Space,
             NEW x, x = p \o gap \o r \o d \o y
      PROVE  PhoneForm(x, k, m)
  <2> DEFINE u == p \o gap
             v == u \o r
             w == v \o d
             z == w \o y
  <2>a. Behind(S, p, gap, u)
    BY <1>2, BehindIs, Zenon
  <2> HIDE DEF u
  <2>1. /\ u \in Seq(S) /\ Len(u) = 4 + k
        /\ \A j \in 1..(4 + k) : u[j] = IF j <= 4 THEN p[j] ELSE gap[j - 4]
    BY <1>2, <1>5, <2>a DEF Behind
  <2>b. Behind(S, u, r, v)
    BY <1>1, <2>1, BehindIs, Zenon
  <2> HIDE DEF v
  <2>2. /\ v \in Seq(S) /\ Len(v) = 4 + k + m
        /\ \A j \in 1..(4 + k + m) : v[j] = IF j <= 4 + k THEN u[j] ELSE r[j - (4 + k)]
    BY <1>1, <1>5, <2>1, <2>b DEF Behind
  <2>c. Behind(S, v, d, w)
    BY <1>3, <2>2, BehindIs, Zenon
  <2> HIDE DEF w
  <2>3. /\ w \in Seq(S) /\ Len(w) = 5 + k + m
        /\ \A j \in 1..(5 + k + m) : w[j] = IF j <= 4 + k + m THEN v[j] ELSE d[j - (4 + k + m)]
    BY <1>3, <1>5, <2>2, <2>c DEF Behind
  <2>d. Behind(S, w, y, z)
    BY <1>1, <2>3, BehindIs, Zenon
  <2> HIDE DEF z
  <2>4. /\ Len(z) = 9 + k + m /\ DOMAIN z = 1..(9 + k + m)
        /\ \A j \in 1..(9 + k + m) : z[j] = IF j <= 5 + k + m THEN w[j] ELSE y[j - (5 + k + m)]
    BY <1>1, <1>5, <2>3, <2>d DEF Behind
  <2>5. ASSUME NEW j \in 1..(9 + k + m)
        PROVE  z[j] = IF j = 1 THEN "(" ELSE IF j = 4 THEN ")" ELSE IF j = 5 + k + m THEN "-"
                      ELSE IF j = 5 /\ k = 1 THEN Space ELSE D
    <3>1. CASE j <= 4
      <4>1. z[j] = p[j]
        BY <1>5, <2>1, <2>2, <2>3, <2>4, <3>1
      <4>2. j \in {1, 2, 3, 4}
        BY <3>1
      <4>3. QED
        BY <1>2, <1>5, <4>1, <4>2
    <3>2. CASE j > 4 /\ j <= 4 + k
      <4>1. k = 1 /\ j = 5
        BY <1>5, <3>2
      <4>2. z[j] = gap[1]
        BY <2>1, <2>2, <2>3, <2>4, <4>1
      <4>3. QED
        BY <1>5, <4>1, <4>2
    <3>3. CASE j > 4 + k /\ j <= 4 + k + m
      <4>1. j - (4 + k) \in 1..m
        BY <1>5, <3>3
      <4>2. z[j] = r[j - (4 + k)]
        BY <1>5, <2>2, <2>3, <2>4, <3>3
      <4>3. QED
        BY <1>1, <1>5, <3>3, <4>1, <4>2
    <3>4. CASE j = 5 + k + m
      BY <1>3, <1>5, <2>3, <2>4, <3>4
    <3>5. CASE j > 5 + k + m
      <4>1. j - (5 + k + m) \in 1..4
        BY <1>5, <3>5
      <4>2. QED
        BY <1>1, <1>5, <2>4, <3>5, <4>1
    <3>6. QED
      BY <1>5, <3>1, <3>2, <3>3, <3>4, <3>5
  <2>6. x = z
    BY <1>5 DEF z, w, v, u
  <2>7. QED
    BY <2>4, <2>5, <2>6 DEF PhoneForm
<1>6. Looks(Phone(<<>>, m), 9 + m, {1, 4, 5 + m})
  <2> DEFINE x == Phone(<<>>, m)
  <2>1. x = p \o <<>> \o r \o d \o y
    BY DEF Phone, p, r, y, d
  <2> HIDE DEF x
  <2>2. /\ Len(x) = 9 + m /\ DOMAIN x = 1..(9 + m)
        /\ \A j \in 1..(9 + m) : x[j] =
             IF j = 1 THEN "(" ELSE IF j = 4 THEN ")" ELSE IF j = 5 + m THEN "-" ELSE D
    <3> DEFINE k == 0
               gap == <<>>
    <3>1. /\ k \in {0, 1} /\ k # 1 /\ gap \in Seq(S) /\ Len(gap) = k
          /\ (k = 1 => gap[1] = Space) /\ x = p \o gap \o r \o d \o y
      BY <1>4, <2>1
    <3>2. 9 + k + m = 9 + m /\ 5 + k + m = 5 + m
      OBVIOUS
    <3> HIDE DEF k, gap
    <3>3. PhoneForm(x, k, m)
      BY <1>5, <3>1, Zenon
    <3>4. QED
      BY <3>1, <3>2, <3>3 DEF PhoneForm
  <2>3. Looks(x, 9 + m, {1, 4, 5 + m})
    BY <2>2, SymbolsAre DEF Looks
  <2>4. QED
    BY <2>3 DEF x
<1>7. Looks(Phone(<<Space>>, m), 10 + m, {1, 4, 5, 6 + m})
  <2> DEFINE x == Phone(<<Space>>, m)
  <2>1. x = p \o <<Space>> \o r \o d \o y
    BY DEF Phone, p, r, y, d
  <2> HIDE DEF x
  <2>2. /\ Len(x) = 10 + m /\ DOMAIN x = 1..(10 + m)
        /\ \A j \in 1..(10 + m) : x[j] =
             IF j = 1 THEN "(" ELSE IF j = 4 THEN ")" ELSE IF j = 6 + m THEN "-"
             ELSE IF j = 5 THEN Space ELSE D
    <3> DEFINE k == 1
               gap == <<Space>>
    <3>1. /\ k \in {0, 1} /\ k = 1 /\ gap \in Seq(S) /\ Len(gap) = k
          /\ (k = 1 => gap[1] = Space) /\ x = p \o gap \o r \o d \o y
      BY <1>3, <2>1
    <3>2. 9 + k + m = 10 + m /\ 5 + k + m = 6 + m
      OBVIOUS
    <3> HIDE DEF k, gap
    <3>3. PhoneForm(x, k, m)
      BY <1>5, <3>1, Zenon
    <3>4. QED
      BY <3>1, <3>2, <3>3 DEF PhoneForm
  <2>3. Looks(x, 10 + m, {1, 4, 5, 6 + m})
    BY <2>2, SymbolsAre DEF Looks
  <2>4. QED
    BY <2>3 DEF x
<1>8. QED
  BY <1>6, <1>7

\* One of the ten.
Form(s) ==
  \/ Looks(s, 18, {3, 7, 11, 16}) \/ Looks(s, 14, {}) \/ Looks(s, 14, {4, 8, 12})
  \/ Looks(s, 11, {}) \/ Looks(s, 9, {6}) \/ Looks(s, 8, {})
  \/ Looks(s, 13, {1, 4, 9}) \/ Looks(s, 14, {1, 4, 10})
  \/ Looks(s, 14, {1, 4, 5, 10}) \/ Looks(s, 15, {1, 4, 5, 11})

LEMMA ShapesLook ==
  ASSUME NEW s \in Shapes
  PROVE  Form(s) /\ (s \in PHONES <=> s[1] = "(")
<1>1. s \in PHONES => Form(s) /\ s[1] = "("
  <2> SUFFICES ASSUME s \in PHONES PROVE Form(s) /\ s[1] = "("
    OBVIOUS
  <2>1. PHONES = {Phone(gap, m) : gap \in {<<>>, <<Space>>}, m \in {4, 5}}
    BY DEF PHONES, Phone
  <2>2. PICK gap \in {<<>>, <<Space>>}, m \in {4, 5} : s = Phone(gap, m)
    BY <2>1
  <2>3. \/ Looks(s, 9 + m, {1, 4, 5 + m})
        \/ Looks(s, 10 + m, {1, 4, 5, 6 + m})
    BY <2>2, PhoneLooks
  <2>4. \/ Looks(s, 13, {1, 4, 9}) \/ Looks(s, 14, {1, 4, 10})
        \/ Looks(s, 14, {1, 4, 5, 10}) \/ Looks(s, 15, {1, 4, 5, 11})
    <3>1. CASE m = 4
      <4>1. 9 + m = 13 /\ 10 + m = 14 /\ 5 + m = 9 /\ 6 + m = 10
        BY <3>1
      <4>2. QED
        BY <2>3, <4>1, Zenon
    <3>2. CASE m = 5
      <4>1. 9 + m = 14 /\ 10 + m = 15 /\ 5 + m = 10 /\ 6 + m = 11
        BY <3>2
      <4>2. QED
        BY <2>3, <4>1, Zenon
    <3>3. QED
      BY <3>1, <3>2
  <2>5. s[1] = "("
    <3>1. \A M : \A n \in 13..15 : Looks(s, n, M) /\ 1 \in M => s[1] = "("
      BY DEF Looks
    <3>2. QED
      BY <2>4, <3>1
  <2>6. QED
    BY <2>4, <2>5 DEF Form
<1>2. s \notin PHONES => Form(s) /\ s[1] # "("
  <2> SUFFICES ASSUME s \notin PHONES PROVE Form(s) /\ s[1] # "("
    OBVIOUS
  <2>1. s = CNPJ \/ s = CPF \/ s = Raw(14) \/ s = Raw(11) \/ s = Raw(8)
          \/ s = Raw(5) \o <<"-">> \o Raw(3)
    BY DEF Shapes, CEPS
  <2>2. \/ Looks(s, 18, {3, 7, 11, 16}) \/ Looks(s, 14, {}) \/ Looks(s, 14, {4, 8, 12})
        \/ Looks(s, 11, {}) \/ Looks(s, 9, {6}) \/ Looks(s, 8, {})
    <3>1. Looks(Raw(14), 14, {}) /\ Looks(Raw(11), 11, {}) /\ Looks(Raw(8), 8, {})
      BY RawLooks
    <3>2. QED
      BY <2>1, <3>1, DocumentLooks, CepLooks, Zenon
  <2>3. \A M : \A n \in 8..18 : Looks(s, n, M) /\ 1 \notin M => s[1] = D
    BY DEF Looks
  <2>4. s[1] = D
    BY <2>2, <2>3
  <2>5. QED
    BY <2>2, <2>4, SymbolsAre DEF Form
<1>3. QED
  BY <1>1, <1>2

-----------------------------------------------------------------------------
(* A number found in a query of words and numbers is one of its words      *)

\* The places of a text, from i on, that are digits.
Places(q, i, n, M) ==
  /\ i + n - 1 <= Len(q)
  /\ \A j \in 1..n : IsDigit(q[i + j - 1]) <=> j \notin M
  /\ \A j \in 1..n : q[i + j - 1] = Space => j = 5 /\ 1 \in M /\ 4 \in M
  /\ 1 \in M => q[i] = "("

FormAt(q, i, n) ==
  \/ n = 18 /\ Places(q, i, 18, {3, 7, 11, 16})
  \/ n = 14 /\ Places(q, i, 14, {})
  \/ n = 14 /\ Places(q, i, 14, {4, 8, 12})
  \/ n = 11 /\ Places(q, i, 11, {})
  \/ n = 9 /\ Places(q, i, 9, {6})
  \/ n = 8 /\ Places(q, i, 8, {})
  \/ n = 13 /\ Places(q, i, 13, {1, 4, 9})
  \/ n = 14 /\ Places(q, i, 14, {1, 4, 10})
  \/ n = 14 /\ Places(q, i, 14, {1, 4, 5, 10})
  \/ n = 15 /\ Places(q, i, 15, {1, 4, 5, 11})

LEMMA MarksNoDigits ==
  /\ \A c \in Marks : ~ IsDigit(c)
  /\ \A c : IsDigit(c) => JoinsAfter(c)
  /\ ~ JoinsAfter(Space) /\ ~ JoinsBefore(Space)
<1>1. \A c \in Marks : ~ IsDigit(c)
  <2>1. /\ Len(Digits) = 10
        /\ \A j \in 1..10 : Digits[j] \in {"0", "1", "2", "3", "4", "5", "6", "7", "8", "9"}
    BY DEF Digits
  <2>2. \A c : IsDigit(c) => c \in {"0", "1", "2", "3", "4", "5", "6", "7", "8", "9"}
    BY <2>1 DEF IsDigit, Contains
  <2>3. QED
    BY <2>2 DEF Marks, Space
<1>2. QED
  BY <1>1, DigitAssumption DEF JoinsAfter, JoinsBefore, Marks

LEMMA PlacesAre ==
  ASSUME NEW q, Len(q) \in Nat, NEW i \in Nat, NEW s, NEW n \in Nat \ {0}, NEW M,
         Looks(s, n, M), Fits(q, i, s)
  PROVE  Places(q, i, n, M) /\ n = Len(s)
<1>1. n = Len(s) /\ DOMAIN s = 1..n /\ i + n - 1 <= Len(q)
  BY DEF Looks, Fits
<1>2. \A j \in 1..n : IF j \notin M THEN IsDigit(q[i + j - 1])
                      ELSE q[i + j - 1] = s[j] /\ s[j] \in Marks
  BY <1>1 DEF Looks, Fits
<1>3. ~ IsDigit(Space)
  BY MarksNoDigits DEF Marks
<1>4. 1 \in M /\ 1 \in 1..n => q[i] = "("
  BY <1>1, <1>2 DEF Looks
<1>5. \A j \in 1..n : q[i + j - 1] = Space => j \in M /\ s[j] = Space
  BY <1>2, <1>3
<1>6. \A j \in 1..n : IsDigit(q[i + j - 1]) <=> j \notin M
  BY <1>2, MarksNoDigits
<1>7. \A j \in 1..n : q[i + j - 1] = Space => j = 5 /\ 1 \in M /\ 4 \in M
  BY <1>5 DEF Looks
<1>8. 1 \in M => q[i] = "("
  BY <1>4
<1>9. QED
  BY <1>1, <1>6, <1>7, <1>8 DEF Places

LEMMA FormIsAt ==
  ASSUME NEW q, Len(q) \in Nat, NEW i \in Nat, NEW s \in Shapes, Fits(q, i, s)
  PROVE  FormAt(q, i, Len(s)) /\ Len(s) \in 8..18
<1>1. \A M : \A n \in 8..18 : Looks(s, n, M) => Places(q, i, n, M) /\ n = Len(s)
  BY PlacesAre
<1>2. Form(s)
  BY ShapesLook
<1>3. {8, 9, 11, 13, 14, 15, 18} \subseteq 8..18
  OBVIOUS
<1>4. Len(s) \in 8..18
  BY <1>1, <1>2, <1>3, Zenon DEF Form
<1>5. FormAt(q, i, Len(s))
  BY <1>1, <1>2, <1>3, Zenon DEF Form, FormAt
<1>6. QED
  BY <1>4, <1>5

IsWord(q, a, b) ==
  /\ a \in 1..Len(q) /\ b \in a..Len(q)
  /\ a = 1 \/ q[a - 1] = Space
  /\ b = Len(q) \/ q[b + 1] = Space
  /\ \A i \in a..b : q[i] # Space

LEMMA WordIs ==
  ASSUME NEW S, NEW q \in Seq(S), NEW a, NEW b, IsWord(q, a, b)
  PROVE  /\ Len(q) \in Nat /\ a \in Nat /\ b \in Nat /\ 1 <= a /\ a <= b /\ b <= Len(q)
         /\ SubSeq(q, a, b) \in Seq(S) /\ Len(SubSeq(q, a, b)) = b - a + 1
         /\ DOMAIN SubSeq(q, a, b) = 1..(b - a + 1)
         /\ \A j \in 1..(b - a + 1) : SubSeq(q, a, b)[j] = q[a + j - 1]
BY DEF IsWord

LEMMA PlainWord ==
  ASSUME NEW S, NEW q \in Seq(S), NEW a, NEW b, IsWord(q, a, b), Plain(SubSeq(q, a, b))
  PROVE  \A i \in a..b : q[i] \notin Marks \cup StartOpen \cup EndOpen
<1> DEFINE t == SubSeq(q, a, b)
<1>1. /\ a \in Nat /\ b \in Nat /\ DOMAIN t = 1..(b - a + 1)
      /\ \A j \in 1..(b - a + 1) : t[j] = q[a + j - 1]
  BY WordIs
<1>2. Plain(t)
  OBVIOUS
<1> HIDE DEF t
<1>3. \A i \in a..b : i - a + 1 \in DOMAIN t /\ t[i - a + 1] = q[i]
  BY <1>1
<1>4. \A i \in a..b : q[i] \in Range(t)
  BY <1>3 DEF Range
<1>5. QED
  BY <1>2, <1>4 DEF Plain

LEMMA IsFits ==
  ASSUME NEW S, NEW q \in Seq(S), NEW a, NEW b, IsWord(q, a, b), NEW s \in Shapes
  PROVE  Is(SubSeq(q, a, b), s) <=> Fits(q, a, s) /\ a + Len(s) = b + 1
<1> DEFINE t == SubSeq(q, a, b)
<1>1. /\ a \in Nat /\ b \in Nat /\ b <= Len(q) /\ Len(q) \in Nat /\ a >= 1 /\ a <= b
      /\ Len(t) = b - a + 1 /\ \A j \in 1..(b - a + 1) : t[j] = q[a + j - 1]
  BY WordIs
<1>2. Len(s) \in Nat /\ DOMAIN s = 1..Len(s)
  BY ShapesLook DEF Form, Looks
<1> HIDE DEF t
<1>3. Len(t) = Len(s) <=> a + Len(s) = b + 1
  BY <1>1, <1>2
<1>4. ASSUME Len(t) = Len(s) PROVE \A j \in DOMAIN s : t[1 + j - 1] = q[a + j - 1]
  BY <1>1, <1>2, <1>4
<1>5. ASSUME Len(t) = Len(s) PROVE Fits(t, 1, s) <=> Fits(q, a, s)
  <2>1. 1 + Len(s) - 1 <= Len(t) /\ a + Len(s) - 1 <= Len(q)
    BY <1>1, <1>2, <1>5
  <2>2. \A j \in DOMAIN s : t[1 + j - 1] = q[a + j - 1]
    BY <1>4, <1>5
  <2>3. QED
    BY <2>1, <2>2 DEF Fits
<1>6. QED
  BY <1>3, <1>5 DEF Is, t

LEMMA NoiseWord ==
  ASSUME NEW t, Noise(t)
  PROVE  \E s \in Shapes : Is(t, s)
BY DEF Noise, Shapes

LEMMA WordEnd ==
  ASSUME NEW S, NEW q \in Seq(S), NEW a, NEW b, IsWord(q, a, b),
         Plain(SubSeq(q, a, b)) \/ Noise(SubSeq(q, a, b)),
         NEW s \in Shapes, Fits(q, a, s), FreeAfter(q, a + Len(s))
  PROVE  a + Len(s) = b + 1
<1> DEFINE n == Len(s)
<1>1. a \in Nat /\ b \in Nat /\ 1 <= a /\ a <= b /\ b <= Len(q) /\ Len(q) \in Nat
  BY WordIs
<1>2. FormAt(q, a, n) /\ n \in 8..18
  BY <1>1, FormIsAt
<1>3. a + n - 1 <= Len(q) /\ \A j \in 1..n : q[a + j - 1] = Space => j = 5 /\ q[a] = "("
  BY <1>2 DEF FormAt, Places
<1>4. b < Len(q) => q[b + 1] = Space
  BY <1>1 DEF IsWord
<1>5. a + n <= Len(q) => ~ JoinsAfter(q[a + n])
  BY <1>1, <1>2 DEF FreeAfter
<1>6. CASE Plain(SubSeq(q, a, b))
  <2>1. \A i \in a..b : q[i] \notin Marks \cup StartOpen
    BY <1>6, PlainWord
  <2>2. ASSUME a + n > b + 1 PROVE FALSE
    <3>1. b - a + 2 \in 1..n /\ b < Len(q) /\ a + (b - a + 2) - 1 = b + 1
      BY <1>1, <1>2, <1>3, <2>2
    <3>2. q[a] = "("
      BY <1>3, <1>4, <3>1
    <3>3. QED
      BY <1>1, <2>1, <3>2, SymbolsAre
  <2>3. ASSUME a + n < b + 1 PROVE FALSE
    <3>1. a + n \in a..b /\ a + n <= Len(q)
      BY <1>1, <1>2, <2>3
    <3>2. QED
      BY <1>5, <2>1, <3>1 DEF JoinsAfter
  <2>4. QED
    BY <1>1, <1>2, <2>2, <2>3
<1>7. CASE Noise(SubSeq(q, a, b))
  <2>1. PICK x \in Shapes : Fits(q, a, x) /\ a + Len(x) = b + 1
    BY <1>7, NoiseWord, IsFits
  <2> DEFINE k == Len(x)
  <2>2. FormAt(q, a, k) /\ k \in 8..18
    BY <1>1, <2>1, FormIsAt
  <2>3. ASSUME n > k PROVE FALSE
    <3>1. k + 1 \in 1..n /\ b < Len(q) /\ a + (k + 1) - 1 = b + 1
      BY <1>1, <1>2, <1>3, <2>1, <2>2, <2>3
    <3>2. k + 1 = 5
      BY <1>3, <1>4, <3>1
    <3>3. k \in 8..18
      BY <2>2
    <3> HIDE DEF k
    <3>4. QED
      BY <3>2, <3>3
  <2>4. ASSUME n < k PROVE FALSE
    <3>1. a + n <= Len(q) /\ n + 1 \in 1..k /\ a + (n + 1) - 1 = a + n
      BY <1>1, <1>2, <2>1, <2>2, <2>4
    <3>2. ~ IsDigit(q[a + (n + 1) - 1])
      BY <1>5, <3>1, MarksNoDigits
    <3> DEFINE d(j) == IsDigit(q[a + j - 1])
    <3>3. ~ d(n + 1)
      BY <3>2
    <3>4. \/ n \in {18, 14, 11, 9, 8} /\ d(1) /\ d(4)
          \/ n = 14 /\ d(1) /\ ~ d(4)
          \/ n \in 13..15 /\ ~ d(1)
      BY <1>2 DEF FormAt, Places
    <3> DEFINE p(m, M) == \A j \in 1..m : d(j) <=> j \notin M
    <3>a. \A m, M : Places(q, a, m, M) => p(m, M)
      BY DEF Places
    <3> HIDE DEF p
    <3>b. \/ k = 18 /\ p(18, {3, 7, 11, 16})
          \/ k = 14 /\ p(14, {})
          \/ k = 14 /\ p(14, {4, 8, 12})
          \/ k = 11 /\ p(11, {})
          \/ k = 9 /\ p(9, {6})
          \/ k = 8 /\ p(8, {})
          \/ k = 13 /\ p(13, {1, 4, 9})
          \/ k = 14 /\ p(14, {1, 4, 10})
          \/ k = 14 /\ p(14, {1, 4, 5, 10})
          \/ k = 15 /\ p(15, {1, 4, 5, 11})
      BY <2>2, <3>a, Zenon DEF FormAt
    <3> HIDE DEF d, n, k
    <3>6. QED
      BY <2>4, <3>3, <3>4, <3>b DEF p
  <2>5. QED
    BY <1>1, <1>2, <2>1, <2>2, <2>3, <2>4
<1>8. QED
  BY <1>6, <1>7

\* What makes a number of one that fits, up to e.
Ended(q, i, s, e) ==
  /\ e = i + Len(s) /\ Fits(q, i, s) /\ FreeAfter(q, e)
  /\ \/ s \in PHONES /\ i + MinPhone - 1 <= Len(q)
     \/ s \in CEPS /\ FreeBefore(q, i)
     \/ s \in {CNPJ, Raw(14)} /\ FreeBefore(q, i) /\ validate_cnpj(DigitsOf(SubSeq(q, i, e - 1)))
     \/ s \in {CPF, Raw(11)} /\ FreeBefore(q, i) /\ validate_cpf(DigitsOf(SubSeq(q, i, e - 1)))

LEMMA EndsAreEnded ==
  ASSUME NEW q, NEW i, NEW e
  PROVE  e \in Ends(q, i) <=> \E s \in Shapes : Ended(q, i, s, e)
<1> DEFINE x == DigitsOf(SubSeq(q, i, e - 1))
<1>1. ASSUME NEW X
      PROVE  e \in Found(q, i, X) <=> \E s \in X : e = i + Len(s) /\ Fits(q, i, s) /\ FreeAfter(q, e)
  BY DEF Found
<1>2. e \in try_br_phone(q, i) <=> e \in Found(q, i, PHONES) /\ i + MinPhone - 1 <= Len(q)
  BY DEF try_br_phone
<1>3. e \in try_cep(q, i) <=> e \in Found(q, i, CEPS) /\ FreeBefore(q, i)
  BY DEF try_cep
<1>4. e \in try_cnpj_formatted(q, i) \cup try_cnpj_raw(q, i) <=>
        /\ \E s \in {CNPJ, Raw(14)} : e \in Found(q, i, {s})
        /\ FreeBefore(q, i) /\ validate_cnpj(x)
  BY DEF try_cnpj_formatted, try_cnpj_raw, TryDocument
<1>5. e \in try_cpf_formatted(q, i) \cup try_cpf_raw(q, i) <=>
        /\ \E s \in {CPF, Raw(11)} : e \in Found(q, i, {s})
        /\ FreeBefore(q, i) /\ validate_cpf(x)
  BY DEF try_cpf_formatted, try_cpf_raw, TryDocument
<1>6. e \in Ends(q, i) <=>
        \/ e \in try_br_phone(q, i) \/ e \in try_cep(q, i)
        \/ e \in try_cnpj_formatted(q, i) \cup try_cnpj_raw(q, i)
        \/ e \in try_cpf_formatted(q, i) \cup try_cpf_raw(q, i)
  BY DEF Ends
<1>7. \A s : Ended(q, i, s, e) <=>
        /\ e = i + Len(s) /\ Fits(q, i, s) /\ FreeAfter(q, e)
        /\ \/ s \in PHONES /\ i + MinPhone - 1 <= Len(q)
           \/ s \in CEPS /\ FreeBefore(q, i)
           \/ s \in {CNPJ, Raw(14)} /\ FreeBefore(q, i) /\ validate_cnpj(x)
           \/ s \in {CPF, Raw(11)} /\ FreeBefore(q, i) /\ validate_cpf(x)
  BY DEF Ended
<1> DEFINE at(s) == e = i + Len(s) /\ Fits(q, i, s) /\ FreeAfter(q, e)
           long == i + MinPhone - 1 <= Len(q)
           free == FreeBefore(q, i)
           cnpj == validate_cnpj(x)
           cpf == validate_cpf(x)
<1>8. e \in Ends(q, i) <=>
        \/ long /\ \E s \in PHONES : at(s)
        \/ free /\ \E s \in CEPS : at(s)
        \/ free /\ cnpj /\ \E s \in {CNPJ, Raw(14)} : at(s)
        \/ free /\ cpf /\ \E s \in {CPF, Raw(11)} : at(s)
  <2>1. \A X : e \in Found(q, i, X) <=> \E s \in X : at(s)
    BY <1>1
  <2> HIDE DEF at, long, free, cnpj, cpf, x
  <2>2. \A s : (\E z \in {s} : at(z)) <=> at(s)
    OBVIOUS
  <2>3. ASSUME NEW s PROVE e \in Found(q, i, {s}) <=> at(s)
    <3>1. e \in Found(q, i, {s}) <=> \E z \in {s} : at(z)
      BY <2>1
    <3>2. QED
      BY <2>2, <3>1, Zenon
  <2>4. e \in try_br_phone(q, i) <=> long /\ \E s \in PHONES : at(s)
    BY <1>2, <2>1, Zenon DEF long
  <2>5. e \in try_cep(q, i) <=> free /\ \E s \in CEPS : at(s)
    BY <1>3, <2>1, Zenon DEF free
  <2>6. e \in try_cnpj_formatted(q, i) \cup try_cnpj_raw(q, i) <=>
          free /\ cnpj /\ \E s \in {CNPJ, Raw(14)} : at(s)
    BY <1>4, <2>3, Zenon DEF free, cnpj
  <2>7. e \in try_cpf_formatted(q, i) \cup try_cpf_raw(q, i) <=>
          free /\ cpf /\ \E s \in {CPF, Raw(11)} : at(s)
    BY <1>5, <2>3, Zenon DEF free, cpf
  <2>8. QED
    BY <1>6, <2>4, <2>5, <2>6, <2>7, Zenon
<1>9. \A s : Ended(q, i, s, e) <=>
        /\ at(s)
        /\ \/ s \in PHONES /\ long
           \/ s \in CEPS /\ free
           \/ s \in {CNPJ, Raw(14)} /\ free /\ cnpj
           \/ s \in {CPF, Raw(11)} /\ free /\ cpf
  BY <1>7, Zenon
<1> HIDE DEF at, long, free, cnpj, cpf, x
<1>10. PHONES \cup CEPS \cup {CNPJ, Raw(14)} \cup {CPF, Raw(11)} = Shapes
  BY DEF Shapes
<1>11. QED
  BY <1>8, <1>9, <1>10

LEMMA NoneFits ==
  ASSUME NEW q, NEW i, \A s \in Shapes : \A e : ~ Ended(q, i, s, e)
  PROVE  Ends(q, i) = {}
BY EndsAreEnded

LEMMA NothingAtSpace ==
  ASSUME NEW q, Len(q) \in Nat, NEW i \in 1..Len(q), q[i] = Space
  PROVE  Ends(q, i) = {}
<1>1. ASSUME NEW s \in Shapes, Fits(q, i, s) PROVE FALSE
  <2> DEFINE n == Len(s)
  <2>1. FormAt(q, i, n) /\ n \in 8..18
    BY <1>1, FormIsAt
  <2> HIDE DEF n
  <2>2. \A j \in 1..n : q[i + j - 1] = Space => j = 5
    BY <2>1 DEF FormAt, Places
  <2>3. 1 \in 1..n /\ i + 1 - 1 = i
    BY <2>1
  <2>4. QED
    BY <2>2, <2>3
<1>2. QED
  BY <1>1, NoneFits DEF Ended

\* A letter or digit before a place, and no parenthesis there.
LEMMA NothingInside ==
  ASSUME NEW S, NEW q \in Seq(S), NEW a, NEW b, IsWord(q, a, b), Plain(SubSeq(q, a, b)),
         NEW i \in (a + 1)..b
  PROVE  Ends(q, i) = {}
<1>1. a \in Nat /\ b \in Nat /\ 1 <= a /\ a <= b /\ b <= Len(q) /\ Len(q) \in Nat
  BY WordIs
<1>2. \A k \in a..b : q[k] \notin Marks \cup StartOpen \cup EndOpen
  BY PlainWord
<1>3. i \in a..b /\ i - 1 \in a..b /\ i # 1 /\ i \in 1..Len(q)
  BY <1>1
<1>4. ~ FreeBefore(q, i)
  BY <1>2, <1>3 DEF FreeBefore, JoinsBefore
<1>5. ASSUME NEW s \in PHONES, Fits(q, i, s) PROVE FALSE
  <2>1. s \in Shapes
    BY DEF Shapes
  <2>2. s[1] = "(" /\ DOMAIN s = 1..Len(s) /\ Len(s) \in 8..18
    BY <1>1, <1>3, <1>5, <2>1, ShapesLook, FormIsAt DEF Form, Looks
  <2>3. q[i] = "("
    <3>1. 1 \in DOMAIN s /\ i + 1 - 1 = i
      BY <1>3, <2>2
    <3>2. q[i + 1 - 1] = s[1]
      BY <1>5, <2>2, <3>1, SymbolsAre DEF Fits
    <3>3. QED
      BY <2>2, <3>1, <3>2
  <2>4. QED
    BY <1>2, <1>3, <2>3, SymbolsAre
<1>6. QED
  BY <1>4, <1>5, NoneFits DEF Ended

LEMMA NotThirteen ==
  ASSUME NEW s \in CEPS \cup {CNPJ, CPF, Raw(14), Raw(11)}
  PROVE  Len(s) # 13
<1> DEFINE c == Raw(5) \o <<"-">> \o Raw(3)
<1>1. s \in {CNPJ, CPF, Raw(14), Raw(11), Raw(8), c}
  BY DEF CEPS
<1>2. /\ Looks(CNPJ, 18, {3, 7, 11, 16}) /\ Looks(CPF, 14, {4, 8, 12}) /\ Looks(c, 9, {6})
      /\ Looks(Raw(14), 14, {}) /\ Looks(Raw(11), 11, {}) /\ Looks(Raw(8), 8, {})
  BY DocumentLooks, RawLooks, CepLooks
<1> HIDE DEF c
<1>3. Looks(s, 18, {3, 7, 11, 16}) \/ Looks(s, 14, {4, 8, 12}) \/ Looks(s, 9, {6})
        \/ Looks(s, 14, {}) \/ Looks(s, 11, {}) \/ Looks(s, 8, {})
  BY <1>1, <1>2, Zenon
<1>4. \A n, M : Looks(s, n, M) => Len(s) = n
  BY Zenon DEF Looks
<1>5. Len(s) \in {18, 14, 9, 11, 8}
  BY <1>3, <1>4, Zenon
<1>6. QED
  BY <1>5

\* The exception: nothing is found from any place of it on.
LEMMA NothingInShort ==
  ASSUME NEW S, NEW q \in Seq(S), NEW a, NEW b, IsWord(q, a, b), Noise(SubSeq(q, a, b)),
         b = Len(q), b = a + 12, q[a] = "(", NEW i \in a..b
  PROVE  Ends(q, i) = {}
<1>1. a \in Nat /\ b \in Nat /\ 1 <= a /\ a <= b /\ b <= Len(q) /\ Len(q) \in Nat
  BY WordIs
<1>2. CASE i = a
  <2>1. ASSUME NEW s \in Shapes, NEW e, Ended(q, a, s, e) PROVE FALSE
    <3> DEFINE n == Len(s)
    <3>1. a + n = b + 1
      BY <2>1, WordEnd DEF Ended
    <3>2. n \in Nat
      BY <2>1, ShapesLook DEF Form, Looks
    <3> HIDE DEF n
    <3>3. n = 13
      BY <1>1, <3>1, <3>2
    <3> USE DEF n
    <3>4. s \notin CEPS \cup {CNPJ, CPF, Raw(14), Raw(11)}
      BY <3>3, NotThirteen
    <3>5. a + 14 - 1 <= Len(q)
      BY <2>1, <3>4 DEF Ended, MinPhone
    <3>6. QED
      BY <1>1, <3>5
  <2>2. QED
    BY <1>2, <2>1, NoneFits
<1>3. CASE i # a
  <2>1. PICK x \in Shapes : Fits(q, a, x) /\ a + Len(x) = b + 1
    BY NoiseWord, IsFits
  <2> DEFINE l == Len(x)
  <2>0. l \in 8..18 /\ FormAt(q, a, l)
    BY <1>1, <2>1, FormIsAt
  <2>8. a + l = b + 1
    BY <2>1
  <2> HIDE DEF l
  <2>2. l = 13
    BY <1>1, <2>0, <2>8
  <2>3. Places(q, a, 13, {1, 4, 9})
    BY <2>0, <2>2 DEF FormAt
  <2>4. \A j \in 1..13 : IsDigit(q[a + j - 1]) <=> j \notin {1, 4, 9}
    BY <2>3 DEF Places
  <2> DEFINE k == i - a
  <2>5. k \in 1..12 /\ i = a + k
    BY <1>1, <1>3
  <2>6. ASSUME NEW s \in Shapes, Fits(q, i, s) PROVE FALSE
    <3> DEFINE n == Len(s)
    <3>1. FormAt(q, i, n) /\ n \in 8..18
      BY <1>1, <2>5, <2>6, FormIsAt
    <3>2. i + n - 1 <= Len(q)
      BY <2>6 DEF Fits
    <3> HIDE DEF n
    <3>3. k + n <= 13
      BY <1>1, <2>5, <3>1, <3>2
    <3>4. \A j \in 1..n : j + k \in 1..13 /\ a + (j + k) - 1 = i + j - 1
      BY <1>1, <2>5, <3>1, <3>3
    <3>5. \A j \in 1..n : IsDigit(q[i + j - 1]) <=> j + k \notin {1, 4, 9}
      BY <2>4, <3>4
    <3> DEFINE d(j) == IsDigit(q[i + j - 1])
    <3>6. \/ n = 11 /\ \A j \in 1..11 : d(j)
          \/ n = 9 /\ \A j \in 1..9 : d(j) <=> j # 6
          \/ n = 8 /\ \A j \in 1..8 : d(j)
      <4>1. \/ Places(q, i, 11, {}) /\ n = 11
            \/ Places(q, i, 9, {6}) /\ n = 9
            \/ Places(q, i, 8, {}) /\ n = 8
        <5>1. n <= 12
          BY <2>5, <3>1, <3>3
        <5>2. QED
          BY <3>1, <5>1 DEF FormAt
      <4>2. QED
        BY <4>1 DEF Places
    <3>7. \A j \in 1..n : d(j) <=> j + k \notin {1, 4, 9}
      BY <3>5
    <3> HIDE DEF d, k
    <3>8. k \in {1, 2, 3, 4, 5} /\ n \in {8, 9, 11}
      BY <2>5, <3>3, <3>6
    <3>9. QED
      BY <3>3, <3>6, <3>7, <3>8
  <2>7. QED
    BY <2>6, NoneFits DEF Ended
<1>4. QED
  BY <1>2, <1>3

\* The words that go.
Goes(q, a, b) ==
  /\ Noise(SubSeq(q, a, b))
  /\ ~ (b = Len(q) /\ b = a + 12 /\ q[a] = "(")

LEMMA WordFound ==
  ASSUME NEW S, NEW q \in Seq(S), NEW a, NEW b, IsWord(q, a, b), Goes(q, a, b)
  PROVE  Ends(q, a) = {b + 1}
<1> DEFINE t == SubSeq(q, a, b)
<1>1. a \in Nat /\ b \in Nat /\ 1 <= a /\ a <= b /\ b <= Len(q) /\ Len(q) \in Nat
  BY WordIs
<1>2. FreeBefore(q, a) /\ FreeAfter(q, b + 1)
  BY <1>1, MarksNoDigits DEF FreeBefore, FreeAfter, IsWord
<1>3. ASSUME NEW s \in Shapes, Is(t, s),
             \/ s \in {CNPJ, Raw(14)} /\ validate_cnpj(DigitsOf(t))
             \/ s \in {CPF, Raw(11)} /\ validate_cpf(DigitsOf(t))
             \/ s \in PHONES \cup CEPS
      PROVE  Ended(q, a, s, b + 1)
  <2>1. Fits(q, a, s) /\ a + Len(s) = b + 1
    BY <1>3, IsFits
  <2>2. SubSeq(q, a, (b + 1) - 1) = t
    <3>1. (b + 1) - 1 = b
      BY <1>1
    <3>2. QED
      BY <3>1
  <2>3. ASSUME s \in PHONES PROVE a + MinPhone - 1 <= Len(q)
    <3>1. FormAt(q, a, Len(s)) /\ Len(s) \in 8..18
      BY <1>1, <2>1, FormIsAt
    <3>2. Len(s) >= 13 /\ q[a] = "("
      <4>1. s[1] = "(" /\ DOMAIN s = 1..Len(s)
        BY <2>3, ShapesLook DEF Form, Looks
      <4>2. q[a + 1 - 1] = "("
        BY <2>1, <3>1, <4>1, SymbolsAre DEF Fits
      <4>3. q[a] = "("
        BY <1>1, <4>2
      <4>4. ~ IsDigit(q[a + 1 - 1])
        BY <4>2, MarksNoDigits, SymbolsAre
      <4>5. \A M : \A n \in 8..18 : 1 \notin M => ~ Places(q, a, n, M)
        BY <4>4 DEF Places
      <4> DEFINE n == Len(s)
      <4>6. FormAt(q, a, n)
        BY <3>1
      <4> HIDE DEF n
      <4>7. n \in {13, 14, 15}
        BY <4>5, <4>6 DEF FormAt
      <4>8. n >= 13
        BY <4>7
      <4>9. QED
        BY <4>3, <4>8 DEF n
    <3>3. b = a + 12 => b # Len(q)
      BY <3>2 DEF Goes
    <3>4. QED
      BY <1>1, <2>1, <3>1, <3>2, <3>3 DEF MinPhone
  <2> HIDE DEF t
  <2>4. QED
    BY <1>2, <1>3, <2>1, <2>2, <2>3 DEF Ended
<1>4. \E s \in Shapes : Ended(q, a, s, b + 1)
  <2>1. Noise(t)
    BY DEF Goes
  <2>2. \E s \in Shapes :
          /\ Is(t, s)
          /\ \/ s \in {CNPJ, Raw(14)} /\ validate_cnpj(DigitsOf(t))
             \/ s \in {CPF, Raw(11)} /\ validate_cpf(DigitsOf(t))
             \/ s \in PHONES \cup CEPS
    BY <2>1 DEF Noise, Shapes
  <2>3. QED
    BY <1>3, <2>2
<1>5. \A s \in Shapes : \A e : Ended(q, a, s, e) => e = b + 1
  BY WordEnd DEF Goes, Ended
<1>6. QED
  BY <1>4, <1>5, EndsAreEnded

LEMMA WordLeft ==
  ASSUME NEW S, NEW q \in Seq(S), NEW a, NEW b, IsWord(q, a, b),
         Plain(SubSeq(q, a, b)) \/ Noise(SubSeq(q, a, b)), ~ Goes(q, a, b), NEW i \in a..b
  PROVE  Ends(q, i) = {}
<1> DEFINE t == SubSeq(q, a, b)
<1>1. a \in Nat /\ b \in Nat /\ 1 <= a /\ a <= b /\ b <= Len(q) /\ Len(q) \in Nat
  BY WordIs
<1>2. CASE Noise(t)
  BY <1>2, NothingInShort DEF Goes
<1>3. CASE ~ Noise(t) /\ i # a
  <2>1. i \in (a + 1)..b
    BY <1>1, <1>3
  <2>2. QED
    BY <1>3, <2>1, NothingInside
<1>4. CASE ~ Noise(t) /\ i = a
  <2>1. ASSUME NEW s \in Shapes, NEW e, Ended(q, a, s, e) PROVE FALSE
    <3>1. a + Len(s) = b + 1 /\ Fits(q, a, s)
      BY <2>1, WordEnd DEF Ended
    <3>2. Is(t, s)
      BY <3>1, IsFits
    <3>3. Len(s) \in Nat
      BY <2>1, ShapesLook DEF Form, Looks
    <3>4. SubSeq(q, a, e - 1) = t
      <4>1. e - 1 = b
        BY <1>1, <2>1, <3>1, <3>3 DEF Ended
      <4>2. QED
        BY <4>1
    <3> HIDE DEF t
    <3>5. Noise(t)
      BY <2>1, <3>2, <3>4 DEF Ended, Noise
    <3>6. QED
      BY <1>4, <3>5
  <2>2. QED
    BY <1>4, <2>1, NoneFits
<1>5. QED
  BY <1>2, <1>3, <1>4

-----------------------------------------------------------------------------
(* The scan, word by word                                                  *)

LEMMA ScanNothing ==
  ASSUME NEW S, NEW q \in Seq(S), NEW g, Scan(g, q, S),
         NEW i \in 1..Len(q), Ends(q, i) = {}
  PROVE  g[i] = <<q[i]>> \o g[i + 1]
<1>1. i \in 1..(Len(q) + 1) /\ ~ (i > Len(q))
  OBVIOUS
<1>2. g[i] = Scanned(g, q, i)
  BY <1>1 DEF Scan
<1>3. QED
  BY <1>1, <1>2, Zenon DEF Scanned

LEMMA ScanFound ==
  ASSUME NEW S, NEW q \in Seq(S), NEW g, Scan(g, q, S),
         NEW i \in 1..Len(q), NEW e, Ends(q, i) = {e}
  PROVE  g[i] = g[e]
<1>1. i \in 1..(Len(q) + 1) /\ ~ (i > Len(q))
  OBVIOUS
<1>2. g[i] = Scanned(g, q, i)
  BY <1>1 DEF Scan
<1>3. Ends(q, i) # {} /\ (CHOOSE d \in Ends(q, i) : TRUE) = e
  OBVIOUS
<1>4. QED
  BY <1>1, <1>2, <1>3, Zenon DEF Scanned

LEMMA Regrouped ==
  ASSUME NEW S, NEW u \in Seq(S), NEW v \in Seq(S), NEW w \in Seq(S),
         NEW x, x = u \o v, NEW y, y = v \o w
  PROVE  u \o y = x \o w
BY ConcatAssociative

LEMMA ScanWord ==
  ASSUME NEW S, NEW q \in Seq(S), NEW g, Scan(g, q, S),
         NEW a \in 1..Len(q), NEW b \in a..Len(q), \A i \in a..b : Ends(q, i) = {}
  PROVE  g[a] = SubSeq(q, a, b) \o g[b + 1]
<1> DEFINE n == b - a + 1
           x(m) == SubSeq(q, a, a + m - 1)
           P == {m \in 0..n : g[a] = x(m) \o g[a + m]}
<1>1. n \in Nat /\ n >= 1 /\ Len(q) \in Nat /\ b \in Nat /\ a \in Nat
  OBVIOUS
<1>2. \A m \in 0..n : a + m \in 1..(Len(q) + 1)
  BY <1>1
<1>3. \A m \in 0..n : g[a + m] \in Seq(S)
  BY <1>2 DEF Scan
<1>4. \A m \in 0..n : x(m) \in Seq(S)
  <2>1. ASSUME NEW m \in 0..n PROVE x(m) \in Seq(S)
    <3>1. \A i \in a..(a + m - 1) : q[i] \in S
      BY <1>1
    <3>2. QED
      BY <1>1, <3>1, SubSeqProperties
  <2>2. QED
    BY <2>1
<1>5. 0 \in P
  <2>1. x(0) = <<>>
    <3>1. a + 0 - 1 \in Int /\ a + 0 - 1 < a
      BY <1>1
    <3>2. QED
      BY <3>1, SubSeqEmpty
  <2>2. a + 0 = a /\ 0 \in 0..n
    BY <1>1
  <2>3. g[a] \in Seq(S)
    BY <1>3, <2>2
  <2> HIDE DEF x
  <2>4. <<>> \o g[a] = g[a]
    BY <2>3, ConcatEmptySeq
  <2>5. QED
    BY <2>1, <2>2, <2>4
<1>6. ASSUME NEW m \in 1..n, m - 1 \in P PROVE m \in P
  <2> DEFINE i == a + m - 1
  <2>1. i \in a..b /\ i \in 1..Len(q) /\ i + 1 = a + m /\ m \in 0..n /\ m - 1 \in 0..n
        /\ a + (m - 1) = i
    BY <1>1
  <2>2. g[a] = x(m - 1) \o g[i]
    BY <1>6, <2>1
  <2>3. g[i] = <<q[i]>> \o g[a + m]
    BY <2>1, ScanNothing
  <2>4. x(m) = x(m - 1) \o <<q[i]>>
    <3>1. SubSeq(q, a, i) = SubSeq(q, a, i - 1) \o <<q[i]>>
      BY <2>1, SubSeqRecursiveSecond
    <3>2. a + (m - 1) - 1 = i - 1
      BY <1>1
    <3>3. QED
      BY <3>1, <3>2
  <2>5. x(m - 1) \in Seq(S) /\ g[a + m] \in Seq(S) /\ <<q[i]>> \in Seq(S)
    BY <1>3, <1>4, <2>1
  <2> HIDE DEF x, i
  <2>6. x(m - 1) \o g[i] = x(m) \o g[a + m]
    <3> DEFINE u == x(m - 1)
               v == <<q[i]>>
               w == g[a + m]
               uv == x(m)
               vw == g[i]
    <3>1. u \in Seq(S) /\ v \in Seq(S) /\ w \in Seq(S)
      BY <2>5
    <3>2. uv = u \o v
      BY <2>4
    <3>3. vw = v \o w
      BY <2>3
    <3> HIDE DEF u, v, w, uv, vw
    <3>4. u \o vw = uv \o w
      BY <3>1, <3>2, <3>3, Regrouped, SMTT(60)
    <3>5. QED
      BY <3>4 DEF u, w, uv, vw
  <2>7. g[a] = x(m) \o g[a + m]
    BY <2>2, <2>6, Zenon
  <2>8. QED
    BY <2>1, <2>7
<1> HIDE DEF P
<1>7. \A m \in 1..n : m - 1 \in P => m \in P
  BY <1>6
<1>8. n \in P
  <2> HIDE DEF n
  <2>1. \A m \in 0..n : m \in P
    BY <1>1, <1>5, <1>7, UpTo
  <2>2. QED
    BY <1>1, <2>1
<1>9. a + n = b + 1 /\ a + n - 1 = b
  BY <1>1
<1>10. g[a] = x(n) \o g[a + n]
  BY <1>8 DEF P
<1> HIDE DEF n
<1>11. QED
  BY <1>9, <1>10, Zenon

-----------------------------------------------------------------------------
(* A text, read word by word                                               *)

\* A word is read as one.
LEMMA ReadWord ==
  ASSUME NEW S, NEW q \in Seq(S), NEW c, Reading(c, q, S), NEW a, NEW b, IsWord(q, a, b)
  PROVE  c[b] = Append(c[a - 1], SubSeq(q, a, b))
<1> DEFINE n == b - a + 1
           x(m) == SubSeq(q, a, a + m - 1)
           ts == c[a - 1]
           P == {m \in 0..n : m = 0 \/ c[a + m - 1] = Append(ts, x(m))}
<1>1. /\ n \in Nat /\ n >= 1 /\ Len(q) \in Nat /\ b \in Nat /\ a \in Nat /\ 1 <= a /\ a <= b
      /\ b <= Len(q)
  BY WordIs
<1>2. ts \in Seq(Seq(S))
  BY <1>1 DEF Reading
<1>3. \A i \in a..b : q[i] # Space /\ c[i] = Read(q, c[i - 1], i)
  BY <1>1 DEF Reading, IsWord
<1>4. 0 \in P
  BY <1>1
<1>5. ASSUME NEW m \in 1..n, m - 1 \in P PROVE m \in P
  <2> DEFINE i == a + m - 1
  <2>1. i \in a..b /\ m \in 0..n /\ i \in 1..Len(q) /\ q[i] \in S
    BY <1>1
  <2>2. q[i] # Space /\ c[i] = Read(q, c[i - 1], i)
    BY <1>3, <2>1
  <2>3. CASE m = 1
    <3>1. i = a /\ i - 1 = a - 1 /\ a + 1 - 1 = a /\ a \in 1..Len(q) /\ a \in a..Len(q)
      BY <1>1, <2>3
    <3>2. c[a] = Append(ts, <<q[a]>>)
      <4>1. a = 1 \/ q[a - 1] = Space
        BY DEF IsWord
      <4>2. c[a] = Read(q, ts, a) /\ q[a] # Space
        BY <2>2, <3>1
      <4> HIDE DEF ts
      <4>3. QED
        BY <4>1, <4>2, Zenon DEF Read
    <3>3. SubSeq(q, a, a) = <<q[a]>>
      <4>1. SubSeq(q, a, a) = SubSeq(q, a, a - 1) \o <<q[a]>>
        BY <3>1, SubSeqRecursiveSecond
      <4>2. SubSeq(q, a, a - 1) = <<>>
        BY <1>1, SubSeqEmpty
      <4>3. <<q[a]>> \in Seq(S)
        BY <3>1
      <4>4. <<>> \o <<q[a]>> = <<q[a]>>
        BY <4>3, ConcatEmptySeq
      <4>5. QED
        BY <4>1, <4>2, <4>4, Zenon
    <3>4. x(1) = <<q[a]>>
      BY <3>1, <3>3
    <3> HIDE DEF x, ts
    <3>5. c[a + 1 - 1] = Append(ts, x(1))
      BY <3>1, <3>2, <3>4
    <3>6. QED
      BY <2>1, <2>3, <3>5
  <2>4. CASE m # 1
    <3>1. m - 1 # 0 /\ a + (m - 1) - 1 = i - 1 /\ i # 1 /\ i - 1 \in a..b
      BY <1>1, <2>4
    <3>2. c[i - 1] = Append(ts, x(m - 1))
      BY <1>5, <3>1
    <3>3. q[i - 1] # Space
      BY <1>3, <3>1
    <3>4. x(m - 1) \in Seq(S)
      <4>1. \A j \in a..(i - 1) : q[j] \in S
        BY <1>1, <2>1
      <4>2. i - 1 \in Int /\ a \in Int
        BY <1>1
      <4> HIDE DEF i
      <4>3. SubSeq(q, a, i - 1) \in Seq(S)
        BY <4>1, <4>2, SubSeqProperties
      <4>4. QED
        BY <3>1, <4>3
    <3>5. x(m) = Append(x(m - 1), q[i])
      <4>1. SubSeq(q, a, i) = SubSeq(q, a, i - 1) \o <<q[i]>>
        BY <1>1, <2>1, SubSeqRecursiveSecond
      <4>2. x(m) = x(m - 1) \o <<q[i]>>
        BY <3>1, <4>1
      <4> HIDE DEF x, i
      <4>3. Append(x(m - 1), q[i]) = x(m - 1) \o <<q[i]>>
        BY <2>1, <3>4, AppendIsConcat
      <4>4. QED
        BY <4>2, <4>3, Zenon
    <3> DEFINE us == Append(ts, x(m - 1))
               k == Len(ts) + 1
    <3> HIDE DEF x, i
    <3>6. /\ us \in Seq(Seq(S)) /\ Len(us) = k /\ us[k] = x(m - 1) /\ k \in Nat
          /\ \A j \in 1..Len(ts) : us[j] = ts[j]
      BY <1>2, <3>4
    <3>7. c[i] = [us EXCEPT ![Len(us)] = Append(@, q[i])]
      <4> HIDE DEF us
      <4>1. c[i] = Read(q, us, i)
        BY <2>2, <3>2 DEF us
      <4>2. QED
        BY <2>2, <3>1, <3>3, <4>1, Zenon DEF Read
    <3> HIDE DEF us
    <3> DEFINE w == x(m)
               vs == [us EXCEPT ![k] = w]
    <3>8. c[i] = vs
      BY <3>5, <3>6, <3>7
    <3>9. w \in Seq(S)
      BY <2>1, <3>4, <3>5
    <3> HIDE DEF w, ts
    <3>10. vs = Append(ts, w)
      <4>1. /\ Append(ts, w) \in Seq(Seq(S)) /\ Len(Append(ts, w)) = k /\ Append(ts, w)[k] = w
            /\ \A j \in 1..Len(ts) : Append(ts, w)[j] = ts[j]
        BY <1>2, <3>9
      <4>2. k \in 1..Len(us)
        BY <1>2, <3>6
      <4>3. /\ vs \in Seq(Seq(S)) /\ Len(vs) = k
            /\ \A j \in 1..k : vs[j] = IF j = k THEN w ELSE us[j]
        <5> HIDE DEF k
        <5>1. Len(us) = k
          BY <3>6
        <5>2. QED
          BY <3>6, <3>9, <4>2, <5>1, ExceptSeq
      <4>4. \A j \in 1..k : j # k => j \in 1..Len(ts)
        BY <1>2
      <4> HIDE DEF vs
      <4>5. \A j \in 1..k : vs[j] = Append(ts, w)[j]
        BY <3>6, <4>1, <4>3, <4>4
      <4> HIDE DEF k
      <4>6. QED
        BY <4>1, <4>3, <4>5, SeqEqual
    <3>11. c[i] = Append(ts, w)
      BY <3>8, <3>10
    <3>12. QED
      BY <2>1, <3>11 DEF w, i
  <2>5. QED
    BY <2>3, <2>4
<1> HIDE DEF P
<1>6. \A m \in 1..n : m - 1 \in P => m \in P
  BY <1>5
<1>7. n \in P /\ n # 0
  <2> HIDE DEF n
  <2>1. \A m \in 0..n : m \in P
    BY <1>1, <1>4, <1>6, UpTo
  <2>2. QED
    BY <1>1, <2>1
<1>8. a + n - 1 = b
  BY <1>1
<1>9. c[a + n - 1] = Append(ts, x(n))
  BY <1>7 DEF P
<1> HIDE DEF n
<1>10. QED
  BY <1>8, <1>9, Zenon

\* What has been read at the end of a word, or at a space, stays.
LEMMA ReadStays ==
  ASSUME NEW S, NEW q \in Seq(S), NEW c, Reading(c, q, S), NEW m \in 0..Len(q),
         m = 0 \/ q[m] = Space \/ m = Len(q) \/ q[m + 1] = Space
  PROVE  Follows(Tokens(q), c[m], m < Len(q) /\ q[Len(q)] # Space)
<1> DEFINE n == Len(q)
           ts == c[m]
           Q == {k \in 0..n : k > m => Follows(c[k], ts, q[k] # Space)}
<1>1. n \in Nat /\ m \in Nat /\ m <= n
  OBVIOUS
<1>2. \A k \in 0..n : c[k] \in Seq(Seq(S))
  BY DEF Reading
<1>3. ts \in Seq(Seq(S)) /\ c[n] = Tokens(q)
  BY <1>1, <1>2 DEF Reading
<1>4. 0 \in Q
  BY <1>1
<1>5. ASSUME NEW k \in 1..n, k - 1 \in Q PROVE k \in Q
  <2>1. c[k] = Read(q, c[k - 1], k)
    BY DEF Reading
  <2>2. CASE k <= m
    BY <1>1, <2>2
  <2>3. CASE k = m + 1
    <3>1. c[k] = Read(q, ts, k) /\ k - 1 = m
      BY <1>1, <2>1, <2>3
    <3>2. q[k] \in S
      OBVIOUS
    <3> HIDE DEF ts
    <3>3. CASE q[k] = Space
      <4>1. c[k] = ts
        BY <3>1, <3>3, Zenon DEF Read
      <4>2. QED
        BY <1>1, <1>3, <3>3, <4>1 DEF Follows
    <3>4. CASE q[k] # Space
      <4>1. k = 1 \/ q[k - 1] = Space
        BY <1>1, <2>3, <3>4
      <4>2. c[k] = Append(ts, <<q[k]>>)
        BY <3>1, <3>4, <4>1, Zenon DEF Read
      <4>3. <<q[k]>> \in Seq(S)
        BY <3>2
      <4>4. /\ Len(Append(ts, <<q[k]>>)) = Len(ts) + 1 /\ Len(ts) \in Nat
            /\ \A j \in 1..Len(ts) : Append(ts, <<q[k]>>)[j] = ts[j]
        BY <1>3, <4>3
      <4>5. QED
        BY <1>1, <4>2, <4>4 DEF Follows
    <3>5. QED
      BY <3>3, <3>4
  <2>4. CASE k > m + 1
    <3>1. k \in 2..n /\ k - 1 \in 0..n /\ k - 1 > m /\ k \in 0..n
      BY <1>1, <2>4
    <3>2. Follows(c[k - 1], ts, q[k - 1] # Space)
      BY <1>5, <3>1
    <3>3. c[k - 1] \in Seq(Seq(S))
      BY <1>2, <3>1
    <3> HIDE DEF ts
    <3>4. Follows(Read(q, c[k - 1], k), ts, q[k] # Space)
      BY <1>3, <3>1, <3>2, <3>3, ReadFollows
    <3>5. QED
      BY <2>1, <3>1, <3>4
  <2>5. QED
    BY <1>1, <2>2, <2>3, <2>4
<1> HIDE DEF Q
<1>6. \A k \in 1..n : k - 1 \in Q => k \in Q
  BY <1>5
<1>7. n \in Q
  <2> HIDE DEF n
  <2>1. \A k \in 0..n : k \in Q
    BY <1>1, <1>4, <1>6, UpTo
  <2>2. QED
    BY <1>1, <2>1
<1>8. CASE m < n
  BY <1>3, <1>7, <1>8 DEF Q
<1>9. CASE m = n
  BY <1>3, <1>9 DEF Follows
<1>10. QED
  BY <1>1, <1>8, <1>9

\* A text that does not end inside a word.
Open(x) == x = <<>> \/ x[Len(x)] = Space

LEMMA TokensSpace ==
  ASSUME NEW S, Space \in S, NEW x \in Seq(S)
  PROVE  x \o <<Space>> \in Seq(S) /\ Open(x \o <<Space>>) /\ Tokens(x \o <<Space>>) = Tokens(x)
<1> DEFINE y == x \o <<Space>>
           n == Len(x)
<1>1. <<Space>> \in Seq(S) /\ Len(<<Space>>) = 1 /\ <<Space>>[1] = Space
  OBVIOUS
<1>2. Behind(S, x, <<Space>>, y)
  BY <1>1, BehindIs, Zenon
<1> HIDE DEF y
<1>3. y \in Seq(S) /\ Len(y) = n + 1 /\ y[n + 1] = Space /\ \A i \in 1..n : y[i] = x[i]
  <2>1. n \in Nat
    OBVIOUS
  <2>2. QED
    BY <1>1, <1>2, <2>1 DEF Behind
<1>4. n \in Nat /\ n + 1 \in 1..Len(y) /\ n <= Len(y)
  BY <1>3
<1>5. PICK c : Reading(c, x, S)
  BY TokensAre
<1>6. PICK d : Reading(d, y, S)
  BY <1>3, TokensAre
<1>7. d[n] = Tokens(x)
  BY <1>3, <1>4, <1>5, <1>6, SameStart
<1>8. d[n + 1] = Read(y, d[n + 1 - 1], n + 1) /\ d[n + 1] = Tokens(y)
  BY <1>3, <1>4, <1>6 DEF Reading
<1>9. n + 1 - 1 = n
  BY <1>4
<1>10. Tokens(y) = Tokens(x)
  BY <1>3, <1>7, <1>8, <1>9 DEF Read
<1>11. y # <<>> /\ y[Len(y)] = Space
  BY <1>3, <1>4
<1>12. QED
  BY <1>3, <1>10, <1>11 DEF Open, y

LEMMA TokensWord ==
  ASSUME NEW S, NEW x \in Seq(S), Open(x), NEW t \in Seq(S), Len(t) > 0,
         \A j \in 1..Len(t) : t[j] # Space
  PROVE  x \o t \in Seq(S) /\ Tokens(x \o t) = Append(Tokens(x), t)
<1> DEFINE y == x \o t
           n == Len(x)
           k == Len(t)
<1>1. Behind(S, x, t, y)
  BY BehindIs, Zenon
<1> HIDE DEF y
<1>2. n \in Nat /\ k \in Nat /\ k >= 1
  OBVIOUS
<1>3. y \in Seq(S) /\ Len(y) = n + k
  BY <1>1 DEF Behind
<1>4. \A i \in 1..n : y[i] = x[i]
  BY <1>1, <1>2 DEF Behind
<1>5. \A j \in 1..k : y[n + j] = t[j]
  <2>1. ASSUME NEW j \in 1..k PROVE y[n + j] = t[j]
    <3>1. n + j \in 1..(n + k) /\ ~ (n + j <= n) /\ n + j - n = j
      BY <1>2
    <3>2. y[n + j] = IF n + j <= n THEN x[n + j] ELSE t[n + j - n]
      BY <1>1, <3>1 DEF Behind
    <3> HIDE DEF n, k
    <3>3. QED
      BY <3>1, <3>2
  <2>2. QED
    BY <2>1
<1>6. IsWord(y, n + 1, n + k)
  <2>1. n + 1 \in 1..Len(y) /\ n + k \in (n + 1)..Len(y) /\ n + k = Len(y)
    BY <1>2, <1>3
  <2>2. n + 1 = 1 \/ y[n + 1 - 1] = Space
    <3>1. x = <<>> => n = 0
      OBVIOUS
    <3>2. n # 0 => n \in 1..n /\ n + 1 - 1 = n
      BY <1>2
    <3>3. QED
      BY <1>2, <1>4, <3>1, <3>2 DEF Open
  <2>3. ASSUME NEW i \in (n + 1)..(n + k) PROVE y[i] # Space
    <3>1. i - n \in 1..k /\ i = n + (i - n)
      BY <1>2
    <3> HIDE DEF n
    <3>2. QED
      BY <1>5, <3>1
  <2>4. QED
    BY <2>1, <2>2, <2>3 DEF IsWord
<1>7. SubSeq(y, n + 1, n + k) = t
  <2> DEFINE w == SubSeq(y, n + 1, n + k)
  <2>1. /\ w \in Seq(S) /\ Len(w) = n + k - (n + 1) + 1
        /\ \A j \in 1..(n + k - (n + 1) + 1) : w[j] = y[(n + 1) + j - 1]
    BY <1>3, <1>6, WordIs
  <2>2. n + k - (n + 1) + 1 = k /\ \A j \in 1..k : (n + 1) + j - 1 = n + j
    BY <1>2
  <2> HIDE DEF w
  <2>3. Len(w) = k /\ \A j \in 1..k : w[j] = t[j]
    BY <1>5, <2>1, <2>2
  <2> HIDE DEF n
  <2>4. w = t
    BY <2>1, <2>3, SeqEqual
  <2>5. QED
    BY <2>4 DEF w
<1>8. PICK c : Reading(c, x, S)
  BY TokensAre
<1>9. PICK d : Reading(d, y, S)
  BY <1>3, TokensAre
<1>10. d[n] = Tokens(x)
  <2>1. n <= Len(y)
    BY <1>2, <1>3
  <2>2. QED
    BY <1>3, <1>4, <1>8, <1>9, <2>1, SameStart
<1> DEFINE a == n + 1
           b == n + k
<1>11. d[b] = Append(d[a - 1], SubSeq(y, a, b))
  <2>1. IsWord(y, a, b)
    BY <1>6
  <2> HIDE DEF a, b
  <2>2. QED
    BY <1>3, <1>9, <2>1, ReadWord
<1>12. a - 1 = n /\ d[b] = Tokens(y) /\ SubSeq(y, a, b) = t
  BY <1>2, <1>3, <1>7, <1>9 DEF Reading
<1> HIDE DEF a, b
<1>13. Tokens(y) = Append(Tokens(x), t)
  BY <1>10, <1>11, <1>12
<1>14. QED
  BY <1>3, <1>13 DEF y

\* A word begins where the last space before its end is, or the text.
LEMMA WordAt ==
  ASSUME NEW S, NEW q \in Seq(S), NEW b \in 1..Len(q), q[b] # Space,
         b = Len(q) \/ q[b + 1] = Space
  PROVE  \E a \in 1..b : IsWord(q, a, b)
<1> DEFINE A == {a \in 1..b : \A i \in a..b : q[i] # Space}
           a == Min(A)
<1>1. b \in A
  <2>1. \A i \in b..b : i = b
    OBVIOUS
  <2>2. b \in 1..b
    OBVIOUS
  <2>3. QED
    BY <2>1, <2>2
<1>2. A \in SUBSET Nat /\ A # {}
  <2>1. \A x \in 1..b : x \in Nat
    OBVIOUS
  <2>2. A \subseteq 1..b
    OBVIOUS
  <2> HIDE DEF A
  <2>3. QED
    BY <1>1, <2>1, <2>2
<1> HIDE DEF A
<1>3. a \in A /\ \A k \in A : a <= k
  BY <1>2, LeastNumber
<1> HIDE DEF a
<1>4. a \in 1..b /\ \A i \in a..b : q[i] # Space
  BY <1>3 DEF A
<1>5. a = 1 \/ q[a - 1] = Space
  <2>1. SUFFICES ASSUME a # 1, q[a - 1] # Space PROVE FALSE
    OBVIOUS
  <2>2. a - 1 \in 1..b /\ \A i \in (a - 1)..b : i = a - 1 \/ i \in a..b
    BY <1>4, <2>1
  <2>3. a - 1 \in A
    BY <1>4, <2>1, <2>2 DEF A
  <2>4. QED
    BY <1>3, <1>4, <2>3
<1>6. a \in 1..Len(q) /\ b \in a..Len(q)
  BY <1>4
<1>7. IsWord(q, a, b)
  BY <1>4, <1>5, <1>6 DEF IsWord
<1>8. QED
  BY <1>4, <1>7

-----------------------------------------------------------------------------
(* The words that are left of a query                                      *)

\* The words that are not cut.
Leave(ts, cut) == [i \in DOMAIN ts |-> IF i \in cut THEN <<>> ELSE <<ts[i]>>]

\* x is what is left of the first m symbols of q: the scan has it, its words are
\* those not cut, and it is all of them or shorter.
LeftOf(S, q, g, c, h, cut, m, x) ==
  /\ x \in Seq(S) /\ g[1] = x \o g[m + 1] /\ Tokens(x) = h[Len(c[m])]
  /\ m = 0 \/ q[m] = Space => Open(x)
  /\ Len(x) <= m
  /\ (\A i \in cut : i > Len(c[m])) => x = SubSeq(q, 1, m)
  /\ (\E i \in cut : i <= Len(c[m])) => Len(x) < m

\* A word of the query is one of its tokens, and cut if it goes.
LEMMA WordIsToken ==
  ASSUME NEW S, NEW q \in Seq(S), NEW c, Reading(c, q, S), NEW a, NEW b, IsWord(q, a, b)
  PROVE  LET w == Len(c[a - 1]) + 1 IN
           /\ w \in DOMAIN Tokens(q) /\ Tokens(q)[w] = SubSeq(q, a, b) /\ Len(c[b]) = w
           /\ w \in ToCut(q, Tokens(q)) <=> Goes(q, a, b)
<1> DEFINE ts == Tokens(q)
           t == SubSeq(q, a, b)
           us == c[a - 1]
           w == Len(us) + 1
           n == Len(q)
<1>1. /\ n \in Nat /\ a \in Nat /\ b \in Nat /\ 1 <= a /\ a <= b /\ b <= n
      /\ t \in Seq(S) /\ Len(t) = b - a + 1 /\ \A j \in 1..(b - a + 1) : t[j] = q[a + j - 1]
  BY WordIs
<1>2. us \in Seq(Seq(S)) /\ c[n] = ts /\ ts \in Seq(Seq(S))
  <2>1. a - 1 \in 0..n
    BY <1>1
  <2>2. QED
    BY <2>1, TokensText DEF Reading
<1>3. c[b] = Append(us, t)
  BY ReadWord
<1> HIDE DEF us, t
<1>4. Len(c[b]) = w /\ c[b][w] = t /\ w \in Nat /\ w >= 1
  BY <1>1, <1>2, <1>3
<1>5. b = n \/ q[b + 1] = Space
  BY DEF IsWord
<1>6. b \in 0..n
  BY <1>1
<1>7. Follows(ts, c[b], b < n /\ q[n] # Space)
  BY <1>5, <1>6, ReadStays
<1>8. Len(ts) \in Nat /\ Len(ts) >= w /\ ts[w] = t /\ (b < n /\ q[n] # Space => Len(ts) > w)
  <2> HIDE DEF w, n, ts
  <2>1. /\ Len(ts) >= w /\ (b < n /\ q[n] # Space => Len(ts) > w)
        /\ \A j \in 1..w : ts[j] = c[b][j]
    BY <1>4, <1>7, Zenon DEF Follows
  <2>2. Len(ts) \in Nat /\ w \in 1..w
    BY <1>2, <1>4
  <2>3. QED
    BY <1>4, <2>1, <2>2
<1>9. b = n => Len(ts) = w
  BY <1>2, <1>4
<1>10. w \in DOMAIN ts
  BY <1>2, <1>4, <1>8
<1>11. q[b] # Space
  BY <1>1 DEF IsWord
<1>12. w = Len(ts) /\ q[n] # Space <=> b = n
  BY <1>1, <1>8, <1>9, <1>11
<1>13. t[1] = q[a] /\ (Len(t) = 13 <=> b = a + 12)
  BY <1>1
<1>14. Last(q) = q[n]
  BY DEF Last
<1>15. w \in ToCut(q, ts) <=>
         Noise(t) /\ (w = Len(ts) => ~ (Len(t) = 13 /\ t[1] = "(" /\ q[n] # Space))
  BY <1>8, <1>10, <1>14 DEF ToCut, TooShort, MinPhone
<1>16. w \in ToCut(q, ts) <=> Goes(q, a, b)
  BY <1>12, <1>13, <1>15 DEF Goes, t
<1>17. QED
  BY <1>4, <1>8, <1>10, <1>16 DEF us, t

LEMMA LeftSpace ==
  ASSUME NEW S, Space \in S, NEW q \in Seq(S), NEW g, Scan(g, q, S), NEW c, Reading(c, q, S),
         NEW h, NEW cut, NEW m \in 1..Len(q), q[m] = Space, NEW x,
         LeftOf(S, q, g, c, h, cut, m - 1, x)
  PROVE  LeftOf(S, q, g, c, h, cut, m, x \o <<Space>>)
<1> DEFINE y == x \o <<Space>>
           w == g[m + 1]
<1>1. m \in Nat /\ m - 1 \in Nat /\ m - 1 + 1 = m /\ m # 0 /\ Len(q) \in Nat /\ m <= Len(q)
  OBVIOUS
<1>2. /\ x \in Seq(S) /\ g[1] = x \o g[m] /\ Tokens(x) = h[Len(c[m - 1])]
      /\ Len(x) <= m - 1
      /\ (\A i \in cut : i > Len(c[m - 1])) => x = SubSeq(q, 1, m - 1)
      /\ (\E i \in cut : i <= Len(c[m - 1])) => Len(x) < m - 1
  <2>1. g[m - 1 + 1] = g[m]
    BY <1>1
  <2>2. QED
    BY <2>1, Zenon DEF LeftOf
<1>3. c[m] = c[m - 1]
  <2>1. c[m] = Read(q, c[m - 1], m)
    BY DEF Reading
  <2>2. QED
    BY <2>1, Zenon DEF Read
<1>4. y \in Seq(S) /\ Open(y) /\ Tokens(y) = Tokens(x)
  BY <1>2, TokensSpace
<1>5. <<Space>> \in Seq(S) /\ Len(<<Space>>) = 1
  OBVIOUS
<1>6. w \in Seq(S)
  <2>1. m + 1 \in 1..(Len(q) + 1)
    BY <1>1
  <2>2. QED
    BY <2>1 DEF Scan
<1>7. g[m] = <<Space>> \o w
  <2>1. Ends(q, m) = {}
    BY <1>1, NothingAtSpace
  <2>2. g[m] = <<q[m]>> \o w
    BY <2>1, ScanNothing
  <2> HIDE DEF w
  <2>3. QED
    BY <2>2
<1>8. Len(y) = Len(x) + 1
  BY <1>2, <1>5
<1> HIDE DEF y, w
<1>9. g[1] = y \o w
  <2> DEFINE s == <<Space>>
             sw == g[m]
  <2>1. y = x \o s /\ s \in Seq(S)
    BY <1>5 DEF y
  <2>2. sw = s \o w
    BY <1>7
  <2> HIDE DEF s, sw
  <2>5. x \in Seq(S)
    BY <1>2
  <2>3. x \o sw = y \o w
    BY <1>6, <2>1, <2>2, <2>5, Regrouped, SMTT(60)
  <2>4. QED
    BY <1>2, <2>3 DEF sw
<1>10. ASSUME \A i \in cut : i > Len(c[m]) PROVE y = SubSeq(q, 1, m)
  <2>1. x = SubSeq(q, 1, m - 1)
    BY <1>2, <1>3, <1>10
  <2>2. 1 \in 1..Len(q) /\ m \in 1..Len(q)
    BY <1>1
  <2>3. SubSeq(q, 1, m) = SubSeq(q, 1, m - 1) \o <<q[m]>>
    BY <2>2, SubSeqRecursiveSecond
  <2>4. QED
    BY <2>1, <2>3, Zenon DEF y
<1>11. Len(y) <= m /\ ((\E i \in cut : i <= Len(c[m])) => Len(y) < m)
  <2>1. Len(x) \in Nat
    BY <1>2
  <2> DEFINE k == Len(x)
             k2 == Len(y)
  <2> HIDE DEF k, k2
  <2>2. k \in Nat /\ k2 = k + 1 /\ k <= m - 1
    BY <1>2, <1>8, <2>1 DEF k, k2
  <2>3. k2 <= m
    BY <1>1, <2>2
  <2>4. ASSUME \E i \in cut : i <= Len(c[m]) PROVE k2 < m
    <3>1. k < m - 1
      BY <1>2, <1>3, <2>4 DEF k
    <3>2. QED
      BY <1>1, <2>2, <3>1
  <2>5. QED
    BY <2>3, <2>4 DEF k2
<1>12. Tokens(y) = h[Len(c[m])]
  BY <1>2, <1>3, <1>4
<1>13. QED
  BY <1>4, <1>9, <1>10, <1>11, <1>12, Zenon DEF LeftOf, y, w

LEMMA LeftWord ==
  ASSUME NEW S, NEW q \in Seq(S), NEW g, Scan(g, q, S), NEW c, Reading(c, q, S),
         NEW cut, NEW h, Collects(h, Leave(Tokens(q), cut), Seq(S)),
         NEW a, NEW b, IsWord(q, a, b),
         Plain(SubSeq(q, a, b)) \/ Noise(SubSeq(q, a, b)),
         cut \subseteq DOMAIN Tokens(q), Len(c[a - 1]) + 1 \in cut <=> Goes(q, a, b),
         NEW x, LeftOf(S, q, g, c, h, cut, a - 1, x)
  PROVE  \E y : LeftOf(S, q, g, c, h, cut, b, y)
<1> DEFINE t == SubSeq(q, a, b)
           k == Len(c[a - 1])
           rest == g[b + 1]
           ts == Tokens(q)
<1>1. /\ Len(q) \in Nat /\ a \in Nat /\ b \in Nat /\ 1 <= a /\ a <= b /\ b <= Len(q)
      /\ t \in Seq(S) /\ Len(t) = b - a + 1 /\ \A j \in 1..(b - a + 1) : t[j] = q[a + j - 1]
  BY WordIs
<1>2. a - 1 \in Nat /\ a - 1 + 1 = a /\ (a - 1 = 0 \/ q[a - 1] = Space) /\ b # 0 /\ q[b] # Space
  BY <1>1 DEF IsWord
<1>3. /\ x \in Seq(S) /\ g[1] = x \o g[a] /\ Tokens(x) = h[k] /\ Open(x)
      /\ Len(x) <= a - 1
      /\ (\A i \in cut : i > k) => x = SubSeq(q, 1, a - 1)
      /\ (\E i \in cut : i <= k) => Len(x) < a - 1
  <2>1. g[a - 1 + 1] = g[a]
    BY <1>2
  <2>2. QED
    BY <1>2, <2>1, Zenon DEF LeftOf
<1>4. k + 1 \in DOMAIN ts /\ ts[k + 1] = t /\ Len(c[b]) = k + 1
  BY WordIsToken
<1>5. ts \in Seq(Seq(S)) /\ k \in Nat /\ \A i \in cut : i \in Nat
  <2>1. ts \in Seq(Seq(S))
    BY TokensText
  <2>2. c[a - 1] \in Seq(Seq(S))
    <3>1. a - 1 \in 0..Len(q)
      BY <1>1
    <3>2. QED
      BY <3>1 DEF Reading
  <2>3. DOMAIN ts \subseteq Nat
    BY <2>1
  <2> HIDE DEF ts
  <2>4. k \in Nat
    BY <2>2
  <2>5. QED
    BY <2>1, <2>3, <2>4 DEF ts
<1>6. /\ h[k + 1] = h[k] \o (IF k + 1 \in cut THEN <<>> ELSE <<t>>)
      /\ h[k] \in Seq(Seq(S))
  <2> DEFINE ss == Leave(ts, cut)
  <2>1. DOMAIN ts = 1..Len(ts) /\ Len(ts) \in Nat
    BY <1>5
  <2>2. Len(ss) = Len(ts) /\ \A i \in 1..Len(ts) : ss[i] = IF i \in cut THEN <<>> ELSE <<ts[i]>>
    BY <2>1 DEF Leave
  <2>3. k + 1 \in 1..Len(ts) /\ k \in 0..Len(ts) /\ k + 1 - 1 = k
    BY <1>4, <1>5, <2>1
  <2> HIDE DEF ss, ts, k, t
  <2>6. Collects(h, ss, Seq(S))
    BY Zenon DEF ss, ts
  <2>7. /\ \A i \in 1..Len(ts) : h[i] = h[i - 1] \o ss[i]
        /\ \A i \in 0..Len(ts) : h[i] \in Seq(Seq(S))
    BY <2>2, <2>6, Zenon DEF Collects
  <2> DEFINE l == k + 1
  <2>8. l \in 1..Len(ts) /\ l - 1 = k
    BY <2>3
  <2> HIDE DEF l
  <2>9. h[l] = h[l - 1] \o ss[l]
    BY <2>7, <2>8
  <2>10. h[l] = h[k] \o ss[l] /\ h[k] \in Seq(Seq(S))
    BY <2>3, <2>7, <2>8, <2>9, Zenon
  <2>4. h[k + 1] = h[k] \o ss[k + 1] /\ h[k] \in Seq(Seq(S))
    BY <2>10, Zenon DEF l
  <2>5. QED
    BY <1>4, <2>2, <2>3, <2>4
<1> HIDE DEF k, rest
<1>7. CASE Goes(q, a, b)
  <2>1. g[a] = rest
    <3>1. Ends(q, a) = {b + 1}
      BY <1>7, WordFound
    <3>2. a \in 1..Len(q)
      BY <1>1
    <3>3. QED
      BY <3>1, <3>2, ScanFound DEF rest
  <2>2. k + 1 \in cut
    BY <1>7 DEF k
  <2>3. Tokens(x) = h[Len(c[b])]
    <3>1. h[k] \o <<>> = h[k]
      BY <1>6, ConcatEmptySeq
    <3>2. QED
      BY <1>3, <1>4, <1>6, <2>2, <3>1, Zenon
  <2>4. Len(x) <= b /\ Len(x) < b
    <3>1. Len(x) \in Nat
      BY <1>3
    <3>2. QED
      BY <1>1, <1>3, <3>1
  <2>5. ~ \A i \in cut : i > Len(c[b])
    BY <1>4, <1>5, <2>2
  <2>6. g[1] = x \o g[b + 1]
    BY <1>3, <2>1, Zenon DEF rest
  <2>7. LeftOf(S, q, g, c, h, cut, b, x)
    BY <1>3, <2>3, <2>4, <2>5, <2>6, Zenon DEF LeftOf
  <2>8. QED
    BY <2>7
<1>8. CASE ~ Goes(q, a, b)
  <2> DEFINE y == x \o t
             wr == g[a]
  <2>1. wr = t \o rest
    <3>1. \A i \in a..b : Ends(q, i) = {}
      BY <1>8, WordLeft
    <3>2. a \in 1..Len(q) /\ b \in a..Len(q)
      BY <1>1
    <3> HIDE DEF t
    <3>3. g[a] = SubSeq(q, a, b) \o g[b + 1]
      BY <3>1, <3>2, ScanWord
    <3>4. QED
      BY <3>3, Zenon DEF t, rest
  <2>2. k + 1 \notin cut
    BY <1>8 DEF k
  <2>3. rest \in Seq(S)
    <3>1. b + 1 \in 1..(Len(q) + 1)
      BY <1>1
    <3>2. QED
      BY <3>1 DEF Scan, rest
  <2>4. y \in Seq(S) /\ Tokens(y) = Append(Tokens(x), t)
    <3>1. \A j \in 1..Len(t) : t[j] # Space
      <4>1. \A j \in 1..(b - a + 1) : a + j - 1 \in a..b
        BY <1>1
      <4> HIDE DEF t
      <4>2. QED
        BY <1>1, <4>1 DEF IsWord
    <3>2. Len(t) > 0
      <4> HIDE DEF t
      <4>1. QED
        BY <1>1
    <3> HIDE DEF t
    <3>3. QED
      BY <1>1, <1>3, <3>1, <3>2, TokensWord
  <2>5. Tokens(y) = h[Len(c[b])]
    <3> HIDE DEF t, y
    <3>1. Append(h[k], t) = h[k] \o <<t>>
      BY <1>1, <1>6, AppendIsConcat
    <3>2. QED
      BY <1>3, <1>4, <1>6, <2>2, <2>4, <3>1, Zenon
  <2>6. Len(y) = Len(x) + (b - a + 1)
    <3> HIDE DEF t
    <3>0. x \in Seq(S) /\ t \in Seq(S)
      BY <1>1, <1>3
    <3>1. Len(x \o t) = Len(x) + Len(t)
      BY <3>0
    <3>2. QED
      BY <1>1, <3>1
  <2> HIDE DEF t, y, wr
  <2>7. g[1] = y \o rest
    <3>1. x \in Seq(S) /\ t \in Seq(S)
      BY <1>1, <1>3
    <3>2. y = x \o t
      BY Zenon DEF y
    <3>3. x \o wr = y \o rest
      BY <2>1, <2>3, <3>1, <3>2, Regrouped, SMTT(60)
    <3>4. QED
      BY <1>3, <3>3, Zenon DEF wr
  <2>8. \A i \in cut : i > k <=> i > k + 1
    BY <1>5, <2>2
  <2>9. ASSUME \A i \in cut : i > Len(c[b]) PROVE y = SubSeq(q, 1, b)
    <3>1. x = SubSeq(q, 1, a - 1)
      BY <1>3, <1>4, <2>8, <2>9
    <3>2. 1 \in 1..(Len(q) + 1) /\ a - 1 \in (1 - 1)..Len(q) /\ b \in (a - 1)..Len(q)
      BY <1>1
    <3>3. SubSeq(q, 1, a - 1) \o SubSeq(q, a - 1 + 1, b) = SubSeq(q, 1, b)
      BY <3>2, ConcatAdjacentSubSeq
    <3>4. QED
      BY <1>2, <3>1, <3>3, Zenon DEF y, t
  <2>10. Len(x) \in Nat
    BY <1>3
  <2>11. Len(y) <= b
    BY <1>1, <1>3, <2>6, <2>10
  <2>12. ASSUME \E i \in cut : i <= Len(c[b]) PROVE Len(y) < b
    <3>1. \E i \in cut : i <= k
      <4>1. PICK i \in cut : i <= k + 1
        BY <1>4, <2>12
      <4>2. i \in Nat /\ i # k + 1
        BY <1>5, <2>2, <4>1
      <4>3. i <= k
        BY <1>5, <4>1, <4>2
      <4>4. QED
        BY <4>3
    <3>2. Len(x) < a - 1
      BY <1>3, <3>1
    <3>3. QED
      BY <1>1, <2>6, <2>10, <3>2
  <2>13. g[1] = y \o g[b + 1]
    BY <2>7, Zenon DEF rest
  <2>14. LeftOf(S, q, g, c, h, cut, b, y)
    BY <1>2, <2>4, <2>5, <2>9, <2>11, <2>12, <2>13, Zenon DEF LeftOf
  <2>15. QED
    BY <2>14
<1>9. QED
  BY <1>7, <1>8

\* Where no word is being read.
Break(q, m) == m = 0 \/ q[m] = Space \/ m = Len(q) \/ q[m + 1] = Space

LEMMA LeftNothing ==
  ASSUME NEW S, NEW q \in Seq(S), NEW g, Scan(g, q, S), NEW c, Reading(c, q, S),
         NEW h, NEW ss, NEW T, Collects(h, ss, T), NEW cut, NEW n, cut \subseteq 1..n
  PROVE  \E x : LeftOf(S, q, g, c, h, cut, 0, x)
<1> DEFINE e == <<>>
<1>1. e \in Seq(S) /\ Len(e) = 0
  BY EmptySeq
<1>2. Tokens(e) = <<>>
  <2>1. PICK d : Reading(d, e, S)
    BY <1>1, TokensAre
  <2>2. QED
    BY <1>1, <2>1 DEF Reading
<1>3. c[0] = <<>> /\ h[0] = <<>>
  BY DEF Reading, Collects
<1>4. Len(c[0]) = 0
  BY <1>3
<1>5. g[1] = e \o g[0 + 1]
  <2>1. 1 \in 1..(Len(q) + 1) /\ 0 + 1 = 1
    OBVIOUS
  <2>2. g[1] \in Seq(S)
    BY <2>1 DEF Scan
  <2>3. <<>> \o g[1] = g[1]
    BY <2>2, ConcatEmptySeq
  <2>4. QED
    BY <2>1, <2>3
<1>6. SubSeq(q, 1, 0) = e
  BY SubSeqEmpty
<1>7. \A i \in cut : ~ (i <= 0)
  OBVIOUS
<1>8. 0 <= 0
  OBVIOUS
<1>9. Tokens(e) = h[Len(c[0])]
  BY <1>2, <1>3, <1>4
<1>10. ~ \E i \in cut : i <= Len(c[0])
  BY <1>4, <1>7
<1> HIDE DEF e
<1>11. Open(e)
  BY DEF Open, e
<1>12. LeftOf(S, q, g, c, h, cut, 0, e)
  BY <1>1, <1>5, <1>6, <1>8, <1>9, <1>10, <1>11, Zenon DEF LeftOf
<1>13. QED
  BY <1>12

\* Of a query in plain words and numbers, the words that are not cut are left, or
\* the query if none is.
LEMMA NoiseGoes ==
  ASSUME NEW S, Space \in S, NEW q \in Seq(S), Tokens(q) # <<>>,
         \A i \in DOMAIN Tokens(q) : Plain(Tokens(q)[i]) \/ Noise(Tokens(q)[i])
  PROVE  remove_br_noise(q) = WithoutNoise(q, Tokens(q))
<1> DEFINE ts == Tokens(q)
           cut == ToCut(q, ts)
           ss == Leave(ts, cut)
           n == Len(q)
           U == Seq(S)
<1>1. PICK g : Scan(g, q, S)
  BY ScanIs
<1>2. PICK c : Reading(c, q, S)
  BY TokensAre
<1>3. ts \in Seq(U) /\ Len(ts) \in Nat /\ Len(ts) > 0 /\ DOMAIN ts = 1..Len(ts) /\ c[n] = ts
  <2>1. ts \in Seq(U)
    BY TokensText
  <2>2. c[n] = ts
    BY <1>2 DEF Reading
  <2>3. ts # <<>>
    OBVIOUS
  <2> HIDE DEF ts, U
  <2>4. QED
    BY <2>1, <2>2, <2>3
<1>4. cut \subseteq DOMAIN ts /\ n \in Nat
  BY DEF ToCut
<1>5. ss \in Seq(Seq(U)) /\ Len(ss) = Len(ts)
  <2> HIDE DEF ts, cut, U
  <2>1. \A i \in DOMAIN ts : ts[i] \in U
    BY <1>3
  <2>2. \A i \in DOMAIN ts : <<ts[i]>> \in Seq(U)
    BY <2>1
  <2>3. \A i \in DOMAIN ts : (IF i \in cut THEN <<>> ELSE <<ts[i]>>) \in Seq(U)
    BY <2>2, EmptySeq
  <2>4. ss \in [1..Len(ts) -> Seq(U)]
    BY <1>3, <2>3 DEF Leave
  <2> HIDE DEF ss
  <2>5. QED
    BY <1>3, <2>4
<1>6. PICK h : Collects(h, ss, U)
  BY <1>3, <1>5, CollectsIs
<1>7. \A m \in 0..n : Break(q, m) => \E x : LeftOf(S, q, g, c, h, cut, m, x)
  <2> DEFINE left(m, x) == LeftOf(S, q, g, c, h, cut, m, x)
             P == {m \in 0..n : \A k \in 0..m : Break(q, k) => \E x : left(k, x)}
  <2>1. \E x : left(0, x)
    <3>1. cut \subseteq 1..Len(ts)
      BY <1>3, <1>4
    <3> HIDE DEF cut, ss, ts, U
    <3>2. QED
      BY <1>1, <1>2, <1>6, <3>1, LeftNothing
  <2>2. 0 \in P
    <3>1. 0 \in 0..n /\ \A k \in 0..0 : k = 0
      BY <1>4
    <3> HIDE DEF left, n
    <3>2. QED
      BY <2>1, <3>1
  <2>3. ASSUME NEW m \in 1..n, m - 1 \in P PROVE m \in P
    <3>1. \A k \in 0..(m - 1) : Break(q, k) => \E x : left(k, x)
      BY <2>3
    <3>2. m \in Nat /\ m - 1 \in 0..(m - 1) /\ \A k \in 0..m : k = m \/ k \in 0..(m - 1)
      BY <1>4
    <3>3. ASSUME Break(q, m) PROVE \E x : left(m, x)
      <4>1. CASE q[m] = Space
        <5>1. Break(q, m - 1)
          BY <3>2, <4>1 DEF Break
        <5>2. PICK x : left(m - 1, x)
          BY <3>1, <3>2, <5>1, Zenon
        <5>3. left(m, x \o <<Space>>)
          BY <1>1, <1>2, <4>1, <5>2, LeftSpace
        <5> HIDE DEF left
        <5>4. QED
          BY <5>3
      <4>2. CASE q[m] # Space
        <5>1. m = Len(q) \/ q[m + 1] = Space
          BY <3>2, <3>3, <4>2 DEF Break
        <5>2. PICK a \in 1..m : IsWord(q, a, m)
          BY <4>2, <5>1, WordAt
        <5>3. a - 1 \in 0..(m - 1) /\ Break(q, a - 1)
          <6>1. a = 1 \/ q[a - 1] = Space
            BY <5>2 DEF IsWord
          <6>2. QED
            BY <3>2, <6>1 DEF Break
        <5>4. PICK x : left(a - 1, x)
          BY <3>1, <5>3, Zenon
        <5> DEFINE w == Len(c[a - 1]) + 1
        <5>5. w \in DOMAIN ts /\ ts[w] = SubSeq(q, a, m) /\ (w \in cut <=> Goes(q, a, m))
          BY <1>2, <5>2, WordIsToken
        <5>6. Plain(SubSeq(q, a, m)) \/ Noise(SubSeq(q, a, m))
          <6> HIDE DEF w
          <6>1. QED
            BY <5>5
        <5>7. \E y : left(m, y)
          <6> HIDE DEF cut
          <6>1. QED
            BY <1>1, <1>2, <1>4, <1>6, <5>2, <5>4, <5>5, <5>6, LeftWord
        <5>8. QED
          BY <5>7
      <4>3. QED
        BY <4>1, <4>2
    <3> HIDE DEF left
    <3>4. \A k \in 0..m : Break(q, k) => \E x : left(k, x)
      BY <3>1, <3>2, <3>3
    <3>5. QED
      BY <1>4, <3>4
  <2> HIDE DEF P
  <2>4. \A m \in 1..n : m - 1 \in P => m \in P
    BY <2>3
  <2>5. \A m \in 0..n : m \in P
    BY <1>4, <2>2, <2>4, UpTo
  <2>6. \A m \in 0..n : m \in 0..m
    OBVIOUS
  <2> HIDE DEF left
  <2>7. \A m \in 0..n : Break(q, m) => \E x : left(m, x)
    BY <2>5, <2>6 DEF P
  <2>8. QED
    BY <2>7 DEF left
<1>8. PICK x : LeftOf(S, q, g, c, h, cut, n, x)
  <2>1. n \in 0..n /\ Break(q, n)
    BY <1>4 DEF Break
  <2>2. QED
    BY <1>7, <2>1, Zenon
<1> HIDE DEF cut, ts, ss
<1>9. /\ x \in U /\ g[1] = x \o g[n + 1] /\ Tokens(x) = h[Len(ts)]
      /\ (\A i \in cut : i > Len(ts)) => x = SubSeq(q, 1, n)
      /\ (\E i \in cut : i <= Len(ts)) => Len(x) < n
  BY <1>3, <1>8, Zenon DEF LeftOf
<1>10. Kept(q) = x
  <2>1. n + 1 \in 1..(n + 1) /\ n + 1 > n
    BY <1>4
  <2>2. g[n + 1] = Scanned(g, q, n + 1) /\ Kept(q) = g[1]
    BY <1>1, <2>1 DEF Scan
  <2>3. g[n + 1] = <<>>
    BY <2>1, <2>2 DEF Scanned
  <2>4. x \o <<>> = x
    BY <1>9, ConcatEmptySeq
  <2>5. QED
    BY <1>9, <2>2, <2>3, <2>4, Zenon
<1>11. Tokens(x) = FlattenSeq(ss)
  BY <1>5, <1>6, <1>9 DEF Collects
<1>12. CASE cut = {}
  <2>1. SubSeq(q, 1, n) = q
    BY SubSeqFull
  <2>2. x = q
    BY <1>9, <1>12, <2>1, Zenon
  <2>3. WithoutNoise(q, ts) = q
    BY <1>12, Zenon DEF WithoutNoise, cut
  <2>4. QED
    BY <1>10, <2>2, <2>3, Zenon DEF remove_br_noise, Cleaned, ts
<1>13. CASE cut # {}
  <2>1. x # q
    <3>1. \E i \in cut : i <= Len(ts)
      BY <1>3, <1>4, <1>13
    <3>2. Len(x) < n
      BY <1>9, <3>1
    <3>3. QED
      BY <1>4, <3>2
  <2>2. WithoutNoise(q, ts) = Join(FlattenSeq(ss))
    BY <1>13, Zenon DEF WithoutNoise, cut, ss, Leave
  <2>3. QED
    BY <1>10, <1>11, <2>1, <2>2, Zenon DEF remove_br_noise, Cleaned, ts
<1>14. QED
  BY <1>12, <1>13

\* "structural removal only removes recognized patterns, never content tokens"
\* (query_parser.rs:150-151): of a query in plain words and the numbers of the table,
\* a word at least, exactly the numbers go, but for a telephone number one symbol too
\* short at the very end.
THEOREM NoiseIsRemoved == Spec => []NoiseRemoved
<1>1. BaseInv /\ QueryInv => NoiseRemoved
  <2> SUFFICES ASSUME BaseInv, QueryInv, phase \in {"vector", "text"},
                      ToCut(Req.q, Tokens(Req.q)) # DOMAIN Tokens(Req.q),
                      \A i \in DOMAIN Tokens(Req.q) :
                        Plain(Tokens(Req.q)[i]) \/ Noise(Tokens(Req.q)[i])
               PROVE  work.q = WithoutNoise(Req.q, Tokens(Req.q))
    BY DEF NoiseRemoved
  <2>0. Tokens(Req.q) # <<>>
    <3>1. DOMAIN << >> = {}
      OBVIOUS
    <3>2. QED
      BY <3>1 DEF ToCut
  <2> DEFINE q == Req.q
             S == Range(q) \cup {Space}
  <2>1. IsText(q)
    <3>1. case \in Cases /\ call \in 1..Len(case.calls)
      BY DEF BaseInv
    <3>2. case.calls \in Seq(Range(case.calls))
      BY <3>1, SearchAssumption
    <3>3. Req \in Range(case.calls)
      BY <3>1, <3>2 DEF Req
    <3>4. QED
      BY <3>1, <3>3, DataAssumption
  <2>2. q \in Seq(S) /\ Space \in S
    BY <2>1, MoreSymbols DEF IsText
  <2>3. work.q = remove_br_noise(q)
    <3>1. work.q = parse(q).q
      BY DEF QueryInv, Finding
    <3>2. QED
      BY <3>1 DEF parse
  <2> HIDE DEF S
  <2>4. remove_br_noise(q) = WithoutNoise(q, Tokens(q))
    BY <2>0, <2>2, NoiseGoes
  <2>5. QED
    BY <2>3, <2>4
<1>2. Init => KeptInv
  BY DEF Init, KeptInv, QueryInv, FoundInv, Finding, Ranked, Editing
<1>3. StableInv /\ KeptInv /\ [Next]_vars => KeptInv'
  BY KeptStep
<1>4. StableInv /\ KeptInv => NoiseRemoved
  BY <1>1 DEF StableInv, KeptInv
<1>5. QED
  BY <1>2, <1>3, <1>4, StoresAreInOrder, PTL DEF Spec

-----------------------------------------------------------------------------
(* Words and the marks between them                                        *)

Solid(S) == Seq(S) \ {<<>>}

\* The last word goes on, or another piece begins.
GoesOn(ts, c) == ts # <<>> /\ c \notin Marks /\ Last(Last(ts)) \notin Marks
NextPiece(ts, c) ==
  IF GoesOn(ts, c) THEN [ts EXCEPT ![Len(ts)] = Append(@, c)] ELSE Append(ts, <<c>>)

LEMMA SolidIs ==
  ASSUME NEW S, NEW ts \in Seq(Solid(S))
  PROVE  /\ Len(ts) \in Nat /\ DOMAIN ts = 1..Len(ts) /\ (ts = <<>> <=> Len(ts) = 0)
         /\ \A j \in 1..Len(ts) : /\ ts[j] \in Solid(S) /\ ts[j] \in Seq(S) /\ Len(ts[j]) \in Nat
                                  /\ Len(ts[j]) > 0
         /\ ts # <<>> => Len(ts) \in 1..Len(ts) /\ Last(ts) = ts[Len(ts)]
<1>1. Len(ts) \in Nat /\ DOMAIN ts = 1..Len(ts) /\ (ts = <<>> <=> Len(ts) = 0)
  OBVIOUS
<1>2. ASSUME NEW j \in 1..Len(ts) PROVE ts[j] \in Solid(S)
  OBVIOUS
<1>3. ASSUME NEW t \in Solid(S) PROVE t \in Seq(S) /\ Len(t) \in Nat /\ Len(t) > 0
  BY EmptySeq DEF Solid
<1>4. QED
  BY <1>1, <1>2, <1>3 DEF Last

LEMMA CutOnIs ==
  ASSUME NEW S, NEW ts \in Seq(Solid(S)), NEW c \in S, GoesOn(ts, c)
  PROVE  LET n == Len(ts) IN
         /\ NextPiece(ts, c) \in Seq(Solid(S)) /\ Len(NextPiece(ts, c)) = n /\ n > 0
         /\ \A j \in 1..n : NextPiece(ts, c)[j] = IF j = n THEN Append(ts[n], c) ELSE ts[j]
<1> DEFINE n == Len(ts)
           x == Append(ts[n], c)
<1>1. n \in Nat /\ n \in 1..Len(ts) /\ n > 0 /\ ts[n] \in Seq(S)
  BY SolidIs DEF GoesOn
<1>2. x \in Seq(S) /\ x # <<>>
  BY <1>1, AppendProperties
<1>3. x \in Solid(S)
  BY <1>2 DEF Solid
<1> DEFINE r == [ts EXCEPT ![n] = x]
<1>4. r \in Seq(Solid(S)) /\ Len(r) = n /\ \A j \in 1..n : r[j] = IF j = n THEN x ELSE ts[j]
  <2> HIDE DEF x
  <2>1. QED
    BY <1>1, <1>3, ExceptSeq
<1>5. NextPiece(ts, c) = r
  BY DEF NextPiece
<1> HIDE DEF r
<1>6. QED
  BY <1>1, <1>4, <1>5

LEMMA CutOffIs ==
  ASSUME NEW S, NEW ts \in Seq(Solid(S)), NEW c \in S, ~ GoesOn(ts, c)
  PROVE  LET n == Len(ts) IN
         /\ NextPiece(ts, c) \in Seq(Solid(S)) /\ Len(NextPiece(ts, c)) = n + 1
         /\ \A j \in 1..n : NextPiece(ts, c)[j] = ts[j]
         /\ NextPiece(ts, c)[n + 1] = <<c>>
<1> DEFINE x == <<c>>
<1>1. x \in Solid(S)
  BY DEF Solid
<1>2. NextPiece(ts, c) = Append(ts, x)
  BY DEF NextPiece
<1> HIDE DEF x
<1>3. QED
  <2>1. x = <<c>>
    BY DEF x
  <2>2. QED
    BY <1>1, <1>2, <2>1, AppendProperties, SolidIs

LEMMA NextPieceIs ==
  ASSUME NEW S, NEW ts \in Seq(Solid(S)), NEW c \in S
  PROVE  /\ NextPiece(ts, c) \in Seq(Solid(S)) /\ NextPiece(ts, c) # <<>>
         /\ Last(Last(NextPiece(ts, c))) = c
<1> DEFINE r == NextPiece(ts, c)
<1>1. CASE GoesOn(ts, c)
  <2> DEFINE n == Len(ts)
             x == Append(ts[n], c)
  <2>0. n \in Nat
    BY SolidIs
  <2>1. r \in Seq(Solid(S)) /\ Len(r) = n /\ n > 0 /\ r[n] = x
    <3>1. /\ r \in Seq(Solid(S)) /\ Len(r) = n /\ n > 0
          /\ \A j \in 1..n : r[j] = IF j = n THEN x ELSE ts[j]
      BY <1>1, CutOnIs
    <3> HIDE DEF r, x, n
    <3>2. QED
      BY <2>0, <3>1
  <2>2. r # <<>> /\ Last(r) = x
    <3> HIDE DEF r, x, n
    <3>1. QED
      BY <2>0, <2>1, SolidIs
  <2>3. ts[n] \in Seq(S)
    BY <2>0, <2>1, SolidIs
  <2>4. Last(x) = c
    BY <2>3, AppendProperties DEF Last
  <2> HIDE DEF r, n, x
  <2>5. QED
    BY <2>1, <2>2, <2>4 DEF r
<1>2. CASE ~ GoesOn(ts, c)
  <2> DEFINE n == Len(ts)
  <2>1. r \in Seq(Solid(S)) /\ Len(r) = n + 1 /\ n \in Nat /\ r[n + 1] = <<c>>
    BY <1>2, CutOffIs, SolidIs
  <2>2. r # <<>> /\ Last(r) = <<c>>
    <3> DEFINE x == <<c>>
    <3>1. r[n + 1] = x
      BY <2>1
    <3> HIDE DEF r, x, n
    <3>2. r # <<>> /\ Last(r) = x
      BY <2>1, <3>1, SolidIs
    <3>3. QED
      BY <3>2 DEF x
  <2>3. Last(<<c>>) = c
    BY DEF Last
  <2> HIDE DEF r, n
  <2>4. QED
    BY <2>1, <2>2, <2>3 DEF r
<1>3. QED
  BY <1>1, <1>2

\* The pieces are cut one symbol at a time.
LEMMA PiecesFold ==
  ASSUME NEW S, NEW q \in Seq(S)
  PROVE  \E h : /\ Pieces(q) = h[1..Len(q)]
                /\ \A T \in SUBSET (1..Len(q)) :
                     h[T] = IF T = {} THEN <<>> ELSE NextPiece(h[T \ {Max(T)}], q[Max(T)])
<1> DEFINE n == Len(q)
           A == Seq(Solid(S))
           F == [z \in A \X S |-> NextPiece(z[1], z[2])]
<1>1. n \in Nat /\ q \in [1..n -> S] /\ DOMAIN q = 1..n
  OBVIOUS
<1>2. \A ts \in A, c \in S : NextPiece(ts, c) \in A
  BY NextPieceIs
<1>3. F \in [A \X S -> A] /\ <<>> \in A
  BY <1>2, EmptySeq
<1> HIDE DEF A, n
<1>4. PICK g \in [SUBSET (1..n) -> A] : Solves(g, F, <<>>, q, n)
  <2> HIDE DEF F
  <2>1. QED
    BY <1>1, <1>3, FoldExists
<1>5. ASSUME NEW T \in SUBSET (1..n)
      PROVE  g[T] = IF T = {} THEN <<>> ELSE NextPiece(g[T \ {Max(T)}], q[Max(T)])
  <2>1. T # {} => Max(T) \in 1..n
    BY <1>1, GreatestIs DEF HasGreatest
  <2>2. T \ {Max(T)} \in SUBSET (1..n)
    OBVIOUS
  <2>3. T # {} => <<g[T \ {Max(T)}], q[Max(T)]>> \in A \X S
    BY <1>1, <2>1, <2>2
  <2>4. T # {} => F[<<g[T \ {Max(T)}], q[Max(T)]>>] = NextPiece(g[T \ {Max(T)}], q[Max(T)])
    BY <2>3
  <2> HIDE DEF F
  <2>5. QED
    BY <1>4, <2>4 DEF Solves
<1> DEFINE Step(ts, c) ==
             IF ts # <<>> /\ c \notin Marks /\ Last(Last(ts)) \notin Marks
             THEN [ts EXCEPT ![Len(ts)] = Append(@, c)] ELSE Append(ts, <<c>>)
           Equation(h) ==
             h = [T \in SUBSET DOMAIN q |->
                    IF T = {} THEN <<>> ELSE Step(h[T \ {Max(T)}], q[Max(T)])]
<1> HIDE DEF F
<1>8. Equation(g)
  BY <1>1, <1>5 DEF NextPiece, GoesOn
<1>9. PICK h : Equation(h) /\ Pieces(q) = h[DOMAIN q]
  <2>1. \E h : Equation(h) /\ Pieces(q) = h[DOMAIN q]
    BY <1>8 DEF Pieces, FoldLeft, MapThenFoldSet
  <2>2. QED
    BY <2>1
<1>10. Pieces(q) = h[1..n]
  BY <1>1, <1>9
<1>11. \A T \in SUBSET (1..n) :
         h[T] = IF T = {} THEN <<>> ELSE NextPiece(h[T \ {Max(T)}], q[Max(T)])
  BY ZenonT(40), <1>1, <1>9 DEF NextPiece, GoesOn
<1>12. QED
  BY <1>10, <1>11 DEF n

\* c has the pieces of every beginning of q.
Cutting(c, q, S) ==
  /\ c[0] = <<>> /\ c[Len(q)] = Pieces(q)
  /\ \A m \in 1..Len(q) : c[m] = NextPiece(c[m - 1], q[m])
  /\ \A m \in 0..Len(q) : c[m] \in Seq(Solid(S))

LEMMA PiecesAre ==
  ASSUME NEW S, NEW q \in Seq(S)
  PROVE  \E c : Cutting(c, q, S)
<1> DEFINE n == Len(q)
<1>1. n \in Nat /\ \A m \in 1..n : q[m] \in S
  OBVIOUS
<1>2. PICK h : /\ Pieces(q) = h[1..n]
               /\ \A T \in SUBSET (1..n) :
                    h[T] = IF T = {} THEN <<>> ELSE NextPiece(h[T \ {Max(T)}], q[Max(T)])
  BY PiecesFold
<1> DEFINE c == [m \in 0..n |-> h[1..m]]
<1>3. c[0] = <<>>
  <2>1. c[0] = h[1..0]
    BY <1>1
  <2>2. h[{}] = <<>>
    BY <1>2
  <2>3. QED
    BY <2>1, <2>2, NoPrefix, Zenon
<1>4. ASSUME NEW m \in 1..n PROVE c[m] = NextPiece(c[m - 1], q[m])
  <2> HIDE DEF n
  <2>1. h[1..m] = NextPiece(h[1..(m - 1)], q[m])
    BY <1>1, <1>2, PrefixIs
  <2>2. m \in 0..n /\ m - 1 \in 0..n
    BY <1>1
  <2>3. QED
    BY <2>1, <2>2
<1>5. c[n] = Pieces(q)
  BY <1>1, <1>2
<1> HIDE DEF c, n
<1> DEFINE P == {m \in 0..n : c[m] \in Seq(Solid(S))}
<1>6. 0 \in P
  <2>1. c[0] \in Seq(Solid(S))
    BY <1>3, EmptySeq
  <2>2. QED
    BY <1>1, <2>1
<1>7. ASSUME NEW m \in 1..n, m - 1 \in P PROVE m \in P
  <2>1. c[m - 1] \in Seq(Solid(S))
    BY <1>7
  <2>2. c[m] \in Seq(Solid(S))
    BY <1>1, <1>4, <2>1, NextPieceIs
  <2>3. QED
    BY <1>1, <2>2
<1> HIDE DEF P
<1>8. \A m \in 1..n : m - 1 \in P => m \in P
  BY <1>7
<1>9. \A m \in 0..n : m \in P
  BY <1>1, <1>6, <1>8, UpTo
<1>10. \A m \in 0..n : c[m] \in Seq(Solid(S))
  BY <1>9 DEF P
<1>11. Cutting(c, q, S)
  BY <1>3, <1>4, <1>5, <1>10 DEF Cutting, n
<1>12. QED
  BY <1>11

\* The last piece ends where the beginning does.
LEMMA CuttingIs ==
  ASSUME NEW S, NEW q \in Seq(S), NEW c, Cutting(c, q, S), NEW m \in 1..Len(q)
  PROVE  /\ m - 1 \in 0..Len(q) /\ q[m] \in S
         /\ c[m] = NextPiece(c[m - 1], q[m]) /\ c[m - 1] \in Seq(Solid(S))
         /\ c[m] \in Seq(Solid(S)) /\ c[m] # <<>> /\ Last(Last(c[m])) = q[m]
<1>1. m - 1 \in 0..Len(q) /\ m \in 0..Len(q) /\ q[m] \in S
  OBVIOUS
<1>2. c[m] = NextPiece(c[m - 1], q[m]) /\ c[m - 1] \in Seq(Solid(S)) /\ c[m] \in Seq(Solid(S))
  BY <1>1 DEF Cutting
<1>3. NextPiece(c[m - 1], q[m]) # <<>> /\ Last(Last(NextPiece(c[m - 1], q[m]))) = q[m]
  BY <1>1, <1>2, NextPieceIs
<1>4. c[m] # <<>> /\ Last(Last(c[m])) = q[m]
  BY <1>2, <1>3, Zenon
<1>5. QED
  BY <1>1, <1>2, <1>4

\* There is no word across this place.
Gap(q, a) == a = 0 \/ a = Len(q) \/ q[a] \in Marks \/ q[a + 1] \in Marks

LEMMA GapBegins ==
  ASSUME NEW S, NEW q \in Seq(S), NEW c, Cutting(c, q, S), NEW m \in 1..Len(q)
  PROVE  GoesOn(c[m - 1], q[m]) <=> ~ Gap(q, m - 1)
<1>1. CASE m = 1
  BY <1>1 DEF Cutting, Gap, GoesOn
<1>2. CASE m # 1
  <2>1. m - 1 \in 1..Len(q) /\ m - 1 # 0 /\ m - 1 # Len(q) /\ (m - 1) + 1 = m
    BY <1>2
  <2>2. c[m - 1] # <<>> /\ Last(Last(c[m - 1])) = q[m - 1]
    BY <2>1, CuttingIs
  <2>3. QED
    BY <2>1, <2>2 DEF Gap, GoesOn
<1>3. QED
  BY <1>1, <1>2

\* Where B follows A, so does B with another symbol.
LEMMA CutBehind ==
  ASSUME NEW S, NEW A \in Seq(Solid(S)), NEW B \in Seq(Solid(S)), NEW C \in Seq(Solid(S)),
         Behind(Solid(S), A, B, C), NEW x \in S,
         GoesOn(B, x) <=> GoesOn(C, x)
  PROVE  Behind(Solid(S), A, NextPiece(B, x), NextPiece(C, x))
<1> DEFINE a == Len(A)
           b == Len(B)
           n == Len(C)
           R == NextPiece(B, x)
           T == NextPiece(C, x)
<1>1. a \in Nat /\ b \in Nat /\ n = a + b
  BY SolidIs DEF Behind
<1>2. \A j \in 1..n : C[j] = IF j <= a THEN A[j] ELSE B[j - a]
  BY <1>1 DEF Behind
<1>3. T \in Seq(Solid(S)) /\ DOMAIN T = 1..Len(T)
  BY NextPieceIs, SolidIs
<1>4. CASE GoesOn(B, x)
  <2>1. /\ Len(R) = b /\ b > 0
        /\ \A j \in 1..b : R[j] = IF j = b THEN Append(B[b], x) ELSE B[j]
    BY <1>4, CutOnIs
  <2>2. /\ Len(T) = n
        /\ \A j \in 1..n : T[j] = IF j = n THEN Append(C[n], x) ELSE C[j]
    BY <1>4, CutOnIs
  <2> HIDE DEF R, T, a, b, n
  <2>3. C[n] = B[b]
    BY <1>1, <1>2, <2>1
  <2>4. ASSUME NEW j \in 1..n PROVE T[j] = IF j <= a THEN A[j] ELSE R[j - a]
    <3>1. CASE j <= a
      <4>1. j # n
        BY <1>1, <2>1, <3>1
      <4>2. QED
        BY <1>2, <2>2, <3>1, <4>1
    <3>2. CASE ~ (j <= a)
      <4>1. j - a \in 1..b /\ (j - a = b <=> j = n)
        BY <1>1, <3>2
      <4>2. QED
        BY <1>2, <2>1, <2>2, <2>3, <3>2, <4>1
    <3>3. QED
      BY <3>1, <3>2
  <2>5. QED
    BY <1>1, <1>3, <2>1, <2>2, <2>4 DEF Behind, a, R, T
<1>5. CASE ~ GoesOn(B, x)
  <2>1. Len(R) = b + 1 /\ (\A j \in 1..b : R[j] = B[j]) /\ R[b + 1] = <<x>>
    BY <1>5, CutOffIs
  <2>2. Len(T) = n + 1 /\ (\A j \in 1..n : T[j] = C[j]) /\ T[n + 1] = <<x>>
    BY <1>5, CutOffIs
  <2> DEFINE y == <<x>>
  <2>3. R[b + 1] = y /\ T[n + 1] = y
    BY <2>1, <2>2
  <2> HIDE DEF R, T, a, b, n, y
  <2>4. ASSUME NEW j \in 1..(n + 1) PROVE T[j] = IF j <= a THEN A[j] ELSE R[j - a]
    <3>1. CASE j = n + 1
      BY <1>1, <2>3, <3>1
    <3>2. CASE j # n + 1
      <4>1. j \in 1..n /\ (~ (j <= a) => j - a \in 1..b)
        BY <1>1, <3>2
      <4>2. QED
        BY <1>2, <2>1, <2>2, <4>1
    <3>3. QED
      BY <3>1, <3>2
  <2>5. QED
    BY <1>1, <1>3, <2>1, <2>2, <2>4 DEF Behind, a, R, T
<1>6. QED
  BY <1>4, <1>5

\* The pieces of what stands behind a gap stand behind the pieces before it.
LEMMA PiecesBehind ==
  ASSUME NEW S, NEW q \in Seq(S), NEW c, Cutting(c, q, S), NEW z \in Seq(S), NEW d,
         Cutting(d, z, S), NEW a \in 0..Len(q), Gap(q, a), a + Len(z) <= Len(q),
         \A j \in 1..Len(z) : z[j] = q[a + j]
  PROVE  Behind(Solid(S), c[a], Pieces(z), c[a + Len(z)])
<1> DEFINE n == Len(z)
           P == {m \in 0..n : Behind(Solid(S), c[a], d[m], c[a + m])}
<1>1. n \in Nat /\ a \in Nat /\ Len(q) \in Nat
  OBVIOUS
<1>2. c[a] \in Seq(Solid(S)) /\ d[0] = <<>> /\ d[n] = Pieces(z)
  BY DEF Cutting
<1>3. 0 \in P
  <2>1. Behind(Solid(S), c[a], <<>>, c[a])
    <3> DEFINE A == c[a]
    <3> HIDE DEF A
    <3>1. A \in Seq(Solid(S)) => Behind(Solid(S), A, <<>>, A)
      BY DEF Behind
    <3>2. QED
      BY <1>2, <3>1 DEF A
  <2>2. a + 0 = a /\ 0 \in 0..n
    BY <1>1
  <2>3. QED
    BY <1>2, <2>1, <2>2
<1>4. ASSUME NEW m \in 1..n, m - 1 \in P PROVE m \in P
  <2>1. a + m \in 1..Len(q) /\ (a + m) - 1 = a + (m - 1) /\ m \in 1..Len(z)
    BY <1>1
  <2>2. /\ c[a + m] = NextPiece(c[a + (m - 1)], q[a + m]) /\ c[a + (m - 1)] \in Seq(Solid(S))
        /\ q[a + m] \in S
    BY <2>1, CuttingIs
  <2>3. d[m] = NextPiece(d[m - 1], q[a + m]) /\ d[m - 1] \in Seq(Solid(S)) /\ z[m] = q[a + m]
    <3>1. z[m] = q[a + m]
      BY <2>1
    <3>2. d[m] = NextPiece(d[m - 1], z[m]) /\ d[m - 1] \in Seq(Solid(S))
      BY <2>1, CuttingIs
    <3>3. QED
      BY <3>1, <3>2, Zenon
  <2>4. GoesOn(c[a + (m - 1)], q[a + m]) <=> ~ Gap(q, a + (m - 1))
    BY <2>1, GapBegins
  <2>5. GoesOn(d[m - 1], q[a + m]) <=> ~ Gap(z, m - 1)
    BY <2>1, <2>3, GapBegins
  <2>6. Gap(q, a + (m - 1)) <=> Gap(z, m - 1)
    <3>1. CASE m = 1
      BY <1>1, <3>1 DEF Gap
    <3>2. CASE m # 1
      <4>1. /\ m - 1 \in 1..n /\ m - 1 # 0 /\ m - 1 # Len(z) /\ a + (m - 1) # 0
            /\ a + (m - 1) # Len(q) /\ (m - 1) + 1 = m /\ (a + (m - 1)) + 1 = a + m
        BY <1>1, <2>1, <3>2
      <4>2. z[m - 1] = q[a + (m - 1)] /\ z[m] = q[a + m]
        BY <2>1, <4>1
      <4>3. QED
        BY <4>1, <4>2 DEF Gap
    <3>3. QED
      BY <3>1, <3>2
  <2>7. Behind(Solid(S), c[a], d[m - 1], c[a + (m - 1)])
    BY <1>4
  <2>8. Behind(Solid(S), c[a], d[m], c[a + m])
    BY <1>2, <2>2, <2>3, <2>4, <2>5, <2>6, <2>7, CutBehind
  <2>9. QED
    BY <1>1, <2>8
<1> HIDE DEF P
<1>5. \A m \in 1..n : m - 1 \in P => m \in P
  BY <1>4
<1>6. n \in P
  <2> HIDE DEF n
  <2>1. \A m \in 0..n : m \in P
    BY <1>1, <1>3, <1>5, UpTo
  <2>2. QED
    BY <1>1, <2>1
<1>7. QED
  BY <1>2, <1>6 DEF P

\* A word that goes on has several symbols.
LEMMA WordGoesOn ==
  ASSUME NEW S, NEW ts \in Seq(Solid(S)), NEW c \in S, GoesOn(ts, c)
  PROVE  \E p \in Seq(S) : LET n == Len(ts) IN
           /\ n \in Nat /\ n > 0 /\ ts[n] = p /\ NextPiece(ts, c)[n] = Append(p, c)
           /\ Len(Append(p, c)) > 1
<1> DEFINE n == Len(ts)
           p == ts[n]
           x == Append(p, c)
           R == NextPiece(ts, c)
<1>1. n \in Nat /\ n > 0 /\ \A j \in 1..n : R[j] = IF j = n THEN x ELSE ts[j]
  BY CutOnIs, SolidIs
<1>2. n \in 1..Len(ts)
  BY <1>1
<1>3. p \in Seq(S) /\ Len(p) \in Nat /\ Len(p) > 0
  BY <1>2, SolidIs
<1>4. R[n] = x
  <2> HIDE DEF R, x, n
  <2>1. QED
    BY <1>1
<1> HIDE DEF R, n, p
<1>5. Len(x) > 1
  BY <1>3
<1>6. QED
  BY <1>1, <1>3, <1>4, <1>5 DEF R, n, p

\* What was cut last can be told from the pieces.
LEMMA CutOnce ==
  ASSUME NEW S, NEW ts \in Seq(Solid(S)), NEW us \in Seq(Solid(S)), NEW x \in S, NEW y \in S,
         NextPiece(ts, x) = NextPiece(us, y)
  PROVE  ts = us /\ x = y
<1> DEFINE R == NextPiece(ts, x)
           T == NextPiece(us, y)
           m == Len(ts)
           n == Len(us)
<1>1. m \in Nat /\ n \in Nat
  BY SolidIs
<1>2. R = T /\ Last(Last(R)) = x /\ Last(Last(T)) = y
  BY NextPieceIs
<1>3. x = y
  BY <1>2, Zenon
<1>4. CASE GoesOn(ts, x)
  <2>1. /\ Len(R) = m /\ m > 0
        /\ \A j \in 1..m : R[j] = IF j = m THEN Append(ts[m], x) ELSE ts[j]
    BY <1>4, CutOnIs
  <2>2. PICK p \in Seq(S) : ts[m] = p /\ R[m] = Append(p, x) /\ Len(Append(p, x)) > 1
    BY <1>4, WordGoesOn
  <2>3. Len(R[m]) > 1
    BY <2>2, Zenon
  <2>4. GoesOn(us, y)
    <3> SUFFICES ASSUME ~ GoesOn(us, y) PROVE FALSE
      OBVIOUS
    <3>1. Len(T) = n + 1 /\ T[n + 1] = <<y>>
      BY CutOffIs
    <3>2. Len(<<y>>) = 1
      OBVIOUS
    <3> HIDE DEF R, T, m, n
    <3>3. R[m] = <<y>>
      BY <1>1, <1>2, <2>1, <3>1
    <3>4. QED
      BY <2>3, <3>2, <3>3
  <2>5. /\ Len(T) = n /\ n > 0
        /\ \A j \in 1..n : T[j] = IF j = n THEN Append(us[n], y) ELSE us[j]
    BY <2>4, CutOnIs
  <2>6. PICK r \in Seq(S) : us[n] = r /\ T[n] = Append(r, y)
    BY <2>4, WordGoesOn
  <2>7. m = n
    <3> HIDE DEF R, T, m, n
    <3>1. QED
      BY <1>2, <2>1, <2>5
  <2>8. Append(p, x) = Append(r, y)
    BY <1>2, <2>2, <2>6, <2>7, Zenon
  <2>9. ts[m] = us[n]
    <3>1. p = r
      BY <2>8, AppendInjective
    <3>2. QED
      BY <2>2, <2>6, <3>1
  <2>10. \A j \in 1..m : ts[j] = us[j]
    <3> HIDE DEF R, T, m, n
    <3>1. ASSUME NEW j \in 1..m, j # m PROVE ts[j] = us[j]
      BY <1>2, <2>1, <2>5, <2>7, <3>1
    <3>2. QED
      BY <2>7, <2>9, <3>1
  <2>11. ts = us
    BY <2>7, <2>10, SeqEqual
  <2>12. QED
    BY <1>3, <2>11
<1>5. CASE ~ GoesOn(ts, x)
  <2>1. Len(R) = m + 1 /\ (\A j \in 1..m : R[j] = ts[j]) /\ R[m + 1] = <<x>>
    BY <1>5, CutOffIs
  <2>2. ~ GoesOn(us, y)
    <3> SUFFICES ASSUME GoesOn(us, y) PROVE FALSE
      OBVIOUS
    <3>1. /\ Len(T) = n /\ n > 0
          /\ \A j \in 1..n : T[j] = IF j = n THEN Append(us[n], y) ELSE us[j]
      BY CutOnIs
    <3>2. PICK p \in Seq(S) : T[n] = Append(p, y) /\ Len(Append(p, y)) > 1
      BY WordGoesOn
    <3>3. Len(T[n]) > 1
      BY <3>2, Zenon
    <3>4. Len(<<x>>) = 1
      OBVIOUS
    <3> HIDE DEF R, T, m, n
    <3>5. T[n] = <<x>>
      BY <1>1, <1>2, <2>1, <3>1
    <3>6. QED
      BY <3>3, <3>4, <3>5
  <2>3. Len(T) = n + 1 /\ (\A j \in 1..n : T[j] = us[j])
    BY <2>2, CutOffIs
  <2>4. m = n /\ \A j \in 1..m : ts[j] = us[j]
    <3> HIDE DEF R, T, m, n
    <3>1. QED
      BY <1>1, <1>2, <2>1, <2>3
  <2>5. ts = us
    BY <2>4, SeqEqual
  <2>6. QED
    BY <1>3, <2>5
<1>6. QED
  BY <1>4, <1>5

\* A text can be told from its pieces.
LEMMA SamePieces ==
  ASSUME NEW S, NEW y \in Seq(S), NEW z \in Seq(S), Pieces(y) = Pieces(z)
  PROVE  y = z
<1> DEFINE m == Len(y)
           n == Len(z)
<1>1. PICK c : Cutting(c, y, S)
  BY PiecesAre
<1>2. PICK d : Cutting(d, z, S)
  BY PiecesAre
<1>3. m \in Nat /\ n \in Nat
  OBVIOUS
<1> DEFINE Same(i) == \A k \in 0..n : c[i] = d[k] => i = k /\ \A j \in 1..i : y[j] = z[j]
           P == {i \in 0..m : Same(i)}
<1>4. 0 \in P
  <2>1. ASSUME NEW k \in 0..n, c[0] = d[k] PROVE k = 0
    <3>1. k # 0 => k \in 1..Len(z)
      BY <1>3
    <3>2. k # 0 => d[k] # <<>>
      BY <1>2, <3>1, CuttingIs
    <3>3. c[0] = <<>>
      BY <1>1 DEF Cutting
    <3>4. QED
      BY <2>1, <3>2, <3>3
  <2>2. Same(0)
    BY <2>1
  <2>3. QED
    BY <1>3, <2>2
<1>5. ASSUME NEW i \in 1..m, i - 1 \in P PROVE i \in P
  <2>1. Same(i - 1)
    BY <1>5
  <2>2. ASSUME NEW k \in 0..n, c[i] = d[k]
        PROVE  i = k /\ \A j \in 1..i : y[j] = z[j]
    <3>1. /\ c[i] # <<>> /\ c[i] = NextPiece(c[i - 1], y[i]) /\ c[i - 1] \in Seq(Solid(S))
          /\ y[i] \in S
      BY <1>1, CuttingIs
    <3>2. k # 0
      BY <1>2, <2>2, <3>1 DEF Cutting
    <3>3. k \in 1..Len(z) /\ k - 1 \in 0..n
      BY <1>3, <3>2
    <3>4. d[k] = NextPiece(d[k - 1], z[k]) /\ d[k - 1] \in Seq(Solid(S)) /\ z[k] \in S
      BY <1>2, <3>3, CuttingIs
    <3>5. c[i - 1] = d[k - 1] /\ y[i] = z[k]
      <4>1. NextPiece(c[i - 1], y[i]) = NextPiece(d[k - 1], z[k])
        BY <2>2, <3>1, <3>4, Zenon
      <4>2. QED
        BY <3>1, <3>4, <4>1, CutOnce
    <3>6. i - 1 = k - 1 /\ \A j \in 1..(i - 1) : y[j] = z[j]
      BY <2>1, <3>3, <3>5
    <3>7. i = k
      BY <1>3, <3>3, <3>6
    <3>8. ASSUME NEW j \in 1..i PROVE y[j] = z[j]
      BY <1>3, <3>5, <3>6, <3>7
    <3>9. QED
      BY <3>7, <3>8
  <2>3. Same(i)
    BY <2>2
  <2>4. QED
    BY <1>3, <2>3
<1> HIDE DEF P
<1>6. \A i \in 1..m : i - 1 \in P => i \in P
  BY <1>5
<1>7. m \in P
  <2> HIDE DEF m
  <2>1. \A i \in 0..m : i \in P
    BY <1>3, <1>4, <1>6, UpTo
  <2>2. QED
    BY <1>3, <2>1
<1>8. Same(m)
  BY <1>7 DEF P
<1>9. c[m] = d[n] /\ n \in 0..n
  BY <1>1, <1>2, <1>3 DEF Cutting
<1>10. m = n /\ \A j \in 1..m : y[j] = z[j]
  BY <1>8, <1>9
<1>11. QED
  BY <1>10, SeqEqual

\* So many pieces end at some gap.
LEMMA GapAt ==
  ASSUME NEW S, NEW q \in Seq(S), NEW c, Cutting(c, q, S), NEW k \in 0..Len(Pieces(q))
  PROVE  \E a \in 0..Len(q) : Gap(q, a) /\ Len(c[a]) = k
<1> DEFINE n == Len(q)
           Reached(m) == \A l \in 0..Len(c[m]) :
             \E a \in 0..m : Len(c[a]) = l /\ (a # m => Gap(q, a))
           P == {m \in 0..n : Reached(m)}
<1>1. n \in Nat
  OBVIOUS
<1>2. 0 \in P
  <2>1. Len(c[0]) = 0
    BY DEF Cutting
  <2>2. Reached(0)
    BY <2>1
  <2>3. QED
    BY <1>1, <2>2
<1>3. ASSUME NEW m \in 1..n, m - 1 \in P PROVE m \in P
  <2>1. Reached(m - 1)
    BY <1>3
  <2>2. /\ m - 1 \in 0..n /\ q[m] \in S /\ c[m] = NextPiece(c[m - 1], q[m])
        /\ c[m - 1] \in Seq(Solid(S)) /\ c[m] \in Seq(Solid(S))
        /\ GoesOn(c[m - 1], q[m]) <=> ~ Gap(q, m - 1)
    BY CuttingIs, GapBegins
  <2>3. Len(c[m - 1]) \in Nat /\ Len(c[m]) \in Nat
    BY <2>2, SolidIs
  <2>4. Len(NextPiece(c[m - 1], q[m]))
          = IF GoesOn(c[m - 1], q[m]) THEN Len(c[m - 1]) ELSE Len(c[m - 1]) + 1
    BY <2>2, CutOnIs, CutOffIs
  <2>5. Len(c[m]) = IF Gap(q, m - 1) THEN Len(c[m - 1]) + 1 ELSE Len(c[m - 1])
    BY <2>2, <2>4, Zenon
  <2>6. ASSUME NEW l \in 0..Len(c[m])
        PROVE  \E a \in 0..m : Len(c[a]) = l /\ (a # m => Gap(q, a))
    <3>1. CASE l = Len(c[m])
      <4>1. m \in 0..m
        BY <1>1
      <4>2. QED
        BY <3>1, <4>1
    <3>2. CASE l # Len(c[m])
      <4>1. l \in 0..Len(c[m - 1]) /\ (~ Gap(q, m - 1) => l # Len(c[m - 1]))
        BY <2>3, <2>5, <3>2
      <4>2. PICK a \in 0..(m - 1) : Len(c[a]) = l /\ (a # m - 1 => Gap(q, a))
        BY <2>1, <4>1
      <4>3. Gap(q, a)
        BY <4>1, <4>2
      <4>4. a \in 0..m
        BY <1>1
      <4>5. QED
        BY <4>2, <4>3, <4>4
    <3>3. QED
      BY <3>1, <3>2
  <2>7. Reached(m)
    BY <2>6
  <2>8. QED
    BY <1>1, <2>7
<1> HIDE DEF P
<1>4. \A m \in 1..n : m - 1 \in P => m \in P
  BY <1>3
<1>5. n \in P
  <2> HIDE DEF n
  <2>1. \A m \in 0..n : m \in P
    BY <1>1, <1>2, <1>4, UpTo
  <2>2. QED
    BY <1>1, <2>1
<1>6. Reached(n)
  BY <1>5 DEF P
<1>7. c[n] = Pieces(q) /\ Gap(q, n)
  BY DEF Cutting, Gap
<1>8. PICK a \in 0..n : Len(c[a]) = k /\ (a # n => Gap(q, a))
  BY <1>6, <1>7
<1>9. QED
  BY <1>7, <1>8

LEMMA OccursIs ==
  ASSUME NEW U, NEW s \in Seq(U), NEW q \in Seq(U), NEW i \in 1..Len(q)
  PROVE  i \in Occurrences(s, q)
           <=> i + Len(s) - 1 <= Len(q) /\ \A j \in 1..Len(s) : q[i + j - 1] = s[j]
<1> DEFINE n == Len(s)
           e == i + n - 1
           t == SubSeq(q, i, e)
<1>1. n \in Nat /\ Len(q) \in Nat /\ i \in Nat /\ e \in Int /\ i <= e + 1 /\ e - i + 1 = n
  OBVIOUS
<1>2. e <= Len(q) => t \in Seq(U) /\ Len(t) = n /\ \A j \in 1..n : t[j] = q[i + j - 1]
  <2> SUFFICES ASSUME e <= Len(q)
               PROVE  t \in Seq(U) /\ Len(t) = n /\ \A j \in 1..n : t[j] = q[i + j - 1]
    OBVIOUS
  <2>1. \A j \in i..e : q[j] \in U
    BY <1>1
  <2>2. /\ t \in Seq(U) /\ Len(t) = IF i <= e THEN e - i + 1 ELSE 0
        /\ \A j \in 1..(e - i + 1) : t[j] = q[i + j - 1]
    <3> HIDE DEF n, e
    <3>1. QED
      BY <1>1, <2>1, SubSeqProperties
  <2> HIDE DEF t, n, e
  <2>3. QED
    BY <1>1, <2>2
<1> HIDE DEF t
<1>3. e <= Len(q) => (t = s <=> \A j \in 1..n : q[i + j - 1] = s[j])
  <2> SUFFICES ASSUME e <= Len(q) PROVE t = s <=> \A j \in 1..n : q[i + j - 1] = s[j]
    OBVIOUS
  <2>1. t \in Seq(U) /\ Len(t) = n /\ \A j \in 1..n : t[j] = q[i + j - 1]
    BY <1>2
  <2>2. (\A j \in 1..n : t[j] = s[j]) => t = s
    BY <2>1, SeqEqual
  <2>3. QED
    BY <2>1, <2>2
<1>4. QED
  BY <1>3 DEF Occurrences, OccursAt, t

\* A place that the byte test finds free, in letters that it knows.
LEMMA FreeIs ==
  ASSUME NEW S, NEW q \in Seq(S), Range(q) \cap (StartOpen \cup EndOpen) = {},
         NEW i \in 1..(Len(q) + 1)
  PROVE  /\ FreeBefore(q, i) <=> i = 1 \/ q[i - 1] \in Marks
         /\ FreeAfter(q, i) <=> i = Len(q) + 1 \/ q[i] \in Marks
<1>1. \A j \in 1..Len(q) : q[j] \notin StartOpen \cup EndOpen
  BY DEF Range
<1>2. i # 1 => i - 1 \in 1..Len(q)
  OBVIOUS
<1>3. (i > Len(q) <=> i = Len(q) + 1) /\ (i # Len(q) + 1 => i \in 1..Len(q))
  OBVIOUS
<1>4. i # 1 => (~ JoinsBefore(q[i - 1]) <=> q[i - 1] \in Marks)
  BY <1>1, <1>2 DEF JoinsBefore
<1>5. i # Len(q) + 1 => (~ JoinsAfter(q[i]) <=> q[i] \in Marks)
  BY <1>1, <1>3 DEF JoinsAfter
<1>6. QED
  BY <1>3, <1>4, <1>5 DEF FreeBefore, FreeAfter

\* From place k on, R stands in the pieces P, of which l stand before its end.
StandsIn(P, R, k, l, U) ==
  /\ P \in Seq(U) /\ R \in Seq(U) /\ k \in Nat /\ l = k + Len(R) /\ k + Len(R) <= Len(P)
  /\ \A j \in 1..Len(R) : P[k + j] = R[j]

\* Between two gaps of a text stand the pieces of what is between them.
LEMMA PiecesBetween ==
  ASSUME NEW S, NEW q \in Seq(S), NEW c, Cutting(c, q, S), NEW a \in 0..Len(q),
         NEW b \in a..Len(q), Gap(q, a), Gap(q, b), NEW z \in Seq(S), Len(z) = b - a,
         \A j \in 1..Len(z) : z[j] = q[a + j]
  PROVE  StandsIn(Pieces(q), Pieces(z), Len(c[a]), Len(c[b]), Solid(S))
<1> DEFINE P == Pieces(q)
           R == Pieces(z)
           k == Len(c[a])
           n == Len(q)
<1>1. n \in Nat /\ a \in Nat /\ b \in Nat /\ a <= b /\ b <= n /\ a + Len(z) = b
  OBVIOUS
<1>2. PICK d : Cutting(d, z, S)
  BY PiecesAre
<1>3. Behind(Solid(S), c[a], R, c[b])
  BY <1>1, <1>2, PiecesBehind
<1> DEFINE y == SubSeq(q, b + 1, n)
<1>4. y \in Seq(S) /\ b + Len(y) = n /\ \A j \in 1..Len(y) : y[j] = q[b + j]
  <2>1. \A j \in (b + 1)..n : q[j] \in S
    BY <1>1
  <2>2. /\ y \in Seq(S) /\ Len(y) = IF b + 1 <= n THEN n - (b + 1) + 1 ELSE 0
        /\ \A j \in 1..(n - (b + 1) + 1) : y[j] = q[(b + 1) + j - 1]
    <3> HIDE DEF n
    <3>1. QED
      BY <1>1, <2>1, SubSeqProperties
  <2> HIDE DEF y, n
  <2>3. Len(y) = n - b
    BY <1>1, <2>2
  <2>4. ASSUME NEW j \in 1..Len(y) PROVE y[j] = q[b + j]
    <3>1. j \in 1..(n - (b + 1) + 1) /\ (b + 1) + j - 1 = b + j
      BY <1>1, <2>3
    <3>2. y[j] = q[(b + 1) + j - 1]
      BY <2>2, <3>1
    <3>3. QED
      BY <3>1, <3>2
  <2>5. QED
    BY <1>1, <2>2, <2>3, <2>4
<1>5. PICK e : Cutting(e, y, S)
  BY <1>4, PiecesAre
<1>6. Behind(Solid(S), c[b], Pieces(y), c[n])
  <2>1. b \in 0..Len(q) /\ b + Len(y) <= Len(q)
    BY <1>1, <1>4
  <2> HIDE DEF y
  <2>2. Behind(Solid(S), c[b], Pieces(y), c[b + Len(y)])
    BY <1>4, <1>5, <2>1, PiecesBehind
  <2>3. QED
    BY <1>4, <2>2
<1>7. /\ c[a] \in Seq(Solid(S)) /\ c[b] \in Seq(Solid(S)) /\ c[n] = P /\ P \in Seq(Solid(S))
      /\ R \in Seq(Solid(S)) /\ Pieces(y) \in Seq(Solid(S))
  <2>1. a \in 0..n /\ b \in 0..n /\ n \in 0..n
    BY <1>1
  <2>2. c[a] \in Seq(Solid(S)) /\ c[b] \in Seq(Solid(S)) /\ c[n] \in Seq(Solid(S)) /\ c[n] = P
    BY <2>1 DEF Cutting
  <2>3. Len(z) \in 0..Len(z) /\ Len(y) \in 0..Len(y)
    BY <1>4
  <2>4. R \in Seq(Solid(S)) /\ Pieces(y) \in Seq(Solid(S))
    BY <1>2, <1>5, <2>3 DEF Cutting
  <2>5. QED
    BY <2>2, <2>4
<1> DEFINE A == c[a]
           B == c[b]
           Y == Pieces(y)
<1>8. Behind(Solid(S), A, R, B) /\ Behind(Solid(S), B, Y, P)
  BY <1>3, <1>6, <1>7
<1>9. k \in Nat /\ Len(B) \in Nat /\ Len(R) \in Nat /\ Len(Y) \in Nat /\ Len(P) \in Nat
  BY <1>7, SolidIs
<1> HIDE DEF B, Y, P, R, y, n
<1>10. Len(B) = k + Len(R) /\ k + Len(R) <= Len(P)
  BY <1>8, <1>9 DEF Behind
<1>11. ASSUME NEW j \in 1..Len(R) PROVE P[k + j] = R[j]
  <2>1. k + j \in 1..(k + Len(R)) /\ ~ (k + j <= k) /\ (k + j) - k = j
    BY <1>9
  <2>2. B[k + j] = R[j]
    BY <1>8, <2>1 DEF Behind
  <2>3. k + j \in 1..(Len(B) + Len(Y)) /\ k + j <= Len(B)
    BY <1>9, <1>10, <2>1
  <2>4. P[k + j] = B[k + j]
    BY <1>8, <2>3 DEF Behind
  <2>5. QED
    BY <2>2, <2>4
<1>12. QED
  BY <1>7, <1>9, <1>10, <1>11 DEF B, P, R, StandsIn

\* With no mark at its ends, a value that the byte test finds in a text is some of
\* the pieces of the text, and the other way round.
LEMMA MatchIsPieces ==
  ASSUME NEW S, NEW q \in Seq(S), NEW v \in Seq(S), v # <<>>,
         {v[1], Last(v)} \cap Marks = {}, Range(q) \cap (StartOpen \cup EndOpen) = {}
  PROVE  WordBoundaryMatch(q, v) <=> Occurrences(Pieces(v), Pieces(q)) # {}
<1> DEFINE n == Len(q)
           l == Len(v)
           P == Pieces(q)
           V == Pieces(v)
<1>1. n \in Nat /\ l \in Nat /\ l > 0 /\ 1 \in 1..l /\ l \in 1..l
  BY EmptySeq
<1>2. v[1] \notin Marks /\ v[l] \notin Marks
  BY DEF Last
<1>3. PICK c : Cutting(c, q, S)
  BY PiecesAre
<1>4. PICK d : Cutting(d, v, S)
  BY PiecesAre
<1>5. /\ P \in Seq(Solid(S)) /\ V \in Seq(Solid(S)) /\ V # <<>>
      /\ Len(P) \in Nat /\ Len(V) \in Nat /\ Len(V) > 0
  <2>1. n \in 0..n /\ l \in 0..l
    BY <1>1
  <2>2. P \in Seq(Solid(S)) /\ V \in Seq(Solid(S))
    BY <1>3, <1>4, <2>1 DEF Cutting
  <2>3. V # <<>>
    BY <1>1, <1>4, CuttingIs DEF Cutting
  <2>4. QED
    BY <2>2, <2>3, SolidIs
<1>6. ASSUME WordBoundaryMatch(q, v) PROVE Occurrences(V, P) # {}
  <2>1. PICK i \in Occurrences(v, q) : FreeBefore(q, i) /\ FreeAfter(q, i + l)
    BY <1>6 DEF WordBoundaryMatch
  <2>2. /\ i \in 1..n /\ i + l - 1 <= n /\ \A j \in 1..l : q[i + j - 1] = v[j]
    <3>1. i \in 1..n
      BY <2>1 DEF Occurrences
    <3>2. QED
      BY <2>1, <3>1, OccursIs
  <2> DEFINE a == i - 1
             b == a + l
  <2>3. a \in 0..n /\ b \in a..n /\ b - a = l /\ i + l = b + 1
    BY <1>1, <2>2
  <2>4. Gap(q, a)
    <3>1. i \in 1..(n + 1)
      BY <1>1, <2>2
    <3>2. i = 1 \/ q[i - 1] \in Marks
      BY <2>1, <3>1, FreeIs
    <3>3. QED
      BY <3>2, <2>2 DEF Gap
  <2>5. Gap(q, b)
    <3>1. b + 1 \in 1..(n + 1)
      BY <1>1, <2>3
    <3>2. b + 1 = n + 1 \/ q[b + 1] \in Marks
      BY <2>1, <2>3, <3>1, FreeIs
    <3>3. QED
      BY <1>1, <2>3, <3>2 DEF Gap
  <2>6. \A j \in 1..l : v[j] = q[a + j]
    <3> SUFFICES ASSUME NEW j \in 1..l PROVE v[j] = q[a + j]
      OBVIOUS
    <3>1. i + j - 1 = a + j
      BY <2>2
    <3>2. QED
      BY <2>2, <3>1
  <2> HIDE DEF a, b
  <2> DEFINE k == Len(c[a])
  <2>7. k \in Nat /\ k + Len(V) <= Len(P) /\ \A j \in 1..Len(V) : P[k + j] = V[j]
    <3>1. StandsIn(P, V, Len(c[a]), Len(c[b]), Solid(S))
      <4>1. a \in 0..Len(q) /\ b \in a..Len(q) /\ Len(v) = b - a
        BY <2>3
      <4>2. QED
        BY <1>3, <2>4, <2>5, <2>6, <4>1, PiecesBetween
    <3> HIDE DEF P, V
    <3>2. QED
      BY <3>1 DEF StandsIn
  <2> HIDE DEF k, P, V
  <2>8. k + 1 \in 1..Len(P) /\ (k + 1) + Len(V) - 1 <= Len(P)
    BY <1>5, <2>7
  <2>9. \A j \in 1..Len(V) : P[(k + 1) + j - 1] = V[j]
    <3> SUFFICES ASSUME NEW j \in 1..Len(V) PROVE P[(k + 1) + j - 1] = V[j]
      OBVIOUS
    <3>1. (k + 1) + j - 1 = k + j
      BY <2>7
    <3>2. QED
      BY <2>7, <3>1
  <2>10. k + 1 \in Occurrences(V, P)
    BY <1>5, <2>8, <2>9, OccursIs
  <2>11. QED
    BY <2>10
<1>7. ASSUME Occurrences(V, P) # {} PROVE WordBoundaryMatch(q, v)
  <2>1. PICK i : i \in Occurrences(V, P)
    BY <1>7
  <2>2. /\ i \in 1..Len(P) /\ i + Len(V) - 1 <= Len(P)
        /\ \A j \in 1..Len(V) : P[i + j - 1] = V[j]
    <3>1. i \in 1..Len(P)
      BY <2>1 DEF Occurrences
    <3>2. QED
      BY <1>5, <2>1, <3>1, OccursIs
  <2> DEFINE k == i - 1
             m == k + Len(V)
  <2>3. k \in 0..Len(P) /\ m \in 0..Len(P) /\ k < m /\ k \in Nat
    <3> HIDE DEF P, V
    <3>1. QED
      BY <1>5, <2>2
  <2>4. PICK a \in 0..n : Gap(q, a) /\ Len(c[a]) = k
    <3> HIDE DEF k
    <3>1. QED
      BY <1>3, <2>3, GapAt
  <2>5. PICK b \in 0..n : Gap(q, b) /\ Len(c[b]) = m
    <3> HIDE DEF m, k
    <3>1. QED
      BY <1>3, <2>3, GapAt
  <2> HIDE DEF k, m
  <2>6. \A x \in 0..n, y \in 0..n : x <= y =>
          \E z \in Seq(S) : Len(z) = y - x /\ \A j \in 1..Len(z) : z[j] = q[x + j]
    <3> SUFFICES ASSUME NEW x \in 0..n, NEW y \in 0..n, x <= y
                 PROVE  \E z \in Seq(S) : Len(z) = y - x /\ \A j \in 1..Len(z) : z[j] = q[x + j]
      OBVIOUS
    <3> DEFINE z == [j \in 1..(y - x) |-> q[x + j]]
    <3>1. y - x \in Nat /\ \A j \in 1..(y - x) : q[x + j] \in S
      BY <1>1
    <3>2. z \in [1..(y - x) -> S]
      BY <3>1
    <3>3. z \in Seq(S) /\ Len(z) = y - x
      <4> HIDE DEF z
      <4>1. QED
        BY <3>1, <3>2, ArrayIs
    <3>4. \A j \in 1..(y - x) : z[j] = q[x + j]
      OBVIOUS
    <3> HIDE DEF z
    <3>5. QED
      BY <3>3, <3>4
  <2>7. a <= b
    <3> SUFFICES ASSUME b <= a PROVE a <= b
      BY <1>1
    <3>1. PICK z \in Seq(S) : Len(z) = a - b /\ \A j \in 1..Len(z) : z[j] = q[b + j]
      BY <2>6
    <3>2. a \in b..n
      BY <1>1
    <3>3. Len(c[a]) = Len(c[b]) + Len(Pieces(z)) /\ Len(c[b]) \in Nat /\ Pieces(z) \in Seq(Solid(S))
      <4>1. StandsIn(P, Pieces(z), Len(c[b]), Len(c[a]), Solid(S))
        <5>1. b \in 0..Len(q) /\ a \in b..Len(q)
          BY <3>2
        <5>2. QED
          BY <1>3, <2>4, <2>5, <3>1, <5>1, PiecesBetween
      <4> HIDE DEF P
      <4>2. QED
        BY <4>1 DEF StandsIn
    <3>4. Len(Pieces(z)) \in Nat
      BY <3>3, SolidIs
    <3>5. k = m + Len(Pieces(z)) /\ m \in Nat
      BY <2>4, <2>5, <3>3
    <3>6. QED
      BY <2>3, <3>4, <3>5
  <2>8. PICK z \in Seq(S) : Len(z) = b - a /\ \A j \in 1..Len(z) : z[j] = q[a + j]
    BY <2>6, <2>7
  <2>9. b \in a..n
    BY <1>1, <2>7
  <2> DEFINE R == Pieces(z)
  <2>10. /\ R \in Seq(Solid(S)) /\ Len(c[b]) = Len(c[a]) + Len(R)
         /\ \A j \in 1..Len(R) : P[Len(c[a]) + j] = R[j]
    <3>1. StandsIn(P, R, Len(c[a]), Len(c[b]), Solid(S))
      <4>1. a \in 0..Len(q) /\ b \in a..Len(q)
        BY <2>9
      <4>2. QED
        BY <1>3, <2>4, <2>5, <2>8, <4>1, PiecesBetween
    <3> HIDE DEF P, R
    <3>2. QED
      BY <3>1 DEF StandsIn
  <2>11. Len(R) \in Nat
    BY <2>10, SolidIs
  <2> HIDE DEF R, P, V
  <2>12. m = k + Len(R) /\ \A j \in 1..Len(R) : P[k + j] = R[j]
    BY <2>4, <2>5, <2>10
  <2>13. Len(R) = Len(V)
    BY <1>5, <2>3, <2>11, <2>12 DEF m
  <2>14. \A j \in 1..Len(V) : P[k + j] = V[j]
    <3> SUFFICES ASSUME NEW j \in 1..Len(V) PROVE P[k + j] = V[j]
      OBVIOUS
    <3>1. i + j - 1 = k + j
      BY <2>2 DEF k
    <3>2. QED
      BY <2>2, <3>1
  <2>15. R = V
    BY <1>5, <2>10, <2>12, <2>13, <2>14, SeqEqual
  <2>16. z = v
    BY <2>15, SamePieces DEF R, V
  <2>17. b = a + l /\ \A j \in 1..l : q[a + j] = v[j]
    BY <1>1, <2>7, <2>8, <2>16
  <2>18. a + 1 \in 1..n /\ (a + 1) + l - 1 <= n /\ (a + 1) + l = b + 1 /\ b \in 1..n
    BY <1>1, <2>17
  <2>19. a + 1 \in Occurrences(v, q)
    <3>1. \A j \in 1..l : q[(a + 1) + j - 1] = v[j]
      <4> SUFFICES ASSUME NEW j \in 1..l PROVE q[(a + 1) + j - 1] = v[j]
        OBVIOUS
      <4>1. (a + 1) + j - 1 = a + j
        BY <1>1
      <4>2. QED
        BY <2>17, <4>1
    <3>2. QED
      BY <2>18, <3>1, OccursIs
  <2>20. q[a + 1] \notin Marks /\ q[b] \notin Marks
    <3>1. q[a + 1] = v[1] /\ q[a + l] = v[l]
      BY <1>1, <2>17
    <3>2. QED
      BY <1>2, <2>17, <3>1
  <2>21. FreeBefore(q, a + 1)
    <3>1. a = 0 \/ q[a] \in Marks
      BY <1>1, <2>4, <2>18, <2>20 DEF Gap
    <3>2. a + 1 \in 1..(n + 1) /\ (a + 1) - 1 = a /\ (a + 1 = 1 <=> a = 0)
      BY <1>1
    <3>3. QED
      BY <3>1, <3>2, FreeIs
  <2>22. FreeAfter(q, (a + 1) + l)
    <3>1. b = n \/ q[b + 1] \in Marks
      BY <1>1, <2>5, <2>18, <2>20 DEF Gap
    <3>2. b + 1 \in 1..(n + 1) /\ (b + 1 = n + 1 <=> b = n)
      BY <1>1
    <3>3. FreeAfter(q, b + 1)
      BY <3>1, <3>2, FreeIs
    <3>4. QED
      BY <2>18, <3>3
  <2>23. QED
    BY <2>19, <2>21, <2>22 DEF WordBoundaryMatch
<1>8. QED
  BY <1>6, <1>7

-----------------------------------------------------------------------------
(* What the gazetteer has learnt                                           *)

\* add_product() for one product after the other: the entries after those in T.
Pick(T) == CHOOSE p \in T : TRUE
LearntBy(g, T) == IF T = {} THEN {} ELSE AddProduct(g[T \ {Pick(T)}], case.products[Pick(T)].meta)

LEMMA PickIs ==
  ASSUME NEW L, IsFiniteSet(L), NEW T \in SUBSET L, T # {}
  PROVE  /\ Pick(T) \in T /\ T \ {Pick(T)} \in SUBSET L /\ IsFiniteSet(T)
         /\ Cardinality(T) \in Nat /\ Cardinality(T) > 0
         /\ Cardinality(T \ {Pick(T)}) = Cardinality(T) - 1
<1>1. IsFiniteSet(T)
  BY FS_Subset
<1>2. Pick(T) \in T
  BY DEF Pick
<1>3. Cardinality(T) \in Nat /\ Cardinality(T) # 0
  BY <1>1, FS_CardinalityType, FS_EmptySet
<1>4. Cardinality(T \ {Pick(T)}) = Cardinality(T) - 1
  BY <1>1, <1>2, FS_RemoveElement
<1>5. QED
  BY <1>1, <1>2, <1>3, <1>4

\* The equation that the fold over a set is defined by has a solution.
LEMMA LearningExists ==
  ASSUME NEW L, IsFiniteSet(L)
  PROVE  \E g : g = [T \in SUBSET L |-> LearntBy(g, T)]
<1> DEFINE n == Cardinality(L)
           Solved(g, k) == \A T \in SUBSET L : Cardinality(T) <= k => g[T] = LearntBy(g, T)
           P == {k \in 0..n : \E g : Solved(g, k)}
<1>1. n \in Nat
  BY FS_CardinalityType
<1>2. 0 \in P
  <2> DEFINE g == [T \in SUBSET L |-> {}]
  <2>1. ASSUME NEW T \in SUBSET L, Cardinality(T) <= 0 PROVE g[T] = LearntBy(g, T)
    <3>1. T = {}
      <4> HIDE DEF g
      <4>1. T # {} => Cardinality(T) \in Nat /\ Cardinality(T) > 0
        BY PickIs
      <4>2. QED
        BY <2>1, <4>1
    <3>2. QED
      BY <3>1 DEF LearntBy
  <2>2. Solved(g, 0)
    BY <2>1
  <2> HIDE DEF Solved, g
  <2>3. \E h : Solved(h, 0)
    BY <2>2
  <2>4. QED
    BY <1>1, <2>3
<1>3. ASSUME NEW k \in 1..n, k - 1 \in P PROVE k \in P
  <2>1. PICK g : Solved(g, k - 1)
    BY <1>3
  <2> DEFINE h == [T \in SUBSET L |-> LearntBy(g, T)]
  <2>2. ASSUME NEW T \in SUBSET L, Cardinality(T) <= k PROVE h[T] = LearntBy(h, T)
    <3>1. CASE T = {}
      BY <3>1 DEF LearntBy
    <3>2. CASE T # {}
      <4> DEFINE R == T \ {Pick(T)}
      <4>1. R \in SUBSET L /\ Cardinality(R) <= k - 1
        BY <1>1, <2>2, <3>2, PickIs
      <4>2. g[R] = LearntBy(g, R) /\ h[R] = LearntBy(g, R)
        BY <2>1, <4>1
      <4>3. h[T] = LearntBy(g, T)
        OBVIOUS
      <4> HIDE DEF h
      <4>4. QED
        BY <3>2, <4>2, <4>3 DEF LearntBy
    <3>3. QED
      BY <3>1, <3>2
  <2>3. Solved(h, k)
    BY <2>2
  <2> HIDE DEF Solved, h
  <2>4. \E f : Solved(f, k)
    BY <2>3
  <2>5. QED
    BY <1>1, <2>4
<1> HIDE DEF P
<1>4. \A k \in 1..n : k - 1 \in P => k \in P
  BY <1>3
<1>5. n \in P
  <2> HIDE DEF n
  <2>1. \A k \in 0..n : k \in P
    BY <1>1, <1>2, <1>4, UpTo
  <2>2. QED
    BY <1>1, <2>1
<1>6. PICK g : Solved(g, n)
  BY <1>5 DEF P
<1> DEFINE h == [T \in SUBSET L |-> g[T]]
<1>7. ASSUME NEW T \in SUBSET L PROVE h[T] = LearntBy(h, T)
  <2>1. Cardinality(T) <= n
    BY FS_Subset
  <2>2. h[T] = LearntBy(g, T)
    BY <1>6, <2>1
  <2>3. T # {} => T \ {Pick(T)} \in SUBSET L
    OBVIOUS
  <2>4. T # {} => h[T \ {Pick(T)}] = g[T \ {Pick(T)}]
    BY <2>3
  <2> HIDE DEF h
  <2>5. QED
    BY <2>2, <2>4 DEF LearntBy
<1>8. h = [T \in SUBSET L |-> h[T]]
  OBVIOUS
<1> HIDE DEF h
<1>9. h = [T \in SUBSET L |-> LearntBy(h, T)]
  BY <1>7, <1>8
<1>10. QED
  BY <1>9

LEMMA LearningIs ==
  ASSUME NEW L, IsFiniteSet(L)
  PROVE  \E g : /\ FoldSet(LAMBDA p, e : AddProduct(e, case.products[p].meta), {}, L) = g[L]
                /\ \A T \in SUBSET L : g[T] = LearntBy(g, T)
<1> DEFINE Equation(h) ==
             h = [T \in SUBSET L |->
                    IF T = {} THEN {}
                    ELSE AddProduct(h[T \ {CHOOSE p \in T : TRUE}],
                                    case.products[CHOOSE p \in T : TRUE].meta)]
           F == FoldSet(LAMBDA p, e : AddProduct(e, case.products[p].meta), {}, L)
<1>1. \E h : Equation(h)
  BY LearningExists DEF LearntBy, Pick
<1>2. \E h : Equation(h) /\ F = h[L]
  BY <1>1 DEF FoldSet, MapThenFoldSet
<1>3. PICK h : Equation(h) /\ F = h[L]
  BY <1>2
<1>4. \A T \in SUBSET L : h[T] = LearntBy(h, T)
  BY <1>3 DEF LearntBy, Pick
<1> HIDE DEF Equation
<1>5. QED
  BY <1>3, <1>4

Entry(f, v) == <<f, LowerOf(v), v>>
\* The fields of a product that have something to learn.
Worthy(m) == {f \in GazetteerFields \cap DOMAIN m : SizeOf(trim(m[f])) >= MIN_LEN}
Meta(p)   == case.products[p].meta
OneEach(E) == \A e, d \in E : e[1] = d[1] /\ e[2] = d[2] => e = d

\* The entries E are those of the products in T.
Learnt(E, T) ==
  /\ \A e \in E : \E p \in T, f \in GazetteerFields :
       f \in Worthy(Meta(p)) /\ e = Entry(f, trim(Meta(p)[f]))
  /\ \A p \in T : \A f \in Worthy(Meta(p)) :
       \E e \in E : e[1] = f /\ e[2] = LowerOf(trim(Meta(p)[f]))
  /\ OneEach(E) /\ IsFiniteSet(E)

LEMMA WorthyFinite ==
  ASSUME NEW m
  PROVE  IsFiniteSet(Worthy(m))
<1>1. IsFiniteSet(GazetteerFields)
  <2>1. GazetteerFields = ({"brand"} \cup {"color"}) \cup {"category"}
    BY DEF GazetteerFields
  <2>2. QED
    BY <2>1, FS_Singleton, FS_AddElement
<1>2. Worthy(m) \in SUBSET GazetteerFields
  BY DEF Worthy
<1>3. QED
  BY <1>1, <1>2, FS_Subset

\* add_product(): the entries of before, and those of values not seen before.
LEMMA AddIs ==
  ASSUME NEW E, NEW m
  PROVE  LET R == AddProduct(E, m) IN
         /\ E \subseteq R
         /\ \A e \in R \ E : \E f \in Worthy(m) :
              e = Entry(f, trim(m[f])) /\ ~ \E d \in E : d[1] = f /\ d[2] = LowerOf(trim(m[f]))
         /\ \A f \in Worthy(m) : \E e \in R : e[1] = f /\ e[2] = LowerOf(trim(m[f]))
         /\ IsFiniteSet(E) => IsFiniteSet(R)
<1> DEFINE R == AddProduct(E, m)
           new == {f \in Worthy(m) : ~ \E e \in E : e[1] = f /\ e[2] = LowerOf(trim(m[f]))}
           N == {Entry(f, trim(m[f])) : f \in new}
<1>1. R = E \cup N
  BY DEF AddProduct, Worthy, Entry
<1>2. \A f, v : Entry(f, v)[1] = f /\ Entry(f, v)[2] = LowerOf(v)
  BY DEF Entry
<1>3. ASSUME NEW f \in Worthy(m)
      PROVE  \E e \in R : e[1] = f /\ e[2] = LowerOf(trim(m[f]))
  <2>1. CASE f \in new
    BY <1>1, <1>2, <2>1
  <2>2. CASE f \notin new
    <3>1. \E e \in E : e[1] = f /\ e[2] = LowerOf(trim(m[f]))
      BY <2>2
    <3>2. QED
      BY <1>1, <3>1
  <2>3. QED
    BY <2>1, <2>2
<1>4. IsFiniteSet(N)
  <2>1. IsFiniteSet(new)
    BY WorthyFinite, FS_Subset
  <2> DEFINE h == [f \in new |-> Entry(f, trim(m[f]))]
  <2>2. N = {h[f] : f \in DOMAIN h} /\ DOMAIN h = new /\ h = [f \in DOMAIN h |-> h[f]]
    OBVIOUS
  <2> HIDE DEF h, N, new
  <2>3. QED
    BY <2>1, <2>2, FiniteImage
<1>5. IsFiniteSet(E) => IsFiniteSet(R)
  BY <1>1, <1>4, FS_Union
<1>6. \A e \in R \ E : \E f \in Worthy(m) :
        e = Entry(f, trim(m[f])) /\ ~ \E d \in E : d[1] = f /\ d[2] = LowerOf(trim(m[f]))
  BY <1>1
<1> HIDE DEF R
<1>7. QED
  BY <1>1, <1>3, <1>5, <1>6 DEF R

LEMMA AddLearns ==
  ASSUME NEW E, NEW T, NEW p \in T, Learnt(E, T \ {p})
  PROVE  Learnt(AddProduct(E, Meta(p)), T)
<1> DEFINE R == AddProduct(E, Meta(p))
<1>1. /\ E \subseteq R /\ IsFiniteSet(R)
      /\ \A e \in R \ E : \E f \in Worthy(Meta(p)) :
           /\ e = Entry(f, trim(Meta(p)[f]))
           /\ ~ \E d \in E : d[1] = f /\ d[2] = LowerOf(trim(Meta(p)[f]))
      /\ \A f \in Worthy(Meta(p)) : \E e \in R : e[1] = f /\ e[2] = LowerOf(trim(Meta(p)[f]))
  BY AddIs DEF Learnt
<1> HIDE DEF R
<1>2. \A f, v : Entry(f, v)[1] = f /\ Entry(f, v)[2] = LowerOf(v)
  BY DEF Entry
<1>3. ASSUME NEW e \in R
      PROVE  \E r \in T, f \in GazetteerFields :
               f \in Worthy(Meta(r)) /\ e = Entry(f, trim(Meta(r)[f]))
  <2>1. CASE e \in E
    BY <2>1 DEF Learnt
  <2>2. CASE e \notin E
    BY <1>1, <2>2 DEF Worthy
  <2>3. QED
    BY <2>1, <2>2
<1>4. ASSUME NEW r \in T, NEW f \in Worthy(Meta(r))
      PROVE  \E e \in R : e[1] = f /\ e[2] = LowerOf(trim(Meta(r)[f]))
  <2>1. CASE r = p
    BY <1>1, <2>1
  <2>2. CASE r # p
    <3>1. \E e \in E : e[1] = f /\ e[2] = LowerOf(trim(Meta(r)[f]))
      BY <2>2 DEF Learnt
    <3>2. QED
      BY <1>1, <3>1
  <2>3. QED
    BY <2>1, <2>2
<1>5. OneEach(R)
  <2> SUFFICES ASSUME NEW e \in R, NEW d \in R, e[1] = d[1], e[2] = d[2] PROVE e = d
    BY DEF OneEach
  <2>1. ASSUME NEW x \in R, NEW y \in R, x \notin E, y \in E PROVE ~ (x[1] = y[1] /\ x[2] = y[2])
    BY <1>1, <1>2, <2>1
  <2>2. CASE e \in E /\ d \in E
    BY <2>2 DEF Learnt, OneEach
  <2>3. CASE e \notin E /\ d \notin E
    <3>1. PICK f \in Worthy(Meta(p)) : e = Entry(f, trim(Meta(p)[f]))
      BY <1>1, <2>3
    <3>2. PICK g \in Worthy(Meta(p)) : d = Entry(g, trim(Meta(p)[g]))
      BY <1>1, <2>3
    <3>3. f = g
      <4>1. e[1] = f /\ d[1] = g
        BY <1>2, <3>1, <3>2, Zenon
      <4>2. QED
        BY <4>1
    <3>4. QED
      BY <3>1, <3>2, <3>3
  <2>4. QED
    BY <2>1, <2>2, <2>3
<1>6. QED
  BY <1>1, <1>3, <1>4, <1>5 DEF Learnt, R

LEMMA AllLearnt ==
  ASSUME NEW L, IsFiniteSet(L)
  PROVE  Learnt(FoldSet(LAMBDA p, e : AddProduct(e, case.products[p].meta), {}, L), L)
<1> DEFINE F == FoldSet(LAMBDA p, e : AddProduct(e, case.products[p].meta), {}, L)
           n == Cardinality(L)
<1>1. PICK g : F = g[L] /\ \A T \in SUBSET L : g[T] = LearntBy(g, T)
  BY LearningIs
<1>2. n \in Nat
  BY FS_CardinalityType
<1> HIDE DEF F
<1> DEFINE All(k) == \A T \in SUBSET L : Cardinality(T) <= k => Learnt(g[T], T)
           P == {k \in 0..n : All(k)}
<1>3. Learnt(g[{}], {})
  <2>1. g[{}] = {}
    BY <1>1 DEF LearntBy
  <2>2. QED
    BY <2>1, FS_EmptySet DEF Learnt, OneEach
<1>4. 0 \in P
  <2>1. ASSUME NEW T \in SUBSET L, Cardinality(T) <= 0 PROVE Learnt(g[T], T)
    <3>1. T # {} => Cardinality(T) \in Nat /\ Cardinality(T) > 0
      BY PickIs
    <3>2. T = {}
      BY <2>1, <3>1
    <3>3. QED
      BY <1>3, <3>2
  <2>2. All(0)
    BY <2>1
  <2> HIDE DEF All
  <2>3. QED
    BY <1>2, <2>2
<1>5. ASSUME NEW k \in 1..n, k - 1 \in P PROVE k \in P
  <2>1. ASSUME NEW T \in SUBSET L, Cardinality(T) <= k PROVE Learnt(g[T], T)
    <3>1. CASE T = {}
      BY <1>3, <3>1
    <3>2. CASE T # {}
      <4> DEFINE p == Pick(T)
      <4>1. p \in T /\ T \ {p} \in SUBSET L /\ Cardinality(T \ {p}) <= k - 1
        BY <1>2, <2>1, <3>2, PickIs
      <4>2. Learnt(g[T \ {p}], T \ {p})
        BY <1>5, <4>1
      <4>3. g[T] = AddProduct(g[T \ {p}], Meta(p))
        BY <1>1, <3>2 DEF LearntBy, Meta
      <4> HIDE DEF p
      <4>4. QED
        BY <4>1, <4>2, <4>3, AddLearns
    <3>3. QED
      BY <3>1, <3>2
  <2>2. All(k)
    BY <2>1
  <2> HIDE DEF All
  <2>3. QED
    BY <1>2, <2>2
<1> HIDE DEF P
<1>6. \A k \in 1..n : k - 1 \in P => k \in P
  BY <1>5
<1>7. n \in P
  <2> HIDE DEF n
  <2>1. \A k \in 0..n : k \in P
    BY <1>2, <1>4, <1>6, UpTo
  <2>2. QED
    BY <1>2, <2>1
<1>8. All(n)
  BY <1>7 DEF P
<1>9. Learnt(g[L], L)
  BY <1>2, <1>8
<1>10. QED
  BY <1>1, <1>9 DEF F

LEMMA NoSize == SizeOf(<<>>) = 0
<1> DEFINE z == [i \in DOMAIN <<>> |-> Len(<<>>[i])]
           Equation(h) == h = [s \in SUBSET DOMAIN z |->
             IF s = {} THEN 0
             ELSE z[CHOOSE x \in s : TRUE] + h[s \ {CHOOSE x \in s : TRUE}]]
<1>1. DOMAIN z = {}
  OBVIOUS
<1> DEFINE g == [s \in SUBSET DOMAIN z |-> 0]
<1>2. \A s \in SUBSET DOMAIN z : s = {}
  BY <1>1
<1>3. Equation(g)
  <2> HIDE DEF z
  <2>1. QED
    BY <1>2
<1> HIDE DEF g
<1>4. \E h : Equation(h) /\ SizeOf(<<>>) = h[DOMAIN z]
  BY ZenonT(60), <1>3 DEF SizeOf, FoldFunction, FoldFunctionOnSet, MapThenFoldSet
<1>5. PICK h : Equation(h) /\ SizeOf(<<>>) = h[DOMAIN z]
  BY <1>4
<1> HIDE DEF z
<1>6. h[{}] = 0
  <2>1. {} \in SUBSET DOMAIN z
    OBVIOUS
  <2>2. QED
    BY <1>5, <2>1
<1>7. QED
  BY <1>1, <1>5, <1>6

LEMMA TrimText ==
  ASSUME NEW t, IsText(t)
  PROVE  IsText(trim(t))
<1> DEFINE S == Range(t)
           K == {i \in DOMAIN t : t[i] # Space}
<1>1. t \in Seq(S)
  BY DEF IsText
<1>2. CASE K = {}
  <2>1. trim(t) = <<>> /\ <<>> \in Seq(S)
    BY <1>2 DEF trim
  <2>2. QED
    BY <2>1, TextIn
<1>3. CASE K # {}
  <2>1. PICK k : k \in K
    BY <1>3
  <2>2. K \in SUBSET (1..Len(t)) /\ Len(t) \in Nat
    BY <1>1
  <2>3. trim(t) = SubSeq(t, Min(K), Max(K))
    BY <1>3 DEF trim
  <2>4. Min(K) \in K /\ Max(K) \in K
    <3> HIDE DEF K
    <3>1. K \in SUBSET Nat
      BY <2>2
    <3>2. Min(K) \in K
      BY <1>3, <3>1, LeastNumber
    <3>3. Max(K) \in K
      BY <1>3, <2>2, GreatestIs DEF HasGreatest
    <3>4. QED
      BY <3>2, <3>3
  <2> DEFINE a == Min(K)
             b == Max(K)
  <2>5. a \in 1..Len(t) /\ b \in 1..Len(t)
    BY <2>2, <2>4
  <2>6. \A i \in a..b : t[i] \in S
    <3> HIDE DEF a, b, K, S
    <3>1. QED
      BY <1>1, <2>5
  <2>7. trim(t) \in Seq(S)
    <3> HIDE DEF a, b, K, S
    <3>1. a \in Int /\ b \in Int
      BY <2>2, <2>5
    <3>2. SubSeq(t, a, b) \in Seq(S)
      BY <2>6, <3>1, SubSeqProperties
    <3>3. trim(t) = SubSeq(t, a, b)
      BY <2>3 DEF a, b
    <3>4. QED
      BY <3>2, <3>3
  <2>8. QED
    BY <2>7, TextIn
<1>4. QED
  BY <1>2, <1>3

LEMMA ValuesText ==
  ASSUME case \in Cases, NEW f \in GazetteerFields, NEW v \in Values(f)
  PROVE  /\ IsText(v) /\ v # <<>> /\ IsText(LowerOf(v)) /\ LowerOf(v) # <<>>
         /\ SizeOf(LowerOf(v)) >= MIN_LEN
         /\ \E p \in case.learnt : f \in Worthy(Meta(p)) /\ v = trim(Meta(p)[f])
<1>1. PICK p \in case.learnt : f \in DOMAIN Meta(p) /\ v = trim(Meta(p)[f])
  BY DEF Values, Doc, Meta
<1>2. SizeOf(v) >= MIN_LEN /\ SizeOf(LowerOf(v)) >= MIN_LEN
  BY DEF Values
<1>3. IsText(Meta(p)[f])
  BY <1>1, DataAssumption DEF Meta
<1>4. IsText(v)
  BY <1>1, <1>3, TrimText
<1>5. IsText(LowerOf(v)) /\ Len(LowerOf(v)) = Len(v)
  BY <1>4, LowerText
<1>6. v # <<>> /\ LowerOf(v) # <<>>
  <2>1. ~ (0 >= MIN_LEN)
    BY DEF MIN_LEN
  <2>2. QED
    BY <1>2, <2>1, NoSize
<1>7. f \in Worthy(Meta(p))
  BY <1>1, <1>2 DEF Worthy
<1>8. QED
  BY <1>1, <1>2, <1>4, <1>5, <1>6, <1>7

LEMMA ValueMatches ==
  ASSUME case \in Cases, NEW f \in GazetteerFields, NEW v \in Values(f), NEW q, IsText(q),
         {LowerOf(v)[1], Last(LowerOf(v))} \cap Marks = {},
         Range(q) \cap (StartOpen \cup EndOpen) = {}
  PROVE  WordBoundaryMatch(q, LowerOf(v))
           <=> Occurrences(Pieces(LowerOf(v)), Pieces(q)) # {}
<1> DEFINE w == LowerOf(v)
           S == Range(q) \cup Range(w)
<1>1. IsText(w) /\ w # <<>>
  BY ValuesText
<1> HIDE DEF w
<1>2. q \in Seq(S) /\ w \in Seq(S)
  BY <1>1, MoreSymbols DEF IsText
<1>3. {w[1], Last(w)} \cap Marks = {}
  BY DEF w
<1> HIDE DEF S
<1>4. WordBoundaryMatch(q, w) <=> Occurrences(Pieces(w), Pieces(q)) # {}
  BY <1>1, <1>2, <1>3, MatchIsPieces
<1>5. QED
  BY <1>4 DEF w

\* The entries of a field that extract_filters() finds in a query.
EntriesFor(E, f, q) == {e \in E : e[1] = f /\ SizeOf(e[2]) >= MIN_LEN /\ WordBoundaryMatch(q, e[2])}

\* They are the values named, each once.
LEMMA NamedAre ==
  ASSUME case \in Cases, NEW E, Learnt(E, case.learnt), NEW f \in GazetteerFields,
         NEW q, IsText(q), Range(q) \cap (StartOpen \cup EndOpen) = {},
         \A v \in Values(f) : {LowerOf(v)[1], Last(LowerOf(v))} \cap Marks = {}
  PROVE  LET F == EntriesFor(E, f, q)
             N == Named(f, Pieces(q)) IN
         /\ N = {e[2] : e \in F} /\ IsFiniteSet(F) /\ \A e, d \in F : e[2] = d[2] => e = d
         /\ \A e \in F : LowerOf(e[3]) = e[2]
<1> DEFINE F == EntriesFor(E, f, q)
           N == Named(f, Pieces(q))
<1>1. \A g, v : Entry(g, v)[1] = g /\ Entry(g, v)[2] = LowerOf(v) /\ Entry(g, v)[3] = v
  BY DEF Entry
<1>2. ASSUME NEW e \in F
      PROVE  /\ e[2] \in N /\ LowerOf(e[3]) = e[2]
  <2>1. e \in E /\ e[1] = f /\ SizeOf(e[2]) >= MIN_LEN /\ WordBoundaryMatch(q, e[2])
    BY DEF EntriesFor
  <2>2. PICK p \in case.learnt, g \in GazetteerFields :
          g \in Worthy(Meta(p)) /\ e = Entry(g, trim(Meta(p)[g]))
    BY <2>1 DEF Learnt
  <2> DEFINE v == trim(Meta(p)[g])
  <2>3. e[1] = g /\ e[2] = LowerOf(v) /\ e[3] = v
    BY <1>1, <2>2, Zenon
  <2>4. g = f
    BY <2>1, <2>3
  <2>5. v \in Values(f)
    BY <2>1, <2>2, <2>3, <2>4 DEF Values, Worthy, Doc, Meta
  <2> HIDE DEF v
  <2>6. Occurrences(Pieces(LowerOf(v)), Pieces(q)) # {}
    BY <2>1, <2>3, <2>5, ValueMatches
  <2>7. LowerOf(v) \in N
    BY <2>5, <2>6 DEF Named
  <2>8. QED
    BY <2>3, <2>7
<1>3. ASSUME NEW u \in N PROVE \E e \in F : e[2] = u
  <2>1. PICK v \in Values(f) : u = LowerOf(v) /\ Occurrences(Pieces(LowerOf(v)), Pieces(q)) # {}
    BY DEF Named
  <2>2. PICK p \in case.learnt : f \in Worthy(Meta(p)) /\ v = trim(Meta(p)[f])
    BY ValuesText
  <2>3. PICK e \in E : e[1] = f /\ e[2] = u
    BY <2>1, <2>2 DEF Learnt
  <2>4. WordBoundaryMatch(q, u) /\ SizeOf(u) >= MIN_LEN
    BY <2>1, ValueMatches, ValuesText
  <2>5. e \in F
    BY <2>3, <2>4 DEF EntriesFor
  <2>6. QED
    BY <2>3, <2>5
<1>4. IsFiniteSet(F)
  <2>1. F \in SUBSET E
    BY DEF EntriesFor
  <2>2. QED
    BY <2>1, FS_Subset DEF Learnt
<1>5. \A e, d \in F : e[2] = d[2] => e = d
  BY DEF EntriesFor, Learnt, OneEach
<1> HIDE DEF F, N
<1>6. N = {e[2] : e \in F}
  BY <1>2, <1>3
<1>7. QED
  BY <1>2, <1>4, <1>5, <1>6 DEF F, N

LEMMA ExtractAgrees ==
  ASSUME case \in Cases, NEW E, Learnt(E, case.learnt), NEW f \in GazetteerFields,
         NEW x, IsText(x), Range(LowerOf(x)) \cap (StartOpen \cup EndOpen) = {},
         \A v \in Values(f) : {LowerOf(v)[1], Last(LowerOf(v))} \cap Marks = {}
  PROVE  LET X == ExtractFilters(E, x)
             N == Named(f, Pieces(LowerOf(x))) IN
         IF Cardinality(N) = 1 THEN f \in DOMAIN X /\ LowerOf(X[f]) \in N ELSE f \notin DOMAIN X
<1> DEFINE q == LowerOf(x)
           X == ExtractFilters(E, x)
           N == Named(f, Pieces(q))
           F == EntriesFor(E, f, q)
           found == {e \in E : SizeOf(e[2]) >= MIN_LEN /\ WordBoundaryMatch(q, e[2])}
           the == CHOOSE e \in found : e[1] = f
<1>1. IsText(q)
  BY LowerText
<1>2. /\ N = {e[2] : e \in F} /\ IsFiniteSet(F) /\ \A e, d \in F : e[2] = d[2] => e = d
      /\ \A e \in F : LowerOf(e[3]) = e[2]
  <2> HIDE DEF q
  <2>0. Range(q) \cap (StartOpen \cup EndOpen) = {}
    BY DEF q
  <2>1. QED
    BY <1>1, <2>0, NamedAre
<1>3. {e \in found : e[1] = f} = F
  BY DEF EntriesFor
<1>4. /\ f \in DOMAIN X <=> Cardinality(F) = 1
      /\ f \in DOMAIN X => X[f] = the[3]
  <2>1. X = [g \in {g \in GazetteerFields : Cardinality({e \in found : e[1] = g}) = 1} |->
               (CHOOSE e \in found : e[1] = g)[3]]
    BY DEF ExtractFilters
  <2> HIDE DEF X, found, F
  <2>2. QED
    BY <1>3, <2>1 DEF the
<1>5. F # {} => the \in F
  BY <1>3
<1> HIDE DEF F, N, X, found, the
<1>6. IsFiniteSet(N)
  <2> DEFINE h == [e \in F |-> e[2]]
  <2>1. N = {h[e] : e \in DOMAIN h} /\ DOMAIN h = F /\ h = [e \in DOMAIN h |-> h[e]]
    BY <1>2
  <2> HIDE DEF h
  <2>2. IsFiniteSet({h[e] : e \in DOMAIN h})
    BY <1>2, <2>1, FiniteImage
  <2>3. QED
    BY <2>1, <2>2
<1>7. Cardinality(F) = 1 <=> Cardinality(N) = 1
  <2>1. Cardinality(F) = 1 <=> \E e : F = {e}
    BY <1>2, FS_Singleton
  <2>2. Cardinality(N) = 1 <=> \E u : N = {u}
    BY <1>6, FS_Singleton
  <2>3. ASSUME NEW e, F = {e} PROVE N = {e[2]}
    BY <1>2, <2>3
  <2>4. ASSUME NEW u, N = {u} PROVE \E e : F = {e}
    <3>1. PICK e \in F : e[2] = u
      BY <1>2, <2>4
    <3>2. \A d \in F : d = e
      BY <1>2, <2>4, <3>1
    <3>3. F = {e}
      BY <3>1, <3>2
    <3>4. QED
      BY <3>3
  <2>5. QED
    BY <2>1, <2>2, <2>3, <2>4
<1>8. Cardinality(F) = 1 => LowerOf(the[3]) \in N
  <2> SUFFICES ASSUME Cardinality(F) = 1 PROVE LowerOf(the[3]) \in N
    OBVIOUS
  <2>1. F # {}
    BY <1>2, FS_EmptySet
  <2>2. the \in F
    BY <1>5, <2>1
  <2>3. LowerOf(the[3]) = the[2] /\ the[2] \in N
    BY <1>2, <2>2
  <2>4. QED
    BY <2>3
<1>9. IF Cardinality(N) = 1 THEN f \in DOMAIN X /\ LowerOf(X[f]) \in N ELSE f \notin DOMAIN X
  BY <1>4, <1>7, <1>8
<1>10. QED
  BY <1>9 DEF N, X, q

\* A call's filters until the texts have been searched.
HeardInv ==
  phase \in {"vector", "text"} =>
    work.filters = Merged(Req.filters, parse(Req.q).filters,
                          ExtractFilters(gazetteer, parse(Req.q).q))

LEMMA HeardStays ==
  ASSUME HeardInv, UNCHANGED <<case, call, gazetteer>>, work'.filters = work.filters,
         phase \in {"vector", "text"}
  PROVE  HeardInv'
<1>1. Req' = Req
  BY DEF Req
<1>2. QED
  BY <1>1 DEF HeardInv

LEMMA HeardStep ==
  ASSUME StableInv, Waiting, HeardInv, [Next]_vars
  PROVE  HeardInv'
<1>1. CASE VectorSearch
  <2>1. Retrieve
    BY <1>1 DEF Retrieve
  <2>2. work'.filters = work.filters /\ UNCHANGED <<case, call, gazetteer>>
    BY <2>1, RetrieveIs DEF StableInv, BaseInv
  <2>3. phase = "vector"
    BY <1>1 DEF VectorSearch
  <2>4. QED
    BY <2>2, <2>3, HeardStays
<1>2. CASE Parse
  <2>1. work'.filters =
          Merged(Req.filters, parse(Req.q).filters, ExtractFilters(gazetteer, parse(Req.q).q))
    BY <1>2, NoWorkIs DEF Parse
  <2>2. Req' = Req /\ gazetteer' = gazetteer
    BY <1>2 DEF Parse, Req
  <2>3. QED
    BY <2>1, <2>2 DEF HeardInv
<1>3. CASE ComeOrGo \/ UNCHANGED vars
  <2>1. UNCHANGED <<case, call, gazetteer, work, phase>>
    BY <1>3 DEF ComeOrGo, vars, overrideVars
  <2>2. QED
    BY <2>1, HeardStays DEF HeardInv
<1>4. CASE FirstTextSearch \/ Reformulate \/ Expand \/ SecondTextSearch \/ GetClicks \/ Rank
  <2>1. phase' \in {"reformulate", "expand", "retext", "clicks", "score", "suppress"}
    BY <1>4 DEF FirstTextSearch, Reformulate, Expand, SecondTextSearch, GetClicks, Rank
  <2>2. QED
    BY <2>1 DEF HeardInv
<1>5. CASE ScoreCandidate
  <2>1. phase' = "score"
    BY <1>5 DEF ScoreCandidate
  <2>2. QED
    BY <2>1 DEF HeardInv
<1>6. CASE ApplyOverrides
  <2>1. phase' \notin {"vector", "text"}
    BY <1>6, OverrideIs DEF ApplyOverrides, Ranked, Editing
  <2>2. QED
    BY <2>1 DEF HeardInv
<1>7. CASE Lookup \/ Respond \/ EndList \/ Fail \/ NextCall \/ BeginList \/ TakeFromList
  <2>1. phase' \in {"parse", "next", "lookup", "list"}
    BY <1>7 DEF Lookup, Respond, EndList, Fail, NextCall, BeginList, TakeFromList
  <2>2. QED
    BY <2>1 DEF HeardInv
<1>8. QED
  BY <1>1, <1>2, <1>3, <1>4, <1>5, <1>6, <1>7 DEF Next, Finished

LEMMA LearntStays ==
  ASSUME UNCHANGED <<case, gazetteer>>, Learnt(gazetteer, case.learnt)
  PROVE  Learnt(gazetteer, case.learnt)'
BY DEF Learnt, Meta, Worthy

LEMMA LearntFirst ==
  ASSUME Init
  PROVE  Learnt(gazetteer, case.learnt)
<1>1. case \in Cases
  BY DEF Init
<1>2. IsFiniteSet(case.learnt)
  BY <1>1, DataAssumption, FS_Subset
<1>3. gazetteer = FoldSet(LAMBDA p, e : AddProduct(e, case.products[p].meta), {}, case.learnt)
  BY DEF Init
<1>4. QED
  BY <1>2, <1>3, AllLearnt

\* "Fields with zero or multiple matches are skipped" (gazetteer.rs:108): a field is
\* filtered by when exactly one of the values learnt for it stands in the query.
THEOREM GazetteerSetsWhatIsNamed == Spec => []GazetteerAgrees
<1>1. BaseInv /\ QueryInv /\ HeardInv /\ Learnt(gazetteer, case.learnt) => GazetteerAgrees
  <2> DEFINE q == LowerOf(work.q)
  <2> SUFFICES ASSUME BaseInv, QueryInv, HeardInv, Learnt(gazetteer, case.learnt),
                      phase \in {"vector", "text"},
                      Range(q) \cap (StartOpen \cup EndOpen) = {},
                      \A f \in GazetteerFields : \A v \in Values(f) :
                        {LowerOf(v)[1], Last(LowerOf(v))} \cap Marks = {},
                      NEW f \in GazetteerFields \ DOMAIN Req.filters
               PROVE  IF Cardinality(Named(f, Pieces(q))) = 1
                      THEN f \in DOMAIN work.filters
                             /\ LowerOf(work.filters[f]) \in Named(f, Pieces(q))
                      ELSE f \notin DOMAIN work.filters
    BY DEF GazetteerAgrees
  <2> DEFINE X == ExtractFilters(gazetteer, work.q)
             Z == parse(Req.q).filters
  <2>1. case \in Cases /\ IsText(Req.q)
    BY ProductsAre DEF BaseInv
  <2>2. work.q = parse(Req.q).q /\ IsText(work.q)
    <3>1. work.q = parse(Req.q).q
      BY DEF QueryInv, Finding
    <3>2. QED
      BY <2>1, <3>1, ParsedText
  <2>3. work.filters = Merged(Req.filters, Z, X)
    BY <2>2 DEF HeardInv
  <2>4. f \notin DOMAIN Z
    <3>1. DOMAIN Z \subseteq {"price_max", "in_stock"}
      BY DEF parse
    <3>2. QED
      BY <3>1 DEF GazetteerFields
  <2>5. IF Cardinality(Named(f, Pieces(q))) = 1
        THEN f \in DOMAIN X /\ LowerOf(X[f]) \in Named(f, Pieces(q)) ELSE f \notin DOMAIN X
    BY <2>1, <2>2, ExtractAgrees
  <2> HIDE DEF X, Z, q
  <2>6. /\ f \in DOMAIN work.filters <=> f \in DOMAIN X
        /\ f \in DOMAIN X => work.filters[f] = X[f]
    BY <2>3, <2>4 DEF Merged, Over
  <2>7. QED
    BY <2>5, <2>6, Zenon
<1> DEFINE I == Waiting /\ KeptInv /\ HeardInv /\ Learnt(gazetteer, case.learnt)
<1>2. Init => I
  BY LearntFirst DEF Init, Waiting, HeardInv, KeptInv, QueryInv, FoundInv, Finding, Ranked, Editing
<1>3. StableInv /\ I /\ [Next]_vars => I'
  BY StillStep, KeptStep, HeardStep, LearntStays
<1>4. StableInv /\ I => GazetteerAgrees
  BY <1>1 DEF StableInv, KeptInv
<1>5. QED
  BY <1>2, <1>3, <1>4, StoresAreInOrder, PTL DEF Spec
=============================================================================
