--------------------------- MODULE PortfolioProofs ---------------------------
(***************************************************************************)
(* What the pure part of the portfolio computes, for plans and manifests   *)
(* of any size: the items of a plan, the queue that is made of them, and   *)
(* the sums of the validator.                                              *)
(*                                                                         *)
(* FlattenSeq and MapThenSumSet are recursive.  What they return is proved *)
(* from the least number at which it would be wrong (LeastNumber), as no   *)
(* prover here can use a principle of induction.                           *)
(***************************************************************************)
EXTENDS Portfolio, FiniteSetTheorems, FunctionTheorems, WellFoundedInduction, TLAPS

\* The well-foundedness of Nat, without an operator as parameter.
LEMMA LeastNumber ==
    ASSUME NEW S \in SUBSET Nat, S # {}
    PROVE  \E m \in S : \A k \in S : m <= k
<1> DEFINE R == {p \in Nat \X Nat : p[1] < p[2]}
<1>1. IsWellFoundedOn(R, Nat)
  BY NatLessThanWellFounded DEF OpToRel
<1> HIDE DEF R
<1>2. \E m \in S : \A k \in S : <<k, m>> \notin R
  BY <1>1, WFMin
<1>3. PICK m \in S : \A k \in S : <<k, m>> \notin R
  BY <1>2
<1>4. \A k \in S : k \in Nat /\ m \in Nat /\ ~(k < m)
  BY <1>3 DEF R
<1> QED
  BY <1>4

\* A set of numbers with 0 and every successor is Nat.
LEMMA Successors ==
    ASSUME NEW S \in SUBSET Nat, 0 \in S, \A n \in S : n + 1 \in S
    PROVE  S = Nat
<1> SUFFICES ASSUME Nat \ S # {} PROVE FALSE
  OBVIOUS
<1>1. \E m \in Nat \ S : \A k \in Nat \ S : m <= k
  BY LeastNumber
<1>2. PICK m \in Nat \ S : \A k \in Nat \ S : m <= k
  BY <1>1
<1>3. m # 0 /\ m - 1 \in Nat /\ m - 1 \notin Nat \ S
  BY <1>2
<1>4. (m - 1) + 1 \in S
  BY <1>3
<1> QED
  BY <1>3, <1>4

\* There are n numbers from 1 to n.
LEMMA FirstNumbers ==
    ASSUME NEW n \in Nat
    PROVE  IsFiniteSet(1..n) /\ Cardinality(1..n) = n
<1>1. 1 \in Int /\ n \in Int /\ (1 > n => n = 0)
  OBVIOUS
<1>2. IsFiniteSet(1..n) /\ Cardinality(1..n) = IF 1 > n THEN 0 ELSE n - 1 + 1
  BY <1>1, FS_Interval
<1> QED
  BY <1>1, <1>2

\* Those of S that R puts before x.
Before(S, R, x) == {y \in S : <<y, x>> \in R}

\* In a strict order of a finite set, the number of those before gives every place once.
LEMMA PlacesAreABijection ==
    ASSUME NEW S, IsFiniteSet(S), NEW R,
           \A x \in S : <<x, x>> \notin R,
           \A x, y \in S : x # y => <<x, y>> \in R \/ <<y, x>> \in R,
           \A x, y, z \in S : <<x, y>> \in R /\ <<y, z>> \in R => <<x, z>> \in R,
           NEW place, DOMAIN place = S, place = [x \in DOMAIN place |-> place[x]],
           \A x \in S : place[x] = 1 + Cardinality(Before(S, R, x))
    PROVE  /\ place \in Bijection(S, 1..Cardinality(S))
           /\ \A x, y \in S : <<x, y>> \in R <=> place[x] < place[y]
<1>0. PICK n \in Nat : n = Cardinality(S)
  BY FS_CardinalityType
<1> DEFINE before(x) == {y \in S : <<y, x>> \in R}
<1>b. \A x \in S : place[x] = 1 + Cardinality(before(x))
  BY DEF Before
<1>1. IsFiniteSet(1..n) /\ Cardinality(1..n) = n
  BY FirstNumbers
<1>2. \A T \in SUBSET S : IsFiniteSet(T) /\ Cardinality(T) \in Nat
  BY FS_Subset, FS_CardinalityType
<1>3. ASSUME NEW x \in S, NEW y \in S, <<x, y>> \in R
      PROVE  Cardinality(before(x)) < Cardinality(before(y))
  <2>1. before(x) \subseteq before(y) \ {x} /\ x \in before(y)
    BY <1>3
  <2>2. before(y) \in SUBSET S
    OBVIOUS
  <2> HIDE DEF before
  <2>3. /\ IsFiniteSet(before(y)) /\ Cardinality(before(y)) \in Nat
        /\ IsFiniteSet(before(y) \ {x}) /\ Cardinality(before(y) \ {x}) = Cardinality(before(y)) - 1
    BY <1>2, <2>1, <2>2, FS_RemoveElement
  <2>4. Cardinality(before(x)) <= Cardinality(before(y) \ {x})
    BY <2>1, <2>3, FS_Subset
  <2>5. Cardinality(before(x)) \in Nat
    BY <1>2, <2>1, <2>2
  <2> QED
    BY <2>3, <2>4, <2>5
<1>4. ASSUME NEW x \in S PROVE place[x] \in 1..n
  <2>1. before(x) \in SUBSET (S \ {x}) /\ before(x) \in SUBSET S
    OBVIOUS
  <2>2. place[x] = 1 + Cardinality(before(x))
    BY <1>b
  <2> HIDE DEF before
  <2>3. IsFiniteSet(S \ {x}) /\ Cardinality(S \ {x}) = n - 1
    <3>1. Cardinality(S \ {x}) = Cardinality(S) - 1 /\ IsFiniteSet(S \ {x})
      BY FS_RemoveElement
    <3> QED
      BY <1>0, <3>1
  <2>4. Cardinality(before(x)) <= n - 1 /\ Cardinality(before(x)) \in Nat
    BY <2>1, <2>3, <1>2, FS_Subset
  <2> QED
    BY <1>1, <2>2, <2>4
<1>5. \A x \in S : place[x] = 1 + Cardinality(before(x)) /\ Cardinality(before(x)) \in Nat
  <2> TAKE x \in S
  <2>1. before(x) \in SUBSET S /\ place[x] = 1 + Cardinality(before(x))
    BY <1>b
  <2> QED
    BY <2>1, <1>2
<1> HIDE DEF before
<1>6. \A x, y \in S : <<x, y>> \in R => place[x] < place[y]
  BY <1>3, <1>5
<1>7. \A x, y \in S : place[x] < place[y] => <<x, y>> \in R
  <2> SUFFICES ASSUME NEW x \in S, NEW y \in S, place[x] < place[y], <<x, y>> \notin R
               PROVE  FALSE
    OBVIOUS
  <2>1. place[x] \in Nat /\ place[y] \in Nat
    BY <1>5
  <2>2. x # y
    BY <2>1
  <2>3. <<y, x>> \in R
    BY <2>2
  <2> QED
    BY <2>1, <2>3, <1>6
<1>8. place \in [S -> 1..n]
  BY <1>4
<1>9. \A x, y \in S : place[x] = place[y] => x = y
  <2> SUFFICES ASSUME NEW x \in S, NEW y \in S, place[x] = place[y], x # y PROVE FALSE
    OBVIOUS
  <2>1. place[x] < place[y] \/ place[y] < place[x]
    BY <1>6
  <2>2. place[x] \in Int
    BY <1>5
  <2> HIDE DEF before
  <2> QED
    BY <2>1, <2>2
<1>10. place \in Injection(S, 1..n)
  BY <1>8, <1>9, Fun_IsInj
<1>11. place \in Surjection(S, 1..n)
  BY <1>0, <1>1, <1>10, FS_Injection
<1> QED
  BY <1>0, <1>6, <1>7, <1>10, <1>11 DEF Bijection

----------------------------------------------------------------------------
(* Concatenation: what is in it, and when each element is in it once.      *)

\* The values of a sequence, by their places.
LEMMA RangeOf ==
    ASSUME NEW T, NEW s \in Seq(T)
    PROVE  /\ Range(s) = {s[n] : n \in 1..Len(s)} /\ Range(s) \subseteq T
           /\ DOMAIN s = 1..Len(s) /\ Len(s) \in Nat
BY DEF Range

\* Two sequences one after the other: their values, and when none is there twice.
LEMMA Concatenated ==
    ASSUME NEW T, NEW s \in Seq(T), NEW t \in Seq(T)
    PROVE  /\ s \o t \in Seq(T)
           /\ Range(s \o t) = Range(s) \cup Range(t)
           /\ IsInjective(s \o t) <=>
                IsInjective(s) /\ IsInjective(t) /\ Range(s) \cap Range(t) = {}
<1> DEFINE u == s \o t
           N == Len(s)
<1>1. /\ u \in Seq(T) /\ Len(u) = N + Len(t) /\ N \in Nat /\ Len(t) \in Nat
      /\ \A n \in 1..N : u[n] = s[n]
      /\ \A n \in 1..Len(t) : u[N + n] = t[n]
      /\ DOMAIN u = 1..Len(u) /\ DOMAIN s = 1..N /\ DOMAIN t = 1..Len(t)
  OBVIOUS
<1> HIDE DEF u, N
<1>2. \A n \in 1..Len(u) : n \in 1..N \/ (n - N \in 1..Len(t) /\ N + (n - N) = n)
  BY <1>1
<1>3. /\ \A n \in 1..N : n \in 1..Len(u)
      /\ \A n \in 1..Len(t) : N + n \in 1..Len(u)
      /\ \A m \in 1..N, n \in 1..Len(t) : m # N + n
      /\ \A m, n \in 1..Len(t) : N + m = N + n => m = n
  BY <1>1
<1>i. /\ IsInjective(s) <=> \A k, l \in 1..N : s[k] = s[l] => k = l
      /\ IsInjective(t) <=> \A k, l \in 1..Len(t) : t[k] = t[l] => k = l
      /\ IsInjective(u) <=> \A k, l \in 1..Len(u) : u[k] = u[l] => k = l
  BY <1>1 DEF IsInjective
<1>4. Range(u) = Range(s) \cup Range(t)
  <2>1. ASSUME NEW x \in Range(u) PROVE x \in Range(s) \cup Range(t)
    <3>1. PICK n \in 1..Len(u) : x = u[n]
      BY <1>1, <2>1 DEF Range
    <3>2. CASE n \in 1..N
      BY <1>1, <3>1, <3>2 DEF Range
    <3>3. CASE n - N \in 1..Len(t) /\ N + (n - N) = n
      BY <1>1, <3>1, <3>3 DEF Range
    <3> QED
      BY <1>2, <3>2, <3>3
  <2>2. ASSUME NEW x \in Range(s) PROVE x \in Range(u)
    BY <1>1, <1>3, <2>2 DEF Range
  <2>3. ASSUME NEW x \in Range(t) PROVE x \in Range(u)
    BY <1>1, <1>3, <2>3 DEF Range
  <2> QED
    BY <2>1, <2>2, <2>3
<1>5. ASSUME IsInjective(u)
      PROVE  IsInjective(s) /\ IsInjective(t) /\ Range(s) \cap Range(t) = {}
  <2>1. IsInjective(s)
    BY <1>1, <1>3, <1>5, <1>i
  <2>2. IsInjective(t)
    <3> SUFFICES ASSUME NEW k \in 1..Len(t), NEW l \in 1..Len(t), t[k] = t[l] PROVE k = l
      BY <1>i
    <3>1. u[N + k] = u[N + l] /\ N + k \in 1..Len(u) /\ N + l \in 1..Len(u)
      BY <1>1, <1>3
    <3>2. N + k = N + l
      BY <1>5, <1>i, <3>1
    <3> QED
      BY <1>3, <3>2
  <2>3. ASSUME NEW m \in 1..N, NEW n \in 1..Len(t), s[m] = t[n] PROVE FALSE
    BY <1>1, <1>3, <1>5, <1>i, <2>3
  <2>4. Range(s) \cap Range(t) = {}
    BY <1>1, <2>3 DEF Range
  <2> QED
    BY <2>1, <2>2, <2>4
<1>6. ASSUME IsInjective(s), IsInjective(t), Range(s) \cap Range(t) = {}
      PROVE  IsInjective(u)
  <2>1. \A m \in 1..N, n \in 1..Len(t) : s[m] # t[n]
    BY <1>1, <1>6 DEF Range
  <2> SUFFICES ASSUME NEW m \in 1..Len(u), NEW n \in 1..Len(u), u[m] = u[n] PROVE m = n
    BY <1>i
  <2>2. CASE m \in 1..N /\ n \in 1..N
    BY <1>1, <1>6, <1>i, <2>2
  <2>3. CASE /\ m - N \in 1..Len(t) /\ N + (m - N) = m
             /\ n - N \in 1..Len(t) /\ N + (n - N) = n
    <3>1. u[m] = t[m - N] /\ u[n] = t[n - N]
      BY <1>1, <2>3
    <3>2. m - N = n - N
      BY <1>6, <1>i, <2>3, <3>1
    <3> QED
      BY <1>1, <2>3, <3>2
  <2>4. CASE m \in 1..N /\ n - N \in 1..Len(t) /\ N + (n - N) = n
    <3>1. u[m] = s[m] /\ u[n] = t[n - N]
      BY <1>1, <2>4
    <3> QED
      BY <2>1, <2>4, <3>1
  <2>5. CASE n \in 1..N /\ m - N \in 1..Len(t) /\ N + (m - N) = m
    <3>1. u[n] = s[n] /\ u[m] = t[m - N]
      BY <1>1, <2>5
    <3> QED
      BY <2>1, <2>5, <3>1
  <2> QED
    BY <1>2, <2>2, <2>3, <2>4, <2>5
<1> QED
  BY <1>1, <1>4, <1>5, <1>6 DEF u

----------------------------------------------------------------------------
(* FlattenSeq.                                                             *)

\* The function by which FlattenSeq is defined: at i, the first i sequences joined.
Flattener(seqs) ==
    CHOOSE f : f = [i \in 1..Len(seqs) |-> IF i = 1 THEN seqs[i] ELSE f[i - 1] \o seqs[i]]

\* FlattenSeq is that function at the last place.
LEMMA FlattenerIsLast ==
    ASSUME NEW seqs, Len(seqs) # 0
    PROVE  FlattenSeq(seqs) = Flattener(seqs)[Len(seqs)]
BY DEF FlattenSeq, Flattener

\* The recursive definition has a solution: one for m can be prolonged to m + 1.
LEMMA FlattenerExists ==
    ASSUME NEW seqs, Len(seqs) \in Nat
    PROVE  Flattener(seqs) =
             [i \in 1..Len(seqs) |->
                IF i = 1 THEN seqs[i] ELSE Flattener(seqs)[i - 1] \o seqs[i]]
<1> DEFINE Solves(f, m) == f = [i \in 1..m |-> IF i = 1 THEN seqs[i] ELSE f[i - 1] \o seqs[i]]
           S == {m \in Nat : \E f : Solves(f, m)}
<1> HIDE DEF Solves
<1>1. 0 \in S
  <2>1. Solves([i \in 1..0 |-> i], 0)
    BY DEF Solves
  <2> QED
    BY <2>1
<1>2. ASSUME NEW m \in S PROVE m + 1 \in S
  <2>1. m \in Nat /\ m + 1 \in Nat /\ \E f : Solves(f, m)
    OBVIOUS
  <2>2. PICK f : Solves(f, m)
    BY <2>1
  <2> DEFINE g == [i \in 1..(m + 1) |->
                     IF i \in 1..m THEN f[i]
                     ELSE IF i = 1 THEN seqs[i] ELSE f[i - 1] \o seqs[i]]
  <2>3. \A i \in 1..m : f[i] = IF i = 1 THEN seqs[i] ELSE f[i - 1] \o seqs[i]
    BY <2>2 DEF Solves
  <2>4. \A i \in 1..(m + 1) : i = 1 \/ (i - 1 \in 1..m /\ i - 1 \in 1..(m + 1))
    BY <2>1
  <2>5. \A i \in 1..m : g[i] = f[i]
    BY <2>1
  <2>6. \A i \in 1..(m + 1) : g[i] = IF i = 1 THEN seqs[i] ELSE g[i - 1] \o seqs[i]
    BY <2>3, <2>4, <2>5
  <2>7. g = [i \in 1..(m + 1) |-> g[i]]
    OBVIOUS
  <2> HIDE DEF g
  <2>8. Solves(g, m + 1)
    BY <2>6, <2>7 DEF Solves
  <2> QED
    BY <2>1, <2>8
<1>3. S = Nat
  BY <1>1, <1>2, Successors
<1>4. \E f : Solves(f, Len(seqs))
  BY <1>3
<1>5. Flattener(seqs) = CHOOSE f : Solves(f, Len(seqs))
  BY DEF Flattener, Solves
<1>6. Solves(Flattener(seqs), Len(seqs))
  BY <1>4, <1>5
<1> QED
  BY <1>6 DEF Solves

\* What a concatenation of many sequences holds, and when it holds each element once.
LEMMA Flattened ==
    ASSUME NEW T, NEW seqs \in Seq(Seq(T))
    PROVE  /\ FlattenSeq(seqs) \in Seq(T)
           /\ Range(FlattenSeq(seqs)) = UNION {Range(seqs[i]) : i \in 1..Len(seqs)}
           /\ IsInjective(FlattenSeq(seqs)) <=>
                /\ \A i \in 1..Len(seqs) : IsInjective(seqs[i])
                /\ \A i, j \in 1..Len(seqs) : i # j => Range(seqs[i]) \cap Range(seqs[j]) = {}
<1> DEFINE L == Len(seqs)
           f == Flattener(seqs)
           Holds(r, m) ==
             /\ r \in Seq(T)
             /\ Range(r) = UNION {Range(seqs[i]) : i \in 1..m}
             /\ IsInjective(r) <=>
                  /\ \A i \in 1..m : IsInjective(seqs[i])
                  /\ \A i, j \in 1..m : i # j => Range(seqs[i]) \cap Range(seqs[j]) = {}
           S == {n \in Nat : n + 1 <= L => Holds(f[n + 1], n + 1)}
<1>1. L \in Nat /\ \A i \in 1..L : seqs[i] \in Seq(T)
  OBVIOUS
<1>2. f = [i \in 1..L |-> IF i = 1 THEN seqs[i] ELSE f[i - 1] \o seqs[i]]
  BY <1>1, FlattenerExists
<1>3. CASE L = 0
  <2>1. FlattenSeq(seqs) = <<>> /\ 1..L = {}
    BY <1>3 DEF FlattenSeq
  <2>2. Range(<<>>) = {} /\ IsInjective(<<>>)
    BY DEF Range, IsInjective
  <2> QED
    BY <2>1, <2>2
<1> HIDE DEF f, L, Holds
<1>4. 0 \in S
  <2> SUFFICES ASSUME 1 <= L PROVE Holds(f[1], 1)
    OBVIOUS
  <2>1. f[1] = seqs[1] /\ 1..1 = {1} /\ seqs[1] \in Seq(T)
    BY <1>1, <1>2
  <2> QED
    BY <2>1 DEF Holds
<1>5. ASSUME NEW n \in S PROVE n + 1 \in S
  <2> DEFINE m == n + 1
  <2>0. m \in Nat /\ m >= 1
    OBVIOUS
  <2> SUFFICES ASSUME m + 1 <= L PROVE Holds(f[m + 1], m + 1)
    BY <2>0
  <2>1. Holds(f[m], m)
    BY <1>1, <2>0
  <2> HIDE DEF m
  <2>2. /\ m + 1 \in 1..L /\ m + 1 # 1 /\ (m + 1) - 1 = m /\ m + 1 \notin 1..m
        /\ 1..(m + 1) = (1..m) \cup {m + 1}
    BY <1>1, <2>0
  <2>3. f[m + 1] = f[m] \o seqs[m + 1] /\ seqs[m + 1] \in Seq(T)
    BY <1>1, <1>2, <2>2
  <2>4. f[m] \in Seq(T) /\ Range(f[m]) = UNION {Range(seqs[i]) : i \in 1..m}
    BY <2>1 DEF Holds
  <2>5. /\ f[m + 1] \in Seq(T)
        /\ Range(f[m + 1]) = Range(f[m]) \cup Range(seqs[m + 1])
        /\ IsInjective(f[m + 1]) <=>
             /\ IsInjective(f[m]) /\ IsInjective(seqs[m + 1])
             /\ Range(f[m]) \cap Range(seqs[m + 1]) = {}
    BY <2>3, <2>4, Concatenated
  <2>6. Range(f[m + 1]) = UNION {Range(seqs[i]) : i \in 1..(m + 1)}
    BY <2>2, <2>4, <2>5
  <2>7. Range(f[m]) \cap Range(seqs[m + 1]) = {} <=>
          \A i \in 1..m : Range(seqs[i]) \cap Range(seqs[m + 1]) = {}
    BY <2>4
  <2>8. IsInjective(f[m]) <=>
          /\ \A i \in 1..m : IsInjective(seqs[i])
          /\ \A i, j \in 1..m : i # j => Range(seqs[i]) \cap Range(seqs[j]) = {}
    BY <2>1 DEF Holds
  <2>9. IsInjective(f[m + 1]) <=>
          /\ \A i \in 1..(m + 1) : IsInjective(seqs[i])
          /\ \A i, j \in 1..(m + 1) : i # j => Range(seqs[i]) \cap Range(seqs[j]) = {}
    BY <2>2, <2>5, <2>7, <2>8
  <2> QED
    BY <2>5, <2>6, <2>9 DEF Holds
<1>6. CASE L # 0
  <2>1. S = Nat
    <3> HIDE DEF S
    <3>1. S \in SUBSET Nat
      BY DEF S
    <3> QED
      BY <1>4, <1>5, <3>1, Successors
  <2>2. L - 1 \in Nat /\ (L - 1) + 1 = L
    BY <1>1, <1>6
  <2>3. L - 1 \in S
    BY <2>1, <2>2
  <2>4. Holds(f[L], L)
    BY <1>1, <2>2, <2>3
  <2>5. FlattenSeq(seqs) = f[L]
    BY <1>6, FlattenerIsLast DEF f, L
  <2> QED
    BY <2>4, <2>5 DEF Holds, L
<1> QED
  BY <1>3, <1>6

----------------------------------------------------------------------------
(* The items.                                                              *)

\* What Items makes: groups and series are numbered, three priorities.
ItemType ==
    [group : Nat, kind : {"family", "revision"}, key : Key \cup {"none"},
     pair : Pair \cup {"none"}, priority : 1..3, sequence : Nat]

\* Counting up to each of its members enumerates a set of numbers.
LEMMA NthMember ==
    ASSUME NEW L \in Nat, NEW open, open \subseteq 1..L
    PROVE  LET nth(n) == CHOOSE m \in open : Cardinality(open \cap 1..m) = n
           IN  /\ Cardinality(open) \in Nat
               /\ \A n \in 1..Cardinality(open) : nth(n) \in open
               /\ \A m \in open : \E n \in 1..Cardinality(open) : nth(n) = m
               /\ \A n, l \in 1..Cardinality(open) : nth(n) = nth(l) => n = l
<1> DEFINE R == {p \in (1..L) \X (1..L) : p[1] < p[2]}
           place == [x \in open |-> 1 + Cardinality(Before(open, R, x))]
           C == Cardinality(open)
           nth(n) == CHOOSE m \in open : Cardinality(open \cap 1..m) = n
<1>1. IsFiniteSet(open) /\ C \in Nat
  <2>1. IsFiniteSet(1..L)
    BY FirstNumbers
  <2> QED
    BY <2>1, FS_Subset, FS_CardinalityType
<1>2. \A x, y \in open : <<x, y>> \in R <=> x < y
  OBVIOUS
<1>3. /\ \A x \in open : <<x, x>> \notin R
      /\ \A x, y \in open : x # y => <<x, y>> \in R \/ <<y, x>> \in R
      /\ \A x, y, z \in open : <<x, y>> \in R /\ <<y, z>> \in R => <<x, z>> \in R
  BY <1>2
<1>4. /\ DOMAIN place = open /\ place = [x \in DOMAIN place |-> place[x]]
      /\ \A x \in open : place[x] = 1 + Cardinality(Before(open, R, x))
  <2> HIDE DEF R
  <2> QED
    OBVIOUS
<1> HIDE DEF place, R
<1>5. /\ place \in Bijection(open, 1..Cardinality(open))
      /\ \A x, y \in open : <<x, y>> \in R <=> place[x] < place[y]
  <2>1. IsFiniteSet(open)
    BY <1>1
  <2> QED
    BY <1>3, <1>4, <2>1, PlacesAreABijection
<1>6. ASSUME NEW m \in open PROVE Cardinality(open \cap 1..m) = place[m]
  <2> DEFINE before == Before(open, R, m)
  <2>1. open \cap 1..m = before \cup {m} /\ m \notin before /\ before \in SUBSET open
    <3>1. before = {y \in open : y < m}
      BY <1>2 DEF Before
    <3> HIDE DEF before
    <3>2. m \in 1..L /\ \A y \in open : y \in 1..m <=> y < m \/ y = m
      OBVIOUS
    <3>3. open \cap 1..m = {y \in open : y < m} \cup {m}
      BY <3>2
    <3> QED
      BY <3>1, <3>2, <3>3
  <2>2. place[m] = 1 + Cardinality(before)
    BY <1>4
  <2> HIDE DEF before
  <2>3. IsFiniteSet(before)
    BY <1>1, <2>1, FS_Subset
  <2>4. Cardinality(before) \in Nat
    BY <2>3, FS_CardinalityType
  <2>5. Cardinality(before \cup {m}) = Cardinality(before) + 1
    BY <2>1, <2>3, FS_AddElement
  <2> QED
    BY <2>1, <2>2, <2>4, <2>5
<1>7. /\ \A m \in open : place[m] \in 1..C
      /\ \A m, l \in open : place[m] = place[l] => m = l
      /\ \A n \in 1..C : \E m \in open : place[m] = n
  BY <1>5 DEF Bijection, Injection, Surjection, IsInjective
<1>8. \A n \in 1..C : nth(n) \in open /\ Cardinality(open \cap 1..nth(n)) = n
  <2> TAKE n \in 1..C
  <2>1. \E m \in open : Cardinality(open \cap 1..m) = n
    BY <1>6, <1>7
  <2> QED
    BY <2>1
<1> HIDE DEF nth
<1>9. \A m \in open : nth(place[m]) = m /\ place[m] \in 1..C
  <2> TAKE m \in open
  <2>1. place[m] \in 1..C
    BY <1>7
  <2>2. nth(place[m]) \in open /\ place[nth(place[m])] = place[m]
    BY <1>6, <1>8, <2>1
  <2> QED
    BY <1>7, <2>1, <2>2
<1>10. /\ \A n \in 1..C : nth(n) \in open
       /\ \A m \in open : \E n \in 1..C : nth(n) = m
       /\ \A n, l \in 1..C : nth(n) = nth(l) => n = l
  BY <1>8, <1>9
<1> QED
  BY <1>1, <1>10 DEF nth

\* The gaps of an existing family: one item for each pair of its set that is not closed.
LEMMA GapsOf ==
    ASSUME NEW P \in PlanType, NEW F \in FamiliesType, NEW i \in DOMAIN P.groups, NEW k \in Key
    PROVE  LET pairs == P.sets[P.groups[i].set]
               gaps == Gaps(P, F, i, k)
           IN  /\ gaps \in Seq(ItemType)
               /\ \A q \in Range(gaps) :
                    /\ q.group = i /\ q.kind = "revision" /\ q.key = NameAt(F, k) /\ q.priority = 1
                    /\ q.pair \in Range(pairs) /\ ~Closed(F.families[k], q.pair)
               /\ \A p \in Range(pairs) :
                    ~Closed(F.families[k], p) => \E q \in Range(gaps) : q.pair = p
               /\ IsInjective(gaps)
               /\ IsInjective(pairs) =>
                    \A q, r \in Range(gaps) : q.pair = r.pair => q = r
<1> DEFINE pairs == P.sets[P.groups[i].set]
           open == {m \in DOMAIN pairs : ~Closed(F.families[k], pairs[m])}
           nth(n) == CHOOSE m \in open : Cardinality(open \cap 1..m) = n
           C == Cardinality(open)
           gaps == [n \in 1..C |-> Item(i, "revision", NameAt(F, k), pairs[nth(n)], 1, n)]
<1>1. /\ i \in Nat /\ P.groups[i] \in GroupType /\ P.groups[i].set \in SetId
      /\ pairs \in Seq(Pair)
  <2>1. P.groups \in Seq(GroupType) /\ P.sets \in [SetId -> Seq(Pair)]
    BY DEF PlanType
  <2>2. i \in Nat /\ P.groups[i] \in GroupType
    BY <2>1
  <2>3. P.groups[i].set \in SetId
    BY <2>2 DEF GroupType
  <2> QED
    BY <2>1, <2>2, <2>3
<1>2. pairs \in Seq(Pair) /\ Len(pairs) \in Nat /\ DOMAIN pairs = 1..Len(pairs)
  BY <1>1
<1>3. Gaps(P, F, i, k) = gaps
  BY DEF Gaps
<1> HIDE DEF pairs
<1>4. \A m \in DOMAIN pairs : m \in open <=> ~Closed(F.families[k], pairs[m])
  OBVIOUS
<1>5. open \in SUBSET (1..Len(pairs))
  BY <1>2
<1> HIDE DEF open
<1>6. /\ C \in Nat
      /\ \A n \in 1..C : nth(n) \in open
      /\ \A m \in open : \E n \in 1..C : nth(n) = m
      /\ \A n, l \in 1..C : nth(n) = nth(l) => n = l
  BY <1>2, <1>5, NthMember
<1> HIDE DEF nth, C
<1>7. NameAt(F, k) \in Key \cup {"none"}
  BY DEF NameAt
<1>8. \A n \in 1..C : nth(n) \in DOMAIN pairs /\ pairs[nth(n)] \in Pair
  <2>1. \A m \in open : m \in DOMAIN pairs /\ pairs[m] \in Pair
    BY <1>2, <1>5
  <2> QED
    BY <1>6, <2>1
<1>9. DOMAIN gaps = 1..C /\ \A n \in 1..C :
        gaps[n] = Item(i, "revision", NameAt(F, k), pairs[nth(n)], 1, n)
  OBVIOUS
<1>10. gaps \in Seq(ItemType)
  <2>1. \A n \in 1..C : gaps[n] \in ItemType
    BY <1>1, <1>6, <1>7, <1>8, <1>9 DEF Item, ItemType
  <2>2. gaps = [n \in 1..C |-> gaps[n]]
    OBVIOUS
  <2> HIDE DEF gaps
  <2> QED
    BY <1>6, <2>1, <2>2
<1> HIDE DEF gaps
<1>11. \A n \in 1..C :
         /\ gaps[n].group = i /\ gaps[n].kind = "revision" /\ gaps[n].key = NameAt(F, k)
         /\ gaps[n].priority = 1 /\ gaps[n].pair = pairs[nth(n)] /\ gaps[n].sequence = n
  BY <1>9 DEF Item
<1>12. \A q : q \in Range(gaps) <=> \E n \in 1..C : q = gaps[n]
  BY <1>9 DEF Range
<1>13. ASSUME NEW q \in Range(gaps)
       PROVE  /\ q.group = i /\ q.kind = "revision" /\ q.key = NameAt(F, k) /\ q.priority = 1
              /\ q.pair \in Range(pairs) /\ ~Closed(F.families[k], q.pair)
  <2>1. PICK n \in 1..C : q = gaps[n]
    BY <1>12
  <2>2. q.pair = pairs[nth(n)] /\ nth(n) \in DOMAIN pairs /\ nth(n) \in open
    BY <1>6, <1>8, <1>11, <2>1
  <2>3. q.pair \in Range(pairs)
    BY <2>2 DEF Range
  <2>4. ~Closed(F.families[k], q.pair)
    BY <1>4, <2>2
  <2> QED
    BY <1>11, <2>1, <2>3, <2>4
<1>14. ASSUME NEW p \in Range(pairs), ~Closed(F.families[k], p)
       PROVE  \E q \in Range(gaps) : q.pair = p
  <2>1. PICK m \in DOMAIN pairs : p = pairs[m]
    BY DEF Range
  <2>2. m \in open
    BY <1>4, <1>14, <2>1
  <2>3. PICK n \in 1..C : nth(n) = m
    BY <1>6, <2>2
  <2> QED
    BY <1>11, <1>12, <2>1, <2>3
<1>15. IsInjective(gaps)
  <2> SUFFICES ASSUME NEW n \in 1..C, NEW l \in 1..C, gaps[n] = gaps[l] PROVE n = l
    BY <1>9 DEF IsInjective, gaps
  <2> QED
    BY <1>11
<1>16. ASSUME IsInjective(pairs), NEW q \in Range(gaps), NEW r \in Range(gaps), q.pair = r.pair
       PROVE  q = r
  <2>1. PICK n \in 1..C : q = gaps[n]
    BY <1>12
  <2>2. PICK l \in 1..C : r = gaps[l]
    BY <1>12
  <2>3. pairs[nth(n)] = pairs[nth(l)] /\ nth(n) \in DOMAIN pairs /\ nth(l) \in DOMAIN pairs
    BY <1>8, <1>11, <1>16, <2>1, <2>2
  <2>4. nth(n) = nth(l)
    BY <1>16, <2>3 DEF IsInjective
  <2> QED
    BY <1>6, <2>1, <2>2, <2>4
<1> QED
  BY <1>3, <1>10, <1>13, <1>14, <1>15, <1>16 DEF pairs

\* What is to author for a planned family: the family, and one item for each pair of its set.
LEMMA AuthoringOf ==
    ASSUME NEW P \in PlanType, NEW i \in DOMAIN P.groups, NEW n \in DOMAIN P.groups[i].planned
    PROVE  LET pairs == P.sets[P.groups[i].set]
               work == Authoring(P, i, n)
           IN  /\ work \in Seq(ItemType)
               /\ \A q \in Range(work) :
                    /\ q.group = i /\ q.key = P.groups[i].planned[n]
                    /\ \/ q.kind = "family" /\ q.priority = 2 /\ q.pair = "none"
                       \/ q.kind = "revision" /\ q.priority = 3 /\ q.pair \in Range(pairs)
               /\ \A p \in Range(pairs) \cup {"none"} : \E q \in Range(work) : q.pair = p
               /\ IsInjective(work)
               /\ IsInjective(pairs) =>
                    \A q, r \in Range(work) : q.pair = r.pair => q = r
<1> DEFINE key == P.groups[i].planned[n]
           pairs == P.sets[P.groups[i].set]
           C == Len(pairs)
           head == Item(i, "family", key, "none", 2, n)
           first == <<head>>
           rest == [m \in DOMAIN pairs |-> Item(i, "revision", key, pairs[m], 3, m)]
<1>1. /\ i \in Nat /\ n \in Nat /\ key \in Key
      /\ pairs \in Seq(Pair)
  <2>1. P.groups \in Seq(GroupType) /\ P.sets \in [SetId -> Seq(Pair)]
    BY DEF PlanType
  <2>2. i \in Nat /\ P.groups[i] \in GroupType
    BY <2>1
  <2>3. P.groups[i].set \in SetId /\ P.groups[i].planned \in Seq(Key)
    BY <2>2 DEF GroupType
  <2> QED
    BY <2>1, <2>2, <2>3
<1>2. Authoring(P, i, n) = first \o rest
  BY DEF Authoring
<1> HIDE DEF pairs, key
<1>3. C \in Nat /\ DOMAIN pairs = 1..C /\ \A m \in 1..C : pairs[m] \in Pair
  BY <1>1
<1>c. "none" \notin Pair
  BY ConstantAssumption
<1> HIDE DEF C
<1>4. DOMAIN rest = 1..C /\ \A m \in 1..C : rest[m] = Item(i, "revision", key, pairs[m], 3, m)
  BY <1>3
<1>5. rest \in Seq(ItemType)
  <2>1. \A m \in 1..C : rest[m] \in ItemType
    BY <1>1, <1>3, <1>4 DEF Item, ItemType
  <2>2. rest = [m \in 1..C |-> rest[m]]
    BY <1>3
  <2> HIDE DEF rest
  <2> QED
    BY <1>3, <2>1, <2>2
<1> HIDE DEF rest
<1>6. \A m \in 1..C :
        /\ rest[m].group = i /\ rest[m].kind = "revision" /\ rest[m].key = key
        /\ rest[m].priority = 3 /\ rest[m].pair = pairs[m] /\ rest[m].sequence = m
  BY <1>4 DEF Item
<1>7. \A q : q \in Range(rest) <=> \E m \in 1..C : q = rest[m]
  BY <1>4 DEF Range
<1>8. head.group = i /\ head.kind = "family" /\ head.key = key /\ head.priority = 2 /\ head.pair = "none"
  BY DEF Item
<1>9. head \in ItemType
  BY <1>1 DEF Item, ItemType
<1> HIDE DEF head
<1>10. first \in Seq(ItemType) /\ Range(first) = {head} /\ IsInjective(first)
  BY <1>9 DEF Range, IsInjective
<1> HIDE DEF first
<1>11. IsInjective(rest)
  <2> SUFFICES ASSUME NEW m \in 1..C, NEW l \in 1..C, rest[m] = rest[l] PROVE m = l
    BY <1>4 DEF IsInjective
  <2> QED
    BY <1>6
<1>12. head \notin Range(rest)
  BY <1>6, <1>7, <1>8
<1> DEFINE work == first \o rest
<1>13. /\ work \in Seq(ItemType) /\ Range(work) = {head} \cup Range(rest) /\ IsInjective(work)
  <2>1. Range(first) \cap Range(rest) = {}
    BY <1>10, <1>12
  <2> QED
    BY <1>5, <1>10, <1>11, <2>1, Concatenated
<1> HIDE DEF work
<1>14. ASSUME NEW q \in Range(work)
       PROVE  /\ q.group = i /\ q.key = key
              /\ \/ q.kind = "family" /\ q.priority = 2 /\ q.pair = "none"
                 \/ q.kind = "revision" /\ q.priority = 3 /\ q.pair \in Range(pairs)
  <2>1. CASE q = head
    BY <1>8, <2>1
  <2>2. CASE q \in Range(rest)
    <3>1. PICK m \in 1..C : q = rest[m]
      BY <1>7, <2>2
    <3>2. q.pair \in Range(pairs)
      BY <1>3, <1>6, <3>1 DEF Range
    <3> QED
      BY <1>6, <3>1, <3>2
  <2> QED
    BY <1>13, <2>1, <2>2
<1>15. ASSUME NEW p \in Range(pairs) \cup {"none"} PROVE \E q \in Range(work) : q.pair = p
  <2>1. CASE p = "none"
    BY <1>8, <1>13, <2>1
  <2>2. CASE p \in Range(pairs)
    <3>1. PICK m \in 1..C : p = pairs[m]
      BY <1>3, <2>2 DEF Range
    <3> QED
      BY <1>6, <1>7, <1>13, <3>1
  <2> QED
    BY <2>1, <2>2
<1>16. ASSUME IsInjective(pairs), NEW q \in Range(work), NEW r \in Range(work), q.pair = r.pair
       PROVE  q = r
  <2>1. \A p \in Range(pairs) : p # "none"
    BY <1>3, <1>c DEF Range
  <2>2. \A x \in Range(rest) : \E m \in 1..C : x = rest[m] /\ x.pair = pairs[m]
    BY <1>6, <1>7
  <2>3. CASE q = head \/ r = head
    BY <1>3, <1>8, <1>c, <1>13, <1>16, <2>2, <2>3
  <2>4. CASE q \in Range(rest) /\ r \in Range(rest)
    <3>1. PICK m \in 1..C : q = rest[m] /\ q.pair = pairs[m]
      BY <2>2, <2>4
    <3>2. PICK l \in 1..C : r = rest[l] /\ r.pair = pairs[l]
      BY <2>2, <2>4
    <3>3. m = l
      BY <1>3, <1>16, <3>1, <3>2 DEF IsInjective
    <3> QED
      BY <3>1, <3>2, <3>3
  <2> QED
    BY <1>13, <2>3, <2>4
<1> QED
  BY <1>2, <1>13, <1>14, <1>15, <1>16 DEF work, pairs, key

\* The items of one group.
OfGroup(P, F, i) ==
    LET g == P.groups[i]
    IN  FlattenSeq([n \in DOMAIN g.existing |-> Gaps(P, F, i, g.existing[n])])
        \o FlattenSeq([n \in DOMAIN g.planned |-> Authoring(P, i, n)])

\* The gaps of its existing families and the work on its planned ones; each item once, when
\* the group has each key once and its existing families are in the manifest.
LEMMA GroupItems ==
    ASSUME NEW P \in PlanType, NEW F \in FamiliesType, NEW i \in DOMAIN P.groups
    PROVE  LET g == P.groups[i]
           IN  /\ OfGroup(P, F, i) \in Seq(ItemType)
               /\ \A q : q \in Range(OfGroup(P, F, i)) <=>
                    \/ \E n \in DOMAIN g.existing : q \in Range(Gaps(P, F, i, g.existing[n]))
                    \/ \E n \in DOMAIN g.planned : q \in Range(Authoring(P, i, n))
               /\ IsInjective(g.existing) /\ IsInjective(g.planned)
                    /\ Range(g.existing) \subseteq Listed(F) => IsInjective(OfGroup(P, F, i))
<1> DEFINE g == P.groups[i]
           A == Len(g.existing)
           B == Len(g.planned)
           a == [n \in DOMAIN g.existing |-> Gaps(P, F, i, g.existing[n])]
           b == [n \in DOMAIN g.planned |-> Authoring(P, i, n)]
<1>1. /\ g.existing \in Seq(Key) /\ g.planned \in Seq(Key)
  <2>1. g \in GroupType
    BY DEF PlanType
  <2> QED
    BY <2>1 DEF GroupType
<1>2. /\ A \in Nat /\ DOMAIN g.existing = 1..A /\ \A n \in 1..A : g.existing[n] \in Key
      /\ B \in Nat /\ DOMAIN g.planned = 1..B /\ \A n \in 1..B : g.planned[n] \in Key
  BY <1>1
<1> HIDE DEF A, B
<1>3. \A n \in 1..A : a[n] = Gaps(P, F, i, g.existing[n]) /\ a[n] \in Seq(ItemType)
  <2> TAKE n \in 1..A
  <2>1. g.existing[n] \in Key /\ n \in DOMAIN g.existing
    BY <1>2
  <2> HIDE DEF g
  <2>2. a[n] = Gaps(P, F, i, g.existing[n])
    BY <2>1
  <2> QED
    BY <2>1, <2>2, GapsOf
<1>4. \A n \in 1..B : b[n] = Authoring(P, i, n) /\ b[n] \in Seq(ItemType)
  <2> TAKE n \in 1..B
  <2>1. n \in DOMAIN P.groups[i].planned
    BY <1>2
  <2>2. b[n] = Authoring(P, i, n)
    BY <2>1
  <2> QED
    BY <2>1, <2>2, AuthoringOf
<1>5. a \in Seq(Seq(ItemType)) /\ Len(a) = A
  <2>1. a = [n \in 1..A |-> a[n]]
    BY <1>2
  <2> HIDE DEF a
  <2> QED
    BY <1>2, <1>3, <2>1
<1>6. b \in Seq(Seq(ItemType)) /\ Len(b) = B
  <2>1. b = [n \in 1..B |-> b[n]]
    BY <1>2
  <2> HIDE DEF b
  <2> QED
    BY <1>2, <1>4, <2>1
<1>7. OfGroup(P, F, i) = FlattenSeq(a) \o FlattenSeq(b)
  BY DEF OfGroup
<1> HIDE DEF a, b
<1>8. /\ FlattenSeq(a) \in Seq(ItemType)
      /\ Range(FlattenSeq(a)) = UNION {Range(a[n]) : n \in 1..A}
      /\ IsInjective(FlattenSeq(a)) <=>
           /\ \A n \in 1..A : IsInjective(a[n])
           /\ \A n, l \in 1..A : n # l => Range(a[n]) \cap Range(a[l]) = {}
  BY <1>5, Flattened
<1>9. /\ FlattenSeq(b) \in Seq(ItemType)
      /\ Range(FlattenSeq(b)) = UNION {Range(b[n]) : n \in 1..B}
      /\ IsInjective(FlattenSeq(b)) <=>
           /\ \A n \in 1..B : IsInjective(b[n])
           /\ \A n, l \in 1..B : n # l => Range(b[n]) \cap Range(b[l]) = {}
  BY <1>6, Flattened
<1>10. /\ OfGroup(P, F, i) \in Seq(ItemType)
       /\ Range(OfGroup(P, F, i)) = Range(FlattenSeq(a)) \cup Range(FlattenSeq(b))
       /\ IsInjective(OfGroup(P, F, i)) <=>
            /\ IsInjective(FlattenSeq(a)) /\ IsInjective(FlattenSeq(b))
            /\ Range(FlattenSeq(a)) \cap Range(FlattenSeq(b)) = {}
  <2> DEFINE s == FlattenSeq(a)
             t == FlattenSeq(b)
  <2>1. s \in Seq(ItemType) /\ t \in Seq(ItemType) /\ OfGroup(P, F, i) = s \o t
    BY <1>7, <1>8, <1>9
  <2> HIDE DEF s, t
  <2>2. /\ s \o t \in Seq(ItemType)
        /\ Range(s \o t) = Range(s) \cup Range(t)
        /\ IsInjective(s \o t) <=>
             IsInjective(s) /\ IsInjective(t) /\ Range(s) \cap Range(t) = {}
    BY <2>1, Concatenated
  <2> QED
    BY <2>1, <2>2 DEF s, t
<1>11. \A q : q \in Range(OfGroup(P, F, i)) <=>
          \/ \E n \in DOMAIN g.existing : q \in Range(Gaps(P, F, i, g.existing[n]))
          \/ \E n \in DOMAIN g.planned : q \in Range(Authoring(P, i, n))
  <2>1. \A q : q \in Range(FlattenSeq(a)) <=>
          \E n \in DOMAIN g.existing : q \in Range(Gaps(P, F, i, g.existing[n]))
    BY <1>2, <1>3, <1>8
  <2>2. \A q : q \in Range(FlattenSeq(b)) <=>
          \E n \in DOMAIN g.planned : q \in Range(Authoring(P, i, n))
    BY <1>2, <1>4, <1>9
  <2> QED
    BY <1>10, <2>1, <2>2
<1>12. /\ \A n \in 1..A : IsInjective(a[n]) /\ \A q \in Range(a[n]) :
                            q.key = NameAt(F, g.existing[n]) /\ q.priority = 1
       /\ \A n \in 1..B : IsInjective(b[n]) /\ \A q \in Range(b[n]) :
                            q.key = g.planned[n] /\ q.priority \in {2, 3}
  <2>1. ASSUME NEW n \in 1..A
        PROVE  IsInjective(a[n]) /\ \A q \in Range(a[n]) :
                 q.key = NameAt(F, g.existing[n]) /\ q.priority = 1
    BY <1>2, <1>3, GapsOf
  <2>2. ASSUME NEW n \in 1..B
        PROVE  IsInjective(b[n]) /\ \A q \in Range(b[n]) :
                 q.key = g.planned[n] /\ q.priority \in {2, 3}
    BY <1>2, <1>4, AuthoringOf
  <2> QED
    BY <2>1, <2>2
<1>13. ASSUME IsInjective(g.existing), IsInjective(g.planned), Range(g.existing) \subseteq Listed(F)
       PROVE  IsInjective(OfGroup(P, F, i))
  <2>1. \A n \in 1..A : NameAt(F, g.existing[n]) = g.existing[n]
    BY <1>2, <1>13 DEF NameAt, Range
  <2>2. \A n, l \in 1..A : n # l => Range(a[n]) \cap Range(a[l]) = {}
    <3>1. \A n, l \in 1..A : n # l => g.existing[n] # g.existing[l]
      BY <1>2, <1>13 DEF IsInjective
    <3> QED
      BY <1>12, <2>1, <3>1
  <2>3. \A n, l \in 1..B : n # l => Range(b[n]) \cap Range(b[l]) = {}
    <3>1. \A n, l \in 1..B : n # l => g.planned[n] # g.planned[l]
      BY <1>2, <1>13 DEF IsInjective
    <3> QED
      BY <1>12, <3>1
  <2>4. Range(FlattenSeq(a)) \cap Range(FlattenSeq(b)) = {}
    <3> SUFFICES ASSUME NEW q \in Range(FlattenSeq(a)), q \in Range(FlattenSeq(b)) PROVE FALSE
      OBVIOUS
    <3>1. PICK n \in 1..A : q \in Range(a[n])
      BY <1>8
    <3>2. PICK l \in 1..B : q \in Range(b[l])
      BY <1>9
    <3> QED
      BY <1>12, <3>1, <3>2
  <2> QED
    BY <1>8, <1>9, <1>10, <1>12, <2>2, <2>3, <2>4
<1> QED
  BY <1>10, <1>11, <1>13

\* A valid plan has each key once: in one series of one group.
LEMMA KeysOnce ==
    ASSUME NEW P \in PlanType, IsInjective(AllKeys(P))
    PROVE  /\ \A i \in DOMAIN P.groups :
                /\ IsInjective(P.groups[i].existing) /\ IsInjective(P.groups[i].planned)
                /\ Range(P.groups[i].existing) \cap Range(P.groups[i].planned) = {}
           /\ \A i, j \in DOMAIN P.groups : i # j =>
                (Range(P.groups[i].existing) \cup Range(P.groups[i].planned))
                    \cap (Range(P.groups[j].existing) \cup Range(P.groups[j].planned)) = {}
<1> DEFINE L == Len(P.groups)
           keys == [i \in DOMAIN P.groups |-> P.groups[i].existing \o P.groups[i].planned]
           all == FlattenSeq(keys)
<1>1. L \in Nat /\ DOMAIN P.groups = 1..L /\ P.superseded \in Seq(Key)
  BY DEF PlanType
<1>2. \A i \in 1..L : P.groups[i].existing \in Seq(Key) /\ P.groups[i].planned \in Seq(Key)
  <2> TAKE i \in 1..L
  <2>1. P.groups[i] \in GroupType
    BY <1>1 DEF PlanType
  <2> QED
    BY <2>1 DEF GroupType
<1> HIDE DEF L
<1>3. \A i \in 1..L :
        /\ keys[i] = P.groups[i].existing \o P.groups[i].planned /\ keys[i] \in Seq(Key)
        /\ Range(keys[i]) = Range(P.groups[i].existing) \cup Range(P.groups[i].planned)
        /\ IsInjective(keys[i]) <=>
             /\ IsInjective(P.groups[i].existing) /\ IsInjective(P.groups[i].planned)
             /\ Range(P.groups[i].existing) \cap Range(P.groups[i].planned) = {}
  <2> TAKE i \in 1..L
  <2> DEFINE s == P.groups[i].existing
             t == P.groups[i].planned
  <2>1. s \in Seq(Key) /\ t \in Seq(Key) /\ keys[i] = s \o t
    BY <1>1, <1>2
  <2> HIDE DEF s, t
  <2>2. /\ s \o t \in Seq(Key)
        /\ Range(s \o t) = Range(s) \cup Range(t)
        /\ IsInjective(s \o t) <=>
             IsInjective(s) /\ IsInjective(t) /\ Range(s) \cap Range(t) = {}
    BY <2>1, Concatenated
  <2> QED
    BY <2>1, <2>2 DEF s, t
<1>4. keys \in Seq(Seq(Key)) /\ Len(keys) = L
  <2>1. keys = [i \in 1..L |-> keys[i]]
    BY <1>1
  <2>2. \A i \in 1..L : keys[i] \in Seq(Key)
    BY <1>3
  <2> HIDE DEF keys
  <2> QED
    BY <1>1, <2>1, <2>2
<1>5. AllKeys(P) = all \o P.superseded
  BY DEF AllKeys
<1> HIDE DEF keys
<1>6. /\ all \in Seq(Key)
      /\ IsInjective(all) <=>
           /\ \A i \in 1..L : IsInjective(keys[i])
           /\ \A i, j \in 1..L : i # j => Range(keys[i]) \cap Range(keys[j]) = {}
  BY <1>4, Flattened
<1> HIDE DEF all
<1>7. IsInjective(all)
  BY <1>1, <1>5, <1>6, Concatenated
<1> QED
  BY <1>1, <1>3, <1>6, <1>7

\* The items are those of its groups.
LEMMA ItemsOf ==
    ASSUME NEW P \in PlanType, NEW F \in FamiliesType
    PROVE  /\ Items(P, F) \in Seq(ItemType)
           /\ \A q : q \in Range(Items(P, F)) <=>
                \E i \in DOMAIN P.groups : q \in Range(OfGroup(P, F, i))
           /\ IsInjective(Items(P, F)) <=>
                /\ \A i \in DOMAIN P.groups : IsInjective(OfGroup(P, F, i))
                /\ \A i, j \in DOMAIN P.groups : i # j =>
                     Range(OfGroup(P, F, i)) \cap Range(OfGroup(P, F, j)) = {}
<1> DEFINE L == Len(P.groups)
           parts == [i \in DOMAIN P.groups |-> OfGroup(P, F, i)]
<1>1. L \in Nat /\ DOMAIN P.groups = 1..L
  BY DEF PlanType
<1> HIDE DEF L
<1>2. \A i \in 1..L : parts[i] = OfGroup(P, F, i) /\ parts[i] \in Seq(ItemType)
  BY <1>1, GroupItems
<1>3. parts \in Seq(Seq(ItemType)) /\ Len(parts) = L
  <2>1. parts = [i \in 1..L |-> parts[i]]
    BY <1>1
  <2> HIDE DEF parts
  <2> QED
    BY <1>1, <1>2, <2>1
<1>4. Items(P, F) = FlattenSeq(parts)
  BY DEF Items, OfGroup
<1> HIDE DEF parts
<1>5. /\ FlattenSeq(parts) \in Seq(ItemType)
      /\ Range(FlattenSeq(parts)) = UNION {Range(parts[i]) : i \in 1..L}
      /\ IsInjective(FlattenSeq(parts)) <=>
           /\ \A i \in 1..L : IsInjective(parts[i])
           /\ \A i, j \in 1..L : i # j => Range(parts[i]) \cap Range(parts[j]) = {}
  BY <1>3, Flattened
<1>6. \A q : q \in Range(Items(P, F)) <=>
         \E i \in DOMAIN P.groups : q \in Range(OfGroup(P, F, i))
  BY <1>1, <1>2, <1>4, <1>5
<1>7. IsInjective(Items(P, F)) <=>
        /\ \A i \in 1..L : IsInjective(OfGroup(P, F, i))
        /\ \A i, j \in 1..L : i # j =>
             Range(OfGroup(P, F, i)) \cap Range(OfGroup(P, F, j)) = {}
  <2>1. \A i \in 1..L : parts[i] = OfGroup(P, F, i)
    BY <1>2
  <2>2. IsInjective(Items(P, F)) <=>
          /\ \A i \in 1..L : IsInjective(parts[i])
          /\ \A i, j \in 1..L : i # j => Range(parts[i]) \cap Range(parts[j]) = {}
    BY <1>4, <1>5
  <2> QED
    BY ONLY <2>1, <2>2
<1>8. Items(P, F) \in Seq(ItemType)
  BY <1>4, <1>5
<1> QED
  BY <1>1, <1>6, <1>7, <1>8

\* Of a valid plan there is one item for each family and pair, and none is there twice.
LEMMA ItemsOnce ==
    ASSUME NEW P \in PlanType, NEW F \in FamiliesType, ValidPlan(P, F)
    PROVE  /\ IsInjective(Items(P, F))
           /\ \A q, r \in Range(Items(P, F)) : q.key = r.key /\ q.pair = r.pair => q = r
<1> DEFINE D == DOMAIN P.groups
           Mine(i) == Range(P.groups[i].existing) \cup Range(P.groups[i].planned)
<1>1. /\ \A i \in D : /\ IsInjective(P.groups[i].existing) /\ IsInjective(P.groups[i].planned)
                      /\ Range(P.groups[i].existing) \cap Range(P.groups[i].planned) = {}
      /\ \A i, j \in D : i # j => Mine(i) \cap Mine(j) = {}
  BY KeysOnce DEF ValidPlan, Classified
<1>2. \A i \in D : Range(P.groups[i].existing) \subseteq Listed(F)
  <2> TAKE i \in D
  <2>1. \A k \in Range(P.groups[i].existing) : F.families[k].status = "released"
    BY DEF ValidPlan, ValidGroup
  <2>2. Range(P.groups[i].existing) \subseteq Key
    <3>1. P.groups[i] \in GroupType
      BY DEF PlanType
    <3>2. P.groups[i].existing \in Seq(Key)
      BY <3>1 DEF GroupType
    <3> QED
      BY <3>2, RangeOf
  <2> QED
    BY <2>1, <2>2 DEF Listed
<1>3. \A i \in D : IsInjective(P.sets[P.groups[i].set])
  <2> TAKE i \in D
  <2>1. P.groups[i] \in GroupType
    BY DEF PlanType
  <2>2. P.groups[i].set \in SetId
    BY <2>1 DEF GroupType
  <2> QED
    BY <2>2 DEF ValidPlan, ValidSets
<1>4. ASSUME NEW i \in D, NEW n \in DOMAIN P.groups[i].existing
      PROVE  /\ P.groups[i].existing[n] \in Range(P.groups[i].existing) /\ P.groups[i].existing[n] \in Key
             /\ NameAt(F, P.groups[i].existing[n]) = P.groups[i].existing[n]
  <2>1. P.groups[i].existing[n] \in Range(P.groups[i].existing)
    BY DEF Range
  <2>2. P.groups[i].existing[n] \in Listed(F)
    BY <1>2, <2>1
  <2> QED
    BY <2>1, <2>2 DEF Listed, NameAt
<1>5. ASSUME NEW i \in D, NEW n \in DOMAIN P.groups[i].planned
      PROVE  P.groups[i].planned[n] \in Range(P.groups[i].planned)
  BY DEF Range
<1>6. \A q \in Range(Items(P, F)) :
        \E i \in D :
          \/ \E n \in DOMAIN P.groups[i].existing : q \in Range(Gaps(P, F, i, P.groups[i].existing[n]))
          \/ \E n \in DOMAIN P.groups[i].planned : q \in Range(Authoring(P, i, n))
  BY ItemsOf, GroupItems
<1>7. ASSUME NEW i \in D, NEW n \in DOMAIN P.groups[i].existing, NEW q,
             q \in Range(Gaps(P, F, i, P.groups[i].existing[n]))
      PROVE  q.group = i /\ q.key = P.groups[i].existing[n]
  BY <1>4, <1>7, GapsOf
<1>8. ASSUME NEW i \in D, NEW n \in DOMAIN P.groups[i].planned, NEW q,
             q \in Range(Authoring(P, i, n))
      PROVE  q.group = i /\ q.key = P.groups[i].planned[n]
  BY <1>8, AuthoringOf
<1>9. IsInjective(Items(P, F))
  <2>1. \A i \in D : IsInjective(OfGroup(P, F, i))
    BY <1>1, <1>2, GroupItems
  <2>2. \A i \in D : \A q \in Range(OfGroup(P, F, i)) : q.group = i
    BY <1>7, <1>8, GroupItems
  <2> QED
    BY <2>1, <2>2, ItemsOf
<1>10. ASSUME NEW q \in Range(Items(P, F)), NEW r \in Range(Items(P, F)),
              q.key = r.key, q.pair = r.pair
       PROVE  q = r
  <2>1. PICK i \in D :
          \/ \E n \in DOMAIN P.groups[i].existing : q \in Range(Gaps(P, F, i, P.groups[i].existing[n]))
          \/ \E n \in DOMAIN P.groups[i].planned : q \in Range(Authoring(P, i, n))
    BY <1>6
  <2>2. PICK j \in D :
          \/ \E n \in DOMAIN P.groups[j].existing : r \in Range(Gaps(P, F, j, P.groups[j].existing[n]))
          \/ \E n \in DOMAIN P.groups[j].planned : r \in Range(Authoring(P, j, n))
    BY <1>6
  <2>3. q.key \in Mine(i) /\ r.key \in Mine(j)
    BY <1>4, <1>5, <1>7, <1>8, <2>1, <2>2
  <2>4. i = j
    BY <1>1, <1>10, <2>3
  <2>5. ASSUME NEW n \in DOMAIN P.groups[i].existing, q \in Range(Gaps(P, F, i, P.groups[i].existing[n]))
        PROVE  q = r
    <3>1. q.key = P.groups[i].existing[n] /\ q.key \in Range(P.groups[i].existing)
      BY <1>4, <1>7, <2>5
    <3>2. PICK l \in DOMAIN P.groups[i].existing : r \in Range(Gaps(P, F, i, P.groups[i].existing[l]))
      <4>1. ASSUME NEW l \in DOMAIN P.groups[i].planned, r \in Range(Authoring(P, i, l)) PROVE FALSE
        <5>1. q.key \in Range(P.groups[i].planned)
          BY <1>5, <1>8, <1>10, <4>1
        <5> QED
          BY <1>1, <3>1, <5>1
      <4> QED
        BY <2>2, <2>4, <4>1
    <3>3. P.groups[i].existing[n] = P.groups[i].existing[l]
      BY <1>7, <1>10, <3>1, <3>2
    <3>4. q \in Range(Gaps(P, F, i, P.groups[i].existing[n])) /\ r \in Range(Gaps(P, F, i, P.groups[i].existing[n]))
      BY <2>5, <3>2, <3>3
    <3> QED
      BY <1>3, <1>4, <1>10, <3>4, GapsOf
  <2>6. ASSUME NEW n \in DOMAIN P.groups[i].planned, q \in Range(Authoring(P, i, n))
        PROVE  q = r
    <3>1. q.key = P.groups[i].planned[n] /\ q.key \in Range(P.groups[i].planned)
      BY <1>5, <1>8, <2>6
    <3>2. PICK l \in DOMAIN P.groups[i].planned : r \in Range(Authoring(P, i, l))
      <4>1. ASSUME NEW l \in DOMAIN P.groups[i].existing,
                   r \in Range(Gaps(P, F, i, P.groups[i].existing[l]))
            PROVE  FALSE
        <5>1. q.key \in Range(P.groups[i].existing)
          BY <1>4, <1>7, <1>10, <4>1
        <5> QED
          BY <1>1, <3>1, <5>1
      <4> QED
        BY <2>2, <2>4, <4>1
    <3>3. P.groups[i].planned[n] = P.groups[i].planned[l]
      <4>1. r.key = P.groups[i].planned[l]
        BY <1>8, <3>2
      <4> QED
        BY <1>10, <3>1, <4>1
    <3>4. n = l
      BY <1>1, <3>3 DEF IsInjective
    <3> QED
      BY <1>3, <1>10, <2>6, <3>2, <3>4, AuthoringOf
  <2> QED
    BY <2>1, <2>5, <2>6
<1> QED
  BY <1>9, <1>10

\* Is there an item of group i for the key and the pair?
HasItem(P, F, i, kind, k, p) ==
    \E q \in Range(Items(P, F)) : q.group = i /\ q.kind = kind /\ q.key = k /\ q.pair = p

\* The items of a valid plan, by the manifest it is valid against: of each existing family the
\* open pairs of its set, of each planned one the family and every pair of its set.
LEMMA ItemsAre ==
    ASSUME NEW P \in PlanType, NEW F \in FamiliesType, ValidPlan(P, F)
    PROVE  /\ \A q \in Range(Items(P, F)) :
                /\ q.group \in DOMAIN P.groups
                /\ \/ /\ q.kind = "revision" /\ q.pair \in ExpectedSets[P.groups[q.group].set]
                      /\ \/ /\ q.key \in Range(P.groups[q.group].existing)
                            /\ ~Closed(F.families[q.key], q.pair)
                         \/ q.key \in Range(P.groups[q.group].planned)
                   \/ q.kind = "family" /\ q.pair = "none" /\ q.key \in Range(P.groups[q.group].planned)
           /\ \A i \in DOMAIN P.groups :
                \A k \in Range(P.groups[i].existing), p \in ExpectedSets[P.groups[i].set] :
                  ~Closed(F.families[k], p) => HasItem(P, F, i, "revision", k, p)
           /\ \A i \in DOMAIN P.groups :
                \A k \in Range(P.groups[i].planned), p \in ExpectedSets[P.groups[i].set] :
                  HasItem(P, F, i, "revision", k, p)
           /\ \A i \in DOMAIN P.groups : \A k \in Range(P.groups[i].planned) :
                HasItem(P, F, i, "family", k, "none")
<1> DEFINE D == DOMAIN P.groups
           Exp(i) == ExpectedSets[P.groups[i].set]
<1>n. "none" \notin Pair
  BY ConstantAssumption
<1>1. \A i \in D : Range(P.sets[P.groups[i].set]) = Exp(i) /\ Exp(i) \subseteq Pair
  <2> TAKE i \in D
  <2>1. P.groups[i] \in GroupType
    BY DEF PlanType
  <2>2. P.groups[i].set \in SetId
    BY <2>1 DEF GroupType
  <2>3. P.sets[P.groups[i].set] \in Seq(Pair)
    BY <2>2 DEF PlanType
  <2> QED
    BY <2>2, <2>3, RangeOf DEF ValidPlan, ValidSets
<1>2. ASSUME NEW i \in D, NEW n \in DOMAIN P.groups[i].existing
      PROVE  /\ P.groups[i].existing[n] \in Range(P.groups[i].existing)
             /\ P.groups[i].existing[n] \in Key
             /\ NameAt(F, P.groups[i].existing[n]) = P.groups[i].existing[n]
  <2>1. P.groups[i].existing[n] \in Range(P.groups[i].existing)
    BY DEF Range
  <2>2. P.groups[i].existing[n] \in Key
    <3>1. P.groups[i] \in GroupType
      BY DEF PlanType
    <3>2. P.groups[i].existing \in Seq(Key)
      BY <3>1 DEF GroupType
    <3> QED
      BY <3>2
  <2>3. F.families[P.groups[i].existing[n]].status = "released"
    BY <2>1 DEF ValidPlan, ValidGroup
  <2> QED
    BY <2>1, <2>2, <2>3 DEF Listed, NameAt
<1>3. \A q : q \in Range(Items(P, F)) <=>
        \E i \in D :
          \/ \E n \in DOMAIN P.groups[i].existing :
               q \in Range(Gaps(P, F, i, P.groups[i].existing[n]))
          \/ \E n \in DOMAIN P.groups[i].planned : q \in Range(Authoring(P, i, n))
  BY ItemsOf, GroupItems
<1>4. ASSUME NEW q \in Range(Items(P, F))
      PROVE  /\ q.group \in D
             /\ \/ /\ q.kind = "revision" /\ q.pair \in Exp(q.group)
                   /\ \/ /\ q.key \in Range(P.groups[q.group].existing)
                         /\ ~Closed(F.families[q.key], q.pair)
                      \/ q.key \in Range(P.groups[q.group].planned)
                \/ /\ q.kind = "family" /\ q.pair = "none"
                   /\ q.key \in Range(P.groups[q.group].planned)
  <2>1. PICK i \in D :
          \/ \E n \in DOMAIN P.groups[i].existing :
               q \in Range(Gaps(P, F, i, P.groups[i].existing[n]))
          \/ \E n \in DOMAIN P.groups[i].planned : q \in Range(Authoring(P, i, n))
    BY <1>3
  <2>2. ASSUME NEW n \in DOMAIN P.groups[i].existing,
               q \in Range(Gaps(P, F, i, P.groups[i].existing[n]))
        PROVE  /\ q.group = i /\ q.kind = "revision" /\ q.pair \in Exp(i)
               /\ q.key \in Range(P.groups[i].existing) /\ ~Closed(F.families[q.key], q.pair)
    <3>1. /\ P.groups[i].existing[n] \in Range(P.groups[i].existing)
          /\ P.groups[i].existing[n] \in Key
          /\ NameAt(F, P.groups[i].existing[n]) = P.groups[i].existing[n]
      BY <1>2
    <3> QED
      BY <1>1, <2>2, <3>1, GapsOf
  <2>3. ASSUME NEW n \in DOMAIN P.groups[i].planned, q \in Range(Authoring(P, i, n))
        PROVE  /\ q.group = i /\ q.key \in Range(P.groups[i].planned)
               /\ \/ q.kind = "revision" /\ q.pair \in Exp(i)
                  \/ q.kind = "family" /\ q.pair = "none"
    <3>1. P.groups[i].planned[n] \in Range(P.groups[i].planned)
      BY DEF Range
    <3> QED
      BY <1>1, <2>3, <3>1, AuthoringOf
  <2> QED
    BY <2>1, <2>2, <2>3
<1>g. ASSUME NEW i \in D, NEW k \in Key
      PROVE  /\ Gaps(P, F, i, k) \in Seq(ItemType)
             /\ \A x \in Range(P.sets[P.groups[i].set]) :
                  ~Closed(F.families[k], x) => \E q \in Range(Gaps(P, F, i, k)) : q.pair = x
  BY GapsOf
<1>5. ASSUME NEW i \in D, NEW k \in Range(P.groups[i].existing), NEW p \in Exp(i),
             ~Closed(F.families[k], p)
      PROVE  HasItem(P, F, i, "revision", k, p)
  <2>1. PICK n \in DOMAIN P.groups[i].existing : k = P.groups[i].existing[n]
    BY DEF Range
  <2>2. k \in Key /\ NameAt(F, k) = k
    BY <1>2, <2>1
  <2>3. PICK q \in Range(Gaps(P, F, i, k)) : q.pair = p
    <3>1. p \in Range(P.sets[P.groups[i].set]) /\ k \in Key
      BY <1>1, <2>2
    <3>2. \A x \in Range(P.sets[P.groups[i].set]) :
            ~Closed(F.families[k], x) => \E q \in Range(Gaps(P, F, i, k)) : q.pair = x
      BY <1>g, <3>1
    <3> QED
      BY <1>5, <3>1, <3>2
  <2>4. q.group = i /\ q.kind = "revision" /\ q.key = k
    BY <2>2, GapsOf
  <2>5. q \in Range(Items(P, F))
    BY <1>3, <2>1, <2>3
  <2> QED
    BY <2>3, <2>4, <2>5 DEF HasItem
<1>6. ASSUME NEW i \in D, NEW k \in Range(P.groups[i].planned), NEW p \in Exp(i) \cup {"none"}
      PROVE  \E q \in Range(Items(P, F)) :
                q.group = i /\ q.key = k /\ q.pair = p /\ q.kind = IF p = "none" THEN "family" ELSE "revision"
  <2>1. PICK n \in DOMAIN P.groups[i].planned : k = P.groups[i].planned[n]
    BY DEF Range
  <2>2. PICK q \in Range(Authoring(P, i, n)) : q.pair = p
    <3>1. p \in Range(P.sets[P.groups[i].set]) \cup {"none"}
      BY <1>1
    <3>2. \A x \in Range(P.sets[P.groups[i].set]) \cup {"none"} :
            \E q \in Range(Authoring(P, i, n)) : q.pair = x
      BY SMTT(30), AuthoringOf
    <3> QED
      BY <3>1, <3>2
  <2>3. /\ q.group = i /\ q.key = k
        /\ \/ q.kind = "family" /\ q.pair = "none"
           \/ q.kind = "revision" /\ q.pair \in Exp(i)
    BY <1>1, <2>1, AuthoringOf
  <2>4. q.kind = IF p = "none" THEN "family" ELSE "revision"
    BY <1>1, <1>n, <2>2, <2>3
  <2>5. q \in Range(Items(P, F))
    BY <1>3, <2>1, <2>2
  <2> QED
    BY <2>2, <2>3, <2>4, <2>5
<1>7. ASSUME NEW i \in D, NEW k \in Range(P.groups[i].planned), NEW p \in Exp(i)
      PROVE  HasItem(P, F, i, "revision", k, p)
  <2>1. p # "none"
    BY <1>1, <1>n
  <2> QED
    BY <1>6, <2>1 DEF HasItem
<1>8. ASSUME NEW i \in D, NEW k \in Range(P.groups[i].planned)
      PROVE  HasItem(P, F, i, "family", k, "none")
  BY <1>6 DEF HasItem
<1> QED
  BY <1>4, <1>5, <1>7, <1>8

\* Whatever has become of the families since the plan was found valid, a planned family ranks
\* before its revisions.
LEMMA FamiliesFirst ==
    ASSUME NEW P \in PlanType, IsInjective(AllKeys(P)), NEW F \in FamiliesType,
           NEW q \in Range(Items(P, F)), NEW r \in Range(Items(P, F)),
           q.kind = "family", r.kind = "revision", q.key = r.key
    PROVE  q.priority < r.priority
<1> DEFINE D == DOMAIN P.groups
<1>1. \A i \in D : P.groups[i].existing \in Seq(Key) /\ P.groups[i].planned \in Seq(Key)
  <2> TAKE i \in D
  <2>1. P.groups[i] \in GroupType
    BY DEF PlanType
  <2> QED
    BY <2>1 DEF GroupType
<1>2. \A x \in Range(Items(P, F)) :
        \E i \in D :
          \/ \E n \in DOMAIN P.groups[i].existing :
               x \in Range(Gaps(P, F, i, P.groups[i].existing[n]))
          \/ \E n \in DOMAIN P.groups[i].planned : x \in Range(Authoring(P, i, n))
  BY ItemsOf, GroupItems
<1>3. ASSUME NEW x, NEW i \in D, NEW n \in DOMAIN P.groups[i].existing,
             x \in Range(Gaps(P, F, i, P.groups[i].existing[n]))
      PROVE  /\ x.kind = "revision"
             /\ x.key = "none" \/ x.key \in Range(P.groups[i].existing)
  <2>1. P.groups[i].existing[n] \in Key /\ P.groups[i].existing[n] \in Range(P.groups[i].existing)
    BY <1>1 DEF Range
  <2>2. x.kind = "revision" /\ x.key = NameAt(F, P.groups[i].existing[n])
    BY <1>3, <2>1, GapsOf
  <2> QED
    BY <2>1, <2>2 DEF NameAt
<1>4. ASSUME NEW x, NEW i \in D, NEW n \in DOMAIN P.groups[i].planned, x \in Range(Authoring(P, i, n))
      PROVE  /\ x.key \in Range(P.groups[i].planned) /\ x.key \in Key
             /\ x.kind = "family" => x.priority = 2
             /\ x.kind = "revision" => x.priority = 3
  <2>1. P.groups[i].planned[n] \in Key /\ P.groups[i].planned[n] \in Range(P.groups[i].planned)
    BY <1>1 DEF Range
  <2> QED
    BY <1>4, <2>1, AuthoringOf
<1>5. PICK i \in D : \E n \in DOMAIN P.groups[i].planned : q \in Range(Authoring(P, i, n))
  BY <1>2, <1>3
<1>6. q.key \in Range(P.groups[i].planned) /\ q.key \in Key /\ q.priority = 2
  BY <1>4, <1>5
<1>7. ASSUME NEW j \in D, NEW n \in DOMAIN P.groups[j].existing,
             r \in Range(Gaps(P, F, j, P.groups[j].existing[n]))
      PROVE  FALSE
  <2>1. r.key \in Range(P.groups[j].existing)
    <3>1. r.key = "none" \/ r.key \in Range(P.groups[j].existing)
      BY <1>3, <1>7
    <3> QED
      BY <1>6, <3>1, ConstantAssumption
  <2>2. CASE i = j
    BY <1>6, <2>1, <2>2, KeysOnce
  <2>3. CASE i # j
    BY <1>6, <2>1, <2>3, KeysOnce
  <2> QED
    BY <2>2, <2>3
<1>8. PICK j \in D : \E n \in DOMAIN P.groups[j].planned : r \in Range(Authoring(P, j, n))
  BY <1>2, <1>7
<1>9. r.priority = 3
  BY <1>4, <1>8
<1> QED
  BY <1>6, <1>9

----------------------------------------------------------------------------
(* The sums of the validator.                                              *)

\* The equation that MapThenSumSet solves: it takes a member of s off and adds its value.
Adds(sum, S, f) ==
    sum = [s \in SUBSET S |-> IF s = {} THEN 0
                              ELSE f[CHOOSE x \in s : TRUE] + sum[s \ {CHOOSE x \in s : TRUE}]]

\* What the sets A[i] of S hold together.
AllOf(A, S) == UNION {A[i] : i \in S}

\* The sum of the sizes of disjoint sets is the size of their union.
LEMMA SumOfSizes ==
    ASSUME NEW S, IsFiniteSet(S), NEW f, NEW A,
           \A i \in S : IsFiniteSet(A[i]) /\ Cardinality(A[i]) = f[i],
           \A i, j \in S : i # j => A[i] \cap A[j] = {}
    PROVE  /\ IsFiniteSet(AllOf(A, S))
           /\ \E sum : Adds(sum, S, f)
           /\ \A sum : Adds(sum, S, f) => sum[S] = Cardinality(AllOf(A, S))
<1> DEFINE All(s) == UNION {A[i] : i \in s}
           size == [s \in SUBSET S |-> Cardinality(All(s))]
           one(s) == CHOOSE x \in s : TRUE
<1>1. ASSUME NEW s \in SUBSET S PROVE IsFiniteSet(s) /\ IsFiniteSet(All(s))
  <2> DEFINE h == [i \in s |-> A[i]]
             T == {A[i] : i \in s}
  <2>1. IsFiniteSet(s)
    BY FS_Subset
  <2>2. h \in Surjection(s, T)
    BY DEF Surjection
  <2>3. \A t \in T : IsFiniteSet(t)
    OBVIOUS
  <2> HIDE DEF h, T
  <2>4. IsFiniteSet(T)
    BY <2>1, <2>2, FS_Surjection
  <2>5. IsFiniteSet(UNION T)
    BY <2>3, <2>4, FS_UNION
  <2> QED
    BY <2>1, <2>5 DEF T
<1>2. ASSUME NEW s \in SUBSET S, s # {}
      PROVE  /\ one(s) \in s /\ s \ {one(s)} \in SUBSET S
             /\ Cardinality(All(s)) = f[one(s)] + Cardinality(All(s \ {one(s)}))
  <2>1. one(s) \in s
    BY <1>2
  <2> DEFINE x == one(s)
             rest == s \ {x}
  <2> HIDE DEF x
  <2>2. x \in S /\ rest \in SUBSET S
    BY <2>1 DEF x
  <2>3. All(s) = A[x] \cup All(rest)
    BY <2>1 DEF x
  <2>4. A[x] \cap All(rest) = {}
    BY <2>2
  <2>5. IsFiniteSet(A[x]) /\ IsFiniteSet(All(rest)) /\ Cardinality(A[x]) = f[x]
    BY <1>1, <2>2
  <2> HIDE DEF All, rest
  <2>6. /\ Cardinality(A[x] \cup All(rest))
             = Cardinality(A[x]) + Cardinality(All(rest)) - Cardinality(A[x] \cap All(rest))
        /\ Cardinality(A[x]) \in Nat /\ Cardinality(All(rest)) \in Nat
    BY <2>5, FS_Union, FS_CardinalityType
  <2>7. Cardinality({}) = 0
    BY FS_EmptySet
  <2>8. Cardinality(All(s)) = f[x] + Cardinality(All(rest))
    <3>1. Cardinality(A[x] \cap All(rest)) = 0
      BY <2>4, <2>7
    <3>2. Cardinality(All(s)) = Cardinality(A[x] \cup All(rest))
      BY <2>3
    <3>3. Cardinality(A[x]) = f[x]
      BY <2>5
    <3> QED
      BY <2>6, <3>1, <3>2, <3>3
  <2> QED
    BY <2>1, <2>2, <2>8 DEF x, rest
<1>3. Cardinality(All({})) = 0
  BY FS_EmptySet
<1> HIDE DEF All, one
<1>4. Adds(size, S, f)
  <2>1. \A s \in SUBSET S :
          size[s] = IF s = {} THEN 0 ELSE f[one(s)] + size[s \ {one(s)}]
    BY <1>2, <1>3
  <2>2. size = [s \in SUBSET S |-> size[s]]
    OBVIOUS
  <2> HIDE DEF size
  <2> QED
    BY <2>1, <2>2 DEF Adds, one
<1>5. ASSUME NEW sum, Adds(sum, S, f) PROVE sum[S] = size[S]
  <2> DEFINE wrong == {n \in Nat : \E s \in SUBSET S : Cardinality(s) = n /\ sum[s] # size[s]}
  <2> SUFFICES ASSUME sum[S] # size[S] PROVE FALSE
    OBVIOUS
  <2>1. Cardinality(S) \in wrong
    BY FS_CardinalityType
  <2>2. PICK n \in wrong : \A k \in wrong : n <= k
    <3>1. wrong \in SUBSET Nat /\ wrong # {}
      BY <2>1
    <3> HIDE DEF wrong
    <3> QED
      BY <3>1, LeastNumber
  <2>3. PICK s \in SUBSET S : Cardinality(s) = n /\ sum[s] # size[s]
    OBVIOUS
  <2>4. \A t \in SUBSET S : sum[t] = IF t = {} THEN 0 ELSE f[one(t)] + sum[t \ {one(t)}]
    BY <1>5 DEF Adds, one
  <2>5. \A t \in SUBSET S : size[t] = IF t = {} THEN 0 ELSE f[one(t)] + size[t \ {one(t)}]
    BY <1>4 DEF Adds, one
  <2> HIDE DEF size
  <2>6. s # {}
    BY <2>3, <2>4, <2>5
  <2> DEFINE rest == s \ {one(s)}
  <2>7. one(s) \in s /\ rest \in SUBSET S
    BY <1>2, <2>6
  <2>8. sum[rest] # size[rest]
    BY <2>3, <2>4, <2>5, <2>6
  <2>9. Cardinality(rest) = n - 1 /\ Cardinality(rest) \in Nat
    <3>1. IsFiniteSet(s) /\ IsFiniteSet(rest)
      BY <1>1, <2>7
    <3>2. Cardinality(s \ {one(s)}) = Cardinality(s) - 1
      BY <2>7, <3>1, FS_RemoveElement
    <3>3. Cardinality(rest) \in Nat
      BY <3>1, FS_CardinalityType
    <3> QED
      BY <2>3, <3>2, <3>3
  <2> HIDE DEF rest
  <2>10. n - 1 \in wrong /\ n \in Nat
    BY <2>7, <2>8, <2>9
  <2> HIDE DEF wrong
  <2> QED
    BY <2>2, <2>10
<1>6. size[S] = Cardinality(All(S)) /\ IsFiniteSet(All(S))
  BY <1>1
<1> HIDE DEF size
<1> QED
  BY <1>4, <1>5, <1>6 DEF All, AllOf

\* The two sums of KindTotal, when each summand is the size of a set.
LEMMA TargetsAdd ==
    ASSUME NEW P, NEW S, IsFiniteSet(S), NEW A,
           \A i \in S : IsFiniteSet(A[i]) /\ Cardinality(A[i]) = P.groups[i].target,
           \A i, j \in S : i # j => A[i] \cap A[j] = {}
    PROVE  MapThenSumSet(LAMBDA i : P.groups[i].target, S) = Cardinality(AllOf(A, S))
<1> DEFINE f == [i \in S |-> P.groups[i].target]
           one(s) == CHOOSE x \in s : TRUE
           Sums(sum) == sum = [s \in SUBSET S |-> IF s = {} THEN 0
                                 ELSE P.groups[one(s)].target + sum[s \ {one(s)}]]
<1>1. MapThenSumSet(LAMBDA i : P.groups[i].target, S) = (CHOOSE sum : Sums(sum))[S]
  BY DEF MapThenSumSet, MapThenFoldSet
<1>2. ASSUME NEW sum PROVE Sums(sum) <=> Adds(sum, S, f)
  <2>1. \A s \in SUBSET S : s # {} => one(s) \in S /\ f[one(s)] = P.groups[one(s)].target
    OBVIOUS
  <2> HIDE DEF f
  <2> QED
    BY <2>1 DEF Adds
<1>3. \A i \in S : IsFiniteSet(A[i]) /\ Cardinality(A[i]) = f[i]
  OBVIOUS
<1> HIDE DEF f, Sums
<1>4. /\ \E sum : Adds(sum, S, f)
      /\ \A sum : Adds(sum, S, f) => sum[S] = Cardinality(AllOf(A, S))
  BY <1>3, SumOfSizes
<1>5. Sums(CHOOSE sum : Sums(sum))
  BY <1>2, <1>4
<1> QED
  BY <1>1, <1>2, <1>4, <1>5

\* The same for the revisions of a kind: each target times the pairs of its set.
LEMMA RevisionsAdd ==
    ASSUME NEW P, NEW S, IsFiniteSet(S), NEW A,
           \A i \in S : IsFiniteSet(A[i])
                        /\ Cardinality(A[i]) = P.groups[i].target * P.groups[i].each,
           \A i, j \in S : i # j => A[i] \cap A[j] = {}
    PROVE  MapThenSumSet(LAMBDA i : P.groups[i].target * P.groups[i].each, S)
             = Cardinality(AllOf(A, S))
<1> DEFINE f == [i \in S |-> P.groups[i].target * P.groups[i].each]
           one(s) == CHOOSE x \in s : TRUE
           Sums(sum) == sum = [s \in SUBSET S |-> IF s = {} THEN 0
                                 ELSE P.groups[one(s)].target * P.groups[one(s)].each
                                      + sum[s \ {one(s)}]]
<1>1. MapThenSumSet(LAMBDA i : P.groups[i].target * P.groups[i].each, S)
        = (CHOOSE sum : Sums(sum))[S]
  BY DEF MapThenSumSet, MapThenFoldSet
<1>2. ASSUME NEW sum PROVE Sums(sum) <=> Adds(sum, S, f)
  <2>1. \A s \in SUBSET S : s # {} =>
          one(s) \in S /\ f[one(s)] = P.groups[one(s)].target * P.groups[one(s)].each
    OBVIOUS
  <2> HIDE DEF f
  <2> QED
    BY <2>1 DEF Adds
<1>3. \A i \in S : IsFiniteSet(A[i]) /\ Cardinality(A[i]) = f[i]
  OBVIOUS
<1> HIDE DEF f, Sums
<1>4. /\ \E sum : Adds(sum, S, f)
      /\ \A sum : Adds(sum, S, f) => sum[S] = Cardinality(AllOf(A, S))
  BY <1>3, SumOfSizes
<1>5. Sums(CHOOSE sum : Sums(sum))
  BY <1>2, <1>4
<1> QED
  BY <1>1, <1>2, <1>4, <1>5

\* A sequence has finitely many values, and as many as places when none is there twice.
LEMMA RangeSize ==
    ASSUME NEW T, NEW s \in Seq(T)
    PROVE  /\ IsFiniteSet(Range(s)) /\ Cardinality(Range(s)) \in Nat
           /\ IsInjective(s) => Cardinality(Range(s)) = Len(s)
<1>1. Len(s) \in Nat /\ DOMAIN s = 1..Len(s) /\ s \in [1..Len(s) -> Range(s)]
  BY DEF Range
<1>2. IsFiniteSet(1..Len(s)) /\ Cardinality(1..Len(s)) = Len(s)
  BY <1>1, FirstNumbers
<1>3. s \in Surjection(1..Len(s), Range(s))
  BY <1>1 DEF Range, Surjection
<1>4. IsFiniteSet(Range(s))
  BY <1>2, <1>3, FS_Surjection
<1>5. ASSUME IsInjective(s) PROVE Cardinality(Range(s)) = Len(s)
  <2>1. s \in Injection(1..Len(s), Range(s))
    BY <1>1, <1>5 DEF IsInjective, Injection
  <2>2. ExistsBijection(1..Len(s), Range(s))
    BY <1>3, <2>1 DEF ExistsBijection, Bijection
  <2> QED
    BY <1>2, <2>2, FS_Bijection
<1> QED
  BY <1>4, <1>5, FS_CardinalityType

\* The keys of a group, and what is to be authored for them.
KeysOf(P, i) == Range(P.groups[i].existing) \cup Range(P.groups[i].planned)
PairsToAuthor(P, i) == KeysOf(P, i) \X ExpectedSets[P.groups[i].set]

\* A group of a valid plan has as many keys as its target, and a set of as many pairs as it
\* says, so that its revisions are each key with each pair.
LEMMA GroupSizes ==
    ASSUME NEW P \in PlanType, NEW F, ValidPlan(P, F), NEW i \in DOMAIN P.groups
    PROVE  /\ IsFiniteSet(KeysOf(P, i)) /\ Cardinality(KeysOf(P, i)) = P.groups[i].target
           /\ IsFiniteSet(PairsToAuthor(P, i))
           /\ Cardinality(PairsToAuthor(P, i)) = P.groups[i].target * P.groups[i].each
           /\ P.groups[i].set \in SetId
           /\ Range(P.sets[P.groups[i].set]) = ExpectedSets[P.groups[i].set]
           /\ IsInjective(P.sets[P.groups[i].set])
<1> DEFINE s == P.groups[i].existing
           t == P.groups[i].planned
           pairs == P.sets[P.groups[i].set]
<1>1. P.groups[i] \in GroupType
  BY DEF PlanType
<1>2. s \in Seq(Key) /\ t \in Seq(Key) /\ P.groups[i].set \in SetId
  BY <1>1 DEF GroupType
<1>3. pairs \in Seq(Pair)
  BY <1>2 DEF PlanType
<1>4. IsInjective(s) /\ IsInjective(t) /\ Range(s) \cap Range(t) = {}
  BY KeysOnce DEF ValidPlan, Classified
<1>5. Range(pairs) = ExpectedSets[P.groups[i].set] /\ IsInjective(pairs)
  BY <1>2 DEF ValidPlan, ValidSets
<1>6. Len(s) + Len(t) = P.groups[i].target /\ P.groups[i].each = Len(pairs)
  BY DEF ValidPlan, ValidGroup
<1>7. KeysOf(P, i) = Range(s) \cup Range(t)
  BY DEF KeysOf
<1>8. PairsToAuthor(P, i) = KeysOf(P, i) \X Range(pairs)
  BY <1>5 DEF PairsToAuthor
<1> HIDE DEF s, t, pairs
<1>9. /\ IsFiniteSet(Range(s)) /\ Cardinality(Range(s)) = Len(s) /\ Len(s) \in Nat
      /\ IsFiniteSet(Range(t)) /\ Cardinality(Range(t)) = Len(t) /\ Len(t) \in Nat
      /\ IsFiniteSet(Range(pairs)) /\ Cardinality(Range(pairs)) = Len(pairs)
  BY <1>2, <1>3, <1>4, <1>5, RangeSize
<1>10. IsFiniteSet(KeysOf(P, i)) /\ Cardinality(KeysOf(P, i)) = P.groups[i].target
  <2>1. /\ IsFiniteSet(Range(s) \cup Range(t))
        /\ Cardinality(Range(s) \cup Range(t))
             = Cardinality(Range(s)) + Cardinality(Range(t)) - Cardinality(Range(s) \cap Range(t))
    BY <1>9, FS_Union
  <2>2. Cardinality(Range(s) \cap Range(t)) = 0
    BY <1>4, FS_EmptySet
  <2> QED
    BY <1>6, <1>7, <1>9, <2>1, <2>2
<1>11. /\ IsFiniteSet(KeysOf(P, i) \X Range(pairs))
       /\ Cardinality(KeysOf(P, i) \X Range(pairs))
            = Cardinality(KeysOf(P, i)) * Cardinality(Range(pairs))
  BY <1>9, <1>10, FS_Product
<1>12. IsFiniteSet(PairsToAuthor(P, i))
       /\ Cardinality(PairsToAuthor(P, i)) = P.groups[i].target * P.groups[i].each
  BY <1>6, <1>8, <1>9, <1>10, <1>11
<1> QED
  BY <1>2, <1>5, <1>10, <1>12 DEF pairs

\* What ExpectedKinds is of a valid plan: the number of its keys of the kind, and of their pairs.
LEMMA TotalsOf ==
    ASSUME NEW P \in PlanType, NEW F, ValidPlan(P, F), NEW kind \in Kind
    PROVE  LET mine == {i \in DOMAIN P.groups : P.groups[i].kind = kind}
               keys == UNION {KeysOf(P, i) : i \in mine}
               pairs == UNION {PairsToAuthor(P, i) : i \in mine}
           IN  /\ IsFiniteSet(keys) /\ IsFiniteSet(pairs)
               /\ ExpectedKinds[kind] = [families |-> Cardinality(keys),
                                         revisions |-> Cardinality(pairs)]
<1> DEFINE mine == {i \in DOMAIN P.groups : P.groups[i].kind = kind}
           A == [i \in mine |-> KeysOf(P, i)]
           B == [i \in mine |-> PairsToAuthor(P, i)]
           f == [i \in mine |-> P.groups[i].target]
           e == [i \in mine |-> P.groups[i].target * P.groups[i].each]
           families == MapThenSumSet(LAMBDA i : P.groups[i].target, mine)
           revisions == MapThenSumSet(LAMBDA i : P.groups[i].target * P.groups[i].each, mine)
<1>1. IsFiniteSet(mine)
  <2>1. DOMAIN P.groups = 1..Len(P.groups) /\ Len(P.groups) \in Nat
    BY DEF PlanType
  <2>2. IsFiniteSet(DOMAIN P.groups)
    BY <2>1, FirstNumbers
  <2> QED
    BY <2>2, FS_Subset
<1>2. KindTotal(P, kind) = [families |-> families, revisions |-> revisions]
  BY DEF KindTotal
<1>3. ExpectedKinds[kind] = [families |-> families, revisions |-> revisions]
  BY <1>2 DEF ValidPlan
<1>4. \A i \in mine : i \in DOMAIN P.groups
  OBVIOUS
<1> HIDE DEF mine, families, revisions
<1>5. \A i \in mine : /\ IsFiniteSet(A[i]) /\ Cardinality(A[i]) = P.groups[i].target
                      /\ IsFiniteSet(B[i]) /\ Cardinality(B[i]) = P.groups[i].target * P.groups[i].each
  BY <1>4, GroupSizes
<1>6. \A i, j \in mine : i # j => A[i] \cap A[j] = {} /\ B[i] \cap B[j] = {}
  <2> SUFFICES ASSUME NEW i \in mine, NEW j \in mine, i # j
               PROVE  A[i] \cap A[j] = {} /\ B[i] \cap B[j] = {}
    OBVIOUS
  <2>1. KeysOf(P, i) \cap KeysOf(P, j) = {}
    BY <1>4, KeysOnce DEF KeysOf, ValidPlan, Classified
  <2> QED
    BY <2>1 DEF PairsToAuthor
<1>7. AllOf(A, mine) = UNION {KeysOf(P, i) : i \in mine}
  BY DEF AllOf
<1>8. AllOf(B, mine) = UNION {PairsToAuthor(P, i) : i \in mine}
  BY DEF AllOf
<1>9. /\ \A i \in mine : IsFiniteSet(A[i]) /\ Cardinality(A[i]) = f[i]
      /\ \A i \in mine : IsFiniteSet(B[i]) /\ Cardinality(B[i]) = e[i]
  BY <1>5
<1> HIDE DEF A, B, f, e
<1>10. IsFiniteSet(AllOf(A, mine)) /\ IsFiniteSet(AllOf(B, mine))
  BY <1>1, <1>6, <1>9, SumOfSizes
<1>11. families = Cardinality(AllOf(A, mine))
  BY <1>1, <1>5, <1>6, TargetsAdd DEF families
<1>12. revisions = Cardinality(AllOf(B, mine))
  BY <1>1, <1>5, <1>6, RevisionsAdd DEF revisions
<1> QED
  BY <1>3, <1>7, <1>8, <1>10, <1>11, <1>12 DEF mine

\* Sets with nothing in common together have the sum of their sizes.
LEMMA DisjointSizes ==
    ASSUME NEW S, IsFiniteSet(S), NEW T, IsFiniteSet(T), S \cap T = {}
    PROVE  Cardinality(S \cup T) = Cardinality(S) + Cardinality(T)
<1>1. Cardinality(S \cup T) = Cardinality(S) + Cardinality(T) - Cardinality(S \cap T)
  BY FS_Union
<1>2. Cardinality(S \cap T) = 0
  BY FS_EmptySet
<1>3. Cardinality(S) \in Nat /\ Cardinality(T) \in Nat
  BY FS_CardinalityType
<1> QED
  BY <1>1, <1>2, <1>3

\* One value for each member of a finite set, no two the same: as many as there are members.
LEMMA SameSize ==
    ASSUME NEW S, IsFiniteSet(S), NEW h, NEW T, h \in [S -> T],
           \A x, y \in S : h[x] = h[y] => x = y,
           \A t \in T : \E x \in S : h[x] = t
    PROVE  Cardinality(S) = Cardinality(T) /\ IsFiniteSet(T)
<1>1. h \in Bijection(S, T)
  BY DEF Bijection, Injection, Surjection, IsInjective
<1> QED
  BY <1>1, FS_Bijection DEF ExistsBijection

\* Closing the items of a valid plan makes the families and the revisions of each kind those
\* expected: what exists and what is queued are apart, and together all that the groups hold.
LEMMA ClosingTotals ==
    ASSUME NEW P \in PlanType, NEW F \in FamiliesType, ValidPlan(P, F), NEW kind \in Kind
    PROVE  LET mine == {i \in DOMAIN P.groups : P.groups[i].kind = kind}
               existing == UNION {Range(P.groups[i].existing) : i \in mine}
               done == {kp \in existing \X Pair : Closed(F.families[kp[1]], kp[2])}
               open(what) == {q \in Range(Items(P, F)) : q.group \in mine /\ q.kind = what}
           IN  ExpectedKinds[kind] =
                   [families |-> Cardinality(existing) + Cardinality(open("family")),
                    revisions |-> Cardinality(done) + Cardinality(open("revision"))]
<1> DEFINE mine == {i \in DOMAIN P.groups : P.groups[i].kind = kind}
           existing == UNION {Range(P.groups[i].existing) : i \in mine}
           planned == UNION {Range(P.groups[i].planned) : i \in mine}
           done == {kp \in existing \X Pair : Closed(F.families[kp[1]], kp[2])}
           items == Range(Items(P, F))
           families == {q \in items : q.group \in mine /\ q.kind = "family"}
           revisions == {q \in items : q.group \in mine /\ q.kind = "revision"}
           keys == UNION {KeysOf(P, i) : i \in mine}
           pairs == UNION {PairsToAuthor(P, i) : i \in mine}
<1>1. /\ IsFiniteSet(keys) /\ IsFiniteSet(pairs)
      /\ ExpectedKinds[kind] = [families |-> Cardinality(keys), revisions |-> Cardinality(pairs)]
  BY TotalsOf
<1>2. \A i \in mine : i \in DOMAIN P.groups
  OBVIOUS
<1> HIDE DEF mine
<1>3. /\ IsFiniteSet(families) /\ IsFiniteSet(revisions)
  <2>1. IsFiniteSet(items)
    <3>1. Items(P, F) \in Seq(ItemType)
      BY ItemsOf
    <3> QED
      BY <3>1, RangeSize
  <2> HIDE DEF items
  <2> QED
    BY <2>1, FS_Subset
<1>4. \A q, r \in items : q.key = r.key /\ q.pair = r.pair => q = r
  BY ItemsOnce
<1>5. \A i, j \in DOMAIN P.groups : \A k \in Range(P.groups[i].planned) :
        k \notin Range(P.groups[j].existing)
  <2>1. /\ \A i \in DOMAIN P.groups : Range(P.groups[i].existing) \cap Range(P.groups[i].planned) = {}
        /\ \A i, j \in DOMAIN P.groups : i # j =>
             (Range(P.groups[i].existing) \cup Range(P.groups[i].planned))
                 \cap (Range(P.groups[j].existing) \cup Range(P.groups[j].planned)) = {}
    BY KeysOnce DEF ValidPlan, Classified
  <2> QED
    BY <2>1
<1>6. /\ \A q \in items :
           /\ q.group \in DOMAIN P.groups
           /\ \/ /\ q.kind = "revision" /\ q.pair \in ExpectedSets[P.groups[q.group].set]
                 /\ \/ /\ q.key \in Range(P.groups[q.group].existing)
                       /\ ~Closed(F.families[q.key], q.pair)
                    \/ q.key \in Range(P.groups[q.group].planned)
              \/ q.kind = "family" /\ q.pair = "none" /\ q.key \in Range(P.groups[q.group].planned)
      /\ \A i \in DOMAIN P.groups :
           /\ \A k \in Range(P.groups[i].existing), p \in ExpectedSets[P.groups[i].set] :
                ~Closed(F.families[k], p) =>
                  \E q \in items : q.group = i /\ q.kind = "revision" /\ q.key = k /\ q.pair = p
           /\ \A k \in Range(P.groups[i].planned), p \in ExpectedSets[P.groups[i].set] :
                \E q \in items : q.group = i /\ q.kind = "revision" /\ q.key = k /\ q.pair = p
           /\ \A k \in Range(P.groups[i].planned) :
                \E q \in items : q.group = i /\ q.kind = "family" /\ q.key = k /\ q.pair = "none"
  <2> HIDE DEF items
  <2>1. \A q \in items :
          /\ q.group \in DOMAIN P.groups
          /\ \/ /\ q.kind = "revision" /\ q.pair \in ExpectedSets[P.groups[q.group].set]
                /\ \/ /\ q.key \in Range(P.groups[q.group].existing)
                      /\ ~Closed(F.families[q.key], q.pair)
                   \/ q.key \in Range(P.groups[q.group].planned)
             \/ q.kind = "family" /\ q.pair = "none" /\ q.key \in Range(P.groups[q.group].planned)
    BY ItemsAre DEF items
  <2>2. \A i \in DOMAIN P.groups :
          \A k \in Range(P.groups[i].existing), p \in ExpectedSets[P.groups[i].set] :
            ~Closed(F.families[k], p) => HasItem(P, F, i, "revision", k, p)
    BY ItemsAre
  <2>3. \A i \in DOMAIN P.groups :
          \A k \in Range(P.groups[i].planned), p \in ExpectedSets[P.groups[i].set] :
            HasItem(P, F, i, "revision", k, p)
    BY ItemsAre
  <2>4. \A i \in DOMAIN P.groups : \A k \in Range(P.groups[i].planned) :
          HasItem(P, F, i, "family", k, "none")
    BY ItemsAre
  <2>5. \A i, what, k, p : HasItem(P, F, i, what, k, p) =>
          \E q \in items : q.group = i /\ q.kind = what /\ q.key = k /\ q.pair = p
    BY DEF HasItem, items
  <2> QED
    BY <2>1, <2>2, <2>3, <2>4, <2>5
<1>7. \A i \in DOMAIN P.groups : ExpectedSets[P.groups[i].set] \subseteq Pair
  <2> TAKE i \in DOMAIN P.groups
  <2>1. P.groups[i].set \in SetId
    BY GroupSizes
  <2> QED
    BY <2>1, ConstantAssumption
<1>8. ASSUME NEW i \in DOMAIN P.groups, NEW k \in Range(P.groups[i].existing), NEW p,
             Closed(F.families[k], p)
      PROVE  p \in ExpectedSets[P.groups[i].set]
  <2>1. PairsOf(F.families[k]) \subseteq Range(P.sets[P.groups[i].set])
    BY DEF ValidPlan, ValidGroup
  <2>2. Range(P.sets[P.groups[i].set]) = ExpectedSets[P.groups[i].set]
    BY GroupSizes
  <2>3. p \in PairsOf(F.families[k])
    BY <1>8 DEF Closed, PairsOf
  <2> QED
    BY <2>1, <2>2, <2>3
<1> HIDE DEF items
<1>9. Cardinality(keys) = Cardinality(existing) + Cardinality(families)
  <2>1. keys = existing \cup planned
    BY DEF KeysOf
  <2>2. existing \cap planned = {}
    BY <1>2, <1>5
  <2>3. Cardinality(families) = Cardinality(planned)
    <3> DEFINE h == [q \in families |-> q.key]
    <3>1. h \in [families -> planned]
      BY <1>2, <1>6
    <3>2. \A q, r \in families : h[q] = h[r] => q = r
      BY <1>4, <1>6
    <3>3. \A k \in planned : \E q \in families : h[q] = k
      <4> TAKE k \in planned
      <4>1. PICK i \in mine : k \in Range(P.groups[i].planned)
        OBVIOUS
      <4>2. PICK q \in items : q.group = i /\ q.kind = "family" /\ q.key = k
        BY <1>2, <1>6, <4>1
      <4> QED
        BY <4>1, <4>2
    <3> HIDE DEF h, families, planned
    <3> QED
      BY <1>3, <3>1, <3>2, <3>3, SameSize
  <2> HIDE DEF keys, existing, planned, families
  <2>4. IsFiniteSet(existing) /\ IsFiniteSet(planned)
    BY <1>1, <2>1, FS_Subset
  <2>5. Cardinality(existing \cup planned) = Cardinality(existing) + Cardinality(planned)
    BY <2>2, <2>4, DisjointSizes
  <2> QED
    BY <2>1, <2>3, <2>5
<1>10. Cardinality(pairs) = Cardinality(done) + Cardinality(revisions)
  <2> DEFINE todo == pairs \ done
  <2>1. done \subseteq pairs
    <3> SUFFICES ASSUME NEW kp \in done PROVE kp \in pairs
      OBVIOUS
    <3>0. kp = <<kp[1], kp[2]>> /\ Closed(F.families[kp[1]], kp[2])
      OBVIOUS
    <3>1. PICK i \in mine : kp[1] \in Range(P.groups[i].existing)
      OBVIOUS
    <3>2. kp[2] \in ExpectedSets[P.groups[i].set] /\ kp = <<kp[1], kp[2]>>
      BY <1>2, <1>8, <3>0, <3>1
    <3>3. kp \in PairsToAuthor(P, i)
      BY <3>1, <3>2 DEF PairsToAuthor, KeysOf
    <3> QED
      BY <3>3
  <2>2. Cardinality(revisions) = Cardinality(todo)
    <3> DEFINE h == [q \in revisions |-> <<q.key, q.pair>>]
    <3>1. ASSUME NEW q \in revisions PROVE <<q.key, q.pair>> \in todo
      <4>1. /\ q.group \in mine /\ q.group \in DOMAIN P.groups
            /\ q.pair \in ExpectedSets[P.groups[q.group].set] /\ q.pair \in Pair
            /\ \/ /\ q.key \in Range(P.groups[q.group].existing)
                  /\ ~Closed(F.families[q.key], q.pair)
               \/ q.key \in Range(P.groups[q.group].planned)
        BY <1>6, <1>7
      <4>2. <<q.key, q.pair>> \in PairsToAuthor(P, q.group)
        BY <4>1 DEF PairsToAuthor, KeysOf
      <4>3. <<q.key, q.pair>> \notin done
        <5>1. CASE ~Closed(F.families[q.key], q.pair)
          BY <5>1
        <5>2. CASE q.key \in Range(P.groups[q.group].planned)
          <6>1. q.key \notin existing
            BY <1>2, <1>5, <4>1, <5>2
          <6> QED
            BY <6>1
        <5> QED
          BY <4>1, <5>1, <5>2
      <4> QED
        BY <4>1, <4>2, <4>3
    <3>2. h \in [revisions -> todo]
      <4> HIDE DEF todo, revisions
      <4> QED
        BY <3>1
    <3>3. \A q, r \in revisions : h[q] = h[r] => q = r
      BY <1>4
    <3>4. \A kp \in todo : \E q \in revisions : h[q] = kp
      <4> TAKE kp \in todo
      <4>1. PICK i \in mine : kp \in PairsToAuthor(P, i)
        OBVIOUS
      <4>2. /\ i \in DOMAIN P.groups /\ kp = <<kp[1], kp[2]>>
            /\ kp[1] \in KeysOf(P, i) /\ kp[2] \in ExpectedSets[P.groups[i].set]
            /\ kp[2] \in Pair
        BY <1>2, <1>7, <4>1 DEF PairsToAuthor
      <4>3. kp[1] \in Range(P.groups[i].existing) => ~Closed(F.families[kp[1]], kp[2])
        BY <4>1, <4>2
      <4>4. PICK q \in items : q.group = i /\ q.kind = "revision" /\ q.key = kp[1] /\ q.pair = kp[2]
        BY <1>6, <4>2, <4>3 DEF KeysOf
      <4> QED
        BY <4>1, <4>2, <4>4
    <3> HIDE DEF h, revisions, todo
    <3> QED
      BY <1>3, <3>2, <3>3, <3>4, SameSize
  <2>3. done \cup todo = pairs /\ done \cap todo = {}
    BY <2>1
  <2> HIDE DEF done, todo, pairs, revisions
  <2>4. IsFiniteSet(done) /\ IsFiniteSet(todo)
    BY <1>1, <2>3, FS_Subset
  <2>5. Cardinality(done \cup todo) = Cardinality(done) + Cardinality(todo)
    BY <2>3, <2>4, DisjointSizes
  <2> QED
    BY <2>2, <2>3, <2>5
<1> QED
  BY <1>1, <1>9, <1>10 DEF mine, items

----------------------------------------------------------------------------
(* The queue.                                                              *)

\* The sort key, compared field by field.
Earlier(a, b) ==
    \/ a.priority < b.priority
    \/ a.priority = b.priority /\ a.group < b.group
    \/ a.priority = b.priority /\ a.group = b.group /\ KeyOrder[a.key] < KeyOrder[b.key]
    \/ /\ a.priority = b.priority /\ a.group = b.group /\ KeyOrder[a.key] = KeyOrder[b.key]
       /\ a.kind = "family" /\ b.kind # "family"
    \/ /\ a.priority = b.priority /\ a.group = b.group /\ KeyOrder[a.key] = KeyOrder[b.key]
       /\ (a.kind = "family" <=> b.kind = "family") /\ a.sequence < b.sequence

\* Do two items have the same rank?
SameRank(a, b) ==
    /\ a.priority = b.priority /\ a.group = b.group /\ KeyOrder[a.key] = KeyOrder[b.key]
    /\ (a.kind = "family" <=> b.kind = "family") /\ a.sequence = b.sequence

\* Less on the ranks is this order of the fields, and equal ranks are equal fields.
LEMMA RankCompares ==
    ASSUME NEW a \in ItemType, NEW b \in ItemType
    PROVE  /\ Less(Rank(a), Rank(b)) <=> Earlier(a, b)
           /\ Rank(a) = Rank(b) <=> SameRank(a, b)
<1> DEFINE kind(c) == IF c.kind = "family" THEN 0 ELSE 1
           s == Rank(a)
           t == Rank(b)
<1>1. /\ DOMAIN s = 1..5 /\ DOMAIN t = 1..5
      /\ s[1] = a.priority /\ s[2] = a.group /\ s[3] = KeyOrder[a.key] /\ s[4] = kind(a) /\ s[5] = a.sequence
      /\ t[1] = b.priority /\ t[2] = b.group /\ t[3] = KeyOrder[b.key] /\ t[4] = kind(b) /\ t[5] = b.sequence
  BY DEF Rank
<1>2. s = t <=> s[1] = t[1] /\ s[2] = t[2] /\ s[3] = t[3] /\ s[4] = t[4] /\ s[5] = t[5]
  BY DEF Rank
<1> HIDE DEF s, t
<1>3. Less(s, t) <=>
        \/ s[1] < t[1]
        \/ s[1] = t[1] /\ s[2] < t[2]
        \/ s[1] = t[1] /\ s[2] = t[2] /\ s[3] < t[3]
        \/ s[1] = t[1] /\ s[2] = t[2] /\ s[3] = t[3] /\ s[4] < t[4]
        \/ s[1] = t[1] /\ s[2] = t[2] /\ s[3] = t[3] /\ s[4] = t[4] /\ s[5] < t[5]
  <2> DEFINE at(i) == s[i] < t[i] /\ \A j \in 1..(i - 1) : s[j] = t[j]
  <2>1. Less(s, t) <=> at(1) \/ at(2) \/ at(3) \/ at(4) \/ at(5)
    <3> HIDE DEF at
    <3>1. Less(s, t) <=> \E i \in 1..5 : at(i)
      BY <1>1 DEF Less, at
    <3>2. \A i \in 1..5 : i \in {1, 2, 3, 4, 5}
      OBVIOUS
    <3> QED
      BY <3>1, <3>2
  <2>2. /\ 1..(1 - 1) = {} /\ 1..(2 - 1) = {1} /\ 1..(3 - 1) = {1, 2}
        /\ 1..(4 - 1) = {1, 2, 3} /\ 1..(5 - 1) = {1, 2, 3, 4}
    OBVIOUS
  <2> QED
    BY <2>1, <2>2
<1> DEFINE lower == kind(a) < kind(b)
           same == kind(a) = kind(b)
<1>4. /\ lower <=> a.kind = "family" /\ b.kind # "family"
      /\ same <=> (a.kind = "family" <=> b.kind = "family")
  OBVIOUS
<1> HIDE DEF kind
<1> QED
  BY <1>1, <1>2, <1>3, <1>4 DEF Earlier, SameRank, s, t

\* The order of the queue: by rank, and of one rank as the items came.
Ahead(items, x, y) ==
    Earlier(items[x], items[y]) \/ (SameRank(items[x], items[y]) /\ x < y)

\* A strict order of the places of the items, as PlacesAreABijection asks for.
LEMMA AheadIsStrict ==
    ASSUME NEW items \in Seq(ItemType)
    PROVE  LET n == Len(items)
           IN  /\ \A x \in 1..n : ~Ahead(items, x, x)
               /\ \A x, y \in 1..n : x # y => Ahead(items, x, y) \/ Ahead(items, y, x)
               /\ \A x, y, z \in 1..n :
                    Ahead(items, x, y) /\ Ahead(items, y, z) => Ahead(items, x, z)
<1> DEFINE n == Len(items)
<1>1. \A a \in ItemType :
        /\ a.priority \in Nat /\ a.group \in Nat /\ a.sequence \in Nat /\ KeyOrder[a.key] \in Nat
  <2>1. KeyOrder \in [Key \cup {"none"} -> Nat]
    BY ConstantAssumption
  <2> QED
    BY <2>1 DEF ItemType
<1>2. \A x \in 1..n : items[x] \in ItemType
  OBVIOUS
<1>3. \A a \in ItemType : ~Earlier(a, a)
  BY <1>1 DEF Earlier
<1>4. \A a, b \in ItemType : Earlier(a, b) \/ Earlier(b, a) \/ (SameRank(a, b) /\ SameRank(b, a))
  BY <1>1 DEF Earlier, SameRank
<1>5. \A a, b, c \in ItemType :
        /\ Earlier(a, b) /\ Earlier(b, c) => Earlier(a, c)
        /\ Earlier(a, b) /\ SameRank(b, c) => Earlier(a, c)
        /\ SameRank(a, b) /\ Earlier(b, c) => Earlier(a, c)
        /\ SameRank(a, b) /\ SameRank(b, c) => SameRank(a, c)
  <2> TAKE a, b, c \in ItemType
  <2>0. \A d \in {a, b, c} :
          /\ d.priority \in Int /\ d.group \in Int /\ d.sequence \in Int /\ KeyOrder[d.key] \in Int
    BY <1>1
  <2>1. Earlier(a, b) /\ Earlier(b, c) => Earlier(a, c)
    BY <2>0, SMTT(30) DEF Earlier
  <2>2. Earlier(a, b) /\ SameRank(b, c) => Earlier(a, c)
    BY <2>0, SMTT(30) DEF Earlier, SameRank
  <2>3. SameRank(a, b) /\ Earlier(b, c) => Earlier(a, c)
    BY <2>0, SMTT(30) DEF Earlier, SameRank
  <2>4. SameRank(a, b) /\ SameRank(b, c) => SameRank(a, c)
    BY DEF SameRank
  <2> QED
    BY <2>1, <2>2, <2>3, <2>4
<1>6. n \in Nat
  OBVIOUS
<1>7. \A x \in 1..n : ~Ahead(items, x, x)
  BY <1>2, <1>3 DEF Ahead
<1>8. \A x, y \in 1..n : x # y => Ahead(items, x, y) \/ Ahead(items, y, x)
  BY <1>2, <1>4 DEF Ahead
<1>9. ASSUME NEW x \in 1..n, NEW y \in 1..n, NEW z \in 1..n,
             Ahead(items, x, y), Ahead(items, y, z)
      PROVE  Ahead(items, x, z)
  <2>1. x < y /\ y < z => x < z
    OBVIOUS
  <2> QED
    BY <1>2, <1>5, <1>9, <2>1 DEF Ahead
<1> QED
  BY <1>7, <1>8, <1>9

\* The queue is a stable sort of the items, whatever they are: each item has one place,
\* none comes before one of an earlier rank, and items of one rank keep their order.
\* Waves and positions count the places, MaxBatch to a wave.
THEOREM QueueIsSorted ==
    ASSUME NEW items \in Seq(ItemType)
    PROVE  LET q == Queue(items)
           IN  \E at \in Bijection(1..Len(items), 1..Len(items)) :
                 /\ DOMAIN q = 1..Len(items)
                 /\ \A n \in 1..Len(items) :
                      /\ q[n].item = items[at[n]]
                      /\ q[n].wave \in Nat \ {0} /\ q[n].position \in 1..MaxBatch
                      /\ n = (q[n].wave - 1) * MaxBatch + q[n].position
                 /\ \A m, n \in 1..Len(items) : m < n =>
                      /\ ~Less(Rank(q[n].item), Rank(q[m].item))
                      /\ Rank(q[m].item) = Rank(q[n].item) => at[m] < at[n]
<1> DEFINE N == Len(items)
           R == {p \in (1..N) \X (1..N) : Ahead(items, p[1], p[2])}
           place == [x \in DOMAIN items |-> 1 + Cardinality({y \in DOMAIN items :
                    \/ Less(Rank(items[y]), Rank(items[x]))
                    \/ Rank(items[y]) = Rank(items[x]) /\ y < x})]
           at == [n \in 1..N |-> CHOOSE x \in 1..N : place[x] = n]
           q == Queue(items)
<1>1. N \in Nat /\ DOMAIN items = 1..N /\ \A x \in 1..N : items[x] \in ItemType
  OBVIOUS
<1>2. \A x, y \in 1..N :
        Ahead(items, x, y) <=> \/ Less(Rank(items[x]), Rank(items[y]))
                               \/ Rank(items[x]) = Rank(items[y]) /\ x < y
  BY <1>1, RankCompares DEF Ahead
<1>3. \A x, y \in 1..N : <<x, y>> \in R <=> Ahead(items, x, y)
  OBVIOUS
<1>4. /\ \A x \in 1..N : <<x, x>> \notin R
      /\ \A x, y \in 1..N : x # y => <<x, y>> \in R \/ <<y, x>> \in R
      /\ \A x, y, z \in 1..N : <<x, y>> \in R /\ <<y, z>> \in R => <<x, z>> \in R
  <2> HIDE DEF R
  <2> QED
    BY <1>3, AheadIsStrict
<1>5. /\ place \in Bijection(1..N, 1..N)
      /\ \A x, y \in 1..N : <<x, y>> \in R <=> place[x] < place[y]
  <2>1. DOMAIN place = 1..N /\ place = [x \in DOMAIN place |-> place[x]]
    BY <1>1
  <2>2. \A x \in 1..N : place[x] = 1 + Cardinality(Before(1..N, R, x))
    <3> TAKE x \in 1..N
    <3>1. Before(1..N, R, x)
            = {y \in DOMAIN items : \/ Less(Rank(items[y]), Rank(items[x]))
                                    \/ Rank(items[y]) = Rank(items[x]) /\ y < x}
      <4> HIDE DEF R
      <4> QED
        BY <1>1, <1>2, <1>3 DEF Before
    <3> HIDE DEF R
    <3> QED
      BY <1>1, <3>1
  <2>3. IsFiniteSet(1..N) /\ Cardinality(1..N) = N
    BY <1>1, FirstNumbers
  <2> HIDE DEF R, place
  <2>4. PICK D : D = 1..N
    OBVIOUS
  <2>5. /\ \A x \in D : <<x, x>> \notin R
        /\ \A x, y \in D : x # y => <<x, y>> \in R \/ <<y, x>> \in R
        /\ \A x, y, z \in D : <<x, y>> \in R /\ <<y, z>> \in R => <<x, z>> \in R
    BY <1>4, <2>4
  <2>6. /\ IsFiniteSet(D) /\ DOMAIN place = D /\ place = [x \in DOMAIN place |-> place[x]]
        /\ \A x \in D : place[x] = 1 + Cardinality(Before(D, R, x))
    BY <2>1, <2>2, <2>3, <2>4
  <2>7. /\ place \in Bijection(D, 1..Cardinality(D))
        /\ \A x, y \in D : <<x, y>> \in R <=> place[x] < place[y]
    BY <2>5, <2>6, PlacesAreABijection
  <2> QED
    BY <2>3, <2>4, <2>7
<1>6. q = [n \in 1..N |-> [item |-> items[at[n]],
                          wave |-> (n - 1) \div MaxBatch + 1, position |-> ((n - 1) % MaxBatch) + 1]]
  BY <1>1 DEF Queue
<1> HIDE DEF R, place
<1>7. \A n \in 1..N : at[n] \in 1..N /\ place[at[n]] = n
  BY <1>5 DEF Bijection, Surjection
<1>8. \A x \in 1..N : place[x] \in 1..N /\ at[place[x]] = x
  <2>1. \A x \in 1..N : place[x] \in 1..N
    BY <1>5 DEF Bijection, Injection
  <2>2. \A x, y \in 1..N : place[x] = place[y] => x = y
    BY <1>5 DEF Bijection, Injection, IsInjective
  <2> QED
    BY <1>7, <2>1, <2>2
<1>9. DOMAIN at = 1..N /\ at \in [1..N -> 1..N]
  BY <1>7
<1>10. at \in Bijection(1..N, 1..N)
  <2> HIDE DEF at
  <2>1. at \in Injection(1..N, 1..N)
    BY <1>7, <1>9, Fun_IsInj
  <2>2. at \in Surjection(1..N, 1..N)
    BY <1>8, <1>9, Fun_IsSurj
  <2> QED
    BY <2>1, <2>2 DEF Bijection
<1> HIDE DEF at, q
<1>11. ASSUME NEW n \in 1..N
       PROVE  /\ q[n].item = items[at[n]]
              /\ q[n].wave \in Nat \ {0} /\ q[n].position \in 1..MaxBatch
              /\ n = (q[n].wave - 1) * MaxBatch + q[n].position
  <2>1. /\ q[n].item = items[at[n]]
        /\ q[n].wave = (n - 1) \div MaxBatch + 1 /\ q[n].position = ((n - 1) % MaxBatch) + 1
    BY <1>6
  <2>2. MaxBatch \in Nat \ {0}
    BY ConstantAssumption
  <2>3. n - 1 \in Nat
    BY <1>1
  <2>4. /\ (n - 1) \div MaxBatch \in Nat /\ (n - 1) % MaxBatch \in 0..(MaxBatch - 1)
        /\ n - 1 = (((n - 1) \div MaxBatch) * MaxBatch) + ((n - 1) % MaxBatch)
    BY <2>2, <2>3
  <2> DEFINE d == (n - 1) \div MaxBatch
             r == (n - 1) % MaxBatch
             full == d * MaxBatch
  <2>5. q[n].wave = d + 1 /\ q[n].position = r + 1 /\ (q[n].wave - 1) * MaxBatch = full
    BY <2>1, <2>4
  <2>6. d \in Nat /\ r \in 0..(MaxBatch - 1) /\ full \in Int /\ n - 1 = full + r
    BY <2>2, <2>4
  <2> HIDE DEF d, r, full
  <2>7. /\ q[n].wave \in Nat \ {0} /\ q[n].position \in 1..MaxBatch
        /\ n = full + q[n].position
    BY <1>1, <2>2, <2>5, <2>6
  <2> QED
    BY <2>1, <2>5, <2>7
<1>12. ASSUME NEW m \in 1..N, NEW n \in 1..N, m < n
       PROVE  /\ ~Less(Rank(q[n].item), Rank(q[m].item))
              /\ Rank(q[m].item) = Rank(q[n].item) => at[m] < at[n]
  <2>1. /\ q[m].item = items[at[m]] /\ q[n].item = items[at[n]]
        /\ at[m] \in 1..N /\ at[n] \in 1..N
    BY <1>7, <1>11
  <2>2. place[at[m]] < place[at[n]] /\ ~(place[at[n]] < place[at[m]])
    BY <1>1, <1>7, <1>12
  <2>3. <<at[m], at[n]>> \in R /\ <<at[n], at[m]>> \notin R
    BY <1>5, <2>1, <2>2
  <2>4. Ahead(items, at[m], at[n]) /\ ~Ahead(items, at[n], at[m])
    BY <1>3, <2>1, <2>3
  <2> QED
    BY <1>2, <2>1, <2>4
<1> QED
  BY <1>6, <1>10, <1>11, <1>12 DEF q

\* A multiple of MaxBatch tells the waves apart.
LEMMA WaveBounds ==
    ASSUME NEW M \in Nat \ {0}, NEW n \in Nat, NEW v \in Nat \ {0}, NEW w \in Nat \ {0},
           NEW p \in 1..M, n = (v - 1) * M + p
    PROVE  v = w <=> (w - 1) * M < n /\ n <= (w - 1) * M + M
<1>1. CASE v = w
  <2> DEFINE below == (w - 1) * M
  <2>1. below \in Int /\ n = below + p
    BY <1>1
  <2> HIDE DEF below
  <2>2. below < n /\ n <= below + M
    BY <2>1
  <2> QED
    BY <1>1, <2>2 DEF below
<1>2. CASE v < w
  <2> DEFINE gap == w - 1 - v
  <2>1. gap \in Nat /\ (w - 1) * M = (v - 1) * M + M + gap * M
    BY <1>2
  <2>2. gap * M >= 0 /\ gap * M \in Int /\ (v - 1) * M \in Int
    BY <2>1
  <2> HIDE DEF gap
  <2>3. ~((w - 1) * M < n)
    <3> DEFINE a == (v - 1) * M
               b == gap * M
               c == (w - 1) * M
    <3>1. a \in Int /\ b \in Int /\ b >= 0 /\ c = a + M + b /\ n = a + p
      BY <2>1, <2>2
    <3> HIDE DEF a, b, c
    <3>2. ~(c < n)
      BY <3>1
    <3> QED
      BY <3>2 DEF c
  <2> QED
    BY <1>2, <2>3
<1>3. CASE w < v
  <2> DEFINE gap == v - 1 - w
  <2>1. gap \in Nat /\ (v - 1) * M = (w - 1) * M + M + gap * M
    BY <1>3
  <2>2. gap * M >= 0 /\ gap * M \in Int /\ (w - 1) * M \in Int
    BY <2>1
  <2> HIDE DEF gap
  <2>3. ~(n <= (w - 1) * M + M)
    <3> DEFINE a == (v - 1) * M
               b == gap * M
               c == (w - 1) * M
    <3>1. c \in Int /\ b \in Int /\ b >= 0 /\ a = c + M + b /\ n = a + p
      BY <2>1, <2>2
    <3> HIDE DEF a, b, c
    <3>2. ~(n <= c + M)
      BY <3>1
    <3> QED
      BY <3>2 DEF c
  <2> QED
    BY <1>3, <2>3
<1> QED
  BY <1>1, <1>2, <1>3

\* As many waves as the items fill, the last one perhaps not to the full.
LEMMA LastWave ==
    ASSUME NEW M \in Nat \ {0}, NEW N \in Nat, NEW w \in 1..((N + M - 1) \div M)
    PROVE  /\ (w - 1) * M < N
           /\ w < (N + M - 1) \div M => (w - 1) * M + M <= N
<1> DEFINE last == (N + M - 1) \div M
           full == last * M
           below == (w - 1) * M
           gap == last - w
           rest == gap * M
<1>1. last \in Nat /\ full <= N + M - 1 /\ full \in Int
  OBVIOUS
<1>2. gap \in Nat /\ w \in Nat \ {0}
  BY <1>1
<1>3. full = below + M + rest /\ below \in Int /\ rest \in Int
  <2> HIDE DEF last
  <2> QED
    BY <1>1, <1>2
<1>4. rest >= 0 /\ (gap >= 1 => rest >= M)
  <2> HIDE DEF gap
  <2> QED
    BY <1>2
<1>5. w < last => gap >= 1
  BY <1>1
<1> HIDE DEF last, full, below, gap, rest
<1>6. below < N /\ (w < last => below + M <= N)
  BY <1>1, <1>3, <1>4, <1>5
<1> QED
  BY <1>6 DEF last, below
=============================================================================
