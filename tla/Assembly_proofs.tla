--------------------------- MODULE Assembly_proofs ---------------------------
(***************************************************************************)
(* Facts about cubes and fragments of any shape, any manifest, query and   *)
(* task size: what the planner makes of a query, what of it is fetched,    *)
(* and where in the arrays of the client it ends up.                       *)
(***************************************************************************)
EXTENDS Assembly, SequenceTheorems, FunctionTheorems, FiniteSetTheorems, WellFoundedInduction,
        TLAPS

\* A set of numbers that is not empty has a least element.
LEMMA LeastNatural ==
    ASSUME NEW S \in SUBSET Nat, S # {}
    PROVE  \E x \in S : \A y \in S : x <= y
<1> DEFINE Less == OpToRel(<, Nat)
<1>1. \A x, y \in S : y < x => <<y, x>> \in Less  BY DEF OpToRel
<1>2. IsWellFoundedOn(Less, Nat)  BY NatLessThanWellFounded
<1> HIDE DEF Less
<1>3. PICK x \in S : \A y \in S : ~(<<y, x>> \in Less)  BY <1>2, WFMin
<1>4. ASSUME NEW y \in S PROVE x <= y
  <2>1. x \in Nat /\ y \in Nat /\ ~(y < x)  BY <1>1, <1>3
  <2> QED BY <2>1
<1> QED BY <1>4

\* A set of numbers up to n with 0 and, with each number, the next one, has them all.
LEMMA Induction ==
    ASSUME NEW n \in Nat, NEW S, 0 \in S, \A k \in 1 .. n : k - 1 \in S => k \in S
    PROVE  (\A k \in 0 .. n : k \in S) /\ n \in S
<1> DEFINE T == {k \in 0 .. n : k \notin S}
<1>1. SUFFICES ASSUME T # {} PROVE FALSE
  OBVIOUS
<1>2. T \in SUBSET Nat  OBVIOUS
<1>3. PICK k \in T : \A j \in T : k <= j  BY <1>1, <1>2, LeastNatural
<1>4. k \in 0 .. n /\ k # 0 /\ k \notin S  OBVIOUS
<1>5. k \in 1 .. n /\ k - 1 \in 0 .. n /\ ~(k <= k - 1)  BY <1>4
<1>6. k - 1 \in S  BY <1>3, <1>5
<1> QED BY <1>4, <1>5, <1>6

\* The largest of the first numbers.
LEMMA MaxOfInterval ==
    ASSUME NEW n \in Nat \ {0}
    PROVE  Max(1 .. n) = n
  BY DEF Max

\* The largest of a set of the numbers up to n.
LEMMA MaxOfSet ==
    ASSUME NEW n \in Nat, NEW T \in SUBSET (1 .. n), T # {}
    PROVE  Max(T) \in T /\ \A k \in T : k <= Max(T)
<1> DEFINE S == {n - k : k \in T}
<1>1. S \in SUBSET Nat /\ S # {}
  <2>1. \A k \in T : n - k \in Nat  OBVIOUS
  <2> QED BY <2>1
<1>2. PICK x \in S : \A y \in S : x <= y  BY <1>1, LeastNatural
<1>3. PICK k \in T : x = n - k  OBVIOUS
<1>4. \A j \in T : k >= j
  <2> TAKE j \in T
  <2>1. n - j \in S  OBVIOUS
  <2>2. n - k <= n - j /\ k \in Int /\ j \in Int  BY <1>2, <1>3, <2>1
  <2> QED BY <2>2
<1>5. \E m \in T : \A j \in T : m >= j  BY <1>4
<1>6. Max(T) \in T /\ \A j \in T : Max(T) >= j  BY <1>5 DEF Max
<1> QED BY <1>6

\* The folds of the library are recursive functions on the subsets of 1 .. n, which go
\* down from their largest number.
Folds(h, base, n, Step) ==
    \A T \in SUBSET (1 .. n) :
        h[T] = IF T = {} THEN base ELSE Step[<<Max(T), h[T \ {Max(T)}]>>]

\* On 1 .. n they go through the numbers from the first to the last.
Iterates(h, base, n, Step, result) ==
    h[0] = base /\ (\A k \in 1 .. n : h[k] = Step[<<k, h[k - 1]>>]) /\ h[n] = result

\* It is enough that they do so wherever what they have so far is of the right type.
Unfolds(g, base, n, Step, V) ==
    /\ g[{}] = base
    /\ \A T \in SUBSET (1 .. n) :
          T # {} /\ g[T \ {Max(T)}] \in V => g[T] = Step[<<Max(T), g[T \ {Max(T)}]>>]

\* A fold over an initial stretch of the numbers is well-defined: some function gives it for
\* every set of them, as MapThenFoldSet chooses one.
LEMMA FoldExists ==
    ASSUME NEW V, NEW base \in V, NEW n \in Nat, NEW Step \in [(1 .. n) \X V -> V]
    PROVE  \E h \in [SUBSET (1 .. n) -> V] : Folds(h, base, n, Step)
<1> DEFINE S == {m \in 0 .. n : \E h \in [SUBSET (1 .. m) -> V] : Folds(h, base, m, Step)}
<1>1. 0 \in S
  <2> DEFINE h == [T \in SUBSET (1 .. 0) |-> base]
  <2>1. SUBSET (1 .. 0) = {{}}  OBVIOUS
  <2>2. h \in [SUBSET (1 .. 0) -> V] /\ Folds(h, base, 0, Step)
    BY <2>1 DEF Folds
  <2>3. \E f \in [SUBSET (1 .. 0) -> V] : Folds(f, base, 0, Step)
    <3> HIDE DEF h
    <3> QED BY <2>2
  <2>4. 0 \in 0 .. n  OBVIOUS
  <2> HIDE DEF h
  <2> QED BY <2>3, <2>4
<1>2. ASSUME NEW m \in 1 .. n, m - 1 \in S PROVE m \in S
  <2>1. PICK g \in [SUBSET (1 .. m - 1) -> V] : Folds(g, base, m - 1, Step)
    BY <1>2
  <2> DEFINE h == [T \in SUBSET (1 .. m) |->
                     IF m \in T THEN Step[<<m, g[T \ {m}]>>] ELSE g[T]]
  <2>2. ASSUME NEW T \in SUBSET (1 .. m)
        PROVE  /\ m \in T => Max(T) = m /\ T \ {m} \in SUBSET (1 .. m - 1)
               /\ m \notin T => T \in SUBSET (1 .. m - 1)
    <3>1. m \in Nat  OBVIOUS
    <3>2. CASE m \in T
      <4>1. Max(T) \in T /\ m <= Max(T)  BY <3>1, <3>2, MaxOfSet
      <4>2. \A k \in T : k \in 1 .. m  OBVIOUS
      <4>3. Max(T) = m
        <5>1. Max(T) \in 1 .. m  BY <4>1, <4>2
        <5> QED BY <3>1, <4>1, <5>1
      <4>4. \A k \in T \ {m} : k \in 1 .. m - 1  BY <3>1, <4>2
      <4> QED BY <3>2, <4>3, <4>4
    <3>3. CASE m \notin T
      <4>1. \A k \in T : k \in 1 .. m /\ k # m  BY <3>3
      <4> QED BY <3>1, <3>3, <4>1
    <3> QED BY <3>2, <3>3
  <2>3. h \in [SUBSET (1 .. m) -> V]
    <3> SUFFICES ASSUME NEW T \in SUBSET (1 .. m) PROVE h[T] \in V
      OBVIOUS
    <3>1. CASE m \in T
      <4>1. g[T \ {m}] \in V  BY <2>1, <2>2, <3>1
      <4> QED BY <3>1, <4>1
    <3>2. CASE m \notin T  BY <2>1, <2>2, <3>2
    <3> QED BY <3>1, <3>2
  <2>4. ASSUME NEW T \in SUBSET (1 .. m)
        PROVE  h[T] = IF T = {} THEN base ELSE Step[<<Max(T), h[T \ {Max(T)}]>>]
    <3>1. CASE m \in T
      <4>1. Max(T) = m /\ T # {} /\ m \notin T \ {m} /\ T \ {m} \in SUBSET (1 .. m)
        BY <2>2, <3>1
      <4> QED BY <3>1, <4>1
    <3>2. CASE m \notin T
      <4>1. T \in SUBSET (1 .. m - 1) /\ h[T] = g[T]  BY <2>2, <3>2
      <4>2. h[T \ {Max(T)}] = g[T \ {Max(T)}]  BY <3>2
      <4> QED BY <2>1, <4>1, <4>2 DEF Folds
    <3> QED BY <3>1, <3>2
  <2>5. Folds(h, base, m, Step)
    <3> HIDE DEF h
    <3> QED BY <2>4 DEF Folds
  <2>6. \E f \in [SUBSET (1 .. m) -> V] : Folds(f, base, m, Step)
    <3> HIDE DEF h
    <3> QED BY <2>3, <2>5
  <2> HIDE DEF h
  <2> QED BY <2>6
<1> HIDE DEF S
<1>3. n \in S  BY <1>1, <1>2, Induction
<1> QED BY <1>3 DEF S

\* A fold of the numbers 1 .. n goes through them in order.
LEMMA FoldSequence ==
    ASSUME NEW V, NEW base \in V, NEW n \in Nat, NEW Step \in [(1 .. n) \X V -> V],
           NEW g, Unfolds(g, base, n, Step, V)
    PROVE  \E h \in [0 .. n -> V] : Iterates(h, base, n, Step, g[1 .. n])
<1> DEFINE h == [k \in 0 .. n |-> g[1 .. k]]
           S == {k \in 0 .. n : g[1 .. k] \in V}
<1>1. h[0] = base
  <2>1. 1 .. 0 = {}  OBVIOUS
  <2> QED BY <2>1 DEF Unfolds
<1>2. ASSUME NEW k \in 1 .. n, k - 1 \in S
      PROVE  k \in S /\ h[k] = Step[<<k, h[k - 1]>>]
  <2>1. Max(1 .. k) = k /\ (1 .. k) \ {k} = 1 .. k - 1 /\ 1 .. k # {}
        /\ 1 .. k \in SUBSET (1 .. n)
    <3>1. Max(1 .. k) = k  BY MaxOfInterval
    <3>2. (1 .. k) \ {k} = 1 .. k - 1 /\ 1 .. k # {} /\ 1 .. k \in SUBSET (1 .. n)
      OBVIOUS
    <3> QED BY <3>1, <3>2
  <2>2. g[1 .. k - 1] \in V /\ h[k - 1] = g[1 .. k - 1]  BY <1>2
  <2>3. g[1 .. k] = Step[<<k, g[1 .. k - 1]>>]  BY <2>1, <2>2 DEF Unfolds
  <2>4. <<k, g[1 .. k - 1]>> \in (1 .. n) \X V  BY <2>2
  <2>5. g[1 .. k] \in V /\ k \in 0 .. n  BY <2>3, <2>4
  <2> QED BY <2>2, <2>3, <2>5
<1>3. 0 \in S  BY <1>1
<1> HIDE DEF S, h
<1>4. \A k \in 0 .. n : k \in S  BY <1>2, <1>3, Induction
<1>5. \A k \in 1 .. n : h[k] = Step[<<k, h[k - 1]>>]
  <2>1. \A k \in 1 .. n : k - 1 \in 0 .. n  OBVIOUS
  <2> QED BY <1>2, <1>4, <2>1
<1>6. h \in [0 .. n -> V] /\ g[1 .. n] = h[n]  BY <1>4 DEF S, h
<1> QED BY <1>1, <1>5, <1>6 DEF Iterates

\* The product of a shape, one dimension after the other.
Products(h, s, n) == h[0] = 1 /\ \A k \in 1 .. n : h[k] = h[k - 1] * s[k]

\* Product() multiplies from the left.
LEMMA ProductIterates ==
    ASSUME NEW n \in Nat, NEW s \in [1 .. n -> Nat]
    PROVE  \E h \in [0 .. n -> Nat] : Products(h, s, n) /\ Product(s) = h[n]
<1> DEFINE R(g) == g = [T \in SUBSET (1 .. n) |->
                          IF T = {} THEN 1 ELSE g[T \ {Max(T)}] * s[Max(T)]]
           Step == [x \in (1 .. n) \X Nat |-> x[2] * s[x[1]]]
           g == CHOOSE g : R(g)
<1>1. Product(s) = g[1 .. n]  BY DEF Product, FoldLeft, MapThenFoldSet
<1>2. 1 \in Nat /\ Step \in [(1 .. n) \X Nat -> Nat]  OBVIOUS
<1>3. \A k \in 1 .. n, v \in Nat : Step[<<k, v>>] = v * s[k]  OBVIOUS
<1>4. \A T \in SUBSET (1 .. n) : T # {} => Max(T) \in 1 .. n  BY MaxOfSet
<1> HIDE DEF Step
<1>5. R(g)
  <2>1. PICK f \in [SUBSET (1 .. n) -> Nat] : Folds(f, 1, n, Step)
    BY <1>2, FoldExists
  <2>2. \A T \in SUBSET (1 .. n) :
           f[T] = IF T = {} THEN 1 ELSE f[T \ {Max(T)}] * s[Max(T)]
    BY <1>3, <1>4, <2>1 DEF Folds
  <2>3. R(f)  BY <2>2
  <2> HIDE DEF R
  <2> QED BY <2>3
<1> HIDE DEF g
<1>6. g[{}] = 1  BY <1>5
<1>7. Unfolds(g, 1, n, Step, Nat)  BY <1>3, <1>4, <1>5, <1>6 DEF Unfolds
<1>8. PICK h \in [0 .. n -> Nat] : Iterates(h, 1, n, Step, g[1 .. n])
  BY <1>2, <1>7, FoldSequence
<1>9. \A k \in 1 .. n : k - 1 \in 0 .. n  OBVIOUS
<1>10. \A k \in 1 .. n : h[k] = h[k - 1] * s[k]
  BY <1>3, <1>8, <1>9 DEF Iterates
<1> QED BY <1>1, <1>8, <1>10 DEF Iterates, Products

Recurs(h, base, n, Step) == h[0] = base /\ \A k \in 1 .. n : h[k] = Step[<<k, h[k - 1]>>]

\* A recursion on 1 .. n has a solution.
LEMMA Recursion ==
    ASSUME NEW V, NEW base \in V, NEW n \in Nat, NEW Step \in [(1 .. n) \X V -> V]
    PROVE  \E h \in [0 .. n -> V] : Recurs(h, base, n, Step)
<1>1. PICK g \in [SUBSET (1 .. n) -> V] : Folds(g, base, n, Step)
  BY FoldExists
<1>2. Unfolds(g, base, n, Step, V)
  <2>1. {} \in SUBSET (1 .. n)  OBVIOUS
  <2> QED BY <1>1, <2>1 DEF Folds, Unfolds
<1>3. PICK h \in [0 .. n -> V] : Iterates(h, base, n, Step, g[1 .. n])
  BY <1>2, FoldSequence
<1> QED BY <1>3 DEF Iterates, Recurs

\* What a concatenation holds.
LEMMA ConcatFacts ==
    ASSUME NEW X, NEW u \in Seq(X), NEW v \in Seq(X)
    PROVE  /\ Len(u) \in Nat /\ Len(v) \in Nat
           /\ u \o v \in Seq(X) /\ Len(u \o v) = Len(u) + Len(v)
           /\ \A i \in 1 .. Len(u) : (u \o v)[i] = u[i]
           /\ \A i \in 1 .. Len(v) : (u \o v)[Len(u) + i] = v[i]
  OBVIOUS

\* w is the sequences of ss one after the other; pre has the lengths up to each.
Joins(w, ss, pre) ==
    /\ pre[0] = 0
    /\ \A k \in 1 .. Len(ss) : pre[k] = pre[k - 1] + Len(ss[k])
    /\ Len(w) = pre[Len(ss)]
    /\ \A k \in 1 .. Len(ss) : \A i \in 1 .. Len(ss[k]) :
          pre[k - 1] + i \in 1 .. Len(w) /\ w[pre[k - 1] + i] = ss[k][i]
    /\ \A t \in 1 .. Len(w) : \E k \in 1 .. Len(ss) : t - pre[k - 1] \in 1 .. Len(ss[k])

\* FlattenSeq() puts sequences one after the other: pre[k] elements come before the k-th.
LEMMA FlattenSeqJoins ==
    ASSUME NEW X, NEW ss \in Seq(Seq(X))
    PROVE  /\ FlattenSeq(ss) \in Seq(X)
           /\ \E pre \in [0 .. Len(ss) -> Nat] : Joins(FlattenSeq(ss), ss, pre)
<1> DEFINE n == Len(ss)
           Step == [x \in (1 .. n) \X Seq(X) |-> x[2] \o ss[x[1]]]
           R(f) == f = [i \in 1 .. n |-> IF i = 1 THEN ss[i] ELSE f[i - 1] \o ss[i]]
           c == CHOOSE f : R(f)
<1>1. n \in Nat /\ \A k \in 1 .. n : ss[k] \in Seq(X)  OBVIOUS
<1>2. Step \in [(1 .. n) \X Seq(X) -> Seq(X)] /\ <<>> \in Seq(X)  OBVIOUS
<1>3. \A k \in 1 .. n, v \in Seq(X) : Step[<<k, v>>] = v \o ss[k]
  OBVIOUS
<1>4. FlattenSeq(ss) = IF n = 0 THEN ss ELSE c[n]  BY DEF FlattenSeq
<1> HIDE DEF Step, n
<1>5. PICK h \in [0 .. n -> Seq(X)] : Recurs(h, <<>>, n, Step)
  BY <1>1, <1>2, Recursion
<1>6. h[0] = <<>> /\ \A k \in 1 .. n : h[k] = Step[<<k, h[k - 1]>>]
  BY <1>5 DEF Recurs
<1>7. \A k \in 1 .. n : k - 1 \in 0 .. n /\ k \in 0 .. n  BY <1>1
<1>8. \A k \in 1 .. n : h[k - 1] \in Seq(X) /\ h[k] = h[k - 1] \o ss[k]
  BY <1>3, <1>6, <1>7
<1>9. n # 0 => h[1] = ss[1]
  <2> SUFFICES ASSUME n # 0 PROVE h[1] = ss[1]
    OBVIOUS
  <2>1. 1 \in 1 .. n /\ 1 - 1 = 0  BY <1>1
  <2>2. h[1] = h[0] \o ss[1] /\ ss[1] \in Seq(X)  BY <1>1, <1>8, <2>1
  <2>3. h[1] = <<>> \o ss[1]  BY <1>6, <2>2
  <2> QED BY <2>2, <2>3
<1>10. R(c)
  <2> DEFINE f == [i \in 1 .. n |-> h[i]]
  <2>1. ASSUME NEW i \in 1 .. n PROVE f[i] = IF i = 1 THEN ss[i] ELSE f[i - 1] \o ss[i]
    <3>1. CASE i = 1  BY <1>1, <1>9, <3>1
    <3>2. CASE i # 1
      <4>1. i - 1 \in 1 .. n  BY <1>1, <3>2
      <4> QED BY <1>8, <3>2, <4>1
    <3> QED BY <3>1, <3>2
  <2>2. f = [i \in 1 .. n |-> IF i = 1 THEN ss[i] ELSE f[i - 1] \o ss[i]]
    <3>1. DOMAIN f = 1 .. n /\ f = [i \in 1 .. n |-> f[i]]  OBVIOUS
    <3> HIDE DEF f
    <3>2. [i \in 1 .. n |-> f[i]] = [i \in 1 .. n |-> IF i = 1 THEN ss[i] ELSE f[i - 1] \o ss[i]]
      BY <2>1
    <3> QED BY <3>1, <3>2
  <2>3. R(f)  BY <2>2
  <2> HIDE DEF f, R
  <2> QED BY <2>3
<1> HIDE DEF c
<1> DEFINE S == {k \in 0 .. n : k = 0 \/ c[k] = h[k]}
<1>11. 0 \in S  BY <1>1
<1>12. ASSUME NEW k \in 1 .. n, k - 1 \in S PROVE k \in S
  <2>1. c[k] = IF k = 1 THEN ss[k] ELSE c[k - 1] \o ss[k]  BY <1>10
  <2>2. CASE k = 1
    <3>1. h[k] = ss[k]  BY <1>1, <1>9, <2>2
    <3> QED BY <1>7, <2>1, <2>2, <3>1
  <2>3. CASE k # 1
    <3>1. k - 1 # 0  BY <2>3
    <3>2. c[k - 1] = h[k - 1]  BY <1>12, <3>1
    <3> QED BY <1>7, <1>8, <2>1, <2>3, <3>2
  <2> QED BY <2>2, <2>3
<1> HIDE DEF S
<1>13. n \in S  BY <1>1, <1>11, <1>12, Induction
<1>14. FlattenSeq(ss) = h[n]
  <2>1. CASE n = 0
    <3>1. ss = <<>>  BY <2>1 DEF n
    <3> QED BY <1>4, <1>6, <2>1, <3>1
  <2>2. CASE n # 0  BY <1>4, <1>13, <2>2 DEF S
  <2> QED BY <2>1, <2>2
<1> DEFINE pre == [k \in 0 .. n |-> Len(h[k])]
           part(m) == /\ \A k \in 1 .. m : \A i \in 1 .. Len(ss[k]) :
                            /\ pre[k - 1] + i \in 1 .. Len(h[m])
                            /\ h[m][pre[k - 1] + i] = ss[k][i]
                      /\ \A t \in 1 .. Len(h[m]) :
                            \E k \in 1 .. m : t - pre[k - 1] \in 1 .. Len(ss[k])
           T == {m \in 0 .. n : part(m)}
<1>15. pre \in [0 .. n -> Nat] /\ \A k \in 0 .. n : pre[k] = Len(h[k])
  BY <1>6
<1>16. pre[0] = 0  BY <1>6, <1>1
<1> HIDE DEF pre
<1>17. \A k \in 1 .. n : pre[k] = pre[k - 1] + Len(ss[k])
  <2> TAKE k \in 1 .. n
  <2>1. h[k] = h[k - 1] \o ss[k] /\ h[k - 1] \in Seq(X) /\ ss[k] \in Seq(X)
    BY <1>1, <1>8
  <2>2. Len(h[k]) = Len(h[k - 1]) + Len(ss[k])  BY <2>1
  <2> QED BY <1>7, <1>15, <2>2
<1>18. 0 \in T
  <2>1. part(0)  BY <1>6
  <2> QED BY <1>1, <2>1
<1>19. ASSUME NEW m \in 1 .. n, m - 1 \in T PROVE m \in T
  <2>1. part(m - 1) /\ m - 1 \in Nat /\ m \in Nat  BY <1>1, <1>19
  <2>2. h[m] = h[m - 1] \o ss[m] /\ h[m - 1] \in Seq(X) /\ ss[m] \in Seq(X)
    BY <1>1, <1>8
  <2> DEFINE a == Len(h[m - 1])  b == Len(ss[m])
  <2>3. /\ a \in Nat /\ b \in Nat /\ Len(h[m]) = a + b /\ pre[m - 1] = a
        /\ \A i \in 1 .. a : h[m][i] = h[m - 1][i]
        /\ \A i \in 1 .. b : h[m][a + i] = ss[m][i]
    <3>1. m - 1 \in 0 .. n /\ pre[m - 1] = Len(h[m - 1])  BY <1>7, <1>15
    <3>2. h[m - 1] \in Seq(X) /\ ss[m] \in Seq(X)  BY <2>2
    <3>3. /\ a \in Nat /\ b \in Nat /\ Len(h[m]) = a + b
          /\ \A i \in 1 .. a : h[m][i] = h[m - 1][i]
          /\ \A i \in 1 .. b : h[m][a + i] = ss[m][i]
      <4> DEFINE u == h[m - 1]  v == ss[m]
      <4>1. u \in Seq(X) /\ v \in Seq(X) /\ h[m] = u \o v  BY <2>2
      <4> HIDE DEF u, v
      <4>2. /\ Len(u) \in Nat /\ Len(v) \in Nat /\ Len(u \o v) = Len(u) + Len(v)
            /\ \A i \in 1 .. Len(u) : (u \o v)[i] = u[i]
            /\ \A i \in 1 .. Len(v) : (u \o v)[Len(u) + i] = v[i]
        BY <4>1, ConcatFacts
      <4> QED BY <4>1, <4>2 DEF u, v
    <3> QED BY <3>1, <3>3
  <2> HIDE DEF a, b
  <2>4. ASSUME NEW k \in 1 .. m, NEW i \in 1 .. Len(ss[k])
        PROVE  pre[k - 1] + i \in 1 .. a + b /\ h[m][pre[k - 1] + i] = ss[k][i]
    <3>1. CASE k = m
      <4>1. i \in 1 .. b /\ pre[k - 1] = a  BY <2>3, <3>1 DEF b
      <4>2. h[m][a + i] = ss[m][i] /\ a + i \in 1 .. a + b  BY <2>3, <4>1
      <4> QED BY <3>1, <4>1, <4>2
    <3>2. CASE k # m
      <4>1. k \in 1 .. m - 1  BY <2>1, <3>2
      <4>2. pre[k - 1] + i \in 1 .. a /\ h[m - 1][pre[k - 1] + i] = ss[k][i]
        BY <2>1, <4>1 DEF a
      <4>3. pre[k - 1] + i \in 1 .. a + b  BY <2>3, <4>2
      <4> QED BY <2>3, <4>2, <4>3
    <3> QED BY <3>1, <3>2
  <2>5. ASSUME NEW t \in 1 .. a + b
        PROVE  \E k \in 1 .. m : t - pre[k - 1] \in 1 .. Len(ss[k])
    <3>1. CASE t \in 1 .. a
      <4>1. PICK k \in 1 .. m - 1 : t - pre[k - 1] \in 1 .. Len(ss[k])
        BY <2>1, <3>1 DEF a
      <4>2. k \in 1 .. m  BY <2>1
      <4> QED BY <4>1, <4>2
    <3>2. CASE t \notin 1 .. a
      <4>1. t - a \in 1 .. b  BY <2>3, <3>2
      <4>2. m \in 1 .. m  BY <2>1
      <4> QED BY <2>3, <4>1, <4>2 DEF b
    <3> QED BY <3>1, <3>2
  <2>6. part(m)  BY <2>3, <2>4, <2>5
  <2>7. m \in 0 .. n  BY <1>7
  <2> QED BY <2>6, <2>7
<1> HIDE DEF T
<1>20. n \in T  BY <1>1, <1>18, <1>19, Induction
<1>21. Joins(h[n], ss, pre)
  <2>1. part(n)  BY <1>20 DEF T
  <2>2. Len(h[n]) = pre[n]  BY <1>1, <1>15
  <2> QED BY <1>16, <1>17, <2>1, <2>2 DEF Joins, n
<1>22. h[n] \in Seq(X)  BY <1>1, <1>6
<1> QED BY <1>14, <1>15, <1>21, <1>22 DEF n

\* A function on the numbers up to n is a sequence.
LEMMA FunctionIsSequence ==
    ASSUME NEW X, NEW n \in Nat, NEW s \in [1 .. n -> X]
    PROVE  s \in Seq(X) /\ Len(s) = n /\ DOMAIN s = 1 .. n
  OBVIOUS

\* A short sequence is the tuple of its elements.
LEMMA IsTuple ==
    ASSUME NEW X, NEW t \in Seq(X)
    PROVE  /\ Len(t) = 0 => t = <<>>
           /\ Len(t) = 1 => t = <<t[1]>>
           /\ Len(t) = 2 => t = <<t[1], t[2]>>
           /\ Len(t) = 3 => t = <<t[1], t[2], t[3]>>
  OBVIOUS

\* Two sequences of one element each make a pair.
LEMMA ConcatOfOnes ==
    ASSUME NEW X, NEW a \in Seq(X), NEW b \in Seq(X), Len(a) = 1, Len(b) = 1
    PROVE  a \o b = <<a[1], b[1]>>
<1>1. a \o b \in Seq(X) /\ Len(a \o b) = 2
  <2>1. a \o b \in Seq(X)  OBVIOUS
  <2>2. Len(a \o b) = Len(a) + Len(b)  BY ConcatFacts, Zenon
  <2> QED BY <2>1, <2>2
<1>2. (a \o b)[1] = a[1] /\ (a \o b)[2] = b[1]  OBVIOUS
<1>3. a \o b = <<(a \o b)[1], (a \o b)[2]>>  BY <1>1, IsTuple
<1> QED BY <1>2, <1>3

\* What SubSeq() takes of a sequence of three.
LEMMA ShortSequences ==
    ASSUME NEW X, NEW s \in [1 .. 3 -> X]
    PROVE  /\ s \in Seq(X) /\ Len(s) = 3 /\ DOMAIN s = 1 .. 3 /\ s = <<s[1], s[2], s[3]>>
           /\ SubSeq(s, 1, 0) = <<>> /\ SubSeq(s, 4, 3) = <<>>
           /\ SubSeq(s, 1, 1) = <<s[1]>> /\ SubSeq(s, 3, 3) = <<s[3]>>
           /\ SubSeq(s, 1, 2) = <<s[1], s[2]>> /\ SubSeq(s, 2, 3) = <<s[2], s[3]>>
           /\ SubSeq(s, 1, 3) = <<s[1], s[2], s[3]>>
<1>1. 3 \in Nat  OBVIOUS
<1>2. s \in Seq(X) /\ Len(s) = 3 /\ DOMAIN s = 1 .. 3
  BY <1>1, FunctionIsSequence
<1>3. s = <<s[1], s[2], s[3]>>  BY <1>2, IsTuple
<1>4. \A m, n \in Int : n < m => SubSeq(s, m, n) = <<>>  BY SubSeqEmpty
<1>5. ASSUME NEW m \in 1 .. 3, NEW n \in m .. 3
      PROVE  /\ SubSeq(s, m, n) \in Seq(X) /\ Len(SubSeq(s, m, n)) = n - m + 1
             /\ \A i \in 1 .. n - m + 1 : SubSeq(s, m, n)[i] = s[m + i - 1]
  <2>1. \A i \in m .. n : s[i] \in X  OBVIOUS
  <2>2. m \in Int /\ n \in Int /\ m <= n  OBVIOUS
  <2> QED BY <2>1, <2>2, SubSeqProperties
<1>6. SubSeq(s, 1, 1) = <<s[1]>> /\ SubSeq(s, 3, 3) = <<s[3]>>
  <2> DEFINE t == SubSeq(s, 1, 1)  u == SubSeq(s, 3, 3)
  <2>1. t \in Seq(X) /\ Len(t) = 1 /\ t[1] = s[1]  BY <1>5
  <2>2. u \in Seq(X) /\ Len(u) = 1 /\ u[1] = s[3]  BY <1>5
  <2> HIDE DEF t, u
  <2>3. t = <<s[1]>> /\ u = <<s[3]>>  BY <2>1, <2>2, IsTuple
  <2> QED BY <2>3 DEF t, u
<1>7. SubSeq(s, 1, 2) = <<s[1], s[2]>> /\ SubSeq(s, 2, 3) = <<s[2], s[3]>>
  <2> DEFINE t == SubSeq(s, 1, 2)  u == SubSeq(s, 2, 3)
  <2>1. t \in Seq(X) /\ Len(t) = 2 /\ t[1] = s[1] /\ t[2] = s[2]  BY <1>5
  <2>2. u \in Seq(X) /\ Len(u) = 2 /\ u[1] = s[2] /\ u[2] = s[3]  BY <1>5
  <2> HIDE DEF t, u
  <2>3. t = <<s[1], s[2]>> /\ u = <<s[2], s[3]>>  BY <2>1, <2>2, IsTuple
  <2> QED BY <2>3 DEF t, u
<1>8. SubSeq(s, 1, 3) = <<s[1], s[2], s[3]>>
  <2>1. SubSeq(s, 1, 3) = s  BY <1>2, SubSeqFull
  <2> QED BY <1>3, <2>1
<1>9. SubSeq(s, 1, 0) = <<>> /\ SubSeq(s, 4, 3) = <<>>  BY <1>4
<1> QED BY <1>2, <1>3, <1>6, <1>7, <1>8, <1>9

\* What SubSeq() takes of a sequence of two.
LEMMA ShorterSequences ==
    ASSUME NEW X, NEW s \in [1 .. 2 -> X]
    PROVE  /\ s \in Seq(X) /\ Len(s) = 2 /\ DOMAIN s = 1 .. 2 /\ s = <<s[1], s[2]>>
           /\ SubSeq(s, 1, 0) = <<>> /\ SubSeq(s, 3, 2) = <<>>
           /\ SubSeq(s, 1, 1) = <<s[1]>> /\ SubSeq(s, 2, 2) = <<s[2]>>
<1>1. 2 \in Nat  OBVIOUS
<1>2. s \in Seq(X) /\ Len(s) = 2 /\ DOMAIN s = 1 .. 2
  BY <1>1, FunctionIsSequence
<1>3. s = <<s[1], s[2]>>  BY <1>2, IsTuple
<1>4. SubSeq(s, 1, 0) = <<>> /\ SubSeq(s, 3, 2) = <<>>  BY SubSeqEmpty
<1>5. ASSUME NEW m \in 1 .. 2
      PROVE  SubSeq(s, m, m) = <<s[m]>>
  <2> DEFINE t == SubSeq(s, m, m)
  <2>1. \A i \in m .. m : s[i] \in X  OBVIOUS
  <2>2. t \in Seq(X) /\ Len(t) = 1 /\ t[1] = s[m]
    BY <2>1, SubSeqProperties
  <2> HIDE DEF t
  <2>3. t = <<s[m]>>  BY <2>2, IsTuple
  <2> QED BY <2>3 DEF t
<1> QED BY <1>2, <1>3, <1>4, <1>5

\* What squeeze() leaves.
LEMMA Squeezed ==
    ASSUME NEW X, NEW s \in [1 .. 3 -> X]
    PROVE  /\ Squeeze(s, 1) = <<s[2], s[3]>>
           /\ Squeeze(s, 2) = <<s[1], s[3]>>
           /\ Squeeze(s, 3) = <<s[1], s[2]>>
<1>1. Len(s) = 3 /\ s \in Seq(X) /\ s[1] \in X /\ s[2] \in X /\ s[3] \in X
  BY ShortSequences
<1>2. /\ SubSeq(s, 1, 0) = <<>> /\ SubSeq(s, 4, 3) = <<>>
      /\ SubSeq(s, 1, 1) = <<s[1]>> /\ SubSeq(s, 3, 3) = <<s[3]>>
      /\ SubSeq(s, 1, 2) = <<s[1], s[2]>> /\ SubSeq(s, 2, 3) = <<s[2], s[3]>>
  BY ShortSequences
<1>3. 1 - 1 = 0 /\ 2 - 1 = 1 /\ 3 - 1 = 2 /\ 1 + 1 = 2 /\ 2 + 1 = 3 /\ 3 + 1 = 4
  OBVIOUS
<1>4. RemoveAt(s, 1) = <<>> \o <<s[2], s[3]>>
  BY <1>1, <1>2, <1>3 DEF RemoveAt
<1>5. RemoveAt(s, 2) = <<s[1]>> \o <<s[3]>>
  BY <1>1, <1>2, <1>3 DEF RemoveAt
<1>6. RemoveAt(s, 3) = <<s[1], s[2]>> \o <<>>
  BY <1>1, <1>2, <1>3 DEF RemoveAt
<1>7. ASSUME NEW x \in X, NEW y \in X
      PROVE  /\ <<>> \o <<x, y>> = <<x, y>> /\ <<x, y>> \o <<>> = <<x, y>>
             /\ <<x>> \o <<y>> = <<x, y>>
  <2>1. <<x, y>> \in Seq(X) /\ <<x>> \in Seq(X) /\ <<y>> \in Seq(X)
    OBVIOUS
  <2>2. <<>> \o <<x, y>> = <<x, y>> /\ <<x, y>> \o <<>> = <<x, y>>
    BY <2>1, ConcatEmptySeq
  <2>3. <<x>> \o <<y>> = <<x, y>>
    <3> DEFINE a == <<x>>  b == <<y>>
    <3>1. /\ a \in Seq(X) /\ b \in Seq(X) /\ Len(a) = 1 /\ Len(b) = 1
          /\ a[1] = x /\ b[1] = y
      OBVIOUS
    <3> HIDE DEF a, b
    <3>2. a \o b = <<a[1], b[1]>>  BY <3>1, ConcatOfOnes
    <3> QED BY <3>1, <3>2 DEF a, b
  <2> QED BY <2>2, <2>3
<1> QED BY <1>1, <1>4, <1>5, <1>6, <1>7 DEF Squeeze

\* The product of two numbers.
LEMMA ProductOfTwo ==
    ASSUME NEW s \in [1 .. 2 -> Nat]
    PROVE  Product(s) = s[1] * s[2] /\ Product(s) \in Nat
<1>1. 2 \in Nat  OBVIOUS
<1>2. PICK h \in [0 .. 2 -> Nat] : Products(h, s, 2) /\ Product(s) = h[2]
  BY <1>1, ProductIterates
<1>3. h[0] = 1 /\ h[1] = h[0] * s[1] /\ h[2] = h[1] * s[2]
  <2>1. 1 \in 1 .. 2 /\ 2 \in 1 .. 2 /\ 1 - 1 = 0 /\ 2 - 1 = 1  OBVIOUS
  <2>2. h[0] = 1 /\ h[1] = h[1 - 1] * s[1] /\ h[2] = h[2 - 1] * s[2]
    BY <1>2, <2>1 DEF Products
  <2> QED BY <2>1, <2>2
<1>4. s[1] \in Nat /\ s[2] \in Nat /\ h[1] \in Nat  OBVIOUS
<1>5. h[1] = s[1]  BY <1>3, <1>4
<1> QED BY <1>2, <1>3, <1>4, <1>5

\* The product of three numbers.
LEMMA ProductOfThree ==
    ASSUME NEW s \in [1 .. 3 -> Nat]
    PROVE  Product(s) = (s[1] * s[2]) * s[3] /\ Product(s) \in Nat
<1>1. 3 \in Nat  OBVIOUS
<1>2. PICK h \in [0 .. 3 -> Nat] : Products(h, s, 3) /\ Product(s) = h[3]
  BY <1>1, ProductIterates
<1>3. h[0] = 1 /\ h[1] = h[0] * s[1] /\ h[2] = h[1] * s[2] /\ h[3] = h[2] * s[3]
  <2>1. /\ 1 \in 1 .. 3 /\ 2 \in 1 .. 3 /\ 3 \in 1 .. 3
        /\ 1 - 1 = 0 /\ 2 - 1 = 1 /\ 3 - 1 = 2
    OBVIOUS
  <2>2. /\ h[0] = 1 /\ h[1] = h[1 - 1] * s[1] /\ h[2] = h[2 - 1] * s[2]
        /\ h[3] = h[3 - 1] * s[3]
    BY <1>2, <2>1 DEF Products
  <2> QED BY <2>1, <2>2
<1>4. s[1] \in Nat /\ s[2] \in Nat /\ s[3] \in Nat /\ h[1] \in Nat /\ h[2] \in Nat
  OBVIOUS
<1>5. h[1] = s[1]  BY <1>3, <1>4
<1> QED BY <1>2, <1>3, <1>4, <1>5

\* The product of nothing is 1.
LEMMA ProductOfNoneAndOne ==
    /\ Product(<<>>) = 1
    /\ \A a \in Nat : Product(<<a>>) = a
<1>1. 0 \in Nat /\ 1 \in Nat  OBVIOUS
<1>2. Product(<<>>) = 1
  <2>1. <<>> \in [1 .. 0 -> Nat]  OBVIOUS
  <2>2. PICK h \in [0 .. 0 -> Nat] : Products(h, <<>>, 0) /\ Product(<<>>) = h[0]
    BY <1>1, <2>1, ProductIterates
  <2> QED BY <2>2 DEF Products
<1>3. ASSUME NEW a \in Nat PROVE Product(<<a>>) = a
  <2> DEFINE s == <<a>>
  <2>1. s \in [1 .. 1 -> Nat] /\ s[1] = a  OBVIOUS
  <2> HIDE DEF s
  <2>2. PICK h \in [0 .. 1 -> Nat] : Products(h, s, 1) /\ Product(s) = h[1]
    BY <1>1, <2>1, ProductIterates
  <2>3. 1 \in 1 .. 1 /\ 1 - 1 = 0  OBVIOUS
  <2>4. h[0] = 1 /\ h[1] = h[1 - 1] * s[1]  BY <2>2, <2>3 DEF Products
  <2>5. h[1] = 1 * a  BY <2>1, <2>3, <2>4
  <2> QED BY <2>2, <2>5 DEF s
<1> QED BY <1>2, <1>3

\* A number is its quotient and remainder.
LEMMA QuotientRemainder ==
    ASSUME NEW a \in Nat, NEW b \in Nat \ {0}
    PROVE  /\ a \div b \in Nat /\ a % b \in 0 .. b - 1
           /\ a = ((a \div b) * b) + (a % b)
  BY SMT

\* Dividing is the inverse of multiplying and adding less than the divisor.
LEMMA DivideUnique ==
    ASSUME NEW q \in Nat, NEW b \in Nat \ {0}, NEW r \in 0 .. b - 1
    PROVE  ((q * b) + r) \div b = q /\ ((q * b) + r) % b = r
  BY SMT

\* The smallest number of parts of b that hold a.
LEMMA CeilingDivision ==
    ASSUME NEW a \in Nat \ {0}, NEW b \in Nat \ {0}
    PROVE  LET n == (a + (b - 1)) \div b
           IN  n \in Nat \ {0} /\ (n - 1) * b < a /\ a <= n * b
<1> DEFINE n == (a + (b - 1)) \div b
           r == (a + (b - 1)) % b
<1>1. /\ n \in Nat /\ r \in 0 .. b - 1
      /\ a + (b - 1) = (n * b) + r
  <2>1. a + (b - 1) \in Nat  OBVIOUS
  <2> QED BY <2>1, QuotientRemainder
<1> HIDE DEF n, r
<1>2. (n - 1) * b = (n * b) - b  BY <1>1
<1>3. n # 0
  <2>1. SUFFICES ASSUME n = 0 PROVE FALSE
    OBVIOUS
  <2>2. n * b = 0  BY <2>1
  <2> QED BY <1>1, <2>2
<1>4. n * b \in Nat  BY <1>1
<1> QED BY <1>1, <1>2, <1>3, <1>4 DEF n

\* The provers are slow to see that this is a number.
LEMMA MultiplyAdd ==
    ASSUME NEW a \in Nat, NEW b \in Nat, NEW c \in Nat
    PROVE  a * b + c \in Nat
<1>1. a * b \in Nat  OBVIOUS
<1> QED BY <1>1

\* The position in a list that the code goes through row by row.
Offsets(h, p, box, n) == h[0] = 0 /\ \A k \in 1 .. n : h[k] = h[k - 1] * box[k] + p[k]

\* Offset() multiplies by the next extent and adds, from the left.
LEMMA OffsetIterates ==
    ASSUME NEW n \in Nat, NEW p \in [1 .. n -> Nat], NEW box \in [1 .. n -> Nat]
    PROVE  \E h \in [0 .. n -> Nat] : Offsets(h, p, box, n) /\ Offset(p, box) = h[n]
<1> DEFINE sq == [d \in 1 .. n |-> d]
           R(g) == g = [T \in SUBSET (1 .. n) |->
                          IF T = {} THEN 0 ELSE g[T \ {Max(T)}] * box[sq[Max(T)]] + p[sq[Max(T)]]]
           Step == [x \in (1 .. n) \X Nat |-> x[2] * box[x[1]] + p[x[1]]]
           g == CHOOSE g : R(g)
<1>1. Offset(p, box) = g[1 .. n]  BY DEF Offset, FoldLeft, MapThenFoldSet
<1>2. 0 \in Nat /\ Step \in [(1 .. n) \X Nat -> Nat]
  <2>1. ASSUME NEW x \in (1 .. n) \X Nat PROVE x[2] * box[x[1]] + p[x[1]] \in Nat
    <3>1. x[1] \in 1 .. n /\ x[2] \in Nat /\ box[x[1]] \in Nat /\ p[x[1]] \in Nat
      OBVIOUS
    <3> QED BY <3>1, MultiplyAdd
  <2> QED BY <2>1
<1>3. \A k \in 1 .. n, v \in Nat : Step[<<k, v>>] = v * box[k] + p[k]
  OBVIOUS
<1>4. \A T \in SUBSET (1 .. n) : T # {} => Max(T) \in 1 .. n /\ sq[Max(T)] = Max(T)
  BY MaxOfSet
<1> HIDE DEF Step, sq
<1>5. R(g)
  <2>1. PICK f \in [SUBSET (1 .. n) -> Nat] : Folds(f, 0, n, Step)
    BY <1>2, FoldExists
  <2>2. ASSUME NEW T \in SUBSET (1 .. n)
        PROVE f[T] = IF T = {} THEN 0 ELSE f[T \ {Max(T)}] * box[sq[Max(T)]] + p[sq[Max(T)]]
    <3>1. CASE T = {}  BY <2>1, <3>1 DEF Folds
    <3>2. CASE T # {}
      <4>1. Max(T) \in 1 .. n /\ sq[Max(T)] = Max(T)  BY <1>4, <3>2
      <4>2. f[T] = Step[<<Max(T), f[T \ {Max(T)}]>>]
        BY <2>1, <3>2 DEF Folds
      <4>3. f[T \ {Max(T)}] \in Nat  BY <2>1
      <4>4. f[T] = f[T \ {Max(T)}] * box[Max(T)] + p[Max(T)]
        BY <1>3, <4>1, <4>2, <4>3
      <4> QED BY <3>2, <4>1, <4>4
    <3> QED BY <3>1, <3>2
  <2>3. R(f)  BY <2>2
  <2> HIDE DEF R
  <2> QED BY <2>3
<1> HIDE DEF g
<1>6. g[{}] = 0  BY <1>5
<1>7. Unfolds(g, 0, n, Step, Nat)
  <2>1. ASSUME NEW T \in SUBSET (1 .. n), T # {}, g[T \ {Max(T)}] \in Nat
        PROVE  g[T] = Step[<<Max(T), g[T \ {Max(T)}]>>]
    <3>1. Max(T) \in 1 .. n /\ sq[Max(T)] = Max(T)  BY <1>4, <2>1
    <3>2. g[T] = g[T \ {Max(T)}] * box[sq[Max(T)]] + p[sq[Max(T)]]
      BY <1>5, <2>1
    <3>3. Step[<<Max(T), g[T \ {Max(T)}]>>] = g[T \ {Max(T)}] * box[Max(T)] + p[Max(T)]
      BY <1>3, <2>1, <3>1
    <3> QED BY <3>1, <3>2, <3>3
  <2> QED BY <1>6, <2>1 DEF Unfolds
<1>8. PICK h \in [0 .. n -> Nat] : Iterates(h, 0, n, Step, g[1 .. n])
  BY <1>2, <1>7, FoldSequence
<1>9. \A k \in 1 .. n : k - 1 \in 0 .. n  OBVIOUS
<1>10. \A k \in 1 .. n : h[k] = h[k - 1] * box[k] + p[k]
  BY <1>3, <1>8, <1>9 DEF Iterates
<1> QED BY <1>1, <1>8, <1>10 DEF Iterates, Offsets

\* The place of a point in a plane.
LEMMA OffsetOfTwo ==
    ASSUME NEW p \in [1 .. 2 -> Nat], NEW box \in [1 .. 2 -> Nat]
    PROVE  Offset(p, box) = p[1] * box[2] + p[2]
<1>1. 2 \in Nat  OBVIOUS
<1>2. PICK h \in [0 .. 2 -> Nat] : Offsets(h, p, box, 2) /\ Offset(p, box) = h[2]
  BY <1>1, OffsetIterates
<1>3. h[0] = 0 /\ h[1] = h[0] * box[1] + p[1] /\ h[2] = h[1] * box[2] + p[2]
  <2>1. 1 \in 1 .. 2 /\ 2 \in 1 .. 2 /\ 1 - 1 = 0 /\ 2 - 1 = 1  OBVIOUS
  <2>2. h[0] = 0 /\ h[1] = h[1 - 1] * box[1] + p[1] /\ h[2] = h[2 - 1] * box[2] + p[2]
    BY <1>2, <2>1 DEF Offsets
  <2> QED BY <2>1, <2>2
<1>4. p[1] \in Nat /\ box[1] \in Nat /\ h[1] \in Nat  OBVIOUS
<1>5. h[1] = p[1]  BY <1>3, <1>4
<1> QED BY <1>2, <1>3, <1>5

\* The place of a point in a cube.
LEMMA OffsetOfThree ==
    ASSUME NEW p \in [1 .. 3 -> Nat], NEW box \in [1 .. 3 -> Nat]
    PROVE  Offset(p, box) = (p[1] * box[2] + p[2]) * box[3] + p[3]
<1>1. 3 \in Nat  OBVIOUS
<1>2. PICK h \in [0 .. 3 -> Nat] : Offsets(h, p, box, 3) /\ Offset(p, box) = h[3]
  BY <1>1, OffsetIterates
<1>3. /\ h[0] = 0 /\ h[1] = h[0] * box[1] + p[1] /\ h[2] = h[1] * box[2] + p[2]
      /\ h[3] = h[2] * box[3] + p[3]
  <2>1. /\ 1 \in 1 .. 3 /\ 2 \in 1 .. 3 /\ 3 \in 1 .. 3
        /\ 1 - 1 = 0 /\ 2 - 1 = 1 /\ 3 - 1 = 2
    OBVIOUS
  <2>2. /\ h[0] = 0 /\ h[1] = h[1 - 1] * box[1] + p[1] /\ h[2] = h[2 - 1] * box[2] + p[2]
        /\ h[3] = h[3 - 1] * box[3] + p[3]
    BY <1>2, <2>1 DEF Offsets
  <2> QED BY <2>1, <2>2
<1>4. p[1] \in Nat /\ box[1] \in Nat /\ h[1] \in Nat  OBVIOUS
<1>5. h[1] = p[1]  BY <1>3, <1>4
<1> QED BY <1>2, <1>3, <1>5

\* Two dimensions in one.
LEMMA InRows ==
    ASSUME NEW a \in Nat \ {0}, NEW b \in Nat \ {0}
    PROVE  /\ a * b \in Nat \ {0}
           /\ \A i \in 0 .. a - 1, j \in 0 .. b - 1 :
                 i * b + j \in 0 .. a * b - 1 /\ (i * b + j) \div b = i /\ (i * b + j) % b = j
           /\ \A o \in 0 .. a * b - 1 :
                 /\ o \div b \in 0 .. a - 1 /\ o % b \in 0 .. b - 1
                 /\ o = (o \div b) * b + (o % b)
<1>1. a * b \in Nat \ {0}
  <2>1. (a - 1) * b \in Nat /\ a * b = (a - 1) * b + b  OBVIOUS
  <2> QED BY <2>1
<1>2. ASSUME NEW i \in 0 .. a - 1, NEW j \in 0 .. b - 1
      PROVE  i * b + j \in 0 .. a * b - 1 /\ (i * b + j) \div b = i /\ (i * b + j) % b = j
  <2>1. (i * b + j) \div b = i /\ (i * b + j) % b = j  BY DivideUnique
  <2>2. i * b <= (a - 1) * b /\ i * b \in Nat  OBVIOUS
  <2>3. a * b = (a - 1) * b + b  OBVIOUS
  <2>4. i * b + j <= a * b - 1 /\ i * b + j \in Nat  BY <1>1, <2>2, <2>3
  <2> QED BY <1>1, <2>1, <2>4
<1>3. ASSUME NEW o \in 0 .. a * b - 1
      PROVE  /\ o \div b \in 0 .. a - 1 /\ o % b \in 0 .. b - 1
             /\ o = (o \div b) * b + (o % b)
  <2> DEFINE q == o \div b  r == o % b
  <2>1. q \in Nat /\ r \in 0 .. b - 1 /\ o = q * b + r /\ o \in Nat
    BY QuotientRemainder
  <2> HIDE DEF q, r
  <2>2. q < a
    <3>1. SUFFICES ASSUME a <= q PROVE FALSE
      BY <2>1
    <3>2. a * b <= q * b /\ q * b \in Nat  BY <2>1, <3>1
    <3> QED BY <1>1, <2>1, <3>2
  <2> QED BY <2>1, <2>2 DEF q, r
<1> QED BY <1>1, <1>2, <1>3

AreRows(a, b) ==
    /\ a * b \in Nat \ {0}
    /\ \A i \in 0 .. a - 1, j \in 0 .. b - 1 :
          i * b + j \in 0 .. a * b - 1 /\ (i * b + j) \div b = i /\ (i * b + j) % b = j
    /\ \A o \in 0 .. a * b - 1 :
          /\ o \div b \in 0 .. a - 1 /\ o % b \in 0 .. b - 1
          /\ o = (o \div b) * b + (o % b)

\* The same under a name.
LEMMA RowsAre ==
    ASSUME NEW a \in Nat \ {0}, NEW b \in Nat \ {0}
    PROVE  AreRows(a, b)
  BY InRows DEF AreRows

\* Where the number o is in rows of b.
IsInRow(a, b, o) ==
    o \div b \in 0 .. a - 1 /\ o % b \in 0 .. b - 1 /\ o = (o \div b) * b + (o % b) /\ o \in Nat

\* Every number is at one place of the rows.
LEMMA RowOf ==
    ASSUME NEW a \in Nat \ {0}, NEW b \in Nat \ {0}, NEW o \in 0 .. a * b - 1
    PROVE  IsInRow(a, b, o)
<1>1. o \in Nat  OBVIOUS
<1>2. o \div b \in 0 .. a - 1 /\ o % b \in 0 .. b - 1 /\ o = (o \div b) * b + (o % b)
  BY InRows
<1> QED BY <1>1, <1>2 DEF IsInRow

\* What is less than the divisor is its own remainder.
LEMMA RemainderBelow ==
    ASSUME NEW b \in Nat \ {0}, NEW i \in 0 .. b - 1
    PROVE  i % b = i
  BY SMT

\* A row-major list has each point of its box at one position.
LEMMA BoxOfTwo ==
    ASSUME NEW box \in ShapesOver(1 .. 2)
    PROVE  /\ Product(box) = box[1] * box[2] /\ Product(box) \in Nat \ {0}
           /\ \A p \in CubePoints(box) :
                 /\ Offset(p, box) = p[1] * box[2] + p[2]
                 /\ Offset(p, box) \in 0 .. Product(box) - 1
                 /\ PointAt(Offset(p, box), box) = p
           /\ \A off \in 0 .. Product(box) - 1 :
                 PointAt(off, box) \in CubePoints(box) /\ Offset(PointAt(off, box), box) = off
<1> DEFINE a == box[1]  b == box[2]
<1>1. a \in Nat \ {0} /\ b \in Nat \ {0} /\ box \in [1 .. 2 -> Nat]
  BY DEF ShapesOver
<1>2. Product(box) = a * b  BY <1>1, ProductOfTwo
<1>3. ASSUME NEW off \in Nat
      PROVE  PointAt(off, box) \in [1 .. 2 -> Nat]
             /\ PointAt(off, box)[1] = (off \div b) % a /\ PointAt(off, box)[2] = off % b
  <2>1. DOMAIN box = 1 .. 2 /\ Len(box) = 2 /\ SubSeq(box, 2, 2) = <<b>> /\ SubSeq(box, 3, 2) = <<>>
    BY <1>1, ShorterSequences
  <2>2. Product(SubSeq(box, 2, 2)) = b /\ Product(SubSeq(box, 3, 2)) = 1
    BY <1>1, <2>1, ProductOfNoneAndOne
  <2>3. PointAt(off, box) = [d \in 1 .. 2 |->
            (off \div Product(SubSeq(box, d + 1, 2))) % box[d]]
    BY <2>1 DEF PointAt
  <2>4. /\ PointAt(off, box)[1] = (off \div Product(SubSeq(box, 1 + 1, 2))) % a
        /\ PointAt(off, box)[2] = (off \div Product(SubSeq(box, 2 + 1, 2))) % b
    BY <2>3
  <2>5. 1 + 1 = 2 /\ 2 + 1 = 3 /\ off \div 1 = off  OBVIOUS
  <2>6. PointAt(off, box)[1] = (off \div b) % a /\ PointAt(off, box)[2] = off % b
    BY <2>2, <2>4, <2>5
  <2>7. (off \div b) % a \in Nat /\ off % b \in Nat
    <3> HIDE DEF a, b
    <3>1. b \in Nat \ {0}  BY <1>1
    <3>2. off \div b \in Nat /\ off % b \in 0 .. b - 1
      BY <3>1, QuotientRemainder
    <3>3. off \div b \in Nat /\ off % b \in Nat  BY <3>1, <3>2
    <3> QED BY <1>1, <3>3, QuotientRemainder
  <2>8. \A d \in 1 .. 2 : PointAt(off, box)[d] \in Nat  BY <2>6, <2>7
  <2> QED BY <2>3, <2>6, <2>8
<1> HIDE DEF a, b
<1>4. /\ a * b \in Nat \ {0}
      /\ \A i \in 0 .. a - 1, j \in 0 .. b - 1 :
            i * b + j \in 0 .. a * b - 1 /\ (i * b + j) \div b = i /\ (i * b + j) % b = j
      /\ \A o \in 0 .. a * b - 1 :
            /\ o \div b \in 0 .. a - 1 /\ o % b \in 0 .. b - 1
            /\ o = (o \div b) * b + (o % b)
  BY <1>1, InRows
<1>5. ASSUME NEW p \in [1 .. 2 -> Nat]
      PROVE  p \in CubePoints(box) <=> p[1] \in 0 .. a - 1 /\ p[2] \in 0 .. b - 1
  <2>1. DOMAIN box = 1 .. 2  BY <1>1
  <2>2. p \in CubePoints(box) <=> p[1] < a /\ p[2] < b
    BY <2>1 DEF CubePoints, a, b
  <2>3. p[1] \in Nat /\ p[2] \in Nat  OBVIOUS
  <2> QED BY <1>1, <2>2, <2>3
<1>6. ASSUME NEW p \in CubePoints(box)
      PROVE  /\ Offset(p, box) = p[1] * b + p[2]
             /\ Offset(p, box) \in 0 .. a * b - 1
             /\ PointAt(Offset(p, box), box) = p
  <2>1. p \in [1 .. 2 -> Nat]  BY <1>1 DEF CubePoints
  <2>2. Offset(p, box) = p[1] * b + p[2]
    BY <1>1, <2>1, OffsetOfTwo DEF b
  <2> DEFINE i == p[1]  j == p[2]  off == Offset(p, box)
  <2>3. i \in 0 .. a - 1 /\ j \in 0 .. b - 1  BY <1>5, <2>1
  <2>4. off = i * b + j  BY <2>2
  <2> HIDE DEF i, j, off
  <2>5. off \in 0 .. a * b - 1 /\ off \div b = i /\ off % b = j /\ off \in Nat
    <3>1. i * b + j \in 0 .. a * b - 1 /\ (i * b + j) \div b = i /\ (i * b + j) % b = j
      BY <1>4, <2>3
    <3> QED BY <2>4, <3>1, <1>4
  <2>6. i % a = i  BY <1>1, <2>3, RemainderBelow
  <2>7. PointAt(off, box) \in [1 .. 2 -> Nat] /\ PointAt(off, box)[1] = i /\ PointAt(off, box)[2] = j
    BY <1>3, <2>5, <2>6
  <2>8. PointAt(off, box) = p  BY <2>1, <2>7 DEF i, j
  <2> QED BY <2>2, <2>5, <2>8 DEF off
<1>7. ASSUME NEW off \in 0 .. a * b - 1
      PROVE  PointAt(off, box) \in CubePoints(box) /\ Offset(PointAt(off, box), box) = off
  <2> DEFINE p == PointAt(off, box)  i == off \div b  j == off % b
  <2>1. i \in 0 .. a - 1 /\ j \in 0 .. b - 1 /\ off = i * b + j /\ off \in Nat
    BY <1>4
  <2>2. p \in [1 .. 2 -> Nat] /\ p[1] = i % a /\ p[2] = j  BY <1>3, <2>1
  <2> HIDE DEF p, i, j
  <2>3. i % a = i  BY <1>1, <2>1, RemainderBelow
  <2>4. p \in CubePoints(box)  BY <1>5, <2>1, <2>2, <2>3
  <2>5. Offset(p, box) = p[1] * b + p[2]  BY <1>6, <2>4
  <2> QED BY <2>1, <2>2, <2>3, <2>4, <2>5 DEF p
<1> QED BY <1>2, <1>4, <1>6, <1>7 DEF a, b

\* In a cube of three dimensions, Offset() and PointAt() are each other's inverse.
LEMMA BoxOfThree ==
    ASSUME NEW box \in ShapesOver(1 .. 3)
    PROVE  /\ Product(box) = (box[1] * box[2]) * box[3] /\ Product(box) \in Nat \ {0}
           /\ \A p \in CubePoints(box) :
                 /\ Offset(p, box) = (p[1] * box[2] + p[2]) * box[3] + p[3]
                 /\ Offset(p, box) \in 0 .. Product(box) - 1
                 /\ PointAt(Offset(p, box), box) = p
           /\ \A off \in 0 .. Product(box) - 1 :
                 PointAt(off, box) \in CubePoints(box) /\ Offset(PointAt(off, box), box) = off
<1> DEFINE a == box[1]  b == box[2]  c == box[3]
<1>1. a \in Nat \ {0} /\ b \in Nat \ {0} /\ c \in Nat \ {0} /\ box \in [1 .. 3 -> Nat]
  BY DEF ShapesOver
<1>2. Product(box) = (a * b) * c  BY <1>1, ProductOfThree
<1>3. ASSUME NEW off \in Nat
      PROVE  /\ PointAt(off, box) \in [1 .. 3 -> Nat]
             /\ PointAt(off, box)[1] = (off \div (b * c)) % a
             /\ PointAt(off, box)[2] = (off \div c) % b
             /\ PointAt(off, box)[3] = off % c
  <2>1. /\ DOMAIN box = 1 .. 3 /\ Len(box) = 3 /\ SubSeq(box, 2, 3) = <<b, c>>
        /\ SubSeq(box, 3, 3) = <<c>> /\ SubSeq(box, 4, 3) = <<>>
    BY <1>1, ShortSequences
  <2>2. Product(SubSeq(box, 3, 3)) = c /\ Product(SubSeq(box, 4, 3)) = 1
    BY <1>1, <2>1, ProductOfNoneAndOne
  <2>3. Product(SubSeq(box, 2, 3)) = b * c
    <3> DEFINE s == <<b, c>>
    <3>1. s \in [1 .. 2 -> Nat] /\ s[1] = b /\ s[2] = c  BY <1>1
    <3> HIDE DEF s
    <3>2. Product(s) = b * c  BY <3>1, ProductOfTwo
    <3> QED BY <2>1, <3>2 DEF s
  <2>4. PointAt(off, box) = [d \in 1 .. 3 |->
            (off \div Product(SubSeq(box, d + 1, 3))) % box[d]]
    BY <2>1 DEF PointAt
  <2>5. /\ PointAt(off, box)[1] = (off \div Product(SubSeq(box, 1 + 1, 3))) % a
        /\ PointAt(off, box)[2] = (off \div Product(SubSeq(box, 2 + 1, 3))) % b
        /\ PointAt(off, box)[3] = (off \div Product(SubSeq(box, 3 + 1, 3))) % c
    BY <2>4
  <2>6. 1 + 1 = 2 /\ 2 + 1 = 3 /\ 3 + 1 = 4 /\ off \div 1 = off  OBVIOUS
  <2>7. /\ PointAt(off, box)[1] = (off \div (b * c)) % a
        /\ PointAt(off, box)[2] = (off \div c) % b
        /\ PointAt(off, box)[3] = off % c
    BY <2>2, <2>5, <2>6, <2>3
  <2>8. (off \div (b * c)) % a \in Nat /\ (off \div c) % b \in Nat /\ off % c \in Nat
    <3> HIDE DEF a, b, c
    <3>1. c \in Nat \ {0}  BY <1>1
    <3>2. off \div c \in Nat /\ off % c \in 0 .. c - 1
      BY <3>1, QuotientRemainder
    <3>3. off \div c \in Nat /\ off % c \in Nat  BY <3>1, <3>2
    <3>4. b * c \in Nat \ {0}  BY <1>1, InRows
    <3>5. off \div (b * c) \in Nat  BY <3>4, QuotientRemainder
    <3>6. (off \div (b * c)) % a \in Nat
      BY <1>1, <3>5, QuotientRemainder
    <3>7. (off \div c) % b \in Nat  BY <1>1, <3>3, QuotientRemainder
    <3> QED BY <3>3, <3>6, <3>7
  <2>9. \A d \in 1 .. 3 : PointAt(off, box)[d] \in Nat  BY <2>7, <2>8
  <2> QED BY <2>4, <2>7, <2>9
<1> HIDE DEF a, b, c
<1> DEFINE ab == a * b  bc == b * c
<1>4. ab \in Nat \ {0} /\ bc \in Nat \ {0} /\ ab * c = a * bc
  BY <1>1, InRows
<1>5. /\ \A i \in 0 .. a - 1, j \in 0 .. b - 1 :
            i * b + j \in 0 .. ab - 1 /\ (i * b + j) \div b = i /\ (i * b + j) % b = j
      /\ \A o \in 0 .. ab - 1 :
            /\ o \div b \in 0 .. a - 1 /\ o % b \in 0 .. b - 1
            /\ o = (o \div b) * b + (o % b)
  <2>1. AreRows(a, b)  BY <1>1, RowsAre
  <2> QED BY <2>1 DEF AreRows, ab
<1>6. /\ \A i \in 0 .. b - 1, j \in 0 .. c - 1 : i * c + j \in 0 .. bc - 1
  BY <1>1, InRows
<1> HIDE DEF ab, bc
<1>7. /\ ab * c \in Nat \ {0}
       /\ \A i \in 0 .. ab - 1, j \in 0 .. c - 1 :
            i * c + j \in 0 .. ab * c - 1 /\ (i * c + j) \div c = i /\ (i * c + j) % c = j
       /\ \A o \in 0 .. ab * c - 1 :
            /\ o \div c \in 0 .. ab - 1 /\ o % c \in 0 .. c - 1
            /\ o = (o \div c) * c + (o % c)
  <2>1. AreRows(ab, c)  BY <1>1, <1>4, RowsAre
  <2> QED BY <2>1 DEF AreRows
<1>8. \A i \in 0 .. a - 1, j \in 0 .. bc - 1 : (i * bc + j) \div bc = i
  BY <1>1, <1>4, InRows
<1>9. ASSUME NEW p \in [1 .. 3 -> Nat]
      PROVE  p \in CubePoints(box) <=>
                p[1] \in 0 .. a - 1 /\ p[2] \in 0 .. b - 1 /\ p[3] \in 0 .. c - 1
  <2>1. DOMAIN box = 1 .. 3  BY <1>1
  <2>2. p \in CubePoints(box) <=> p[1] < a /\ p[2] < b /\ p[3] < c
    BY <2>1 DEF CubePoints, a, b, c
  <2>3. p[1] \in Nat /\ p[2] \in Nat /\ p[3] \in Nat  OBVIOUS
  <2> QED BY <1>1, <2>2, <2>3
<1>10. ASSUME NEW i \in 0 .. a - 1, NEW j \in 0 .. b - 1, NEW k \in 0 .. c - 1
       PROVE  ((i * b + j) * c + k) \div bc = i
  <2>1. j * c + k \in 0 .. bc - 1  BY <1>6
  <2>2. (i * b + j) * c + k = i * bc + (j * c + k)
    <3>1. i \in Nat /\ j \in Nat /\ k \in Nat  OBVIOUS
    <3>2. (i * b + j) * c = (i * b) * c + j * c  BY <1>1, <3>1
    <3>3. (i * b) * c = i * bc  BY <1>1, <3>1 DEF bc
    <3>4. j * c \in Nat /\ i * bc \in Nat  BY <1>1, <1>4, <3>1
    <3> QED BY <3>1, <3>2, <3>3, <3>4
  <2> QED BY <1>8, <2>1, <2>2
<1>11. ASSUME NEW p \in CubePoints(box)
      PROVE  /\ Offset(p, box) = (p[1] * b + p[2]) * c + p[3]
             /\ Offset(p, box) \in 0 .. ab * c - 1
             /\ PointAt(Offset(p, box), box) = p
  <2>1. p \in [1 .. 3 -> Nat]  BY <1>1 DEF CubePoints
  <2>2. Offset(p, box) = (p[1] * b + p[2]) * c + p[3]
    BY <1>1, <2>1, OffsetOfThree DEF b, c
  <2> DEFINE i == p[1]  j == p[2]  k == p[3]  off == Offset(p, box)
  <2>3. i \in 0 .. a - 1 /\ j \in 0 .. b - 1 /\ k \in 0 .. c - 1
    BY <1>9, <2>1
  <2>4. off = (i * b + j) * c + k  BY <2>2
  <2> HIDE DEF i, j, k, off
  <2> DEFINE m == i * b + j
  <2>5. m \in 0 .. ab - 1 /\ m % b = j  BY <1>5, <2>3
  <2>6. off \div bc = i  BY <1>10, <2>3, <2>4
  <2>7. off = m * c + k  BY <2>4
  <2> HIDE DEF m
  <2>8. off \in 0 .. ab * c - 1 /\ off \div c = m /\ off % c = k /\ off \in Nat
    <3>1. m * c + k \in 0 .. ab * c - 1 /\ (m * c + k) \div c = m /\ (m * c + k) % c = k
      BY <1>7, <2>3, <2>5
    <3> QED BY <2>7, <3>1, <1>7
  <2>9. i % a = i  BY <1>1, <2>3, RemainderBelow
  <2>10. /\ PointAt(off, box) \in [1 .. 3 -> Nat] /\ PointAt(off, box)[1] = i
        /\ PointAt(off, box)[2] = j /\ PointAt(off, box)[3] = k
    BY <1>3, <2>8, <2>9, <2>5, <2>6 DEF bc
  <2>11. PointAt(off, box) = p  BY <2>1, <2>10 DEF i, j, k
  <2> QED BY <2>2, <2>8, <2>11 DEF off
<1>12. ASSUME NEW off \in 0 .. ab * c - 1
      PROVE  PointAt(off, box) \in CubePoints(box) /\ Offset(PointAt(off, box), box) = off
  <2> DEFINE p == PointAt(off, box)  m == off \div c  k == off % c  i == m \div b  j == m % b
  <2>1. m \in 0 .. ab - 1 /\ k \in 0 .. c - 1 /\ off = m * c + k /\ off \in Nat
    <3> HIDE DEF p, i, j
    <3>1. IsInRow(ab, c, off)  BY <1>1, <1>4, RowOf
    <3> QED BY <3>1 DEF IsInRow
  <2>2. /\ p \in [1 .. 3 -> Nat] /\ p[1] = (off \div bc) % a /\ p[2] = m % b /\ p[3] = k
    BY <1>3, <2>1 DEF bc
  <2> HIDE DEF p, m, k
  <2>3. i \in 0 .. a - 1 /\ j \in 0 .. b - 1 /\ m = i * b + j
    BY <1>5, <2>1
  <2>4. p[2] = j  BY <2>2
  <2> HIDE DEF i, j
  <2>5. off \div bc = i /\ i % a = i
    <3>1. off = (i * b + j) * c + k  BY <2>1, <2>3
    <3>2. ((i * b + j) * c + k) \div bc = i  BY <1>10, <2>1, <2>3
    <3>3. i % a = i  BY <1>1, <2>3, RemainderBelow
    <3> QED BY <3>1, <3>2, <3>3
  <2>6. p[1] = i  BY <2>2, <2>5
  <2>7. p \in CubePoints(box)  BY <1>9, <2>1, <2>2, <2>3, <2>4, <2>6
  <2>8. Offset(p, box) = (p[1] * b + p[2]) * c + p[3]  BY <1>11, <2>7
  <2> QED BY <2>1, <2>2, <2>3, <2>4, <2>6, <2>7, <2>8 DEF p
<1> QED BY <1>2, <1>11, <1>12, <1>7 DEF a, b, c, ab

\* s has each member of S at one place.
Enumerates(s, S) ==
    /\ s \in Seq(S)
    /\ \A x \in S : \E i \in 1 .. Len(s) : s[i] = x
    /\ \A i, j \in 1 .. Len(s) : s[i] = s[j] => i = j

\* cartesian_product() has each point of its box once (geometry.impl.hpp 169-195).
LEMMA BoxPointsEnumerate ==
    ASSUME NEW b \in [1 .. 3 -> Nat], NEW e \in [1 .. 3 -> Nat], \A d \in 1 .. 3 : b[d] < e[d]
    PROVE  LET S == {p \in [1 .. 3 -> Nat] : \A d \in 1 .. 3 : b[d] <= p[d] /\ p[d] < e[d]}
           IN  Enumerates(BoxPoints(b, e), S) /\ BoxPoints(b, e) # <<>>
<1> DEFINE S == {p \in [1 .. 3 -> Nat] : \A d \in 1 .. 3 : b[d] <= p[d] /\ p[d] < e[d]}
           x == [d \in 1 .. 3 |-> e[d] - b[d]]
           n == Product(x)
           point(p) == [d \in 1 .. 3 |-> b[d] + p[d]]
           s == BoxPoints(b, e)
<1>1. x \in ShapesOver(1 .. 3) /\ DOMAIN x = 1 .. 3
  <2>1. \A d \in 1 .. 3 : e[d] - b[d] \in Nat \ {0}
    <3> TAKE d \in 1 .. 3
    <3>1. b[d] \in Nat /\ e[d] \in Nat /\ b[d] < e[d]  OBVIOUS
    <3>2. \A u, v \in Nat : u < v => v - u \in Nat \ {0}  OBVIOUS
    <3> QED BY <3>1, <3>2
  <2> QED BY <2>1 DEF ShapesOver
<1>2. \A d \in 1 .. 3 : x[d] = e[d] - b[d]  OBVIOUS
<1>3. s = [k \in 1 .. n |-> s[k]] /\ \A k \in 1 .. n : s[k] = point(PointAt(k - 1, x))
  <2> DEFINE y == [d \in DOMAIN b |-> e[d] - b[d]]
  <2>1. DOMAIN b = 1 .. 3  OBVIOUS
  <2>2. y = x  BY <2>1
  <2>3. s = [k \in 1 .. Product(y) |->
                LET p == PointAt(k - 1, y) IN [d \in DOMAIN p |-> b[d] + p[d]]]
    BY DEF BoxPoints
  <2>4. \A k \in 1 .. Product(y) : DOMAIN PointAt(k - 1, y) = 1 .. 3
    <3>1. DOMAIN y = 1 .. 3  BY <2>1
    <3> QED BY <3>1 DEF PointAt
  <2> HIDE DEF x, y, s
  <2>5. s = [k \in 1 .. n |-> s[k]]  BY <2>2, <2>3
  <2>6. \A k \in 1 .. n : s[k] = point(PointAt(k - 1, y))
    BY <2>2, <2>3, <2>4
  <2> QED BY <2>2, <2>5, <2>6
<1> HIDE DEF x
<1>4. /\ n \in Nat \ {0}
      /\ \A p \in CubePoints(x) : Offset(p, x) \in 0 .. n - 1 /\ PointAt(Offset(p, x), x) = p
      /\ \A off \in 0 .. n - 1 : PointAt(off, x) \in CubePoints(x)
                                 /\ Offset(PointAt(off, x), x) = off
  BY <1>1, BoxOfThree
<1> HIDE DEF n, s
<1>5. ASSUME NEW p \in CubePoints(x)
      PROVE  p \in [1 .. 3 -> Nat] /\ \A d \in 1 .. 3 : p[d] < e[d] - b[d]
  BY <1>1, <1>2 DEF CubePoints
<1>6. ASSUME NEW k \in 1 .. n
      PROVE  k - 1 \in 0 .. n - 1 /\ s[k] = point(PointAt(k - 1, x)) /\ s[k] \in S
  <2>1. k - 1 \in 0 .. n - 1  BY <1>4
  <2> DEFINE p == PointAt(k - 1, x)
  <2>2. p \in CubePoints(x)  BY <1>4, <2>1
  <2>3. s[k] = point(p)  BY <1>3
  <2> HIDE DEF p
  <2>4. p \in [1 .. 3 -> Nat] /\ \A d \in 1 .. 3 : p[d] < e[d] - b[d]
    BY <1>5, <2>2
  <2>5. point(p) \in [1 .. 3 -> Nat]  BY <2>4
  <2>6. ASSUME NEW d \in 1 .. 3 PROVE b[d] <= b[d] + p[d] /\ b[d] + p[d] < e[d]
    <3>1. b[d] \in Nat /\ e[d] \in Nat /\ p[d] \in Nat /\ p[d] < e[d] - b[d]
      BY <2>4
    <3>2. \A u, v, w \in Nat : w < v - u => u <= u + w /\ u + w < v
      OBVIOUS
    <3> QED BY <3>1, <3>2
  <2>7. point(p) \in S  BY <2>5, <2>6
  <2> QED BY <2>1, <2>3, <2>7 DEF p
<1>7. DOMAIN s = 1 .. n /\ s \in [1 .. n -> S]
  <2>1. DOMAIN s = 1 .. n  BY <1>3
  <2>2. s = [k \in 1 .. n |-> s[k]]  BY <1>3
  <2> HIDE DEF S
  <2> QED BY <1>6, <2>1, <2>2
<1>8. s \in Seq(S) /\ Len(s) = n
  <2> HIDE DEF S
  <2> QED BY <1>4, <1>7, FunctionIsSequence
<1>9. ASSUME NEW q \in S PROVE \E i \in 1 .. n : s[i] = q
  <2> DEFINE p == [d \in 1 .. 3 |-> q[d] - b[d]]
             k == Offset(p, x) + 1
  <2>1. q \in [1 .. 3 -> Nat] /\ \A d \in 1 .. 3 : b[d] <= q[d] /\ q[d] < e[d]
    OBVIOUS
  <2>2. ASSUME NEW d \in 1 .. 3
        PROVE  q[d] - b[d] \in Nat /\ q[d] - b[d] < e[d] - b[d] /\ b[d] + (q[d] - b[d]) = q[d]
    <3>1. b[d] \in Nat /\ e[d] \in Nat /\ q[d] \in Nat /\ b[d] <= q[d] /\ q[d] < e[d]
      BY <2>1
    <3>2. \A u, v, w \in Nat : u <= w /\ w < v => w - u \in Nat /\ w - u < v - u /\ u + (w - u) = w
      OBVIOUS
    <3> QED BY <3>1, <3>2
  <2>3. p \in CubePoints(x)  BY <1>1, <1>2, <2>2 DEF CubePoints
  <2>4. k \in 1 .. n /\ PointAt(k - 1, x) = p
    <3> HIDE DEF p
    <3>1. Offset(p, x) \in 0 .. n - 1 /\ PointAt(Offset(p, x), x) = p
      BY <1>4, <2>3
    <3>2. k \in 1 .. n /\ k - 1 = Offset(p, x)  BY <1>4, <3>1
    <3> QED BY <3>1, <3>2
  <2>5. point(p) = q
    <3>1. point(p) = [d \in 1 .. 3 |-> q[d]]  BY <2>2
    <3> QED BY <2>1, <3>1
  <2> HIDE DEF k, p
  <2>6. s[k] = q  BY <1>6, <2>4, <2>5
  <2> QED BY <2>4, <2>6
<1>10. ASSUME NEW i \in 1 .. n, NEW j \in 1 .. n, s[i] = s[j] PROVE i = j
  <2> DEFINE p == PointAt(i - 1, x)  q == PointAt(j - 1, x)
  <2>1. i - 1 \in 0 .. n - 1 /\ j - 1 \in 0 .. n - 1 /\ s[i] = point(p) /\ s[j] = point(q)
    BY <1>6
  <2>2. /\ p \in CubePoints(x) /\ q \in CubePoints(x)
        /\ Offset(p, x) = i - 1 /\ Offset(q, x) = j - 1
    BY <1>4, <2>1
  <2> HIDE DEF p, q
  <2>3. p \in [1 .. 3 -> Nat] /\ q \in [1 .. 3 -> Nat]  BY <1>5, <2>2
  <2>4. ASSUME NEW d \in 1 .. 3 PROVE p[d] = q[d]
    <3>1. b[d] + p[d] = b[d] + q[d]
      <4>1. point(p) = point(q)  BY <1>10, <2>1
      <4>2. point(p)[d] = b[d] + p[d] /\ point(q)[d] = b[d] + q[d]
        OBVIOUS
      <4> HIDE DEF point
      <4> QED BY <4>1, <4>2
    <3>2. b[d] \in Nat /\ p[d] \in Nat /\ q[d] \in Nat  BY <2>3
    <3>3. \A u, v, w \in Nat : u + v = u + w => v = w  OBVIOUS
    <3> QED BY <3>1, <3>2, <3>3
  <2>5. p = q  BY <2>3, <2>4
  <2> QED BY <1>4, <2>2, <2>5
<1>11. s # <<>>
  <2>1. Len(s) # 0  BY <1>4, <1>8
  <2> QED BY <2>1
<1> HIDE DEF S
<1>12. Enumerates(s, S) /\ s # <<>>
  BY <1>8, <1>9, <1>10, <1>11 DEF Enumerates
<1> QED BY <1>12 DEF S, s

\* The fragments of a cube have numbers.
LEMMA FragmentCountIs ==
    ASSUME NEW cs \in ShapesOver(1 .. 3), NEW fs \in ShapesOver(1 .. 3), NEW d \in 1 .. 3
    PROVE  /\ FragmentCount(cs, fs, d) \in Nat \ {0}
           /\ \A i \in 0 .. cs[d] - 1 : i \div fs[d] \in 0 .. FragmentCount(cs, fs, d) - 1
<1> DEFINE c == cs[d]  f == fs[d]  n == (c + (f - 1)) \div f
<1>1. c \in Nat \ {0} /\ f \in Nat \ {0}  BY DEF ShapesOver
<1>2. FragmentCount(cs, fs, d) = n  BY DEF FragmentCount
<1> HIDE DEF c, f
<1>3. n \in Nat \ {0} /\ c <= n * f  BY <1>1, CeilingDivision
<1> HIDE DEF n
<1>4. ASSUME NEW i \in 0 .. c - 1 PROVE i \div f \in 0 .. n - 1
  <2> DEFINE q == i \div f  r == i % f
  <2>1. i \in Nat /\ i < c  BY <1>1
  <2>2. q \in Nat /\ r \in 0 .. f - 1 /\ i = q * f + r
    BY <1>1, <2>1, QuotientRemainder
  <2> HIDE DEF q, r
  <2>3. q < n
    <3>1. SUFFICES ASSUME n <= q PROVE FALSE
      BY <1>3, <2>2
    <3>2. n * f <= q * f /\ q * f \in Nat  BY <1>1, <1>3, <2>2, <3>1
    <3> QED BY <1>1, <1>3, <2>1, <2>2, <3>2
  <2> QED BY <1>3, <2>2, <2>3 DEF q
<1> QED BY <1>2, <1>3, <1>4 DEF c, f

\* slice() finds each fragment of the plane once (geometry.impl.hpp 197-221).
LEMMA SliceIdsEnumerate ==
    ASSUME NEW cs \in ShapesOver(1 .. 3), NEW fs \in ShapesOver(1 .. 3), NEW d \in 1 .. 3,
           NEW no \in 0 .. cs[d] - 1
    PROVE  /\ Enumerates(SliceIds(cs, fs, d, no),
                         {id \in FragmentIds(cs, fs) : id[d] = no \div fs[d]})
           /\ SliceIds(cs, fs, d, no) # <<>>
<1> DEFINE i == no \div fs[d]
           count(x) == FragmentCount(cs, fs, x)
           b == [x \in 1 .. 3 |-> IF x = d THEN i ELSE 0]
           e == [x \in 1 .. 3 |-> IF x = d THEN i + 1 ELSE count(x)]
           S == {p \in [1 .. 3 -> Nat] : \A x \in 1 .. 3 : b[x] <= p[x] /\ p[x] < e[x]}
           F == {id \in FragmentIds(cs, fs) : id[d] = i}
<1>1. DOMAIN cs = 1 .. 3  BY DEF ShapesOver
<1>2. \A x \in 1 .. 3 : count(x) \in Nat \ {0}  BY FragmentCountIs
<1>3. i \in 0 .. count(d) - 1  BY FragmentCountIs
<1>4. SliceIds(cs, fs, d, no) = BoxPoints(b, e)  BY <1>1 DEF SliceIds
<1>5. FragmentIds(cs, fs) = {p \in [1 .. 3 -> Nat] : \A x \in 1 .. 3 : p[x] < count(x)}
  BY <1>1 DEF FragmentIds
<1> HIDE DEF i, count
<1>6. i \in Nat /\ i < count(d)  BY <1>2, <1>3
<1>7. /\ b \in [1 .. 3 -> Nat] /\ e \in [1 .. 3 -> Nat]
      /\ \A x \in 1 .. 3 : b[x] < e[x]
  BY <1>2, <1>6
<1>8. ASSUME NEW p \in [1 .. 3 -> Nat]
      PROVE  (\A x \in 1 .. 3 : b[x] <= p[x] /\ p[x] < e[x])
                <=> (\A x \in 1 .. 3 : p[x] < count(x)) /\ p[d] = i
  <2>1. \A x \in 1 .. 3 : p[x] \in Nat  OBVIOUS
  <2>2. b[d] = i /\ e[d] = i + 1  OBVIOUS
  <2>3. \A x \in 1 .. 3 : x # d => b[x] = 0 /\ e[x] = count(x)  OBVIOUS
  <2> HIDE DEF b, e
  <2>4. b[d] <= p[d] /\ p[d] < e[d] <=> p[d] = i
    <3>1. p[d] \in Nat  BY <2>1
    <3>2. \A u, v \in Nat : u <= v /\ v < u + 1 <=> v = u  OBVIOUS
    <3> QED BY <1>6, <2>2, <3>1, <3>2
  <2>5. p[d] = i => p[d] < count(d)  BY <1>6
  <2>6. \A x \in 1 .. 3 : x # d => b[x] <= p[x]
    <3>1. \A u \in Nat : 0 <= u  OBVIOUS
    <3> QED BY <2>1, <2>3, <3>1
  <2> QED BY <2>3, <2>4, <2>5, <2>6
<1>9. S = F
  <2> HIDE DEF b, e
  <2> QED BY <1>5, <1>8
<1> HIDE DEF b, e
<1>10. Enumerates(BoxPoints(b, e), S) /\ BoxPoints(b, e) # <<>>
  BY <1>7, BoxPointsEnumerate
<1> HIDE DEF S, F
<1> QED BY <1>4, <1>9, <1>10 DEF F, i

\* All the fragments of a cube, once.
LEMMA AllIdsEnumerate ==
    ASSUME NEW cs \in ShapesOver(1 .. 3), NEW fs \in ShapesOver(1 .. 3)
    PROVE  Enumerates(AllIds(cs, fs), FragmentIds(cs, fs))
<1> DEFINE count(x) == FragmentCount(cs, fs, x)
           b == [x \in 1 .. 3 |-> 0]
           e == [x \in 1 .. 3 |-> count(x)]
           S == {p \in [1 .. 3 -> Nat] : \A x \in 1 .. 3 : b[x] <= p[x] /\ p[x] < e[x]}
<1>1. DOMAIN cs = 1 .. 3  BY DEF ShapesOver
<1>2. \A x \in 1 .. 3 : count(x) \in Nat \ {0}  BY FragmentCountIs
<1>3. AllIds(cs, fs) = BoxPoints(b, e)  BY <1>1 DEF AllIds
<1>4. FragmentIds(cs, fs) = {p \in [1 .. 3 -> Nat] : \A x \in 1 .. 3 : p[x] < count(x)}
  BY <1>1 DEF FragmentIds
<1> HIDE DEF count
<1>5. b \in [1 .. 3 -> Nat] /\ e \in [1 .. 3 -> Nat] /\ \A x \in 1 .. 3 : b[x] < e[x]
  BY <1>2
<1>6. S = FragmentIds(cs, fs)
  <2>1. ASSUME NEW p \in [1 .. 3 -> Nat], NEW x \in 1 .. 3
        PROVE  b[x] <= p[x] /\ p[x] < e[x] <=> p[x] < count(x)
    <3>1. p[x] \in Nat /\ b[x] = 0 /\ e[x] = count(x)  OBVIOUS
    <3>2. \A u \in Nat : 0 <= u  OBVIOUS
    <3> QED BY <3>1, <3>2
  <2> HIDE DEF b, e
  <2> QED BY <1>4, <2>1
<1> HIDE DEF b, e
<1>7. Enumerates(BoxPoints(b, e), S)  BY <1>5, BoxPointsEnumerate
<1> HIDE DEF S
<1> QED BY <1>3, <1>6, <1>7

\* R puts all members of S in an order.
Orders(R, S) ==
    /\ \A x \in S : <<x, x>> \notin R
    /\ \A x, y, z \in S : <<x, y>> \in R /\ <<y, z>> \in R => <<x, z>> \in R
    /\ \A x, y \in S : x # y => <<x, y>> \in R \/ <<y, x>> \in R

RankIn(S, R, x) == Cardinality({y \in S : <<y, x>> \in R})

\* The rank of an element is less than the size of the set.
LEMMA RankBelow ==
    ASSUME NEW S, NEW R, Orders(R, S), IsFiniteSet(S), NEW x \in S
    PROVE  RankIn(S, R, x) \in 0 .. Cardinality(S) - 1
<1> DEFINE B == {y \in S : <<y, x>> \in R}
<1>1. B \in SUBSET S /\ B # S  BY DEF Orders
<1>2. IsFiniteSet(B) /\ Cardinality(B) <= Cardinality(S) /\ Cardinality(B) # Cardinality(S)
  BY <1>1, FS_Subset
<1>3. Cardinality(B) \in Nat /\ Cardinality(S) \in Nat
  BY <1>2, FS_CardinalityType
<1> HIDE DEF B
<1>4. Cardinality(B) \in 0 .. Cardinality(S) - 1  BY <1>2, <1>3
<1> QED BY <1>4 DEF B, RankIn

\* Ranks are ordered as the elements are.
LEMMA RankGrows ==
    ASSUME NEW S, NEW R, Orders(R, S), IsFiniteSet(S),
           NEW x \in S, NEW z \in S, <<z, x>> \in R
    PROVE  RankIn(S, R, z) < RankIn(S, R, x)
<1> DEFINE B == {y \in S : <<y, z>> \in R}  C == {y \in S : <<y, x>> \in R}
<1>1. B \in SUBSET C /\ B # C /\ C \in SUBSET S  BY DEF Orders
<1>2. IsFiniteSet(C)  BY <1>1, FS_Subset
<1>3. IsFiniteSet(B) /\ Cardinality(B) <= Cardinality(C) /\ Cardinality(B) # Cardinality(C)
  BY <1>1, <1>2, FS_Subset
<1>4. Cardinality(B) \in Nat /\ Cardinality(C) \in Nat
  BY <1>2, <1>3, FS_CardinalityType
<1> HIDE DEF B, C
<1>5. Cardinality(B) < Cardinality(C)  BY <1>3, <1>4
<1> QED BY <1>5 DEF B, C, RankIn

\* Every rank is that of some element.
LEMMA RankIsOnto ==
    ASSUME NEW S, NEW R, Orders(R, S), IsFiniteSet(S), NEW i \in 0 .. Cardinality(S) - 1
    PROVE  \E x \in S : RankIn(S, R, x) = i
<1> DEFINE n == Cardinality(S)  f == [x \in S |-> RankIn(S, R, x)]
<1>1. n \in Nat  BY FS_CardinalityType
<1>2. f \in [S -> 0 .. n - 1]  BY RankBelow
<1>3. \A x, y \in S : x # y => f[x] # f[y]
  <2> SUFFICES ASSUME NEW x \in S, NEW y \in S, x # y PROVE RankIn(S, R, x) # RankIn(S, R, y)
    OBVIOUS
  <2>1. RankIn(S, R, x) \in Int /\ RankIn(S, R, y) \in Int  BY RankBelow
  <2>2. CASE <<x, y>> \in R  BY <2>1, <2>2, RankGrows
  <2>3. CASE <<y, x>> \in R  BY <2>1, <2>3, RankGrows
  <2> QED BY <2>2, <2>3 DEF Orders
<1>4. f \in Injection(S, 0 .. n - 1)  BY <1>2, <1>3, Fun_IsInj
<1>5. IsFiniteSet(0 .. n - 1) /\ Cardinality(0 .. n - 1) = n
  BY <1>1, FS_Interval
<1>6. f \in Surjection(S, 0 .. n - 1)  BY <1>4, <1>5, FS_Injection
<1>7. \E x \in S : f[x] = i  BY <1>6 DEF Surjection
<1> QED BY <1>7

\* InOrder() has each member once, each before those that R puts behind it.
LEMMA InOrderEnumerates ==
    ASSUME NEW S, NEW R, Orders(R, S), IsFiniteSet(S)
    PROVE  /\ Enumerates(InOrder(S, R), S) /\ Len(InOrder(S, R)) = Cardinality(S)
           /\ \A i, j \in 1 .. Cardinality(S) :
                 i < j <=> <<InOrder(S, R)[i], InOrder(S, R)[j]>> \in R
<1> DEFINE n == Cardinality(S)  w == InOrder(S, R)
<1>1. n \in Nat  BY FS_CardinalityType
<1>2. ASSUME NEW i \in 1 .. n PROVE w[i] \in S /\ RankIn(S, R, w[i]) = i - 1
  <2>1. i - 1 \in 0 .. n - 1  BY <1>1
  <2>2. \E x \in S : RankIn(S, R, x) = i - 1  BY <2>1, RankIsOnto
  <2>3. w[i] = CHOOSE x \in S : RankIn(S, R, x) = i - 1
    BY DEF InOrder, RankIn
  <2> QED BY <2>2, <2>3
<1>3. DOMAIN w = 1 .. n /\ w = [i \in 1 .. n |-> w[i]]
  <2> DEFINE e(i) == CHOOSE x \in S : Cardinality({y \in S : <<y, x>> \in R}) = i - 1
  <2>1. w = [i \in 1 .. n |-> e(i)]  BY DEF InOrder
  <2> HIDE DEF w, n, e
  <2>2. DOMAIN w = 1 .. n  BY <2>1
  <2>3. w = [i \in DOMAIN w |-> w[i]]  BY <2>1
  <2> QED BY <2>2, <2>3
<1> HIDE DEF w, n
<1>4. w \in [1 .. n -> S]  BY <1>2, <1>3
<1>5. w \in Seq(S) /\ Len(w) = n  BY <1>1, <1>4, FunctionIsSequence
<1>6. ASSUME NEW i \in 1 .. n, NEW j \in 1 .. n PROVE i < j <=> <<w[i], w[j]>> \in R
  <2>1. w[i] \in S /\ w[j] \in S /\ RankIn(S, R, w[i]) = i - 1 /\ RankIn(S, R, w[j]) = j - 1
    BY <1>2
  <2>2. i \in Int /\ j \in Int  BY <1>1
  <2>3. <<w[i], w[j]>> \in R => i - 1 < j - 1  BY <2>1, RankGrows
  <2>4. <<w[j], w[i]>> \in R => j - 1 < i - 1  BY <2>1, RankGrows
  <2>5. i < j => w[i] # w[j]  BY <2>1, <2>2
  <2>6. i < j => <<w[i], w[j]>> \in R
    BY <2>1, <2>2, <2>4, <2>5 DEF Orders
  <2> QED BY <2>2, <2>3, <2>6
<1>7. ASSUME NEW i \in 1 .. n, NEW j \in 1 .. n, w[i] = w[j] PROVE i = j
  <2>1. i - 1 = j - 1 /\ i \in Int /\ j \in Int  BY <1>1, <1>2, <1>7
  <2> QED BY <2>1
<1>8. ASSUME NEW x \in S PROVE \E i \in 1 .. n : w[i] = x
  <2> DEFINE i == RankIn(S, R, x) + 1
  <2>1. RankIn(S, R, x) \in 0 .. n - 1  BY RankBelow DEF n
  <2>2. i \in 1 .. n /\ RankIn(S, R, x) = i - 1  BY <1>1, <2>1
  <2> HIDE DEF i
  <2>3. w[i] \in S /\ RankIn(S, R, w[i]) = i - 1  BY <1>2, <2>2
  <2>4. ~(<<w[i], x>> \in R) /\ ~(<<x, w[i]>> \in R)
    <3>1. <<w[i], x>> \in R => i - 1 < i - 1  BY <2>2, <2>3, RankGrows
    <3>2. <<x, w[i]>> \in R => i - 1 < i - 1  BY <2>2, <2>3, RankGrows
    <3>3. ~(i - 1 < i - 1)  BY <1>1, <2>2
    <3> QED BY <3>1, <3>2, <3>3
  <2> QED BY <2>2, <2>3, <2>4 DEF Orders
<1>9. Enumerates(w, S)  BY <1>5, <1>7, <1>8 DEF Enumerates
<1> QED BY <1>5, <1>6, <1>9 DEF w, n

\* The places of a list from its first on.
LEMMA AscendingEnumerates ==
    ASSUME NEW n \in Nat, NEW S \in SUBSET (1 .. n)
    PROVE  /\ Enumerates(Ascending(S), S)
           /\ \A i, j \in 1 .. Len(Ascending(S)) : i < j => Ascending(S)[i] < Ascending(S)[j]
           /\ Ascending(S) # <<>> <=> S # {}
<1> DEFINE R == {p \in S \X S : p[1] < p[2]}
<1>1. \A x, y \in S : <<x, y>> \in R <=> x < y  OBVIOUS
<1>2. \A x \in S : x \in Int  OBVIOUS
<1> HIDE DEF R
<1>3. Orders(R, S)  BY <1>1, <1>2 DEF Orders
<1>4. IsFiniteSet(S)
  <2>1. IsFiniteSet(1 .. n)  BY FS_Interval
  <2> QED BY <2>1, FS_Subset
<1> DEFINE w == InOrder(S, R)
<1>5. /\ Enumerates(w, S) /\ Len(w) = Cardinality(S)
      /\ \A i, j \in 1 .. Cardinality(S) : i < j <=> <<w[i], w[j]>> \in R
  BY <1>3, <1>4, InOrderEnumerates
<1>6. Ascending(S) = w  BY DEF Ascending, R
<1> HIDE DEF w
<1>7. \A i, j \in 1 .. Len(w) : i < j => w[i] < w[j]
  <2>1. \A i \in 1 .. Len(w) : w[i] \in S  BY <1>5 DEF Enumerates
  <2> QED BY <1>1, <1>5, <2>1
<1>8. w # <<>> <=> S # {}
  <2>1. w \in Seq(S)  BY <1>5 DEF Enumerates
  <2>2. CASE w = <<>>
    <3>1. Len(w) = 0  BY <2>2
    <3>2. 1 .. 0 = {}  OBVIOUS
    <3> QED BY <1>5, <2>2, <3>1, <3>2 DEF Enumerates
  <2>3. CASE w # <<>>
    <3>1. 1 \in 1 .. Len(w)  BY <2>1, <2>3
    <3> QED BY <2>1, <2>3, <3>1
  <2> QED BY <2>2, <2>3
<1> QED BY <1>5, <1>6, <1>7, <1>8

\* What a list has at some places, in the order of the list.
LEMMA SelectedFrom ==
    ASSUME NEW X, NEW s \in Seq(X), NEW S \in SUBSET (1 .. Len(s))
    PROVE  /\ Selected(s, S) \in Seq(X)
           /\ Len(Selected(s, S)) = Len(Ascending(S))
           /\ \A i \in 1 .. Len(Ascending(S)) :
                 Ascending(S)[i] \in S /\ Selected(s, S)[i] = s[Ascending(S)[i]]
           /\ \A k \in S : \E i \in 1 .. Len(Selected(s, S)) : Selected(s, S)[i] = s[k]
<1> DEFINE w == Ascending(S)  t == Selected(s, S)
<1>1. Len(s) \in Nat /\ \A k \in 1 .. Len(s) : s[k] \in X  OBVIOUS
<1>2. Enumerates(w, S)  BY <1>1, AscendingEnumerates
<1>3. t = [n \in DOMAIN w |-> s[w[n]]]  BY DEF Selected
<1> HIDE DEF w, t
<1>4. w \in Seq(S) /\ Len(w) \in Nat /\ DOMAIN w = 1 .. Len(w)
      /\ \A i \in 1 .. Len(w) : w[i] \in S
  BY <1>2 DEF Enumerates
<1>5. t \in [1 .. Len(w) -> X]  BY <1>1, <1>3, <1>4
<1>6. t \in Seq(X) /\ Len(t) = Len(w)  BY <1>4, <1>5, FunctionIsSequence
<1>7. \A k \in S : \E i \in 1 .. Len(t) : t[i] = s[k]
  BY <1>2, <1>3, <1>4, <1>6 DEF Enumerates
<1>8. \A i \in 1 .. Len(w) : w[i] \in S /\ t[i] = s[w[i]]  BY <1>3, <1>4
<1> QED BY <1>6, <1>7, <1>8 DEF w, t

\* Selected() lists what is at the chosen places, each of it once.
LEMMA SelectedEnumerates ==
    ASSUME NEW T, NEW s, Enumerates(s, T), NEW S \in SUBSET (1 .. Len(s))
    PROVE  Enumerates(Selected(s, S), {s[k] : k \in S})
<1> DEFINE w == Ascending(S)  t == Selected(s, S)  X == {s[k] : k \in S}
<1>1. s \in Seq(T) /\ Len(s) \in Nat  BY DEF Enumerates
<1>2. /\ t \in Seq(T) /\ Len(t) = Len(w)
      /\ \A i \in 1 .. Len(w) : w[i] \in S /\ t[i] = s[w[i]]
      /\ \A k \in S : \E i \in 1 .. Len(t) : t[i] = s[k]
  BY <1>1, SelectedFrom
<1>3. Enumerates(w, S)  BY <1>1, AscendingEnumerates
<1> HIDE DEF w, t
<1>4. t \in [1 .. Len(w) -> X] /\ Len(w) \in Nat
  <2>1. DOMAIN t = 1 .. Len(w) /\ t = [i \in 1 .. Len(w) |-> t[i]]
    BY <1>2
  <2>2. Len(w) \in Nat  BY <1>3 DEF Enumerates
  <2> QED BY <1>2, <2>1, <2>2
<1>5. t \in Seq(X)
  <2> HIDE DEF X
  <2> QED BY <1>4, FunctionIsSequence
<1>6. \A x \in X : \E i \in 1 .. Len(t) : t[i] = x  BY <1>2
<1>7. ASSUME NEW i \in 1 .. Len(t), NEW j \in 1 .. Len(t), t[i] = t[j] PROVE i = j
  <2>1. w[i] \in S /\ w[j] \in S /\ s[w[i]] = s[w[j]]  BY <1>2, <1>7
  <2>2. w[i] = w[j]  BY <2>1 DEF Enumerates
  <2> QED BY <1>2, <1>3, <2>2 DEF Enumerates
<1> HIDE DEF X
<1>8. Enumerates(t, X)  BY <1>5, <1>6, <1>7 DEF Enumerates
<1> QED BY <1>8 DEF t, X

After(step) ==
    CASE step = "dispatch" -> {"unpack", "build", "partition", "planned", "terminated"}
      [] step = "unpack"   -> {"build", "partition", "planned", "terminated"}
      [] step = "build"    -> {"partition", "planned", "terminated"}

Found(k, d) ==
    IF Query.kind = "utm"
      THEN Nearest(Lines(d), LineNo(Manifest.utm_to_lineno[d], Query.coords[k]))
      ELSE Indices(Lines(d), Query.kind, Query.coords[k][d])
Index(k, d) == CHOOSE i \in Found(k, d) : TRUE
InCube ==
    /\ Query.kind \in {"index", "lineno", "utm"}
    /\ Query.kind = "utm" => "utm-to-lineno" \in Manifest.keys
    /\ \A k \in DOMAIN Query.coords :
          Len(Query.coords[k]) = 2 /\ \A d \in {1, 2} : Found(k, d) # {}

Asked == [k \in DOMAIN Query.coords |-> <<Index(k, 1), Index(k, 2)>>]

Unpacked ==
    /\ Readable
    /\ args.attributes = Normalized(Query.attributes)
    /\ Query.function = "slice" =>
          /\ Query.dim \in DOMAIN Manifest.line_numbers
          /\ args.idx \in Indices(Lines(Query.dim), Query.kind, Query.val)
    /\ Query.function = "curtain" =>
          /\ InCube /\ HasShape /\ ThreeDimensional
          /\ args.coords = GroupByFragment(Asked)

BuiltSlice(o) ==
    LET idx == args.idx % o.cube[Query.dim] IN
    [attr |-> o.attr, prefix |-> o.prefix, shape |-> o.shape, cube |-> o.cube,
     dim |-> Query.dim, idx |-> LocalIndex(o.shape, Query.dim, idx),
     ids |-> SliceIds(o.cube, o.shape, Query.dim, idx)]
TracesIn(o, id) ==
    Ascending({k \in DOMAIN args.coords : Top(FragId(o.shape, Top(args.coords[k]))) = Top(id)})
LocalTrace(o, k) == SubSeq(ToLocal(o.shape, Top(args.coords[k])), 1, 2)
ColumnIds(o) ==
    LET all == AllIds(o.cube, o.shape)
    IN  Selected(all, {n \in DOMAIN all : TracesIn(o, all[n]) # <<>>})
Single(o, id) ==
    LET ks == TracesIn(o, id)
    IN  [id |-> id, offset |-> ks[1] - 1,
         coordinates |-> [c \in DOMAIN ks |-> LocalTrace(o, ks[c])]]
BuiltCurtain(o) ==
    [attr |-> o.attr, prefix |-> o.prefix, shape |-> o.shape, cube |-> o.cube,
     ids |-> [n \in DOMAIN ColumnIds(o) |-> Single(o, ColumnIds(o)[n])]]
Built(o) == IF Query.function = "slice" THEN BuiltSlice(o) ELSE BuiltCurtain(o)

\* What of the plan holds in every state: what is there was made of the job, stage by stage.
PlannerInv ==
    /\ job \in Jobs
    /\ stage \in {"dispatch", "refused"} \cup After("dispatch")
    /\ stage = "refused" => ~Answerable
    /\ stage \in After("dispatch") =>
          Manifest.format_version = 1 /\ Query.function \in {"slice", "curtain"}
    /\ args \in [attributes : Seq(AttributeNames), idx : Nat, coords : Seq(Nat \X Nat)]
    /\ stage \in After("unpack") => Unpacked
    /\ outputs \in Seq(slice_task) \cup Seq(curtain_task)
    /\ stage \in After("build") =>
          HasShapes /\ outputs = [k \in DOMAIN Wanted |-> Built(Output(Wanted[k]))]
    /\ stage # "planned" => tasks = <<>> /\ head = NoHead
    /\ stage = "planned" =>
          /\ job.task_size >= 1
          /\ \A k \in DOMAIN outputs : outputs[k].ids # <<>>
          /\ tasks = FlattenSeq([k \in DOMAIN outputs |-> Split(outputs[k])])
          /\ head = IF Query.function = "slice" THEN SliceHeader(Len(tasks))
                                                ELSE CurtainHeader(Len(tasks))
    /\ stage = "terminated" => \E k \in DOMAIN outputs : outputs[k].ids = <<>>

-----------------------------------------------------------------------------
\* Min() of a set of numbers.
LEMMA LeastOfSet ==
    ASSUME NEW S \in SUBSET Nat, S # {}
    PROVE  Min(S) \in S /\ \A y \in S : Min(S) <= y
<1>1. \E x \in S : \A y \in S : x <= y  BY LeastNatural
<1> QED BY <1>1 DEF Min

\* A query is a slice or a curtain as its function says.
LEMMA QueryOfFunction ==
    \A j \in Jobs : /\ j.query.function = "slice" => j.query \in slice_query
                    /\ j.query.function = "curtain" => j.query \in curtain_query
  BY JobsAssumption

\* What is known of the job.
LEMMA JobIs ==
    ASSUME job \in Jobs
    PROVE  /\ Manifest \in manifestdoc /\ job.task_size \in Int
           /\ Query \in slice_query \cup curtain_query
           /\ Query.function = "slice" => Query \in slice_query
           /\ Query.function = "curtain" => Query \in curtain_query
<1>1. job \in [manifest : manifestdoc, query : slice_query \cup curtain_query, task_size : Int]
  BY JobsAssumption
<1>2. Manifest \in manifestdoc /\ job.task_size \in Int /\ Query \in slice_query \cup curtain_query
  BY <1>1 DEF Manifest, Query
<1>3. /\ Query.function = "slice" => Query \in slice_query
      /\ Query.function = "curtain" => Query \in curtain_query
  <2>1. /\ job.query.function = "slice" => job.query \in slice_query
        /\ job.query.function = "curtain" => job.query \in curtain_query
    BY QueryOfFunction
  <2> QED BY <2>1 DEF Query
<1> QED BY <1>2, <1>3

\* What the planner may take for granted of a manifest.
LEMMA ManifestIs ==
    ASSUME job \in Jobs
    PROVE  /\ Manifest.line_numbers \in Seq(Seq(Int))
           /\ Manifest.vol \in Seq(volumedesc) /\ Manifest.attr \in Seq(attributedesc)
           /\ Query.function = "slice" => Len(Manifest.line_numbers) = 3
           /\ \A d \in 1 .. Len(Manifest.line_numbers) :
                 /\ Lines(d) \in Seq(Int) /\ Len(Lines(d)) \in Nat \ {0}
                 /\ d # 3 => \A i, k \in 1 .. Len(Lines(d)) : i < k => Lines(d)[i] < Lines(d)[k]
           /\ \A v \in Range(Manifest.vol) \cup Range(Manifest.attr) :
                 \A s \in Range(v.shapes) : s \in ShapesOver(1 .. 3)
           /\ \A v, w \in Range(Manifest.attr) : v.prefix = w.prefix => v.type = w.type
           /\ Manifest.vol # <<>> => \A v \in Range(Manifest.attr) : v.prefix # Manifest.vol[1].prefix
           /\ "utm-to-lineno" \in Manifest.keys =>
                 Manifest.utm_to_lineno \in [1 .. 2 -> [1 .. 3 -> Int]]
<1>1. Manifest \in manifestdoc  BY JobIs
<1>2. /\ Manifest.line_numbers \in Seq(Seq(Int))
      /\ Manifest.vol \in Seq(volumedesc) /\ Manifest.attr \in Seq(attributedesc)
  BY <1>1 DEF manifestdoc
<1>3. /\ Query.function = "slice" => Len(Manifest.line_numbers) = 3
      /\ \A d \in DOMAIN Manifest.line_numbers :
            /\ Manifest.line_numbers[d] # <<>>
            /\ d # 3 => \A i, k \in DOMAIN Manifest.line_numbers[d] :
                           i < k => Manifest.line_numbers[d][i] < Manifest.line_numbers[d][k]
  BY ManifestsAssumption DEF Manifest, Query
<1>4. /\ \A v \in Range(Manifest.vol) \cup Range(Manifest.attr) :
            \A s \in Range(v.shapes) : s \in ShapesOver(1 .. 3)
      /\ \A v, w \in Range(Manifest.attr) : v.prefix = w.prefix => v.type = w.type
      /\ Manifest.vol # <<>> => \A v \in Range(Manifest.attr) : v.prefix # Manifest.vol[1].prefix
      /\ "utm-to-lineno" \in Manifest.keys =>
            Manifest.utm_to_lineno \in [1 .. 2 -> [1 .. 3 -> Int]]
  BY ManifestsAssumption DEF Manifest
<1>5. ASSUME NEW d \in 1 .. Len(Manifest.line_numbers)
      PROVE  /\ Lines(d) \in Seq(Int) /\ Len(Lines(d)) \in Nat \ {0}
             /\ d # 3 => \A i, k \in 1 .. Len(Lines(d)) : i < k => Lines(d)[i] < Lines(d)[k]
  <2>1. d \in DOMAIN Manifest.line_numbers /\ Lines(d) \in Seq(Int)
    BY <1>2 DEF Lines
  <2>2. Lines(d) # <<>> /\ (d # 3 => \A i, k \in DOMAIN Lines(d) : i < k => Lines(d)[i] < Lines(d)[k])
    BY <1>3, <2>1 DEF Lines
  <2> HIDE DEF Lines
  <2>3. Len(Lines(d)) \in Nat \ {0} /\ DOMAIN Lines(d) = 1 .. Len(Lines(d))
    BY <2>1, <2>2
  <2> QED BY <2>1, <2>2, <2>3
<1> QED BY <1>2, <1>3, <1>4, <1>5

\* The order of the attributes names each once, and never the data.
LEMMA AttrOrderEnumerates ==
    Enumerates(AttrOrder, Range(AttrOrder)) /\ Range(AttrOrder) \subseteq AttributeNames
    /\ "data" \notin Range(AttrOrder)
<1>1. AttrOrder \in Seq(STRING) /\ "data" \notin Range(AttrOrder)
  BY AttrOrderAssumption
<1>2. Len(AttrOrder) \in Nat /\ DOMAIN AttrOrder = 1 .. Len(AttrOrder)
  BY <1>1
<1>3. \A i, k \in 1 .. Len(AttrOrder) : AttrOrder[i] = AttrOrder[k] => i = k
  BY <1>2, AttrOrderAssumption
<1>4. Range(AttrOrder) \subseteq AttributeNames  BY DEF AttributeNames
<1>5. \A x \in Range(AttrOrder) : \E i \in 1 .. Len(AttrOrder) : AttrOrder[i] = x
  BY <1>2 DEF Range
<1>6. AttrOrder \in [1 .. Len(AttrOrder) -> Range(AttrOrder)]
  <2>1. \A i \in 1 .. Len(AttrOrder) : AttrOrder[i] \in Range(AttrOrder)
    BY <1>2 DEF Range
  <2>2. AttrOrder = [i \in 1 .. Len(AttrOrder) |-> AttrOrder[i]]  BY <1>1
  <2> QED BY <2>1, <2>2
<1>7. AttrOrder \in Seq(Range(AttrOrder))
  BY <1>2, <1>6, FunctionIsSequence
<1> QED BY <1>1, <1>3, <1>4, <1>5, <1>7 DEF Enumerates

\* The attributes of a query have no doubles, and none is the data.
LEMMA NormalizedIs ==
    ASSUME NEW A
    PROVE  /\ Normalized(A) \in Seq(AttributeNames)
           /\ \A i, k \in 1 .. Len(Normalized(A)) : Normalized(A)[i] = Normalized(A)[k] => i = k
           /\ \A i \in 1 .. Len(Normalized(A)) : Normalized(A)[i] # "data"
<1> DEFINE w == (A \ {"cdp"}) \cup (IF "cdp" \in A THEN {"cdpx", "cdpy"} ELSE {})
           S == {k \in DOMAIN AttrOrder : AttrOrder[k] \in w}
           T == {AttrOrder[k] : k \in S}
           t == Selected(AttrOrder, S)
<1>1. Normalized(A) = t  BY DEF Normalized
<1>2. S \in SUBSET (1 .. Len(AttrOrder))  BY AttrOrderAssumption
<1>3. T \subseteq Range(AttrOrder)  BY DEF Range
<1> HIDE DEF S
<1>4. Enumerates(t, T)  BY <1>2, AttrOrderEnumerates, SelectedEnumerates
<1> HIDE DEF t, T
<1>5. t \in Seq(T) /\ \A i, k \in 1 .. Len(t) : t[i] = t[k] => i = k
  BY <1>4 DEF Enumerates
<1>6. T \subseteq AttributeNames /\ "data" \notin T
  BY <1>3, AttrOrderEnumerates
<1>7. t \in Seq(AttributeNames)  BY <1>5, <1>6, SeqMonotonic
<1>8. \A i \in 1 .. Len(t) : t[i] \in T  BY <1>5, ElementOfSeq
<1> QED BY <1>1, <1>5, <1>6, <1>7, <1>8

IsRecorded(a) == \E v \in Range(Manifest.attr) : v.type = a

\* The attributes that get an output are those asked for that the manifest records, each once.
LEMMA RecordedIs ==
    ASSUME args.attributes \in Seq(AttributeNames),
           \A i, k \in 1 .. Len(args.attributes) : args.attributes[i] = args.attributes[k] => i = k
    PROVE  /\ Recorded \in Seq(AttributeNames)
           /\ \A i, k \in 1 .. Len(Recorded) : Recorded[i] = Recorded[k] => i = k
           /\ Range(Recorded) = {a \in Range(args.attributes) : IsRecorded(a)}
<1> DEFINE s == args.attributes
           S == {n \in DOMAIN s : IsRecorded(s[n])}
           X == Range(s)
           T == {s[k] : k \in S}
<1>1. DOMAIN s = 1 .. Len(s) /\ Len(s) \in Nat  OBVIOUS
<1>2. Recorded = Selected(s, S)  BY DEF Recorded, IsRecorded
<1>3. S \in SUBSET (1 .. Len(s))  BY <1>1
<1>4. T = {a \in Range(s) : IsRecorded(a)}  BY DEF Range
<1>5. Enumerates(s, X)
  <2>1. \A i \in 1 .. Len(s) : s[i] \in X  BY <1>1 DEF Range
  <2>2. s = [i \in 1 .. Len(s) |-> s[i]]  BY <1>1
  <2>3. s \in [1 .. Len(s) -> X]
    <3> HIDE DEF s, X
    <3> QED BY <2>1, <2>2
  <2>4. s \in Seq(X)
    <3> HIDE DEF s, X
    <3> QED BY <1>1, <2>3, FunctionIsSequence
  <2>5. \A x \in X : \E i \in 1 .. Len(s) : s[i] = x  BY <1>1 DEF Range
  <2> QED BY <2>4, <2>5 DEF Enumerates
<1> HIDE DEF S, X
<1>6. Enumerates(Selected(s, S), T)  BY <1>3, <1>5, SelectedEnumerates
<1>7. T \subseteq AttributeNames  BY <1>1, <1>3
<1> HIDE DEF T
<1>8. Selected(s, S) \in Seq(AttributeNames)
  BY <1>6, <1>7, SeqMonotonic DEF Enumerates
<1>9. Range(Selected(s, S)) = T
  <2> DEFINE t == Selected(s, S)
  <2>1. Enumerates(t, T)  BY <1>6
  <2> HIDE DEF t
  <2>2. t \in Seq(T) /\ DOMAIN t = 1 .. Len(t)  BY <2>1 DEF Enumerates
  <2>3. \A i \in DOMAIN t : t[i] \in T  BY <2>2, ElementOfSeq
  <2>4. \A x \in T : \E i \in DOMAIN t : t[i] = x
    BY <2>1, <2>2 DEF Enumerates
  <2>5. Range(t) = T  BY <2>3, <2>4 DEF Range
  <2> QED BY <2>5 DEF t
<1> QED BY <1>2, <1>4, <1>6, <1>8, <1>9 DEF Enumerates

\* What a sequence holds after an element was put in front.
LEMMA Prepended ==
    ASSUME NEW X, NEW x \in X, NEW r \in Seq(X)
    PROVE  /\ <<x>> \o r \in Seq(X) /\ Len(<<x>> \o r) = Len(r) + 1
           /\ (<<x>> \o r)[1] = x /\ \A i \in 1 .. Len(r) : (<<x>> \o r)[1 + i] = r[i]
<1>1. <<x>> \in Seq(X) /\ Len(<<x>>) = 1 /\ <<x>>[1] = x  OBVIOUS
<1> QED BY <1>1

\* The outputs: the data, and after it each recorded attribute.
LEMMA WantedIs ==
    ASSUME NEW A, args.attributes = Normalized(A)
    PROVE  /\ Wanted \in Seq(AttributeNames) /\ Wanted # <<>> /\ DOMAIN Wanted = 1 .. Len(Wanted)
           /\ \A i, k \in DOMAIN Wanted : Wanted[i] = Wanted[k] => i = k
           /\ Range(Wanted) = {"data"} \cup {a \in Range(args.attributes) : IsRecorded(a)}
           /\ \A k \in DOMAIN Wanted : Wanted[k] \in Range(Wanted)
<1>1. /\ args.attributes \in Seq(AttributeNames)
      /\ \A i, k \in 1 .. Len(args.attributes) : args.attributes[i] = args.attributes[k] => i = k
      /\ \A i \in 1 .. Len(args.attributes) : args.attributes[i] # "data"
  BY NormalizedIs
<1>2. /\ Recorded \in Seq(AttributeNames)
      /\ \A i, k \in 1 .. Len(Recorded) : Recorded[i] = Recorded[k] => i = k
      /\ Range(Recorded) = {a \in Range(args.attributes) : IsRecorded(a)}
  BY <1>1, RecordedIs
<1> DEFINE r == Recorded  w == <<"data">> \o r  n == Len(r)
<1>3. n \in Nat /\ r \in Seq(AttributeNames) /\ DOMAIN r = 1 .. n /\ \A i \in 1 .. n : r[i] \in Range(r)
  BY <1>2 DEF Range
<1>4. \A i \in 1 .. n : r[i] # "data"
  <2>1. \A a \in Range(args.attributes) : a # "data"  BY <1>1 DEF Range
  <2> QED BY <1>2, <1>3, <2>1
<1>5. Wanted = w  BY DEF Wanted
<1> HIDE DEF r
<1>6. /\ w \in Seq(AttributeNames) /\ Len(w) = n + 1 /\ DOMAIN w = 1 .. n + 1
      /\ w[1] = "data" /\ \A i \in 2 .. n + 1 : i - 1 \in 1 .. n /\ w[i] = r[i - 1]
  <2>1. "data" \in AttributeNames  BY DEF AttributeNames
  <2>2. "data" \in AttributeNames /\ r \in Seq(AttributeNames)
    BY <1>3, <2>1
  <2>3. w \in Seq(AttributeNames) /\ Len(w) = n + 1  BY <2>2, Prepended
  <2>4. w[1] = "data" /\ \A i \in 1 .. n : w[1 + i] = r[i]
    BY <2>2, Prepended
  <2> HIDE DEF w, n
  <2>5. w[1] = "data" /\ \A i \in 2 .. n + 1 : i - 1 \in 1 .. n /\ w[i] = r[i - 1]
    <3>1. \A i \in 2 .. n + 1 : i - 1 \in 1 .. n /\ 1 + (i - 1) = i
      BY <1>3
    <3> QED BY <2>4, <3>1
  <2> QED BY <2>3, <2>5
<1> HIDE DEF w, n
<1>7. \A i \in 1 .. n + 1 : i = 1 \/ i \in 2 .. n + 1  BY <1>3
<1>8. ASSUME NEW i \in 1 .. n + 1, NEW k \in 1 .. n + 1, w[i] = w[k] PROVE i = k
  <2>1. CASE i = 1  BY <1>4, <1>6, <1>7, <1>8, <2>1
  <2>2. CASE i # 1 /\ k # 1
    <3>1. i - 1 \in 1 .. n /\ k - 1 \in 1 .. n /\ r[i - 1] = r[k - 1]
      BY <1>6, <1>7, <1>8, <2>2
    <3>2. i - 1 = k - 1  BY <1>2, <3>1 DEF r, n
    <3> QED BY <1>3, <3>2
  <2>3. CASE k = 1  BY <1>4, <1>6, <1>7, <1>8, <2>3
  <2> QED BY <2>1, <2>2, <2>3
<1>9. Range(w) = {"data"} \cup Range(r)
  <2>1. 1 \in 1 .. n + 1 /\ \A i \in 1 .. n : i + 1 \in 2 .. n + 1 /\ i + 1 \in 1 .. n + 1 /\ (i + 1) - 1 = i
    BY <1>3
  <2>2. \A i \in 1 .. n : w[i + 1] = r[i]  BY <1>6, <2>1
  <2>3. \A x : x \in Range(w) <=> \E i \in 1 .. n + 1 : w[i] = x
    BY <1>6 DEF Range
  <2>4. \A x : x \in Range(r) <=> \E i \in 1 .. n : r[i] = x
    BY <1>3 DEF Range
  <2>5. "data" \in Range(w) /\ \A a \in Range(r) : a \in Range(w)
    BY <1>6, <2>1, <2>2, <2>3, <2>4
  <2>6. \A a \in Range(w) : a = "data" \/ a \in Range(r)
    BY <1>6, <1>7, <2>3, <2>4
  <2> QED BY <2>5, <2>6
<1>10. \A k \in DOMAIN w : w[k] \in Range(w)  BY DEF Range
<1>11. w # <<>>  BY <1>3, <1>6
<1> QED BY <1>2, <1>5, <1>6, <1>8, <1>9, <1>10, <1>11 DEF r

\* find_attribute().
LEMMA AttributeIs ==
    ASSUME Manifest.attr \in Seq(attributedesc), NEW a, IsRecorded(a)
    PROVE  /\ Attribute(a) \in attributedesc /\ Attribute(a).type = a
           /\ Attribute(a) \in Range(Manifest.attr)
           /\ \E k \in 1 .. Len(Manifest.attr) :
                 /\ Attribute(a) = Manifest.attr[k]
                 /\ \A i \in 1 .. k - 1 : Manifest.attr[i].type # a
<1> DEFINE s == Manifest.attr
           I == {i \in 1 .. Len(s) : s[i].type = a}
<1>1. I # {} /\ I \in SUBSET Nat /\ DOMAIN s = 1 .. Len(s)
  BY DEF IsRecorded, Range
<1>2. Attribute(a) = s[Min(I)]  BY <1>1 DEF Attribute, SelectInSeq
<1> DEFINE k == Min(I)
<1>3. k \in I /\ \A i \in I : k <= i  BY <1>1, LeastOfSet
<1> HIDE DEF k
<1>4. \A i \in 1 .. k - 1 : s[i].type # a
  <2> SUFFICES ASSUME NEW i \in 1 .. k - 1, s[i].type = a PROVE FALSE
    OBVIOUS
  <2>1. k \in Nat /\ Len(s) \in Nat /\ k <= Len(s)  BY <1>3
  <2>2. i \in 1 .. Len(s) /\ i \in Nat /\ i < k  BY <2>1
  <2>3. i \in I  BY <2>2
  <2> QED BY <1>3, <2>1, <2>2, <2>3
<1>5. k \in 1 .. Len(s) /\ s[k].type = a  BY <1>3
<1>6. s[k] \in attributedesc /\ s[k] \in Range(s)
  BY <1>1, <1>5 DEF Range
<1>7. Attribute(a) = s[k]  BY <1>2 DEF k
<1> HIDE DEF I
<1>8. \E j \in 1 .. Len(s) : Attribute(a) = s[j] /\ \A i \in 1 .. j - 1 : s[i].type # a
  BY <1>4, <1>5, <1>7
<1> QED BY <1>5, <1>6, <1>7, <1>8

\* What an output is made of.
Boxed(o) ==
    /\ o.attr \in AttributeNames /\ o.prefix \in STRING
    /\ o.shape \in ShapesOver(1 .. 3) /\ o.cube \in ShapesOver(1 .. 3)

\* The output of an attribute has the prefix, cube and fragment shape of its recording; the
\* cube of all but the data has a depth of one (plan.cpp 149-175, 258-365).
LEMMA OutputIs ==
    ASSUME job \in Jobs, Len(Manifest.line_numbers) = 3, NEW A, args.attributes = Normalized(A),
           HasShapes, NEW a \in Range(Wanted)
    PROVE  /\ Boxed(Output(a)) /\ Output(a).attr = a
           /\ Output(a).prefix = IF a = "data" THEN Manifest.vol[1].prefix ELSE Attribute(a).prefix
           /\ Output(a).cube = [d \in 1 .. 3 |-> IF d = 3 /\ a # "data" THEN 1 ELSE Len(Lines(d))]
           /\ Cube \in ShapesOver(1 .. 3)
<1>1. /\ Manifest.vol \in Seq(volumedesc) /\ Manifest.attr \in Seq(attributedesc)
      /\ \A v \in Range(Manifest.vol) \cup Range(Manifest.attr) :
            \A s \in Range(v.shapes) : s \in ShapesOver(1 .. 3)
      /\ \A d \in 1 .. 3 : Len(Lines(d)) \in Nat \ {0}
  BY ManifestIs
<1>2. /\ Wanted \in Seq(AttributeNames) /\ Wanted # <<>> /\ DOMAIN Wanted = 1 .. Len(Wanted)
      /\ Range(Wanted) = {"data"} \cup {b \in Range(args.attributes) : IsRecorded(b)}
  BY WantedIs
<1>3. a \in AttributeNames  BY <1>2 DEF Range
<1>4. Cube = [d \in 1 .. 3 |-> Len(Lines(d))]  BY DEF Cube
<1>5. Cube \in ShapesOver(1 .. 3)  BY <1>1, <1>4 DEF ShapesOver
<1> DEFINE desc == IF a = "data" THEN Manifest.vol[1] ELSE Attribute(a)
           c == IF a = "data" THEN Cube ELSE [Cube EXCEPT ![3] = 1]
<1>6. Output(a) = [attr |-> a, prefix |-> desc.prefix, shape |-> desc.shapes[1], cube |-> c]
  BY DEF Output
<1>7. c = [d \in 1 .. 3 |-> IF d = 3 /\ a # "data" THEN 1 ELSE Len(Lines(d))]
  BY <1>4
<1>8. c \in ShapesOver(1 .. 3)
  <2>1. \A d \in 1 .. 3 : (IF d = 3 /\ a # "data" THEN 1 ELSE Len(Lines(d))) \in Nat \ {0}
    BY <1>1
  <2> HIDE DEF c
  <2> QED BY <1>7, <2>1 DEF ShapesOver
<1>9. desc.prefix \in STRING /\ desc.shapes[1] \in ShapesOver(1 .. 3)
  <2>1. CASE a = "data"
    <3>1. Manifest.vol # <<>> /\ Manifest.vol[1].shapes # <<>>
      BY DEF HasShapes, HasShape
    <3> DEFINE v == Manifest.vol[1]
    <3>2. v \in volumedesc /\ v \in Range(Manifest.vol)
      BY <1>1, <3>1 DEF Range
    <3> HIDE DEF v
    <3>3. v.prefix \in STRING /\ v.shapes \in Seq(Seq(Nat)) /\ v.shapes # <<>>
      BY <3>1, <3>2 DEF volumedesc, v
    <3>4. v.shapes[1] \in Range(v.shapes)  BY <3>3 DEF Range
    <3> QED BY <1>1, <2>1, <3>2, <3>3, <3>4 DEF v
  <2>2. CASE a # "data"
    <3>1. IsRecorded(a) /\ a \in Range(Recorded)
      <4>1. a \in Range(args.attributes) /\ IsRecorded(a)  BY <1>2, <2>2
      <4>2. Range(Recorded) = {b \in Range(args.attributes) : IsRecorded(b)}
        BY NormalizedIs, RecordedIs
      <4> QED BY <4>1, <4>2
    <3> DEFINE v == Attribute(a)
    <3>2. v \in attributedesc /\ v \in Range(Manifest.attr)
      BY <1>1, <3>1, AttributeIs
    <3>3. v.shapes # <<>>  BY <3>1 DEF HasShapes, Range
    <3> HIDE DEF v
    <3>4. v.prefix \in STRING /\ v.shapes \in Seq(Seq(Nat)) /\ v.shapes # <<>>
      BY <3>2, <3>3 DEF attributedesc
    <3>5. v.shapes[1] \in Range(v.shapes)  BY <3>4 DEF Range
    <3> QED BY <1>1, <2>2, <3>2, <3>4, <3>5 DEF v
  <2> QED BY <2>1, <2>2
<1> HIDE DEF c, desc
<1>10. /\ Output(a).attr = a /\ Output(a).prefix = desc.prefix
       /\ Output(a).shape = desc.shapes[1] /\ Output(a).cube = c
  BY <1>6
<1>11. desc.prefix = IF a = "data" THEN Manifest.vol[1].prefix ELSE Attribute(a).prefix
  BY DEF desc
<1> QED BY <1>3, <1>5, <1>7, <1>8, <1>9, <1>10, <1>11 DEF Boxed

-----------------------------------------------------------------------------
\* Every sample of a cube has one place in one fragment (geometry.impl.hpp 57-96): the
\* fragment is one of the cube's, to_global() is the inverse of frag_id() and to_local(),
\* and no other fragment and place leads to the sample.
THEOREM PointHasOnePlace ==
    ASSUME NEW D, NEW cs \in ShapesOver(D), NEW fs \in ShapesOver(D), NEW p \in CubePoints(cs)
    PROVE  /\ FragId(fs, p) \in FragmentIds(cs, fs)
           /\ ToLocal(fs, p) \in FragmentPoints(fs)
           /\ ToGlobal(fs, FragId(fs, p), ToLocal(fs, p)) = p
           /\ \A id \in [D -> Nat], l \in FragmentPoints(fs) :
                 ToGlobal(fs, id, l) = p => id = FragId(fs, p) /\ l = ToLocal(fs, p)
<1>1. /\ cs \in [D -> Nat \ {0}] /\ fs \in [D -> Nat \ {0}]
      /\ p \in [D -> Nat] /\ \A d \in D : p[d] < cs[d]
  BY DEF ShapesOver, CubePoints
<1>2. ASSUME NEW d \in D
      PROVE  /\ p[d] \div fs[d] \in 0 .. FragmentCount(cs, fs, d) - 1
             /\ p[d] % fs[d] \in 0 .. fs[d] - 1
             /\ p[d] = ((p[d] \div fs[d]) * fs[d]) + (p[d] % fs[d])
  <2> DEFINE c == cs[d]
             f == fs[d]
             x == p[d]
             n == (c + (f - 1)) \div f
             q == x \div f
  <2>1. c \in Nat \ {0} /\ f \in Nat \ {0} /\ x \in Nat /\ x < c  BY <1>1
  <2> HIDE DEF c, f, x
  <2>2. q \in Nat /\ x % f \in 0 .. f - 1 /\ x = (q * f) + (x % f)
    BY <2>1, QuotientRemainder
  <2>3. n \in Nat /\ c <= n * f  BY <2>1, CeilingDivision
  <2> HIDE DEF n, q
  <2>4. q < n
    <3>1. SUFFICES ASSUME n <= q PROVE FALSE
      BY <2>2, <2>3
    <3>2. n * f <= q * f  BY <2>1, <2>2, <2>3, <3>1
    <3> QED BY <2>1, <2>2, <2>3, <3>2
  <2> QED BY <2>2, <2>3, <2>4 DEF FragmentCount, c, f, x, n, q
<1>3. ASSUME NEW id \in [D -> Nat], NEW l \in [D -> Nat],
             \A d \in D : l[d] < fs[d], ToGlobal(fs, id, l) = p
      PROVE  id = FragId(fs, p) /\ l = ToLocal(fs, p)
  <2>1. ASSUME NEW d \in D PROVE id[d] = p[d] \div fs[d] /\ l[d] = p[d] % fs[d]
    <3>1. p[d] = (id[d] * fs[d]) + l[d]  BY <1>1, <1>3 DEF ToGlobal
    <3>2. l[d] \in 0 .. fs[d] - 1 /\ id[d] \in Nat /\ fs[d] \in Nat \ {0}
      BY <1>1, <1>3
    <3>3. /\ ((id[d] * fs[d]) + l[d]) \div fs[d] = id[d]
          /\ ((id[d] * fs[d]) + l[d]) % fs[d] = l[d]
      BY <3>2, DivideUnique
    <3> QED BY <3>1, <3>3
  <2> QED BY <1>1, <1>3, <2>1 DEF FragId, ToLocal
<1>4. FragId(fs, p) \in FragmentIds(cs, fs)
  <2>1. \A d \in D : /\ p[d] \div fs[d] \in Nat
                    /\ p[d] \div fs[d] < FragmentCount(cs, fs, d)
    <3>1. \A d \in D : FragmentCount(cs, fs, d) \in Nat
      BY <1>1, CeilingDivision DEF FragmentCount
    <3> QED BY <1>2, <3>1
  <2> QED BY <1>1, <2>1 DEF FragId, FragmentIds
<1>5. ToLocal(fs, p) \in FragmentPoints(fs)
  <2>1. \A d \in D : p[d] % fs[d] \in Nat /\ p[d] % fs[d] < fs[d]
    BY <1>1, <1>2
  <2> QED BY <1>1, <2>1 DEF ToLocal, FragmentPoints
<1>6. ToGlobal(fs, FragId(fs, p), ToLocal(fs, p)) = p
  BY <1>1, <1>2 DEF FragId, ToLocal, ToGlobal
<1>7. ASSUME NEW id \in [D -> Nat], NEW l \in FragmentPoints(fs), ToGlobal(fs, id, l) = p
      PROVE  id = FragId(fs, p) /\ l = ToLocal(fs, p)
  <2>1. l \in [D -> Nat] /\ \A d \in D : l[d] < fs[d]
    BY <1>1 DEF FragmentPoints
  <2> QED BY <1>3, <1>7, <2>1
<1> QED BY <1>4, <1>5, <1>6, <1>7

\* padding() is what of a fragment is outside the cube (geometry.impl.hpp 121-138).
THEOREM PaddingIsOutside ==
    ASSUME NEW D, NEW cs \in ShapesOver(D), NEW fs \in ShapesOver(D), NEW d \in D,
           NEW id \in FragmentIds(cs, fs), NEW i \in 0 .. fs[d] - 1
    PROVE  (id[d] * fs[d]) + i < cs[d] <=> i < fs[d] - Padding(cs, fs, id, d)
<1> DEFINE c == cs[d]
           f == fs[d]
           k == id[d]
           n == (c + (f - 1)) \div f
           q == c \div f
           r == c % f
<1>1. c \in Nat \ {0} /\ f \in Nat \ {0}  BY DEF ShapesOver
<1>2. n \in Nat \ {0} /\ (n - 1) * f < c /\ c <= n * f
  BY <1>1, CeilingDivision
<1>3. q \in Nat /\ r \in 0 .. f - 1 /\ c = (q * f) + r
  BY <1>1, QuotientRemainder
<1>4. k \in 0 .. n - 1 /\ i \in 0 .. f - 1
  <2>1. DOMAIN cs = D  BY DEF ShapesOver
  <2>2. k \in Nat /\ k < FragmentCount(cs, fs, d)
    BY <2>1 DEF FragmentIds
  <2>3. k < n  BY <2>2 DEF FragmentCount
  <2>4. k \in 0 .. n - 1  BY <1>2, <2>2, <2>3
  <2> QED BY <2>4
<1>5. FragmentCount(cs, fs, d) = n  BY DEF FragmentCount
<1>6. Padding(cs, fs, id, d) = IF k # n - 1 \/ r = 0 THEN 0 ELSE f - r
  BY <1>5 DEF Padding
<1> HIDE DEF c, f, k, n, q, r
<1>7. CASE k # n - 1
  <2>1. (k + 1) * f <= (n - 1) * f  BY <1>1, <1>2, <1>4, <1>7
  <2>2. (k + 1) * f = (k * f) + f /\ k * f \in Nat  BY <1>1, <1>2, <1>4
  <2> QED BY <1>1, <1>2, <1>4, <1>6, <1>7, <2>1, <2>2 DEF c, f, k
<1>8. CASE k = n - 1
  <2>1. n * f = (k * f) + f /\ k * f \in Nat  BY <1>1, <1>2, <1>4, <1>8
  <2>2. CASE r = 0
    <3>1. q = n  BY <1>1, <1>2, <1>3, <2>2
    <3> QED BY <1>1, <1>3, <1>4, <1>6, <2>1, <2>2, <3>1 DEF c, f, k
  <2>3. CASE r # 0
    <3>1. q = k  BY <1>1, <1>2, <1>3, <1>4, <1>8, <2>3
    <3> QED BY <1>1, <1>3, <1>4, <1>6, <1>8, <2>3, <3>1 DEF c, f, k
  <2> QED BY <2>2, <2>3
<1> QED BY <1>7, <1>8
-----------------------------------------------------------------------------
\* Rounding moves a number by half a line at most.
LEMMA RoundIsNear ==
    ASSUME NEW v \in Int
    PROVE  /\ Round(v) \in Int
           /\ 2 * (Unit * Round(v)) - Unit <= 2 * v
           /\ 2 * v <= 2 * (Unit * Round(v)) + Unit
<1>1. CASE v >= 0  BY <1>1 DEF Round, Unit
<1>2. CASE v < 0
  <2>1. Round(v) = -((Unit - 2 * v) \div (2 * Unit))  BY <1>2 DEF Round
  <2> DEFINE q == (4 - 2 * v) \div 8
  <2>2. q \in Int /\ 8 * q <= 4 - 2 * v /\ 4 - 2 * v < 8 * q + 8  BY <1>2
  <2> QED BY <2>1, <2>2 DEF Unit
<1> QED BY <1>1, <1>2

\* From a number that is rounded to r, the lines from r on are the farther the later they
\* are, and those before r the farther the earlier.
LEMMA DistanceBehind ==
    ASSUME NEW v \in Int, NEW r \in Int, NEW x \in Int, NEW y \in Int,
           v <= 4 * r + 2, r <= x, x + 1 <= y
    PROVE  Distance(v, x) <= Distance(v, y)
  BY DEF Distance, Unit

\* Of two lines before a rounded coordinate the later one is no further away.
LEMMA DistanceBefore ==
    ASSUME NEW v \in Int, NEW r \in Int, NEW x \in Int, NEW y \in Int,
           4 * r - 2 <= v, x <= r - 1, y <= x
    PROVE  Distance(v, x) <= Distance(v, y)
  BY DEF Distance, Unit

\* A distance is a number.
LEMMA DistanceType ==
    ASSUME NEW v \in Int, NEW x \in Int
    PROVE  Distance(v, x) \in Int
  BY DEF Distance, Unit

\* "Finds the closets inline and crossline" (messages.cpp 446-498): whatever line numbers
\* a survey has, with gaps or without, as long as they are sorted, no line is closer to
\* the coordinate than the one that the planner takes.
THEOREM NearestLine ==
    ASSUME NEW lines \in Seq(Int), NEW v \in Int, NEW i \in Nearest(lines, v),
           \A j, k \in 1 .. Len(lines) : j < k => lines[j] < lines[k]
    PROVE  /\ i \in 0 .. Len(lines) - 1
           /\ \A k \in 1 .. Len(lines) :
                 Distance(v, lines[i + 1]) <= Distance(v, lines[k])
<1> DEFINE n == Len(lines)
           r == Round(v)
<1>1. n \in Nat /\ \A k \in 1 .. n : lines[k] \in Int
  <2>1. n \in Nat  BY LenProperties
  <2> QED BY <2>1
<1>2. \A j, k \in 1 .. n : j < k => lines[j] < lines[k]  OBVIOUS
<1>3. PICK j \in 0 .. n - 1 :
         /\ lines[j + 1] >= r /\ \A k \in 1 .. j : lines[k] < r
         /\ j = 0 => lines[1] = r
         /\ i = IF j > 0 /\ Distance(v, lines[j + 1]) > Distance(v, lines[j])
                  THEN j - 1 ELSE j
  BY DEF Nearest
<1>4. r \in Int /\ 4 * r - 2 <= v /\ v <= 4 * r + 2
  <2>1. r \in Int /\ 2 * (4 * r) - 4 <= 2 * v /\ 2 * v <= 2 * (4 * r) + 4
    BY RoundIsNear DEF Unit
  <2> QED BY <2>1
<1> HIDE DEF n, r
<1>5. \A k \in 1 .. n : Distance(v, lines[k]) \in Int
  BY <1>1, DistanceType
<1>6. j + 1 \in 1 .. n /\ lines[j + 1] \in Int  BY <1>1, <1>3

\* The lines behind the one that was found are farther away than it is.
<1>7. ASSUME NEW k \in 1 .. n, k > j
      PROVE  Distance(v, lines[j + 1]) <= Distance(v, lines[k])
  <2>1. lines[k] \in Int  BY <1>1
  <2>2. k = j + 1 \/ lines[j + 1] + 1 <= lines[k]
    BY <1>1, <1>2, <1>6, <1>7, <2>1
  <2>3. CASE k = j + 1  BY <1>5, <1>6, <2>3
  <2>4. CASE lines[j + 1] + 1 <= lines[k]
    <3>1. r <= lines[j + 1]  BY <1>3, <1>4, <1>6
    <3> QED BY <1>4, <1>6, <2>1, <2>4, <3>1, DistanceBehind
  <2> QED BY <2>2, <2>3, <2>4

\* And of those before it, the last is the closest.
<1>8. ASSUME NEW k \in 1 .. j
      PROVE  j \in 1 .. n /\ Distance(v, lines[j]) <= Distance(v, lines[k])
  <2>1. j \in 1 .. n /\ k \in 1 .. n /\ j \in 1 .. j  BY <1>1, <1>3
  <2>2. lines[j] \in Int /\ lines[k] \in Int /\ lines[k] <= lines[j]
    <3>1. k = j \/ k < j  BY <1>1, <1>3
    <3> QED BY <1>1, <1>2, <2>1, <3>1
  <2>3. lines[j] <= r - 1  BY <1>3, <1>4, <2>1, <2>2
  <2> QED BY <1>4, <2>1, <2>2, <2>3, DistanceBefore
<1>9. CASE j > 0 /\ Distance(v, lines[j + 1]) > Distance(v, lines[j])
  <2>1. i = j - 1 /\ i + 1 = j /\ i \in 0 .. n - 1  BY <1>1, <1>3, <1>9
  <2>2. ASSUME NEW k \in 1 .. n PROVE Distance(v, lines[j]) <= Distance(v, lines[k])
    <3>1. CASE k > j
      <4>1. j \in 1 .. n  BY <1>1, <1>3, <1>9
      <4>2. Distance(v, lines[j + 1]) <= Distance(v, lines[k])
        BY <1>7, <3>1
      <4> QED BY <1>5, <1>6, <1>9, <4>1, <4>2
    <3>2. CASE k <= j  BY <1>8, <3>2
    <3> QED BY <1>3, <3>1, <3>2
  <2> QED BY <2>1, <2>2 DEF n
<1>10. CASE ~(j > 0 /\ Distance(v, lines[j + 1]) > Distance(v, lines[j]))
  <2>1. i = j /\ i \in 0 .. n - 1  BY <1>3, <1>10
  <2>2. ASSUME NEW k \in 1 .. n PROVE Distance(v, lines[j + 1]) <= Distance(v, lines[k])
    <3>1. CASE k > j  BY <1>7, <3>1
    <3>2. CASE k <= j
      <4>1. k \in 1 .. j /\ j > 0  BY <1>3, <3>2
      <4>2. j \in 1 .. n /\ Distance(v, lines[j]) <= Distance(v, lines[k])
        BY <1>8, <4>1
      <4>3. ~(Distance(v, lines[j + 1]) > Distance(v, lines[j]))
        BY <1>10, <4>1
      <4> QED BY <1>5, <1>6, <4>2, <4>3
    <3> QED BY <1>3, <3>1, <3>2
  <2> QED BY <2>1, <2>2 DEF n
<1> QED BY <1>9, <1>10
-----------------------------------------------------------------------------
\* Each of the m parts s of a list has the ids behind First, is not empty and not longer
\* than task_size, and each place of the list is in one part.
First(i) == (i - 1) * job.task_size
Partitions(s, m, ids) ==
    /\ \A i \in 1 .. m :
          /\ Len(s[i].ids) \in 1 .. job.task_size
          /\ \A k \in 1 .. Len(s[i].ids) :
                First(i) + k \in 1 .. Len(ids) /\ s[i].ids[k] = ids[First(i) + k]
    /\ \A k \in 1 .. Len(ids) :
          \E i \in 1 .. m : \A h \in 1 .. m : k - First(h) \in 1 .. Len(s[h].ids) <=> h = i

\* partition() neither loses nor doubles a fragment (plan.cpp 86-97, 434-463): a task is
\* a stretch of the list of the output, not empty and not longer than task_size, and the
\* k-th fragment of the list is in exactly one task.
THEOREM SplitIsPartition ==
    ASSUME NEW Id, NEW o, "ids" \in DOMAIN o, o.ids \in Seq(Id), o.ids # <<>>,
           job.task_size \in Nat \ {0}
    PROVE  Partitions(Split(o), TaskCount(Len(o.ids), job.task_size), o.ids)
<1> DEFINE size == job.task_size
           n == Len(o.ids)
           m == TaskCount(n, size)
           first(i) == (i - 1) * size
           task(i) == Split(o)[i].ids
           Has(i, k) == k - first(i) \in 1 .. Len(task(i))
<1>1. size \in Nat \ {0} /\ n \in Nat \ {0}  OBVIOUS
<1>2. m \in Nat \ {0} /\ (m - 1) * size < n /\ n <= m * size
  BY <1>1, CeilingDivision DEF TaskCount
<1>3. ASSUME NEW i \in 1 .. m
      PROVE  task(i) = SubSeq(o.ids, first(i) + 1, Min({i * size, n}))
  BY <1>3 DEF Split
<1> HIDE DEF m, task, size
<1>4. ASSUME NEW i \in 1 .. m
      PROVE  /\ first(i) \in 0 .. n - 1
             /\ i * size = first(i) + size
             /\ i < m => i * size < n
  <2>1. i * size = first(i) + size /\ first(i) \in Nat /\ i * size \in Nat
    BY <1>1, <1>2
  <2>2. first(i) <= (m - 1) * size  BY <1>1, <1>2
  <2>3. i < m => i * size <= (m - 1) * size  BY <1>1, <1>2
  <2> QED BY <1>1, <1>2, <2>1, <2>2, <2>3
<1>5. ASSUME NEW i \in 1 .. m
      PROVE  Min({i * size, n}) = IF i * size <= n THEN i * size ELSE n
  <2>1. i * size \in Nat  BY <1>1, <1>4
  <2> HIDE DEF n
  <2>2. \A x, y \in Nat : Min({x, y}) = IF x <= y THEN x ELSE y
    BY SMT DEF Min
  <2> QED BY <1>1, <2>1, <2>2
<1> HIDE DEF n
<1>6. ASSUME NEW i \in 1 .. m
      PROVE  /\ Len(task(i)) = IF i = m THEN n - first(i) ELSE size
             /\ Len(task(i)) \in 1 .. size
             /\ \A k \in 1 .. Len(task(i)) :
                   first(i) + k \in 1 .. n /\ task(i)[k] = o.ids[first(i) + k]
  <2> DEFINE last == IF i * size <= n THEN i * size ELSE n
  <2>1. /\ last \in first(i) + 1 .. n
        /\ last - first(i) = IF i = m THEN n - first(i) ELSE size
        /\ last - first(i) \in 1 .. size
    BY <1>1, <1>2, <1>4
  <2>2. task(i) = SubSeq(o.ids, first(i) + 1, last)  BY <1>3, <1>5
  <2> HIDE DEF last
  <2>3. first(i) \in Nat  BY <1>1, <1>4
  <2> HIDE DEF first
  <2>4. /\ Len(task(i)) = last - first(i)
        /\ \A k \in 1 .. last - first(i) : task(i)[k] = o.ids[first(i) + k]
    BY <1>1, <2>1, <2>2, <2>3 DEF n
  <2>5. \A k \in 1 .. last - first(i) : first(i) + k \in 1 .. n
    BY <1>1, <2>1, <2>3
  <2> QED BY <2>1, <2>4, <2>5
<1>7. ASSUME NEW k \in 1 .. n
      PROVE  \E i \in 1 .. m : \A h \in 1 .. m : Has(h, k) <=> h = i
  <2> DEFINE q == (k - 1) \div size
             r == (k - 1) % size
             i == q + 1
  <2>1. q \in Nat /\ r \in 0 .. size - 1 /\ k - 1 = (q * size) + r
    <3>1. k - 1 \in Nat  BY <1>1
    <3> QED BY <1>1, <3>1, QuotientRemainder
  <2> HIDE DEF q, r
  <2>2. i \in Nat /\ first(i) < k /\ k <= first(i) + size
    <3>1. i - 1 = q  BY <2>1
    <3>2. first(i) = q * size /\ q * size \in Nat  BY <1>1, <2>1, <3>1
    <3> QED BY <1>1, <2>1, <3>2
  <2>3. i \in 1 .. m
    <3>1. SUFFICES ASSUME m <= q PROVE FALSE
      BY <1>2, <2>1
    <3>2. m * size <= q * size /\ m * size \in Nat /\ q * size \in Nat
      BY <1>1, <1>2, <2>1, <3>1
    <3> QED BY <1>1, <1>2, <2>1, <3>2
  <2> HIDE DEF i
  <2>4. Has(i, k)  BY <1>1, <1>4, <1>6, <2>2, <2>3
  <2>5. ASSUME NEW h \in 1 .. m, Has(h, k) PROVE h = i
    <3>1. first(h) < k /\ k <= first(h) + size  BY <1>1, <1>4, <1>6, <2>5
    <3>2. CASE h < i
      <4>1. h * size <= (i - 1) * size  BY <1>1, <1>2, <2>3, <3>2
      <4> QED BY <1>1, <1>4, <2>2, <3>1, <4>1
    <3>3. CASE i < h
      <4>1. i * size <= (h - 1) * size  BY <1>1, <1>2, <2>3, <3>3
      <4> QED BY <1>1, <1>4, <2>2, <2>3, <3>1, <4>1
    <3> QED BY <1>2, <2>3, <3>2, <3>3
  <2> QED BY <2>3, <2>4, <2>5
<1>8. Partitions(Split(o), m, o.ids)
  BY <1>6, <1>7 DEF Partitions, First, n, task, size
<1> QED BY <1>8 DEF m, n, size

\* The order of points of two and of three dimensions.
LEMMA LexLessTwo ==
    ASSUME NEW a \in [1 .. 2 -> Nat], NEW b \in [1 .. 2 -> Nat]
    PROVE  LexLess(a, b) <=> a[1] < b[1] \/ (a[1] = b[1] /\ a[2] < b[2])
<1>1. DOMAIN a = 1 .. 2 /\ 1 .. 2 = {1, 2} /\ 1 .. 1 - 1 = {} /\ 1 .. 2 - 1 = {1}
  OBVIOUS
<1>2. LexLess(a, b) <=> \E d \in {1, 2} : a[d] < b[d] /\ \A e \in 1 .. d - 1 : a[e] = b[e]
  BY <1>1 DEF LexLess
<1> QED BY <1>1, <1>2

\* What comes first of two triples.
LEMMA LexLessThree ==
    ASSUME NEW a \in [1 .. 3 -> Nat], NEW b \in [1 .. 3 -> Nat]
    PROVE  LexLess(a, b) <=> \/ a[1] < b[1] 
                             \/ a[1] = b[1] /\ a[2] < b[2]
                             \/ a[1] = b[1] /\ a[2] = b[2] /\ a[3] < b[3]
<1>1. /\ DOMAIN a = 1 .. 3 /\ 1 .. 3 = {1, 2, 3}
      /\ 1 .. 1 - 1 = {} /\ 1 .. 2 - 1 = {1} /\ 1 .. 3 - 1 = {1, 2}
  OBVIOUS
<1>2. LexLess(a, b) <=> \E d \in {1, 2, 3} : a[d] < b[d] /\ \A e \in 1 .. d - 1 : a[e] = b[e]
  BY <1>1 DEF LexLess
<1> QED BY <1>1, <1>2

\* The order is total.
LEMMA LexLessOrders ==
    ASSUME NEW n \in {2, 3}
    PROVE  /\ \A a \in [1 .. n -> Nat] : ~LexLess(a, a)
           /\ \A a, b, c \in [1 .. n -> Nat] : LexLess(a, b) /\ LexLess(b, c) => LexLess(a, c)
           /\ \A a, b \in [1 .. n -> Nat] : a # b => LexLess(a, b) \/ LexLess(b, a)
<1>1. CASE n = 2
  <2>1. \A a \in [1 .. 2 -> Nat] : a[1] \in Nat /\ a[2] \in Nat  OBVIOUS
  <2>2. \A a, b \in [1 .. 2 -> Nat] : a[1] = b[1] /\ a[2] = b[2] => a = b
    <3> SUFFICES ASSUME NEW a \in [1 .. 2 -> Nat], NEW b \in [1 .. 2 -> Nat],
                        a[1] = b[1] /\ a[2] = b[2] PROVE a = b
      OBVIOUS
    <3>1. \A d \in 1 .. 2 : a[d] = b[d]  OBVIOUS
    <3> QED BY <3>1
  <2>3. \A a, b \in [1 .. 2 -> Nat] : LexLess(a, b) <=> a[1] < b[1] \/ (a[1] = b[1] /\ a[2] < b[2])
    BY LexLessTwo
  <2> QED BY <1>1, <2>1, <2>2, <2>3
<1>2. CASE n = 3
  <2>1. \A a \in [1 .. 3 -> Nat] : a[1] \in Nat /\ a[2] \in Nat /\ a[3] \in Nat
    OBVIOUS
  <2>2. \A a, b \in [1 .. 3 -> Nat] : a[1] = b[1] /\ a[2] = b[2] /\ a[3] = b[3] => a = b
    <3> SUFFICES ASSUME NEW a \in [1 .. 3 -> Nat], NEW b \in [1 .. 3 -> Nat],
                        a[1] = b[1] /\ a[2] = b[2] /\ a[3] = b[3] PROVE a = b
      OBVIOUS
    <3>1. \A d \in 1 .. 3 : a[d] = b[d]  OBVIOUS
    <3> QED BY <3>1
  <2>3. \A a, b \in [1 .. 3 -> Nat] : LexLess(a, b) <=> \/ a[1] < b[1] 
                                                        \/ a[1] = b[1] /\ a[2] < b[2]
                                                        \/ a[1] = b[1] /\ a[2] = b[2] /\ a[3] < b[3]
    BY LexLessThree
  <2>4. \A a \in [1 .. 3 -> Nat] : ~LexLess(a, a)  BY <2>1, <2>3
  <2>5. ASSUME NEW a \in [1 .. 3 -> Nat], NEW b \in [1 .. 3 -> Nat], NEW c \in [1 .. 3 -> Nat],
               LexLess(a, b), LexLess(b, c)
        PROVE  LexLess(a, c)
    BY <2>1, <2>3, <2>5
  <2>6. ASSUME NEW a \in [1 .. 3 -> Nat], NEW b \in [1 .. 3 -> Nat], a # b
        PROVE  LexLess(a, b) \/ LexLess(b, a)
    <3>1. a[1] # b[1] \/ a[2] # b[2] \/ a[3] # b[3]  BY <2>2, <2>6
    <3> QED BY <2>1, <2>3, <3>1
  <2> QED BY <1>2, <2>4, <2>5, <2>6
<1> QED BY <1>1, <1>2

\* Sorting orders the places of a query.
LEMMA BeforeOrders ==
    ASSUME NEW coords \in Seq(Nat \X Nat)
    PROVE  Orders(Before(coords), DOMAIN coords)
<1> DEFINE D == DOMAIN coords
           B(i, k) == LexLess(coords[i], coords[k]) \/ (coords[i] = coords[k] /\ i < k)
<1>1. \A i, k \in D : <<i, k>> \in Before(coords) <=> B(i, k)
  BY DEF Before
<1>2. \A i \in D : i \in Nat /\ coords[i] \in [1 .. 2 -> Nat]
  <2>1. \A i \in D : i \in Nat /\ coords[i] \in Nat \X Nat  OBVIOUS
  <2>2. \A x \in Nat \X Nat : x \in [1 .. 2 -> Nat]  OBVIOUS
  <2> QED BY <2>1, <2>2
<1>3. /\ \A a \in [1 .. 2 -> Nat] : ~LexLess(a, a)
      /\ \A a, b, c \in [1 .. 2 -> Nat] : LexLess(a, b) /\ LexLess(b, c) => LexLess(a, c)
      /\ \A a, b \in [1 .. 2 -> Nat] : a # b => LexLess(a, b) \/ LexLess(b, a)
  BY LexLessOrders
<1> HIDE DEF D
<1>4. \A i \in D : ~B(i, i)  BY <1>2, <1>3
<1>5. \A i, k, m \in D : B(i, k) /\ B(k, m) => B(i, m)
  <2> SUFFICES ASSUME NEW i \in D, NEW k \in D, NEW m \in D, B(i, k), B(k, m) PROVE B(i, m)
    OBVIOUS
  <2>1. i \in Nat /\ k \in Nat /\ m \in Nat  BY <1>2
  <2>2. \A a, b, c \in [1 .. 2 -> Nat] : LexLess(a, b) /\ LexLess(b, c) => LexLess(a, c)
    BY <1>3
  <2>3. coords[i] \in [1 .. 2 -> Nat] /\ coords[k] \in [1 .. 2 -> Nat] /\ coords[m] \in [1 .. 2 -> Nat]
    BY <1>2
  <2>4. CASE LexLess(coords[i], coords[k]) /\ LexLess(coords[k], coords[m])
    BY <2>2, <2>3, <2>4
  <2> QED BY <2>1, <2>4
<1>6. \A i, k \in D : i # k => B(i, k) \/ B(k, i)  BY <1>2, <1>3
<1> HIDE DEF B
<1> QED BY <1>1, <1>4, <1>5, <1>6 DEF Orders, D

\* The planner groups the coordinates by the fragment of the data they are in.
DataShape == Manifest.vol[1].shapes[1]
Column(fs, xy) == FragId(fs, Top(xy))
Grouped(coords) ==
    {p \in (DOMAIN coords) \X (DOMAIN coords) :
        LET a == Column(DataShape, coords[p[1]])  b == Column(DataShape, coords[p[2]])
        IN  LexLess(a, b) \/ (a = b /\ p \in Before(coords))}

\* group_by_fragment_inplace() is a sort by an order.
LEMMA GroupByFragmentIs ==
    ASSUME NEW coords
    PROVE  GroupByFragment(coords) = Arranged(coords, Grouped(coords))
<1> DEFINE id == [k \in DOMAIN coords |-> FragId(Manifest.vol[1].shapes[1], Top(coords[k]))]
           R == {p \in (DOMAIN coords) \X (DOMAIN coords) :
                   LexLess(id[p[1]], id[p[2]]) \/ (id[p[1]] = id[p[2]] /\ p \in Before(coords))}
<1>1. \A k \in DOMAIN coords : id[k] = Column(DataShape, coords[k])
  BY DEF Column, DataShape
<1>2. \A p \in (DOMAIN coords) \X (DOMAIN coords) : p[1] \in DOMAIN coords /\ p[2] \in DOMAIN coords
  OBVIOUS
<1>3. GroupByFragment(coords) = Arranged(coords, R)
  BY DEF GroupByFragment
<1> HIDE DEF id
<1>4. R = Grouped(coords)  BY <1>1, <1>2 DEF Grouped
<1> QED BY <1>3, <1>4

\* The column of a trace is that of its point.
LEMMA ColumnIs ==
    ASSUME NEW fs \in ShapesOver(1 .. 3), NEW xy \in Nat \X Nat
    PROVE  /\ Top(xy) \in [1 .. 3 -> Nat]
           /\ Column(fs, xy) = <<xy[1] \div fs[1], xy[2] \div fs[2], 0>>
           /\ Column(fs, xy) \in [1 .. 3 -> Nat]
           /\ Top(Column(fs, xy)) = Column(fs, xy)
           /\ xy[1] \div fs[1] \in Nat /\ xy[2] \div fs[2] \in Nat
<1> DEFINE a == xy[1] \div fs[1]  b == xy[2] \div fs[2]
<1>1. /\ xy[1] \in Nat /\ xy[2] \in Nat
      /\ fs[1] \in Nat \ {0} /\ fs[2] \in Nat \ {0} /\ fs[3] \in Nat \ {0}
  BY DEF ShapesOver
<1>2. a \in Nat /\ b \in Nat  BY <1>1, QuotientRemainder
<1>3. 0 \div fs[3] = 0
  <2> DEFINE f == fs[3]
  <2>1. f \in Nat \ {0}  BY <1>1
  <2> HIDE DEF f
  <2>2. 0 \div f = 0  BY <2>1
  <2> QED BY <2>2 DEF f
<1>4. Top(xy) = [d \in 1 .. 3 |-> IF d = 1 THEN xy[1] ELSE IF d = 2 THEN xy[2] ELSE 0]
  BY DEF Top
<1>5. Top(xy) \in [1 .. 3 -> Nat] /\ DOMAIN Top(xy) = 1 .. 3
  BY <1>1, <1>4
<1>6. Column(fs, xy) = [d \in 1 .. 3 |-> Top(xy)[d] \div fs[d]]
  BY <1>5 DEF Column, FragId
<1>7. Column(fs, xy)[1] = a /\ Column(fs, xy)[2] = b /\ Column(fs, xy)[3] = 0
  <2>1. Top(xy)[1] = xy[1] /\ Top(xy)[2] = xy[2] /\ Top(xy)[3] = 0
    BY DEF Top
  <2> QED BY <1>3, <1>6, <2>1
<1> HIDE DEF a, b
<1>8. Column(fs, xy) = <<a, b, 0>>
  <2>1. Column(fs, xy) = [d \in 1 .. 3 |-> IF d = 1 THEN a ELSE IF d = 2 THEN b ELSE 0]
    BY <1>6, <1>7
  <2> QED BY <2>1
<1>9. <<a, b, 0>> \in [1 .. 3 -> Nat] /\ Top(<<a, b, 0>>) = <<a, b, 0>>
  BY <1>2 DEF Top
<1> QED BY <1>2, <1>5, <1>8, <1>9 DEF a, b

\* The order that the traces are sorted by is total.
LEMMA GroupedOrders ==
    ASSUME NEW coords \in Seq(Nat \X Nat), DataShape \in ShapesOver(1 .. 3)
    PROVE  Orders(Grouped(coords), DOMAIN coords)
<1> DEFINE D == DOMAIN coords  id(k) == Column(DataShape, coords[k])
           B == Before(coords)
<1>1. \A i, k \in D : <<i, k>> \in Grouped(coords) <=>
         LexLess(id(i), id(k)) \/ (id(i) = id(k) /\ <<i, k>> \in B)
  BY DEF Grouped
<1>2. \A i \in D : id(i) \in [1 .. 3 -> Nat]
  <2>1. \A i \in D : coords[i] \in Nat \X Nat  OBVIOUS
  <2> QED BY <2>1, ColumnIs
<1>3. /\ \A a \in [1 .. 3 -> Nat] : ~LexLess(a, a)
      /\ \A a, b, c \in [1 .. 3 -> Nat] : LexLess(a, b) /\ LexLess(b, c) => LexLess(a, c)
      /\ \A a, b \in [1 .. 3 -> Nat] : a # b => LexLess(a, b) \/ LexLess(b, a)
  BY LexLessOrders
<1>4. Orders(B, D)  BY BeforeOrders
<1> HIDE DEF D, id, B
<1>5. ASSUME NEW i \in D PROVE <<i, i>> \notin Grouped(coords)
  BY <1>1, <1>2, <1>3, <1>4 DEF Orders
<1>6. ASSUME NEW i \in D, NEW k \in D, NEW m \in D,
             <<i, k>> \in Grouped(coords), <<k, m>> \in Grouped(coords)
      PROVE  <<i, m>> \in Grouped(coords)
  <2>1. id(i) \in [1 .. 3 -> Nat] /\ id(k) \in [1 .. 3 -> Nat] /\ id(m) \in [1 .. 3 -> Nat]
    BY <1>2
  <2>2. LexLess(id(i), id(k)) \/ (id(i) = id(k) /\ <<i, k>> \in B)
    BY <1>1, <1>6
  <2>3. LexLess(id(k), id(m)) \/ (id(k) = id(m) /\ <<k, m>> \in B)
    BY <1>1, <1>6
  <2>4. CASE LexLess(id(i), id(k)) /\ LexLess(id(k), id(m))
    BY <1>1, <1>3, <2>1, <2>4
  <2>5. CASE id(i) = id(k) /\ <<i, k>> \in B /\ id(k) = id(m) /\ <<k, m>> \in B
    <3>1. <<i, m>> \in B  BY <1>4, <2>5 DEF Orders
    <3> QED BY <1>1, <2>5, <3>1
  <2> QED BY <1>1, <2>2, <2>3, <2>4, <2>5
<1>7. ASSUME NEW i \in D, NEW k \in D, i # k
      PROVE  <<i, k>> \in Grouped(coords) \/ <<k, i>> \in Grouped(coords)
  <2>1. id(i) = id(k) \/ LexLess(id(i), id(k)) \/ LexLess(id(k), id(i))
    BY <1>2, <1>3
  <2>2. <<i, k>> \in B \/ <<k, i>> \in B  BY <1>4, <1>7 DEF Orders
  <2> QED BY <1>1, <2>1, <2>2
<1> QED BY <1>5, <1>6, <1>7 DEF Orders, D

\* c is coords in some order.
Permutes(order, c, coords) ==
    /\ order \in [1 .. Len(coords) -> 1 .. Len(coords)]
    /\ \A i, j \in 1 .. Len(coords) : order[i] = order[j] => i = j
    /\ \A k \in 1 .. Len(coords) : \E i \in 1 .. Len(coords) : order[i] = k
    /\ \A i \in 1 .. Len(coords) : c[i] = coords[order[i]]

\* Traces of one column have no other between them.
Consecutive(fs, c) ==
    \A i, j, k \in DOMAIN c :
        i <= j /\ j <= k /\ Column(fs, c[i]) = Column(fs, c[k]) => Column(fs, c[j]) = Column(fs, c[i])

\* Sorting by a total order only permutes, and what comes first in the order comes first.
LEMMA ArrangedIs ==
    ASSUME NEW X, NEW coords \in Seq(X), NEW R, Orders(R, DOMAIN coords)
    PROVE  /\ Arranged(coords, R) \in Seq(X) /\ Len(Arranged(coords, R)) = Len(coords)
           /\ \E order : /\ Permutes(order, Arranged(coords, R), coords)
                         /\ \A i, j \in 1 .. Len(coords) : i < j <=> <<order[i], order[j]>> \in R
<1> DEFINE D == DOMAIN coords  n == Len(coords)  w == InOrder(D, R)  c == Arranged(coords, R)
<1>1. n \in Nat /\ D = 1 .. n  OBVIOUS
<1>2. IsFiniteSet(D) /\ Cardinality(D) = n  BY <1>1, FS_Interval
<1>3. /\ Enumerates(w, D) /\ Len(w) = n
      /\ \A i, j \in 1 .. n : i < j <=> <<w[i], w[j]>> \in R
  BY <1>2, InOrderEnumerates
<1>4. c = [i \in DOMAIN w |-> coords[w[i]]]  BY DEF Arranged
<1>5. \A i \in 1 .. n : coords[i] \in X  OBVIOUS
<1> HIDE DEF D, n, w
<1>6. w \in Seq(D) /\ DOMAIN w = 1 .. n /\ w \in [1 .. n -> 1 .. n]
  <2>1. w \in Seq(D)  BY <1>3 DEF Enumerates
  <2>2. DOMAIN w = 1 .. n /\ w \in [1 .. n -> D]  BY <1>3, <2>1
  <2> QED BY <1>1, <2>1, <2>2
<1>7. c \in [1 .. n -> X] /\ \A i \in 1 .. n : c[i] = coords[w[i]]
  BY <1>4, <1>5, <1>6
<1> HIDE DEF c
<1>8. c \in Seq(X) /\ Len(c) = n  BY <1>1, <1>7, FunctionIsSequence
<1>9. Permutes(w, c, coords)
  BY <1>1, <1>3, <1>6, <1>7 DEF Permutes, Enumerates, n
<1>10. \A i, j \in 1 .. Len(coords) : i < j <=> <<w[i], w[j]>> \in R
  BY <1>3 DEF n
<1> QED BY <1>8, <1>9, <1>10 DEF c, n

\* The planner sorts the traces of a query such that those of a column of the data are
\* consecutive.
LEMMA GroupByFragmentSorts ==
    ASSUME NEW coords \in Seq(Nat \X Nat), DataShape \in ShapesOver(1 .. 3)
    PROVE  /\ GroupByFragment(coords) \in Seq(Nat \X Nat)
           /\ Len(GroupByFragment(coords)) = Len(coords)
           /\ \E order : Permutes(order, GroupByFragment(coords), coords)
           /\ Consecutive(DataShape, GroupByFragment(coords))
<1> DEFINE c == GroupByFragment(coords)  n == Len(coords)  R == Grouped(coords)
           id(k) == Column(DataShape, c[k])
<1>1. c = Arranged(coords, R) /\ Orders(R, DOMAIN coords)
  BY GroupByFragmentIs, GroupedOrders
<1> HIDE DEF c
<1>2. /\ c \in Seq(Nat \X Nat) /\ Len(c) = n
      /\ \E order : /\ Permutes(order, c, coords)
                    /\ \A i, j \in 1 .. n : i < j <=> <<order[i], order[j]>> \in R
  BY <1>1, ArrangedIs
<1>3. PICK order : /\ Permutes(order, c, coords)
                   /\ \A i, j \in 1 .. n : i < j <=> <<order[i], order[j]>> \in R
  BY <1>2
<1>4. n \in Nat /\ DOMAIN c = 1 .. n /\ \A i \in 1 .. n : c[i] \in Nat \X Nat
  BY <1>2
<1>5. \A i \in 1 .. n : id(i) \in [1 .. 3 -> Nat]  BY <1>4, ColumnIs
<1>6. ASSUME NEW i \in 1 .. n, NEW j \in 1 .. n, i < j
      PROVE  LexLess(id(i), id(j)) \/ id(i) = id(j)
  <2>1. <<order[i], order[j]>> \in R  BY <1>3, <1>6
  <2>2. c[i] = coords[order[i]] /\ c[j] = coords[order[j]]
    BY <1>3 DEF Permutes
  <2> QED BY <2>1, <2>2 DEF Grouped
<1>7. /\ \A a \in [1 .. 3 -> Nat] : ~LexLess(a, a)
      /\ \A a, b, e \in [1 .. 3 -> Nat] : LexLess(a, b) /\ LexLess(b, e) => LexLess(a, e)
  BY LexLessOrders
<1> HIDE DEF id
<1>8. ASSUME NEW i \in 1 .. n, NEW j \in 1 .. n, NEW k \in 1 .. n, i <= j, j <= k, id(i) = id(k)
      PROVE  id(j) = id(i)
  <2>1. i = j \/ i < j  BY <1>4, <1>8
  <2>2. j = k \/ j < k  BY <1>4, <1>8
  <2> QED BY <1>5, <1>6, <1>7, <1>8, <2>1, <2>2
<1>9. Consecutive(DataShape, c)  BY <1>4, <1>8 DEF Consecutive, id
<1> QED BY <1>2, <1>3, <1>9 DEF c

\* A line is found for a line number between two lines, and for no other.
LEMMA NearestExists ==
    ASSUME NEW lines \in Seq(Int), lines # <<>>, NEW v \in Int,
           \A j, k \in 1 .. Len(lines) : j < k => lines[j] < lines[k]
    PROVE  Nearest(lines, v) # {} <=> Round(v) \in lines[1] .. lines[Len(lines)]
<1> DEFINE n == Len(lines)  r == Round(v)
           J == {j \in 0 .. n - 1 : /\ lines[j + 1] >= r /\ \A k \in 1 .. j : lines[k] < r
                                    /\ j = 0 => lines[1] = r}
<1>1. n \in Nat \ {0} /\ r \in Int /\ \A k \in 1 .. n : lines[k] \in Int
  <2>1. r \in Int  BY RoundIsNear
  <2>2. n \in Nat \ {0} /\ \A k \in 1 .. n : lines[k] \in Int  OBVIOUS
  <2> QED BY <2>1, <2>2
<1>2. Nearest(lines, v) # {} <=> J # {}  BY DEF Nearest
<1>3. 1 \in 1 .. n /\ n \in 1 .. n /\ \A k \in 1 .. n : lines[1] <= lines[k] /\ lines[k] <= lines[n]
  BY <1>1
<1> HIDE DEF n, r
<1>4. ASSUME NEW j \in J PROVE r \in lines[1] .. lines[n]
  <2>1. j \in 0 .. n - 1 /\ lines[j + 1] >= r /\ (\A k \in 1 .. j : lines[k] < r) /\ (j = 0 => lines[1] = r)
    OBVIOUS
  <2>2. j + 1 \in 1 .. n  BY <1>1, <2>1
  <2>3. lines[1] <= r
    <3>1. CASE j = 0  BY <1>1, <1>3, <2>1, <3>1
    <3>2. CASE j # 0
      <4>1. 1 \in 1 .. j  BY <1>1, <2>1, <3>2
      <4>2. lines[1] < r  BY <2>1, <4>1
      <4> QED BY <1>1, <1>3, <4>2
    <3> QED BY <3>1, <3>2
  <2>4. r <= lines[n]  BY <1>1, <1>3, <2>1, <2>2
  <2> QED BY <1>1, <1>3, <2>3, <2>4
<1>5. ASSUME r \in lines[1] .. lines[n] PROVE J # {}
  <2> DEFINE T == {j \in 0 .. n - 1 : lines[j + 1] >= r}
  <2>1. n - 1 \in T /\ T \in SUBSET Nat  BY <1>1, <1>3, <1>5
  <2>2. PICK j \in T : \A y \in T : j <= y  BY <2>1, LeastNatural
  <2>3. j \in 0 .. n - 1 /\ lines[j + 1] >= r  BY <2>2
  <2>4. ASSUME NEW k \in 1 .. j PROVE lines[k] < r
    <3>1. k - 1 \in 0 .. n - 1 /\ k - 1 < j /\ k \in 1 .. n /\ (k - 1) + 1 = k /\ j \in Nat
      BY <1>1, <2>3
    <3>2. k - 1 \notin T  BY <2>2, <3>1
    <3>3. ~(lines[k] >= r)  BY <3>1, <3>2
    <3> QED BY <1>1, <3>1, <3>3
  <2>5. j = 0 => lines[1] = r  BY <1>1, <1>3, <1>5, <2>3
  <2> QED BY <2>3, <2>4, <2>5
<1> QED BY <1>2, <1>4, <1>5 DEF n, r

\* The fragments of the data have three dimensions, none of them zero.
LEMMA DataShapeIs ==
    ASSUME job \in Jobs, HasShape
    PROVE  DataShape \in ShapesOver(1 .. 3)
<1> DEFINE v == Manifest.vol[1]
<1>1. /\ Manifest.vol \in Seq(volumedesc)
      /\ \A u \in Range(Manifest.vol) \cup Range(Manifest.attr) :
            \A s \in Range(u.shapes) : s \in ShapesOver(1 .. 3)
  BY ManifestIs
<1>2. Manifest.vol # <<>> /\ v.shapes # <<>>  BY DEF HasShape
<1>3. v \in volumedesc /\ v \in Range(Manifest.vol)
  BY <1>1, <1>2 DEF Range
<1> HIDE DEF v
<1>4. v.shapes \in Seq(Seq(Nat))  BY <1>3 DEF volumedesc
<1>5. v.shapes[1] \in Range(v.shapes)  BY <1>2, <1>4 DEF Range
<1> QED BY <1>1, <1>3, <1>5 DEF DataShape, v

\* The line number of a coordinate is a number.
LEMMA LineNoIs ==
    ASSUME job \in Jobs, "utm-to-lineno" \in Manifest.keys, NEW d \in {1, 2},
           NEW xy \in Seq(Int), Len(xy) = 2
    PROVE  LineNo(Manifest.utm_to_lineno[d], xy) \in Int
<1> DEFINE row == Manifest.utm_to_lineno[d]
<1>1. Manifest.utm_to_lineno \in [1 .. 2 -> [1 .. 3 -> Int]]
  BY ManifestIs
<1>2. row \in [1 .. 3 -> Int]  BY <1>1
<1> HIDE DEF row
<1>3. row[1] \in Int /\ row[2] \in Int /\ row[3] \in Int /\ xy[1] \in Int /\ xy[2] \in Int
  <2>1. row[1] \in Int /\ row[2] \in Int /\ row[3] \in Int  BY <1>2
  <2>2. xy[1] \in Int /\ xy[2] \in Int
    <3>1. \A i \in 1 .. Len(xy) : xy[i] \in Int  BY ElementOfSeq
    <3>2. 1 \in 1 .. Len(xy) /\ 2 \in 1 .. Len(xy)  OBVIOUS
    <3> QED BY <3>1, <3>2
  <2> QED BY <2>1, <2>2
<1>4. \A a, b, c, e, f \in Int : a * b + c * e + f \in Int  OBVIOUS
<1>5. LineNo(row, xy) \in Int  BY <1>3, <1>4 DEF LineNo
<1> QED BY <1>5 DEF row

\* What is found for a coordinate is a line of the cube.
LEMMA FoundIs ==
    ASSUME job \in Jobs, Query.function = "curtain", Len(Manifest.line_numbers) = 3,
           Query.kind = "utm" => "utm-to-lineno" \in Manifest.keys,
           NEW k \in DOMAIN Query.coords, Len(Query.coords[k]) = 2, NEW d \in {1, 2}
    PROVE  /\ Found(k, d) \subseteq 0 .. Len(Lines(d)) - 1
           /\ Query.kind = "index" =>
                 Found(k, d) = {i \in 0 .. Len(Lines(d)) - 1 : i = Query.coords[k][d]}
           /\ Query.kind = "lineno" =>
                 Found(k, d) = {i \in 0 .. Len(Lines(d)) - 1 : Lines(d)[i + 1] = Query.coords[k][d]}
           /\ Query.kind = "utm" =>
                 /\ Found(k, d) = Nearest(Lines(d), LineNo(Manifest.utm_to_lineno[d], Query.coords[k]))
                 /\ LineNo(Manifest.utm_to_lineno[d], Query.coords[k]) \in Int
<1> DEFINE lines == Lines(d)  v == LineNo(Manifest.utm_to_lineno[d], Query.coords[k])
<1>1. /\ lines \in Seq(Int) /\ Len(lines) \in Nat \ {0}
      /\ \A i, m \in 1 .. Len(lines) : i < m => lines[i] < lines[m]
  <2>1. d \in 1 .. Len(Manifest.line_numbers) /\ d # 3  OBVIOUS
  <2> QED BY <2>1, ManifestIs
<1>2. Query.coords[k] \in Seq(Int)
  <2>1. Query \in curtain_query  BY JobIs
  <2>2. Query.coords \in Seq(Seq(Int))  BY <2>1 DEF curtain_query
  <2> QED BY <2>2
<1>3. Query.kind = "utm" => v \in Int  BY <1>2, LineNoIs
<1>4. CASE Query.kind = "utm"
  <2>1. Found(k, d) = Nearest(lines, v)  BY <1>4 DEF Found
  <2>2. v \in Int  BY <1>3, <1>4
  <2> HIDE DEF lines, v
  <2>3. \A i \in Nearest(lines, v) : i \in 0 .. Len(lines) - 1
    BY <1>1, <2>2, NearestLine
  <2>4. Found(k, d) \subseteq 0 .. Len(lines) - 1  BY <2>1, <2>3
  <2> QED BY <1>4, <2>1, <2>2, <2>4 DEF lines, v
<1>5. CASE Query.kind # "utm"
  <2>1. Found(k, d) = {i \in 0 .. Len(lines) - 1 : \/ Query.kind = "index" /\ i = Query.coords[k][d]
                                                   \/ Query.kind = "lineno" /\ lines[i + 1] = Query.coords[k][d]}
    BY <1>5 DEF Found, Indices
  <2> HIDE DEF lines
  <2>2. "index" # "lineno"  OBVIOUS
  <2>3. Found(k, d) \subseteq 0 .. Len(lines) - 1  BY <2>1
  <2>4. Query.kind = "index" => Found(k, d) = {i \in 0 .. Len(lines) - 1 : i = Query.coords[k][d]}
    BY <2>1, <2>2
  <2>5. Query.kind = "lineno" => Found(k, d) = {i \in 0 .. Len(lines) - 1 : lines[i + 1] = Query.coords[k][d]}
    BY <2>1, <2>2
  <2> QED BY <1>5, <2>3, <2>4, <2>5 DEF lines
<1> QED BY <1>4, <1>5

\* The traces of a curtain that is in the cube are pairs of indices.
LEMMA AskedIs ==
    ASSUME job \in Jobs, Query.function = "curtain", Len(Manifest.line_numbers) = 3, InCube
    PROVE  /\ Asked \in Seq(Nat \X Nat) /\ Len(Asked) = Len(Query.coords)
           /\ Query.coords \in Seq(Seq(Int))
           /\ \A k \in 1 .. Len(Query.coords), d \in {1, 2} :
                 Asked[k][d] \in Found(k, d) /\ Asked[k][d] \in 0 .. Len(Lines(d)) - 1
<1> DEFINE n == Len(Query.coords)
<1>1. Query.coords \in Seq(Seq(Int))
  <2>1. Query \in curtain_query  BY JobIs
  <2> QED BY <2>1 DEF curtain_query
<1>2. n \in Nat /\ DOMAIN Query.coords = 1 .. n  BY <1>1
<1>3. ASSUME NEW k \in 1 .. n, NEW d \in {1, 2}
      PROVE  Index(k, d) \in Found(k, d) /\ Index(k, d) \in 0 .. Len(Lines(d)) - 1
  <2>1. /\ Query.kind = "utm" => "utm-to-lineno" \in Manifest.keys
        /\ Len(Query.coords[k]) = 2 /\ Found(k, d) # {}
    BY <1>2 DEF InCube
  <2>2. Found(k, d) \subseteq 0 .. Len(Lines(d)) - 1
    BY <1>2, <2>1, FoundIs
  <2>3. Index(k, d) \in Found(k, d)  BY <2>1 DEF Index
  <2> QED BY <2>2, <2>3
<1>4. ASSUME NEW k \in 1 .. n
      PROVE  /\ Asked[k] = <<Index(k, 1), Index(k, 2)>>
             /\ Asked[k][1] = Index(k, 1) /\ Asked[k][2] = Index(k, 2)
  BY <1>2 DEF Asked
<1>5. \A k \in 1 .. n : Index(k, 1) \in Nat /\ Index(k, 2) \in Nat
  <2>1. \A k \in 1 .. n : \A d \in {1, 2} : Index(k, d) \in 0 .. Len(Lines(d)) - 1
    BY <1>3
  <2> QED BY <2>1
<1>6. Asked \in [1 .. n -> Nat \X Nat]  BY <1>2, <1>5 DEF Asked
<1>7. Asked \in Seq(Nat \X Nat) /\ Len(Asked) = n
  BY <1>2, <1>6, FunctionIsSequence
<1>8. \A k \in 1 .. n : \A d \in {1, 2} : Asked[k][d] = Index(k, d)
  BY <1>4
<1> QED BY <1>1, <1>3, <1>7, <1>8

\* The traces of a curtain, in cartesian coordinates.
LEMMA CoordsAre ==
    ASSUME job \in Jobs, Query.function = "curtain", Len(Manifest.line_numbers) = 3,
           InCube, HasShape, NEW c, c = GroupByFragment(Asked)
    PROVE  /\ c \in Seq(Nat \X Nat) /\ Len(c) = Len(Query.coords)
           /\ \E order : Permutes(order, c, Asked)
           /\ Consecutive(DataShape, c)
           /\ \A k \in 1 .. Len(c), d \in {1, 2} : c[k][d] \in 0 .. Len(Lines(d)) - 1
<1>1. /\ Asked \in Seq(Nat \X Nat) /\ Len(Asked) = Len(Query.coords)
      /\ \A k \in 1 .. Len(Query.coords), d \in {1, 2} : Asked[k][d] \in 0 .. Len(Lines(d)) - 1
  BY AskedIs
<1>2. /\ c \in Seq(Nat \X Nat) /\ Len(c) = Len(Asked)
      /\ \E order : Permutes(order, c, Asked)
      /\ Consecutive(DataShape, c)
  BY <1>1, DataShapeIs, GroupByFragmentSorts
<1>3. PICK order : Permutes(order, c, Asked)  BY <1>2
<1>4. \A k \in 1 .. Len(c) : order[k] \in 1 .. Len(Query.coords) /\ c[k] = Asked[order[k]]
  BY <1>1, <1>2, <1>3 DEF Permutes
<1>5. \A k \in 1 .. Len(c), d \in {1, 2} : c[k][d] \in 0 .. Len(Lines(d)) - 1
  BY <1>1, <1>4
<1> QED BY <1>1, <1>2, <1>5

\* The traces in the column of a fragment.
InColumn(o, id) ==
    {k \in DOMAIN args.coords : Top(FragId(o.shape, Top(args.coords[k]))) = Top(id)}

\* The place of a trace in its fragment.
LEMMA LocalTraceIs ==
    ASSUME args.coords \in Seq(Nat \X Nat), NEW o, o.shape \in ShapesOver(1 .. 3),
           NEW k \in DOMAIN args.coords
    PROVE  /\ LocalTrace(o, k) = <<args.coords[k][1] % o.shape[1], args.coords[k][2] % o.shape[2]>>
           /\ LocalTrace(o, k) \in Seq(Nat)
           /\ args.coords[k][1] % o.shape[1] \in 0 .. o.shape[1] - 1
           /\ args.coords[k][2] % o.shape[2] \in 0 .. o.shape[2] - 1
<1> DEFINE xy == args.coords[k]  fs == o.shape  p == ToLocal(fs, Top(xy))
           a == xy[1] % fs[1]  b == xy[2] % fs[2]
<1>1. xy \in Nat \X Nat  OBVIOUS
<1> HIDE DEF xy, fs
<1>2. /\ xy[1] \in Nat /\ xy[2] \in Nat
      /\ fs[1] \in Nat \ {0} /\ fs[2] \in Nat \ {0} /\ fs[3] \in Nat \ {0}
  <2>1. xy[1] \in Nat /\ xy[2] \in Nat  BY <1>1
  <2>2. fs[1] \in Nat \ {0} /\ fs[2] \in Nat \ {0} /\ fs[3] \in Nat \ {0}
    BY DEF ShapesOver, fs
  <2> QED BY <2>1, <2>2
<1>3. a \in 0 .. fs[1] - 1 /\ b \in 0 .. fs[2] - 1 /\ 0 % fs[3] \in 0 .. fs[3] - 1 
  BY <1>2, QuotientRemainder
<1>4. a \in Nat /\ b \in Nat /\ 0 % fs[3] \in Nat  BY <1>2, <1>3
<1>5. Top(xy) = [d \in 1 .. 3 |-> IF d = 1 THEN xy[1] ELSE IF d = 2 THEN xy[2] ELSE 0]
  BY DEF Top
<1>6. p = [d \in 1 .. 3 |-> Top(xy)[d] % fs[d]]  BY <1>5 DEF ToLocal
<1>7. p[1] = a /\ p[2] = b /\ p[3] = 0 % fs[3]  BY <1>5, <1>6
<1> HIDE DEF a, b, p
<1>8. p \in [1 .. 3 -> Nat]
  <2>1. \A d \in 1 .. 3 : p[d] \in Nat  BY <1>4, <1>7
  <2> QED BY <1>6, <2>1
<1>9. SubSeq(p, 1, 2) = <<a, b>>  BY <1>7, <1>8, ShortSequences
<1>10. LocalTrace(o, k) = SubSeq(p, 1, 2)  BY DEF LocalTrace, p, xy, fs
<1>11. <<a, b>> \in Seq(Nat)  BY <1>4
<1> QED BY <1>3, <1>9, <1>10, <1>11 DEF a, b, xy, fs

\* The traces of a column are listed in ascending order, each once.
LEMMA TracesInAre ==
    ASSUME args.coords \in Seq(Nat \X Nat), NEW o, NEW id
    PROVE  /\ Enumerates(TracesIn(o, id), InColumn(o, id))
           /\ \A i, j \in 1 .. Len(TracesIn(o, id)) :
                 i < j => TracesIn(o, id)[i] < TracesIn(o, id)[j]
           /\ TracesIn(o, id) # <<>> <=> InColumn(o, id) # {}
           /\ InColumn(o, id) \in SUBSET (1 .. Len(args.coords))
<1>1. InColumn(o, id) \in SUBSET (1 .. Len(args.coords)) /\ Len(args.coords) \in Nat
  BY DEF InColumn
<1>2. TracesIn(o, id) = Ascending(InColumn(o, id))
  BY DEF TracesIn, InColumn
<1> QED BY <1>1, <1>2, AscendingEnumerates

\* The fragments of an output that a curtain needs.
LEMMA ColumnIdsAre ==
    ASSUME args.coords \in Seq(Nat \X Nat), NEW o, Boxed(o)
    PROVE  Enumerates(ColumnIds(o), {id \in FragmentIds(o.cube, o.shape) : InColumn(o, id) # {}})
<1> DEFINE all == AllIds(o.cube, o.shape)  T == FragmentIds(o.cube, o.shape)
           S == {n \in DOMAIN all : TracesIn(o, all[n]) # <<>>}
           U == {id \in T : InColumn(o, id) # {}}
<1>1. Enumerates(all, T)  BY AllIdsEnumerate DEF Boxed
<1>2. ColumnIds(o) = Selected(all, S)  BY DEF ColumnIds
<1> HIDE DEF all, T
<1>3. /\ all \in Seq(T) /\ DOMAIN all = 1 .. Len(all) /\ \A n \in 1 .. Len(all) : all[n] \in T
      /\ \A x \in T : \E i \in 1 .. Len(all) : all[i] = x
  BY <1>1 DEF Enumerates
<1>4. S \in SUBSET (1 .. Len(all))  BY <1>3
<1>5. \A n \in 1 .. Len(all) : n \in S <=> InColumn(o, all[n]) # {}
  BY <1>3, TracesInAre
<1> HIDE DEF S
<1>6. Enumerates(Selected(all, S), {all[n] : n \in S})
  BY <1>1, <1>4, SelectedEnumerates
<1>7. {all[n] : n \in S} = U  BY <1>3, <1>4, <1>5
<1> QED BY <1>2, <1>6, <1>7 DEF T

\* Each trace is in a column of an output.
TraceInside(o) == \A k \in DOMAIN args.coords, d \in {1, 2} : args.coords[k][d] \in 0 .. o.cube[d] - 1

\* A trace is in a fragment of the cube at every depth.
LEMMA ColumnExists ==
    ASSUME args.coords \in Seq(Nat \X Nat), NEW o, Boxed(o), TraceInside(o), NEW k \in DOMAIN args.coords,
           NEW z \in 0 .. FragmentCount(o.cube, o.shape, 3) - 1
    PROVE  LET xy == args.coords[k]  id == <<xy[1] \div o.shape[1], xy[2] \div o.shape[2], z>>
           IN  id \in FragmentIds(o.cube, o.shape) /\ k \in InColumn(o, id)
<1> DEFINE xy == args.coords[k]  cs == o.cube  fs == o.shape
           a == xy[1] \div fs[1]  b == xy[2] \div fs[2]  id == <<a, b, z>>
           count(d) == FragmentCount(cs, fs, d)
<1>1. cs \in ShapesOver(1 .. 3) /\ fs \in ShapesOver(1 .. 3)
  BY DEF Boxed
<1>2. xy \in Nat \X Nat /\ xy[1] \in 0 .. cs[1] - 1 /\ xy[2] \in 0 .. cs[2] - 1
  BY DEF TraceInside
<1>3. Column(fs, xy) = <<a, b, 0>> /\ Top(Column(fs, xy)) = Column(fs, xy) /\ a \in Nat /\ b \in Nat
  BY <1>1, <1>2, ColumnIs
<1> HIDE DEF cs, fs
<1>4. /\ count(1) \in Nat \ {0} /\ count(2) \in Nat \ {0} /\ count(3) \in Nat \ {0}
      /\ a \in 0 .. count(1) - 1 /\ b \in 0 .. count(2) - 1
  <2>1. 1 \in 1 .. 3 /\ 2 \in 1 .. 3 /\ 3 \in 1 .. 3  OBVIOUS
  <2>2. \A d \in 1 .. 3 : /\ FragmentCount(cs, fs, d) \in Nat \ {0}
                          /\ \A i \in 0 .. cs[d] - 1 : i \div fs[d] \in 0 .. FragmentCount(cs, fs, d) - 1
    BY <1>1, FragmentCountIs
  <2> HIDE DEF xy
  <2> QED BY <1>2, <2>1, <2>2
<1>5. z \in 0 .. count(3) - 1  BY DEF cs, fs
<1>6. DOMAIN cs = 1 .. 3  BY <1>1 DEF ShapesOver
<1>7. Top(id) = <<a, b, 0>>  BY DEF Top
<1>8. Top(FragId(fs, Top(xy))) = Top(id)  BY <1>3, <1>7 DEF Column
<1> HIDE DEF a, b, count
<1>9. id \in [1 .. 3 -> Nat] /\ id[1] = a /\ id[2] = b /\ id[3] = z
  <2>1. z \in Nat  BY <1>4, <1>5
  <2>2. a \in Nat /\ b \in Nat  BY <1>3
  <2> QED BY <2>1, <2>2
<1> HIDE DEF id
<1>10. \A d \in 1 .. 3 : id[d] < count(d)
  <2> HIDE DEF xy
  <2>1. a < count(1) /\ b < count(2)
    <3>1. a < count(1)  BY <1>4
    <3>2. b < count(2)  BY <1>4
    <3> QED BY <3>1, <3>2
  <2>2. z < count(3)  BY <1>4, <1>5
  <2> QED BY <1>9, <2>1, <2>2
<1>11. id \in FragmentIds(cs, fs)
  BY <1>6, <1>9, <1>10 DEF FragmentIds, count
<1>12. k \in InColumn(o, id)  BY <1>8 DEF InColumn, fs, xy
<1> QED BY <1>11, <1>12 DEF id, a, b, cs, fs

\* A shape is a sequence of numbers.
LEMMA ShapesAreSequences == ShapesOver(1 .. 3) \subseteq Seq(Nat)
<1> SUFFICES ASSUME NEW s \in ShapesOver(1 .. 3) PROVE s \in Seq(Nat)
  OBVIOUS
<1>1. s \in [1 .. 3 -> Nat]  BY DEF ShapesOver
<1> QED BY <1>1, FunctionIsSequence

\* A fragment id is a sequence of numbers.
LEMMA IdsAreSequences ==
    ASSUME NEW cs \in ShapesOver(1 .. 3), NEW fs
    PROVE  FragmentIds(cs, fs) \subseteq Seq(Nat)
<1>1. DOMAIN cs = 1 .. 3  BY DEF ShapesOver
<1> SUFFICES ASSUME NEW id \in FragmentIds(cs, fs) PROVE id \in Seq(Nat)
  OBVIOUS
<1>2. id \in [1 .. 3 -> Nat]  BY <1>1 DEF FragmentIds
<1> QED BY <1>2, FunctionIsSequence

\* What the planner makes of an output of a slice, and of one of a curtain.
Plane(o) == args.idx % o.cube[Query.dim]
SliceOf(b, o) ==
    /\ b.attr = o.attr /\ b.prefix = o.prefix /\ b.shape = o.shape /\ b.cube = o.cube
    /\ b.dim = Query.dim /\ b.idx = Plane(o) % o.shape[Query.dim]
    /\ Enumerates(b.ids, {id \in FragmentIds(o.cube, o.shape) :
                             id[Query.dim] = Plane(o) \div o.shape[Query.dim]})
CurtainOf(b, o) ==
    /\ b.attr = o.attr /\ b.prefix = o.prefix /\ b.shape = o.shape /\ b.cube = o.cube
    /\ Len(b.ids) = Len(ColumnIds(o))
    /\ \A n \in 1 .. Len(ColumnIds(o)) : b.ids[n] = Single(o, ColumnIds(o)[n])

\* The plane that a slice takes is in the cube, and its fragments are the cube's.
LEMMA PlaneIs ==
    ASSUME NEW o, Boxed(o), Query.dim \in 1 .. 3, args.idx \in Nat
    PROVE  /\ Plane(o) \in 0 .. o.cube[Query.dim] - 1
           /\ Plane(o) % o.shape[Query.dim] \in 0 .. o.shape[Query.dim] - 1
           /\ Plane(o) \div o.shape[Query.dim] \in 0 .. FragmentCount(o.cube, o.shape, Query.dim) - 1
<1> DEFINE d == Query.dim  c == o.cube[d]  f == o.shape[d]  i == args.idx  p == i % c
<1>1. o.cube \in ShapesOver(1 .. 3) /\ o.shape \in ShapesOver(1 .. 3)
  BY DEF Boxed
<1>2. c \in Nat \ {0} /\ f \in Nat \ {0} /\ i \in Nat
  BY <1>1 DEF ShapesOver
<1> HIDE DEF c, f, i
<1>3. p \in 0 .. c - 1  BY <1>2, QuotientRemainder
<1>4. p \in Nat  BY <1>2, <1>3
<1> HIDE DEF p
<1>5. p % f \in 0 .. f - 1  BY <1>2, <1>4, QuotientRemainder
<1>6. Plane(o) = p  BY DEF Plane, p, c, i
<1>7. \A x \in 0 .. o.cube[d] - 1 : x \div o.shape[d] \in 0 .. FragmentCount(o.cube, o.shape, d) - 1
  BY <1>1, FragmentCountIs
<1> QED BY <1>3, <1>5, <1>6, <1>7 DEF c, f

\* build() makes a task of a slice whose fragments are those on its plane.
LEMMA BuiltSliceIs ==
    ASSUME NEW o, Boxed(o), Query.dim \in 1 .. 3, args.idx \in Nat
    PROVE  /\ BuiltSlice(o) \in slice_task /\ SliceOf(BuiltSlice(o), o)
           /\ BuiltSlice(o).ids # <<>>
<1> DEFINE d == Query.dim  p == Plane(o)  q == LocalIndex(o.shape, d, p)
           ids == SliceIds(o.cube, o.shape, d, p)
           S == {id \in FragmentIds(o.cube, o.shape) : id[d] = p \div o.shape[d]}
<1>1. /\ o.cube \in ShapesOver(1 .. 3) /\ o.shape \in ShapesOver(1 .. 3)
      /\ o.attr \in AttributeNames /\ o.prefix \in STRING
  BY DEF Boxed
<1>2. p \in 0 .. o.cube[d] - 1 /\ p % o.shape[d] \in 0 .. o.shape[d] - 1
  BY PlaneIs
<1>3. q = p % o.shape[d] /\ q \in Nat
  <2>1. o.shape[d] \in Nat  BY <1>1 DEF ShapesOver
  <2> QED BY <1>2, <2>1 DEF LocalIndex
<1> HIDE DEF p
<1>4. Enumerates(ids, S) /\ ids # <<>>  BY <1>1, <1>2, SliceIdsEnumerate
<1>5. ids \in Seq(Seq(Nat))
  <2>1. ids \in Seq(S)  BY <1>4 DEF Enumerates
  <2>2. S \subseteq Seq(Nat)  BY <1>1, IdsAreSequences
  <2> HIDE DEF S, ids
  <2> QED BY <2>1, <2>2, SeqMonotonic
<1>6. o.cube \in Seq(Nat) /\ o.shape \in Seq(Nat)
  BY <1>1, ShapesAreSequences
<1>7. BuiltSlice(o) = [attr |-> o.attr, prefix |-> o.prefix, shape |-> o.shape, cube |-> o.cube,
                       dim |-> d, idx |-> q, ids |-> ids]
  BY DEF BuiltSlice, p, Plane
<1> HIDE DEF q, ids
<1>8. BuiltSlice(o) \in slice_task
  BY <1>1, <1>3, <1>5, <1>6, <1>7 DEF slice_task, Dimension
<1>9. SliceOf(BuiltSlice(o), o)  BY <1>3, <1>4, <1>7 DEF SliceOf, p
<1> QED BY <1>4, <1>7, <1>8, <1>9

\* What build() says of a fragment of a curtain: which traces are in it and how many come
\* before them.
LEMMA SingleIs ==
    ASSUME args.coords \in Seq(Nat \X Nat), NEW o, Boxed(o),
           NEW id \in FragmentIds(o.cube, o.shape), InColumn(o, id) # {}
    PROVE  /\ Single(o, id) \in single
           /\ Single(o, id).id = id
           /\ Single(o, id).offset = TracesIn(o, id)[1] - 1
           /\ Len(Single(o, id).coordinates) = Len(TracesIn(o, id))
           /\ \A c \in 1 .. Len(TracesIn(o, id)) :
                 /\ TracesIn(o, id)[c] \in DOMAIN args.coords
                 /\ Single(o, id).coordinates[c] = LocalTrace(o, TracesIn(o, id)[c])
<1> DEFINE ks == TracesIn(o, id)  K == InColumn(o, id)
           cs == [c \in DOMAIN ks |-> LocalTrace(o, ks[c])]
<1>1. Enumerates(ks, K) /\ ks # <<>> /\ K \in SUBSET (1 .. Len(args.coords))
  BY TracesInAre
<1> HIDE DEF ks
<1>2. /\ ks \in Seq(K) /\ Len(ks) \in Nat \ {0} /\ DOMAIN ks = 1 .. Len(ks)
      /\ \A c \in 1 .. Len(ks) : ks[c] \in K
  <2>1. ks \in Seq(K)  BY <1>1 DEF Enumerates
  <2>2. ks # <<>>  BY <1>1
  <2> HIDE DEF K
  <2> QED BY <2>1, <2>2
<1>3. \A c \in 1 .. Len(ks) : ks[c] \in DOMAIN args.coords  BY <1>1, <1>2
<1>4. \A c \in 1 .. Len(ks) : LocalTrace(o, ks[c]) \in Seq(Nat)
  BY <1>3, LocalTraceIs DEF Boxed
<1>5. cs \in Seq(Seq(Nat)) /\ Len(cs) = Len(ks) /\ \A c \in 1 .. Len(ks) : cs[c] = LocalTrace(o, ks[c])
  <2>1. cs \in [1 .. Len(ks) -> Seq(Nat)] /\ \A c \in 1 .. Len(ks) : cs[c] = LocalTrace(o, ks[c])
    BY <1>2, <1>4
  <2> HIDE DEF cs
  <2> QED BY <1>2, <2>1, FunctionIsSequence
<1>6. ks[1] - 1 \in Nat
  <2>1. 1 \in 1 .. Len(ks)  BY <1>2
  <2>2. ks[1] \in 1 .. Len(args.coords)  BY <1>1, <1>2, <2>1
  <2> QED BY <2>2
<1>7. id \in Seq(Nat)  BY IdsAreSequences DEF Boxed
<1>8. Single(o, id) = [id |-> id, offset |-> ks[1] - 1, coordinates |-> cs]
  BY DEF Single, ks
<1> HIDE DEF cs
<1>9. Single(o, id) \in single  BY <1>5, <1>6, <1>7, <1>8 DEF single
<1> QED BY <1>3, <1>5, <1>8, <1>9 DEF ks

\* build() makes a task of a curtain, which has no fragments only if it has no traces.
LEMMA BuiltCurtainIs ==
    ASSUME args.coords \in Seq(Nat \X Nat), NEW o, Boxed(o), TraceInside(o)
    PROVE  /\ BuiltCurtain(o) \in curtain_task /\ CurtainOf(BuiltCurtain(o), o)
           /\ BuiltCurtain(o).ids = <<>> <=> args.coords = <<>>
<1> DEFINE w == ColumnIds(o)  U == {id \in FragmentIds(o.cube, o.shape) : InColumn(o, id) # {}}
           ids == [n \in DOMAIN w |-> Single(o, w[n])]
<1>1. /\ o.cube \in ShapesOver(1 .. 3) /\ o.shape \in ShapesOver(1 .. 3)
      /\ o.attr \in AttributeNames /\ o.prefix \in STRING
  BY DEF Boxed
<1>2. Enumerates(w, U)  BY ColumnIdsAre
<1> HIDE DEF w
<1>3. w \in Seq(U) /\ Len(w) \in Nat /\ DOMAIN w = 1 .. Len(w) /\ \A n \in 1 .. Len(w) : w[n] \in U
  BY <1>2 DEF Enumerates
<1>4. \A n \in 1 .. Len(w) : Single(o, w[n]) \in single
  BY <1>3, SingleIs
<1>5. ids \in Seq(single) /\ Len(ids) = Len(w) /\ \A n \in 1 .. Len(w) : ids[n] = Single(o, w[n])
  <2>1. ids \in [1 .. Len(w) -> single] /\ \A n \in 1 .. Len(w) : ids[n] = Single(o, w[n])
    BY <1>3, <1>4
  <2> HIDE DEF ids
  <2> QED BY <1>3, <2>1, FunctionIsSequence
<1>6. BuiltCurtain(o) = [attr |-> o.attr, prefix |-> o.prefix, shape |-> o.shape, cube |-> o.cube,
                         ids |-> ids]
  BY DEF BuiltCurtain, w
<1> HIDE DEF ids
<1>7. BuiltCurtain(o) \in curtain_task
  BY <1>1, <1>5, <1>6, ShapesAreSequences DEF curtain_task
<1>8. CurtainOf(BuiltCurtain(o), o)  BY <1>5, <1>6 DEF CurtainOf, w
<1>9. ids = <<>> <=> Len(w) = 0  BY <1>5
<1>10. ASSUME args.coords = <<>> PROVE Len(w) = 0
  <2>1. U = {}  BY <1>10 DEF InColumn
  <2>2. \A n \in 1 .. Len(w) : FALSE  BY <1>3, <2>1
  <2> QED BY <1>3, <2>2
<1>11. ASSUME args.coords # <<>> PROVE Len(w) # 0
  <2>1. 1 \in DOMAIN args.coords  BY <1>11
  <2>2. FragmentCount(o.cube, o.shape, 3) \in Nat \ {0}
    <3>1. 3 \in 1 .. 3  OBVIOUS
    <3> HIDE DEF U, w, ids
    <3> QED BY <1>1, <3>1, FragmentCountIs
  <2>3. 0 \in 0 .. FragmentCount(o.cube, o.shape, 3) - 1  BY <2>2
  <2>4. \E id : id \in FragmentIds(o.cube, o.shape) /\ 1 \in InColumn(o, id)
    BY <2>1, <2>3, ColumnExists
  <2>5. U # {}  BY <2>4
  <2> QED BY <1>2, <1>3, <2>5 DEF Enumerates
<1> QED BY <1>6, <1>7, <1>8, <1>9, <1>10, <1>11

\* What is known when the query has been unpacked.
LEMMA UnpackedIs ==
    ASSUME job \in Jobs, Query.function \in {"slice", "curtain"}, Unpacked
    PROVE  /\ Len(Manifest.line_numbers) = 3
           /\ args.attributes = Normalized(Query.attributes)
           /\ Query.function = "slice" =>
                 /\ Query.dim \in 1 .. 3 /\ args.idx \in 0 .. Len(Lines(Query.dim)) - 1
                 /\ Len(Lines(Query.dim)) \in Nat
           /\ Query.function = "curtain" =>
                 /\ InCube /\ HasShape /\ args.coords = GroupByFragment(Asked)
                 /\ args.coords \in Seq(Nat \X Nat) /\ Len(args.coords) = Len(Query.coords)
                 /\ \A k \in 1 .. Len(args.coords), d \in {1, 2} :
                       args.coords[k][d] \in 0 .. Len(Lines(d)) - 1
<1>1. Len(Manifest.line_numbers) = 3
  <2>1. CASE Query.function = "slice"  BY <2>1, ManifestIs
  <2>2. CASE Query.function = "curtain"
    BY <2>2 DEF Unpacked, ThreeDimensional
  <2> QED BY <2>1, <2>2
<1>2. ASSUME Query.function = "slice"
      PROVE  /\ Query.dim \in 1 .. 3 /\ args.idx \in 0 .. Len(Lines(Query.dim)) - 1
             /\ Len(Lines(Query.dim)) \in Nat
  <2>1. Manifest.line_numbers \in Seq(Seq(Int))  BY ManifestIs
  <2>2. Query.dim \in 1 .. 3  BY <1>1, <1>2, <2>1 DEF Unpacked
  <2>3. Len(Lines(Query.dim)) \in Nat  BY <1>1, <2>2, ManifestIs
  <2>4. args.idx \in 0 .. Len(Lines(Query.dim)) - 1
    BY <1>2 DEF Unpacked, Indices
  <2> QED BY <2>2, <2>3, <2>4
<1>3. ASSUME Query.function = "curtain"
      PROVE  /\ InCube /\ HasShape /\ args.coords = GroupByFragment(Asked)
             /\ args.coords \in Seq(Nat \X Nat) /\ Len(args.coords) = Len(Query.coords)
             /\ \A k \in 1 .. Len(args.coords), d \in {1, 2} :
                   args.coords[k][d] \in 0 .. Len(Lines(d)) - 1
  <2>1. InCube /\ HasShape /\ args.coords = GroupByFragment(Asked)
    BY <1>3 DEF Unpacked
  <2> QED BY <1>1, <1>3, <2>1, CoordsAre
<1>4. args.attributes = Normalized(Query.attributes)  BY DEF Unpacked
<1> QED BY <1>1, <1>2, <1>3, <1>4

\* What each output is made of.
OutputsOf(outs) ==
    /\ DOMAIN outs = 1 .. Len(Wanted) /\ Len(outs) = Len(Wanted)
    /\ \A k \in 1 .. Len(Wanted) :
          /\ Wanted[k] \in Range(Wanted)
          /\ Boxed(Output(Wanted[k])) /\ outs[k].attr = Wanted[k]
          /\ Query.function = "slice" =>
                /\ outs[k] \in slice_task /\ SliceOf(outs[k], Output(Wanted[k]))
                /\ outs[k].ids # <<>>
          /\ Query.function = "curtain" =>
                /\ outs[k] \in curtain_task /\ CurtainOf(outs[k], Output(Wanted[k]))
                /\ TraceInside(Output(Wanted[k]))
                /\ outs[k].ids = <<>> <=> args.coords = <<>>

\* build() makes one output for each attribute that is wanted.
LEMMA OutputsAre ==
    ASSUME job \in Jobs, Query.function \in {"slice", "curtain"}, Unpacked, HasShapes,
           args.idx \in Nat, NEW outs, outs = [k \in DOMAIN Wanted |-> Built(Output(Wanted[k]))]
    PROVE  /\ OutputsOf(outs)
           /\ Query.function = "slice" => outs \in Seq(slice_task)
           /\ Query.function = "curtain" => outs \in Seq(curtain_task)
<1>1. /\ Len(Manifest.line_numbers) = 3
      /\ args.attributes = Normalized(Query.attributes)
      /\ Query.function = "slice" => Query.dim \in 1 .. 3
      /\ Query.function = "curtain" =>
            /\ args.coords \in Seq(Nat \X Nat)
            /\ \A k \in 1 .. Len(args.coords), d \in {1, 2} :
                  args.coords[k][d] \in 0 .. Len(Lines(d)) - 1
  BY UnpackedIs
<1>2. /\ Wanted \in Seq(AttributeNames) /\ DOMAIN Wanted = 1 .. Len(Wanted)
      /\ \A k \in DOMAIN Wanted : Wanted[k] \in Range(Wanted)
  BY <1>1, WantedIs
<1> DEFINE n == Len(Wanted)  o(k) == Output(Wanted[k])
<1>3. n \in Nat  BY <1>2
<1>4. ASSUME NEW k \in 1 .. n
      PROVE  /\ Wanted[k] \in Range(Wanted) /\ Boxed(o(k)) /\ o(k).attr = Wanted[k]
             /\ Query.function = "curtain" => TraceInside(o(k))
  <2>1. Wanted[k] \in Range(Wanted)  BY <1>2
  <2>2. /\ Boxed(o(k)) /\ o(k).attr = Wanted[k]
        /\ o(k).cube = [d \in 1 .. 3 |-> IF d = 3 /\ Wanted[k] # "data" THEN 1 ELSE Len(Lines(d))]
    BY <1>1, <2>1, OutputIs
  <2> HIDE DEF o
  <2>3. o(k).cube[1] = Len(Lines(1)) /\ o(k).cube[2] = Len(Lines(2))
    BY <2>2
  <2>4. \A d \in {1, 2} : o(k).cube[d] = Len(Lines(d))  BY <2>3
  <2>5. Query.function = "curtain" => TraceInside(o(k))
    <3>1. SUFFICES ASSUME Query.function = "curtain" PROVE TraceInside(o(k))
      OBVIOUS
    <3>2. DOMAIN args.coords = 1 .. Len(args.coords)  BY <1>1, <3>1
    <3> QED BY <1>1, <2>4, <3>1, <3>2 DEF TraceInside
  <2> QED BY <2>1, <2>2, <2>5
<1> HIDE DEF n, o
<1>5. DOMAIN outs = 1 .. n /\ \A k \in 1 .. n : outs[k] = Built(o(k))
  BY <1>2 DEF n, o
<1>6. ASSUME Query.function = "slice", NEW k \in 1 .. n
      PROVE  outs[k] \in slice_task /\ SliceOf(outs[k], o(k)) /\ outs[k].ids # <<>> /\ outs[k].attr = Wanted[k]
  <2>1. outs[k] = BuiltSlice(o(k))  BY <1>5, <1>6 DEF Built
  <2>2. BuiltSlice(o(k)) \in slice_task /\ SliceOf(BuiltSlice(o(k)), o(k)) /\ BuiltSlice(o(k)).ids # <<>>
    BY <1>1, <1>4, <1>6, BuiltSliceIs
  <2> QED BY <1>4, <2>1, <2>2 DEF SliceOf
<1>7. ASSUME Query.function = "curtain", NEW k \in 1 .. n
      PROVE  /\ outs[k] \in curtain_task /\ CurtainOf(outs[k], o(k)) /\ outs[k].attr = Wanted[k]
             /\ outs[k].ids = <<>> <=> args.coords = <<>>
  <2>1. outs[k] = BuiltCurtain(o(k))  BY <1>5, <1>7 DEF Built
  <2>2. /\ BuiltCurtain(o(k)) \in curtain_task /\ CurtainOf(BuiltCurtain(o(k)), o(k))
        /\ BuiltCurtain(o(k)).ids = <<>> <=> args.coords = <<>>
    BY <1>1, <1>4, <1>7, BuiltCurtainIs
  <2> QED BY <1>4, <2>1, <2>2 DEF CurtainOf
<1>8. outs = [k \in 1 .. n |-> outs[k]]  BY <1>2 DEF n
<1>9. Query.function = "slice" => outs \in Seq(slice_task) /\ Len(outs) = n
  <2>1. SUFFICES ASSUME Query.function = "slice" PROVE outs \in Seq(slice_task) /\ Len(outs) = n
    OBVIOUS
  <2>2. outs \in [1 .. n -> slice_task]  BY <1>6, <1>8, <2>1
  <2> QED BY <1>3, <2>2, FunctionIsSequence
<1>10. Query.function = "curtain" => outs \in Seq(curtain_task) /\ Len(outs) = n
  <2>1. SUFFICES ASSUME Query.function = "curtain" PROVE outs \in Seq(curtain_task) /\ Len(outs) = n
    OBVIOUS
  <2>2. outs \in [1 .. n -> curtain_task]  BY <1>7, <1>8, <2>1
  <2> QED BY <1>3, <2>2, FunctionIsSequence
<1>11. OutputsOf(outs)
  BY <1>4, <1>5, <1>6, <1>7, <1>9, <1>10 DEF OutputsOf, n, o
<1> QED BY <1>9, <1>10, <1>11

\* A task is an output with some of its fragments.
PartOf(t, o) ==
    /\ t.attr = o.attr /\ t.prefix = o.prefix /\ t.shape = o.shape /\ t.cube = o.cube
    /\ Query.function = "slice" => t.dim = o.dim /\ t.idx = o.idx

\* A stretch of a list has the type of the list.
LEMMA PartOfList ==
    ASSUME NEW X, NEW ids \in Seq(X), ids # <<>>, NEW size \in Nat \ {0},
           NEW i \in 1 .. TaskCount(Len(ids), size)
    PROVE  SubSeq(ids, (i - 1) * size + 1, Min({i * size, Len(ids)})) \in Seq(X)
<1> DEFINE n == Len(ids)  m == TaskCount(n, size)
           a == (i - 1) * size  e == i * size
<1>1. n \in Nat \ {0}  OBVIOUS
<1>2. m \in Nat \ {0} /\ (m - 1) * size < n /\ n <= m * size
  BY <1>1, CeilingDivision DEF TaskCount
<1>3. i \in 1 .. m  OBVIOUS
<1> HIDE DEF n, m
<1>4. a \in Nat /\ e \in Nat /\ a <= (m - 1) * size /\ (m - 1) * size \in Nat
  BY <1>1, <1>2, <1>3
<1>5. \A x, y \in Nat : Min({x, y}) = IF x <= y THEN x ELSE y
  BY SMT DEF Min
<1> DEFINE b == Min({e, n})  k == (m - 1) * size
<1>6. b = IF e <= n THEN e ELSE n  BY <1>1, <1>4, <1>5
<1>7. a \in Nat /\ k \in Nat /\ e \in Nat /\ a <= k /\ k < n
  BY <1>2, <1>4
<1> HIDE DEF a, b, k, e
<1>8. a + 1 \in 1 .. n + 1 /\ b \in 0 .. n  BY <1>1, <1>6, <1>7
<1>9. SubSeq(ids, a + 1, b) \in Seq(X)  BY <1>8 DEF n
<1> QED BY <1>9 DEF a, b, e, n

\* The tasks of the output of a slice.
LEMMA SplitSlice ==
    ASSUME NEW o \in slice_task, o.ids # <<>>, job.task_size \in Nat \ {0}
    PROVE  /\ Split(o) \in Seq(slice_task)
           /\ Len(Split(o)) = TaskCount(Len(o.ids), job.task_size) /\ Len(Split(o)) \in Nat \ {0}
           /\ \A i \in 1 .. Len(Split(o)) : PartOf(Split(o)[i], o)
<1> DEFINE size == job.task_size  n == Len(o.ids)  m == TaskCount(n, size)
           ids(i) == SubSeq(o.ids, (i - 1) * size + 1, Min({i * size, n}))
<1>1. o.ids \in Seq(Seq(Nat)) /\ n \in Nat \ {0} /\ size \in Nat \ {0}
  BY DEF slice_task
<1>2. m \in Nat \ {0}  BY <1>1, CeilingDivision DEF TaskCount
<1>3. Split(o) = [i \in 1 .. m |-> [o EXCEPT !.ids = ids(i)]]
  BY DEF Split
<1>4. ASSUME NEW i \in 1 .. m PROVE ids(i) \in Seq(Seq(Nat))
  BY <1>1, PartOfList
<1> HIDE DEF ids, m
<1>5. ASSUME NEW i \in 1 .. m
      PROVE  Split(o)[i] \in slice_task /\ PartOf(Split(o)[i], o)
  <2>1. Split(o)[i] = [o EXCEPT !.ids = ids(i)]  BY <1>3
  <2>2. [o EXCEPT !.ids = ids(i)] \in slice_task  BY <1>4 DEF slice_task
  <2>3. PartOf([o EXCEPT !.ids = ids(i)], o)  BY DEF slice_task, PartOf
  <2> QED BY <2>1, <2>2, <2>3
<1>6. Split(o) \in [1 .. m -> slice_task]  BY <1>3, <1>5
<1>7. Split(o) \in Seq(slice_task) /\ Len(Split(o)) = m
  BY <1>2, <1>6, FunctionIsSequence
<1> QED BY <1>2, <1>5, <1>7 DEF m

\* The tasks of the output of a curtain.
LEMMA SplitCurtain ==
    ASSUME NEW o \in curtain_task, o.ids # <<>>, job.task_size \in Nat \ {0}, Query.function = "curtain"
    PROVE  /\ Split(o) \in Seq(curtain_task)
           /\ Len(Split(o)) = TaskCount(Len(o.ids), job.task_size) /\ Len(Split(o)) \in Nat \ {0}
           /\ \A i \in 1 .. Len(Split(o)) : PartOf(Split(o)[i], o)
<1> DEFINE size == job.task_size  n == Len(o.ids)  m == TaskCount(n, size)
           ids(i) == SubSeq(o.ids, (i - 1) * size + 1, Min({i * size, n}))
<1>1. o.ids \in Seq(single) /\ n \in Nat \ {0} /\ size \in Nat \ {0}
  BY DEF curtain_task
<1>2. m \in Nat \ {0}  BY <1>1, CeilingDivision DEF TaskCount
<1>3. Split(o) = [i \in 1 .. m |-> [o EXCEPT !.ids = ids(i)]]
  BY DEF Split
<1>4. ASSUME NEW i \in 1 .. m PROVE ids(i) \in Seq(single)
  BY <1>1, PartOfList
<1> HIDE DEF ids, m
<1>5. ASSUME NEW i \in 1 .. m
      PROVE  Split(o)[i] \in curtain_task /\ PartOf(Split(o)[i], o)
  <2>1. Split(o)[i] = [o EXCEPT !.ids = ids(i)]  BY <1>3
  <2>2. [o EXCEPT !.ids = ids(i)] \in curtain_task
    BY <1>4 DEF curtain_task
  <2>3. PartOf([o EXCEPT !.ids = ids(i)], o)  BY DEF curtain_task, PartOf
  <2> QED BY <2>1, <2>2, <2>3
<1>6. Split(o) \in [1 .. m -> curtain_task]  BY <1>3, <1>5
<1>7. Split(o) \in Seq(curtain_task) /\ Len(Split(o)) = m
  BY <1>2, <1>6, FunctionIsSequence
<1> QED BY <1>2, <1>5, <1>7 DEF m

\* How the fragments of an output are cut into tasks.
SplitOf(s, o) ==
    /\ DOMAIN s = 1 .. Len(s) /\ Len(s) \in Nat \ {0}
    /\ \A i \in 1 .. Len(s) :
          /\ PartOf(s[i], o)
          /\ DOMAIN s[i].ids = 1 .. Len(s[i].ids) /\ Len(s[i].ids) \in 1 .. job.task_size
          /\ \A m \in 1 .. Len(s[i].ids) :
                First(i) + m \in 1 .. Len(o.ids) /\ s[i].ids[m] = o.ids[First(i) + m]
    /\ \A p \in 1 .. Len(o.ids) :
          \E i \in 1 .. Len(s) : \A h \in 1 .. Len(s) : p - First(h) \in 1 .. Len(s[h].ids) <=> h = i

\* partition() cuts an output into tasks that each are a part of it.
LEMMA SplitIs ==
    ASSUME Query.function \in {"slice", "curtain"}, job.task_size \in Nat \ {0}, NEW o, o.ids # <<>>,
           Query.function = "slice" => o \in slice_task,
           Query.function = "curtain" => o \in curtain_task
    PROVE  /\ SplitOf(Split(o), o)
           /\ Query.function = "slice" => Split(o) \in Seq(slice_task)
           /\ Query.function = "curtain" => Split(o) \in Seq(curtain_task)
<1> DEFINE s == Split(o)  n == TaskCount(Len(o.ids), job.task_size)
<1>1. ASSUME Query.function = "slice"
      PROVE  /\ s \in Seq(slice_task) /\ Len(s) = n /\ Len(s) \in Nat \ {0}
             /\ \A i \in 1 .. Len(s) : PartOf(s[i], o)
  BY <1>1, SplitSlice
<1>2. ASSUME Query.function = "curtain"
      PROVE  /\ s \in Seq(curtain_task) /\ Len(s) = n /\ Len(s) \in Nat \ {0}
             /\ \A i \in 1 .. Len(s) : PartOf(s[i], o)
  BY <1>2, SplitCurtain
<1>3. \E Id : "ids" \in DOMAIN o /\ o.ids \in Seq(Id)
  <2>1. CASE Query.function = "slice"  BY <2>1 DEF slice_task
  <2>2. CASE Query.function = "curtain"  BY <2>2 DEF curtain_task
  <2> QED BY <2>1, <2>2
<1>4. PICK Id : "ids" \in DOMAIN o /\ o.ids \in Seq(Id)  BY <1>3
<1>5. Partitions(s, n, o.ids)  BY <1>4, SplitIsPartition
<1> HIDE DEF s, n
<1>6. Len(s) = n /\ DOMAIN s = 1 .. n /\ n \in Nat \ {0} /\ \A i \in 1 .. n : PartOf(s[i], o)
  BY <1>1, <1>2
<1>7. ASSUME NEW i \in 1 .. n PROVE DOMAIN s[i].ids = 1 .. Len(s[i].ids)
  <2>1. CASE Query.function = "slice"
    <3>1. s[i] \in slice_task  BY <1>1, <1>6, <2>1
    <3> DEFINE ids == s[i].ids
    <3>2. ids \in Seq(Seq(Nat))  BY <3>1 DEF slice_task
    <3> HIDE DEF ids
    <3>3. DOMAIN ids = 1 .. Len(ids)  BY <3>2
    <3> QED BY <3>3 DEF ids
  <2>2. CASE Query.function = "curtain"
    <3>1. s[i] \in curtain_task  BY <1>2, <1>6, <2>2
    <3> DEFINE ids == s[i].ids
    <3>2. ids \in Seq(single)  BY <3>1 DEF curtain_task
    <3> HIDE DEF ids
    <3>3. DOMAIN ids = 1 .. Len(ids)  BY <3>2
    <3> QED BY <3>3 DEF ids
  <2> QED BY <2>1, <2>2
<1>8. SplitOf(s, o)  BY <1>5, <1>6, <1>7 DEF SplitOf, Partitions
<1> QED BY <1>1, <1>2, <1>8 DEF s

\* The tasks are the parts of the outputs, one output after the other.
Tasked(ts, outs, pre) ==
    /\ pre[0] = 0
    /\ \A k \in 1 .. Len(outs) : /\ pre[k - 1] \in Nat /\ pre[k] = pre[k - 1] + Len(Split(outs[k]))
                                 /\ SplitOf(Split(outs[k]), outs[k])
    /\ \A k \in 1 .. Len(outs) : \A i \in 1 .. Len(Split(outs[k])) :
          pre[k - 1] + i \in 1 .. Len(ts) /\ ts[pre[k - 1] + i] = Split(outs[k])[i]
    /\ \A t \in 1 .. Len(ts) : \E k \in 1 .. Len(outs) : t - pre[k - 1] \in 1 .. Len(Split(outs[k]))

\* The tasks of all outputs come one output after the other.
LEMMA JoinedTasks ==
    ASSUME NEW T, NEW n \in Nat, NEW outs, Len(outs) = n, DOMAIN outs = 1 .. n,
           \A k \in 1 .. n : Split(outs[k]) \in Seq(T) /\ SplitOf(Split(outs[k]), outs[k]),
           NEW ts, ts = FlattenSeq([k \in DOMAIN outs |-> Split(outs[k])])
    PROVE  /\ ts \in Seq(T)
           /\ \E pre \in [0 .. n -> Nat] : Tasked(ts, outs, pre)
<1> DEFINE ss == [k \in DOMAIN outs |-> Split(outs[k])]
<1>1. ss \in [1 .. n -> Seq(T)] /\ \A k \in 1 .. n : ss[k] = Split(outs[k])
  OBVIOUS
<1>2. ts = FlattenSeq(ss)  OBVIOUS
<1> HIDE DEF ss
<1>3. ss \in Seq(Seq(T)) /\ Len(ss) = n  BY <1>1, FunctionIsSequence
<1>4. ts \in Seq(T) /\ \E pre \in [0 .. n -> Nat] : Joins(ts, ss, pre)
  BY <1>2, <1>3, FlattenSeqJoins
<1>5. PICK pre \in [0 .. n -> Nat] : Joins(ts, ss, pre)  BY <1>4
<1>6. \A k \in 1 .. n : pre[k - 1] \in Nat  BY <1>5
<1>7. Tasked(ts, outs, pre)
  <2>1. /\ pre[0] = 0
        /\ \A k \in 1 .. n : pre[k] = pre[k - 1] + Len(ss[k])
    BY <1>3, <1>5 DEF Joins
  <2>2. \A k \in 1 .. n : \A i \in 1 .. Len(ss[k]) :
          pre[k - 1] + i \in 1 .. Len(ts) /\ ts[pre[k - 1] + i] = ss[k][i]
    BY <1>3, <1>5 DEF Joins
  <2>3. \A t \in 1 .. Len(ts) : \E k \in 1 .. n : t - pre[k - 1] \in 1 .. Len(ss[k])
    BY <1>3, <1>5 DEF Joins
  <2>4. \A k \in 1 .. n : /\ pre[k - 1] \in Nat /\ pre[k] = pre[k - 1] + Len(Split(outs[k]))
                          /\ SplitOf(Split(outs[k]), outs[k])
    BY <1>1, <1>6, <2>1
  <2>5. \A k \in 1 .. n : \A i \in 1 .. Len(Split(outs[k])) :
          pre[k - 1] + i \in 1 .. Len(ts) /\ ts[pre[k - 1] + i] = Split(outs[k])[i]
    BY <1>1, <2>2
  <2>6. \A t \in 1 .. Len(ts) : \E k \in 1 .. n : t - pre[k - 1] \in 1 .. Len(Split(outs[k]))
    BY <1>1, <2>3
  <2> QED BY <2>1, <2>4, <2>5, <2>6 DEF Tasked
<1> QED BY <1>4, <1>7

\* The tasks have the type of the query's function, and come one output after the other.
LEMMA TasksAre ==
    ASSUME Query.function \in {"slice", "curtain"}, job.task_size \in Nat \ {0},
           NEW outs, OutputsOf(outs), Wanted \in Seq(AttributeNames),
           \A k \in DOMAIN outs : outs[k].ids # <<>>,
           NEW ts, ts = FlattenSeq([k \in DOMAIN outs |-> Split(outs[k])])
    PROVE  /\ Query.function = "slice" => ts \in Seq(slice_task)
           /\ Query.function = "curtain" => ts \in Seq(curtain_task)
           /\ \E pre \in [0 .. Len(outs) -> Nat] : Tasked(ts, outs, pre)
<1> DEFINE n == Len(outs)
<1>1. n \in Nat /\ DOMAIN outs = 1 .. n /\ n = Len(Wanted)
  BY DEF OutputsOf
<1> HIDE DEF n
<1>2. ASSUME Query.function = "slice"
      PROVE  ts \in Seq(slice_task) /\ \E pre \in [0 .. n -> Nat] : Tasked(ts, outs, pre)
  <2>1. ASSUME NEW k \in 1 .. n
        PROVE  Split(outs[k]) \in Seq(slice_task) /\ SplitOf(Split(outs[k]), outs[k])
    <3>1. outs[k] \in slice_task  BY <1>1, <1>2 DEF OutputsOf
    <3> QED BY <1>1, <1>2, <3>1, SplitIs
  <2> QED BY <1>1, <2>1, JoinedTasks DEF n
<1>3. ASSUME Query.function = "curtain"
      PROVE  ts \in Seq(curtain_task) /\ \E pre \in [0 .. n -> Nat] : Tasked(ts, outs, pre)
  <2>1. ASSUME NEW k \in 1 .. n
        PROVE  Split(outs[k]) \in Seq(curtain_task) /\ SplitOf(Split(outs[k]), outs[k])
    <3>1. outs[k] \in curtain_task  BY <1>1, <1>3 DEF OutputsOf
    <3> QED BY <1>1, <1>3, <3>1, SplitIs
  <2> QED BY <1>1, <2>1, JoinedTasks DEF n
<1>4. \E pre \in [0 .. n -> Nat] : Tasked(ts, outs, pre)  BY <1>2, <1>3
<1> QED BY <1>2, <1>3, <1>4 DEF n

\* Every task is a part of some output.
ArePartsOf(ts, outs) ==
    \A i \in 1 .. Len(ts) : \E k \in 1 .. Len(outs) :
        /\ PartOf(ts[i], outs[k])
        /\ DOMAIN ts[i].ids = 1 .. Len(ts[i].ids) /\ Len(ts[i].ids) \in 1 .. job.task_size
        /\ \A m \in 1 .. Len(ts[i].ids) :
              \E p \in 1 .. Len(outs[k].ids) : ts[i].ids[m] = outs[k].ids[p]

\* Each task is a part of an output, and each output has a task.
LEMMA TaskIsPart ==
    ASSUME NEW ts, NEW outs, NEW pre, Len(ts) \in Nat, Len(outs) \in Nat, Tasked(ts, outs, pre)
    PROVE  /\ ArePartsOf(ts, outs)
           /\ \A k \in 1 .. Len(outs) : \E t \in 1 .. Len(ts) : PartOf(ts[t], outs[k])
<1>1. ASSUME NEW t \in 1 .. Len(ts)
      PROVE  \E k \in 1 .. Len(outs), i \in Nat :
                i \in 1 .. Len(Split(outs[k])) /\ ts[t] = Split(outs[k])[i]
  <2>1. PICK k \in 1 .. Len(outs) : t - pre[k - 1] \in 1 .. Len(Split(outs[k]))
    BY DEF Tasked
  <2> DEFINE i == t - pre[k - 1]
  <2>2. pre[k - 1] \in Nat  BY DEF Tasked
  <2>3. i \in 1 .. Len(Split(outs[k])) /\ pre[k - 1] + i = t
    BY <2>1, <2>2
  <2> HIDE DEF i
  <2>4. ts[pre[k - 1] + i] = Split(outs[k])[i]  BY <2>3 DEF Tasked
  <2> QED BY <2>3, <2>4
<1>2. \A k \in 1 .. Len(outs) : SplitOf(Split(outs[k]), outs[k])
  BY DEF Tasked
<1>3. ASSUME NEW t \in 1 .. Len(ts)
      PROVE  \E k \in 1 .. Len(outs) :
                 /\ PartOf(ts[t], outs[k])
                 /\ DOMAIN ts[t].ids = 1 .. Len(ts[t].ids) /\ Len(ts[t].ids) \in 1 .. job.task_size
                 /\ \A m \in 1 .. Len(ts[t].ids) :
                       \E p \in 1 .. Len(outs[k].ids) : ts[t].ids[m] = outs[k].ids[p]
  <2>1. PICK k \in 1 .. Len(outs), i \in Nat :
                i \in 1 .. Len(Split(outs[k])) /\ ts[t] = Split(outs[k])[i]
    BY <1>1
  <2>2. SplitOf(Split(outs[k]), outs[k])  BY <1>2
  <2>3. /\ PartOf(ts[t], outs[k])
        /\ DOMAIN ts[t].ids = 1 .. Len(ts[t].ids) /\ Len(ts[t].ids) \in 1 .. job.task_size
        /\ \A m \in 1 .. Len(ts[t].ids) :
              First(i) + m \in 1 .. Len(outs[k].ids) /\ ts[t].ids[m] = outs[k].ids[First(i) + m]
    BY <2>1, <2>2 DEF SplitOf
  <2> QED BY <2>3
<1>4. ASSUME NEW k \in 1 .. Len(outs) PROVE \E t \in 1 .. Len(ts) : PartOf(ts[t], outs[k])
  <2>1. Len(Split(outs[k])) \in Nat \ {0} /\ \A i \in 1 .. Len(Split(outs[k])) : PartOf(Split(outs[k])[i], outs[k])
    BY <1>2 DEF SplitOf
  <2>2. 1 \in 1 .. Len(Split(outs[k]))  BY <2>1
  <2>3. pre[k - 1] + 1 \in 1 .. Len(ts) /\ ts[pre[k - 1] + 1] = Split(outs[k])[1]
    BY <2>2 DEF Tasked
  <2> QED BY <2>1, <2>2, <2>3
<1>5. ArePartsOf(ts, outs)  BY <1>3 DEF ArePartsOf
<1> QED BY <1>4, <1>5

\* What the job tells does not change with the rest of the state.
LEMMA JobStays ==
    ASSUME job' = job
    PROVE  /\ Query' = Query /\ Manifest' = Manifest
           /\ Readable' <=> Readable
           /\ HasShape' <=> HasShape
           /\ ThreeDimensional' <=> ThreeDimensional
           /\ \A d : Lines(d)' = Lines(d)
           /\ Answerable' <=> Answerable
<1>1. Query' = Query /\ Manifest' = Manifest  BY DEF Query, Manifest
<1>2. /\ Readable' <=> Readable
      /\ HasShape' <=> HasShape
      /\ ThreeDimensional' <=> ThreeDimensional
      /\ \A d : Lines(d)' = Lines(d)
  BY Zenon DEF Readable, HasShape, ThreeDimensional, Manifest, Query, Lines
<1>3. Answerable' <=> Answerable
  BY Zenon DEF Answerable, Lines, Manifest, Query, Cube
<1> QED BY <1>1, <1>2, <1>3

\* What is asked for changes only with the job.
LEMMA AskedStays ==
    ASSUME job' = job
    PROVE  /\ InCube' <=> InCube
           /\ GroupByFragment(Asked)' = GroupByFragment(Asked)
<1>1. InCube' <=> InCube  BY DEF InCube, Found, Lines, Manifest, Query
<1>2. \A k, d : Index(k, d)' = Index(k, d)
  BY Zenon DEF Index, Found, Lines, Manifest, Query
<1>3. \A c : GroupByFragment(c)' = GroupByFragment(c)
  BY Zenon DEF GroupByFragment, Manifest
<1>4. Asked' = Asked  BY <1>2, JobStays DEF Asked
<1> QED BY <1>1, <1>3, <1>4

\* What is unpacked changes only with the job and the arguments.
LEMMA UnpackedStays ==
    ASSUME job' = job, args' = args
    PROVE  Unpacked' <=> Unpacked
<1>1. Query' = Query /\ Manifest' = Manifest  BY JobStays
<1>2. Normalized(Query.attributes)' = Normalized(Query.attributes)
  BY <1>1 DEF Normalized
<1>3. Lines(Query.dim)' = Lines(Query.dim)  BY <1>1 DEF Lines
<1>4. Indices(Lines(Query.dim), Query.kind, Query.val)' = Indices(Lines(Query.dim), Query.kind, Query.val)
  BY <1>1, <1>3 DEF Indices
<1>5. /\ InCube' <=> InCube 
      /\ HasShape' <=> HasShape 
      /\ ThreeDimensional' <=> ThreeDimensional 
      /\ Readable' <=> Readable
  BY JobStays, AskedStays
<1>6. GroupByFragment(Asked)' = GroupByFragment(Asked)  BY AskedStays
<1> QED BY <1>1, <1>2, <1>4, <1>5, <1>6 DEF Unpacked

\* What is built from the arguments changes only with them.
LEMMA OutputsStay ==
    ASSUME job' = job, args' = args
    PROVE  /\ HasShapes' <=> HasShapes
           /\ Wanted' = Wanted
           /\ \A a : Output(a)' = Output(a)
           /\ \A o : BuiltSlice(o)' = BuiltSlice(o)
           /\ \A o : BuiltCurtain(o)' = BuiltCurtain(o)
<1>1. \A a : Attribute(a)' = Attribute(a)
  BY DEF Manifest, Attribute, SelectInSeq
<1>2. Cube' = Cube /\ Query' = Query /\ Manifest' = Manifest
  BY DEF Cube, Lines, Manifest, Query
<1>3. \A a : Output(a)' = Output(a)  BY <1>1, <1>2 DEF Output
<1>4. Recorded' = Recorded  BY Zenon DEF Recorded, Manifest
<1>5. HasShapes' <=> HasShapes  BY JobStays, <1>1, <1>4 DEF HasShapes
<1>6. Wanted' = Wanted  BY <1>4 DEF Wanted
<1>7. \A o : BuiltSlice(o)' = BuiltSlice(o)
  BY Zenon DEF BuiltSlice, Query
<1>8. \A o, id : Single(o, id)' = Single(o, id)
  BY Zenon DEF TracesIn, Single, LocalTrace
<1>9. \A o : ColumnIds(o)' = ColumnIds(o)
  BY Zenon DEF TracesIn, ColumnIds
<1>10. \A o : BuiltCurtain(o)' = BuiltCurtain(o)
  BY <1>8, <1>9 DEF BuiltCurtain
<1> QED BY <1>3, <1>5, <1>6, <1>7, <1>10

\* The outputs that build() makes change only with the job and the arguments.
LEMMA BuiltStays ==
    ASSUME job' = job, args' = args
    PROVE  [k \in DOMAIN Wanted |-> Built(Output(Wanted[k]))]'
              = [k \in DOMAIN Wanted |-> Built(Output(Wanted[k]))]
<1>1. \A o : Built(o)' = Built(o)  BY OutputsStay, JobStays DEF Built
<1> QED BY <1>1, OutputsStay
-----------------------------------------------------------------------------
\* When an index or a line number has a place in a list of lines.
LEMMA IndicesExist ==
    ASSUME NEW lines \in Seq(Int), NEW kind, NEW val
    PROVE  Indices(lines, kind, val) # {} <=>
              \/ kind = "index" /\ val \in 0 .. Len(lines) - 1
              \/ kind = "lineno" /\ val \in Range(lines)
<1>1. Len(lines) \in Nat /\ DOMAIN lines = 1 .. Len(lines)  OBVIOUS
<1>2. \A x : x \in Range(lines) <=> \E i \in 1 .. Len(lines) : lines[i] = x
  BY <1>1 DEF Range
<1>3. \A i \in 1 .. Len(lines) : i - 1 \in 0 .. Len(lines) - 1 /\ (i - 1) + 1 = i
  BY <1>1
<1>4. \A i \in 0 .. Len(lines) - 1 : i + 1 \in 1 .. Len(lines)  BY <1>1
<1>5. (\E i \in 0 .. Len(lines) - 1 : lines[i + 1] = val) <=> val \in Range(lines)
  BY <1>2, <1>3, <1>4
<1> QED BY <1>5 DEF Indices

\* A slice is found if and only if it can be answered.
AskedSlice ==
    /\ Query.dim \in 1 .. 3
    /\ \/ Query.kind = "index"  /\ Query.val \in 0 .. Cube[Query.dim] - 1
       \/ Query.kind = "lineno" /\ Query.val \in Range(Lines(Query.dim))

\* A slice is in the cube when its index has a place.
LEMMA SliceIsFound ==
    ASSUME job \in Jobs, Query.function = "slice"
    PROVE  /\ Len(Manifest.line_numbers) = 3
           /\ AskedSlice <=> /\ Query.dim \in DOMAIN Manifest.line_numbers
                             /\ Indices(Lines(Query.dim), Query.kind, Query.val) # {}
<1>1. Len(Manifest.line_numbers) = 3 /\ DOMAIN Manifest.line_numbers = 1 .. 3
  BY ManifestIs
<1>2. ASSUME Query.dim \in 1 .. 3
      PROVE  Lines(Query.dim) \in Seq(Int) /\ Cube[Query.dim] = Len(Lines(Query.dim))
  BY <1>1, <1>2, ManifestIs DEF Cube
<1>3. ASSUME Query.dim \in 1 .. 3
      PROVE  Indices(Lines(Query.dim), Query.kind, Query.val) # {} <=>
              \/ Query.kind = "index" /\ Query.val \in 0 .. Len(Lines(Query.dim)) - 1
              \/ Query.kind = "lineno" /\ Query.val \in Range(Lines(Query.dim))
  BY <1>2, <1>3, IndicesExist
<1> QED BY <1>1, <1>2, <1>3 DEF AskedSlice

\* So is a curtain.
AskedTrace(k, d) ==
    LET x == Query.coords[k][d] IN
    \/ Query.kind = "index"  /\ x \in 0 .. Cube[d] - 1
    \/ Query.kind = "lineno" /\ x \in Range(Lines(d))
    \/ /\ Query.kind = "utm"
       /\ Round(LineNo(Manifest.utm_to_lineno[d], Query.coords[k])) \in Lines(d)[1] .. Last(Lines(d))

\* A trace is in the cube when both its coordinates have a place.
LEMMA TraceIsFound ==
    ASSUME job \in Jobs, Query.function = "curtain", Len(Manifest.line_numbers) = 3,
           Query.kind = "utm" => "utm-to-lineno" \in Manifest.keys,
           NEW k \in DOMAIN Query.coords, Len(Query.coords[k]) = 2, NEW d \in {1, 2}
    PROVE  AskedTrace(k, d) <=> Found(k, d) # {}
<1> DEFINE v == LineNo(Manifest.utm_to_lineno[d], Query.coords[k])
<1>1. /\ Lines(d) \in Seq(Int) /\ Len(Lines(d)) \in Nat \ {0} /\ Cube[d] = Len(Lines(d))
      /\ \A i, m \in 1 .. Len(Lines(d)) : i < m => Lines(d)[i] < Lines(d)[m]
  <2>1. d \in 1 .. Len(Manifest.line_numbers) /\ d # 3 /\ d \in 1 .. 3
    OBVIOUS
  <2> QED BY <2>1, ManifestIs DEF Cube
<1>2. Query.kind = "utm" => v \in Int /\ Found(k, d) = Nearest(Lines(d), v)
  BY FoundIs
<1> HIDE DEF v
<1>3. CASE Query.kind = "utm"
  <2>1. v \in Int /\ Found(k, d) = Nearest(Lines(d), v)  BY <1>2, <1>3
  <2>2. Last(Lines(d)) = Lines(d)[Len(Lines(d))] /\ Lines(d) # <<>>
    BY <1>1 DEF Last
  <2>3. Nearest(Lines(d), v) # {} <=> Round(v) \in Lines(d)[1] .. Last(Lines(d))
    BY <1>1, <2>1, <2>2, NearestExists
  <2>4. AskedTrace(k, d) <=> Round(v) \in Lines(d)[1] .. Last(Lines(d))
    BY <1>3 DEF AskedTrace, v
  <2> QED BY <2>1, <2>3, <2>4
<1>4. CASE Query.kind # "utm"
  <2>1. Found(k, d) = Indices(Lines(d), Query.kind, Query.coords[k][d])
    BY <1>4 DEF Found
  <2>2. AskedTrace(k, d) <=>
              \/ Query.kind = "index" /\ Query.coords[k][d] \in 0 .. Len(Lines(d)) - 1
              \/ Query.kind = "lineno" /\ Query.coords[k][d] \in Range(Lines(d))
    BY <1>1, <1>4 DEF AskedTrace
  <2> QED BY <1>1, <2>1, <2>2, IndicesExist
<1> QED BY <1>3, <1>4

\* The first attribute of each type that is asked for has a shape.
ShapesRecorded ==
    \A k \in DOMAIN Manifest.attr :
        LET type == Manifest.attr[k].type IN
        \/ type \notin Range(Normalized(Query.attributes))
        \/ \E i \in 1 .. k - 1 : Manifest.attr[i].type = type
        \/ Manifest.attr[k].shapes # <<>>

\* Every wanted attribute has a shape when the first of its type in the manifest has one.
LEMMA ShapesAreFound ==
    ASSUME job \in Jobs, args.attributes = Normalized(Query.attributes)
    PROVE  (\A k \in DOMAIN Recorded : Attribute(Recorded[k]).shapes # <<>>) <=> ShapesRecorded
<1> DEFINE s == Manifest.attr  n == Len(s)
<1>1. s \in Seq(attributedesc)  BY ManifestIs
<1>2. n \in Nat /\ DOMAIN s = 1 .. n  BY <1>1
<1>3. /\ Recorded \in Seq(AttributeNames)
      /\ Range(Recorded) = {a \in Range(args.attributes) : IsRecorded(a)}
  BY NormalizedIs, RecordedIs
<1>4. /\ \A k \in DOMAIN Recorded : Recorded[k] \in Range(Recorded)
      /\ \A a \in Range(Recorded) : \E k \in DOMAIN Recorded : Recorded[k] = a
  BY DEF Range
<1>5. ASSUME NEW a \in Range(Recorded)
      PROVE  \E k \in 1 .. n : /\ Attribute(a) = s[k] /\ s[k].type = a
                               /\ \A i \in 1 .. k - 1 : s[i].type # a
  <2>1. IsRecorded(a)  BY <1>3
  <2> QED BY <1>1, <2>1, AttributeIs
<1> HIDE DEF n, s
<1>6. ASSUME \A k \in DOMAIN Recorded : Attribute(Recorded[k]).shapes # <<>>,
             NEW k \in 1 .. n, s[k].type \in Range(args.attributes),
             \A i \in 1 .. k - 1 : s[i].type # s[k].type
      PROVE  s[k].shapes # <<>>
  <2> DEFINE a == s[k].type
  <2>1. IsRecorded(a)  BY <1>2 DEF IsRecorded, Range, s
  <2>2. a \in Range(Recorded)  BY <1>3, <1>6, <2>1
  <2> HIDE DEF a
  <2>3. Attribute(a).shapes # <<>>  BY <1>4, <1>6, <2>2
  <2>4. PICK j \in 1 .. n : /\ Attribute(a) = s[j] /\ s[j].type = a
                            /\ \A i \in 1 .. j - 1 : s[i].type # a
    BY <1>5, <2>2
  <2>5. k < j => k \in 1 .. j - 1  BY <1>2
  <2>6. j < k => j \in 1 .. k - 1  BY <1>2
  <2>7. j = k  BY <1>2, <1>6, <2>4, <2>5, <2>6 DEF a
  <2> QED BY <2>3, <2>4, <2>7
<1>7. ASSUME ShapesRecorded, NEW m \in DOMAIN Recorded
      PROVE  Attribute(Recorded[m]).shapes # <<>>
  <2> DEFINE a == Recorded[m]
  <2>1. a \in Range(Recorded) /\ a \in Range(args.attributes)
    BY <1>3, <1>4
  <2> HIDE DEF a
  <2>2. PICK j \in 1 .. n : /\ Attribute(a) = s[j] /\ s[j].type = a
                            /\ \A i \in 1 .. j - 1 : s[i].type # a
    BY <1>5, <2>1
  <2>3. \/ s[j].type \notin Range(Normalized(Query.attributes))
        \/ \E i \in 1 .. j - 1 : s[i].type = s[j].type
        \/ s[j].shapes # <<>>
    BY <1>2, <1>7 DEF ShapesRecorded, s
  <2> QED BY <2>1, <2>2, <2>3 DEF a
<1>8. ShapesRecorded <=>
         \A k \in 1 .. n : \/ s[k].type \notin Range(args.attributes)
                           \/ \E i \in 1 .. k - 1 : s[i].type = s[k].type
                           \/ s[k].shapes # <<>>
  BY <1>2 DEF ShapesRecorded, s
<1> QED BY <1>6, <1>7, <1>8

\* What the planner finds is what can be answered.
FoundInCube ==
    /\ Query.function = "slice" =>
          /\ Query.dim \in DOMAIN Manifest.line_numbers
          /\ Indices(Lines(Query.dim), Query.kind, Query.val) # {}
    /\ Query.function = "curtain" => InCube /\ ThreeDimensional

\* A query can be answered when it passes all that the planner checks on its way.
LEMMA AnsweredIs ==
    ASSUME job \in Jobs
    PROVE  Answerable <=> /\ Manifest.format_version = 1 /\ Query.function \in {"slice", "curtain"}
                          /\ Readable /\ HasShape /\ FoundInCube /\ ShapesRecorded
                          /\ job.task_size >= 1
<1>1. CASE Query.function = "slice"
  <2>1. /\ Len(Manifest.line_numbers) = 3
        /\ AskedSlice <=> /\ Query.dim \in DOMAIN Manifest.line_numbers
                          /\ Indices(Lines(Query.dim), Query.kind, Query.val) # {}
    BY <1>1, SliceIsFound
  <2>2. FoundInCube <=> AskedSlice  BY <1>1, <2>1 DEF FoundInCube
  <2>3. Answerable <=> /\ Manifest.format_version = 1 /\ Readable /\ job.task_size >= 1
                       /\ HasShape /\ ShapesRecorded /\ AskedSlice
    BY <1>1, <2>1 DEF Answerable, Readable, HasShape, ShapesRecorded, AskedSlice
  <2> QED BY <1>1, <2>2, <2>3
<1>2. CASE Query.function = "curtain"
  <2> DEFINE Asks == \A k \in DOMAIN Query.coords, d \in {1, 2} : AskedTrace(k, d)
             Finds == \A k \in DOMAIN Query.coords : \A d \in {1, 2} : Found(k, d) # {}
             Fits == /\ Query.kind \in {"index", "lineno", "utm"}
                     /\ Query.kind = "utm" => "utm-to-lineno" \in Manifest.keys
                     /\ \A k \in DOMAIN Query.coords : Len(Query.coords[k]) = 2
  <2>1. InCube <=> Fits /\ Finds  BY DEF InCube
  <2>2. Answerable <=> /\ Manifest.format_version = 1 /\ Readable /\ job.task_size >= 1
                       /\ HasShape /\ ShapesRecorded /\ Len(Manifest.line_numbers) = 3
                       /\ Fits /\ Asks
    BY <1>2 DEF Answerable, Readable, HasShape, ShapesRecorded, AskedTrace
  <2>3. ASSUME HasShape PROVE ThreeDimensional <=> Len(Manifest.line_numbers) = 3
    <3>1. DataShape \in ShapesOver(1 .. 3)  BY <2>3, DataShapeIs
    <3>2. Len(DataShape) = 3
      <4>1. DataShape \in [1 .. 3 -> Nat]  BY <3>1 DEF ShapesOver
      <4> QED BY <4>1, FunctionIsSequence
    <3> QED BY <3>2 DEF ThreeDimensional, DataShape
  <2>4. ASSUME Len(Manifest.line_numbers) = 3, Fits PROVE Asks <=> Finds
    <3>1. \A k \in DOMAIN Query.coords, d \in {1, 2} : AskedTrace(k, d) <=> Found(k, d) # {}
      BY <1>2, <2>4, TraceIsFound
    <3> QED BY <3>1
  <2> HIDE DEF Asks, Finds, Fits
  <2>5. FoundInCube <=> Fits /\ Finds /\ ThreeDimensional
    BY <1>2, <2>1 DEF FoundInCube
  <2> QED BY <1>2, <2>2, <2>3, <2>4, <2>5
<1>3. CASE Query.function \notin {"slice", "curtain"}
  BY <1>3 DEF Answerable
<1> QED BY <1>1, <1>2, <1>3

\* What comes after a stage.
LEMMA Stages ==
    /\ After("dispatch") = {"unpack", "build", "partition", "planned", "terminated"}
    /\ After("unpack") = {"build", "partition", "planned", "terminated"}
    /\ After("build") = {"partition", "planned", "terminated"}
  BY DEF After

\* The invariant holds of a job that no one has looked at.
LEMMA PlannerInvInit == Init => PlannerInv
<1> SUFFICES ASSUME Init PROVE PlannerInv
  OBVIOUS
<1>1. /\ job \in Jobs /\ stage = "dispatch" /\ args = NoArgs
      /\ outputs = <<>> /\ tasks = <<>> /\ head = NoHead
  BY DEF Init, PlannerInit
<1>2. NoArgs \in [attributes : Seq(AttributeNames), idx : Nat, coords : Seq(Nat \X Nat)]
  BY DEF NoArgs
<1>3. <<>> \in Seq(slice_task) \cup Seq(curtain_task)  OBVIOUS
<1> QED BY <1>1, <1>2, <1>3, Stages DEF PlannerInv

\* Reading a query and its manifest keeps the invariant.
LEMMA DispatchKeeps ==
    ASSUME PlannerInv, Dispatch PROVE PlannerInv'
<1>1. /\ stage = "dispatch"
      /\ stage' = IF Manifest.format_version = 1 /\ Query.function \in {"slice", "curtain"}
                    THEN "unpack" ELSE "refused"
      /\ job' = job /\ args' = args /\ outputs' = outputs /\ tasks' = tasks /\ head' = head
  BY DEF Dispatch
<1>2. /\ job \in Jobs /\ tasks = <<>> /\ head = NoHead
      /\ args \in [attributes : Seq(AttributeNames), idx : Nat, coords : Seq(Nat \X Nat)]
      /\ outputs \in Seq(slice_task) \cup Seq(curtain_task)
  BY <1>1 DEF PlannerInv
<1>3. stage' = "refused" => ~Answerable  BY <1>1, <1>2, AnsweredIs
<1>4. /\ Query' = Query /\ Manifest' = Manifest /\ (Answerable' <=> Answerable)
  BY <1>1, JobStays
<1>5. \/ stage' = "refused"
      \/ stage' = "unpack" /\ Manifest.format_version = 1 /\ Query.function \in {"slice", "curtain"}
  BY <1>1
<1> QED BY <1>1, <1>2, <1>3, <1>4, <1>5, Stages DEF PlannerInv

\* A step to a refusal keeps the rest.
LEMMA RefusalKeeps ==
    ASSUME PlannerInv, ~Answerable, stage # "planned", stage' = "refused",
           UNCHANGED <<job, args, outputs, tasks, head>>
    PROVE  PlannerInv'
<1>1. job' = job /\ args' = args /\ outputs' = outputs /\ tasks' = tasks /\ head' = head
  OBVIOUS
<1>2. /\ job \in Jobs /\ tasks = <<>> /\ head = NoHead
      /\ args \in [attributes : Seq(AttributeNames), idx : Nat, coords : Seq(Nat \X Nat)]
      /\ outputs \in Seq(slice_task) \cup Seq(curtain_task)
  BY DEF PlannerInv
<1>3. ~Answerable'  BY <1>1, JobStays
<1> QED BY <1>1, <1>2, <1>3, Stages DEF PlannerInv

\* Finding the plane of a slice keeps the invariant.
LEMMA UnpackSliceKeeps ==
    ASSUME PlannerInv, UnpackSlice PROVE PlannerInv'
<1> DEFINE found == IF Readable /\ Query.dim \in DOMAIN Manifest.line_numbers
                      THEN Indices(Lines(Query.dim), Query.kind, Query.val) ELSE {}
<1>1. /\ stage = "unpack" /\ Query.function = "slice"
      /\ IF found = {} THEN stage' = "refused" /\ UNCHANGED args
         ELSE /\ \E i \in found :
                    args' = [NoArgs EXCEPT !.attributes = Normalized(Query.attributes), !.idx = i]
              /\ stage' = "build"
      /\ job' = job /\ outputs' = outputs /\ tasks' = tasks /\ head' = head
  BY DEF UnpackSlice
<1>2. /\ job \in Jobs /\ tasks = <<>> /\ head = NoHead
      /\ Manifest.format_version = 1
      /\ args \in [attributes : Seq(AttributeNames), idx : Nat, coords : Seq(Nat \X Nat)]
      /\ outputs \in Seq(slice_task) \cup Seq(curtain_task)
  BY <1>1, Stages DEF PlannerInv
<1>3. CASE found = {}
  <2>1. ~Answerable  BY <1>1, <1>2, <1>3, AnsweredIs DEF FoundInCube
  <2> QED BY <1>1, <1>3, <2>1, RefusalKeeps
<1>4. CASE found # {}
  <2>1. Readable /\ Query.dim \in DOMAIN Manifest.line_numbers  BY <1>4
  <2>2. PICK i \in Indices(Lines(Query.dim), Query.kind, Query.val) :
            args' = [NoArgs EXCEPT !.attributes = Normalized(Query.attributes), !.idx = i]
    BY <1>1, <1>4
  <2>3. stage' = "build"  BY <1>1, <1>4
  <2>4. i \in Nat
    <3>1. \A j \in Indices(Lines(Query.dim), Query.kind, Query.val) : j \in 0 .. Len(Lines(Query.dim)) - 1
      BY DEF Indices
    <3> QED BY <3>1
  <2>5. Normalized(Query.attributes) \in Seq(AttributeNames)
    BY NormalizedIs
  <2>6. args' = [attributes |-> Normalized(Query.attributes), idx |-> i, coords |-> <<>>]
    BY <2>2 DEF NoArgs
  <2>7. args' \in [attributes : Seq(AttributeNames), idx : Nat, coords : Seq(Nat \X Nat)]
    BY <2>4, <2>5, <2>6
  <2>8. /\ Query' = Query /\ Manifest' = Manifest /\ Readable'
    BY <1>1, <2>1, JobStays
  <2>9. /\ Normalized(Query.attributes)' = Normalized(Query.attributes)
        /\ Indices(Lines(Query.dim), Query.kind, Query.val)' = Indices(Lines(Query.dim), Query.kind, Query.val)
    <3>1. Lines(Query.dim)' = Lines(Query.dim)  BY <2>8 DEF Lines
    <3> QED BY <2>8, <3>1 DEF Normalized, Indices
  <2>10. Unpacked'
    <3>1. "slice" # "curtain"  OBVIOUS
    <3>2. args'.attributes = Normalized(Query.attributes) /\ args'.idx = i
      BY <2>6
    <3> QED BY <1>1, <2>1, <2>8, <2>9, <3>1, <3>2 DEF Unpacked
  <2> QED BY <1>1, <1>2, <2>3, <2>7, <2>8, <2>10, Stages DEF PlannerInv
<1> QED BY <1>3, <1>4

\* Finding the traces of a curtain keeps the invariant.
LEMMA UnpackCurtainKeeps ==
    ASSUME PlannerInv, UnpackCurtain PROVE PlannerInv'
<1>1. /\ stage = "unpack" /\ Query.function = "curtain"
      /\ IF ~(Readable /\ InCube /\ HasShape /\ ThreeDimensional)
           THEN stage' = "refused" /\ UNCHANGED args
           ELSE /\ args' = [NoArgs EXCEPT !.attributes = Normalized(Query.attributes),
                                          !.coords = GroupByFragment(Asked)]
                /\ stage' = "build"
      /\ job' = job /\ outputs' = outputs /\ tasks' = tasks /\ head' = head
  BY DEF UnpackCurtain, InCube, Found, Index, Asked
<1>2. /\ job \in Jobs /\ tasks = <<>> /\ head = NoHead
      /\ Manifest.format_version = 1
      /\ args \in [attributes : Seq(AttributeNames), idx : Nat, coords : Seq(Nat \X Nat)]
      /\ outputs \in Seq(slice_task) \cup Seq(curtain_task)
  BY <1>1, Stages DEF PlannerInv
<1>3. CASE ~(Readable /\ InCube /\ HasShape /\ ThreeDimensional)
  <2>1. ~Answerable  BY <1>1, <1>2, <1>3, AnsweredIs DEF FoundInCube
  <2> QED BY <1>1, <1>3, <2>1, RefusalKeeps
<1>4. CASE Readable /\ InCube /\ HasShape /\ ThreeDimensional
  <2>1. args' = [NoArgs EXCEPT !.attributes = Normalized(Query.attributes),
                               !.coords = GroupByFragment(Asked)] /\ stage' = "build"
    BY <1>1, <1>4
  <2>2. args' = [attributes |-> Normalized(Query.attributes), idx |-> 0, coords |-> GroupByFragment(Asked)]
    BY <2>1 DEF NoArgs
  <2>3. GroupByFragment(Asked) \in Seq(Nat \X Nat)
    BY <1>1, <1>2, <1>4, CoordsAre DEF ThreeDimensional
  <2>4. Normalized(Query.attributes) \in Seq(AttributeNames)
    BY NormalizedIs
  <2>5. args' \in [attributes : Seq(AttributeNames), idx : Nat, coords : Seq(Nat \X Nat)]
    BY <2>2, <2>3, <2>4
  <2>6. /\ Query' = Query /\ Manifest' = Manifest /\ Readable' /\ InCube' /\ HasShape' /\ ThreeDimensional'
    BY <1>1, <1>4, JobStays, AskedStays
  <2>7. /\ Normalized(Query.attributes)' = Normalized(Query.attributes)
        /\ GroupByFragment(Asked)' = GroupByFragment(Asked)
    BY <1>1, <2>6, AskedStays DEF Normalized
  <2>8. Unpacked'
    <3>1. "slice" # "curtain"  OBVIOUS
    <3>2. args'.attributes = Normalized(Query.attributes) /\ args'.coords = GroupByFragment(Asked)
      BY <2>2
    <3> QED BY <1>1, <2>6, <2>7, <3>1, <3>2 DEF Unpacked
  <2> QED BY <1>1, <1>2, <2>1, <2>5, <2>6, <2>8, Stages DEF PlannerInv
<1> QED BY <1>3, <1>4

\* Refusing a recording without a shape keeps the invariant.
LEMMA RefuseShapesKeeps ==
    ASSUME PlannerInv, RefuseShapes PROVE PlannerInv'
<1>1. /\ stage = "build" /\ ~HasShapes /\ stage' = "refused"
      /\ UNCHANGED <<job, args, outputs, tasks, head>>
  BY DEF RefuseShapes
<1>2. job \in Jobs /\ Unpacked  BY <1>1, Stages DEF PlannerInv
<1>3. args.attributes = Normalized(Query.attributes)
  BY <1>2 DEF Unpacked
<1>4. ~HasShape \/ ~ShapesRecorded
  BY <1>1, <1>2, <1>3, ShapesAreFound DEF HasShapes
<1>5. ~Answerable  BY <1>2, <1>4, AnsweredIs
<1> QED BY <1>1, <1>5, RefusalKeeps

\* Refusing a task size keeps the invariant.
LEMMA RefuseTaskSizeKeeps ==
    ASSUME PlannerInv, RefuseTaskSize PROVE PlannerInv'
<1>1. /\ stage = "partition" /\ job.task_size < 1 /\ stage' = "refused"
      /\ UNCHANGED <<job, args, outputs, tasks, head>>
  BY DEF RefuseTaskSize
<1>2. job \in Jobs  BY DEF PlannerInv
<1>3. job.task_size \in Int  BY <1>2, JobIs
<1>4. ~Answerable  BY <1>1, <1>2, <1>3, AnsweredIs
<1> QED BY <1>1, <1>4, RefusalKeeps

\* Building the outputs keeps the invariant.
LEMMA BuildKeeps ==
    ASSUME PlannerInv, stage = "build", HasShapes, stage' = "partition",
           outputs' = [k \in DOMAIN Wanted |-> Built(Output(Wanted[k]))],
           UNCHANGED <<job, args, tasks, head>>
    PROVE  PlannerInv'
<1>1. job' = job /\ args' = args /\ tasks' = tasks /\ head' = head
  OBVIOUS
<1>2. /\ job \in Jobs /\ tasks = <<>> /\ head = NoHead /\ Unpacked
      /\ Manifest.format_version = 1 /\ Query.function \in {"slice", "curtain"}
      /\ args \in [attributes : Seq(AttributeNames), idx : Nat, coords : Seq(Nat \X Nat)]
  BY Stages DEF PlannerInv
<1> DEFINE outs == [k \in DOMAIN Wanted |-> Built(Output(Wanted[k]))]
<1>3. outs \in Seq(slice_task) \cup Seq(curtain_task)
  <2>1. args.idx \in Nat  BY <1>2
  <2> HIDE DEF outs
  <2>2. outs = [k \in DOMAIN Wanted |-> Built(Output(Wanted[k]))]
    BY DEF outs
  <2>3. /\ Query.function = "slice" => outs \in Seq(slice_task)
        /\ Query.function = "curtain" => outs \in Seq(curtain_task)
    BY <1>2, <2>1, <2>2, OutputsAre
  <2> QED BY <1>2, <2>3
<1>4. Unpacked' /\ HasShapes' /\ Query' = Query /\ Manifest' = Manifest
  BY <1>1, <1>2, UnpackedStays, OutputsStay, JobStays
<1>5. outputs' = [k \in DOMAIN Wanted |-> Built(Output(Wanted[k]))]'
  BY <1>1, BuiltStays
<1>6. (outputs = [k \in DOMAIN Wanted |-> Built(Output(Wanted[k]))])'
  BY <1>5
<1>7. outputs' \in Seq(slice_task) \cup Seq(curtain_task)  BY <1>3
<1> HIDE DEF outs
<1> QED BY <1>1, <1>2, <1>4, <1>6, <1>7, Stages DEF PlannerInv

\* Building the outputs of a slice keeps the invariant.
LEMMA BuildSliceKeeps ==
    ASSUME PlannerInv, BuildSlice PROVE PlannerInv'
<1>1. /\ stage = "build" /\ Query.function = "slice" /\ HasShapes /\ stage' = "partition"
      /\ outputs' = [k \in DOMAIN Wanted |-> BuiltSlice(Output(Wanted[k]))]
      /\ UNCHANGED <<job, args, tasks, head>>
  BY DEF BuildSlice, BuiltSlice
<1>2. outputs' = [k \in DOMAIN Wanted |-> Built(Output(Wanted[k]))]
  BY <1>1 DEF Built
<1> QED BY <1>1, <1>2, BuildKeeps

\* Building the outputs of a curtain keeps the invariant.
LEMMA BuildCurtainKeeps ==
    ASSUME PlannerInv, BuildCurtain PROVE PlannerInv'
<1>1. /\ stage = "build" /\ Query.function = "curtain" /\ HasShapes /\ stage' = "partition"
      /\ outputs' = [k \in DOMAIN Wanted |-> BuiltCurtain(Output(Wanted[k]))]
      /\ UNCHANGED <<job, args, tasks, head>>
  BY DEF BuildCurtain, BuiltCurtain, ColumnIds, TracesIn, LocalTrace, Single
<1>2. outputs' = [k \in DOMAIN Wanted |-> Built(Output(Wanted[k]))]
  BY <1>1 DEF Built
<1> QED BY <1>1, <1>2, BuildKeeps

\* The tasks of the outputs change only with these and with the job.
LEMMA SplitsStay ==
    ASSUME job' = job, outputs' = outputs
    PROVE  FlattenSeq([k \in DOMAIN outputs |-> Split(outputs[k])])'
              = FlattenSeq([k \in DOMAIN outputs |-> Split(outputs[k])])
<1>1. \A o : Split(o)' = Split(o)  BY Zenon DEF Split
<1>2. [k \in DOMAIN outputs |-> Split(outputs[k])]' = [k \in DOMAIN outputs |-> Split(outputs[k])]
  BY <1>1
<1> QED BY <1>2

\* The headers change only with the job and the arguments.
LEMMA HeadersStay ==
    ASSUME job' = job, args' = args
    PROVE  \A n : SliceHeader(n)' = SliceHeader(n) /\ CurtainHeader(n)' = CurtainHeader(n)
<1>1. \A n : SliceHeader(n)' = SliceHeader(n)
  BY Zenon DEF SliceHeader, Query, Lines, Manifest
<1>2. \A n : CurtainHeader(n)' = CurtainHeader(n)
  BY Zenon DEF CurtainHeader, Query, Lines, Manifest
<1> QED BY <1>1, <1>2

\* Cutting the outputs into tasks keeps the invariant.
LEMMA PartitionKeeps ==
    ASSUME PlannerInv, Partition PROVE PlannerInv'
<1> DEFINE split == FlattenSeq([k \in DOMAIN outputs |-> Split(outputs[k])])
<1>1. /\ stage = "partition" /\ job.task_size >= 1
      /\ \A k \in DOMAIN outputs : outputs[k].ids # <<>>
      /\ tasks' = split
      /\ head' = IF Query.function = "slice" THEN SliceHeader(Len(split)) ELSE CurtainHeader(Len(split))
      /\ stage' = "planned"
      /\ job' = job /\ args' = args /\ outputs' = outputs
  BY DEF Partition
<1>2. /\ job \in Jobs /\ Unpacked /\ HasShapes
      /\ Manifest.format_version = 1 /\ Query.function \in {"slice", "curtain"}
      /\ args \in [attributes : Seq(AttributeNames), idx : Nat, coords : Seq(Nat \X Nat)]
      /\ outputs \in Seq(slice_task) \cup Seq(curtain_task)
      /\ outputs = [k \in DOMAIN Wanted |-> Built(Output(Wanted[k]))]
  BY <1>1, Stages DEF PlannerInv
<1>3. Unpacked' /\ HasShapes' /\ Query' = Query /\ Manifest' = Manifest
  BY <1>1, <1>2, UnpackedStays, OutputsStay, JobStays
<1>4. (outputs = [k \in DOMAIN Wanted |-> Built(Output(Wanted[k]))])'
  BY <1>1, <1>2, BuiltStays
<1>5. split' = split  BY <1>1, SplitsStay
<1>6. (tasks = split)'  BY <1>1, <1>5
<1>7. (head = IF Query.function = "slice" THEN SliceHeader(Len(tasks)) ELSE CurtainHeader(Len(tasks)))'
  BY <1>1, <1>3, HeadersStay
<1>8. (job.task_size >= 1 /\ \A k \in DOMAIN outputs : outputs[k].ids # <<>>)'
  BY <1>1
<1> QED BY <1>1, <1>2, <1>3, <1>4, <1>6, <1>7, <1>8, Stages DEF PlannerInv

\* The end of the server keeps the invariant.
LEMMA TerminateKeeps ==
    ASSUME PlannerInv, Terminate PROVE PlannerInv'
<1>1. /\ stage = "partition" /\ job.task_size >= 1
      /\ \E k \in DOMAIN outputs : outputs[k].ids = <<>>
      /\ stage' = "terminated"
      /\ job' = job /\ args' = args /\ outputs' = outputs /\ tasks' = tasks /\ head' = head
  BY DEF Terminate
<1>2. /\ job \in Jobs /\ Unpacked /\ HasShapes /\ tasks = <<>> /\ head = NoHead
      /\ Manifest.format_version = 1 /\ Query.function \in {"slice", "curtain"}
      /\ args \in [attributes : Seq(AttributeNames), idx : Nat, coords : Seq(Nat \X Nat)]
      /\ outputs \in Seq(slice_task) \cup Seq(curtain_task)
      /\ outputs = [k \in DOMAIN Wanted |-> Built(Output(Wanted[k]))]
  BY <1>1, Stages DEF PlannerInv
<1>3. Unpacked' /\ HasShapes' /\ Query' = Query /\ Manifest' = Manifest
  BY <1>1, <1>2, UnpackedStays, OutputsStay, JobStays
<1>4. (outputs = [k \in DOMAIN Wanted |-> Built(Output(Wanted[k]))])'
  BY <1>1, <1>2, BuiltStays
<1>5. (\E k \in DOMAIN outputs : outputs[k].ids = <<>>)'  BY <1>1
<1> QED BY <1>1, <1>2, <1>3, <1>4, <1>5, Stages DEF PlannerInv

\* What leaves the planner alone keeps the invariant.
LEMMA PlannerKeeps ==
    ASSUME PlannerInv, UNCHANGED planner PROVE PlannerInv'
<1>1. /\ job' = job /\ stage' = stage /\ args' = args /\ outputs' = outputs
      /\ tasks' = tasks /\ head' = head
  BY DEF planner
<1>2. /\ Query' = Query /\ Manifest' = Manifest /\ (Answerable' <=> Answerable)
      /\ Unpacked' <=> Unpacked
      /\ HasShapes' <=> HasShapes
  BY <1>1, UnpackedStays, OutputsStay, JobStays
<1>3. (outputs = [k \in DOMAIN Wanted |-> Built(Output(Wanted[k]))])'
         <=> outputs = [k \in DOMAIN Wanted |-> Built(Output(Wanted[k]))]
  BY <1>1, BuiltStays
<1>4. (tasks = FlattenSeq([k \in DOMAIN outputs |-> Split(outputs[k])]))'
         <=> tasks = FlattenSeq([k \in DOMAIN outputs |-> Split(outputs[k])])
  BY <1>1, SplitsStay
<1>5. (head = IF Query.function = "slice" THEN SliceHeader(Len(tasks)) ELSE CurtainHeader(Len(tasks)))'
         <=> head = IF Query.function = "slice" THEN SliceHeader(Len(tasks)) ELSE CurtainHeader(Len(tasks))
  BY <1>1, <1>2, HeadersStay
<1> QED BY <1>1, <1>2, <1>3, <1>4, <1>5 DEF PlannerInv

\* Every step keeps the invariant.
LEMMA PlannerInvNext ==
    ASSUME PlannerInv, [Next]_vars PROVE PlannerInv'
<1>1. CASE Plan
  BY <1>1, DispatchKeeps, UnpackSliceKeeps, UnpackCurtainKeeps, RefuseShapesKeeps, BuildSliceKeeps,
     BuildCurtainKeeps, RefuseTaskSizeKeeps, PartitionKeeps, TerminateKeeps DEF Plan
<1>2. CASE UNCHANGED planner  BY <1>2, PlannerKeeps
<1>3. Plan \/ UNCHANGED planner  BY DEF Next, Allocate, Deliver, vars
<1> QED BY <1>1, <1>2, <1>3

\* What holds of the planner in every state.
THEOREM PlannerIsSound == Spec => []PlannerInv
<1>1. Init => PlannerInv  BY PlannerInvInit
<1>2. PlannerInv /\ [Next]_vars => PlannerInv'  BY PlannerInvNext
<1> QED BY <1>1, <1>2, PTL DEF Spec

\* The header of a slice and that of a curtain.
IndexSize(d) == IF d = Query.dim THEN 1 ELSE Len(Lines(d))
Heads(h, n) ==
    /\ h.nbundles = n
    /\ h.attributes \in Seq(AttributeNames) /\ Len(h.attributes) = Len(args.attributes) + 1
    /\ h.attributes[1] = "data"
    /\ \A i \in 1 .. Len(args.attributes) : h.attributes[1 + i] = args.attributes[i]
    /\ h.shapes \in Seq(Seq(Nat)) /\ Len(h.shapes) = Len(args.attributes) + 1
SliceHead(h) ==
    /\ h.function = "slice"
    /\ h.index = [d \in 1 .. 3 |-> IF d = Query.dim THEN <<Lines(d)[args.idx + 1]>> ELSE Lines(d)]
    /\ h.shapes[1] = [d \in 1 .. 3 |-> IndexSize(d)]
    /\ \A i \in 1 .. Len(args.attributes) :
          h.shapes[1 + i] = [d \in 1 .. 3 |-> IF d = 3 THEN 1 ELSE IndexSize(d)]
CurtainHead(h) ==
    /\ h.function = "curtain"
    /\ h.index = <<[k \in 1 .. Len(args.coords) |-> Lines(1)[args.coords[k][1] + 1]],
                   [k \in 1 .. Len(args.coords) |-> Lines(2)[args.coords[k][2] + 1]], Lines(3)>>
    /\ h.shapes[1] = <<Len(args.coords), Len(Lines(3))>>
    /\ \A i \in 1 .. Len(args.attributes) : h.shapes[1 + i] = <<Len(args.coords)>>

\* What both are made of: the size of the data and that of an attribute.
MadeOf(h, n, first, rest) ==
    /\ h.nbundles = n
    /\ h.attributes = <<"data">> \o args.attributes
    /\ h.shapes = <<first>> \o [a \in DOMAIN args.attributes |-> rest]
Sized(h, n, first, rest) ==
    /\ Heads(h, n) /\ h.shapes[1] = first
    /\ \A i \in 1 .. Len(args.attributes) : h.shapes[1 + i] = rest

\* A record with the fields of a header is one.
LEMMA HeaderTyped ==
    ASSUME NEW f \in {"", "slice", "curtain"}, NEW n \in Nat, NEW attrs \in Seq(AttributeNames),
           NEW index \in Seq(Seq(Int)), NEW shapes \in Seq(Seq(Nat)), NEW h,
           h = [function |-> f, nbundles |-> n, attributes |-> attrs, index |-> index,
                shapes |-> shapes]
    PROVE  h \in process_header
  BY DEF process_header

\* A header has one shape for each attribute, that of the data first.
LEMMA HeadParts ==
    ASSUME args.attributes \in Seq(AttributeNames), NEW first \in Seq(Nat), NEW rest \in Seq(Nat),
           NEW n, NEW h, MadeOf(h, n, first, rest)
    PROVE  Sized(h, n, first, rest)
<1> DEFINE m == Len(args.attributes)  r == [a \in 1 .. m |-> rest]
           u == <<"data">> \o args.attributes  w == <<first>> \o r
<1>1. m \in Nat /\ DOMAIN args.attributes = 1 .. m  OBVIOUS
<1>2. "data" \in AttributeNames  BY DEF AttributeNames
<1>3. /\ u \in Seq(AttributeNames) /\ Len(u) = m + 1
      /\ u[1] = "data" /\ \A i \in 1 .. m : u[1 + i] = args.attributes[i]
  BY <1>2, Prepended
<1>4. r \in Seq(Seq(Nat)) /\ Len(r) = m /\ \A i \in 1 .. m : r[i] = rest
  <2>1. r \in [1 .. m -> Seq(Nat)] /\ \A i \in 1 .. m : r[i] = rest
    OBVIOUS
  <2> HIDE DEF r
  <2> QED BY <1>1, <2>1, FunctionIsSequence
<1>5. h.shapes = w  BY <1>1 DEF MadeOf
<1> HIDE DEF r
<1>6. /\ w \in Seq(Seq(Nat)) /\ Len(w) = Len(r) + 1
      /\ w[1] = first /\ \A i \in 1 .. Len(r) : w[1 + i] = r[i]
  BY <1>4, Prepended
<1> HIDE DEF u, w
<1>7. h.attributes = u  BY DEF u, MadeOf
<1>8. /\ w \in Seq(Seq(Nat)) /\ Len(w) = m + 1
      /\ w[1] = first /\ \A i \in 1 .. m : w[1 + i] = rest
  BY <1>4, <1>6
<1>9. Heads(h, n)  BY <1>3, <1>5, <1>7, <1>8 DEF Heads, MadeOf
<1> QED BY <1>5, <1>8, <1>9 DEF Sized

\* The header of a slice: its index has one line for the dimension of the slice and all
\* lines of the other two, and its shapes agree.
LEMMA SliceHeaderIs ==
    ASSUME job \in Jobs, Query.function = "slice", Unpacked, NEW n \in Nat,
           args.attributes \in Seq(AttributeNames)
    PROVE  LET h == SliceHeader(n)
           IN  h \in process_header /\ Heads(h, n) /\ SliceHead(h)
<1> DEFINE index == [d \in 1 .. 3 |-> IF d = Query.dim THEN <<Lines(d)[args.idx + 1]>> ELSE Lines(d)]
           size == [d \in 1 .. 3 |-> Len(index[d])]
           first == [d \in 1 .. 3 |-> IndexSize(d)]
           rest == [d \in 1 .. 3 |-> IF d = 3 THEN 1 ELSE IndexSize(d)]
           h == SliceHeader(n)
<1>1. /\ Len(Manifest.line_numbers) = 3
      /\ Query.dim \in 1 .. 3 /\ args.idx \in 0 .. Len(Lines(Query.dim)) - 1
      /\ Len(Lines(Query.dim)) \in Nat
  BY UnpackedIs
<1>2. \A d \in 1 .. 3 : Lines(d) \in Seq(Int) /\ Len(Lines(d)) \in Nat \ {0}
  BY <1>1, ManifestIs
<1>3. Lines(Query.dim)[args.idx + 1] \in Int
  <2>1. args.idx + 1 \in 1 .. Len(Lines(Query.dim))  BY <1>1
  <2>2. Lines(Query.dim) \in Seq(Int)  BY <1>1, <1>2
  <2> QED BY <2>1, <2>2, ElementOfSeq
<1>4. ASSUME NEW d \in 1 .. 3 PROVE index[d] \in Seq(Int) /\ Len(index[d]) = IndexSize(d)
  <2>1. CASE d = Query.dim  BY <1>3, <2>1 DEF IndexSize
  <2>2. CASE d # Query.dim  BY <1>2, <2>2 DEF IndexSize
  <2> QED BY <2>1, <2>2
<1>5. \A d \in 1 .. 3 : IndexSize(d) \in Nat  BY <1>2 DEF IndexSize
<1>6. h = [function |-> "slice", nbundles |-> n, attributes |-> <<"data">> \o args.attributes,
           index |-> index,
           shapes |-> <<size>> \o [a \in DOMAIN args.attributes |-> [size EXCEPT ![3] = 1]]]
  BY DEF SliceHeader
<1>7. index \in Seq(Seq(Int))
  <2>1. index \in [1 .. 3 -> Seq(Int)]  BY <1>4
  <2> HIDE DEF index
  <2> QED BY <2>1, FunctionIsSequence
<1>8. size = first /\ [size EXCEPT ![3] = 1] = rest
  <2>1. \A d \in 1 .. 3 : Len(index[d]) = IndexSize(d)  BY <1>4
  <2> HIDE DEF index
  <2>2. size = first  BY <2>1
  <2>3. [first EXCEPT ![3] = 1] = rest  OBVIOUS
  <2> HIDE DEF size, first, rest
  <2> QED BY <2>2, <2>3
<1>9. first \in Seq(Nat) /\ rest \in Seq(Nat)
  <2>1. first \in [1 .. 3 -> Nat] /\ rest \in [1 .. 3 -> Nat]  BY <1>5
  <2> HIDE DEF first, rest
  <2> QED BY <2>1, FunctionIsSequence
<1> HIDE DEF size, first, rest, h, index
<1>10. /\ h.function = "slice" /\ h.nbundles = n /\ h.attributes = <<"data">> \o args.attributes
       /\ h.index = index /\ h.shapes = <<first>> \o [a \in DOMAIN args.attributes |-> rest]
  BY <1>6, <1>8
<1>11. /\ Heads(h, n) /\ h.shapes[1] = first
       /\ \A i \in 1 .. Len(args.attributes) : h.shapes[1 + i] = rest
  <2>1. MadeOf(h, n, first, rest)  BY <1>10 DEF MadeOf
  <2>2. Sized(h, n, first, rest)  BY <1>9, <2>1, HeadParts
  <2> QED BY <2>2 DEF Sized
<1>12. SliceHead(h)  BY <1>10, <1>11 DEF SliceHead, first, rest, index
<1>13. h \in process_header
  <2>1. h.attributes \in Seq(AttributeNames) /\ h.shapes \in Seq(Seq(Nat))
    BY <1>11 DEF Heads
  <2>2. h = [function |-> "slice", nbundles |-> n, attributes |-> h.attributes,
             index |-> index, shapes |-> h.shapes]
    BY <1>6
  <2> QED BY <1>7, <2>1, <2>2, HeaderTyped
<1> QED BY <1>11, <1>12, <1>13 DEF h

\* The header of a curtain: its index has the lines of each trace and all depths, and its
\* shapes agree.
LEMMA CurtainHeaderIs ==
    ASSUME job \in Jobs, Query.function = "curtain", Unpacked, NEW n \in Nat,
           args.attributes \in Seq(AttributeNames)
    PROVE  LET h == CurtainHeader(n)
           IN  h \in process_header /\ Heads(h, n) /\ CurtainHead(h)
<1> DEFINE m == Len(args.coords)
           a == [k \in 1 .. m |-> Lines(1)[args.coords[k][1] + 1]]
           b == [k \in 1 .. m |-> Lines(2)[args.coords[k][2] + 1]]
           index == <<a, b, Lines(3)>>
           first == <<m, Len(Lines(3))>>  rest == <<m>>
           h == CurtainHeader(n)
<1>1. /\ Len(Manifest.line_numbers) = 3
      /\ args.coords \in Seq(Nat \X Nat)
      /\ \A k \in 1 .. m, d \in {1, 2} : args.coords[k][d] \in 0 .. Len(Lines(d)) - 1
  BY UnpackedIs
<1>2. \A d \in 1 .. 3 : Lines(d) \in Seq(Int) /\ Len(Lines(d)) \in Nat \ {0}
  BY <1>1, ManifestIs
<1>3. m \in Nat  BY <1>1
<1>4. \A k \in 1 .. m : Lines(1)[args.coords[k][1] + 1] \in Int /\ Lines(2)[args.coords[k][2] + 1] \in Int
  <2>1. \A d \in {1, 2} : d \in 1 .. 3  OBVIOUS
  <2>2. \A k \in 1 .. m : \A d \in {1, 2} :
            args.coords[k][d] + 1 \in 1 .. Len(Lines(d)) /\ Lines(d) \in Seq(Int)
    <3>1. TAKE k \in 1 .. m, d \in {1, 2}
    <3> DEFINE x == args.coords[k][d]  l == Len(Lines(d))
    <3>2. x \in 0 .. l - 1  BY <1>1
    <3>3. l \in Nat /\ Lines(d) \in Seq(Int)  BY <1>2, <2>1
    <3> HIDE DEF x, l
    <3>4. x + 1 \in 1 .. l  BY <3>2, <3>3
    <3> QED BY <3>3, <3>4 DEF x, l
  <2>3. \A k \in 1 .. m : \A d \in {1, 2} : Lines(d)[args.coords[k][d] + 1] \in Int
    BY <2>2, ElementOfSeq
  <2> QED BY <2>3
<1>5. a \in Seq(Int) /\ b \in Seq(Int)
  <2>1. a \in [1 .. m -> Int] /\ b \in [1 .. m -> Int]  BY <1>4
  <2> HIDE DEF a, b, m
  <2> QED BY <1>3, <2>1, FunctionIsSequence
<1>6. h = [function |-> "curtain", nbundles |-> n, attributes |-> <<"data">> \o args.attributes,
           index |-> index,
           shapes |-> <<first>> \o [x \in DOMAIN args.attributes |-> rest]]
  BY DEF CurtainHeader
<1>7. index \in Seq(Seq(Int))
  <2> HIDE DEF a, b
  <2>1. Lines(3) \in Seq(Int)  BY <1>2
  <2> QED BY <1>5, <2>1
<1>8. first \in Seq(Nat) /\ rest \in Seq(Nat)
  <2>1. Len(Lines(3)) \in Nat  BY <1>2
  <2> HIDE DEF m
  <2> QED BY <1>3, <2>1
<1> HIDE DEF first, rest, h, index
<1>9. /\ h.function = "curtain" /\ h.nbundles = n /\ h.attributes = <<"data">> \o args.attributes
      /\ h.index = index /\ h.shapes = <<first>> \o [x \in DOMAIN args.attributes |-> rest]
  BY <1>6
<1>10. /\ Heads(h, n) /\ h.shapes[1] = first
       /\ \A i \in 1 .. Len(args.attributes) : h.shapes[1 + i] = rest
  <2>1. MadeOf(h, n, first, rest)  BY <1>9 DEF MadeOf
  <2>2. Sized(h, n, first, rest)  BY <1>8, <2>1, HeadParts
  <2> QED BY <2>2 DEF Sized
<1>11. CurtainHead(h)  BY <1>9, <1>10 DEF CurtainHead, first, rest, index
<1>12. h \in process_header
  <2>1. h.attributes \in Seq(AttributeNames) /\ h.shapes \in Seq(Seq(Nat))
    BY <1>10 DEF Heads
  <2>2. h = [function |-> "curtain", nbundles |-> n, attributes |-> h.attributes,
             index |-> index, shapes |-> h.shapes]
    BY <1>6
  <2> QED BY <1>7, <2>1, <2>2, HeaderTyped
<1> QED BY <1>10, <1>11, <1>12 DEF h

\* What a plan is.
LEMMA PlanIs ==
    ASSUME PlannerInv, stage = "planned"
    PROVE  /\ job \in Jobs /\ job.task_size \in Nat \ {0} /\ Query.function \in {"slice", "curtain"}
           /\ Manifest.format_version = 1 /\ Unpacked /\ HasShapes
           /\ Len(Manifest.line_numbers) = 3 /\ args.attributes = Normalized(Query.attributes)
           /\ args \in [attributes : Seq(AttributeNames), idx : Nat, coords : Seq(Nat \X Nat)]
           /\ OutputsOf(outputs) /\ Wanted \in Seq(AttributeNames)
           /\ Len(outputs) = Len(Wanted) /\ Len(outputs) \in Nat
           /\ Query.function = "slice" => tasks \in Seq(slice_task)
           /\ Query.function = "curtain" => tasks \in Seq(curtain_task)
           /\ Len(tasks) \in Nat /\ DOMAIN tasks = 1 .. Len(tasks)
           /\ \E pre \in [0 .. Len(outputs) -> Nat] : Tasked(tasks, outputs, pre)
           /\ head = IF Query.function = "slice" THEN SliceHeader(Len(tasks))
                                                 ELSE CurtainHeader(Len(tasks))
<1>1. /\ job \in Jobs /\ Query.function \in {"slice", "curtain"}
      /\ Manifest.format_version = 1 /\ Unpacked /\ HasShapes
      /\ args \in [attributes : Seq(AttributeNames), idx : Nat, coords : Seq(Nat \X Nat)]
      /\ outputs = [k \in DOMAIN Wanted |-> Built(Output(Wanted[k]))]
      /\ job.task_size >= 1
      /\ \A k \in DOMAIN outputs : outputs[k].ids # <<>>
      /\ tasks = FlattenSeq([k \in DOMAIN outputs |-> Split(outputs[k])])
      /\ head = IF Query.function = "slice" THEN SliceHeader(Len(tasks))
                                            ELSE CurtainHeader(Len(tasks))
  <2>1. stage \in After("dispatch") /\ stage \in After("unpack") /\ stage \in After("build")
    BY Stages
  <2> QED BY <2>1 DEF PlannerInv
<1>2. job.task_size \in Nat \ {0}
  <2>1. job.task_size \in Int  BY <1>1, JobIs
  <2> QED BY <1>1, <2>1
<1>3. Len(Manifest.line_numbers) = 3 /\ args.attributes = Normalized(Query.attributes)
  BY <1>1, UnpackedIs
<1>4. args.idx \in Nat  BY <1>1
<1>5. OutputsOf(outputs)  BY <1>1, <1>4, OutputsAre
<1>6. Wanted \in Seq(AttributeNames)  BY <1>3, WantedIs
<1>7. /\ Query.function = "slice" => tasks \in Seq(slice_task)
      /\ Query.function = "curtain" => tasks \in Seq(curtain_task)
      /\ \E pre \in [0 .. Len(outputs) -> Nat] : Tasked(tasks, outputs, pre)
  <2>1. \A k \in DOMAIN outputs : outputs[k].ids # <<>>  BY <1>1
  <2>2. tasks = FlattenSeq([k \in DOMAIN outputs |-> Split(outputs[k])])
    BY <1>1
  <2>3. Query.function \in {"slice", "curtain"}  BY <1>1
  <2> DEFINE flat == FlattenSeq([k \in DOMAIN outputs |-> Split(outputs[k])])
  <2>4. /\ Query.function = "slice" => flat \in Seq(slice_task)
        /\ Query.function = "curtain" => flat \in Seq(curtain_task)
        /\ \E pre \in [0 .. Len(outputs) -> Nat] : Tasked(flat, outputs, pre)
    BY <1>2, <1>5, <1>6, <2>1, <2>3, TasksAre
  <2> QED BY <2>2, <2>4
<1>8. Len(outputs) = Len(Wanted) /\ Len(outputs) \in Nat
  <2>1. Len(outputs) = Len(Wanted)  BY <1>5 DEF OutputsOf
  <2> QED BY <1>6, <2>1
<1>9. Len(tasks) \in Nat /\ DOMAIN tasks = 1 .. Len(tasks)
  <2>1. CASE Query.function = "slice"  BY <1>7, <2>1
  <2>2. CASE Query.function = "curtain"  BY <1>7, <2>2
  <2> QED BY <1>1, <2>1, <2>2
<1> QED BY <1>1, <1>2, <1>3, <1>5, <1>6, <1>7, <1>8, <1>9

\* What is there before the header has its type.
LEMMA NoHeadIsHeader == NoHead \in process_header
<1>1. <<>> \in Seq(AttributeNames) /\ <<>> \in Seq(Seq(Int)) /\ <<>> \in Seq(Seq(Nat))
  OBVIOUS
<1> QED BY <1>1, HeaderTyped DEF NoHead

\* The header of a plan.
LEMMA HeadIs ==
    ASSUME PlannerInv, stage = "planned"
    PROVE  /\ head \in process_header /\ Heads(head, Len(tasks))
           /\ Query.function = "slice" => SliceHead(head)
           /\ Query.function = "curtain" => CurtainHead(head)
<1>1. /\ job \in Jobs /\ Query.function \in {"slice", "curtain"} /\ Unpacked /\ Len(tasks) \in Nat
      /\ args \in [attributes : Seq(AttributeNames), idx : Nat, coords : Seq(Nat \X Nat)]
      /\ head = IF Query.function = "slice" THEN SliceHeader(Len(tasks))
                                            ELSE CurtainHeader(Len(tasks))
  BY PlanIs
<1>2. args.attributes \in Seq(AttributeNames)  BY <1>1
<1>3. CASE Query.function = "slice"
  <2>1. head = SliceHeader(Len(tasks))  BY <1>1, <1>3
  <2> QED BY <1>1, <1>2, <1>3, <2>1, SliceHeaderIs
<1>4. CASE Query.function = "curtain"
  <2>1. head = CurtainHeader(Len(tasks))  BY <1>1, <1>4
  <2> QED BY <1>1, <1>2, <1>4, <2>1, CurtainHeaderIs
<1> QED BY <1>1, <1>3, <1>4

\* The type invariant of the planner follows from what holds of it in every state.
LEMMA PlannerTyped == PlannerInv => PlannerTypeOK
<1> SUFFICES ASSUME PlannerInv PROVE PlannerTypeOK
  OBVIOUS
<1>1. /\ job \in Jobs
      /\ stage \in {"dispatch", "unpack", "build", "partition", "planned", "refused", "terminated"}
      /\ args \in [attributes : Seq(AttributeNames), idx : Nat, coords : Seq(Nat \X Nat)]
      /\ outputs \in Seq(slice_task) \cup Seq(curtain_task)
  BY Stages DEF PlannerInv
<1>2. CASE stage # "planned"
  <2>1. tasks = <<>> /\ head = NoHead  BY <1>2 DEF PlannerInv
  <2>2. <<>> \in Seq(slice_task) /\ DOMAIN <<>> = {}  OBVIOUS
  <2>3. head \in process_header  BY <2>1, NoHeadIsHeader
  <2> QED BY <1>1, <2>1, <2>2, <2>3 DEF PlannerTypeOK
<1>3. CASE stage = "planned"
  <2>1. head \in process_header  BY <1>3, HeadIs
  <2>2. /\ tasks \in Seq(slice_task) \cup Seq(curtain_task)
        /\ Len(tasks) \in Nat /\ DOMAIN tasks = 1 .. Len(tasks) /\ Len(outputs) \in Nat
        /\ \E pre \in [0 .. Len(outputs) -> Nat] : Tasked(tasks, outputs, pre)
    BY <1>3, PlanIs
  <2>3. \A t \in 1 .. Len(tasks) : Len(tasks[t].ids) \in 1 .. job.task_size
    BY <2>2, TaskIsPart DEF ArePartsOf
  <2> QED BY <1>1, <2>1, <2>2, <2>3 DEF PlannerTypeOK
<1> QED BY <1>2, <1>3

\* The attributes of the tasks are those that are wanted.
LEMMA TasksAreWanted ==
    ASSUME PlannerInv, stage = "planned"
    PROVE  {tasks[t].attr : t \in DOMAIN tasks} = Range(Wanted)
<1>1. /\ OutputsOf(outputs) /\ Len(outputs) = Len(Wanted) /\ Len(outputs) \in Nat
      /\ Len(tasks) \in Nat /\ DOMAIN tasks = 1 .. Len(tasks)
      /\ args.attributes = Normalized(Query.attributes)
      /\ \E pre \in [0 .. Len(outputs) -> Nat] : Tasked(tasks, outputs, pre)
  BY PlanIs
<1>2. /\ \A t \in 1 .. Len(tasks) : \E k \in 1 .. Len(outputs) : PartOf(tasks[t], outputs[k])
      /\ \A k \in 1 .. Len(outputs) : \E t \in 1 .. Len(tasks) : PartOf(tasks[t], outputs[k])
  BY <1>1, TaskIsPart DEF ArePartsOf
<1>3. \A k \in 1 .. Len(outputs) : outputs[k].attr = Wanted[k]
  BY <1>1 DEF OutputsOf
<1>4. \A t \in 1 .. Len(tasks) : \A k \in 1 .. Len(outputs) :
          PartOf(tasks[t], outputs[k]) => tasks[t].attr = Wanted[k]
  BY <1>3 DEF PartOf
<1>5. DOMAIN Wanted = 1 .. Len(outputs) /\ Range(Wanted) = {Wanted[k] : k \in 1 .. Len(outputs)}
  <2>1. DOMAIN Wanted = 1 .. Len(Wanted)  BY <1>1, WantedIs
  <2> QED BY <1>1, <2>1 DEF Range
<1>6. ASSUME NEW t \in DOMAIN tasks PROVE tasks[t].attr \in Range(Wanted)
  <2>1. \E k \in 1 .. Len(outputs) : tasks[t].attr = Wanted[k]
    BY <1>1, <1>2, <1>4
  <2> QED BY <1>5, <2>1
<1>7. ASSUME NEW a \in Range(Wanted) PROVE \E t \in DOMAIN tasks : tasks[t].attr = a
  <2>1. PICK k \in 1 .. Len(outputs) : a = Wanted[k]  BY <1>5
  <2>2. PICK t \in 1 .. Len(tasks) : PartOf(tasks[t], outputs[k])
    BY <1>2
  <2>3. tasks[t].attr = a  BY <1>4, <2>1, <2>2
  <2> QED BY <1>1, <2>3
<1> QED BY <1>6, <1>7

\* What is asked for gets a plan, and anything else is refused; only a curtain of no
\* traces ends the server (plan.cpp 413-419, 541-552, query.cpp 49-73).
LEMMA PlannerInvPlansOrRefuses == PlannerInv => PlannedOrRefused
<1> SUFFICES ASSUME PlannerInv PROVE PlannedOrRefused
  OBVIOUS
<1>1. stage = "refused" => ~Answerable  BY DEF PlannerInv
<1>2. ASSUME stage = "terminated" PROVE Query.function = "curtain" /\ Query.coords = <<>>
  <2>1. stage \in After("dispatch") /\ stage \in After("unpack") /\ stage \in After("build")
    BY <1>2, Stages
  <2>2. /\ job \in Jobs /\ Query.function \in {"slice", "curtain"} /\ Unpacked /\ HasShapes
        /\ args.idx \in Nat
        /\ outputs = [k \in DOMAIN Wanted |-> Built(Output(Wanted[k]))]
    BY <2>1 DEF PlannerInv
  <2>3. OutputsOf(outputs)  BY <2>2, OutputsAre
  <2>4. PICK k \in DOMAIN outputs : outputs[k].ids = <<>>
    BY <1>2 DEF PlannerInv
  <2>5. k \in 1 .. Len(Wanted)  BY <2>3 DEF OutputsOf
  <2>6. Query.function = "curtain" /\ args.coords = <<>>
    <3>1. Query.function = "slice" => outputs[k].ids # <<>>
      BY <2>3, <2>5 DEF OutputsOf
    <3>2. Query.function = "curtain" => (outputs[k].ids = <<>> <=> args.coords = <<>>)
      BY <2>3, <2>5 DEF OutputsOf
    <3> QED BY <2>2, <2>4, <3>1, <3>2
  <2>7. Len(args.coords) = Len(Query.coords)  BY <2>2, <2>6, UnpackedIs
  <2>8. Query.coords \in Seq(Seq(Int))
    <3>1. Query \in curtain_query  BY <2>2, <2>6, JobIs
    <3> QED BY <3>1 DEF curtain_query
  <2>9. Len(Query.coords) = 0  BY <2>6, <2>7
  <2> QED BY <2>6, <2>8, <2>9, EmptySeq
<1>3. ASSUME stage = "planned" PROVE Answerable
  <2>1. /\ job \in Jobs /\ job.task_size \in Nat \ {0} /\ Query.function \in {"slice", "curtain"}
        /\ Manifest.format_version = 1 /\ Unpacked /\ HasShapes
        /\ args.attributes = Normalized(Query.attributes)
    BY <1>3, PlanIs
  <2>2. Readable /\ FoundInCube  BY <2>1 DEF Unpacked, FoundInCube
  <2>3. HasShape /\ ShapesRecorded  BY <2>1, ShapesAreFound DEF HasShapes
  <2>4. job.task_size >= 1  BY <2>1
  <2> QED BY <2>1, <2>2, <2>3, <2>4, AnsweredIs
<1>4. ASSUME stage = "planned"
      PROVE  {tasks[t].attr : t \in DOMAIN tasks} =
                {"data"} \cup (Range(head.attributes) \cap {v.type : v \in Range(Manifest.attr)})
  <2>1. /\ job \in Jobs /\ args.attributes = Normalized(Query.attributes)
        /\ args \in [attributes : Seq(AttributeNames), idx : Nat, coords : Seq(Nat \X Nat)]
    BY <1>4, PlanIs
  <2>2. {tasks[t].attr : t \in DOMAIN tasks} = Range(Wanted)
    BY <1>4, TasksAreWanted
  <2>3. Range(Wanted) = {"data"} \cup {a \in Range(args.attributes) : IsRecorded(a)}
    BY <2>1, WantedIs
  <2>4. \A a : IsRecorded(a) <=> a \in {v.type : v \in Range(Manifest.attr)}
    BY Zenon DEF IsRecorded
  <2>5. Range(head.attributes) = {"data"} \cup Range(args.attributes)
    <3> DEFINE m == Len(args.attributes)
    <3>1. args.attributes \in Seq(AttributeNames)  BY <2>1
    <3>2. /\ head.attributes \in Seq(AttributeNames) /\ Len(head.attributes) = m + 1
          /\ head.attributes[1] = "data"
          /\ \A i \in 1 .. m : head.attributes[1 + i] = args.attributes[i]
      BY <1>4, HeadIs DEF Heads
    <3>3. m \in Nat /\ DOMAIN args.attributes = 1 .. m /\ DOMAIN head.attributes = 1 .. m + 1
      BY <3>1, <3>2
    <3> HIDE DEF m
    <3>4. \A i \in 1 .. m + 1 : i = 1 \/ (i - 1 \in 1 .. m /\ i = 1 + (i - 1))
      BY <3>3
    <3>5. 1 \in 1 .. m + 1 /\ \A i \in 1 .. m : 1 + i \in 1 .. m + 1
      BY <3>3
    <3> DEFINE u == head.attributes  v == args.attributes
    <3>6. /\ DOMAIN u = 1 .. m + 1 /\ DOMAIN v = 1 .. m
          /\ u[1] = "data" /\ \A i \in 1 .. m : u[1 + i] = v[i]
      BY <3>2, <3>3
    <3> HIDE DEF u, v
    <3>7. ASSUME NEW i \in 1 .. m + 1 PROVE u[i] \in {"data"} \cup {v[j] : j \in 1 .. m}
      <4>1. CASE i = 1  BY <3>6, <4>1
      <4>2. CASE i - 1 \in 1 .. m /\ i = 1 + (i - 1)  BY <3>6, <4>2
      <4> QED BY <3>4, <4>1, <4>2
    <3>8. "data" \in {u[i] : i \in 1 .. m + 1} /\ \A j \in 1 .. m : v[j] \in {u[i] : i \in 1 .. m + 1}
      BY <3>5, <3>6
    <3>9. Range(u) = {u[i] : i \in 1 .. m + 1} /\ Range(v) = {v[i] : i \in 1 .. m}
      BY <3>6 DEF Range
    <3>10. Range(u) = {"data"} \cup Range(v)  BY <3>7, <3>8, <3>9
    <3> QED BY <3>10 DEF u, v
  <2>6. "data" \in {"data"}  OBVIOUS
  <2> QED BY <2>2, <2>3, <2>4, <2>5, <2>6
<1> QED BY <1>1, <1>2, <1>3, <1>4 DEF PlannedOrRefused

\* What is asked for gets a plan with tasks for the data and every recorded attribute, and
\* anything that is not in the cube is refused (query.cpp 49-73, plan.cpp 541-552): for every
\* manifest, query and task size, not only for the ones that a run has.
THEOREM AnsweredOrRefused == Spec => []PlannedOrRefused
  BY PlannerIsSound, PlannerInvPlansOrRefuses, PTL

\* Where the k-th output has the fragments of the tasks.
Positions(ts, outs, pre, k) ==
    /\ \A t \in 1 .. Len(ts) : ts[t].attr = outs[k].attr =>
          /\ DOMAIN ts[t].ids = 1 .. Len(ts[t].ids)
          /\ \A m \in 1 .. Len(ts[t].ids) :
                /\ First(t - pre[k - 1]) + m \in 1 .. Len(outs[k].ids)
                /\ ts[t].ids[m] = outs[k].ids[First(t - pre[k - 1]) + m]
    /\ \A p \in 1 .. Len(outs[k].ids) :
          \E t \in 1 .. Len(ts) :
             /\ ts[t].attr = outs[k].attr
             /\ p - First(t - pre[k - 1]) \in 1 .. Len(ts[t].ids)
    /\ \A p \in 1 .. Len(outs[k].ids), t, u \in 1 .. Len(ts) :
          /\ ts[t].attr = outs[k].attr /\ p - First(t - pre[k - 1]) \in 1 .. Len(ts[t].ids)
          /\ ts[u].attr = outs[k].attr /\ p - First(u - pre[k - 1]) \in 1 .. Len(ts[u].ids)
          => t = u

\* Every fragment of an output is at one place of one task of its attribute.
LEMMA TaskPositions ==
    ASSUME NEW ts, NEW outs, NEW pre, Len(ts) \in Nat, Len(outs) \in Nat, Tasked(ts, outs, pre),
           \A i, j \in 1 .. Len(outs) : outs[i].attr = outs[j].attr => i = j,
           NEW k \in 1 .. Len(outs)
    PROVE  Positions(ts, outs, pre, k)
<1> DEFINE s == Split(outs[k])  q == pre[k - 1]
<1>1. /\ q \in Nat /\ SplitOf(s, outs[k])
      /\ \A i \in 1 .. Len(s) : q + i \in 1 .. Len(ts) /\ ts[q + i] = s[i]
  BY DEF Tasked
<1>2. /\ Len(s) \in Nat \ {0}
      /\ \A i \in 1 .. Len(s) :
          /\ PartOf(s[i], outs[k])
          /\ DOMAIN s[i].ids = 1 .. Len(s[i].ids) /\ Len(s[i].ids) \in 1 .. job.task_size
          /\ \A m \in 1 .. Len(s[i].ids) :
                First(i) + m \in 1 .. Len(outs[k].ids) /\ s[i].ids[m] = outs[k].ids[First(i) + m]
      /\ \A p \in 1 .. Len(outs[k].ids) :
            \E i \in 1 .. Len(s) : \A h \in 1 .. Len(s) : p - First(h) \in 1 .. Len(s[h].ids) <=> h = i
  BY <1>1 DEF SplitOf
<1>3. ASSUME NEW t \in 1 .. Len(ts), ts[t].attr = outs[k].attr
      PROVE  t - q \in 1 .. Len(s) /\ ts[t] = s[t - q]
  <2>1. PICK j \in 1 .. Len(outs) : t - pre[j - 1] \in 1 .. Len(Split(outs[j]))
    BY DEF Tasked
  <2> DEFINE i == t - pre[j - 1]  sj == Split(outs[j])
  <2>2. /\ pre[j - 1] \in Nat /\ SplitOf(sj, outs[j])
        /\ ts[pre[j - 1] + i] = sj[i]
    BY <2>1 DEF Tasked
  <2>3. PartOf(sj[i], outs[j])  BY <2>1, <2>2 DEF SplitOf
  <2>4. t = pre[j - 1] + i  BY <2>2
  <2> HIDE DEF i, sj
  <2>5. ts[t].attr = outs[j].attr  BY <2>2, <2>3, <2>4 DEF PartOf
  <2>6. j = k  BY <1>3, <2>5
  <2> QED BY <2>1, <2>2, <2>4, <2>6 DEF i, sj
<1>4. \A i \in 1 .. Len(s) : q + i \in 1 .. Len(ts) /\ ts[q + i].attr = outs[k].attr /\ (q + i) - q = i
  <2>1. TAKE i \in 1 .. Len(s)
  <2>2. PartOf(s[i], outs[k]) /\ ts[q + i] = s[i] /\ q + i \in 1 .. Len(ts)
    BY <1>1, <1>2
  <2>3. i \in Int  OBVIOUS
  <2> HIDE DEF q, s
  <2> QED BY <1>1, <2>2, <2>3 DEF PartOf
<1> HIDE DEF q, s
<1>5. ASSUME NEW t \in 1 .. Len(ts), ts[t].attr = outs[k].attr
      PROVE  /\ DOMAIN ts[t].ids = 1 .. Len(ts[t].ids)
             /\ \A m \in 1 .. Len(ts[t].ids) :
                   /\ First(t - q) + m \in 1 .. Len(outs[k].ids)
                   /\ ts[t].ids[m] = outs[k].ids[First(t - q) + m]
  <2> DEFINE i == t - q
  <2>1. i \in 1 .. Len(s) /\ ts[t] = s[i]  BY <1>3, <1>5
  <2> HIDE DEF i
  <2>2. /\ DOMAIN s[i].ids = 1 .. Len(s[i].ids)
        /\ \A m \in 1 .. Len(s[i].ids) :
              First(i) + m \in 1 .. Len(outs[k].ids) /\ s[i].ids[m] = outs[k].ids[First(i) + m]
    BY <1>2, <2>1
  <2>3. /\ DOMAIN ts[t].ids = 1 .. Len(ts[t].ids)
        /\ \A m \in 1 .. Len(ts[t].ids) :
              First(i) + m \in 1 .. Len(outs[k].ids) /\ ts[t].ids[m] = outs[k].ids[First(i) + m]
    BY <2>1, <2>2
  <2> QED BY <2>3 DEF i
<1>6. ASSUME NEW p \in 1 .. Len(outs[k].ids)
      PROVE  \E t \in 1 .. Len(ts) : ts[t].attr = outs[k].attr /\ p - First(t - q) \in 1 .. Len(ts[t].ids)
  <2>1. PICK i \in 1 .. Len(s) : p - First(i) \in 1 .. Len(s[i].ids)
    BY <1>2
  <2> QED BY <1>1, <1>4, <2>1
<1>7. ASSUME NEW p \in 1 .. Len(outs[k].ids), NEW t \in 1 .. Len(ts), NEW u \in 1 .. Len(ts),
             ts[t].attr = outs[k].attr, p - First(t - q) \in 1 .. Len(ts[t].ids),
             ts[u].attr = outs[k].attr, p - First(u - q) \in 1 .. Len(ts[u].ids)
      PROVE  t = u
  <2>1. t - q \in 1 .. Len(s) /\ ts[t] = s[t - q] /\ u - q \in 1 .. Len(s) /\ ts[u] = s[u - q]
    BY <1>3, <1>7
  <2> DEFINE i == t - q  j == u - q
  <2>2. PICK e \in 1 .. Len(s) : \A h \in 1 .. Len(s) : p - First(h) \in 1 .. Len(s[h].ids) <=> h = e
    BY <1>2
  <2>3. /\ i \in 1 .. Len(s) /\ p - First(i) \in 1 .. Len(s[i].ids)
        /\ j \in 1 .. Len(s) /\ p - First(j) \in 1 .. Len(s[j].ids)
    BY <1>7, <2>1
  <2> HIDE DEF i, j
  <2>4. i = e /\ j = e  BY <2>2, <2>3
  <2>5. t - q = u - q  BY <2>4 DEF i, j
  <2> QED BY <1>1, <2>5
<1> QED BY <1>5, <1>6, <1>7 DEF Positions, q

Fetched(w) ==
    UNION {{t} \X (DOMAIN tasks[t].ids) : t \in {t \in DOMAIN tasks : tasks[t].attr = w}}
FetchedAt(at, w, b) ==
    /\ at \in [Fetched(w) -> 1 .. Len(b.ids)]
    /\ \A f, g \in Fetched(w) : at[f] = at[g] => f = g
    /\ \A p \in 1 .. Len(b.ids) : \E f \in Fetched(w) : at[f] = p
    /\ \A f \in Fetched(w) : tasks[f[1]].ids[f[2]] = b.ids[at[f]]

\* What the tasks of an attribute fetch is what is listed in its output, each place once.
LEMMA FetchedOnce ==
    ASSUME PlannerInv, stage = "planned", NEW k \in 1 .. Len(Wanted)
    PROVE  \E at : FetchedAt(at, Wanted[k], outputs[k])
<1> DEFINE w == Wanted[k]  b == outputs[k]
<1>1. /\ OutputsOf(outputs) /\ Len(outputs) = Len(Wanted) /\ Len(outputs) \in Nat
      /\ Len(tasks) \in Nat /\ DOMAIN tasks = 1 .. Len(tasks)
      /\ args.attributes = Normalized(Query.attributes)
      /\ \E pre \in [0 .. Len(outputs) -> Nat] : Tasked(tasks, outputs, pre)
  BY PlanIs
<1>2. PICK pre \in [0 .. Len(outputs) -> Nat] : Tasked(tasks, outputs, pre)
  BY <1>1
<1>3. \A i \in 1 .. Len(outputs) : outputs[i].attr = Wanted[i]
  BY <1>1 DEF OutputsOf
<1>4. \A i, j \in 1 .. Len(outputs) : Wanted[i] = Wanted[j] => i = j
  BY <1>1, WantedIs
<1>5. Positions(tasks, outputs, pre, k)
  BY <1>1, <1>2, <1>3, <1>4, TaskPositions
<1>6. \A t, m : <<t, m>> \in Fetched(w) <=>
          t \in 1 .. Len(tasks) /\ tasks[t].attr = w /\ m \in DOMAIN tasks[t].ids
  BY <1>1 DEF Fetched
<1>7. \A f \in Fetched(w) : f = <<f[1], f[2]>>  BY DEF Fetched
<1> DEFINE F(t) == First(t - pre[k - 1])
           at == [f \in Fetched(w) |-> F(f[1]) + f[2]]
<1>8. \A t \in 1 .. Len(tasks) : F(t) \in Int
  <2>1. pre[k - 1] \in Nat /\ job.task_size \in Nat
    <3>1. k - 1 \in 0 .. Len(outputs)  BY <1>1
    <3> QED BY <1>2, <3>1, PlanIs
  <2>2. TAKE t \in 1 .. Len(tasks)
  <2>3. (t - pre[k - 1]) - 1 \in Int  BY <2>1
  <2> DEFINE x == (t - pre[k - 1]) - 1
  <2>4. F(t) = x * job.task_size  BY DEF First
  <2> HIDE DEF x, F
  <2> QED BY <2>1, <2>3, <2>4 DEF x
<1> HIDE DEF F
<1>9. /\ \A t \in 1 .. Len(tasks) : tasks[t].attr = w =>
            /\ DOMAIN tasks[t].ids = 1 .. Len(tasks[t].ids)
            /\ \A m \in 1 .. Len(tasks[t].ids) :
                  F(t) + m \in 1 .. Len(b.ids) /\ tasks[t].ids[m] = b.ids[F(t) + m]
      /\ \A p \in 1 .. Len(b.ids) :
            \E t \in 1 .. Len(tasks) : tasks[t].attr = w /\ p - F(t) \in 1 .. Len(tasks[t].ids)
      /\ \A p \in 1 .. Len(b.ids), t, u \in 1 .. Len(tasks) :
            /\ tasks[t].attr = w /\ p - F(t) \in 1 .. Len(tasks[t].ids)
            /\ tasks[u].attr = w /\ p - F(u) \in 1 .. Len(tasks[u].ids)
            => t = u
  <2>1. outputs[k].attr = w  BY <1>1, <1>3
  <2> HIDE DEF w
  <2> QED BY <1>5, <2>1 DEF Positions, F
<1> HIDE DEF w, b
<1>10. ASSUME NEW f \in Fetched(w)
       PROVE  /\ f[1] \in 1 .. Len(tasks) /\ tasks[f[1]].attr = w /\ f[2] \in 1 .. Len(tasks[f[1]].ids)
              /\ F(f[1]) + f[2] \in 1 .. Len(b.ids)
              /\ tasks[f[1]].ids[f[2]] = b.ids[F(f[1]) + f[2]]
              /\ (F(f[1]) + f[2]) - F(f[1]) = f[2]
  <2>1. f[1] \in 1 .. Len(tasks) /\ tasks[f[1]].attr = w /\ f[2] \in DOMAIN tasks[f[1]].ids
    BY <1>6, <1>7
  <2>2. f[2] \in 1 .. Len(tasks[f[1]].ids)  BY <1>9, <2>1
  <2>3. /\ F(f[1]) + f[2] \in 1 .. Len(b.ids)
        /\ tasks[f[1]].ids[f[2]] = b.ids[F(f[1]) + f[2]]
    BY <1>9, <2>1, <2>2
  <2>4. F(f[1]) \in Int /\ f[2] \in Int  BY <1>8, <2>1, <2>2
  <2> QED BY <2>1, <2>2, <2>3, <2>4
<1>11. at \in [Fetched(w) -> 1 .. Len(b.ids)]  BY <1>10
<1>12. ASSUME NEW f \in Fetched(w), NEW g \in Fetched(w), at[f] = at[g] PROVE f = g
  <2> DEFINE p == F(f[1]) + f[2]
  <2>1. p = F(g[1]) + g[2]  BY <1>12
  <2>2. /\ f[1] \in 1 .. Len(tasks) /\ tasks[f[1]].attr = w /\ f[2] \in 1 .. Len(tasks[f[1]].ids)
        /\ p \in 1 .. Len(b.ids) /\ p - F(f[1]) = f[2]
    BY <1>10
  <2>3. /\ g[1] \in 1 .. Len(tasks) /\ tasks[g[1]].attr = w /\ g[2] \in 1 .. Len(tasks[g[1]].ids)
        /\ p - F(g[1]) = g[2]
    BY <1>10, <2>1
  <2> DEFINE t == f[1]  u == g[1]
  <2>4. /\ t \in 1 .. Len(tasks) /\ tasks[t].attr = w /\ p - F(t) \in 1 .. Len(tasks[t].ids)
        /\ u \in 1 .. Len(tasks) /\ tasks[u].attr = w /\ p - F(u) \in 1 .. Len(tasks[u].ids)
        /\ p \in 1 .. Len(b.ids)
    BY <2>2, <2>3
  <2> HIDE DEF p, t, u
  <2>5. t = u  BY <1>9, <2>4
  <2>6. f[1] = g[1]  BY <2>5 DEF t, u
  <2>7. f[2] = g[2]  BY <2>2, <2>3, <2>6
  <2> QED BY <1>7, <2>6, <2>7
<1>13. ASSUME NEW p \in 1 .. Len(b.ids) PROVE \E f \in Fetched(w) : at[f] = p
  <2>1. PICK t \in 1 .. Len(tasks) : tasks[t].attr = w /\ p - F(t) \in 1 .. Len(tasks[t].ids)
    BY <1>9
  <2> DEFINE f == <<t, p - F(t)>>
  <2>2. f \in Fetched(w)
    <3>1. DOMAIN tasks[t].ids = 1 .. Len(tasks[t].ids)  BY <1>9, <2>1
    <3> QED BY <1>6, <2>1, <3>1
  <2>3. F(t) + (p - F(t)) = p  BY <1>8
  <2>4. at[f] = p  BY <2>2, <2>3
  <2> QED BY <2>2, <2>4
<1>14. \A f \in Fetched(w) : tasks[f[1]].ids[f[2]] = b.ids[at[f]]
  BY <1>10
<1> HIDE DEF at
<1>15. FetchedAt(at, w, b)  BY <1>11, <1>12, <1>13, <1>14 DEF FetchedAt
<1> QED BY <1>15 DEF w, b

\* The fragments of an output that a query needs.
NeededIds(o) ==
    IF Query.function = "slice"
      THEN {id \in FragmentIds(o.cube, o.shape) : id[Query.dim] = Plane(o) \div o.shape[Query.dim]}
      ELSE {id \in FragmentIds(o.cube, o.shape) : InColumn(o, id) # {}}
IdOf(x) == IF Query.function = "slice" THEN x ELSE x.id

\* ids lists what an output needs, each once.
ListsNeeded(ids, o) ==
    /\ \A p \in 1 .. Len(ids) : IdOf(ids[p]) \in NeededIds(o)
    /\ \A p, q \in 1 .. Len(ids) : IdOf(ids[p]) = IdOf(ids[q]) => p = q
    /\ \A id \in NeededIds(o) : \E p \in 1 .. Len(ids) : IdOf(ids[p]) = id

\* The fragments listed in an output are those that are needed, each once.
LEMMA IdsAreNeeded ==
    ASSUME PlannerInv, stage = "planned", NEW k \in 1 .. Len(Wanted)
    PROVE  /\ \A p \in 1 .. Len(outputs[k].ids) :
                 IdOf(outputs[k].ids[p]) \in NeededIds(Output(Wanted[k]))
           /\ \A p, q \in 1 .. Len(outputs[k].ids) :
                 IdOf(outputs[k].ids[p]) = IdOf(outputs[k].ids[q]) => p = q
           /\ \A id \in NeededIds(Output(Wanted[k])) :
                 \E p \in 1 .. Len(outputs[k].ids) : IdOf(outputs[k].ids[p]) = id
<1> DEFINE o == Output(Wanted[k])  b == outputs[k]
<1>1. /\ OutputsOf(outputs) /\ Query.function \in {"slice", "curtain"}
      /\ args \in [attributes : Seq(AttributeNames), idx : Nat, coords : Seq(Nat \X Nat)]
  BY PlanIs
<1>2. /\ Boxed(o)
      /\ Query.function = "slice" => SliceOf(b, o)
      /\ Query.function = "curtain" => CurtainOf(b, o)
  BY <1>1 DEF OutputsOf
<1> HIDE DEF o, b
<1> SUFFICES ListsNeeded(b.ids, o)
  BY DEF ListsNeeded, o, b
<1>3. CASE Query.function = "slice"
  <2>1. Enumerates(b.ids, NeededIds(o))
    BY <1>2, <1>3 DEF SliceOf, NeededIds
  <2>2. /\ b.ids \in Seq(NeededIds(o))
        /\ \A x \in NeededIds(o) : \E i \in 1 .. Len(b.ids) : b.ids[i] = x
        /\ \A i, j \in 1 .. Len(b.ids) : b.ids[i] = b.ids[j] => i = j
    BY <2>1 DEF Enumerates
  <2>3. \A p \in 1 .. Len(b.ids) : b.ids[p] \in NeededIds(o)
    BY <2>2, ElementOfSeq
  <2>4. \A x : IdOf(x) = x  BY <1>3 DEF IdOf
  <2>5. ListsNeeded(b.ids, o)
    <3>1. \A p \in 1 .. Len(b.ids) : IdOf(b.ids[p]) \in NeededIds(o)
      BY <2>3, <2>4
    <3>2. \A p, q \in 1 .. Len(b.ids) : IdOf(b.ids[p]) = IdOf(b.ids[q]) => p = q
      BY <2>2, <2>4
    <3>3. \A id \in NeededIds(o) : \E p \in 1 .. Len(b.ids) : IdOf(b.ids[p]) = id
      BY <2>2, <2>4
    <3> QED BY <3>1, <3>2, <3>3 DEF ListsNeeded
  <2> QED BY <2>5
<1>4. CASE Query.function = "curtain"
  <2> DEFINE c == ColumnIds(o)
  <2>1. args.coords \in Seq(Nat \X Nat)  BY <1>1
  <2>2. NeededIds(o) = {id \in FragmentIds(o.cube, o.shape) : InColumn(o, id) # {}}
    BY <1>4 DEF NeededIds
  <2>3. Enumerates(c, NeededIds(o))  BY <1>2, <2>1, <2>2, ColumnIdsAre
  <2>4. /\ c \in Seq(NeededIds(o))
        /\ \A x \in NeededIds(o) : \E i \in 1 .. Len(c) : c[i] = x
        /\ \A i, j \in 1 .. Len(c) : c[i] = c[j] => i = j
    BY <2>3 DEF Enumerates
  <2>5. \A p \in 1 .. Len(c) : c[p] \in NeededIds(o)
    BY <2>4, ElementOfSeq
  <2>6. Len(b.ids) = Len(c) /\ \A p \in 1 .. Len(c) : b.ids[p] = Single(o, c[p])
    BY <1>2, <1>4 DEF CurtainOf
  <2>7. \A id \in NeededIds(o) : Single(o, id).id = id
    BY <1>2, <2>1, <2>2, SingleIs
  <2> HIDE DEF c
  <2>8. \A p \in 1 .. Len(c) : b.ids[p].id = c[p]  BY <2>5, <2>6, <2>7
  <2>9. \A x : IdOf(x) = x.id  BY <1>4 DEF IdOf
  <2>10. \A p \in 1 .. Len(b.ids) : IdOf(b.ids[p]) = c[p]
    BY <2>6, <2>8, <2>9
  <2>11. ListsNeeded(b.ids, o)
    <3>1. \A p \in 1 .. Len(b.ids) : IdOf(b.ids[p]) \in NeededIds(o)
      BY <2>4, <2>5, <2>6, <2>10
    <3>2. \A p, q \in 1 .. Len(b.ids) : IdOf(b.ids[p]) = IdOf(b.ids[q]) => p = q
      BY <2>4, <2>5, <2>6, <2>10
    <3>3. \A id \in NeededIds(o) : \E p \in 1 .. Len(b.ids) : IdOf(b.ids[p]) = id
      BY <2>4, <2>5, <2>6, <2>10
    <3> QED BY <3>1, <3>2, <3>3 DEF ListsNeeded
  <2> QED BY <2>11
<1> QED BY <1>1, <1>3, <1>4

\* The points of a cube are triples.
LEMMA BoxOfTuples ==
    ASSUME NEW c \in ShapesOver(1 .. 3)
    PROVE  /\ (0 .. c[1] - 1) \X (0 .. c[2] - 1) \X (0 .. c[3] - 1) = CubePoints(c)
           /\ \A g \in CubePoints(c) : SubSeq(g, 1, 2) = <<g[1], g[2]>> /\ g \in [1 .. 3 -> Nat]
<1>1. c \in [1 .. 3 -> Nat \ {0}] /\ DOMAIN c = 1 .. 3  BY DEF ShapesOver
<1>2. \A g : g \in CubePoints(c) <=> g \in [1 .. 3 -> Nat] /\ g[1] < c[1] /\ g[2] < c[2] /\ g[3] < c[3]
  BY <1>1 DEF CubePoints
<1>3. \A g \in [1 .. 3 -> Nat] : g = <<g[1], g[2], g[3]>> /\ SubSeq(g, 1, 2) = <<g[1], g[2]>>
  BY ShortSequences
<1>4. ASSUME NEW g \in CubePoints(c)
      PROVE  g \in (0 .. c[1] - 1) \X (0 .. c[2] - 1) \X (0 .. c[3] - 1)
  <2>1. g \in [1 .. 3 -> Nat] /\ g[1] < c[1] /\ g[2] < c[2] /\ g[3] < c[3]
    BY <1>2
  <2>2. g[1] \in 0 .. c[1] - 1 /\ g[2] \in 0 .. c[2] - 1 /\ g[3] \in 0 .. c[3] - 1
    BY <1>1, <2>1
  <2> QED BY <1>3, <2>1, <2>2
<1>5. ASSUME NEW x \in 0 .. c[1] - 1, NEW y \in 0 .. c[2] - 1, NEW z \in 0 .. c[3] - 1
      PROVE  <<x, y, z>> \in CubePoints(c)
  <2>1. <<x, y, z>> \in [1 .. 3 -> Nat]  BY <1>1
  <2>2. x < c[1] /\ y < c[2] /\ z < c[3]  BY <1>1
  <2> QED BY <1>2, <2>1, <2>2
<1>6. (0 .. c[1] - 1) \X (0 .. c[2] - 1) \X (0 .. c[3] - 1) \subseteq CubePoints(c)
  <2>1. ASSUME NEW g \in (0 .. c[1] - 1) \X (0 .. c[2] - 1) \X (0 .. c[3] - 1)
        PROVE  g \in CubePoints(c)
    <3>1. PICK x \in 0 .. c[1] - 1, y \in 0 .. c[2] - 1, z \in 0 .. c[3] - 1 : g = <<x, y, z>>
      OBVIOUS
    <3> QED BY <1>5, <3>1
  <2> QED BY <2>1
<1> QED BY <1>2, <1>3, <1>4, <1>6

\* A fragment starts inside the cube.
LEMMA FragmentStarts ==
    ASSUME NEW c \in Nat \ {0}, NEW f \in Nat \ {0}, NEW i \in 0 .. ((c + (f - 1)) \div f) - 1
    PROVE  i * f \in 0 .. c - 1 /\ (i * f) \div f = i
<1> DEFINE n == (c + (f - 1)) \div f
<1>1. n \in Nat \ {0} /\ (n - 1) * f < c  BY CeilingDivision
<1>2. i \in 0 .. n - 1  OBVIOUS
<1> HIDE DEF n
<1>3. i \in Nat /\ i <= n - 1  BY <1>1, <1>2
<1>4. i * f \in Nat /\ (n - 1) * f \in Nat /\ i * f <= (n - 1) * f
  <2> DEFINE e == (n - 1) - i
  <2>1. e \in Nat /\ n - 1 = i + e  BY <1>1, <1>3
  <2>2. i * f \in Nat /\ e * f \in Nat  BY <1>3, <2>1
  <2>3. (i + e) * f = (i * f) + (e * f)  BY <1>3, <2>1
  <2> HIDE DEF e
  <2> QED BY <2>1, <2>2, <2>3
<1>5. ((i * f) + 0) \div f = i  BY <1>3, DivideUnique
<1> QED BY <1>1, <1>4, <1>5

\* The fragments that hold what was asked for.
Hits(o) == IF Query.function = "slice"
             THEN {g \in CubePoints(o.cube) : g[Query.dim] = Plane(o)}
             ELSE {g \in CubePoints(o.cube) : SubSeq(g, 1, 2) \in Range(args.coords)}

\* The fragment of a point of the cube is a fragment of the cube.
LEMMA HitsAreInside ==
    ASSUME NEW o, Boxed(o), NEW g \in CubePoints(o.cube)
    PROVE  /\ FragId(o.shape, g) \in FragmentIds(o.cube, o.shape)
           /\ g \in [1 .. 3 -> Nat]
           /\ FragId(o.shape, g) \in [1 .. 3 -> Nat]
           /\ \A d \in 1 .. 3 : FragId(o.shape, g)[d] = g[d] \div o.shape[d]
<1>1. o.cube \in ShapesOver(1 .. 3) /\ o.shape \in ShapesOver(1 .. 3)
  BY DEF Boxed
<1>2. FragId(o.shape, g) \in FragmentIds(o.cube, o.shape)
  BY <1>1, PointHasOnePlace
<1>3. DOMAIN o.cube = 1 .. 3  BY <1>1 DEF ShapesOver
<1>4. g \in [1 .. 3 -> Nat] /\ FragId(o.shape, g) \in [1 .. 3 -> Nat]
  BY <1>2, <1>3 DEF CubePoints, FragmentIds
<1>5. \A d \in 1 .. 3 : FragId(o.shape, g)[d] = g[d] \div o.shape[d]
  BY <1>4 DEF FragId
<1> QED BY <1>2, <1>4, <1>5

\* A fragment of the cube starts inside the cube.
LEMMA FragmentHasStart ==
    ASSUME NEW o, Boxed(o), NEW id \in FragmentIds(o.cube, o.shape), NEW d \in 1 .. 3
    PROVE  /\ id[d] \in Nat /\ id[d] * o.shape[d] \in Nat /\ id[d] * o.shape[d] < o.cube[d]
           /\ (id[d] * o.shape[d]) \div o.shape[d] = id[d]
<1>1. o.cube \in [1 .. 3 -> Nat \ {0}] /\ o.shape \in [1 .. 3 -> Nat \ {0}]
  BY DEF Boxed, ShapesOver
<1>2. id \in [1 .. 3 -> Nat] /\ id[d] < FragmentCount(o.cube, o.shape, d)
  BY <1>1 DEF FragmentIds
<1> DEFINE c == o.cube[d]  f == o.shape[d]  i == id[d]
<1>3. c \in Nat \ {0} /\ f \in Nat \ {0} /\ i \in Nat /\ i < (c + (f - 1)) \div f
  BY <1>1, <1>2 DEF FragmentCount
<1> HIDE DEF c, f, i
<1>4. (c + (f - 1)) \div f \in Nat  BY <1>3, CeilingDivision
<1>5. i \in 0 .. ((c + (f - 1)) \div f) - 1  BY <1>3, <1>4
<1>6. i * f \in 0 .. c - 1 /\ (i * f) \div f = i
  BY <1>3, <1>5, FragmentStarts
<1>7. i * f \in Nat /\ i * f < c  BY <1>3, <1>6
<1> QED BY <1>3, <1>6, <1>7 DEF c, f, i

\* A point is in the fragment that its coordinates are divided into.
LEMMA FragmentOfPoint ==
    ASSUME NEW o, Boxed(o), NEW id \in FragmentIds(o.cube, o.shape), NEW g \in CubePoints(o.cube),
           \A d \in 1 .. 3 : g[d] \div o.shape[d] = id[d]
    PROVE  FragId(o.shape, g) = id
<1>1. o.cube \in ShapesOver(1 .. 3)  BY DEF Boxed
<1>2. id \in [1 .. 3 -> Nat]  BY <1>1 DEF FragmentIds, ShapesOver
<1>3. FragId(o.shape, g) \in [1 .. 3 -> Nat]
      /\ \A d \in 1 .. 3 : FragId(o.shape, g)[d] = g[d] \div o.shape[d]
  BY HitsAreInside
<1> QED BY <1>2, <1>3

\* The fragments with a sample on the plane are those that a slice needs.
LEMMA SliceHits ==
    ASSUME Query.function = "slice", NEW o, Boxed(o), Query.dim \in 1 .. 3, args.idx \in Nat
    PROVE  {FragId(o.shape, g) : g \in Hits(o)} = NeededIds(o)
<1> DEFINE e == Query.dim
<1>1. o.cube \in ShapesOver(1 .. 3) /\ DOMAIN o.cube = 1 .. 3
  BY DEF Boxed, ShapesOver
<1>2. Plane(o) \in 0 .. o.cube[e] - 1  BY PlaneIs
<1>3. ASSUME NEW g \in Hits(o) PROVE FragId(o.shape, g) \in NeededIds(o)
  <2>1. g \in CubePoints(o.cube) /\ g[e] = Plane(o)  BY DEF Hits
  <2>2. /\ FragId(o.shape, g) \in FragmentIds(o.cube, o.shape)
        /\ FragId(o.shape, g)[e] = g[e] \div o.shape[e]
    BY <2>1, HitsAreInside
  <2> QED BY <2>1, <2>2 DEF NeededIds
<1>4. ASSUME NEW id \in NeededIds(o) PROVE \E g \in Hits(o) : FragId(o.shape, g) = id
  <2> DEFINE g == [d \in 1 .. 3 |-> IF d = e THEN Plane(o) ELSE id[d] * o.shape[d]]
  <2>1. id \in FragmentIds(o.cube, o.shape) /\ id[e] = Plane(o) \div o.shape[e]
    BY DEF NeededIds
  <2>2. \A d \in 1 .. 3 : /\ id[d] * o.shape[d] \in Nat /\ id[d] * o.shape[d] < o.cube[d]
                          /\ (id[d] * o.shape[d]) \div o.shape[d] = id[d]
    BY <2>1, FragmentHasStart
  <2>3. Plane(o) \in Nat /\ Plane(o) < o.cube[e]
    BY <1>1, <1>2 DEF ShapesOver
  <2>4. \A d \in 1 .. 3 : g[d] \in Nat /\ g[d] < o.cube[d] /\ g[d] \div o.shape[d] = id[d]
    BY <2>1, <2>2, <2>3
  <2>5. g \in CubePoints(o.cube)
    <3>1. g \in [1 .. 3 -> Nat]  BY <2>4
    <3> HIDE DEF g
    <3> QED BY <1>1, <2>4, <3>1 DEF CubePoints
  <2>6. g[e] = Plane(o)  OBVIOUS
  <2> HIDE DEF g
  <2>7. FragId(o.shape, g) = id  BY <2>1, <2>4, <2>5, FragmentOfPoint
  <2> QED BY <2>5, <2>6, <2>7 DEF Hits
<1> QED BY <1>3, <1>4

\* The fragments with a sample on a trace are those that a curtain needs.
LEMMA CurtainHits ==
    ASSUME Query.function = "curtain", NEW o, Boxed(o), TraceInside(o), args.coords \in Seq(Nat \X Nat)
    PROVE  {FragId(o.shape, g) : g \in Hits(o)} = NeededIds(o)
<1>1. /\ o.cube \in ShapesOver(1 .. 3) /\ DOMAIN o.cube = 1 .. 3 /\ o.shape \in ShapesOver(1 .. 3)
  BY DEF Boxed, ShapesOver
<1>2. \A k \in DOMAIN args.coords :
          args.coords[k] \in Nat \X Nat /\ args.coords[k] = <<args.coords[k][1], args.coords[k][2]>>
  <2>1. \A k \in DOMAIN args.coords : args.coords[k] \in Nat \X Nat
    BY ElementOfSeq
  <2> QED BY <2>1
<1>3. \A g \in CubePoints(o.cube) : SubSeq(g, 1, 2) = <<g[1], g[2]>> /\ g \in [1 .. 3 -> Nat]
  BY <1>1, BoxOfTuples
<1>4. \A k \in DOMAIN args.coords :
          /\ FragId(o.shape, Top(args.coords[k]))
                = <<args.coords[k][1] \div o.shape[1], args.coords[k][2] \div o.shape[2], 0>>
          /\ Top(FragId(o.shape, Top(args.coords[k]))) = FragId(o.shape, Top(args.coords[k]))
  BY <1>1, <1>2, ColumnIs DEF Column
<1>5. \A id, k : k \in InColumn(o, id) <=>
          /\ k \in DOMAIN args.coords
          /\ id[1] = args.coords[k][1] \div o.shape[1]
          /\ id[2] = args.coords[k][2] \div o.shape[2]
  <2> TAKE id, k
  <2>1. CASE k \in DOMAIN args.coords
    <3>1. k \in InColumn(o, id) <=> FragId(o.shape, Top(args.coords[k])) = <<id[1], id[2], 0>>
      BY <1>4, <2>1 DEF InColumn, Top
    <3> QED BY <1>4, <2>1, <3>1
  <2> QED BY <2>1 DEF InColumn
<1>6. ASSUME NEW g \in Hits(o) PROVE FragId(o.shape, g) \in NeededIds(o)
  <2>1. g \in CubePoints(o.cube) /\ SubSeq(g, 1, 2) \in Range(args.coords)
    BY DEF Hits
  <2>2. PICK k \in DOMAIN args.coords : args.coords[k] = <<g[1], g[2]>>
    BY <1>3, <2>1 DEF Range
  <2>3. /\ FragId(o.shape, g) \in FragmentIds(o.cube, o.shape)
        /\ FragId(o.shape, g)[1] = g[1] \div o.shape[1]
        /\ FragId(o.shape, g)[2] = g[2] \div o.shape[2]
    BY <2>1, HitsAreInside
  <2>4. k \in InColumn(o, FragId(o.shape, g))
    <3>1. args.coords[k][1] = g[1] /\ args.coords[k][2] = g[2]  BY <2>2
    <3> QED BY <1>5, <2>3, <3>1
  <2> QED BY <2>3, <2>4 DEF NeededIds
<1>7. ASSUME NEW id \in NeededIds(o) PROVE \E g \in Hits(o) : FragId(o.shape, g) = id
  <2>1. id \in FragmentIds(o.cube, o.shape) /\ InColumn(o, id) # {}
    BY DEF NeededIds
  <2>2. PICK k \in InColumn(o, id) : TRUE  BY <2>1
  <2> DEFINE x == args.coords[k][1]  y == args.coords[k][2]  z == id[3] * o.shape[3]  g == <<x, y, z>>
  <2>3. k \in DOMAIN args.coords /\ id[1] = x \div o.shape[1] /\ id[2] = y \div o.shape[2]
    BY <1>5, <2>2
  <2>4. x \in Nat /\ y \in Nat /\ x \in 0 .. o.cube[1] - 1 /\ y \in 0 .. o.cube[2] - 1
    BY <1>2, <2>3 DEF TraceInside
  <2>5. z \in Nat /\ z < o.cube[3] /\ z \div o.shape[3] = id[3]
    BY <2>1, FragmentHasStart
  <2>6. args.coords[k] = <<x, y>>  BY <1>2, <2>3
  <2> HIDE DEF x, y, z
  <2>7. x < o.cube[1] /\ y < o.cube[2]  BY <1>1, <2>4 DEF ShapesOver
  <2>8. g \in [1 .. 3 -> Nat] /\ g[1] = x /\ g[2] = y /\ g[3] = z
    BY <2>4, <2>5
  <2> HIDE DEF g
  <2>9. \A d \in 1 .. 3 : g[d] < o.cube[d] /\ g[d] \div o.shape[d] = id[d]
    BY <2>3, <2>5, <2>7, <2>8
  <2>10. g \in CubePoints(o.cube)  BY <1>1, <2>8, <2>9 DEF CubePoints
  <2>11. FragId(o.shape, g) = id  BY <2>1, <2>9, <2>10, FragmentOfPoint
  <2>12. SubSeq(g, 1, 2) \in Range(args.coords)
    BY <1>3, <2>3, <2>6, <2>8, <2>10 DEF Range
  <2> QED BY <2>10, <2>11, <2>12 DEF Hits
<1> QED BY <1>6, <1>7

\* The fragments that are fetched for an output are those with a sample of the result, each
\* once (messages.cpp 404-408, plan.cpp 434-463).
LEMMA PlannerInvFetchesExactly == PlannerInv => FetchesAreExact
<1> SUFFICES ASSUME PlannerInv, stage = "planned", NEW w \in Range(Wanted)
             PROVE
        LET o    == Output(w)
            fetched == Fetched(w)
            id(f) == IF Query.function = "slice" THEN tasks[f[1]].ids[f[2]]
                                                 ELSE tasks[f[1]].ids[f[2]].id
            box  == (0 .. o.cube[1] - 1) \X (0 .. o.cube[2] - 1) \X (0 .. o.cube[3] - 1)
            hit  == IF Query.function = "slice"
                      THEN {g \in box : g[Query.dim] = args.idx % o.cube[Query.dim]}
                      ELSE {g \in box : SubSeq(g, 1, 2) \in Range(args.coords)}
        IN  /\ \A f, g \in fetched : id(f) = id(g) => f = g
            /\ {id(f) : f \in fetched} = {FragId(o.shape, g) : g \in hit}
  BY DEF FetchesAreExact, Fetched
<1> DEFINE o == Output(w)
           id(f) == IF Query.function = "slice" THEN tasks[f[1]].ids[f[2]]
                                                ELSE tasks[f[1]].ids[f[2]].id
           box  == (0 .. o.cube[1] - 1) \X (0 .. o.cube[2] - 1) \X (0 .. o.cube[3] - 1)
           hit  == IF Query.function = "slice"
                     THEN {g \in box : g[Query.dim] = args.idx % o.cube[Query.dim]}
                     ELSE {g \in box : SubSeq(g, 1, 2) \in Range(args.coords)}
<1>1. /\ OutputsOf(outputs) /\ Query.function \in {"slice", "curtain"} /\ job \in Jobs /\ Unpacked
      /\ args \in [attributes : Seq(AttributeNames), idx : Nat, coords : Seq(Nat \X Nat)]
      /\ args.attributes = Normalized(Query.attributes)
  BY PlanIs
<1>2. args.idx \in Nat /\ args.coords \in Seq(Nat \X Nat)  BY <1>1
<1>3. PICK k \in 1 .. Len(Wanted) : w = Wanted[k]
  <2>1. DOMAIN Wanted = 1 .. Len(Wanted)  BY <1>1, WantedIs
  <2> QED BY <2>1 DEF Range
<1>4. /\ Boxed(o)
      /\ Query.function = "curtain" => TraceInside(o)
  BY <1>1, <1>3 DEF OutputsOf
<1>5. PICK at : FetchedAt(at, w, outputs[k])  BY <1>3, FetchedOnce
<1> DEFINE b == outputs[k]
<1>6. /\ at \in [Fetched(w) -> 1 .. Len(b.ids)]
      /\ \A f, g \in Fetched(w) : at[f] = at[g] => f = g
      /\ \A p \in 1 .. Len(b.ids) : \E f \in Fetched(w) : at[f] = p
      /\ \A f \in Fetched(w) : tasks[f[1]].ids[f[2]] = b.ids[at[f]]
  BY <1>5 DEF FetchedAt
<1>7. /\ \A p \in 1 .. Len(b.ids) : IdOf(b.ids[p]) \in NeededIds(o)
      /\ \A p, q \in 1 .. Len(b.ids) : IdOf(b.ids[p]) = IdOf(b.ids[q]) => p = q
      /\ \A i \in NeededIds(o) : \E p \in 1 .. Len(b.ids) : IdOf(b.ids[p]) = i
  BY <1>3, IdsAreNeeded
<1> HIDE DEF b
<1>8. \A f \in Fetched(w) : at[f] \in 1 .. Len(b.ids) /\ id(f) = IdOf(b.ids[at[f]])
  BY <1>6 DEF IdOf
<1>9. hit = Hits(o)
  <2>1. box = CubePoints(o.cube)  BY <1>4, BoxOfTuples DEF Boxed
  <2> HIDE DEF box, o
  <2> QED BY <2>1 DEF Hits, Plane
<1>10. {FragId(o.shape, g) : g \in Hits(o)} = NeededIds(o)
  <2>1. CASE Query.function = "slice"
    <3>1. Query.dim \in 1 .. 3  BY <1>1, <2>1, UnpackedIs
    <3> HIDE DEF o
    <3> QED BY <1>2, <1>4, <2>1, <3>1, SliceHits
  <2>2. CASE Query.function = "curtain"
    <3> HIDE DEF o
    <3> QED BY <1>2, <1>4, <2>2, CurtainHits
  <2> QED BY <1>1, <2>1, <2>2
<1> HIDE DEF id, hit, o
<1>11. \A f, g \in Fetched(w) : id(f) = id(g) => f = g
  BY <1>6, <1>7, <1>8
<1>12. \A f \in Fetched(w) : id(f) \in NeededIds(o)  BY <1>7, <1>8
<1>13. \A i \in NeededIds(o) : \E f \in Fetched(w) : id(f) = i
  BY <1>6, <1>7, <1>8
<1>14. {id(f) : f \in Fetched(w)} = {FragId(o.shape, g) : g \in hit}
  BY <1>9, <1>10, <1>12, <1>13
<1> QED BY <1>11, <1>14 DEF id, hit, o

\* No fragment is fetched twice for an output, and those that are fetched are exactly those
\* with a sample of the result (messages.cpp 404-408; partition(), plan.cpp 434-463): for
\* cubes and fragments of any shape, any list of traces and any task size.
THEOREM FragmentsFetchedOnce == Spec => []FetchesAreExact
  BY PlannerIsSound, PlannerInvFetchesExactly, PTL

\* What an object holds at a point of its fragment.
Sample(a, c, g) == IF g \in CubePoints(c) THEN <<a, g>> ELSE Pad
ChunkOf(chunk, fs, cs, id, a) ==
    \A l \in CubePoints(fs) :
        chunk[Offset(l, fs)] = Sample(a, cs, ToGlobal(fs, id, l))

\* The output of an attribute that is wanted: its cube and the fragments it is stored in.
LEMMA WantedOutput ==
    ASSUME PlannerInv, stage = "planned", NEW a \in Range(Wanted)
    PROVE  /\ Boxed(Output(a)) /\ Output(a).attr = a /\ a \in AttributeNames
           /\ Output(a).prefix = IF a = "data" THEN Manifest.vol[1].prefix ELSE Attribute(a).prefix
           /\ Output(a).cube = [d \in 1 .. 3 |-> IF d = 3 /\ a # "data" THEN 1 ELSE Len(Lines(d))]
           /\ a # "data" => IsRecorded(a) /\ a \in Range(args.attributes)
<1>1. /\ job \in Jobs /\ Len(Manifest.line_numbers) = 3 /\ HasShapes
      /\ args.attributes = Normalized(Query.attributes)
  BY PlanIs
<1>2. /\ Boxed(Output(a)) /\ Output(a).attr = a
      /\ Output(a).prefix = IF a = "data" THEN Manifest.vol[1].prefix ELSE Attribute(a).prefix
      /\ Output(a).cube = [d \in 1 .. 3 |-> IF d = 3 /\ a # "data" THEN 1 ELSE Len(Lines(d))]
  BY <1>1, OutputIs
<1>3. a \in AttributeNames  BY <1>2 DEF Boxed
<1>4. a # "data" => IsRecorded(a) /\ a \in Range(args.attributes)
  BY <1>1, WantedIs
<1> QED BY <1>2, <1>3, <1>4

\* The attribute of the first description with the prefix of an attribute.
LEMMA TypeOfPrefix ==
    ASSUME job \in Jobs, NEW a, IsRecorded(a)
    PROVE  LET p == Attribute(a).prefix IN
           /\ Manifest.attr[SelectInSeq(Manifest.attr, LAMBDA v : v.prefix = p)].type = a
           /\ Manifest.vol # <<>> => p # Manifest.vol[1].prefix
<1> DEFINE s == Manifest.attr  p == Attribute(a).prefix
           I == {i \in 1 .. Len(s) : s[i].prefix = p}
<1>1. /\ s \in Seq(attributedesc)
      /\ \A v, w \in Range(s) : v.prefix = w.prefix => v.type = w.type
      /\ Manifest.vol # <<>> => \A v \in Range(s) : v.prefix # Manifest.vol[1].prefix
  BY ManifestIs
<1>2. Attribute(a).type = a /\ Attribute(a) \in Range(s)
  BY <1>1, AttributeIs
<1>3. I # {} /\ I \in SUBSET Nat /\ DOMAIN s = 1 .. Len(s)
  <2>1. DOMAIN s = 1 .. Len(s)  BY <1>1
  <2> QED BY <1>2, <2>1 DEF Range
<1>4. SelectInSeq(s, LAMBDA v : v.prefix = p) = Min(I)
  BY <1>3 DEF SelectInSeq
<1>5. Min(I) \in I  BY <1>3, LeastOfSet
<1>6. s[Min(I)] \in Range(s) /\ s[Min(I)].prefix = p
  BY <1>3, <1>5 DEF Range
<1>7. s[Min(I)].type = a  BY <1>1, <1>2, <1>6
<1> QED BY <1>1, <1>2, <1>4, <1>7

\* What an object holds: the samples of its part of the cube, and padding.
LEMMA ChunkIs ==
    ASSUME PlannerInv, stage = "planned", NEW a \in Range(Wanted), NEW name,
           name.prefix = Output(a).prefix, name.shape = Output(a).shape
    PROVE  ChunkOf(Chunk(name), Output(a).shape, Output(a).cube, name.id, a)
<1> DEFINE fs == Output(a).shape  cs == Output(a).cube  id == name.id
           isData == name.prefix = Manifest.vol[1].prefix
           attr == IF isData THEN "data"
                   ELSE Manifest.attr[SelectInSeq(Manifest.attr, LAMBDA v : v.prefix = name.prefix)].type
           cube == IF isData THEN Cube ELSE [Cube EXCEPT ![3] = 1]
<1>1. /\ job \in Jobs /\ HasShapes /\ Len(Manifest.line_numbers) = 3
  BY PlanIs
<1>2. /\ Boxed(Output(a))
      /\ Output(a).prefix = IF a = "data" THEN Manifest.vol[1].prefix ELSE Attribute(a).prefix
      /\ a # "data" => IsRecorded(a)
  BY WantedOutput
<1>3. isData <=> a = "data"
  <2>1. Manifest.vol # <<>>  BY <1>1 DEF HasShapes, HasShape
  <2>2. a # "data" => Attribute(a).prefix # Manifest.vol[1].prefix
    BY <1>1, <1>2, <2>1, TypeOfPrefix
  <2> QED BY <1>2, <2>2
<1>4. attr = a
  <2>1. CASE a = "data"  BY <1>3, <2>1
  <2>2. CASE a # "data"
    <3>1. name.prefix = Attribute(a).prefix  BY <1>2, <2>2
    <3>2. Manifest.attr[SelectInSeq(Manifest.attr, LAMBDA v : v.prefix = Attribute(a).prefix)].type = a
      BY <1>1, <1>2, <2>2, TypeOfPrefix
    <3> QED BY <1>3, <2>2, <3>1, <3>2
  <2> QED BY <2>1, <2>2
<1>5. cube = cs  BY <1>3 DEF Output
<1>6. Chunk(name) = [off \in 0 .. Product(name.shape) - 1 |->
                        LET g == ToGlobal(name.shape, name.id, PointAt(off, name.shape)) IN
                        IF g \in CubePoints(cube) THEN <<attr, g>> ELSE Pad]
  BY DEF Chunk
<1> HIDE DEF attr, cube, isData
<1>7. Chunk(name) = [off \in 0 .. Product(fs) - 1 |-> Sample(a, cs, ToGlobal(fs, id, PointAt(off, fs)))]
  BY <1>4, <1>5, <1>6 DEF Sample
<1>8. fs \in ShapesOver(1 .. 3)  BY <1>2 DEF Boxed
<1> HIDE DEF fs, cs, id
<1>9. \A l \in CubePoints(fs) : Offset(l, fs) \in 0 .. Product(fs) - 1 /\ PointAt(Offset(l, fs), fs) = l
  BY <1>8, BoxOfThree
<1>10. ChunkOf(Chunk(name), fs, cs, id, a)  BY <1>7, <1>9 DEF ChunkOf
<1> QED BY <1>10 DEF fs, cs, id

\* The dimensions of a plane, and its points in three dimensions.
Rows(d) == IF d = 1 THEN 2 ELSE 1
Cols(d) == IF d = 3 THEN 2 ELSE 3
Into(d, x, i, j) == [e \in 1 .. 3 |-> IF e = d THEN x ELSE IF e = Rows(d) THEN i ELSE j]

\* The two dimensions of a plane.
LEMMA RowsAndCols ==
    ASSUME NEW d \in 1 .. 3
    PROVE  /\ Rows(d) \in 1 .. 3 /\ Cols(d) \in 1 .. 3 /\ Rows(d) # d /\ Cols(d) # d /\ Rows(d) # Cols(d)
           /\ \A e \in 1 .. 3 : e = d \/ e = Rows(d) \/ e = Cols(d)
  BY DEF Rows, Cols

\* The points of a plane of a cube are points of the cube.
LEMMA InPlane ==
    ASSUME NEW c \in ShapesOver(1 .. 3), NEW d \in 1 .. 3, NEW x \in 0 .. c[d] - 1,
           NEW i \in 0 .. c[Rows(d)] - 1, NEW j \in 0 .. c[Cols(d)] - 1
    PROVE  Into(d, x, i, j) \in CubePoints(c)
<1>1. c \in [1 .. 3 -> Nat \ {0}] /\ DOMAIN c = 1 .. 3  BY DEF ShapesOver
<1>2. x \in Nat /\ i \in Nat /\ j \in Nat /\ x < c[d] /\ i < c[Rows(d)] /\ j < c[Cols(d)]
  BY <1>1, RowsAndCols
<1>3. /\ Into(d, x, i, j) \in [1 .. 3 -> Nat]
      /\ Into(d, x, i, j)[d] = x /\ Into(d, x, i, j)[Rows(d)] = i /\ Into(d, x, i, j)[Cols(d)] = j
  <2>1. x \in Nat /\ i \in Nat /\ j \in Nat  BY <1>2
  <2> QED BY <2>1, RowsAndCols DEF Into
<1>4. \A e \in 1 .. 3 : Into(d, x, i, j)[e] < c[e]
  BY <1>2, <1>3, RowsAndCols
<1> QED BY <1>1, <1>3, <1>4 DEF CubePoints

InPlaneOf(q, s, d, X) == q \in [1 .. 2 -> X] /\ q[1] = s[Rows(d)] /\ q[2] = s[Cols(d)]

\* What squeeze() leaves are the two dimensions of the plane.
LEMMA SqueezedIs ==
    ASSUME NEW X, NEW s \in [1 .. 3 -> X], NEW d \in 1 .. 3
    PROVE  InPlaneOf(Squeeze(s, d), s, d, X)
<1>1. Squeeze(s, d) = <<s[Rows(d)], s[Cols(d)]>>
  BY Squeezed DEF Rows, Cols
<1>2. s[Rows(d)] \in X /\ s[Cols(d)] \in X  BY RowsAndCols
<1>3. <<s[Rows(d)], s[Cols(d)]>> \in [1 .. 2 -> X]  BY <1>2
<1> QED BY <1>1, <1>3 DEF InPlaneOf

\* The plane x of dimension d of a fragment, row by row.
PlaneStride(from, fs, d) ==
    /\ from.iterations \in Nat /\ from.chunk_size \in Nat
    /\ from.iterations * from.chunk_size = fs[Rows(d)] * fs[Cols(d)]
    /\ \A x \in 0 .. fs[d] - 1, i \in 0 .. fs[Rows(d)] - 1, j \in 0 .. fs[Cols(d)] - 1 :
          LET q == i * fs[Cols(d)] + j
          IN  from.initial_skip * x + (q \div from.substride) * from.superstride
                 + (q % from.substride) = Offset(Into(d, x, i, j), fs)

\* slice_stride() of the first dimension (geometry.impl.hpp 416-447).
LEMMA StrideOfFirst ==
    ASSUME NEW a \in Nat \ {0}, NEW b \in Nat \ {0}, NEW c \in Nat \ {0},
           NEW x \in 0 .. a - 1, NEW i \in 0 .. b - 1, NEW j \in 0 .. c - 1,
           NEW m, m = b * c, NEW s \in Nat
    PROVE  m * x + ((i * c + j) \div m) * s + ((i * c + j) % m) = (x * b + i) * c + j
<1> DEFINE q == i * c + j
<1>1. m \in Nat \ {0} /\ q \in 0 .. m - 1  BY InRows
<1>2. q % m = q  BY <1>1, RemainderBelow
<1>3. q \div m = 0
  <2>1. q \in Nat  BY MultiplyAdd
  <2> HIDE DEF q
  <2>2. q \in Nat /\ q \div m \in Nat /\ q = ((q \div m) * m) + (q % m)
    BY <1>1, <2>1, QuotientRemainder
  <2> DEFINE z == q \div m
  <2>3. z * m = 0
    <3>1. z * m \in Nat  BY <1>1, <2>2
    <3> QED BY <1>2, <2>2, <3>1 DEF z
  <2>4. z \in Nat  BY <2>2
  <2> HIDE DEF z
  <2>5. z = 0  BY <1>1, <2>4, <2>3
  <2> QED BY <2>5 DEF z
<1>4. 0 * s = 0  OBVIOUS
<1>5. (b * c) * x + 0 + (i * c + j) = (x * b + i) * c + j
  <2>1. (x * b + i) * c = x * b * c + i * c  OBVIOUS
  <2>2. (b * c) * x = x * b * c  OBVIOUS
  <2>3. x * b * c \in Nat /\ i * c \in Nat  OBVIOUS
  <2> QED BY <2>1, <2>2, <2>3
<1> QED BY <1>2, <1>3, <1>4, <1>5 DEF q

\* slice_stride() of the second dimension.
LEMMA StrideOfSecond ==
    ASSUME NEW a \in Nat \ {0}, NEW b \in Nat \ {0}, NEW c \in Nat \ {0},
           NEW x \in 0 .. b - 1, NEW i \in 0 .. a - 1, NEW j \in 0 .. c - 1
    PROVE  c * x + ((i * c + j) \div c) * (b * c) + ((i * c + j) % c) = (i * b + x) * c + j
<1>1. (i * c + j) \div c = i /\ (i * c + j) % c = j  BY InRows
<1>2. c * x + i * (b * c) + j = (i * b + x) * c + j
  <2>1. (i * b + x) * c = i * (b * c) + c * x  OBVIOUS
  <2>2. i * (b * c) \in Nat /\ c * x \in Nat  OBVIOUS
  <2> QED BY <2>1, <2>2
<1> QED BY <1>1, <1>2

\* slice_stride() of the third dimension.
LEMMA StrideOfThird ==
    ASSUME NEW a \in Nat \ {0}, NEW b \in Nat \ {0}, NEW c \in Nat \ {0},
           NEW x \in 0 .. c - 1, NEW i \in 0 .. a - 1, NEW j \in 0 .. b - 1
    PROVE  1 * x + ((i * b + j) \div 1) * c + ((i * b + j) % 1) = (i * b + j) * c + x
<1> DEFINE q == i * b + j
<1>1. q \in Nat  BY MultiplyAdd
<1> HIDE DEF q
<1>2. q \div 1 = q /\ q % 1 = 0 /\ q * c \in Nat  BY <1>1
<1>3. 1 * x + q * c + 0 = q * c + x  BY <1>2
<1> QED BY <1>2, <1>3 DEF q

\* Where slice_stride() takes the plane of a fragment from.
LEMMA SliceStrideIs ==
    ASSUME NEW fs \in ShapesOver(1 .. 3), NEW d \in 1 .. 3
    PROVE  PlaneStride(SliceStride(fs, d), fs, d)
<1> DEFINE a == fs[1]  b == fs[2]  c == fs[3]  from == SliceStride(fs, d)
<1>1. fs \in [1 .. 3 -> Nat \ {0}] /\ fs \in [1 .. 3 -> Nat]
      /\ a \in Nat \ {0} /\ b \in Nat \ {0} /\ c \in Nat \ {0}
  BY DEF ShapesOver
<1>2. /\ Len(fs) = 3 /\ SubSeq(fs, 1, 0) = <<>> /\ SubSeq(fs, 4, 3) = <<>>
      /\ SubSeq(fs, 1, 1) = <<a>> /\ SubSeq(fs, 3, 3) = <<c>>
      /\ SubSeq(fs, 1, 2) = <<a, b>> /\ SubSeq(fs, 2, 3) = <<b, c>>
      /\ SubSeq(fs, 1, 3) = <<a, b, c>>
  BY <1>1, ShortSequences
<1>3. /\ Product(<<>>) = 1 /\ Product(<<a>>) = a /\ Product(<<c>>) = c
      /\ Product(<<a, b>>) = a * b /\ Product(<<b, c>>) = b * c
      /\ Product(<<a, b, c>>) = (a * b) * c
  <2>1. /\ <<a, b>> \in [1 .. 2 -> Nat] /\ <<b, c>> \in [1 .. 2 -> Nat] /\ <<a, b, c>> \in [1 .. 3 -> Nat]
        /\ <<a, b>>[1] = a /\ <<a, b>>[2] = b /\ <<b, c>>[1] = b /\ <<b, c>>[2] = c
        /\ <<a, b, c>>[1] = a /\ <<a, b, c>>[2] = b /\ <<a, b, c>>[3] = c
    BY <1>1
  <2> HIDE DEF a, b, c
  <2>2. Product(<<a, b>>) = <<a, b>>[1] * <<a, b>>[2] /\ Product(<<b, c>>) = <<b, c>>[1] * <<b, c>>[2]
    BY <2>1, ProductOfTwo
  <2>3. Product(<<a, b, c>>) = (<<a, b, c>>[1] * <<a, b, c>>[2]) * <<a, b, c>>[3]
    BY <2>1, ProductOfThree
  <2> QED BY <1>1, <2>1, <2>2, <2>3, ProductOfNoneAndOne
<1>4. \A p \in [1 .. 3 -> Nat] : Offset(p, fs) = (p[1] * b + p[2]) * c + p[3]
  BY <1>1, OffsetOfThree
<1>5. a * b \in Nat /\ b * c \in Nat  BY <1>1
<1>6. ASSUME NEW x \in Nat, NEW i \in Nat, NEW j \in Nat
      PROVE  LET p == Into(d, x, i, j)
             IN  Offset(p, fs) = IF d = 1 THEN (x * b + i) * c + j
                                 ELSE IF d = 2 THEN (i * b + x) * c + j ELSE (i * b + j) * c + x
  <2> DEFINE p == Into(d, x, i, j)
  <2>1. /\ p \in [1 .. 3 -> Nat]
        /\ p[1] = (IF d = 1 THEN x ELSE i)
        /\ p[2] = (IF d = 1 THEN i ELSE IF d = 2 THEN x ELSE j)
        /\ p[3] = (IF d = 3 THEN x ELSE j)
    BY DEF Into, Rows
  <2> HIDE DEF p
  <2>2. Offset(p, fs) = (p[1] * b + p[2]) * c + p[3]  BY <1>4, <2>1
  <2>3. CASE d = 1  BY <2>1, <2>2, <2>3 DEF p
  <2>4. CASE d = 2  BY <2>1, <2>2, <2>4 DEF p
  <2>5. CASE d = 3  BY <2>1, <2>2, <2>5 DEF p
  <2> QED BY <2>3, <2>4, <2>5
<1>7. CASE d = 1
  <2>1. /\ from.iterations = 1 /\ from.chunk_size = b * c /\ from.initial_skip = b * c
        /\ from.superstride = (a * b) * c /\ from.substride = b * c
    <3>1. d + 1 = 2 /\ d - 1 = 0  BY <1>7
    <3>2. /\ Product(SubSeq(fs, d + 1, Len(fs))) = b * c /\ Product(SubSeq(fs, 1, d - 1)) = 1
          /\ Product(SubSeq(fs, d, Len(fs))) = (a * b) * c
      BY <1>2, <1>3, <1>7, <3>1
    <3>3. from = [iterations |-> 1, chunk_size |-> b * c, initial_skip |-> b * c,
                  superstride |-> (a * b) * c, substride |-> b * c]
      BY <3>2 DEF SliceStride
    <3> HIDE DEF from
    <3> QED BY <3>3
  <2>2. Rows(d) = 2 /\ Cols(d) = 3  BY <1>7 DEF Rows, Cols
  <2>3. 1 * (b * c) = b * c  BY <1>5
  <2> HIDE DEF a, b, c, from
  <2>4. \A x \in 0 .. a - 1, i \in 0 .. b - 1, j \in 0 .. c - 1 :
          from.initial_skip * x + ((i * c + j) \div from.substride) * from.superstride
                 + ((i * c + j) % from.substride) = Offset(Into(d, x, i, j), fs)
    <3>1. TAKE x \in 0 .. a - 1, i \in 0 .. b - 1, j \in 0 .. c - 1
    <3>2. x \in Nat /\ i \in Nat /\ j \in Nat  BY <1>1
    <3>3. Offset(Into(d, x, i, j), fs) = (x * b + i) * c + j
      BY <1>6, <1>7, <3>2
    <3> DEFINE m == from.substride  s == from.superstride
    <3>4. m = b * c /\ s \in Nat /\ from.initial_skip = m
      BY <1>1, <1>5, <2>1
    <3> HIDE DEF m, s
    <3>5. m * x + ((i * c + j) \div m) * s + ((i * c + j) % m) = (x * b + i) * c + j
      BY <1>1, <3>4, StrideOfFirst
    <3> QED BY <3>3, <3>4, <3>5 DEF m, s
  <2> QED BY <1>5, <1>7, <2>1, <2>2, <2>3, <2>4 DEF PlaneStride, a, b, c, from
<1>8. CASE d = 2
  <2>1. /\ from.iterations = a /\ from.chunk_size = c /\ from.initial_skip = c
        /\ from.superstride = b * c /\ from.substride = c
    <3>1. d + 1 = 3 /\ d - 1 = 1  BY <1>8
    <3>2. /\ Product(SubSeq(fs, d + 1, Len(fs))) = c /\ Product(SubSeq(fs, 1, d - 1)) = a
          /\ Product(SubSeq(fs, d, Len(fs))) = b * c
      BY <1>2, <1>3, <1>8, <3>1
    <3>3. from = [iterations |-> a, chunk_size |-> c, initial_skip |-> c,
                  superstride |-> b * c, substride |-> c]
      BY <3>2 DEF SliceStride
    <3> HIDE DEF from
    <3> QED BY <3>3
  <2>2. Rows(d) = 1 /\ Cols(d) = 3  BY <1>8 DEF Rows, Cols
  <2> HIDE DEF a, b, c, from
  <2>3. \A x \in 0 .. b - 1, i \in 0 .. a - 1, j \in 0 .. c - 1 :
          from.initial_skip * x + ((i * c + j) \div from.substride) * from.superstride
                 + ((i * c + j) % from.substride) = Offset(Into(d, x, i, j), fs)
    <3>1. TAKE x \in 0 .. b - 1, i \in 0 .. a - 1, j \in 0 .. c - 1
    <3>2. x \in Nat /\ i \in Nat /\ j \in Nat  BY <1>1
    <3>3. Offset(Into(d, x, i, j), fs) = (i * b + x) * c + j
      BY <1>6, <1>8, <3>2
    <3> QED BY <1>1, <2>1, <3>3, StrideOfSecond
  <2> QED BY <1>1, <1>8, <2>1, <2>2, <2>3 DEF PlaneStride, a, b, c, from
<1>9. CASE d = 3
  <2>1. /\ from.iterations = a * b /\ from.chunk_size = 1 /\ from.initial_skip = 1
        /\ from.superstride = c /\ from.substride = 1
    <3>1. d + 1 = 4 /\ d - 1 = 2  BY <1>9
    <3>2. /\ Product(SubSeq(fs, d + 1, Len(fs))) = 1 /\ Product(SubSeq(fs, 1, d - 1)) = a * b
          /\ Product(SubSeq(fs, d, Len(fs))) = c
      BY <1>2, <1>3, <1>9, <3>1
    <3>3. from = [iterations |-> a * b, chunk_size |-> 1, initial_skip |-> 1,
                  superstride |-> c, substride |-> 1]
      BY <3>2 DEF SliceStride
    <3> HIDE DEF from
    <3> QED BY <3>3
  <2>2. Rows(d) = 1 /\ Cols(d) = 2  BY <1>9 DEF Rows, Cols
  <2>3. (a * b) * 1 = a * b  BY <1>5
  <2> HIDE DEF a, b, c, from
  <2>4. \A x \in 0 .. c - 1, i \in 0 .. a - 1, j \in 0 .. b - 1 :
          from.initial_skip * x + ((i * b + j) \div from.substride) * from.superstride
                 + ((i * b + j) % from.substride) = Offset(Into(d, x, i, j), fs)
    <3>1. TAKE x \in 0 .. c - 1, i \in 0 .. a - 1, j \in 0 .. b - 1
    <3>2. x \in Nat /\ i \in Nat /\ j \in Nat  BY <1>1
    <3>3. Offset(Into(d, x, i, j), fs) = (i * b + j) * c + x
      BY <1>6, <1>9, <3>2
    <3> QED BY <1>1, <2>1, <3>3, StrideOfThird
  <2> QED BY <1>5, <1>9, <2>1, <2>2, <2>3, <2>4 DEF PlaneStride, a, b, c, from
<1> QED BY <1>7, <1>8, <1>9

\* What a fragment has beside its padding, in a dimension.
Real(cs, fs, id, d) == fs[d] - Padding(cs, fs, id, d)

\* padding() leaves what is in the cube, and at least one line of it.
LEMMA RealIs ==
    ASSUME NEW D, NEW cs \in ShapesOver(D), NEW fs \in ShapesOver(D), NEW id \in FragmentIds(cs, fs),
           NEW d \in D
    PROVE  /\ Real(cs, fs, id, d) \in 1 .. fs[d]
           /\ \A i \in 0 .. fs[d] - 1 : (id[d] * fs[d]) + i < cs[d] <=> i < Real(cs, fs, id, d)
<1> DEFINE c == cs[d]  f == fs[d]
<1>1. c \in Nat \ {0} /\ f \in Nat \ {0}  BY DEF ShapesOver
<1>2. c % f \in 0 .. f - 1
  <2> HIDE DEF c, f
  <2> QED BY <1>1, QuotientRemainder
<1>3. \/ Padding(cs, fs, id, d) = 0
      \/ Padding(cs, fs, id, d) = f - (c % f) /\ c % f # 0
  BY DEF Padding
<1>4. Real(cs, fs, id, d) \in 1 .. f
  <2> DEFINE r == c % f  p == Padding(cs, fs, id, d)
  <2>1. r \in 0 .. f - 1 /\ (p = 0 \/ (p = f - r /\ r # 0))
    BY <1>2, <1>3
  <2>2. Real(cs, fs, id, d) = f - p  BY DEF Real
  <2> HIDE DEF r, p, f
  <2> QED BY <1>1, <2>1, <2>2
<1>5. \A i \in 0 .. fs[d] - 1 : (id[d] * fs[d]) + i < cs[d] <=> i < Real(cs, fs, id, d)
  BY PaddingIsOutside DEF Real
<1> QED BY <1>4, <1>5

\* injection_stride(), where a tile goes in a plane (geometry.impl.hpp 98-119).
LEMMA InjectionStrideIs ==
    ASSUME NEW cs \in ShapesOver(1 .. 2), NEW fs \in ShapesOver(1 .. 2), NEW id \in FragmentIds(cs, fs)
    PROVE  InjectionStride(cs, fs, id) =
              [iterations |-> Real(cs, fs, id, 1), chunk_size |-> Real(cs, fs, id, 2),
               initial_skip |-> (id[1] * fs[1]) * cs[2] + id[2] * fs[2],
               superstride |-> cs[2], substride |-> fs[2]]
<1> DEFINE real == [d \in 1 .. 2 |-> fs[d] - Padding(cs, fs, id, d)]
           zero == [d \in 1 .. 2 |-> 0]
           start == ToGlobal(fs, id, zero)
<1>1. /\ cs \in [1 .. 2 -> Nat \ {0}] /\ fs \in [1 .. 2 -> Nat \ {0}] /\ id \in [1 .. 2 -> Nat]
      /\ DOMAIN cs = 1 .. 2 /\ cs \in [1 .. 2 -> Nat]
  BY DEF ShapesOver, FragmentIds
<1>2. Len(cs) = 2  BY <1>1, FunctionIsSequence
<1>3. real[1] = Real(cs, fs, id, 1) /\ real[2] = Real(cs, fs, id, 2) /\ real[1] \in Nat
  <2>1. real[1] = Real(cs, fs, id, 1) /\ real[2] = Real(cs, fs, id, 2)
    BY DEF Real
  <2>2. Real(cs, fs, id, 1) \in 1 .. fs[1]  BY RealIs
  <2> HIDE DEF real
  <2> QED BY <1>1, <2>1, <2>2
<1>4. Product(Front(real)) = real[1]
  <2>1. real \in [1 .. 2 -> Nat]
    <3>1. \A d \in 1 .. 2 : Real(cs, fs, id, d) \in 1 .. fs[d] /\ fs[d] \in Nat
      BY <1>1, RealIs
    <3>2. \A d \in 1 .. 2 : Real(cs, fs, id, d) \in Nat  BY <3>1
    <3> QED BY <3>2 DEF Real
  <2> HIDE DEF real
  <2>2. Len(real) = 2 /\ SubSeq(real, 1, 1) = <<real[1]>>
    BY <2>1, ShorterSequences
  <2>3. Front(real) = <<real[1]>>  BY <2>2 DEF Front
  <2> QED BY <1>3, <2>3, ProductOfNoneAndOne
<1>5. Offset(start, cs) = (id[1] * fs[1]) * cs[2] + id[2] * fs[2]
  <2>1. id[1] * fs[1] \in Nat /\ id[2] * fs[2] \in Nat  BY <1>1
  <2>2. start \in [1 .. 2 -> Nat] /\ start[1] = id[1] * fs[1] /\ start[2] = id[2] * fs[2]
    <3>1. start = [d \in 1 .. 2 |-> id[d] * fs[d] + 0]  BY DEF ToGlobal
    <3>2. \A d \in 1 .. 2 : id[d] * fs[d] \in Nat  BY <1>1
    <3>3. \A d \in 1 .. 2 : id[d] * fs[d] + 0 = id[d] * fs[d]  BY <3>2
    <3>4. start = [d \in 1 .. 2 |-> id[d] * fs[d]]  BY <3>1, <3>3
    <3> HIDE DEF start
    <3> QED BY <3>2, <3>4
  <2> HIDE DEF start
  <2>3. Offset(start, cs) = start[1] * cs[2] + start[2]
    BY <1>1, <2>2, OffsetOfTwo
  <2> QED BY <2>2, <2>3
<1>6. InjectionStride(cs, fs, id) =
          [iterations |-> Product(Front(real)), chunk_size |-> real[2], initial_skip |-> Offset(start, cs),
           superstride |-> cs[2], substride |-> fs[2]]
  BY <1>1, <1>2 DEF InjectionStride
<1> HIDE DEF real, start
<1> QED BY <1>3, <1>4, <1>5, <1>6

\* What one tile writes: the values of its plane row by row, each at its place in the array.
TileWrote(w, v, c2, f2, r1, r2, x0, y0) ==
    /\ \A o \in DOMAIN w : \E i \in 0 .. r1 - 1, j \in 0 .. r2 - 1 : o = (x0 + i) * c2 + (y0 + j)
    /\ \A i \in 0 .. r1 - 1, j \in 0 .. r2 - 1 :
          LET o == (x0 + i) * c2 + (y0 + j) IN o \in DOMAIN w /\ w[o] = v[(i * f2 + j) + 1]

TileFunction(r1, r2, skip, c2, f2, v) ==
    [o \in {i * c2 + skip + j : i \in 0 .. r1 - 1, j \in 0 .. r2 - 1} |->
        v[((o - skip) \div c2) * f2 + ((o - skip) % c2) + 1]]

\* decoder::slice() in terms of the slots it reads.
LEMMA SlotsOfTile ==
    ASSUME NEW slots, NEW r1, NEW r2, NEW skip, NEW c2, NEW f2, NEW v,
           slots[1] = r1, slots[2] = r2, slots[3] = skip, slots[4] = c2, slots[5] = f2, slots[6] = v
    PROVE  TileWrites(slots) = TileFunction(r1, r2, skip, c2, f2, v)
  BY DEF TileWrites, TileFunction

\* decoder::slice() writes each value of a tile at its row and column.
LEMMA TileWritesAre ==
    ASSUME NEW c2 \in Nat \ {0}, NEW f2 \in Nat \ {0}, NEW r1 \in Nat, NEW r2 \in Nat,
           NEW x0 \in Nat, NEW y0 \in Nat, \A j \in 0 .. r2 - 1 : y0 + j < c2, NEW v, NEW slots,
           slots = <<r1, r2, x0 * c2 + y0, c2, f2, v>>
    PROVE  TileWrote(TileWrites(slots), v, c2, f2, r1, r2, x0, y0)
<1> DEFINE skip == x0 * c2 + y0
           At(i, j) == i * c2 + skip + j
           w == TileWrites(slots)
<1>1. skip \in Nat  BY MultiplyAdd
<1>2. \A i \in 0 .. r1 - 1, j \in 0 .. r2 - 1 :
        /\ At(i, j) = (x0 + i) * c2 + (y0 + j)
        /\ At(i, j) - skip = i * c2 + j /\ j \in 0 .. c2 - 1 /\ i \in Nat
  <2>1. TAKE i \in 0 .. r1 - 1, j \in 0 .. r2 - 1
  <2>2. i \in Nat /\ j \in Nat /\ j <= y0 + j /\ y0 + j < c2  OBVIOUS
  <2>3. (x0 + i) * c2 = x0 * c2 + i * c2 /\ x0 * c2 \in Nat /\ i * c2 \in Nat
    BY <2>2
  <2>4. At(i, j) = (x0 + i) * c2 + (y0 + j)  BY <2>2, <2>3
  <2>5. At(i, j) - skip = i * c2 + j
    <3> HIDE DEF skip
    <3> QED BY <1>1, <2>2, <2>3
  <2> QED BY <2>2, <2>4, <2>5
<1>3. \A i \in 0 .. r1 - 1, j \in 0 .. r2 - 1 :
          (At(i, j) - skip) \div c2 = i /\ (At(i, j) - skip) % c2 = j
  <2>1. TAKE i \in 0 .. r1 - 1, j \in 0 .. r2 - 1
  <2>2. At(i, j) - skip = i * c2 + j /\ j \in 0 .. c2 - 1 /\ i \in Nat
    BY <1>2
  <2> HIDE DEF At, skip, w
  <2>3. (i * c2 + j) \div c2 = i /\ (i * c2 + j) % c2 = j
    BY <2>2, DivideUnique
  <2> QED BY <2>2, <2>3
<1>4. /\ DOMAIN w = {At(i, j) : i \in 0 .. r1 - 1, j \in 0 .. r2 - 1}
      /\ \A o \in DOMAIN w : w[o] = v[((o - skip) \div c2) * f2 + ((o - skip) % c2) + 1]
  <2>1. /\ slots[1] = r1 /\ slots[2] = r2 /\ slots[3] = skip
        /\ slots[4] = c2 /\ slots[5] = f2 /\ slots[6] = v
    OBVIOUS
  <2> HIDE DEF skip
  <2>2. w = TileFunction(r1, r2, skip, c2, f2, v)  BY <2>1, SlotsOfTile
  <2> HIDE DEF w
  <2>3. DOMAIN w = {At(i, j) : i \in 0 .. r1 - 1, j \in 0 .. r2 - 1}
    BY <2>2 DEF TileFunction
  <2>4. \A o \in DOMAIN w : w[o] = v[((o - skip) \div c2) * f2 + ((o - skip) % c2) + 1]
    <3> HIDE DEF At
    <3> QED BY <2>2 DEF TileFunction
  <2> QED BY <2>3, <2>4
<1> HIDE DEF skip, At, w
<1>5. ASSUME NEW o \in DOMAIN w
      PROVE  \E i \in 0 .. r1 - 1, j \in 0 .. r2 - 1 : o = (x0 + i) * c2 + (y0 + j)
  <2>1. PICK i \in 0 .. r1 - 1, j \in 0 .. r2 - 1 : o = At(i, j)  BY <1>4
  <2> QED BY <1>2, <2>1
<1>6. ASSUME NEW i \in 0 .. r1 - 1, NEW j \in 0 .. r2 - 1
      PROVE  At(i, j) \in DOMAIN w /\ w[At(i, j)] = v[(i * f2 + j) + 1]
  <2>1. At(i, j) \in {At(x, y) : x \in 0 .. r1 - 1, y \in 0 .. r2 - 1}
    OBVIOUS
  <2>2. w[At(i, j)] = v[((At(i, j) - skip) \div c2) * f2 + ((At(i, j) - skip) % c2) + 1]
    BY <1>4, <2>1
  <2>3. (At(i, j) - skip) \div c2 = i /\ (At(i, j) - skip) % c2 = j
    BY <1>3
  <2> QED BY <1>4, <2>1, <2>2, <2>3
<1>7. \A i \in 0 .. r1 - 1, j \in 0 .. r2 - 1 : At(i, j) = (x0 + i) * c2 + (y0 + j)
  BY <1>2
<1>8. TileWrote(w, v, c2, f2, r1, r2, x0, y0)
  <2>1. ASSUME NEW i \in 0 .. r1 - 1, NEW j \in 0 .. r2 - 1
        PROVE  LET o == (x0 + i) * c2 + (y0 + j) IN o \in DOMAIN w /\ w[o] = v[(i * f2 + j) + 1]
    <3>1. (x0 + i) * c2 + (y0 + j) = At(i, j)  BY <1>7
    <3> QED BY <1>6, <3>1
  <2> QED BY <1>5, <2>1 DEF TileWrote
<1> QED BY <1>8 DEF w

\* What is known of a task: it is a part of the output of its attribute.
TaskOf(t, o) ==
    /\ t.attr = o.attr /\ t.prefix = o.prefix /\ t.shape = o.shape /\ t.cube = o.cube
    /\ DOMAIN t.ids = 1 .. Len(t.ids) /\ Len(t.ids) \in Nat \ {0}
    /\ Query.function = "slice" =>
          /\ t.dim = Query.dim /\ t.idx = Plane(o) % o.shape[Query.dim]
    /\ \A m \in 1 .. Len(t.ids) :
          /\ IdOf(t.ids[m]) \in NeededIds(o)
          /\ Query.function = "curtain" => t.ids[m] = Single(o, IdOf(t.ids[m]))

\* A task is that of an output that is wanted.
LEMMA TasksOfOutputs ==
    ASSUME PlannerInv, stage = "planned", NEW t \in 1 .. Len(tasks)
    PROVE  tasks[t].attr \in Range(Wanted) /\ TaskOf(tasks[t], Output(tasks[t].attr))
<1>1. /\ OutputsOf(outputs) /\ Len(outputs) = Len(Wanted) /\ Len(outputs) \in Nat
      /\ Len(tasks) \in Nat /\ job.task_size \in Nat \ {0}
      /\ args \in [attributes : Seq(AttributeNames), idx : Nat, coords : Seq(Nat \X Nat)]
      /\ \E pre \in [0 .. Len(outputs) -> Nat] : Tasked(tasks, outputs, pre)
  BY PlanIs
<1>2. PICK k \in 1 .. Len(outputs) :
          /\ PartOf(tasks[t], outputs[k])
          /\ DOMAIN tasks[t].ids = 1 .. Len(tasks[t].ids) /\ Len(tasks[t].ids) \in 1 .. job.task_size
          /\ \A m \in 1 .. Len(tasks[t].ids) :
                \E p \in 1 .. Len(outputs[k].ids) : tasks[t].ids[m] = outputs[k].ids[p]
  <2>1. PICK pre \in [0 .. Len(outputs) -> Nat] : Tasked(tasks, outputs, pre)
    BY <1>1
  <2>2. ArePartsOf(tasks, outputs)  BY <1>1, <2>1, TaskIsPart
  <2> QED BY <2>2 DEF ArePartsOf
<1> DEFINE b == outputs[k]  w == Wanted[k]  o == Output(w)  u == tasks[t]
<1>3. /\ w \in Range(Wanted) /\ Boxed(o) /\ b.attr = w
      /\ Query.function = "slice" => SliceOf(b, o)
      /\ Query.function = "curtain" => CurtainOf(b, o)
  BY <1>1 DEF OutputsOf
<1>4. Query.function \in {"slice", "curtain"}  BY PlanIs
<1>5. k \in 1 .. Len(Wanted)  BY <1>1
<1>6. \A p \in 1 .. Len(b.ids) : IdOf(b.ids[p]) \in NeededIds(o)
  BY <1>5, IdsAreNeeded
<1>7. Query.function = "curtain" => \A p \in 1 .. Len(b.ids) : b.ids[p] = Single(o, IdOf(b.ids[p]))
  <2> SUFFICES ASSUME Query.function = "curtain", NEW p \in 1 .. Len(b.ids)
               PROVE  b.ids[p] = Single(o, IdOf(b.ids[p]))
    OBVIOUS
  <2> HIDE DEF b, o
  <2>1. args.coords \in Seq(Nat \X Nat)  BY <1>1
  <2>2. Len(b.ids) = Len(ColumnIds(o)) /\ b.ids[p] = Single(o, ColumnIds(o)[p])
    BY <1>3 DEF CurtainOf
  <2>3. ColumnIds(o) \in Seq({id \in FragmentIds(o.cube, o.shape) : InColumn(o, id) # {}})
    <3>1. Enumerates(ColumnIds(o), {id \in FragmentIds(o.cube, o.shape) : InColumn(o, id) # {}})
      BY <1>3, <2>1, ColumnIdsAre
    <3> QED BY <3>1 DEF Enumerates
  <2>4. ColumnIds(o)[p] \in {id \in FragmentIds(o.cube, o.shape) : InColumn(o, id) # {}}
    BY <2>2, <2>3, ElementOfSeq
  <2>5. Single(o, ColumnIds(o)[p]).id = ColumnIds(o)[p]
    BY <1>3, <2>1, <2>4, SingleIs
  <2> QED BY <2>2, <2>5 DEF IdOf
<1>8. u.attr = w /\ u.prefix = b.prefix /\ u.shape = b.shape /\ u.cube = b.cube
      /\ (Query.function = "slice" => u.dim = b.dim /\ u.idx = b.idx)
  BY <1>2, <1>3 DEF PartOf
<1>9. o.attr = w  BY <1>3, WantedOutput
<1>10. /\ DOMAIN u.ids = 1 .. Len(u.ids) /\ Len(u.ids) \in Nat \ {0}
  <2>1. Len(u.ids) \in 1 .. job.task_size  BY <1>2
  <2>2. Len(u.ids) \in Nat \ {0}  BY <1>1, <2>1
  <2> QED BY <1>2, <2>2
<1>11. \A m \in 1 .. Len(u.ids) : \E p \in 1 .. Len(b.ids) : u.ids[m] = b.ids[p]
  BY <1>2
<1> HIDE DEF b, o, u, w
<1>12. b.prefix = o.prefix /\ b.shape = o.shape /\ b.cube = o.cube
  BY <1>3, <1>4 DEF SliceOf, CurtainOf
<1>13. Query.function = "slice" => b.dim = Query.dim /\ b.idx = Plane(o) % o.shape[Query.dim]
  BY <1>3 DEF SliceOf
<1>14. \A m \in 1 .. Len(u.ids) :
          /\ IdOf(u.ids[m]) \in NeededIds(o)
          /\ Query.function = "curtain" => u.ids[m] = Single(o, IdOf(u.ids[m]))
  BY <1>6, <1>7, <1>11
<1>15. TaskOf(u, o)  BY <1>8, <1>9, <1>10, <1>12, <1>13, <1>14 DEF TaskOf
<1> QED BY <1>3, <1>8, <1>15 DEF u, o

\* Every fragment that is needed is in some task.
LEMMA NeededIsFetched ==
    ASSUME PlannerInv, stage = "planned", NEW w \in Range(Wanted), NEW id \in NeededIds(Output(w))
    PROVE  \E t \in 1 .. Len(tasks) :
              /\ tasks[t].attr = w
              /\ \E m \in 1 .. Len(tasks[t].ids) : IdOf(tasks[t].ids[m]) = id
<1>1. args.attributes = Normalized(Query.attributes) /\ DOMAIN tasks = 1 .. Len(tasks)
  BY PlanIs
<1>2. PICK k \in 1 .. Len(Wanted) : w = Wanted[k]
  <2>1. DOMAIN Wanted = 1 .. Len(Wanted)  BY <1>1, WantedIs
  <2> QED BY <2>1 DEF Range
<1>3. PICK p \in 1 .. Len(outputs[k].ids) : IdOf(outputs[k].ids[p]) = id
  BY <1>2, IdsAreNeeded
<1>4. PICK at : FetchedAt(at, w, outputs[k])  BY <1>2, FetchedOnce
<1>5. PICK f \in Fetched(w) : at[f] = p /\ tasks[f[1]].ids[f[2]] = outputs[k].ids[p]
  BY <1>4 DEF FetchedAt
<1>6. f[1] \in 1 .. Len(tasks) /\ tasks[f[1]].attr = w /\ f[2] \in DOMAIN tasks[f[1]].ids
  BY <1>1 DEF Fetched
<1>7. DOMAIN tasks[f[1]].ids = 1 .. Len(tasks[f[1]].ids)
  BY <1>6, TasksOfOutputs DEF TaskOf
<1> QED BY <1>3, <1>5, <1>6, <1>7

\* The point of a fragment at a place of a plane, in the cube.
LEMMA PlaneInFragment ==
    ASSUME NEW cs \in ShapesOver(1 .. 3), NEW fs \in ShapesOver(1 .. 3), NEW id \in FragmentIds(cs, fs),
           NEW d \in 1 .. 3, NEW x \in Nat, id[d] = x \div fs[d], NEW i \in Nat, NEW j \in Nat
    PROVE  ToGlobal(fs, id, Into(d, x % fs[d], i, j))
              = Into(d, x, (id[Rows(d)] * fs[Rows(d)]) + i, (id[Cols(d)] * fs[Cols(d)]) + j)
<1> DEFINE r == x % fs[d]
           p == Into(d, r, i, j)
           I == (id[Rows(d)] * fs[Rows(d)]) + i
           J == (id[Cols(d)] * fs[Cols(d)]) + j
           q == Into(d, x, I, J)
<1>1. fs \in [1 .. 3 -> Nat \ {0}] /\ id \in [1 .. 3 -> Nat]
  BY DEF ShapesOver, FragmentIds
<1>2. r \in Nat /\ x = (id[d] * fs[d]) + r
  <2>1. fs[d] \in Nat \ {0}  BY <1>1
  <2>2. x % fs[d] \in 0 .. fs[d] - 1 /\ x = ((x \div fs[d]) * fs[d]) + (x % fs[d])
    BY <2>1, QuotientRemainder
  <2> QED BY <2>1, <2>2
<1> HIDE DEF r
<1>3. /\ p \in [1 .. 3 -> Nat] /\ p[d] = r /\ p[Rows(d)] = i /\ p[Cols(d)] = j
  <2>1. r \in Nat  BY <1>2
  <2> QED BY <2>1, RowsAndCols DEF Into
<1>4. Rows(d) \in 1 .. 3 /\ Cols(d) \in 1 .. 3
      /\ \A e \in 1 .. 3 : e = d \/ e = Rows(d) \/ e = Cols(d)
  BY RowsAndCols
<1>5. I \in Nat /\ J \in Nat
  <2>1. id[Rows(d)] \in Nat /\ fs[Rows(d)] \in Nat /\ id[Cols(d)] \in Nat /\ fs[Cols(d)] \in Nat
    BY <1>1, <1>4
  <2> QED BY <2>1, MultiplyAdd
<1> HIDE DEF I, J
<1>6. /\ q \in [1 .. 3 -> Nat] /\ q[d] = x /\ q[Rows(d)] = I /\ q[Cols(d)] = J
  <2> HIDE DEF p
  <2> QED BY <1>5, RowsAndCols DEF Into
<1> HIDE DEF p, q
<1>7. ToGlobal(fs, id, p) = [e \in 1 .. 3 |-> id[e] * fs[e] + p[e]]
  BY <1>3 DEF ToGlobal
<1>8. \A e \in 1 .. 3 : id[e] * fs[e] + p[e] = q[e]
  <2>1. id[d] * fs[d] + p[d] = q[d]  BY <1>2, <1>3, <1>6
  <2>2. id[Rows(d)] * fs[Rows(d)] + p[Rows(d)] = q[Rows(d)]
    BY <1>3, <1>6 DEF I
  <2>3. id[Cols(d)] * fs[Cols(d)] + p[Cols(d)] = q[Cols(d)]
    BY <1>3, <1>6 DEF J
  <2> QED BY <2>1, <2>2, <2>3, <1>4
<1>9. ToGlobal(fs, id, p) = q  BY <1>6, <1>7, <1>8
<1> QED BY <1>9 DEF p, q, I, J, r

\* What a sample is.
LEMMA SampleIsValue ==
    ASSUME NEW a \in AttributeNames, NEW c \in ShapesOver(1 .. 3), NEW g
    PROVE  Sample(a, c, g) \in Value
<1>1. CASE g \in CubePoints(c)
  <2>1. g \in [1 .. 3 -> Nat]  BY <1>1 DEF CubePoints, ShapesOver
  <2>2. g \in Seq(Nat)  BY <2>1, ShortSequences
  <2> QED BY <1>1, <2>2 DEF Sample, Value
<1>2. CASE ~(g \in CubePoints(c))  BY <1>2 DEF Sample, Value
<1> QED BY <1>1, <1>2

\* The values of a plane of a fragment, row by row.
HoldsPlane(v, a, cs, fs, id, d, x) ==
    /\ v \in Seq(Value)
    /\ \A i \in 0 .. fs[Rows(d)] - 1, j \in 0 .. fs[Cols(d)] - 1 :
          v[(i * fs[Cols(d)] + j) + 1]
             = Sample(a, cs, Into(d, x, (id[Rows(d)] * fs[Rows(d)]) + i, (id[Cols(d)] * fs[Cols(d)]) + j))

PlaneOfChunk(chunk, from, x) ==
    [o \in 1 .. from.iterations * from.chunk_size |->
        chunk[from.initial_skip * x + ((o - 1) \div from.substride) * from.superstride
                + ((o - 1) % from.substride)]]

\* What process.cpp takes of a fragment is its part of the plane.
LEMMA PlaneOfChunkIs ==
    ASSUME NEW a \in AttributeNames, NEW cs \in ShapesOver(1 .. 3), NEW fs \in ShapesOver(1 .. 3),
           NEW id \in FragmentIds(cs, fs), NEW d \in 1 .. 3, NEW x \in Nat, id[d] = x \div fs[d],
           NEW chunk, ChunkOf(chunk, fs, cs, id, a), NEW from, PlaneStride(from, fs, d)
    PROVE  HoldsPlane(PlaneOfChunk(chunk, from, x % fs[d]), a, cs, fs, id, d, x)
<1> DEFINE v == PlaneOfChunk(chunk, from, x % fs[d])  A == fs[Rows(d)]  B == fs[Cols(d)]
           N == from.iterations * from.chunk_size
           S(i, j) == Sample(a, cs, Into(d, x, (id[Rows(d)] * fs[Rows(d)]) + i, (id[Cols(d)] * fs[Cols(d)]) + j))
<1>1. fs \in [1 .. 3 -> Nat \ {0}] /\ fs[d] \in Nat \ {0} /\ A \in Nat \ {0} /\ B \in Nat \ {0}
  BY RowsAndCols DEF ShapesOver
<1>2. x % fs[d] \in 0 .. fs[d] - 1  BY <1>1, QuotientRemainder
<1>3. N = A * B /\ N \in Nat
  <2>1. N = A * B  BY DEF PlaneStride
  <2> QED BY <1>1, <2>1
<1>4. /\ \A i \in 0 .. A - 1, j \in 0 .. B - 1 : i * B + j \in 0 .. A * B - 1
      /\ \A q \in 0 .. A * B - 1 :
            /\ q \div B \in 0 .. A - 1 /\ q % B \in 0 .. B - 1
            /\ q = (q \div B) * B + (q % B)
  <2> HIDE DEF A, B
  <2> QED BY <1>1, InRows
<1>5. ASSUME NEW i \in 0 .. A - 1, NEW j \in 0 .. B - 1
      PROVE  v[(i * B + j) + 1] = S(i, j)
  <2> DEFINE q == i * B + j
  <2>1. q + 1 \in 1 .. N /\ q \in Nat /\ i \in Nat /\ j \in Nat
    <3>1. i \in Nat /\ j \in Nat /\ q \in 0 .. A * B - 1  BY <1>1, <1>4
    <3> HIDE DEF q, A, B, N
    <3> QED BY <3>1, <1>1, <1>3
  <2>2. (q + 1) - 1 = q  BY <2>1
  <2>3. v[q + 1] = chunk[from.initial_skip * (x % fs[d]) + (((q + 1) - 1) \div from.substride) * from.superstride
                           + (((q + 1) - 1) % from.substride)]
    BY <2>1 DEF PlaneOfChunk
  <2>4. v[q + 1] = chunk[from.initial_skip * (x % fs[d]) + (q \div from.substride) * from.superstride
                           + (q % from.substride)]
    BY <2>2, <2>3
  <2>5. from.initial_skip * (x % fs[d]) + (q \div from.substride) * from.superstride
                           + (q % from.substride) = Offset(Into(d, x % fs[d], i, j), fs)
    BY <1>2 DEF PlaneStride
  <2>6. Into(d, x % fs[d], i, j) \in CubePoints(fs)  BY <1>2, InPlane
  <2>7. chunk[Offset(Into(d, x % fs[d], i, j), fs)] = Sample(a, cs, ToGlobal(fs, id, Into(d, x % fs[d], i, j)))
    BY <2>6 DEF ChunkOf
  <2>8. ToGlobal(fs, id, Into(d, x % fs[d], i, j))
              = Into(d, x, (id[Rows(d)] * fs[Rows(d)]) + i, (id[Cols(d)] * fs[Cols(d)]) + j)
    BY <2>1, PlaneInFragment
  <2> HIDE DEF q
  <2>9. v[q + 1] = S(i, j)  BY <2>4, <2>5, <2>7, <2>8
  <2> QED BY <2>9 DEF q
<1>6. \A q \in 1 .. N : v[q] \in Value
  <2> TAKE q \in 1 .. N
  <2> DEFINE i == (q - 1) \div B  j == (q - 1) % B
  <2>1. q - 1 \in 0 .. A * B - 1
    <3> HIDE DEF A, B, N
    <3> QED BY <1>1, <1>3
  <2>2. i \in 0 .. A - 1 /\ j \in 0 .. B - 1 /\ q - 1 = i * B + j
    BY <2>1, <1>4
  <2>3. i * B + j \in Nat /\ q \in Nat  BY <1>1, <2>1, <2>2
  <2>4. q = (i * B + j) + 1
    <3> HIDE DEF i, j, A, B
    <3> QED BY <2>2, <2>3
  <2> HIDE DEF i, j
  <2>5. v[q] = S(i, j)  BY <2>2, <2>4, <1>5
  <2> QED BY <2>5, SampleIsValue
<1>7. v \in Seq(Value)
  <2>1. v \in [1 .. N -> Value]  BY <1>6 DEF PlaneOfChunk
  <2> QED BY <2>1, <1>3, FunctionIsSequence
<1> QED BY <1>5, <1>7 DEF HoldsPlane

\* What is written of a plane of a fragment: samples, where the plane of the cube has them,
\* and all that are in the fragment.
WritesPlane(w, a, cs, fs, id, d, x) ==
    /\ \A o \in DOMAIN w : \E i \in 0 .. cs[Rows(d)] - 1, j \in 0 .. cs[Cols(d)] - 1 :
          o = i * cs[Cols(d)] + j /\ w[o] = <<a, Into(d, x, i, j)>>
    /\ \A i \in 0 .. cs[Rows(d)] - 1, j \in 0 .. cs[Cols(d)] - 1 :
          i \div fs[Rows(d)] = id[Rows(d)] /\ j \div fs[Cols(d)] = id[Cols(d)]
             => i * cs[Cols(d)] + j \in DOMAIN w

\* The layout of a tile is the box of the fragment without its padding, in the plane.
LEMMA LayoutIs ==
    ASSUME NEW cs \in ShapesOver(1 .. 3), NEW fs \in ShapesOver(1 .. 3), NEW id \in FragmentIds(cs, fs),
           NEW d \in 1 .. 3
    PROVE  InjectionStride(Squeeze(cs, d), Squeeze(fs, d), Squeeze(id, d)) =
              [iterations |-> Real(cs, fs, id, Rows(d)), chunk_size |-> Real(cs, fs, id, Cols(d)),
               initial_skip |-> (id[Rows(d)] * fs[Rows(d)]) * cs[Cols(d)] + id[Cols(d)] * fs[Cols(d)],
               superstride |-> cs[Cols(d)], substride |-> fs[Cols(d)]]
<1> DEFINE C == Squeeze(cs, d)  F == Squeeze(fs, d)  I == Squeeze(id, d)
<1>1. /\ cs \in [1 .. 3 -> Nat \ {0}] /\ fs \in [1 .. 3 -> Nat \ {0}] /\ id \in [1 .. 3 -> Nat]
      /\ \A e \in 1 .. 3 : id[e] < FragmentCount(cs, fs, e)
  BY DEF ShapesOver, FragmentIds
<1>2. C \in [1 .. 2 -> Nat \ {0}] /\ C[1] = cs[Rows(d)] /\ C[2] = cs[Cols(d)]
  <2>1. InPlaneOf(Squeeze(cs, d), cs, d, Nat \ {0})  BY <1>1, SqueezedIs
  <2> QED BY <2>1 DEF InPlaneOf
<1>3. F \in [1 .. 2 -> Nat \ {0}] /\ F[1] = fs[Rows(d)] /\ F[2] = fs[Cols(d)]
  <2>1. InPlaneOf(Squeeze(fs, d), fs, d, Nat \ {0})  BY <1>1, SqueezedIs
  <2> QED BY <2>1 DEF InPlaneOf
<1>4. I \in [1 .. 2 -> Nat] /\ I[1] = id[Rows(d)] /\ I[2] = id[Cols(d)]
  <2>1. InPlaneOf(Squeeze(id, d), id, d, Nat)  BY <1>1, SqueezedIs
  <2> QED BY <2>1 DEF InPlaneOf
<1> HIDE DEF C, F, I
<1>5. /\ FragmentCount(C, F, 1) = FragmentCount(cs, fs, Rows(d))
      /\ FragmentCount(C, F, 2) = FragmentCount(cs, fs, Cols(d))
  BY <1>2, <1>3 DEF FragmentCount
<1>6. I \in FragmentIds(C, F)
  <2>1. Rows(d) \in 1 .. 3 /\ Cols(d) \in 1 .. 3  BY RowsAndCols
  <2>2. I[1] < FragmentCount(C, F, 1) /\ I[2] < FragmentCount(C, F, 2)
    BY <1>1, <1>4, <1>5, <2>1
  <2>3. \A e \in 1 .. 2 : I[e] < FragmentCount(C, F, e)
    <3>1. \A e \in 1 .. 2 : e = 1 \/ e = 2  OBVIOUS
    <3> QED BY <2>2, <3>1
  <2>4. DOMAIN C = 1 .. 2  BY <1>2
  <2> QED BY <1>4, <2>3, <2>4 DEF FragmentIds
<1>7. Real(C, F, I, 1) = Real(cs, fs, id, Rows(d)) /\ Real(C, F, I, 2) = Real(cs, fs, id, Cols(d))
  BY <1>2, <1>3, <1>4, <1>5 DEF Real, Padding
<1>8. C \in ShapesOver(1 .. 2) /\ F \in ShapesOver(1 .. 2)
  BY <1>2, <1>3 DEF ShapesOver
<1>9. InjectionStride(C, F, I) =
              [iterations |-> Real(C, F, I, 1), chunk_size |-> Real(C, F, I, 2),
               initial_skip |-> (I[1] * F[1]) * C[2] + I[2] * F[2],
               superstride |-> C[2], substride |-> F[2]]
  BY <1>6, <1>8, InjectionStrideIs
<1>10. InjectionStride(C, F, I) =
              [iterations |-> Real(cs, fs, id, Rows(d)), chunk_size |-> Real(cs, fs, id, Cols(d)),
               initial_skip |-> (id[Rows(d)] * fs[Rows(d)]) * cs[Cols(d)] + id[Cols(d)] * fs[Cols(d)],
               superstride |-> cs[Cols(d)], substride |-> fs[Cols(d)]]
  BY <1>2, <1>3, <1>4, <1>7, <1>9
<1> QED BY <1>10 DEF C, F, I

\* The values of a plane of a fragment go to where the plane of the cube has them.
LEMMA PlaneIsWritten ==
    ASSUME NEW cs \in ShapesOver(1 .. 3), NEW fs \in ShapesOver(1 .. 3), NEW id \in FragmentIds(cs, fs),
           NEW d \in 1 .. 3, NEW x \in 0 .. cs[d] - 1, NEW a, NEW v, HoldsPlane(v, a, cs, fs, id, d, x),
           NEW w, TileWrote(w, v, cs[Cols(d)], fs[Cols(d)], Real(cs, fs, id, Rows(d)), Real(cs, fs, id, Cols(d)),
                            id[Rows(d)] * fs[Rows(d)], id[Cols(d)] * fs[Cols(d)])
    PROVE  WritesPlane(w, a, cs, fs, id, d, x)
<1> DEFINE C1 == cs[Rows(d)]  C2 == cs[Cols(d)]  F1 == fs[Rows(d)]  F2 == fs[Cols(d)]
           R1 == Real(cs, fs, id, Rows(d))  R2 == Real(cs, fs, id, Cols(d))
           x0 == id[Rows(d)] * fs[Rows(d)]  y0 == id[Cols(d)] * fs[Cols(d)]
<1>1. Rows(d) \in 1 .. 3 /\ Cols(d) \in 1 .. 3  BY RowsAndCols
<1>2. /\ C1 \in Nat \ {0} /\ C2 \in Nat \ {0} /\ F1 \in Nat \ {0} /\ F2 \in Nat \ {0}
      /\ id[Rows(d)] \in Nat /\ id[Cols(d)] \in Nat
  BY <1>1 DEF ShapesOver, FragmentIds
<1>3. x0 \in Nat /\ y0 \in Nat  BY <1>2
<1>4. R1 \in 1 .. F1 /\ \A i \in 0 .. F1 - 1 : (x0 + i < C1 <=> i < R1)
  BY <1>1, RealIs
<1>5. R2 \in 1 .. F2 /\ \A j \in 0 .. F2 - 1 : (y0 + j < C2 <=> j < R2)
  BY <1>1, RealIs
<1>6. /\ \A o \in DOMAIN w : \E i \in 0 .. R1 - 1, j \in 0 .. R2 - 1 : o = (x0 + i) * C2 + (y0 + j)
      /\ \A i \in 0 .. R1 - 1, j \in 0 .. R2 - 1 :
            (x0 + i) * C2 + (y0 + j) \in DOMAIN w /\ w[(x0 + i) * C2 + (y0 + j)] = v[(i * F2 + j) + 1]
  BY DEF TileWrote
<1>7. \A i \in 0 .. F1 - 1, j \in 0 .. F2 - 1 :
          v[(i * F2 + j) + 1] = Sample(a, cs, Into(d, x, x0 + i, y0 + j))
  BY DEF HoldsPlane
<1>8. ASSUME NEW o \in DOMAIN w
      PROVE  \E i \in 0 .. C1 - 1, j \in 0 .. C2 - 1 : o = i * C2 + j /\ w[o] = <<a, Into(d, x, i, j)>>
  <2>1. PICK i \in 0 .. R1 - 1, j \in 0 .. R2 - 1 : o = (x0 + i) * C2 + (y0 + j)
    BY <1>6
  <2>2. i \in 0 .. F1 - 1 /\ j \in 0 .. F2 - 1 /\ i < R1 /\ j < R2
    <3> HIDE DEF R1, R2, F1, F2
    <3> QED BY <1>2, <1>4, <1>5
  <2>3. x0 + i \in 0 .. C1 - 1 /\ y0 + j \in 0 .. C2 - 1
    <3>1. x0 + i < C1 /\ y0 + j < C2  BY <1>4, <1>5, <2>2
    <3> HIDE DEF x0, y0, C1, C2
    <3> QED BY <1>2, <1>3, <2>2, <3>1
  <2>4. w[o] = v[(i * F2 + j) + 1]  BY <1>6, <2>1
  <2>5. v[(i * F2 + j) + 1] = Sample(a, cs, Into(d, x, x0 + i, y0 + j))
    BY <1>7, <2>2
  <2> DEFINE I == x0 + i  J == y0 + j
  <2>6. I \in 0 .. cs[Rows(d)] - 1 /\ J \in 0 .. cs[Cols(d)] - 1  BY <2>3
  <2> HIDE DEF I, J
  <2>7. Into(d, x, I, J) \in CubePoints(cs)  BY <2>6, InPlane
  <2>8. w[o] = <<a, Into(d, x, I, J)>> /\ o = I * C2 + J
    BY <2>1, <2>4, <2>5, <2>7 DEF Sample, I, J
  <2> QED BY <2>6, <2>8
<1>9. ASSUME NEW i \in 0 .. C1 - 1, NEW j \in 0 .. C2 - 1, i \div F1 = id[Rows(d)], j \div F2 = id[Cols(d)]
      PROVE  i * C2 + j \in DOMAIN w
  <2> DEFINE l == i % F1  m == j % F2
  <2>1. l \in 0 .. F1 - 1 /\ i = x0 + l
    <3>1. i \in Nat  BY <1>2
    <3> QED BY <1>2, <1>9, <3>1, QuotientRemainder
  <2>2. m \in 0 .. F2 - 1 /\ j = y0 + m
    <3>1. j \in Nat  BY <1>2
    <3> QED BY <1>2, <1>9, <3>1, QuotientRemainder
  <2>3. i < C1 /\ j < C2  BY <1>2
  <2> HIDE DEF l, m
  <2>4. l < R1 /\ m < R2  BY <1>4, <1>5, <2>1, <2>2, <2>3
  <2>5. l \in 0 .. R1 - 1 /\ m \in 0 .. R2 - 1
    <3> HIDE DEF R1, R2, F1, F2
    <3> QED BY <1>2, <1>4, <1>5, <2>1, <2>2, <2>4
  <2> QED BY <1>6, <2>1, <2>2, <2>5
<1> QED BY <1>8, <1>9 DEF WritesPlane

\* A tile as it is packed, and what of a task of a slice is told about its n-th fragment.
PackedTile(t) ==
    <<t.layout.iterations, t.layout.chunk_size, t.layout.initial_skip, t.layout.superstride,
      t.layout.substride, t.v>>
TilesPlane(task, n, o) ==
    /\ Tile(task, n) \in tile
    /\ WritesPlane(TileWrites(PackedTile(Tile(task, n))), o.attr, o.cube, o.shape, task.ids[n], Query.dim,
                   Plane(o))

\* The box that a fragment fills in the plane ends inside of it.
LEMMA LayoutTyped ==
    ASSUME NEW cs \in ShapesOver(1 .. 3), NEW fs \in ShapesOver(1 .. 3), NEW id \in FragmentIds(cs, fs),
           NEW d \in 1 .. 3
    PROVE  /\ Real(cs, fs, id, d) \in Nat /\ id[d] \in Nat /\ id[d] * fs[d] \in Nat
           /\ cs[d] \in Nat \ {0} /\ fs[d] \in Nat \ {0}
           /\ \A i \in 0 .. Real(cs, fs, id, d) - 1 : (id[d] * fs[d]) + i < cs[d]
<1>1. cs[d] \in Nat \ {0} /\ fs[d] \in Nat \ {0} /\ id[d] \in Nat
  BY DEF ShapesOver, FragmentIds
<1>2. id[d] * fs[d] \in Nat  BY <1>1
<1>3. /\ Real(cs, fs, id, d) \in 1 .. fs[d]
      /\ \A i \in 0 .. fs[d] - 1 : (id[d] * fs[d]) + i < cs[d] <=> i < Real(cs, fs, id, d)
  BY RealIs
<1> DEFINE r == Real(cs, fs, id, d)  f == fs[d]  x == id[d] * fs[d]
<1>4. \A i \in 0 .. r - 1 : x + i < cs[d]
  <2>1. r \in 1 .. f /\ f \in Nat /\ \A i \in 0 .. f - 1 : x + i < cs[d] <=> i < r
    BY <1>1, <1>3
  <2> HIDE DEF r, f, x
  <2>2. \A i \in 0 .. r - 1 : i \in 0 .. f - 1 /\ i < r  BY <2>1
  <2> QED BY <2>1, <2>2
<1>5. r \in Nat  BY <1>1, <1>3
<1> QED BY <1>1, <1>2, <1>4, <1>5

\* What a fetch node makes of a fragment of a slice is written where it belongs.
LEMMA TileIs ==
    ASSUME PlannerInv, stage = "planned", Query.function = "slice", NEW a \in Range(Wanted), NEW task,
           TaskOf(task, Output(a)), NEW n \in 1 .. Len(task.ids)
    PROVE  TilesPlane(task, n, Output(a))
<1> DEFINE o == Output(a)  id == task.ids[n]  d == Query.dim  x == Plane(o)  cs == o.cube  fs == o.shape
           name == Fragments(task)[n]  from == SliceStride(fs, d)
           layout == InjectionStride(Squeeze(cs, d), Squeeze(fs, d), Squeeze(id, d))
           v == PlaneOfChunk(Chunk(name), from, x % fs[d])  t == Tile(task, n)
           R == Rows(d)  C == Cols(d)
<1>1. Boxed(o) /\ o.attr = a /\ a \in AttributeNames  BY WantedOutput
<1>2. d \in 1 .. 3 /\ args.idx \in Nat
  <2>1. args \in [attributes : Seq(AttributeNames), idx : Nat, coords : Seq(Nat \X Nat)]
    BY PlanIs
  <2>2. job \in Jobs /\ Unpacked  BY PlanIs
  <2> QED BY <2>1, <2>2, UnpackedIs
<1>3. cs \in ShapesOver(1 .. 3) /\ fs \in ShapesOver(1 .. 3)
  BY <1>1 DEF Boxed
<1>4. x \in 0 .. cs[d] - 1 /\ x \in Nat
  <2>1. x \in 0 .. cs[d] - 1  BY <1>1, <1>2, PlaneIs
  <2> QED BY <2>1
<1>5. /\ task.prefix = o.prefix /\ task.shape = fs /\ task.cube = cs
      /\ task.dim = d /\ task.idx = x % fs[d]
      /\ DOMAIN task.ids = 1 .. Len(task.ids)
  BY DEF TaskOf
<1>6. id \in FragmentIds(cs, fs) /\ id[d] = x \div fs[d]
  <2>1. IdOf(id) \in NeededIds(o)  BY DEF TaskOf
  <2> QED BY <2>1 DEF IdOf, NeededIds
<1>7. name = [prefix |-> o.prefix, shape |-> fs, id |-> id]
  BY <1>5 DEF Fragments
<1>8. name.prefix = o.prefix /\ name.shape = fs /\ name.id = id  BY <1>7
<1>9. ChunkOf(Chunk(name), fs, cs, id, a)
  <2> HIDE DEF name, id
  <2>1. ChunkOf(Chunk(name), fs, cs, name.id, a)  BY <1>8, ChunkIs
  <2> QED BY <1>8, <2>1
<1>10. t = [layout |-> layout, v |-> v]
  <2>1. t = [layout |-> InjectionStride(Squeeze(task.cube, task.dim), Squeeze(task.shape, task.dim),
                                        Squeeze(task.ids[n], task.dim)),
             v |-> PlaneOfChunk(Chunk(Fragments(task)[n]), SliceStride(task.shape, task.dim), task.idx)]
    BY DEF Tile, PlaneOfChunk
  <2> QED BY <1>5, <2>1
<1> HIDE DEF o, id, d, x, cs, fs, name, layout, v, t
<1>11. PlaneStride(from, fs, d)  BY <1>2, <1>3, SliceStrideIs
<1>12. HoldsPlane(v, a, cs, fs, id, d, x)
  <2> HIDE DEF from
  <2>1. HoldsPlane(PlaneOfChunk(Chunk(name), from, x % fs[d]), a, cs, fs, id, d, x)
    BY <1>1, <1>2, <1>3, <1>4, <1>6, <1>9, <1>11, PlaneOfChunkIs
  <2> QED BY <2>1 DEF v
<1>13. layout = [iterations |-> Real(cs, fs, id, R), chunk_size |-> Real(cs, fs, id, C),
                 initial_skip |-> (id[R] * fs[R]) * cs[C] + id[C] * fs[C],
                 superstride |-> cs[C], substride |-> fs[C]]
  BY <1>2, <1>3, <1>6, LayoutIs DEF layout
<1> DEFINE r1 == Real(cs, fs, id, R)  r2 == Real(cs, fs, id, C)  x0 == id[R] * fs[R]  y0 == id[C] * fs[C]
<1>14. R \in 1 .. 3 /\ C \in 1 .. 3  BY <1>2, RowsAndCols
<1> HIDE DEF R, C
<1>15. /\ r1 \in Nat /\ r2 \in Nat /\ x0 \in Nat /\ y0 \in Nat /\ cs[C] \in Nat \ {0} /\ fs[C] \in Nat \ {0}
       /\ \A j \in 0 .. r2 - 1 : y0 + j < cs[C]
  BY <1>3, <1>6, <1>14, LayoutTyped
<1>16. x0 * cs[C] + y0 \in Nat
  <2> HIDE DEF x0, y0
  <2> QED BY <1>15, MultiplyAdd
<1>17. layout \in slice_layout  BY <1>13, <1>15, <1>16 DEF slice_layout
<1>18. t \in tile  BY <1>10, <1>12, <1>17 DEF HoldsPlane, tile
<1>19. PackedTile(t) = <<r1, r2, x0 * cs[C] + y0, cs[C], fs[C], v>>
  BY <1>10, <1>13 DEF PackedTile
<1> HIDE DEF r1, r2, x0, y0
<1>20. TileWrote(TileWrites(PackedTile(t)), v, cs[C], fs[C], r1, r2, x0, y0)
  <2> DEFINE c2 == cs[C]  f2 == fs[C]  slots == PackedTile(t)
  <2>1. /\ r1 \in Nat /\ r2 \in Nat /\ x0 \in Nat /\ y0 \in Nat /\ c2 \in Nat \ {0} /\ f2 \in Nat \ {0}
        /\ \A j \in 0 .. r2 - 1 : y0 + j < c2
        /\ slots = <<r1, r2, x0 * c2 + y0, c2, f2, v>>
    BY <1>15, <1>19
  <2> HIDE DEF c2, f2, slots
  <2>2. TileWrote(TileWrites(slots), v, c2, f2, r1, r2, x0, y0)
    BY <2>1, TileWritesAre
  <2> QED BY <2>2 DEF c2, f2, slots
<1>21. WritesPlane(TileWrites(PackedTile(t)), a, cs, fs, id, d, x)
  <2>1. TileWrote(TileWrites(PackedTile(t)), v, cs[Cols(d)], fs[Cols(d)],
                  Real(cs, fs, id, Rows(d)), Real(cs, fs, id, Cols(d)),
                  id[Rows(d)] * fs[Rows(d)], id[Cols(d)] * fs[Cols(d)])
    BY <1>20 DEF r1, r2, x0, y0, R, C
  <2> DEFINE w == TileWrites(PackedTile(t))
  <2> HIDE DEF w
  <2>2. WritesPlane(w, a, cs, fs, id, d, x)
    BY <2>1, <1>2, <1>3, <1>4, <1>6, <1>12, PlaneIsWritten DEF w
  <2> QED BY <2>2 DEF w
<1> QED BY <1>1, <1>18, <1>21 DEF TilesPlane, o, id, d, x, cs, fs, t

\* A box that is a plane: its places are numbered row by row.
FlatBox(S, d) ==
    /\ Product(S) = S[Rows(d)] * S[Cols(d)] /\ Product(S) \in Nat \ {0}
    /\ \A i \in 0 .. S[Rows(d)] - 1, j \in 0 .. S[Cols(d)] - 1 :
          /\ i * S[Cols(d)] + j \in 0 .. Product(S) - 1
          /\ PointAt(i * S[Cols(d)] + j, S) = Into(d, 0, i, j)
    /\ \A off \in 0 .. Product(S) - 1 :
          \E i \in 0 .. S[Rows(d)] - 1, j \in 0 .. S[Cols(d)] - 1 : off = i * S[Cols(d)] + j

\* A box with one line in a dimension is a plane.
LEMMA FlatBoxIs ==
    ASSUME NEW S \in ShapesOver(1 .. 3), NEW d \in 1 .. 3, S[d] = 1
    PROVE  FlatBox(S, d)
<1> DEFINE A == S[Rows(d)]  B == S[Cols(d)]  N == Product(S)
<1>1. /\ S[1] \in Nat \ {0} /\ S[2] \in Nat \ {0} /\ S[3] \in Nat \ {0}
      /\ A \in Nat \ {0} /\ B \in Nat \ {0}
  BY RowsAndCols DEF ShapesOver
<1>2. /\ Product(S) = (S[1] * S[2]) * S[3] /\ Product(S) \in Nat \ {0}
      /\ \A p \in CubePoints(S) :
            /\ Offset(p, S) = (p[1] * S[2] + p[2]) * S[3] + p[3]
            /\ Offset(p, S) \in 0 .. Product(S) - 1
            /\ PointAt(Offset(p, S), S) = p
  BY BoxOfThree
<1>3. N = A * B
  <2>1. CASE d = 1  BY <1>1, <1>2, <2>1 DEF Rows, Cols
  <2>2. CASE d = 2  BY <1>1, <1>2, <2>2 DEF Rows, Cols
  <2>3. CASE d = 3  BY <1>1, <1>2, <2>3 DEF Rows, Cols
  <2> QED BY <2>1, <2>2, <2>3
<1>4. /\ \A i \in 0 .. A - 1, j \in 0 .. B - 1 : i * B + j \in 0 .. A * B - 1
      /\ \A o \in 0 .. A * B - 1 : o \div B \in 0 .. A - 1 /\ o % B \in 0 .. B - 1
                                     /\ o = (o \div B) * B + (o % B)
  <2> HIDE DEF A, B
  <2> QED BY <1>1, InRows
<1>5. ASSUME NEW i \in 0 .. A - 1, NEW j \in 0 .. B - 1
      PROVE  PointAt(i * B + j, S) = Into(d, 0, i, j)
  <2> DEFINE p == Into(d, 0, i, j)
  <2>1. i \in Nat /\ j \in Nat  BY <1>1
  <2>2. 0 \in 0 .. S[d] - 1  OBVIOUS
  <2>3. p \in CubePoints(S)  BY <2>2, InPlane
  <2>4. p[1] = (IF d = 1 THEN 0 ELSE i) /\ p[2] = (IF d = 1 THEN i ELSE IF d = 2 THEN 0 ELSE j)
        /\ p[3] = (IF d = 3 THEN 0 ELSE j)
    BY DEF Into, Rows
  <2>5. Offset(p, S) = (p[1] * S[2] + p[2]) * S[3] + p[3] /\ PointAt(Offset(p, S), S) = p
    BY <1>2, <2>3
  <2> HIDE DEF p
  <2>6. (p[1] * S[2] + p[2]) * S[3] + p[3] = i * B + j
    <3>1. CASE d = 1
      <4>1. B = S[3] /\ p[1] = 0 /\ p[2] = i /\ p[3] = j
        BY <2>4, <3>1 DEF Cols
      <4>2. 0 * S[2] + i = i  BY <1>1, <2>1
      <4> QED BY <4>1, <4>2
    <3>2. CASE d = 2
      <4>1. B = S[3] /\ p[1] = i /\ p[2] = 0 /\ p[3] = j /\ S[2] = 1
        BY <2>4, <3>2 DEF Cols
      <4>2. i * 1 + 0 = i  BY <2>1
      <4> QED BY <4>1, <4>2
    <3>3. CASE d = 3
      <4>1. B = S[2] /\ p[1] = i /\ p[2] = j /\ p[3] = 0 /\ S[3] = 1
        BY <2>4, <3>3 DEF Cols
      <4>2. i * B + j \in Nat  BY <1>1, <2>1
      <4>3. (i * B + j) * 1 + 0 = i * B + j  BY <4>2
      <4> QED BY <4>1, <4>3
    <3> QED BY <3>1, <3>2, <3>3
  <2> QED BY <2>5, <2>6 DEF p
<1>6. /\ \A i \in 0 .. A - 1, j \in 0 .. B - 1 :
            i * B + j \in 0 .. N - 1 /\ PointAt(i * B + j, S) = Into(d, 0, i, j)
  BY <1>3, <1>4, <1>5
<1>7. \A off \in 0 .. N - 1 : \E i \in 0 .. A - 1, j \in 0 .. B - 1 : off = i * B + j
  BY <1>3, <1>4
<1> QED BY <1>2, <1>3, <1>6, <1>7 DEF FlatBox

\* Where the header has an attribute, and the size of its array.
Place(a) == CHOOSE k \in DOMAIN head.attributes : head.attributes[k] = a
Size(a)  == Product(head.shapes[Place(a)])

\* The header has each attribute at one place.
LEMMA PlaceIs ==
    ASSUME PlannerInv, stage = "planned"
    PROVE  /\ DOMAIN head.attributes = 1 .. Len(args.attributes) + 1 /\ Len(args.attributes) \in Nat
           /\ \A k \in DOMAIN head.attributes : Place(head.attributes[k]) = k
           /\ Range(Wanted) \subseteq Range(head.attributes)
           /\ Range(head.attributes) \subseteq AttributeNames
           /\ head.attributes[1] = "data"
           /\ \A k \in 2 .. Len(args.attributes) + 1 :
                 head.attributes[k] # "data" /\ head.attributes[k] \in Range(args.attributes)
<1> DEFINE m == Len(args.attributes)  h == head.attributes
<1>1. args.attributes = Normalized(Query.attributes) /\ args.attributes \in Seq(AttributeNames)
  BY PlanIs, NormalizedIs
<1>2. /\ h \in Seq(AttributeNames) /\ Len(h) = m + 1 /\ h[1] = "data"
      /\ \A i \in 1 .. m : h[1 + i] = args.attributes[i]
  BY HeadIs DEF Heads
<1>3. m \in Nat /\ DOMAIN h = 1 .. m + 1 /\ DOMAIN args.attributes = 1 .. m
  BY <1>1, <1>2
<1>4. /\ \A i, k \in 1 .. m : args.attributes[i] = args.attributes[k] => i = k
      /\ \A i \in 1 .. m : args.attributes[i] # "data"
  BY <1>1, NormalizedIs
<1>5. \A k \in 2 .. m + 1 : k - 1 \in 1 .. m /\ h[k] = args.attributes[k - 1]
  <2> TAKE k \in 2 .. m + 1
  <2>1. k - 1 \in 1 .. m /\ 1 + (k - 1) = k  BY <1>3
  <2>2. h[1 + (k - 1)] = args.attributes[k - 1]  BY <1>2, <2>1
  <2> QED BY <2>1, <2>2
<1> HIDE DEF h, m
<1>6. ASSUME NEW i \in 1 .. m + 1, NEW k \in 1 .. m + 1, h[i] = h[k] PROVE i = k
  <2>1. i \in Nat /\ k \in Nat /\ (i = 1 \/ i \in 2 .. m + 1) /\ (k = 1 \/ k \in 2 .. m + 1)
    BY <1>3
  <2>2. CASE i = 1 \/ k = 1  BY <1>2, <1>4, <1>5, <1>6, <2>1, <2>2
  <2>3. CASE i \in 2 .. m + 1 /\ k \in 2 .. m + 1
    <3>1. i - 1 = k - 1  BY <1>4, <1>5, <1>6, <2>3
    <3> QED BY <2>1, <3>1
  <2> QED BY <2>1, <2>2, <2>3
<1>7. ASSUME NEW k \in DOMAIN h PROVE Place(h[k]) = k
  <2> DEFINE p == Place(h[k])
  <2>1. p \in DOMAIN h /\ h[p] = h[k]  BY DEF Place, h
  <2> HIDE DEF p
  <2>2. p = k  BY <2>1, <1>3, <1>6
  <2> QED BY <2>2 DEF p
<1>8. ASSUME NEW a \in Range(Wanted) PROVE a \in Range(h)
  <2>1. a = "data" \/ a \in Range(args.attributes)  BY <1>1, WantedIs
  <2>2. CASE a = "data"
    <3>1. 1 \in DOMAIN h  BY <1>3
    <3> QED BY <3>1, <2>2, <1>2 DEF Range
  <2>3. CASE a \in Range(args.attributes)
    <3>1. PICK i \in 1 .. m : args.attributes[i] = a
      BY <2>3, <1>3 DEF Range
    <3>2. 1 + i \in DOMAIN h  BY <1>3
    <3> QED BY <3>1, <3>2, <1>2 DEF Range, h, m
  <2> QED BY <2>1, <2>2, <2>3
<1>9. Range(h) \subseteq AttributeNames  BY <1>2 DEF Range
<1>10. \A k \in 2 .. m + 1 : h[k] # "data" /\ h[k] \in Range(args.attributes)
  BY <1>3, <1>4, <1>5 DEF Range
<1> QED BY <1>2, <1>3, <1>7, <1>8, <1>9, <1>10 DEF h, m

\* The array of a slice is one plane, as large as that of the output.
PlaneShape(S, o) ==
    /\ S \in ShapesOver(1 .. 3) /\ S[Query.dim] = 1
    /\ S[Rows(Query.dim)] = o.cube[Rows(Query.dim)] /\ S[Cols(Query.dim)] = o.cube[Cols(Query.dim)]

\* The header says of each array of a slice how large the plane is.
LEMMA SliceShapeIs ==
    ASSUME PlannerInv, stage = "planned", Query.function = "slice", NEW a \in Range(Wanted)
    PROVE  PlaneShape(head.shapes[Place(a)], Output(a))
<1> DEFINE S == head.shapes[Place(a)]  c == Output(a).cube  d == Query.dim
           E == [e \in 1 .. 3 |-> IF e = 3 /\ a # "data" THEN 1 ELSE IndexSize(e)]
<1>1. c = [e \in 1 .. 3 |-> IF e = 3 /\ a # "data" THEN 1 ELSE Len(Lines(e))]
  BY WantedOutput
<1>2. d \in 1 .. 3  BY PlanIs, UnpackedIs
<1>3. \A e \in 1 .. 3 : Len(Lines(e)) \in Nat \ {0}
  BY PlanIs, ManifestIs
<1>4. S = E
  <2>1. a \in Range(head.attributes) /\ Place(head.attributes[1]) = 1 /\ head.attributes[1] = "data"
    BY PlaceIs
  <2>2. SliceHead(head)  BY HeadIs
  <2>3. CASE a = "data"  BY <2>1, <2>2, <2>3 DEF SliceHead
  <2>4. CASE a # "data"
    <3>1. PICK k \in DOMAIN head.attributes : head.attributes[k] = a
      BY <2>1 DEF Range
    <3>2. Place(a) = k /\ k \in 1 .. Len(args.attributes) + 1 /\ k # 1 /\ Len(args.attributes) \in Nat
      BY <2>1, <2>4, <3>1, PlaceIs
    <3>3. k - 1 \in 1 .. Len(args.attributes) /\ 1 + (k - 1) = k  BY <3>2
    <3>4. head.shapes[1 + (k - 1)] = [e \in 1 .. 3 |-> IF e = 3 THEN 1 ELSE IndexSize(e)]
      BY <2>2, <3>3 DEF SliceHead
    <3> QED BY <2>4, <3>2, <3>3, <3>4
  <2> QED BY <2>3, <2>4
<1> HIDE DEF S, c, d
<1>5. \A e \in 1 .. 3 : E[e] \in Nat \ {0}  BY <1>3 DEF IndexSize
<1>6. E \in ShapesOver(1 .. 3)  BY <1>5 DEF ShapesOver
<1>7. E[d] = 1 /\ \A e \in 1 .. 3 : e # d => E[e] = c[e]
  BY <1>1, <1>2 DEF IndexSize, d
<1>8. E[Rows(d)] = c[Rows(d)] /\ E[Cols(d)] = c[Cols(d)]
  BY <1>2, <1>7, RowsAndCols
<1> HIDE DEF E
<1> QED BY <1>4, <1>6, <1>7, <1>8 DEF PlaneShape, S, c, d

\* An array after writes that are inside of it.
WrittenOn(w, array, ws, D) ==
    /\ DOMAIN w = D
    /\ \A o \in D : \/ \E n \in DOMAIN ws : o \in DOMAIN ws[n] /\ w[o] = ws[n][o]
                    \/ w[o] = array[o] /\ \A n \in DOMAIN ws : o \notin DOMAIN ws[n]

\* An array has what was written to a place, or what it had there.
LEMMA WrittenIs ==
    ASSUME NEW array, NEW ws, NEW N \in Nat, DOMAIN ws = 1 .. N,
           \A n \in 1 .. N : DOMAIN ws[n] \subseteq DOMAIN array
    PROVE  WrittenOn(Written(array, ws), array, ws, DOMAIN array)
<1> DEFINE on(o) == {n \in DOMAIN ws : o \in DOMAIN ws[n]}  D == DOMAIN array  w == Written(array, ws)
<1>1. w = [o \in D \cup UNION {DOMAIN ws[n] : n \in DOMAIN ws} |->
              IF on(o) = {} THEN array[o] ELSE ws[Max(on(o))][o]]
  BY DEF Written
<1>2. UNION {DOMAIN ws[n] : n \in DOMAIN ws} \subseteq D  OBVIOUS
<1>3. DOMAIN w = D /\ \A o \in D : w[o] = IF on(o) = {} THEN array[o] ELSE ws[Max(on(o))][o]
  BY <1>1, <1>2
<1> HIDE DEF w
<1>4. ASSUME NEW o \in D
      PROVE  \/ \E n \in DOMAIN ws : o \in DOMAIN ws[n] /\ w[o] = ws[n][o]
             \/ w[o] = array[o] /\ \A n \in DOMAIN ws : o \notin DOMAIN ws[n]
  <2>1. CASE on(o) = {}  BY <1>3, <2>1
  <2>2. CASE on(o) # {}
    <3> DEFINE T == on(o)
    <3>1. T \in SUBSET (1 .. N) /\ T # {}  BY <2>2
    <3> HIDE DEF T
    <3>2. Max(T) \in T  BY <3>1, MaxOfSet
    <3>3. w[o] = ws[Max(T)][o]  BY <1>3, <2>2 DEF T
    <3>4. Max(T) \in DOMAIN ws /\ o \in DOMAIN ws[Max(T)]  BY <3>2 DEF T
    <3> QED BY <3>3, <3>4
  <2> QED BY <2>1, <2>2
<1> QED BY <1>3, <1>4 DEF WrittenOn, w

\* What may be at a place of an array: of a slice the sample of the plane at the place's row
\* and column, and of the data of a curtain that of the place's trace and depth.
Belongs(a, off, s) ==
    IF Query.function = "slice"
      THEN LET o == Output(a)  d == Query.dim IN
           \E i \in 0 .. o.cube[Rows(d)] - 1, j \in 0 .. o.cube[Cols(d)] - 1 :
               off = i * o.cube[Cols(d)] + j /\ s = <<a, Into(d, Plane(o), i, j)>>
      ELSE a = "data" =>
           \E k \in 1 .. Len(args.coords), z \in 0 .. Len(Lines(3)) - 1 :
               off = (k - 1) * Len(Lines(3)) + z
               /\ s = <<a, <<args.coords[k][1], args.coords[k][2], z>>>>

\* What is written of a bundle belongs where it is written, and is in the array.
Bundle(t) == Writes(RunTask(tasks[t]))
WritesBelong(ws, a) ==
    /\ \E N \in Nat : DOMAIN ws = 1 .. N
    /\ \A n \in DOMAIN ws : \A off \in DOMAIN ws[n] :
          off \in 0 .. Size(a) - 1 /\ Belongs(a, off, ws[n][off])

\* The bundle of a task of a slice.
LEMMA SliceBundle ==
    ASSUME PlannerInv, stage = "planned", Query.function = "slice", NEW t \in 1 .. Len(tasks)
    PROVE  /\ RunTask(tasks[t])[1] = tasks[t].attr
           /\ DOMAIN tasks[t].ids = 1 .. Len(tasks[t].ids) /\ Len(tasks[t].ids) \in Nat
           /\ Bundle(t) = [n \in DOMAIN tasks[t].ids |-> TileWrites(PackedTile(Tile(tasks[t], n)))]
<1> DEFINE u == tasks[t]  tiles == [n \in DOMAIN u.ids |-> Tile(u, n)]  r == RunTask(u)
<1>1. TaskOf(u, Output(u.attr))  BY TasksOfOutputs
<1>2. DOMAIN u.ids = 1 .. Len(u.ids) /\ Len(u.ids) \in Nat
  BY <1>1 DEF TaskOf
<1>3. r = <<u.attr, [n \in DOMAIN tiles |-> PackedTile(tiles[n])]>>
  BY DEF RunTask, PackTiles, PackedTile
<1>4. r[1] = u.attr /\ r[2] = [n \in DOMAIN u.ids |-> PackedTile(Tile(u, n))]
  BY <1>3
<1>5. head.function = "slice"  BY HeadIs DEF SliceHead
<1>6. Bundle(t) = [n \in DOMAIN r[2] |-> TileWrites(r[2][n])]
  BY <1>5 DEF Bundle, Writes
<1> HIDE DEF r
<1>7. Bundle(t) = [n \in DOMAIN u.ids |-> TileWrites(PackedTile(Tile(u, n)))]
  BY <1>4, <1>6
<1> QED BY <1>2, <1>4, <1>7 DEF r

\* The bundle of a slice writes samples of the plane at their places.
LEMMA SliceWritesBelong ==
    ASSUME PlannerInv, stage = "planned", Query.function = "slice", NEW t \in 1 .. Len(tasks)
    PROVE  WritesBelong(Bundle(t), tasks[t].attr)
<1> DEFINE u == tasks[t]  a == u.attr  o == Output(a)  d == Query.dim  S == head.shapes[Place(a)]
           ws == Bundle(t)
<1>1. a \in Range(Wanted) /\ TaskOf(u, o)  BY TasksOfOutputs
<1>2. o.attr = a  BY <1>1, WantedOutput
<1>3. d \in 1 .. 3  BY PlanIs, UnpackedIs
<1>4. FlatBox(S, d) /\ S[Rows(d)] = o.cube[Rows(d)] /\ S[Cols(d)] = o.cube[Cols(d)]
  <2>1. PlaneShape(S, o)  BY <1>1, SliceShapeIs
  <2> QED BY <2>1, <1>3, FlatBoxIs DEF PlaneShape
<1>5. /\ DOMAIN u.ids = 1 .. Len(u.ids) /\ Len(u.ids) \in Nat
      /\ ws = [n \in DOMAIN u.ids |-> TileWrites(PackedTile(Tile(u, n)))]
  BY SliceBundle
<1> HIDE DEF ws
<1>6. ASSUME NEW n \in DOMAIN ws, NEW off \in DOMAIN ws[n]
      PROVE  off \in 0 .. Size(a) - 1 /\ Belongs(a, off, ws[n][off])
  <2>1. n \in 1 .. Len(u.ids) /\ ws[n] = TileWrites(PackedTile(Tile(u, n)))
    BY <1>5
  <2>2. TilesPlane(u, n, o)  BY <1>1, <2>1, TileIs
  <2>3. WritesPlane(ws[n], a, o.cube, o.shape, u.ids[n], d, Plane(o))
    BY <1>2, <2>1, <2>2 DEF TilesPlane
  <2>4. PICK i \in 0 .. o.cube[Rows(d)] - 1, j \in 0 .. o.cube[Cols(d)] - 1 :
            off = i * o.cube[Cols(d)] + j /\ ws[n][off] = <<a, Into(d, Plane(o), i, j)>>
    BY <2>3 DEF WritesPlane
  <2>5. Belongs(a, off, ws[n][off])  BY <2>4 DEF Belongs
  <2>6. off \in 0 .. Size(a) - 1  BY <1>4, <2>4 DEF FlatBox, Size
  <2> QED BY <2>5, <2>6
<1>7. DOMAIN ws = 1 .. Len(u.ids)  BY <1>5
<1> QED BY <1>5, <1>6, <1>7 DEF WritesBelong, ws

\* The bundle of a task writes to a place.
Covers(t, off) == \E n \in DOMAIN Bundle(t) : off \in DOMAIN Bundle(t)[n]

\* Every place of the array of a slice is written by some task.
LEMMA SliceIsCovered ==
    ASSUME PlannerInv, stage = "planned", Query.function = "slice", NEW a \in Range(Wanted),
           NEW off \in 0 .. Size(a) - 1
    PROVE  \E t \in 1 .. Len(tasks) : tasks[t].attr = a /\ Covers(t, off)
<1> DEFINE o == Output(a)  d == Query.dim  S == head.shapes[Place(a)]  R == Rows(d)  C == Cols(d)
<1>1. Boxed(o) /\ o.attr = a  BY WantedOutput
<1>2. d \in 1 .. 3 /\ args.idx \in Nat
  <2>1. args \in [attributes : Seq(AttributeNames), idx : Nat, coords : Seq(Nat \X Nat)]
    BY PlanIs
  <2>2. job \in Jobs /\ Unpacked  BY PlanIs
  <2> QED BY <2>1, <2>2, UnpackedIs
<1>3. FlatBox(S, d) /\ S[R] = o.cube[R] /\ S[C] = o.cube[C]
  <2>1. PlaneShape(S, o)  BY SliceShapeIs
  <2> QED BY <2>1, <1>2, FlatBoxIs DEF PlaneShape
<1>4. PICK i \in 0 .. o.cube[R] - 1, j \in 0 .. o.cube[C] - 1 : off = i * o.cube[C] + j
  BY <1>3 DEF FlatBox, Size
<1> DEFINE x == Plane(o)  g == Into(d, x, i, j)  id == FragId(o.shape, g)
<1>5. x \in 0 .. o.cube[d] - 1  BY <1>1, <1>2, PlaneIs
<1>6. o.cube \in ShapesOver(1 .. 3)  BY <1>1 DEF Boxed
<1>7. g \in CubePoints(o.cube)  BY <1>2, <1>4, <1>5, <1>6, InPlane
<1>8. R \in 1 .. 3 /\ C \in 1 .. 3  BY <1>2, RowsAndCols
<1>9. g[d] = x /\ g[R] = i /\ g[C] = j  BY <1>2, RowsAndCols DEF Into
<1> HIDE DEF g
<1>10. id \in FragmentIds(o.cube, o.shape) /\ \A e \in 1 .. 3 : id[e] = g[e] \div o.shape[e]
  BY <1>1, <1>7, HitsAreInside
<1>11. id[d] = x \div o.shape[d] /\ id[R] = i \div o.shape[R] /\ id[C] = j \div o.shape[C]
  BY <1>2, <1>8, <1>9, <1>10
<1>12. id \in NeededIds(o)  BY <1>10, <1>11 DEF NeededIds
<1> HIDE DEF id
<1>13. PICK t \in 1 .. Len(tasks) :
           tasks[t].attr = a /\ \E m \in 1 .. Len(tasks[t].ids) : IdOf(tasks[t].ids[m]) = id
  BY <1>12, NeededIsFetched
<1>14. PICK m \in 1 .. Len(tasks[t].ids) : tasks[t].ids[m] = id
  BY <1>13 DEF IdOf
<1> DEFINE u == tasks[t]  ws == Bundle(t)
<1>15. /\ DOMAIN u.ids = 1 .. Len(u.ids)
       /\ ws = [n \in DOMAIN u.ids |-> TileWrites(PackedTile(Tile(u, n)))]
  BY SliceBundle
<1>16. TaskOf(u, o)  BY <1>13, TasksOfOutputs
<1>17. TilesPlane(u, m, o)  BY <1>16, <1>14, TileIs
<1> HIDE DEF ws
<1>18. WritesPlane(ws[m], a, o.cube, o.shape, id, d, x) /\ m \in DOMAIN ws
  BY <1>1, <1>14, <1>15, <1>17 DEF TilesPlane
<1>19. off \in DOMAIN ws[m]  BY <1>4, <1>11, <1>18 DEF WritesPlane
<1> QED BY <1>13, <1>18, <1>19 DEF Covers, ws

\* Pairs one after the other, as the bounds of the traces and of the depths are packed.
PairsOf(w, ss, n) ==
    /\ w \in Seq(Nat)
    /\ \A k \in 1 .. n : w[2 * k - 1] = ss[k][1] /\ w[2 * k] = ss[k][2]

\* The pairs that are put one after the other are at 2n - 1 and 2n.
LEMMA PairsAreJoined ==
    ASSUME NEW ss \in Seq(Seq(Nat)), \A k \in 1 .. Len(ss) : Len(ss[k]) = 2
    PROVE  PairsOf(FlattenSeq(ss), ss, Len(ss))
<1> DEFINE n == Len(ss)  w == FlattenSeq(ss)
<1>1. n \in Nat  OBVIOUS
<1>2. w \in Seq(Nat) /\ \E pre \in [0 .. n -> Nat] : Joins(w, ss, pre)
  BY FlattenSeqJoins
<1>3. PICK pre \in [0 .. n -> Nat] : Joins(w, ss, pre)  BY <1>2
<1> HIDE DEF n, w
<1> DEFINE S == {k \in 0 .. n : pre[k] = 2 * k}
<1>4. 0 \in S  BY <1>1, <1>3 DEF Joins
<1>5. ASSUME NEW k \in 1 .. n, k - 1 \in S PROVE k \in S
  <2>1. pre[k] = pre[k - 1] + Len(ss[k]) /\ Len(ss[k]) = 2
    BY <1>3 DEF Joins, n
  <2>2. pre[k - 1] = 2 * (k - 1) /\ k \in 0 .. n /\ k \in Nat
    BY <1>1, <1>5
  <2>3. pre[k] = 2 * k  BY <2>1, <2>2
  <2> QED BY <2>2, <2>3
<1>6. \A k \in 0 .. n : k \in S
  <2> HIDE DEF S
  <2> QED BY <1>1, <1>4, <1>5, Induction
<1>7. ASSUME NEW k \in 1 .. n
      PROVE  w[2 * k - 1] = ss[k][1] /\ w[2 * k] = ss[k][2]
  <2>1. k - 1 \in 0 .. n /\ k \in Nat  BY <1>1
  <2>2. pre[k - 1] = 2 * (k - 1)  BY <1>6, <2>1
  <2>3. Len(ss[k]) = 2  BY DEF n
  <2>4. 1 \in 1 .. Len(ss[k]) /\ 2 \in 1 .. Len(ss[k])  BY <2>3
  <2>5. w[pre[k - 1] + 1] = ss[k][1] /\ w[pre[k - 1] + 2] = ss[k][2]
    BY <1>3, <2>4 DEF Joins, n
  <2>6. pre[k - 1] + 1 = 2 * k - 1 /\ pre[k - 1] + 2 = 2 * k
    BY <2>1, <2>2
  <2> QED BY <2>5, <2>6
<1> QED BY <1>2, <1>7 DEF PairsOf, n, w

\* Where the values of a block start: behind those of the blocks before it.
Source(major, minor, n) ==
    FoldLeft(LAMBDA acc, m : acc + (minor[2 * m] - minor[2 * m - 1]) * (major[2 * m] - major[2 * m - 1]),
             0, [m \in 1 .. n |-> m])
Blocks(major, minor, n, F) ==
    \A k \in 1 .. n : (minor[2 * k] - minor[2 * k - 1]) * (major[2 * k] - major[2 * k - 1]) = F[k]
Sums(h, F, n) == h[0] = 0 /\ \A k \in 1 .. n : h[k] = h[k - 1] + F[k]

\* src of decoder::curtain() has moved past the blocks before.
LEMMA SourceFolds ==
    ASSUME NEW n \in Nat, NEW major, NEW minor, NEW F \in [1 .. n -> Nat],
           Blocks(major, minor, n, F)
    PROVE  \E h \in [0 .. n -> Nat] : Sums(h, F, n) /\ Source(major, minor, n) = h[n]
<1> DEFINE sq == [m \in 1 .. n |-> m]
           G(m) == (minor[2 * m] - minor[2 * m - 1]) * (major[2 * m] - major[2 * m - 1])
           R(g) == g = [T \in SUBSET (1 .. n) |->
                          IF T = {} THEN 0 ELSE g[T \ {Max(T)}] + G(sq[Max(T)])]
           Step == [x \in (1 .. n) \X Nat |-> x[2] + F[x[1]]]
           g == CHOOSE g : R(g)
<1>1. Source(major, minor, n) = g[1 .. n]
  BY DEF Source, FoldLeft, MapThenFoldSet
<1>2. 0 \in Nat /\ Step \in [(1 .. n) \X Nat -> Nat]  OBVIOUS
<1>3. \A k \in 1 .. n, v \in Nat : Step[<<k, v>>] = v + F[k]  OBVIOUS
<1>4. \A T \in SUBSET (1 .. n) : T # {} => Max(T) \in 1 .. n /\ sq[Max(T)] = Max(T)
  BY MaxOfSet
<1>5. \A k \in 1 .. n : G(k) = F[k]  BY DEF Blocks
<1> HIDE DEF Step, sq, G
<1>6. R(g)
  <2>1. PICK f \in [SUBSET (1 .. n) -> Nat] : Folds(f, 0, n, Step)
    BY <1>2, FoldExists
  <2>2. ASSUME NEW T \in SUBSET (1 .. n)
        PROVE f[T] = IF T = {} THEN 0 ELSE f[T \ {Max(T)}] + G(sq[Max(T)])
    <3>1. CASE T = {}  BY <2>1, <3>1 DEF Folds
    <3>2. CASE T # {}
      <4>1. Max(T) \in 1 .. n /\ sq[Max(T)] = Max(T)  BY <1>4, <3>2
      <4>2. f[T] = Step[<<Max(T), f[T \ {Max(T)}]>>]
        BY <2>1, <3>2 DEF Folds
      <4>3. f[T \ {Max(T)}] \in Nat  BY <2>1
      <4>4. f[T] = f[T \ {Max(T)}] + G(Max(T))
        BY <1>3, <1>5, <4>1, <4>2, <4>3
      <4> QED BY <3>2, <4>1, <4>4
    <3> QED BY <3>1, <3>2
  <2>3. R(f)  BY <2>2
  <2> HIDE DEF R
  <2> QED BY <2>3
<1> HIDE DEF g
<1>7. g[{}] = 0  BY <1>6
<1>8. Unfolds(g, 0, n, Step, Nat)
  <2>1. ASSUME NEW T \in SUBSET (1 .. n), T # {}, g[T \ {Max(T)}] \in Nat
        PROVE  g[T] = Step[<<Max(T), g[T \ {Max(T)}]>>]
    <3>1. Max(T) \in 1 .. n /\ sq[Max(T)] = Max(T)  BY <1>4, <2>1
    <3>2. g[T] = g[T \ {Max(T)}] + G(sq[Max(T)])  BY <1>6, <2>1
    <3>3. Step[<<Max(T), g[T \ {Max(T)}]>>] = g[T \ {Max(T)}] + F[Max(T)]
      BY <1>3, <2>1, <3>1
    <3> QED BY <1>5, <3>1, <3>2, <3>3
  <2> QED BY <1>7, <2>1 DEF Unfolds
<1>9. PICK h \in [0 .. n -> Nat] : Iterates(h, 0, n, Step, g[1 .. n])
  BY <1>2, <1>8, FoldSequence
<1>10. \A k \in 1 .. n : k - 1 \in 0 .. n  OBVIOUS
<1>11. \A k \in 1 .. n : h[k] = h[k - 1] + F[k]
  BY <1>3, <1>9, <1>10 DEF Iterates
<1> QED BY <1>1, <1>9, <1>11 DEF Iterates, Sums

\* That is where FlattenSeq() puts them.
LEMMA SourceIs ==
    ASSUME NEW n \in Nat, NEW major, NEW minor, NEW F \in [1 .. n -> Nat],
           Blocks(major, minor, n, F), NEW pre, Sums(pre, F, n)
    PROVE  Source(major, minor, n) = pre[n]
<1>1. PICK h \in [0 .. n -> Nat] : Sums(h, F, n) /\ Source(major, minor, n) = h[n]
  BY SourceFolds
<1> DEFINE S == {k \in 0 .. n : h[k] = pre[k]}
<1>2. 0 \in S  BY <1>1 DEF Sums
<1>3. \A k \in 1 .. n : k - 1 \in S => k \in S  BY <1>1 DEF Sums
<1> HIDE DEF S
<1>4. n \in S  BY <1>2, <1>3, Induction
<1> QED BY <1>1, <1>4 DEF S

\* What one block of a curtain writes: the values of its traces one after the other, each at
\* its place in the array.
ColumnWrote(w, v, zlen, i0, len, z0, zh, src) ==
    /\ \A o \in DOMAIN w : \E c \in 0 .. len - 1, z \in 0 .. zh - 1 : o = (i0 + c) * zlen + (z0 + z)
    /\ \A c \in 0 .. len - 1, z \in 0 .. zh - 1 :
          LET o == (i0 + c) * zlen + (z0 + z)
          IN  o \in DOMAIN w /\ w[o] = v[src + ((c * zh + z) + 1)]

CurtainFunction(zlen, i0, i1, z0, z1, src, v) ==
    [o \in {i * zlen + z : i \in i0 .. i1 - 1, z \in z0 .. z1 - 1} |->
        v[src + (z1 - z0) * (o \div zlen - i0) + (o % zlen) - z0 + 1]]

\* decoder::curtain() in terms of the slots it reads.
LEMMA SlotsOfCurtain ==
    ASSUME NEW slots, NEW n, NEW zlen, NEW i0, NEW i1, NEW z0, NEW z1, NEW src, NEW v,
           slots[3] = zlen, slots[4][2 * n - 1] = i0, slots[4][2 * n] = i1,
           slots[5][2 * n - 1] = z0, slots[5][2 * n] = z1, slots[6] = v,
           Source(slots[4], slots[5], n - 1) = src
    PROVE  CurtainWrites(slots, n) = CurtainFunction(zlen, i0, i1, z0, z1, src, v)
<1> DEFINE g == Source(slots[4], slots[5], n - 1)
<1>1. CurtainWrites(slots, n)
         = [o \in {i * slots[3] + z : i \in slots[4][2 * n - 1] .. slots[4][2 * n] - 1,
                                      z \in slots[5][2 * n - 1] .. slots[5][2 * n] - 1} |->
              slots[6][g + (slots[5][2 * n] - slots[5][2 * n - 1]) * (o \div slots[3] - slots[4][2 * n - 1])
                         + (o % slots[3]) - slots[5][2 * n - 1] + 1]]
  BY DEF CurtainWrites, Source, FoldLeft, MapThenFoldSet
<1> QED BY <1>1 DEF CurtainFunction

\* decoder::curtain() writes a block trace by trace.
LEMMA CurtainFunctionIs ==
    ASSUME NEW zlen \in Nat \ {0}, NEW i0 \in Nat, NEW len \in Nat, NEW z0 \in Nat, NEW zh \in Nat,
           NEW src \in Nat, z0 + zh <= zlen, NEW i1, i1 = i0 + len, NEW z1, z1 = z0 + zh, NEW v
    PROVE  ColumnWrote(CurtainFunction(zlen, i0, i1, z0, z1, src, v), v, zlen, i0, len, z0, zh, src)
<1> DEFINE w == CurtainFunction(zlen, i0, i1, z0, z1, src, v)
<1>1. /\ DOMAIN w = {i * zlen + z : i \in i0 .. i1 - 1, z \in z0 .. z1 - 1}
      /\ \A o \in DOMAIN w : w[o] = v[src + (z1 - z0) * (o \div zlen - i0) + (o % zlen) - z0 + 1]
  BY DEF CurtainFunction
<1> HIDE DEF w
<1>2. z1 - z0 = zh  OBVIOUS
<1>3. ASSUME NEW o \in DOMAIN w
      PROVE  \E c \in 0 .. len - 1, z \in 0 .. zh - 1 : o = (i0 + c) * zlen + (z0 + z)
  <2>1. PICK i \in i0 .. i1 - 1, z \in z0 .. z1 - 1 : o = i * zlen + z
    BY <1>1
  <2>2. i - i0 \in 0 .. len - 1 /\ z - z0 \in 0 .. zh - 1 /\ i0 + (i - i0) = i /\ z0 + (z - z0) = z
    OBVIOUS
  <2> DEFINE c == i - i0  y == z - z0
  <2>3. c \in 0 .. len - 1 /\ y \in 0 .. zh - 1 /\ o = (i0 + c) * zlen + (z0 + y)
    BY <2>1, <2>2
  <2> HIDE DEF c, y
  <2> QED BY <2>3
<1>4. ASSUME NEW c \in 0 .. len - 1, NEW z \in 0 .. zh - 1
      PROVE  /\ (i0 + c) * zlen + (z0 + z) \in DOMAIN w
             /\ w[(i0 + c) * zlen + (z0 + z)] = v[src + ((c * zh + z) + 1)]
  <2> DEFINE i == i0 + c  y == z0 + z  o == i * zlen + y
  <2>1. i \in i0 .. i1 - 1 /\ y \in z0 .. z1 - 1 /\ i \in Nat /\ y \in 0 .. zlen - 1 /\ c \in Nat /\ z \in Nat
    OBVIOUS
  <2>2. i - i0 = c /\ y - z0 = z  OBVIOUS
  <2> HIDE DEF i, y
  <2>3. o \in DOMAIN w  BY <1>1, <2>1
  <2>4. o \div zlen = i /\ o % zlen = y  BY <2>1, DivideUnique
  <2> HIDE DEF o
  <2>5. w[o] = v[src + zh * (i - i0) + y - z0 + 1]
    BY <1>1, <1>2, <2>3, <2>4
  <2>6. zh * (i - i0) = c * zh /\ c * zh \in Nat  BY <2>1, <2>2
  <2> DEFINE m == c * zh  l == zh * (i - i0)
  <2>7. src + l + y - z0 + 1 = src + ((m + z) + 1)
    <3>1. l = m /\ m \in Nat  BY <2>6
    <3> HIDE DEF m, l
    <3> QED BY <3>1, <2>1, <2>2
  <2> QED BY <2>3, <2>5, <2>7 DEF o, i, y
<1> QED BY <1>3, <1>4 DEF ColumnWrote, w

\* A list that goes up does not go up by less than one; without gaps it goes up by one.
Steps(s) == \A c \in 1 .. Len(s) : s[1] + (c - 1) <= s[c]
Runs(s)  == \A c \in 1 .. Len(s) : s[c] = s[1] + (c - 1)
Convex(S) == \A i, k \in S : \A j \in Nat : i <= j /\ j <= k => j \in S

\* An ascending list grows by one at least.
LEMMA AscendingSteps ==
    ASSUME NEW s \in Seq(Nat), \A i, j \in 1 .. Len(s) : i < j => s[i] < s[j]
    PROVE  Steps(s)
<1> DEFINE n == Len(s)  T == {c \in 0 .. n : c = 0 \/ s[1] + (c - 1) <= s[c]}
<1>1. n \in Nat /\ \A c \in 1 .. n : s[c] \in Nat  OBVIOUS
<1>2. 0 \in T  BY <1>1
<1>3. ASSUME NEW c \in 1 .. n, c - 1 \in T PROVE c \in T
  <2>1. CASE c = 1  BY <1>1, <2>1
  <2>2. CASE c # 1
    <3>1. c \in Nat /\ c - 1 \in 1 .. n /\ 1 \in 1 .. n  BY <1>1, <2>2
    <3>2. s[c - 1] < s[c] /\ s[1] + ((c - 1) - 1) <= s[c - 1]
      BY <1>3, <3>1
    <3> DEFINE x == s[c]  y == s[c - 1]  f == s[1]
    <3>3. x \in Nat /\ y \in Nat /\ f \in Nat  BY <1>1, <3>1
    <3>4. f + (c - 1) <= x
      <4>1. y < x /\ f + ((c - 1) - 1) <= y  BY <3>2
      <4> HIDE DEF x, y, f
      <4> QED BY <4>1, <3>1, <3>3
    <3> QED BY <3>4
  <2> QED BY <2>1, <2>2
<1> HIDE DEF T, n
<1>4. \A c \in 0 .. n : c \in T  BY <1>1, <1>2, <1>3, Induction
<1>5. ASSUME NEW c \in 1 .. n PROVE s[1] + (c - 1) <= s[c]
  <2>1. c \in 0 .. n /\ c # 0  BY <1>1
  <2>2. c \in T  BY <1>4, <2>1
  <2> QED BY <2>1, <2>2 DEF T
<1> QED BY <1>5 DEF Steps, n

\* The ascending list of a set without gaps goes up in ones.
LEMMA ConvexRuns ==
    ASSUME NEW S \in SUBSET Nat, Convex(S), NEW s, Enumerates(s, S),
           \A i, j \in 1 .. Len(s) : i < j => s[i] < s[j]
    PROVE  Runs(s)
<1> DEFINE n == Len(s)  T == {c \in 0 .. n : c = 0 \/ s[c] = s[1] + (c - 1)}
<1>1. n \in Nat /\ \A c \in 1 .. n : s[c] \in S /\ s[c] \in Nat
  <2>1. s \in Seq(S)  BY DEF Enumerates
  <2>2. n \in Nat /\ \A c \in 1 .. n : s[c] \in S  BY <2>1
  <2> QED BY <2>2
<1>2. 0 \in T  BY <1>1
<1>3. ASSUME NEW c \in 1 .. n, c - 1 \in T PROVE c \in T
  <2>1. CASE c = 1  BY <1>1, <2>1
  <2>2. CASE c # 1
    <3>1. c \in Nat /\ c - 1 \in 1 .. n /\ 1 \in 1 .. n  BY <1>1, <2>2
    <3>2. s[c - 1] < s[c] /\ s[c - 1] = s[1] + ((c - 1) - 1)
      BY <1>3, <3>1
    <3> DEFINE x == s[c]  y == s[c - 1]  f == s[1]
    <3>3. x \in Nat /\ y \in Nat /\ f \in Nat /\ x \in S /\ y \in S
      BY <1>1, <3>1
    <3>4. y + 1 <= x  BY <3>2, <3>3
    <3>5. y + 1 \in S  BY <3>3, <3>4 DEF Convex
    <3>6. PICK j \in 1 .. n : s[j] = y + 1  BY <3>5 DEF Enumerates
    <3>7. ~(c < j) /\ ~(j < c - 1) /\ j # c - 1
      <4>1. ~(c < j)
        <5>1. c < j => x < y + 1  BY <3>6
        <5> HIDE DEF x, y
        <5> QED BY <5>1, <3>3, <3>4
      <4>2. ~(j < c - 1)
        <5>1. j < c - 1 => y + 1 < y  BY <3>1, <3>6
        <5> HIDE DEF y
        <5> QED BY <5>1, <3>3
      <4>3. j # c - 1
        <5>1. j = c - 1 => y + 1 = y  BY <3>6
        <5> HIDE DEF y
        <5> QED BY <5>1, <3>3
      <4> QED BY <4>1, <4>2, <4>3
    <3>8. j = c  BY <3>1, <3>7
    <3>9. x = f + (c - 1)
      <4>1. x = y + 1 /\ y = f + ((c - 1) - 1)  BY <3>2, <3>6, <3>8
      <4> HIDE DEF x, y, f
      <4> QED BY <4>1, <3>1, <3>3
    <3> QED BY <3>9
  <2> QED BY <2>1, <2>2
<1> HIDE DEF T, n
<1>4. \A c \in 0 .. n : c \in T  BY <1>1, <1>2, <1>3, Induction
<1>5. ASSUME NEW c \in 1 .. n PROVE s[c] = s[1] + (c - 1)
  <2>1. c \in 0 .. n /\ c # 0  BY <1>1
  <2>2. c \in T  BY <1>4, <2>1
  <2> QED BY <2>1, <2>2 DEF T
<1> QED BY <1>5 DEF Runs, n

\* The traces of a curtain are inside of each output.
LEMMA CurtainOutput ==
    ASSUME PlannerInv, stage = "planned", Query.function = "curtain", NEW a \in Range(Wanted)
    PROVE  args.coords \in Seq(Nat \X Nat) /\ TraceInside(Output(a))
<1>1. /\ OutputsOf(outputs) /\ Wanted \in Seq(AttributeNames)
      /\ args \in [attributes : Seq(AttributeNames), idx : Nat, coords : Seq(Nat \X Nat)]
  BY PlanIs
<1>2. DOMAIN Wanted = 1 .. Len(Wanted)  BY <1>1
<1>3. PICK k \in 1 .. Len(Wanted) : Wanted[k] = a  BY <1>2 DEF Range
<1>4. TraceInside(Output(Wanted[k]))  BY <1>1 DEF OutputsOf
<1> QED BY <1>1, <1>3, <1>4

\* The traces in a column of fragments.
LEMMA InColumnIs ==
    ASSUME args.coords \in Seq(Nat \X Nat), NEW o, Boxed(o), NEW id, NEW k
    PROVE  k \in InColumn(o, id) <=>
              /\ k \in DOMAIN args.coords
              /\ id[1] = args.coords[k][1] \div o.shape[1]
              /\ id[2] = args.coords[k][2] \div o.shape[2]
<1>1. o.shape \in ShapesOver(1 .. 3)  BY DEF Boxed
<1>2. CASE k \in DOMAIN args.coords
  <2>1. args.coords[k] \in Nat \X Nat  BY <1>2, ElementOfSeq
  <2>2. /\ FragId(o.shape, Top(args.coords[k]))
              = <<args.coords[k][1] \div o.shape[1], args.coords[k][2] \div o.shape[2], 0>>
        /\ Top(FragId(o.shape, Top(args.coords[k]))) = FragId(o.shape, Top(args.coords[k]))
    BY <1>1, <2>1, ColumnIs DEF Column
  <2>3. k \in InColumn(o, id) <=> FragId(o.shape, Top(args.coords[k])) = <<id[1], id[2], 0>>
    BY <1>2, <2>2 DEF InColumn, Top
  <2> QED BY <1>2, <2>2, <2>3
<1>3. CASE ~(k \in DOMAIN args.coords)  BY <1>3 DEF InColumn
<1> QED BY <1>2, <1>3

\* The place of the sample of a trace in a fragment.
TraceAt(k, z) == <<args.coords[k][1], args.coords[k][2], z>>

\* Where a sample of a trace is in its fragment, and in the cube.
LEMMA SampleInFragment ==
    ASSUME args.coords \in Seq(Nat \X Nat), NEW o, Boxed(o), TraceInside(o),
           NEW id \in FragmentIds(o.cube, o.shape), NEW k \in InColumn(o, id),
           NEW z \in 0 .. Real(o.cube, o.shape, id, 3) - 1
    PROVE  LET l == <<LocalTrace(o, k)[1], LocalTrace(o, k)[2], z>> IN
           /\ l \in CubePoints(o.shape)
           /\ Offset(l, o.shape) = Offset(Top(LocalTrace(o, k)), o.shape) + z
           /\ ToGlobal(o.shape, id, l) = TraceAt(k, id[3] * o.shape[3] + z)
           /\ TraceAt(k, id[3] * o.shape[3] + z) \in CubePoints(o.cube)
<1> DEFINE fs == o.shape  cs == o.cube  x == args.coords[k][1]  y == args.coords[k][2]
           lx == x % fs[1]  ly == y % fs[2]  z0 == id[3] * fs[3]
           l == <<lx, ly, z>>  t == <<lx, ly, 0>>  g == <<x, y, z0 + z>>
<1>1. fs \in [1 .. 3 -> Nat \ {0}] /\ cs \in [1 .. 3 -> Nat \ {0}] /\ id \in [1 .. 3 -> Nat]
  BY DEF Boxed, ShapesOver, FragmentIds
<1>2. k \in DOMAIN args.coords /\ id[1] = x \div fs[1] /\ id[2] = y \div fs[2]
  BY InColumnIs
<1>3. LocalTrace(o, k) = <<lx, ly>> /\ lx \in 0 .. fs[1] - 1 /\ ly \in 0 .. fs[2] - 1
  BY <1>2, LocalTraceIs DEF Boxed
<1>4. x \in 0 .. cs[1] - 1 /\ y \in 0 .. cs[2] - 1
  BY <1>2 DEF TraceInside
<1>5. args.coords[k] \in Nat \X Nat  BY <1>2, ElementOfSeq
<1>6. x \in Nat /\ y \in Nat  BY <1>5
<1>7. /\ id[3] \in Nat /\ z0 \in Nat /\ Real(cs, fs, id, 3) \in Nat
      /\ \A i \in 0 .. Real(cs, fs, id, 3) - 1 : z0 + i < cs[3]
  <2>1. cs \in ShapesOver(1 .. 3) /\ fs \in ShapesOver(1 .. 3) /\ 3 \in 1 .. 3
    BY DEF Boxed
  <2> HIDE DEF cs, fs
  <2>2. id \in FragmentIds(cs, fs)  BY DEF cs, fs
  <2>3. /\ Real(cs, fs, id, 3) \in Nat /\ id[3] \in Nat /\ id[3] * fs[3] \in Nat
        /\ \A i \in 0 .. Real(cs, fs, id, 3) - 1 : (id[3] * fs[3]) + i < cs[3]
    BY <2>1, <2>2, LayoutTyped
  <2> QED BY <2>3
<1>8. z \in Nat /\ z0 + z < cs[3] /\ z < fs[3]
  <2>1. Real(cs, fs, id, 3) \in 1 .. fs[3]  BY RealIs DEF Boxed
  <2> DEFINE r == Real(cs, fs, id, 3)  f == fs[3]
  <2>2. r \in 1 .. f /\ f \in Nat /\ z \in 0 .. r - 1  BY <1>1, <2>1
  <2> HIDE DEF r, f
  <2>3. z \in Nat /\ z < f  BY <2>2
  <2> QED BY <1>7, <2>3 DEF f
<1>9. lx \in Nat /\ ly \in Nat /\ lx < fs[1] /\ ly < fs[2] /\ x < cs[1] /\ y < cs[2]
  <2>1. fs[1] \in Nat /\ fs[2] \in Nat /\ cs[1] \in Nat /\ cs[2] \in Nat
    BY <1>1
  <2>2. /\ lx \in 0 .. fs[1] - 1 /\ ly \in 0 .. fs[2] - 1
        /\ x \in 0 .. cs[1] - 1 /\ y \in 0 .. cs[2] - 1
    BY <1>3, <1>4
  <2>3. \A i, n \in Nat : \A j \in 0 .. n - 1 : j \in Nat /\ j < n
    OBVIOUS
  <2> HIDE DEF lx, ly, x, y, fs, cs
  <2> QED BY <2>1, <2>2, <2>3
<1>10. x = (x \div fs[1]) * fs[1] + lx /\ y = (y \div fs[2]) * fs[2] + ly
  <2>1. fs[1] \in Nat \ {0} /\ fs[2] \in Nat \ {0}  BY <1>1
  <2> QED BY <1>6, <2>1, QuotientRemainder
<1>11. id[1] * fs[1] + lx = x /\ id[2] * fs[2] + ly = y  BY <1>2, <1>10
<1> HIDE DEF lx, ly, x, y, z0
<1>12. l \in [1 .. 3 -> Nat] /\ t \in [1 .. 3 -> Nat] /\ g \in [1 .. 3 -> Nat]
       /\ l[1] = lx /\ l[2] = ly /\ l[3] = z /\ t[1] = lx /\ t[2] = ly /\ t[3] = 0
       /\ g[1] = x /\ g[2] = y /\ g[3] = z0 + z
  BY <1>6, <1>7, <1>8, <1>9
<1>13. TraceAt(k, z0 + z) = g /\ Top(LocalTrace(o, k)) = t
       /\ <<LocalTrace(o, k)[1], LocalTrace(o, k)[2], z>> = l
  BY <1>3 DEF TraceAt, Top, x, y
<1> HIDE DEF l, t, g
<1> HIDE DEF fs, cs
<1>14. \A d \in 1 .. 3 : d = 1 \/ d = 2 \/ d = 3  OBVIOUS
<1>15. l \in CubePoints(fs)
  <2>1. l[1] < fs[1] /\ l[2] < fs[2] /\ l[3] < fs[3]
    BY <1>8, <1>9, <1>12
  <2>2. \A d \in 1 .. 3 : l[d] < fs[d]  BY <1>14, <2>1
  <2>3. DOMAIN fs = 1 .. 3  BY <1>1
  <2> QED BY <1>12, <2>2, <2>3 DEF CubePoints
<1>16. g \in CubePoints(cs)
  <2>1. g[1] < cs[1] /\ g[2] < cs[2] /\ g[3] < cs[3]
    BY <1>8, <1>9, <1>12
  <2>2. \A d \in 1 .. 3 : g[d] < cs[d]  BY <1>14, <2>1
  <2>3. DOMAIN cs = 1 .. 3  BY <1>1
  <2> QED BY <1>12, <2>2, <2>3 DEF CubePoints
<1>17. Offset(l, fs) = Offset(t, fs) + z
  <2>1. fs \in [1 .. 3 -> Nat]  BY <1>1
  <2>2. Offset(l, fs) = (l[1] * fs[2] + l[2]) * fs[3] + l[3]
    BY <1>12, <2>1, OffsetOfThree
  <2>3. Offset(t, fs) = (t[1] * fs[2] + t[2]) * fs[3] + t[3]
    BY <1>12, <2>1, OffsetOfThree
  <2> DEFINE m == (lx * fs[2] + ly) * fs[3]
  <2>4. Offset(l, fs) = m + z /\ Offset(t, fs) = m + 0
    BY <1>12, <2>2, <2>3
  <2>5. m \in Nat
    <3>1. fs[2] \in Nat /\ fs[3] \in Nat /\ lx \in Nat /\ ly \in Nat
      BY <1>9, <2>1
    <3>2. lx * fs[2] + ly \in Nat /\ fs[3] \in Nat  BY <3>1, MultiplyAdd
    <3> DEFINE q == lx * fs[2] + ly
    <3>3. q \in Nat /\ fs[3] \in Nat  BY <3>2
    <3> HIDE DEF q
    <3>4. q * fs[3] \in Nat  BY <3>3
    <3> QED BY <3>4 DEF q
  <2> HIDE DEF m
  <2> QED BY <1>8, <2>4, <2>5
<1>18. ToGlobal(fs, id, l) = g
  <2>1. ToGlobal(fs, id, l) = [d \in 1 .. 3 |-> id[d] * fs[d] + l[d]]
    BY <1>12 DEF ToGlobal
  <2>2. id[1] * fs[1] + l[1] = g[1] /\ id[2] * fs[2] + l[2] = g[2] /\ id[3] * fs[3] + l[3] = g[3]
    BY <1>11, <1>12 DEF z0
  <2>3. \A d \in 1 .. 3 : id[d] * fs[d] + l[d] = g[d]  BY <2>2, <1>14
  <2> QED BY <1>12, <2>1, <2>3
<1> QED BY <1>13, <1>15, <1>16, <1>17, <1>18 DEF z0, fs, cs

\* The values of the traces in a fragment, and those that a task has of its n-th fragment.
HoldsColumn(v, a, o, id) ==
    LET ks == TracesIn(o, id)  zh == Real(o.cube, o.shape, id, 3) IN
    /\ v \in Seq(Value) /\ Len(v) = zh * Len(ks)
    /\ \A c \in 0 .. Len(ks) - 1, z \in 0 .. zh - 1 :
          /\ (c * zh + z) + 1 \in 1 .. Len(v)
          /\ v[(c * zh + z) + 1] = <<a, TraceAt(ks[c + 1], id[3] * o.shape[3] + z)>>

\* The values that are taken of a chunk.
ColumnOfChunk(chunk, fs, zh, traces) ==
    [p \in 1 .. zh * Len(traces) |->
        chunk[Offset(Top(traces[(p - 1) \div zh + 1]), fs) + ((p - 1) % zh)]]

\* What process.cpp takes of a fragment are its traces, without the padding.
LEMMA ColumnOfChunkIs ==
    ASSUME args.coords \in Seq(Nat \X Nat), NEW o, Boxed(o), TraceInside(o), o.attr \in AttributeNames,
           NEW id \in FragmentIds(o.cube, o.shape), InColumn(o, id) # {},
           NEW chunk, ChunkOf(chunk, o.shape, o.cube, id, o.attr)
    PROVE  HoldsColumn(ColumnOfChunk(chunk, o.shape, Real(o.cube, o.shape, id, 3),
                                     Single(o, id).coordinates),
                       o.attr, o, id)
<1> DEFINE fs == o.shape  cs == o.cube  a == o.attr  ks == TracesIn(o, id)  zh == Real(cs, fs, id, 3)
           L == Len(ks)  traces == Single(o, id).coordinates  v == ColumnOfChunk(chunk, fs, zh, traces)
           z0 == id[3] * fs[3]
           S(c, z) == <<a, TraceAt(ks[c + 1], z0 + z)>>
<1>1. zh \in Nat \ {0}
  <2>1. zh \in 1 .. fs[3]  BY RealIs DEF Boxed
  <2>2. fs[3] \in Nat  BY DEF Boxed, ShapesOver
  <2> HIDE DEF zh, fs
  <2> QED BY <2>1, <2>2
<1>2. Enumerates(ks, InColumn(o, id)) /\ ks # <<>>  BY TracesInAre
<1>3. L \in Nat \ {0} /\ \A c \in 1 .. L : ks[c] \in InColumn(o, id)
  <2>1. ks \in Seq(InColumn(o, id)) /\ ks # <<>>  BY <1>2 DEF Enumerates
  <2> HIDE DEF ks
  <2> QED BY <2>1
<1>4. Len(traces) = L /\ \A c \in 1 .. L : traces[c] = LocalTrace(o, ks[c])
  BY SingleIs
<1> HIDE DEF ks, traces, zh, fs, cs, a
<1>5. /\ \A c \in 0 .. L - 1, z \in 0 .. zh - 1 :
            c * zh + z \in 0 .. L * zh - 1 /\ (c * zh + z) \div zh = c /\ (c * zh + z) % zh = z
      /\ \A q \in 0 .. L * zh - 1 :
            q \div zh \in 0 .. L - 1 /\ q % zh \in 0 .. zh - 1 /\ q = (q \div zh) * zh + (q % zh)
      /\ L * zh \in Nat \ {0}
  <2> HIDE DEF L
  <2> QED BY <1>1, <1>3, InRows
<1>6. zh * L = L * zh /\ L * zh \in Nat
  <2> HIDE DEF L
  <2> QED BY <1>1, <1>3
<1>7. v = [p \in 1 .. L * zh |-> chunk[Offset(Top(traces[(p - 1) \div zh + 1]), fs) + ((p - 1) % zh)]]
  <2>1. v = [p \in 1 .. zh * L |-> chunk[Offset(Top(traces[(p - 1) \div zh + 1]), fs) + ((p - 1) % zh)]]
    BY <1>4 DEF ColumnOfChunk
  <2> HIDE DEF v, L
  <2> QED BY <1>6, <2>1
<1> HIDE DEF v, L, S, z0
<1>8. ASSUME NEW c \in 0 .. L - 1, NEW z \in 0 .. zh - 1
      PROVE  (c * zh + z) + 1 \in 1 .. L * zh /\ v[(c * zh + z) + 1] = S(c, z)
  <2> DEFINE q == c * zh + z  k == ks[c + 1]
  <2>1. q \in 0 .. L * zh - 1 /\ q \div zh = c /\ q % zh = z  BY <1>5
  <2> DEFINE N == L * zh
  <2>2. N \in Nat /\ q \in 0 .. N - 1  BY <1>6, <2>1
  <2> HIDE DEF N, q
  <2>3. q + 1 \in 1 .. N /\ (q + 1) - 1 = q  BY <2>2
  <2>4. v[q + 1] = chunk[Offset(Top(traces[q \div zh + 1]), fs) + (q % zh)]
    BY <1>7, <2>3 DEF N
  <2>5. v[q + 1] = chunk[Offset(Top(traces[c + 1]), fs) + z]
    BY <2>1, <2>4
  <2>6. c + 1 \in 1 .. L  BY <1>3
  <2>7. k \in InColumn(o, id) /\ traces[c + 1] = LocalTrace(o, k)
    BY <1>3, <1>4, <2>6
  <2> DEFINE l == <<LocalTrace(o, k)[1], LocalTrace(o, k)[2], z>>
  <2>8. z \in 0 .. Real(o.cube, o.shape, id, 3) - 1  BY DEF zh, cs, fs
  <2> HIDE DEF k
  <2>9. /\ l \in CubePoints(fs)
        /\ Offset(l, fs) = Offset(Top(LocalTrace(o, k)), fs) + z
        /\ ToGlobal(fs, id, l) = TraceAt(k, z0 + z)
        /\ TraceAt(k, z0 + z) \in CubePoints(cs)
    BY <2>7, <2>8, SampleInFragment DEF fs, cs, z0
  <2> HIDE DEF l
  <2>10. chunk[Offset(l, fs)] = Sample(a, cs, ToGlobal(fs, id, l))
    BY <2>9 DEF ChunkOf, fs, cs, a
  <2>11. v[q + 1] = <<a, TraceAt(k, z0 + z)>>
    BY <2>5, <2>7, <2>9, <2>10 DEF Sample
  <2> QED BY <2>3, <2>11 DEF N, q, S, k
<1>9. ASSUME NEW c \in 0 .. L - 1, NEW z \in 0 .. zh - 1 PROVE S(c, z) \in Value
  <2>1. c + 1 \in 1 .. L  BY <1>3
  <2> DEFINE k == ks[c + 1]
  <2>2. k \in InColumn(o, id)  BY <1>3, <2>1
  <2>3. z \in 0 .. Real(o.cube, o.shape, id, 3) - 1  BY DEF zh, cs, fs
  <2> HIDE DEF k
  <2>4. TraceAt(k, z0 + z) \in CubePoints(o.cube)
    BY <2>2, <2>3, SampleInFragment DEF fs, z0
  <2> DEFINE g == TraceAt(k, z0 + z)
  <2>5. Sample(a, o.cube, g) \in Value  BY SampleIsValue DEF a, Boxed
  <2> HIDE DEF g
  <2>6. <<a, g>> \in Value  BY <2>4, <2>5 DEF Sample, g
  <2> QED BY <2>6 DEF S, g, k
<1>10. \A p \in 1 .. L * zh : v[p] \in Value
  <2> TAKE p \in 1 .. L * zh
  <2> DEFINE q == p - 1  c == q \div zh  z == q % zh  N == L * zh
  <2>1. q \in 0 .. N - 1 /\ q + 1 = p
    <3>1. N \in Nat /\ p \in 1 .. N  BY <1>6
    <3> HIDE DEF N
    <3> QED BY <3>1
  <2>2. c \in 0 .. L - 1 /\ z \in 0 .. zh - 1 /\ q = c * zh + z
    BY <1>5, <2>1
  <2> HIDE DEF q, c, z
  <2>3. v[(c * zh + z) + 1] = S(c, z)  BY <1>8, <2>2
  <2>4. S(c, z) \in Value  BY <1>9, <2>2
  <2> QED BY <2>1, <2>2, <2>3, <2>4
<1>11. v \in Seq(Value) /\ Len(v) = L * zh
  <2> DEFINE N == L * zh
  <2>1. N \in Nat /\ DOMAIN v = 1 .. N /\ \A p \in 1 .. N : v[p] \in Value
    BY <1>6, <1>7, <1>10
  <2>2. v = [p \in 1 .. N |-> v[p]]  BY <1>7
  <2> HIDE DEF N
  <2>3. v \in [1 .. N -> Value]  BY <2>1, <2>2
  <2>4. v \in Seq(Value) /\ Len(v) = N  BY <2>1, <2>3, FunctionIsSequence
  <2> QED BY <2>4 DEF N
<1>12. HoldsColumn(v, a, o, id)
  <2>1. v \in Seq(Value) /\ Len(v) = zh * L  BY <1>6, <1>11
  <2>2. \A c \in 0 .. L - 1, z \in 0 .. zh - 1 :
            (c * zh + z) + 1 \in 1 .. Len(v) /\ v[(c * zh + z) + 1] = S(c, z)
    BY <1>8, <1>11
  <2> QED BY <2>1, <2>2 DEF HoldsColumn, S, L, ks, zh, fs, cs, z0
<1> QED BY <1>12 DEF v, a, zh, fs, cs, traces

\* What of a task of a curtain is told about its n-th fragment.
HasColumn(task, n, o) ==
    LET id == IdOf(task.ids[n]) IN
    /\ id \in FragmentIds(o.cube, o.shape) /\ InColumn(o, id) # {}
    /\ task.ids[n] = Single(o, id)
    /\ HoldsColumn(CurtainValues(task, n), o.attr, o, id)

\* So are the values that curtain::add() makes of a fragment of a task.
LEMMA ColumnOfTask ==
    ASSUME PlannerInv, stage = "planned", Query.function = "curtain", NEW a \in Range(Wanted), NEW task,
           TaskOf(task, Output(a)), NEW n \in 1 .. Len(task.ids)
    PROVE  HasColumn(task, n, Output(a))
<1> DEFINE o == Output(a)  u == task.ids[n]  id == IdOf(u)  name == Fragments(task)[n]
           zh == Real(o.cube, o.shape, id, 3)
<1>1. Boxed(o) /\ o.attr = a /\ a \in AttributeNames  BY WantedOutput
<1>2. args.coords \in Seq(Nat \X Nat) /\ TraceInside(o)  BY CurtainOutput
<1>3. /\ task.prefix = o.prefix /\ task.shape = o.shape /\ task.cube = o.cube
      /\ DOMAIN task.ids = 1 .. Len(task.ids)
      /\ id \in NeededIds(o) /\ u = Single(o, id)
  BY DEF TaskOf
<1>4. id \in FragmentIds(o.cube, o.shape) /\ InColumn(o, id) # {}
  BY <1>3 DEF NeededIds
<1>5. u.id = id  BY DEF IdOf
<1>6. name = [prefix |-> o.prefix, shape |-> o.shape, id |-> id]
  BY <1>3, <1>5 DEF Fragments
<1>7. ChunkOf(Chunk(name), o.shape, o.cube, id, a)
  <2>1. name.prefix = o.prefix /\ name.shape = o.shape /\ name.id = id
    BY <1>6
  <2> HIDE DEF name, id
  <2>2. ChunkOf(Chunk(name), o.shape, o.cube, name.id, a)
    BY <2>1, ChunkIs
  <2> QED BY <2>1, <2>2
<1>8. CurtainValues(task, n)
         = ColumnOfChunk(Chunk(name), task.shape, task.shape[3] - Padding(task.cube, task.shape, u.id, 3),
                         u.coordinates)
  BY DEF CurtainValues, ColumnOfChunk
<1>9. CurtainValues(task, n) = ColumnOfChunk(Chunk(name), o.shape, zh, u.coordinates)
  BY <1>3, <1>5, <1>8 DEF Real
<1> HIDE DEF name, id, o, u
<1>10. HoldsColumn(ColumnOfChunk(Chunk(name), o.shape, zh, Single(o, id).coordinates), o.attr, o, id)
  <2> DEFINE chunk == Chunk(name)
  <2>1. ChunkOf(chunk, o.shape, o.cube, id, o.attr)  BY <1>1, <1>7
  <2> HIDE DEF chunk
  <2>2. HoldsColumn(ColumnOfChunk(chunk, o.shape, Real(o.cube, o.shape, id, 3), Single(o, id).coordinates),
                    o.attr, o, id)
    BY <1>1, <1>2, <1>4, <2>1, ColumnOfChunkIs
  <2> QED BY <2>2 DEF chunk
<1>11. HoldsColumn(CurtainValues(task, n), o.attr, o, id)
  BY <1>3, <1>9, <1>10
<1> QED BY <1>3, <1>4, <1>11 DEF HasColumn, o, id, u

\* The last depth of a fragment is where its padding starts.
LEMMA DepthEnds ==
    ASSUME NEW cs \in ShapesOver(1 .. 3), NEW fs \in ShapesOver(1 .. 3), NEW id \in FragmentIds(cs, fs)
    PROVE  /\ Min({id[3] * fs[3] + fs[3], cs[3]}) = id[3] * fs[3] + Real(cs, fs, id, 3)
           /\ id[3] * fs[3] + Real(cs, fs, id, 3) <= cs[3]
           /\ id[3] * fs[3] \in Nat /\ Real(cs, fs, id, 3) \in Nat \ {0}
<1> DEFINE z0 == id[3] * fs[3]  f == fs[3]  c == cs[3]  r == Real(cs, fs, id, 3)
<1>1. z0 \in Nat /\ c \in Nat \ {0} /\ f \in Nat \ {0}  BY LayoutTyped
<1>2. r \in 1 .. f /\ \A i \in 0 .. f - 1 : z0 + i < c <=> i < r
  BY RealIs
<1> HIDE DEF z0, f, c, r
<1>3. r \in Nat \ {0} /\ r <= f  BY <1>1, <1>2
<1>4. z0 + r <= c
  <2>1. r - 1 \in 0 .. f - 1 /\ r - 1 < r  BY <1>1, <1>3
  <2>2. z0 + (r - 1) < c  BY <1>2, <2>1
  <2> QED BY <1>1, <1>3, <2>2
<1>5. z0 + r = z0 + f \/ z0 + r = c
  <2>1. CASE r = f  BY <2>1
  <2>2. CASE r # f
    <3>1. r \in 0 .. f - 1  BY <1>1, <1>3, <2>2
    <3>2. ~(z0 + r < c)  BY <1>2, <3>1
    <3> QED BY <1>1, <1>3, <1>4, <3>2
  <2> QED BY <2>1, <2>2
<1>6. Min({z0 + f, c}) = z0 + r
  <2> DEFINE S == {z0 + f, c}
  <2>1. S \in SUBSET Nat /\ S # {}  BY <1>1
  <2> HIDE DEF S
  <2>2. Min(S) \in S /\ \A y \in S : Min(S) <= y  BY <2>1, LeastOfSet
  <2>3. z0 + f \in S /\ c \in S /\ \A y \in S : y = z0 + f \/ y = c
    BY DEF S
  <2> DEFINE m == Min(S)
  <2>4. m <= z0 + f /\ m <= c /\ (m = z0 + f \/ m = c)  BY <2>2, <2>3
  <2> HIDE DEF m
  <2>5. m = z0 + r  BY <1>1, <1>3, <1>4, <1>5, <2>4
  <2> QED BY <2>5 DEF m, S
<1> QED BY <1>1, <1>3, <1>4, <1>6 DEF z0, f, c, r

\* The bounds of the traces and of the depths of a fragment.
FirstTrace(o, id) == TracesIn(o, id)[1] - 1
Traces(o, id)     == Len(TracesIn(o, id))
Depths(o, id)     == Real(o.cube, o.shape, id, 3)

\* The traces of a fragment that is needed are traces of the curtain.
LEMMA TracesTyped ==
    ASSUME args.coords \in Seq(Nat \X Nat), NEW o, NEW id, InColumn(o, id) # {}
    PROVE  /\ FirstTrace(o, id) \in Nat /\ Traces(o, id) \in Nat \ {0}
           /\ \A c \in 1 .. Traces(o, id) :
                 TracesIn(o, id)[c] \in InColumn(o, id) /\ TracesIn(o, id)[c] \in 1 .. Len(args.coords)
<1> DEFINE ks == TracesIn(o, id)
<1>1. Enumerates(ks, InColumn(o, id)) /\ ks # <<>> /\ InColumn(o, id) \in SUBSET (1 .. Len(args.coords))
  BY TracesInAre
<1> HIDE DEF ks
<1>2. ks \in Seq(InColumn(o, id))  BY <1>1 DEF Enumerates
<1>3. Len(ks) \in Nat \ {0} /\ \A c \in 1 .. Len(ks) : ks[c] \in InColumn(o, id)
  BY <1>1, <1>2
<1>4. \A c \in 1 .. Len(ks) : ks[c] \in 1 .. Len(args.coords)
  BY <1>1, <1>3
<1>5. ks[1] - 1 \in Nat
  <2>1. ks[1] \in 1 .. Len(args.coords)  BY <1>3, <1>4
  <2> QED BY <2>1
<1> QED BY <1>3, <1>4, <1>5 DEF FirstTrace, Traces, ks

\* What is written of a column: samples, each at the place of its trace and depth, and all of
\* them.
WritesColumn(w, a, o, id) ==
    LET i0 == FirstTrace(o, id)  z0 == id[3] * o.shape[3]  zlen == o.cube[3]
        ks == TracesIn(o, id) IN
    /\ \A off \in DOMAIN w : \E c \in 0 .. Traces(o, id) - 1, z \in 0 .. Depths(o, id) - 1 :
          off = (i0 + c) * zlen + (z0 + z) /\ w[off] = <<a, TraceAt(ks[c + 1], z0 + z)>>
    /\ \A c \in 0 .. Traces(o, id) - 1, z \in 0 .. Depths(o, id) - 1 :
          (i0 + c) * zlen + (z0 + z) \in DOMAIN w

\* How the bounds and the values are packed.
Majors(task) == [n \in DOMAIN task.ids |->
                    LET id == task.ids[n] IN <<id.offset, id.offset + Len(id.coordinates)>>]
Minors(task) == [n \in DOMAIN task.ids |->
                    LET zfst == task.ids[n].id[3] * task.shape[3] IN
                    <<zfst, Min({zfst + task.shape[3], task.cube[3]})>>]
Columns(task) == [n \in DOMAIN task.ids |-> CurtainValues(task, n)]

\* A bundle and its message by their parts.
LEMMA BundleParts ==
    ASSUME NEW task
    PROVE  LET b == CurtainBundle(task) IN
           /\ b = [attr |-> task.attr, size |-> Len(task.ids), zlength |-> task.cube[3],
                   major |-> FlattenSeq(Majors(task)), minor |-> FlattenSeq(Minors(task)),
                   values |-> FlattenSeq(Columns(task))]
           /\ PackCurtain(b) = <<task.attr, Len(task.ids), task.cube[3], FlattenSeq(Majors(task)),
                                 FlattenSeq(Minors(task)), FlattenSeq(Columns(task))>>
<1>1. CurtainBundle(task) = [attr |-> task.attr, size |-> Len(task.ids), zlength |-> task.cube[3],
                   major |-> FlattenSeq(Majors(task)), minor |-> FlattenSeq(Minors(task)),
                   values |-> FlattenSeq(Columns(task))]
  BY DEF CurtainBundle, Majors, Minors, Columns
<1> QED BY <1>1 DEF PackCurtain

\* The bounds of the n-th fragment of a task.
Bounds(task, n, o) ==
    LET id == IdOf(task.ids[n])  z0 == id[3] * o.shape[3] IN
    /\ Majors(task)[n] = <<FirstTrace(o, id), FirstTrace(o, id) + Traces(o, id)>>
    /\ Minors(task)[n] = <<z0, z0 + Depths(o, id)>>
    /\ FirstTrace(o, id) \in Nat /\ Traces(o, id) \in Nat \ {0} /\ Depths(o, id) \in Nat \ {0}
    /\ z0 \in Nat /\ z0 + Depths(o, id) <= o.cube[3]

\* The major and minor indices of a fragment bound its traces and depths.
LEMMA BoundsAre ==
    ASSUME PlannerInv, stage = "planned", Query.function = "curtain", NEW a \in Range(Wanted), NEW task,
           TaskOf(task, Output(a)), NEW n \in 1 .. Len(task.ids)
    PROVE  Bounds(task, n, Output(a))
<1> DEFINE o == Output(a)  u == task.ids[n]  id == IdOf(u)  z0 == id[3] * o.shape[3]
<1>1. HasColumn(task, n, o)  BY ColumnOfTask
<1>2. Boxed(o) /\ args.coords \in Seq(Nat \X Nat)
  BY WantedOutput, CurtainOutput
<1>3. id \in FragmentIds(o.cube, o.shape) /\ InColumn(o, id) # {} /\ u = Single(o, id)
  BY <1>1 DEF HasColumn
<1>4. task.shape = o.shape /\ task.cube = o.cube /\ n \in DOMAIN task.ids
  BY DEF TaskOf
<1> HIDE DEF o, id
<1>5. /\ u.id = id /\ u.offset = FirstTrace(o, id) /\ Len(u.coordinates) = Traces(o, id)
  <2>1. /\ Single(o, id).id = id /\ Single(o, id).offset = TracesIn(o, id)[1] - 1
        /\ Len(Single(o, id).coordinates) = Len(TracesIn(o, id))
    BY <1>2, <1>3, SingleIs
  <2> HIDE DEF u
  <2> QED BY <1>3, <2>1 DEF FirstTrace, Traces
<1>6. /\ Min({z0 + o.shape[3], o.cube[3]}) = z0 + Depths(o, id)
      /\ z0 + Depths(o, id) <= o.cube[3] /\ z0 \in Nat /\ Depths(o, id) \in Nat \ {0}
  <2>1. o.cube \in ShapesOver(1 .. 3) /\ o.shape \in ShapesOver(1 .. 3)
    BY <1>2 DEF Boxed
  <2> DEFINE cs == o.cube  fs == o.shape
  <2>2. cs \in ShapesOver(1 .. 3) /\ fs \in ShapesOver(1 .. 3) /\ id \in FragmentIds(cs, fs)
    BY <1>3, <2>1
  <2> HIDE DEF cs, fs
  <2>3. /\ Min({id[3] * fs[3] + fs[3], cs[3]}) = id[3] * fs[3] + Real(cs, fs, id, 3)
        /\ id[3] * fs[3] + Real(cs, fs, id, 3) <= cs[3]
        /\ id[3] * fs[3] \in Nat /\ Real(cs, fs, id, 3) \in Nat \ {0}
    BY <2>2, DepthEnds
  <2> QED BY <2>3 DEF Depths, cs, fs
<1>7. FirstTrace(o, id) \in Nat /\ Traces(o, id) \in Nat \ {0}
  BY <1>2, <1>3, TracesTyped
<1>8. Majors(task)[n] = <<u.offset, u.offset + Len(u.coordinates)>>
  BY <1>4 DEF Majors
<1>9. Minors(task)[n] = <<u.id[3] * task.shape[3],
                          Min({u.id[3] * task.shape[3] + task.shape[3], task.cube[3]})>>
  BY <1>4 DEF Minors
<1>10. Majors(task)[n] = <<FirstTrace(o, id), FirstTrace(o, id) + Traces(o, id)>>
  BY <1>5, <1>8
<1>11. Minors(task)[n] = <<z0, z0 + Depths(o, id)>>
  BY <1>4, <1>5, <1>6, <1>9
<1> QED BY <1>6, <1>7, <1>10, <1>11 DEF Bounds, o, id

\* How the bundle of a curtain is packed.
Packed(task, o) ==
    LET N == Len(task.ids)  major == FlattenSeq(Majors(task))  minor == FlattenSeq(Minors(task))
        values == FlattenSeq(Columns(task)) IN
    /\ PairsOf(major, Majors(task), N) /\ PairsOf(minor, Minors(task), N)
    /\ values \in Seq(Value)
    /\ \E pre \in [0 .. N -> Nat] : Joins(values, Columns(task), pre)

\* What the slots of the message of a curtain hold.
LEMMA PackedIs ==
    ASSUME PlannerInv, stage = "planned", Query.function = "curtain", NEW a \in Range(Wanted), NEW task,
           TaskOf(task, Output(a))
    PROVE  Packed(task, Output(a))
<1> DEFINE o == Output(a)  N == Len(task.ids)
<1>1. DOMAIN task.ids = 1 .. N /\ N \in Nat \ {0}  BY DEF TaskOf
<1>2. \A n \in 1 .. N : Bounds(task, n, o) /\ HasColumn(task, n, o)
  BY BoundsAre, ColumnOfTask
<1> HIDE DEF o, N
<1>3. /\ Majors(task) = [n \in 1 .. N |-> Majors(task)[n]]
      /\ Minors(task) = [n \in 1 .. N |-> Minors(task)[n]]
      /\ Columns(task) = [n \in 1 .. N |-> CurtainValues(task, n)]
  BY <1>1 DEF Majors, Minors, Columns
<1>4. ASSUME NEW n \in 1 .. N
      PROVE  /\ Majors(task)[n] \in Seq(Nat) /\ Len(Majors(task)[n]) = 2
             /\ Minors(task)[n] \in Seq(Nat) /\ Len(Minors(task)[n]) = 2
             /\ CurtainValues(task, n) \in Seq(Value)
  <2> DEFINE id == IdOf(task.ids[n])  i0 == FirstTrace(o, id)  l == Traces(o, id)
             z0 == id[3] * o.shape[3]  h == Depths(o, id)
  <2>1. /\ Majors(task)[n] = <<i0, i0 + l>> /\ Minors(task)[n] = <<z0, z0 + h>>
        /\ i0 \in Nat /\ l \in Nat /\ z0 \in Nat /\ h \in Nat
    BY <1>2 DEF Bounds
  <2>2. CurtainValues(task, n) \in Seq(Value)
    BY <1>2 DEF HasColumn, HoldsColumn
  <2> HIDE DEF i0, l, z0, h
  <2> QED BY <2>1, <2>2
<1>5. /\ Majors(task) \in Seq(Seq(Nat)) /\ Len(Majors(task)) = N
      /\ Minors(task) \in Seq(Seq(Nat)) /\ Len(Minors(task)) = N
      /\ Columns(task) \in Seq(Seq(Value)) /\ Len(Columns(task)) = N
  <2>1. Majors(task) \in [1 .. N -> Seq(Nat)]  BY <1>3, <1>4
  <2>2. Minors(task) \in [1 .. N -> Seq(Nat)]  BY <1>3, <1>4
  <2>3. Columns(task) \in [1 .. N -> Seq(Value)]  BY <1>3, <1>4
  <2> QED BY <1>1, <2>1, <2>2, <2>3, FunctionIsSequence
<1>6. PairsOf(FlattenSeq(Majors(task)), Majors(task), N)
  <2> DEFINE ss == Majors(task)
  <2>1. ss \in Seq(Seq(Nat)) /\ Len(ss) = N /\ \A k \in 1 .. Len(ss) : Len(ss[k]) = 2
    BY <1>4, <1>5
  <2> HIDE DEF ss
  <2>2. PairsOf(FlattenSeq(ss), ss, Len(ss))  BY <2>1, PairsAreJoined
  <2> QED BY <2>1, <2>2 DEF ss
<1>7. PairsOf(FlattenSeq(Minors(task)), Minors(task), N)
  <2> DEFINE ss == Minors(task)
  <2>1. ss \in Seq(Seq(Nat)) /\ Len(ss) = N /\ \A k \in 1 .. Len(ss) : Len(ss[k]) = 2
    BY <1>4, <1>5
  <2> HIDE DEF ss
  <2>2. PairsOf(FlattenSeq(ss), ss, Len(ss))  BY <2>1, PairsAreJoined
  <2> QED BY <2>1, <2>2 DEF ss
<1>8. /\ FlattenSeq(Columns(task)) \in Seq(Value)
      /\ \E pre \in [0 .. N -> Nat] : Joins(FlattenSeq(Columns(task)), Columns(task), pre)
  <2> DEFINE ss == Columns(task)
  <2>1. ss \in Seq(Seq(Value)) /\ Len(ss) = N  BY <1>5
  <2> HIDE DEF ss
  <2>2. /\ FlattenSeq(ss) \in Seq(Value)
        /\ \E pre \in [0 .. Len(ss) -> Nat] : Joins(FlattenSeq(ss), ss, pre)
    BY <2>1, FlattenSeqJoins
  <2> QED BY <2>1, <2>2 DEF ss
<1> QED BY <1>6, <1>7, <1>8 DEF Packed, N

\* The bundle of a task of a curtain.
Unpacks(task) == PackCurtain(CurtainBundle(task))

\* The values of a fragment in a bundle.
LEMMA BundleIsTyped ==
    ASSUME PlannerInv, stage = "planned", Query.function = "curtain", NEW a \in Range(Wanted), NEW task,
           TaskOf(task, Output(a))
    PROVE  CurtainBundle(task) \in curtain_bundle
<1> DEFINE o == Output(a)  N == Len(task.ids)
           major == FlattenSeq(Majors(task))  minor == FlattenSeq(Minors(task))
           values == FlattenSeq(Columns(task))
<1>1. Packed(task, o)  BY PackedIs
<1>2. major \in Seq(Nat) /\ minor \in Seq(Nat) /\ values \in Seq(Value)
  BY <1>1 DEF Packed, PairsOf
<1>3. task.attr = a /\ a \in AttributeNames  BY WantedOutput DEF TaskOf
<1>4. N \in Nat /\ task.cube[3] \in Nat
  <2>1. o.cube \in ShapesOver(1 .. 3)  BY WantedOutput DEF Boxed
  <2>2. o.cube[3] \in Nat  BY <2>1 DEF ShapesOver
  <2> QED BY <2>2 DEF TaskOf
<1>5. CurtainBundle(task) = [attr |-> task.attr, size |-> N, zlength |-> task.cube[3],
                             major |-> major, minor |-> minor, values |-> values]
  BY BundleParts
<1> HIDE DEF major, minor, values, N
<1> QED BY <1>2, <1>3, <1>4, <1>5 DEF curtain_bundle

\* The decoder reads the values of a fragment where they are packed.
LEMMA SourceOfColumn ==
    ASSUME PlannerInv, stage = "planned", Query.function = "curtain", NEW a \in Range(Wanted), NEW task,
           TaskOf(task, Output(a)), NEW n \in 1 .. Len(task.ids), NEW pre \in [0 .. Len(task.ids) -> Nat],
           Joins(FlattenSeq(Columns(task)), Columns(task), pre)
    PROVE  Source(FlattenSeq(Majors(task)), FlattenSeq(Minors(task)), n - 1) = pre[n - 1]
<1> DEFINE o == Output(a)  N == Len(task.ids)
           major == FlattenSeq(Majors(task))  minor == FlattenSeq(Minors(task))
           F == [k \in 1 .. n - 1 |-> Len(CurtainValues(task, k))]
<1>1. DOMAIN task.ids = 1 .. N /\ N \in Nat \ {0}  BY DEF TaskOf
<1>2. \A k \in 1 .. N : Bounds(task, k, o) /\ HasColumn(task, k, o)
  BY BoundsAre, ColumnOfTask
<1>3. Packed(task, o)  BY PackedIs
<1>4. n - 1 \in Nat /\ \A k \in 1 .. n - 1 : k \in 1 .. N
  <2> HIDE DEF N
  <2> QED BY <1>1 DEF N
<1>5. \A k \in 1 .. N : /\ major[2 * k - 1] = Majors(task)[k][1] /\ major[2 * k] = Majors(task)[k][2]
                        /\ minor[2 * k - 1] = Minors(task)[k][1] /\ minor[2 * k] = Minors(task)[k][2]
  BY <1>3 DEF Packed, PairsOf
<1>6. Len(Columns(task)) = N /\ \A k \in 1 .. N : Columns(task)[k] = CurtainValues(task, k)
  <2>1. Columns(task) = [k \in 1 .. N |-> CurtainValues(task, k)]
    BY <1>1 DEF Columns
  <2> HIDE DEF N
  <2>2. DOMAIN Columns(task) = 1 .. N /\ N \in Nat  BY <1>1, <2>1
  <2>3. Columns(task) \in Seq({CurtainValues(task, k) : k \in 1 .. N}) /\ Len(Columns(task)) = N
    BY <1>1, <2>1, FunctionIsSequence
  <2> QED BY <2>1, <2>3
<1> HIDE DEF o, N, major, minor
<1>7. ASSUME NEW k \in 1 .. n - 1
      PROVE  /\ (minor[2 * k] - minor[2 * k - 1]) * (major[2 * k] - major[2 * k - 1])
                   = Len(CurtainValues(task, k))
             /\ Len(CurtainValues(task, k)) \in Nat
  <2> DEFINE id == IdOf(task.ids[k])  i0 == FirstTrace(o, id)  l == Traces(o, id)
             z0 == id[3] * o.shape[3]  h == Depths(o, id)
  <2>1. k \in 1 .. N  BY <1>4
  <2>2. /\ Majors(task)[k] = <<i0, i0 + l>> /\ Minors(task)[k] = <<z0, z0 + h>>
        /\ i0 \in Nat /\ l \in Nat /\ z0 \in Nat /\ h \in Nat
    BY <1>2, <2>1 DEF Bounds
  <2>3. Len(CurtainValues(task, k)) = h * l
    BY <1>2, <2>1 DEF HasColumn, HoldsColumn, Depths, Traces
  <2> HIDE DEF i0, l, z0, h
  <2>4. /\ major[2 * k - 1] = i0 /\ major[2 * k] = i0 + l
        /\ minor[2 * k - 1] = z0 /\ minor[2 * k] = z0 + h
    BY <1>5, <2>1, <2>2
  <2>5. (z0 + h) - z0 = h /\ (i0 + l) - i0 = l  BY <2>2
  <2>6. h * l \in Nat  BY <2>2
  <2> QED BY <2>3, <2>4, <2>5, <2>6
<1>8. F \in [1 .. n - 1 -> Nat] /\ \A k \in 1 .. n - 1 : F[k] = Len(CurtainValues(task, k))
  BY <1>7
<1> HIDE DEF F
<1>9. Blocks(major, minor, n - 1, F)  BY <1>7, <1>8 DEF Blocks
<1>10. Sums(pre, F, n - 1)
  <2>1. pre[0] = 0 /\ \A k \in 1 .. N : pre[k] = pre[k - 1] + Len(CurtainValues(task, k))
    BY <1>6 DEF Joins
  <2>2. \A k \in 1 .. n - 1 : pre[k] = pre[k - 1] + F[k]
    BY <1>4, <1>8, <2>1
  <2> QED BY <2>1, <2>2 DEF Sums
<1> DEFINE m == n - 1
<1>11. m \in Nat /\ F \in [1 .. m -> Nat] /\ Blocks(major, minor, m, F) /\ Sums(pre, F, m)
  BY <1>4, <1>8, <1>9, <1>10
<1> HIDE DEF m
<1>12. Source(major, minor, m) = pre[m]  BY <1>11, SourceIs
<1> QED BY <1>12 DEF m, major, minor

\* What a fetch node makes of a fragment of a curtain is written where it belongs.
LEMMA ColumnIsWritten ==
    ASSUME PlannerInv, stage = "planned", Query.function = "curtain", NEW a \in Range(Wanted), NEW task,
           TaskOf(task, Output(a)), NEW n \in 1 .. Len(task.ids)
    PROVE  WritesColumn(CurtainWrites(Unpacks(task), n), a, Output(a), IdOf(task.ids[n]))
<1> DEFINE o == Output(a)  N == Len(task.ids)  id == IdOf(task.ids[n])  slots == Unpacks(task)
           major == FlattenSeq(Majors(task))  minor == FlattenSeq(Minors(task))
           values == FlattenSeq(Columns(task))
           ks == TracesIn(o, id)  i0 == FirstTrace(o, id)  l == Traces(o, id)
           z0 == id[3] * o.shape[3]  h == Depths(o, id)  zlen == o.cube[3]
           w == CurtainWrites(slots, n)
<1>1. /\ DOMAIN task.ids = 1 .. N /\ N \in Nat \ {0} /\ task.cube = o.cube
  BY DEF TaskOf
<1>2. Bounds(task, n, o) /\ HasColumn(task, n, o)
  BY BoundsAre, ColumnOfTask
<1>3. Packed(task, o) /\ o.attr = a  BY PackedIs, WantedOutput
<1>4. zlen \in Nat \ {0}
  <2>1. o.cube \in ShapesOver(1 .. 3)  BY WantedOutput DEF Boxed
  <2> QED BY <2>1 DEF ShapesOver
<1>5. PICK pre \in [0 .. N -> Nat] : Joins(values, Columns(task), pre)
  BY <1>3 DEF Packed
<1> DEFINE src == pre[n - 1]
<1>6. Source(major, minor, n - 1) = src  BY <1>5, SourceOfColumn
<1>7. src \in Nat
  <2>1. n - 1 \in 0 .. N  BY <1>1
  <2> HIDE DEF N
  <2> QED BY <1>5, <2>1
<1>8. /\ slots[3] = zlen /\ slots[4] = major /\ slots[5] = minor /\ slots[6] = values
  <2>1. slots = <<task.attr, N, task.cube[3], major, minor, values>>
    BY BundleParts DEF Unpacks
  <2> HIDE DEF slots, major, minor, values, N, o
  <2> QED BY <1>1, <2>1
<1>9. /\ major[2 * n - 1] = Majors(task)[n][1] /\ major[2 * n] = Majors(task)[n][2]
      /\ minor[2 * n - 1] = Minors(task)[n][1] /\ minor[2 * n] = Minors(task)[n][2]
  BY <1>3 DEF Packed, PairsOf
<1>10. /\ Majors(task)[n] = <<i0, i0 + l>> /\ Minors(task)[n] = <<z0, z0 + h>>
       /\ i0 \in Nat /\ l \in Nat \ {0} /\ h \in Nat \ {0} /\ z0 \in Nat /\ z0 + h <= zlen
  BY <1>2 DEF Bounds
<1>11. \A c \in 0 .. l - 1, z \in 0 .. h - 1 :
          /\ (c * h + z) + 1 \in 1 .. Len(CurtainValues(task, n))
          /\ CurtainValues(task, n)[(c * h + z) + 1] = <<a, TraceAt(ks[c + 1], z0 + z)>>
  BY <1>2, <1>3 DEF HasColumn, HoldsColumn, Depths, Traces
<1>12. \A i \in 1 .. Len(CurtainValues(task, n)) : values[src + i] = CurtainValues(task, n)[i]
  <2>1. n \in 1 .. N  OBVIOUS
  <2>2. Columns(task) = [k \in 1 .. N |-> CurtainValues(task, k)]
    BY <1>1 DEF Columns
  <2>3. Columns(task)[n] = CurtainValues(task, n)  BY <2>1, <2>2
  <2>4. Len(Columns(task)) = N
    <3> HIDE DEF N
    <3>1. Columns(task) \in Seq({CurtainValues(task, k) : k \in 1 .. N}) /\ Len(Columns(task)) = N
      BY <1>1, <2>2, FunctionIsSequence
    <3> QED BY <3>1
  <2>5. n \in 1 .. Len(Columns(task))  BY <2>1, <2>4
  <2> HIDE DEF values, src
  <2> QED BY <1>5, <2>3, <2>5 DEF Joins, src
<1> HIDE DEF slots, major, minor, values, src, i0, l, z0, h, zlen, ks, id, o, N
<1>13. /\ slots[4][2 * n - 1] = i0 /\ slots[4][2 * n] = i0 + l
       /\ slots[5][2 * n - 1] = z0 /\ slots[5][2 * n] = z0 + h
       /\ Source(slots[4], slots[5], n - 1) = src
  BY <1>6, <1>8, <1>9, <1>10
<1>14. w = CurtainFunction(zlen, i0, i0 + l, z0, z0 + h, src, values)
  <2> DEFINE i1 == i0 + l  z1 == z0 + h
  <2>1. slots[4][2 * n] = i1 /\ slots[5][2 * n] = z1  BY <1>13
  <2> HIDE DEF i1, z1
  <2>2. w = CurtainFunction(zlen, i0, i1, z0, z1, src, values)
    BY <1>8, <1>13, <2>1, SlotsOfCurtain
  <2> QED BY <2>2 DEF i1, z1
<1>15. ColumnWrote(CurtainFunction(zlen, i0, i0 + l, z0, z0 + h, src, values), values, zlen, i0, l, z0, h, src)
  <2> DEFINE i1 == i0 + l  z1 == z0 + h
  <2>1. l \in Nat /\ h \in Nat /\ i1 = i0 + l /\ z1 = z0 + h  BY <1>10
  <2> HIDE DEF i1, z1
  <2>2. ColumnWrote(CurtainFunction(zlen, i0, i1, z0, z1, src, values), values, zlen, i0, l, z0, h, src)
    BY <1>4, <1>7, <1>10, <2>1, CurtainFunctionIs
  <2> QED BY <2>2 DEF i1, z1
<1> HIDE DEF w
<1>16. ColumnWrote(w, values, zlen, i0, l, z0, h, src)  BY <1>14, <1>15
<1>17. \A c \in 0 .. l - 1, z \in 0 .. h - 1 :
          values[src + ((c * h + z) + 1)] = <<a, TraceAt(ks[c + 1], z0 + z)>>
  BY <1>11, <1>12
<1>18. ASSUME NEW off \in DOMAIN w
       PROVE  \E c \in 0 .. l - 1, z \in 0 .. h - 1 :
                 off = (i0 + c) * zlen + (z0 + z) /\ w[off] = <<a, TraceAt(ks[c + 1], z0 + z)>>
  <2>1. PICK c \in 0 .. l - 1, z \in 0 .. h - 1 : off = (i0 + c) * zlen + (z0 + z)
    BY <1>16 DEF ColumnWrote
  <2>2. w[(i0 + c) * zlen + (z0 + z)] = values[src + ((c * h + z) + 1)]
    BY <1>16 DEF ColumnWrote
  <2> QED BY <1>17, <2>1, <2>2
<1>19. \A c \in 0 .. l - 1, z \in 0 .. h - 1 : (i0 + c) * zlen + (z0 + z) \in DOMAIN w
  BY <1>16 DEF ColumnWrote
<1> QED BY <1>18, <1>19 DEF WritesColumn, w, slots, i0, l, z0, h, zlen, ks, id, o

\* The arrays of a curtain have the traces one after the other.
LEMMA CurtainShapeIs ==
    ASSUME PlannerInv, stage = "planned", Query.function = "curtain", NEW a \in Range(head.attributes)
    PROVE  head.shapes[Place(a)] = IF a = "data" THEN <<Len(args.coords), Len(Lines(3))>>
                                                 ELSE <<Len(args.coords)>>
<1>1. /\ \A k \in DOMAIN head.attributes : Place(head.attributes[k]) = k
      /\ DOMAIN head.attributes = 1 .. Len(args.attributes) + 1 /\ Len(args.attributes) \in Nat
      /\ head.attributes[1] = "data"
      /\ \A k \in 2 .. Len(args.attributes) + 1 : head.attributes[k] # "data"
  BY PlaceIs
<1>2. CurtainHead(head)  BY HeadIs
<1>3. PICK k \in DOMAIN head.attributes : head.attributes[k] = a
  BY DEF Range
<1>4. Place(a) = k /\ k \in 1 .. Len(args.attributes) + 1  BY <1>1, <1>3
<1>5. CASE k = 1  BY <1>1, <1>2, <1>3, <1>4, <1>5 DEF CurtainHead
<1>6. CASE k # 1
  <2>1. k \in 2 .. Len(args.attributes) + 1 /\ k - 1 \in 1 .. Len(args.attributes) /\ 1 + (k - 1) = k
    BY <1>1, <1>4, <1>6
  <2>2. head.shapes[1 + (k - 1)] = <<Len(args.coords)>>
    BY <1>2, <2>1 DEF CurtainHead
  <2>3. a # "data"  BY <1>1, <1>3, <2>1
  <2> QED BY <1>4, <2>1, <2>2, <2>3
<1> QED BY <1>5, <1>6

\* As large as the traces and the depths of the output.
CurtainSize(a, n, zlen) == Size(a) = n * zlen

\* The arrays of a curtain have a value for each trace and depth.
LEMMA CurtainSizeIs ==
    ASSUME PlannerInv, stage = "planned", Query.function = "curtain", NEW a \in Range(Wanted)
    PROVE  /\ CurtainSize(a, Len(args.coords), Output(a).cube[3])
           /\ Len(args.coords) \in Nat /\ Output(a).cube[3] \in Nat \ {0}
           /\ a = "data" => Output(a).cube[3] = Len(Lines(3))
<1> DEFINE n == Len(args.coords)  o == Output(a)
<1>1. /\ Boxed(o) /\ o.cube = [d \in 1 .. 3 |-> IF d = 3 /\ a # "data" THEN 1 ELSE Len(Lines(d))]
  BY WantedOutput
<1>2. o.cube[3] \in Nat \ {0} /\ o.cube[3] = IF a # "data" THEN 1 ELSE Len(Lines(3))
  <2>1. o.cube \in ShapesOver(1 .. 3)  BY <1>1 DEF Boxed
  <2>2. o.cube[3] \in Nat \ {0}  BY <2>1 DEF ShapesOver
  <2> QED BY <1>1, <2>2
<1>3. n \in Nat
  <2>1. args.coords \in Seq(Nat \X Nat)  BY CurtainOutput
  <2> QED BY <2>1
<1>4. a \in Range(head.attributes)  BY PlaceIs
<1>5. head.shapes[Place(a)] = IF a = "data" THEN <<n, Len(Lines(3))>> ELSE <<n>>
  BY <1>4, CurtainShapeIs
<1> HIDE DEF n, o
<1>6. CASE a = "data"
  <2> DEFINE s == <<n, Len(Lines(3))>>
  <2>1. s \in [1 .. 2 -> Nat] /\ s[1] = n /\ s[2] = o.cube[3]
    BY <1>2, <1>3, <1>6
  <2>2. Size(a) = Product(s)  BY <1>5, <1>6 DEF Size
  <2> HIDE DEF s
  <2>3. Product(s) = s[1] * s[2]  BY <2>1, ProductOfTwo
  <2> QED BY <1>2, <1>3, <1>6, <2>1, <2>2, <2>3 DEF CurtainSize, n, o
<1>7. CASE a # "data"
  <2>1. Size(a) = n  BY <1>3, <1>5, <1>7, ProductOfNoneAndOne DEF Size
  <2>2. n * o.cube[3] = n  BY <1>2, <1>3, <1>7
  <2> QED BY <1>2, <1>3, <1>7, <2>1, <2>2 DEF CurtainSize, n, o
<1> QED BY <1>6, <1>7

\* The traces of the data that are in a fragment are consecutive, and so are their places.
LEMMA DataTracesRun ==
    ASSUME PlannerInv, stage = "planned", Query.function = "curtain", NEW id,
           InColumn(Output("data"), id) # {}
    PROVE  Runs(TracesIn(Output("data"), id))
<1> DEFINE o == Output("data")  S == InColumn(o, id)  ks == TracesIn(o, id)  c == args.coords
<1>1. /\ job \in Jobs /\ InCube /\ HasShape /\ Len(Manifest.line_numbers) = 3 /\ c = GroupByFragment(Asked)
      /\ c \in Seq(Nat \X Nat)
  BY PlanIs, UnpackedIs
<1>2. Consecutive(DataShape, c)  BY <1>1, CoordsAre
<1>3. o.shape = DataShape  BY DEF Output, DataShape
<1>4. DataShape \in ShapesOver(1 .. 3)  BY <1>1, DataShapeIs
<1>5. \A k \in DOMAIN c : Top(Column(DataShape, c[k])) = Column(DataShape, c[k])
  <2>1. \A k \in DOMAIN c : c[k] \in Nat \X Nat  BY <1>1, ElementOfSeq
  <2> QED BY <1>4, <2>1, ColumnIs
<1>6. S = {k \in DOMAIN c : Column(DataShape, c[k]) = Top(id)}
  BY <1>3, <1>5 DEF InColumn, Column
<1>7. DOMAIN c = 1 .. Len(c) /\ Len(c) \in Nat  BY <1>1
<1> HIDE DEF S, c
<1>8. Convex(S)
  <2> SUFFICES ASSUME NEW i \in S, NEW k \in S, NEW j \in Nat, i <= j, j <= k PROVE j \in S
    BY DEF Convex
  <2>1. i \in DOMAIN c /\ k \in DOMAIN c /\ Column(DataShape, c[i]) = Top(id) /\ Column(DataShape, c[k]) = Top(id)
    BY <1>6
  <2>2. j \in DOMAIN c  BY <1>7, <2>1
  <2>3. Column(DataShape, c[j]) = Column(DataShape, c[i])
    BY <1>2, <2>1, <2>2 DEF Consecutive
  <2> QED BY <1>6, <2>1, <2>2, <2>3
<1>9. S \in SUBSET Nat  BY <1>6, <1>7
<1>10. Enumerates(ks, S) /\ \A i, j \in 1 .. Len(ks) : i < j => ks[i] < ks[j]
  BY <1>1, TracesInAre DEF S, c
<1> HIDE DEF ks
<1>11. Runs(ks)  BY <1>8, <1>9, <1>10, ConvexRuns
<1> QED BY <1>11 DEF ks

\* The traces of any output in a fragment are among those behind the first.
LEMMA TracesStep ==
    ASSUME args.coords \in Seq(Nat \X Nat), NEW o, NEW id, InColumn(o, id) # {},
           NEW c \in 0 .. Traces(o, id) - 1
    PROVE  FirstTrace(o, id) + c \in 0 .. Len(args.coords) - 1
<1> DEFINE ks == TracesIn(o, id)  n == Len(args.coords)
<1>1. Enumerates(ks, InColumn(o, id)) /\ \A i, j \in 1 .. Len(ks) : i < j => ks[i] < ks[j]
  BY TracesInAre
<1>2. /\ FirstTrace(o, id) \in Nat /\ Len(ks) \in Nat \ {0}
      /\ \A i \in 1 .. Len(ks) : ks[i] \in 1 .. n
  BY TracesTyped DEF Traces
<1>3. ks \in Seq(Nat)
  <2>1. ks \in Seq(InColumn(o, id)) /\ InColumn(o, id) \in SUBSET (1 .. n)
    BY <1>1, TracesInAre DEF Enumerates
  <2> HIDE DEF ks, n
  <2> QED BY <2>1
<1> HIDE DEF ks
<1>4. Steps(ks)  BY <1>1, <1>3, AscendingSteps
<1>5. c + 1 \in 1 .. Len(ks) /\ c \in Nat /\ 1 \in 1 .. Len(ks)
  BY <1>2 DEF Traces, ks
<1>6. ks[1] + ((c + 1) - 1) <= ks[c + 1]  BY <1>4, <1>5 DEF Steps
<1>7. ks[c + 1] \in 1 .. n /\ ks[1] \in 1 .. n /\ n \in Nat /\ FirstTrace(o, id) = ks[1] - 1
  BY <1>2, <1>5 DEF FirstTrace, ks
<1> DEFINE x == ks[1]  y == ks[c + 1]
<1>8. x + ((c + 1) - 1) <= y /\ y \in 1 .. n /\ x \in 1 .. n /\ n \in Nat /\ FirstTrace(o, id) = x - 1
  BY <1>6, <1>7
<1> HIDE DEF x, y, n
<1>9. (x - 1) + c \in 0 .. n - 1  BY <1>5, <1>8
<1> QED BY <1>8, <1>9 DEF n

\* The bundle of a task of a curtain.
LEMMA CurtainBundleIs ==
    ASSUME PlannerInv, stage = "planned", Query.function = "curtain", NEW t \in 1 .. Len(tasks)
    PROVE  /\ RunTask(tasks[t])[1] = tasks[t].attr
           /\ DOMAIN tasks[t].ids = 1 .. Len(tasks[t].ids) /\ Len(tasks[t].ids) \in Nat
           /\ Bundle(t) = [n \in DOMAIN tasks[t].ids |-> CurtainWrites(Unpacks(tasks[t]), n)]
<1> DEFINE u == tasks[t]  r == RunTask(u)  N == Len(u.ids)
<1>1. TaskOf(u, Output(u.attr))  BY TasksOfOutputs
<1>2. DOMAIN u.ids = 1 .. N /\ N \in Nat  BY <1>1 DEF TaskOf
<1>3. r = Unpacks(u)  BY DEF RunTask, Unpacks
<1>4. Unpacks(u)[1] = u.attr /\ Unpacks(u)[2] = N
  <2> DEFINE q == Unpacks(u)  z == u.cube[3]  major == FlattenSeq(Majors(u))
             minor == FlattenSeq(Minors(u))  values == FlattenSeq(Columns(u))
  <2>1. q = <<u.attr, N, z, major, minor, values>>
    BY BundleParts DEF Unpacks
  <2> HIDE DEF q, z, major, minor, values
  <2>2. q[1] = u.attr /\ q[2] = N  BY <2>1
  <2> QED BY <2>2 DEF q
<1>5. head.function = "curtain"  BY HeadIs DEF CurtainHead
<1>6. Bundle(t) = [n \in 1 .. r[2] |-> CurtainWrites(r, n)]
  BY <1>5 DEF Bundle, Writes
<1> HIDE DEF r, u, N
<1>7. r[2] = N  BY <1>3, <1>4
<1>8. Bundle(t) = [n \in 1 .. N |-> CurtainWrites(Unpacks(u), n)]
  BY <1>3, <1>6, <1>7
<1>9. r[1] = u.attr  BY <1>3, <1>4
<1> QED BY <1>2, <1>8, <1>9 DEF r, u, N

\* The bundle of a curtain writes samples of its traces at their places.
LEMMA CurtainWritesBelong ==
    ASSUME PlannerInv, stage = "planned", Query.function = "curtain", NEW t \in 1 .. Len(tasks)
    PROVE  WritesBelong(Bundle(t), tasks[t].attr)
<1> DEFINE u == tasks[t]  a == u.attr  o == Output(a)  ws == Bundle(t)  zlen == o.cube[3]
           n == Len(args.coords)
<1>1. a \in Range(Wanted) /\ TaskOf(u, o)  BY TasksOfOutputs
<1>2. /\ DOMAIN u.ids = 1 .. Len(u.ids) /\ Len(u.ids) \in Nat
      /\ ws = [m \in DOMAIN u.ids |-> CurtainWrites(Unpacks(u), m)]
  BY CurtainBundleIs
<1>3. Size(a) = n * zlen /\ n \in Nat /\ zlen \in Nat \ {0} /\ (a = "data" => zlen = Len(Lines(3)))
  BY <1>1, CurtainSizeIs DEF CurtainSize
<1>4. args.coords \in Seq(Nat \X Nat)  BY <1>1, CurtainOutput
<1> HIDE DEF ws
<1>5. ASSUME NEW m \in DOMAIN ws, NEW off \in DOMAIN ws[m]
      PROVE  off \in 0 .. Size(a) - 1 /\ Belongs(a, off, ws[m][off])
  <2> DEFINE id == IdOf(u.ids[m])  ks == TracesIn(o, id)  i0 == FirstTrace(o, id)
             z0 == id[3] * o.shape[3]  l == Traces(o, id)  h == Depths(o, id)
  <2>1. m \in 1 .. Len(u.ids) /\ ws[m] = CurtainWrites(Unpacks(u), m)
    BY <1>2
  <2>2. WritesColumn(ws[m], a, o, id)  BY <1>1, <2>1, ColumnIsWritten
  <2>3. PICK c \in 0 .. l - 1, z \in 0 .. h - 1 :
            off = (i0 + c) * zlen + (z0 + z) /\ ws[m][off] = <<a, TraceAt(ks[c + 1], z0 + z)>>
    BY <2>2 DEF WritesColumn
  <2>4. HasColumn(u, m, o) /\ Bounds(u, m, o)
    BY <1>1, <2>1, ColumnOfTask, BoundsAre
  <2>5. InColumn(o, id) # {}  BY <2>4 DEF HasColumn
  <2>6. i0 + c \in 0 .. n - 1  BY <1>4, <2>5, TracesStep
  <2>7. z0 + z \in 0 .. zlen - 1 /\ c \in Nat /\ i0 \in Nat /\ l \in Nat \ {0}
    <3>1. z0 \in Nat /\ h \in Nat /\ z0 + h <= zlen /\ l \in Nat \ {0} /\ i0 \in Nat
      BY <2>4 DEF Bounds
    <3> HIDE DEF z0, h, zlen, l, i0
    <3> QED BY <1>3, <3>1
  <2> DEFINE i == i0 + c  y == z0 + z
  <2>8. n \in Nat \ {0} /\ i \in 0 .. n - 1 /\ y \in 0 .. zlen - 1
    BY <1>3, <2>6, <2>7
  <2>9. off \in 0 .. Size(a) - 1
    <3> HIDE DEF i, y, n, zlen
    <3>1. i * zlen + y \in 0 .. n * zlen - 1  BY <1>3, <2>8, InRows
    <3>2. off = i * zlen + y  BY <2>3 DEF i, y
    <3> QED BY <1>3, <3>1, <3>2
  <2>10. ASSUME a = "data"
         PROVE  \E k \in 1 .. n, x \in 0 .. Len(Lines(3)) - 1 :
                   /\ off = (k - 1) * Len(Lines(3)) + x
                   /\ ws[m][off] = <<a, <<args.coords[k][1], args.coords[k][2], x>>>>
    <3>1. o = Output("data")  BY <2>10
    <3>2. Runs(ks)  BY <2>5, <3>1, DataTracesRun
    <3>3. c + 1 \in 1 .. Len(ks)  BY <2>7 DEF Traces
    <3>4. ks[c + 1] = ks[1] + ((c + 1) - 1)  BY <3>2, <3>3 DEF Runs
    <3>5. ks[1] = i0 + 1 /\ ks[1] \in Nat
      <4>1. ks[1] \in 1 .. n
        <5>1. \A e \in 1 .. l : ks[e] \in 1 .. n
          BY <1>4, <2>5, TracesTyped
        <5>2. 1 \in 1 .. l  BY <2>7
        <5> QED BY <5>1, <5>2
      <4> QED BY <4>1 DEF FirstTrace
    <3>6. ks[c + 1] = i + 1
      <4> DEFINE p == ks[1]  q == ks[c + 1]
      <4>1. q = p + ((c + 1) - 1) /\ p = i0 + 1  BY <3>4, <3>5
      <4> HIDE DEF p, q, i0
      <4>2. q = (i0 + c) + 1  BY <2>7, <4>1
      <4> QED BY <4>2 DEF q, i0
    <3> DEFINE k == i + 1
    <3>7. k \in 1 .. n /\ k - 1 = i /\ zlen = Len(Lines(3)) /\ y \in 0 .. Len(Lines(3)) - 1
      <4>1. zlen = Len(Lines(3))  BY <1>3, <2>10
      <4> HIDE DEF i, n, y
      <4> QED BY <1>3, <2>8, <4>1
    <3>8. off = i * zlen + y /\ ws[m][off] = <<a, TraceAt(ks[c + 1], y)>>
      BY <2>3
    <3> HIDE DEF i, y, ks
    <3>9. off = (k - 1) * Len(Lines(3)) + y /\ ws[m][off] = <<a, TraceAt(k, y)>>
      BY <3>6, <3>7, <3>8
    <3> HIDE DEF k
    <3> QED BY <3>7, <3>9 DEF TraceAt
  <2>11. Belongs(a, off, ws[m][off])  BY <2>10 DEF Belongs
  <2> QED BY <2>9, <2>11
<1>6. DOMAIN ws = 1 .. Len(u.ids)  BY <1>2
<1> QED BY <1>2, <1>5, <1>6 DEF WritesBelong, ws

\* Every place of the data of a curtain is written by some task.
LEMMA CurtainIsCovered ==
    ASSUME PlannerInv, stage = "planned", Query.function = "curtain", NEW off \in 0 .. Size("data") - 1
    PROVE  \E t \in 1 .. Len(tasks) : tasks[t].attr = "data" /\ Covers(t, off)
<1> DEFINE o == Output("data")  n == Len(args.coords)  zlen == o.cube[3]  i == off \div zlen  z == off % zlen
           k == i + 1  xy == args.coords[k]  f == o.shape[3]
           id == <<xy[1] \div o.shape[1], xy[2] \div o.shape[2], z \div f>>
<1>1. "data" \in Range(Wanted)
  <2>1. Wanted \in Seq(AttributeNames) /\ args.attributes = Normalized(Query.attributes)
    BY PlanIs
  <2> QED BY <2>1, WantedIs
<1>2. Size("data") = n * zlen /\ n \in Nat /\ zlen \in Nat \ {0} /\ zlen = Len(Lines(3))
  BY <1>1, CurtainSizeIs DEF CurtainSize
<1>3. Boxed(o) /\ args.coords \in Seq(Nat \X Nat) /\ TraceInside(o)
  BY <1>1, WantedOutput, CurtainOutput
<1>4. i \in 0 .. n - 1 /\ z \in 0 .. zlen - 1 /\ off = i * zlen + z /\ off \in Nat
  <2> HIDE DEF n, zlen
  <2>1. off \in 0 .. n * zlen - 1  BY <1>2
  <2>2. n # 0
    <3>1. n = 0 => n * zlen = 0  BY <1>2
    <3> QED BY <2>1, <3>1
  <2>3. off \in Nat  BY <1>2, <2>1
  <2>4. AreRows(n, zlen)  BY <1>2, <2>2, RowsAre
  <2> QED BY <2>1, <2>3, <2>4 DEF AreRows
<1>5. k \in DOMAIN args.coords /\ k - 1 = i
  <2>1. DOMAIN args.coords = 1 .. n  BY <1>3
  <2>2. i \in 0 .. n - 1 /\ n \in Nat  BY <1>2, <1>4
  <2> HIDE DEF i, n
  <2>3. i + 1 \in 1 .. n /\ (i + 1) - 1 = i  BY <2>2
  <2> QED BY <2>1, <2>3
<1>6. o.cube \in ShapesOver(1 .. 3) /\ o.shape \in ShapesOver(1 .. 3) /\ f \in Nat \ {0}
  BY <1>3 DEF Boxed, ShapesOver
<1> HIDE DEF i, z, k
<1>7. z \div f \in 0 .. FragmentCount(o.cube, o.shape, 3) - 1
  <2>1. 3 \in 1 .. 3  OBVIOUS
  <2> DEFINE cs == o.cube  fs == o.shape
  <2>2. cs \in ShapesOver(1 .. 3) /\ fs \in ShapesOver(1 .. 3) /\ z \in 0 .. cs[3] - 1
    BY <1>4, <1>6
  <2> HIDE DEF cs, fs
  <2>3. \A j \in 0 .. cs[3] - 1 : j \div fs[3] \in 0 .. FragmentCount(cs, fs, 3) - 1
    BY <2>1, <2>2, FragmentCountIs
  <2> QED BY <2>2, <2>3 DEF cs, fs
<1>8. id \in FragmentIds(o.cube, o.shape) /\ k \in InColumn(o, id)
  <2> DEFINE zf == z \div f
  <2>1. zf \in 0 .. FragmentCount(o.cube, o.shape, 3) - 1  BY <1>7
  <2> HIDE DEF zf, o
  <2>2. LET p == args.coords[k]  q == <<p[1] \div o.shape[1], p[2] \div o.shape[2], zf>>
        IN  q \in FragmentIds(o.cube, o.shape) /\ k \in InColumn(o, q)
    BY <1>3, <1>5, <2>1, ColumnExists
  <2> QED BY <2>2 DEF zf, o
<1>9. id \in NeededIds(o) /\ InColumn(o, id) # {} /\ id[3] = z \div f
  BY <1>8 DEF NeededIds
<1> HIDE DEF id
<1>10. PICK t \in 1 .. Len(tasks) :
           tasks[t].attr = "data" /\ \E m \in 1 .. Len(tasks[t].ids) : IdOf(tasks[t].ids[m]) = id
  BY <1>1, <1>9, NeededIsFetched
<1>11. PICK m \in 1 .. Len(tasks[t].ids) : IdOf(tasks[t].ids[m]) = id
  BY <1>10
<1> DEFINE u == tasks[t]  ws == Bundle(t)  ks == TracesIn(o, id)  i0 == FirstTrace(o, id)
           l == Traces(o, id)  h == Depths(o, id)  z0 == id[3] * f
<1>12. TaskOf(u, o)  BY <1>10, TasksOfOutputs
<1>13. WritesColumn(CurtainWrites(Unpacks(u), m), "data", o, id)
  BY <1>1, <1>11, <1>12, ColumnIsWritten
<1>14. /\ DOMAIN u.ids = 1 .. Len(u.ids) /\ ws = [p \in DOMAIN u.ids |-> CurtainWrites(Unpacks(u), p)]
  BY CurtainBundleIs
<1> HIDE DEF ws
<1>15. WritesColumn(ws[m], "data", o, id) /\ m \in DOMAIN ws
  BY <1>13, <1>14
<1>16. PICK j \in 1 .. l : ks[j] = k
  <2>1. Enumerates(ks, InColumn(o, id))  BY <1>3, TracesInAre
  <2> QED BY <1>8, <2>1 DEF Enumerates, Traces
<1>17. Runs(ks)  BY <1>9, DataTracesRun
<1>18. i = i0 + (j - 1) /\ j - 1 \in 0 .. l - 1
  <2>1. ks[j] = ks[1] + (j - 1)  BY <1>16, <1>17 DEF Runs, Traces
  <2>2. i0 = ks[1] - 1 /\ i0 \in Nat /\ l \in Nat \ {0} /\ \A e \in 1 .. l : ks[e] \in 1 .. Len(args.coords)
    BY <1>3, <1>9, TracesTyped DEF FirstTrace
  <2>3. ks[1] \in Nat
    <3>1. 1 \in 1 .. l  BY <2>2
    <3>2. ks[1] \in 1 .. Len(args.coords)  BY <2>2, <3>1
    <3> QED BY <3>2
  <2> DEFINE p == ks[1]
  <2>4. k = p + (j - 1) /\ p \in Nat /\ i0 = p - 1
    BY <1>16, <2>1, <2>2, <2>3
  <2>5. k - 1 = i /\ j \in 1 .. l /\ l \in Nat  BY <1>5, <2>2
  <2> HIDE DEF p, i0, l
  <2> QED BY <2>4, <2>5
<1>19. z - z0 \in 0 .. h - 1 /\ z0 + (z - z0) = z
  <2> DEFINE r == z % f
  <2>1. z \in Nat  BY <1>2, <1>4
  <2>2. r \in 0 .. f - 1 /\ z = z0 + r
    BY <1>6, <1>9, <2>1, QuotientRemainder
  <2>3. h \in Nat /\ z0 \in Nat
    <3>1. Bounds(u, m, o)  BY <1>1, <1>12, BoundsAre
    <3> QED BY <1>11, <3>1 DEF Bounds
  <2>4. z0 + r < zlen <=> r < h
    <3> DEFINE cs == o.cube  fs == o.shape
    <3>1. cs \in ShapesOver(1 .. 3) /\ fs \in ShapesOver(1 .. 3) /\ id \in FragmentIds(cs, fs)
      BY <1>6, <1>8
    <3> HIDE DEF cs, fs
    <3>2. 3 \in 1 .. 3  OBVIOUS
    <3>3. \A e \in 0 .. fs[3] - 1 : (id[3] * fs[3]) + e < cs[3] <=> e < Real(cs, fs, id, 3)
      BY <3>1, <3>2, RealIs
    <3> QED BY <2>2, <3>3 DEF cs, fs, Depths
  <2> HIDE DEF r, z0, h, zlen, f
  <2>5. z < zlen  BY <1>2, <1>4
  <2>6. r \in Nat /\ r < h  BY <1>6, <2>2, <2>4, <2>5
  <2> QED BY <2>1, <2>2, <2>3, <2>6
<1>20. (i0 + (j - 1)) * zlen + (z0 + (z - z0)) \in DOMAIN ws[m]
  <2> DEFINE c == j - 1  y == z - z0
  <2>1. c \in 0 .. l - 1 /\ y \in 0 .. h - 1  BY <1>18, <1>19
  <2> HIDE DEF c, y
  <2>2. (i0 + c) * zlen + (z0 + y) \in DOMAIN ws[m]
    BY <1>15, <2>1 DEF WritesColumn
  <2> QED BY <2>2 DEF c, y
<1>21. off \in DOMAIN ws[m]  BY <1>4, <1>18, <1>19, <1>20
<1> QED BY <1>10, <1>15, <1>21 DEF Covers, ws

\* What of the arrays holds in every state: an array is as large as the header says, it has
\* what belongs to its places or nothing, and has all that has been decoded.
Filled(w, a) ==
    /\ DOMAIN w = 0 .. Size(a) - 1
    /\ \A off \in 0 .. Size(a) - 1 : w[off] = Blank \/ (a \in Range(Wanted) /\ Belongs(a, off, w[off]))
Decoded(w, a, t) == \A off \in 0 .. Size(a) - 1 : Covers(t, off) => Belongs(a, off, w[off])
ClientInv ==
    /\ arrays = <<>> => left = {}
    /\ arrays # <<>> =>
          /\ stage = "planned"
          /\ left \subseteq 1 .. Len(tasks)
          /\ DOMAIN arrays = Range(head.attributes)
          /\ \A a \in DOMAIN arrays : Filled(arrays[a], a)
          /\ \A t \in (1 .. Len(tasks)) \ left : Decoded(arrays[tasks[t].attr], tasks[t].attr, t)

\* What a bundle writes belongs where it goes.
LEMMA BundleBelongs ==
    ASSUME PlannerInv, stage = "planned", NEW t \in 1 .. Len(tasks)
    PROVE  /\ RunTask(tasks[t])[1] = tasks[t].attr /\ tasks[t].attr \in Range(Wanted)
           /\ WritesBelong(Bundle(t), tasks[t].attr)
<1>1. Query.function \in {"slice", "curtain"}  BY PlanIs
<1>2. tasks[t].attr \in Range(Wanted)  BY TasksOfOutputs
<1>3. CASE Query.function = "slice"
  BY <1>2, <1>3, SliceBundle, SliceWritesBelong
<1>4. CASE Query.function = "curtain"
  BY <1>2, <1>4, CurtainBundleIs, CurtainWritesBelong
<1> QED BY <1>1, <1>3, <1>4

\* What an object holds, told from what the manifest says of it.
WhoseObject(name) ==
    Manifest.attr[SelectInSeq(Manifest.attr, LAMBDA a : a.prefix = name.prefix)].type
ChunkWith(name, prefix, type, whole) ==
    LET isData == name.prefix = prefix
        attr   == IF isData THEN "data" ELSE type
        cube   == IF isData THEN whole ELSE [whole EXCEPT ![3] = 1]
    IN  [off \in 0 .. Product(name.shape) - 1 |->
            LET g == ToGlobal(name.shape, name.id, PointAt(off, name.shape)) IN
            IF g \in CubePoints(cube) THEN <<attr, g>> ELSE Pad]

\* What the plan tells does not change with the arrays.
LEMMA PlanStays ==
    ASSUME UNCHANGED planner
    PROVE  /\ stage' = stage /\ tasks' = tasks /\ head' = head
           /\ Wanted' = Wanted
           /\ \A a : Size(a)' = Size(a)
           /\ \A a, off, s : Belongs(a, off, s)' <=> Belongs(a, off, s)
           /\ \A t : Bundle(t)' = Bundle(t)
<1>1. /\ job' = job /\ stage' = stage /\ args' = args /\ tasks' = tasks /\ head' = head
  BY DEF planner
<1>2. Query' = Query /\ Manifest' = Manifest /\ Wanted' = Wanted /\ \A a : Output(a)' = Output(a)
  BY <1>1, JobStays, OutputsStay
<1>3. \A d : Lines(d)' = Lines(d)  BY <1>1, JobStays
<1>4. \A a : Size(a)' = Size(a)  BY <1>1, Zenon DEF Size, Place
<1>5. \A o : Plane(o)' = Plane(o)  BY <1>1, <1>2, Zenon DEF Plane
<1>6. \A a, off, s : Belongs(a, off, s)' <=> Belongs(a, off, s)
  <2> TAKE a, off, s
  <2>1. Output(a)' = Output(a) /\ Lines(3)' = Lines(3)  BY <1>2, <1>3
  <2>2. Plane(Output(a))' = Plane(Output(a))  BY <1>2, <1>5
  <2> QED BY <1>1, <1>2, <2>1, <2>2, Zenon DEF Belongs
<1>7. \A n : Chunk(n)' = Chunk(n)
  <2>1. Cube' = Cube  BY <1>1, Zenon DEF Cube, Lines, Manifest
  <2> TAKE n
  <2>2. Manifest.vol[1].prefix' = Manifest.vol[1].prefix  BY <1>2
  <2>3. WhoseObject(n)' = WhoseObject(n)
    <3>1. Manifest.attr' = Manifest.attr  BY <1>2
    <3>2. SelectInSeq(Manifest.attr, LAMBDA a : a.prefix = n.prefix)'
            = SelectInSeq(Manifest.attr, LAMBDA a : a.prefix = n.prefix)
      BY <1>2 DEF SelectInSeq
    <3> QED BY <3>1, <3>2 DEF WhoseObject
  <2>4. Chunk(n) = ChunkWith(n, Manifest.vol[1].prefix, WhoseObject(n), Cube)
    BY DEF Chunk, ChunkWith, WhoseObject
  <2>5. Chunk(n)' = ChunkWith(n, Manifest.vol[1].prefix', WhoseObject(n)', Cube')
    BY DEF Chunk, ChunkWith, WhoseObject
  <2> QED BY <2>1, <2>2, <2>3, <2>4, <2>5
<1>8. \A u : Fragments(u)' = Fragments(u)
  BY <1>1, Zenon DEF Fragments, Query
<1>9. \A u, n : Tile(u, n)' = Tile(u, n) /\ CurtainValues(u, n)' = CurtainValues(u, n)
  <2>1. \A u, n : Chunk(Fragments(u)[n])' = Chunk(Fragments(u)[n])
    BY <1>7, <1>8
  <2> TAKE u, n
  <2>2. Chunk(Fragments(u)[n])' = Chunk(Fragments(u)[n])  BY <2>1
  <2>3. Tile(u, n)' = Tile(u, n)  BY <2>2, Zenon DEF Tile
  <2>4. CurtainValues(u, n)' = CurtainValues(u, n)
    BY <2>2, Zenon DEF CurtainValues
  <2> QED BY <2>3, <2>4
<1>10. \A u : CurtainBundle(u)' = CurtainBundle(u)
  BY <1>9 DEF CurtainBundle
<1>11. \A u : RunTask(u)' = RunTask(u)
  <2>1. \A u : [n \in DOMAIN u.ids |-> Tile(u, n)]' = [n \in DOMAIN u.ids |-> Tile(u, n)]
    BY <1>9
  <2> QED BY <1>2, <1>10, <2>1 DEF RunTask
<1>12. \A s : Writes(s)' = Writes(s)  BY <1>1, Zenon DEF Writes
<1>13. \A t : Bundle(t)' = Bundle(t)  BY <1>1, <1>11, <1>12 DEF Bundle
<1> QED BY <1>1, <1>2, <1>4, <1>6, <1>13

\* ClientInv of the next state, said of this state's plan and the next arrays.
NextClient(as, l) ==
    /\ stage = "planned" /\ l \subseteq 1 .. Len(tasks)
    /\ DOMAIN as = Range(head.attributes)
    /\ \A a \in DOMAIN as : Filled(as[a], a)
    /\ \A t \in (1 .. Len(tasks)) \ l : Decoded(as[tasks[t].attr], tasks[t].attr, t)

\* ClientInv of the next state can be told with the plan of this one.
LEMMA NextClientKeeps ==
    ASSUME UNCHANGED planner, NextClient(arrays', left'), arrays' # <<>>
    PROVE  ClientInv'
<1>1. stage' = stage /\ tasks' = tasks /\ head' = head  BY PlanStays
<1>2. \A a \in DOMAIN arrays' : Filled(arrays[a], a)'
  <2> TAKE a \in DOMAIN arrays'
  <2>1. Filled(arrays'[a], a)  BY DEF NextClient
  <2> DEFINE w == arrays'[a]
  <2>2. /\ Wanted' = Wanted /\ Size(a)' = Size(a)
        /\ \A off, s : Belongs(a, off, s)' <=> Belongs(a, off, s)
    BY PlanStays
  <2> QED BY <2>1, <2>2 DEF Filled
<1>3. \A t \in (1 .. Len(tasks)) \ left' : Decoded(arrays[tasks[t].attr], tasks[t].attr, t)'
  <2> TAKE t \in (1 .. Len(tasks)) \ left'
  <2>1. Decoded(arrays'[tasks[t].attr], tasks[t].attr, t)
    BY DEF NextClient
  <2>2. Size(tasks[t].attr)' = Size(tasks[t].attr)  BY <1>1, PlanStays
  <2>3. \A off, s : Belongs(tasks[t].attr, off, s)' <=> Belongs(tasks[t].attr, off, s)
    BY <1>1, PlanStays
  <2>4. \A off : Covers(t, off)' <=> Covers(t, off)
    BY PlanStays DEF Covers
  <2> QED BY <1>1, <2>1, <2>2, <2>3, <2>4 DEF Decoded
<1> QED BY <1>1, <1>2, <1>3 DEF ClientInv, NextClient

\* allocarrays() makes blank arrays.
LEMMA AllocateKeeps ==
    ASSUME PlannerInv, ClientInv, Allocate
    PROVE  ClientInv'
<1>1. /\ stage = "planned" /\ left' = 1 .. Len(tasks) /\ UNCHANGED planner
      /\ arrays' = [a \in Range(head.attributes) |-> [o \in 0 .. Size(a) - 1 |-> Blank]]
  BY DEF Allocate, Size, Place
<1>2. DOMAIN arrays' = Range(head.attributes)  BY <1>1
<1>3. \A a \in DOMAIN arrays' : Filled(arrays'[a], a)  BY <1>1 DEF Filled
<1>4. "data" \in DOMAIN arrays'
  <2>1. DOMAIN head.attributes = 1 .. Len(args.attributes) + 1 /\ Len(args.attributes) \in Nat
        /\ head.attributes[1] = "data"
    BY <1>1, PlaceIs
  <2> QED BY <1>2, <2>1 DEF Range
<1>5. arrays' # <<>>  BY <1>4
<1>6. NextClient(arrays', left')  BY <1>1, <1>2, <1>3 DEF NextClient
<1> QED BY <1>1, <1>5, <1>6, NextClientKeeps

\* An array after the writes of a bundle that belong in it.
LEMMA ArrayKeeps ==
    ASSUME NEW a \in Range(Wanted), NEW array, Filled(array, a), NEW t, WritesBelong(Bundle(t), a)
    PROVE  LET w == Written(array, Bundle(t)) IN
           /\ Filled(w, a) /\ Decoded(w, a, t)
           /\ \A u : Decoded(array, a, u) => Decoded(w, a, u)
<1> DEFINE ws == Bundle(t)  w == Written(array, ws)  D == 0 .. Size(a) - 1
<1>1. DOMAIN array = D  BY DEF Filled
<1>2. PICK N \in Nat : DOMAIN ws = 1 .. N  BY DEF WritesBelong
<1>3. \A n \in 1 .. N : \A off \in DOMAIN ws[n] : off \in D /\ Belongs(a, off, ws[n][off])
  BY <1>2 DEF WritesBelong
<1>4. \A n \in 1 .. N : DOMAIN ws[n] \subseteq DOMAIN array
  BY <1>1, <1>3
<1>5. WrittenOn(w, array, ws, DOMAIN array)
  <2> HIDE DEF ws
  <2> QED BY <1>2, <1>4, WrittenIs
<1> HIDE DEF w
<1>6. DOMAIN w = D  BY <1>1, <1>5 DEF WrittenOn
<1>7. ASSUME NEW off \in D
      PROVE  \/ Belongs(a, off, w[off])
             \/ w[off] = array[off] /\ ~Covers(t, off)
  BY <1>1, <1>2, <1>3, <1>5 DEF WrittenOn, Covers
<1>8. Filled(w, a)  BY <1>6, <1>7 DEF Filled
<1>9. Decoded(w, a, t)  BY <1>7 DEF Decoded
<1>10. \A u : Decoded(array, a, u) => Decoded(w, a, u)
  BY <1>7 DEF Decoded
<1> QED BY <1>8, <1>9, <1>10 DEF w

\* Decoding a bundle writes what belongs in its array, and leaves the others alone.
LEMMA DeliverKeeps ==
    ASSUME PlannerInv, ClientInv, NEW t \in left, Deliver(t)
    PROVE  ClientInv'
<1>1. arrays # <<>>  BY DEF ClientInv
<1>2. /\ stage = "planned" /\ left \subseteq 1 .. Len(tasks) /\ DOMAIN arrays = Range(head.attributes)
      /\ \A b \in DOMAIN arrays : Filled(arrays[b], b)
      /\ \A u \in (1 .. Len(tasks)) \ left : Decoded(arrays[tasks[u].attr], tasks[u].attr, u)
  BY <1>1 DEF ClientInv
<1> DEFINE a == tasks[t].attr  w == Written(arrays[a], Bundle(t))
<1>3. RunTask(tasks[t])[1] = a /\ a \in Range(Wanted) /\ WritesBelong(Bundle(t), a)
  BY <1>2, BundleBelongs
<1>4. a \in DOMAIN arrays  BY <1>2, <1>3, PlaceIs
<1>5. arrays' = [arrays EXCEPT ![a] = w] /\ left' = left \ {t} /\ UNCHANGED planner
  BY <1>3 DEF Deliver, Bundle
<1>6. /\ Filled(w, a) /\ Decoded(w, a, t)
      /\ \A u : Decoded(arrays[a], a, u) => Decoded(w, a, u)
  BY <1>2, <1>3, <1>4, ArrayKeeps
<1> HIDE DEF w
<1>7. DOMAIN arrays' = DOMAIN arrays /\ arrays'[a] = w /\ \A b \in DOMAIN arrays : b # a => arrays'[b] = arrays[b]
  BY <1>4, <1>5
<1>8. arrays' # <<>>  BY <1>4, <1>7
<1>9. \A b \in DOMAIN arrays' : Filled(arrays'[b], b)
  BY <1>2, <1>6, <1>7
<1>10. \A u \in (1 .. Len(tasks)) \ left' : Decoded(arrays'[tasks[u].attr], tasks[u].attr, u)
  <2> TAKE u \in (1 .. Len(tasks)) \ left'
  <2>1. CASE u = t  BY <1>6, <1>7, <2>1
  <2>2. CASE u # t
    <3>1. u \in (1 .. Len(tasks)) \ left  BY <1>5, <2>2
    <3>2. Decoded(arrays[tasks[u].attr], tasks[u].attr, u)  BY <1>2, <3>1
    <3>3. tasks[u].attr \in DOMAIN arrays
      BY <1>2, <3>1, TasksOfOutputs, PlaceIs
    <3>4. CASE tasks[u].attr = a  BY <1>6, <1>7, <3>2, <3>4
    <3>5. CASE tasks[u].attr # a  BY <1>7, <3>2, <3>3, <3>5
    <3> QED BY <3>4, <3>5
  <2> QED BY <2>1, <2>2
<1>11. NextClient(arrays', left')
  BY <1>2, <1>5, <1>7, <1>9, <1>10 DEF NextClient
<1> QED BY <1>5, <1>8, <1>11, NextClientKeeps

\* Every step keeps what holds of the arrays.
LEMMA ClientKeeps ==
    ASSUME PlannerInv, ClientInv, [Next]_vars
    PROVE  ClientInv'
<1>1. CASE Plan /\ UNCHANGED <<left, arrays>>
  <2>1. stage # "planned"
    BY <1>1 DEF Plan, Dispatch, UnpackSlice, UnpackCurtain, RefuseShapes, BuildSlice, BuildCurtain,
                RefuseTaskSize, Partition, Terminate
  <2> QED BY <1>1, <2>1 DEF ClientInv
<1>2. CASE Allocate  BY <1>2, AllocateKeeps
<1>3. ASSUME NEW t \in left, Deliver(t) PROVE ClientInv'
  BY <1>3, DeliverKeeps
<1>4. CASE UNCHANGED vars
  <2>1. UNCHANGED planner /\ arrays' = arrays /\ left' = left
    BY <1>4 DEF vars
  <2>2. CASE arrays = <<>>  BY <2>1, <2>2 DEF ClientInv
  <2>3. CASE arrays # <<>>
    <3>1. NextClient(arrays', left')
      BY <2>1, <2>3 DEF ClientInv, NextClient
    <3> QED BY <2>1, <2>3, <3>1, NextClientKeeps
  <2> QED BY <2>2, <2>3
<1> QED BY <1>1, <1>2, <1>3, <1>4 DEF Next

\* What holds of the arrays of the client in every state: each place has what belongs there
\* or is blank, what was decoded is there, and every place is in some task (decoder.cpp 319-381).
THEOREM ClientIsSound == Spec => []ClientInv
<1>1. Init => ClientInv  BY DEF Init, ClientInv
<1>2. PlannerInv /\ ClientInv /\ [Next]_vars => ClientInv'
  BY ClientKeeps
<1> QED BY <1>1, <1>2, PlannerIsSound, PTL DEF Spec

\* The arrays have the sizes of the header.
LEMMA ArraysAsInHeader == PlannerInv /\ ClientInv => CopiesInBounds
<1> SUFFICES ASSUME PlannerInv, ClientInv, arrays # <<>>, NEW k \in DOMAIN head.attributes
             PROVE  DOMAIN arrays[head.attributes[k]] = 0 .. Product(head.shapes[k]) - 1
  BY DEF CopiesInBounds
<1>1. /\ stage = "planned" /\ DOMAIN arrays = Range(head.attributes)
      /\ \A a \in DOMAIN arrays : Filled(arrays[a], a)
  BY DEF ClientInv
<1>2. head.attributes[k] \in DOMAIN arrays /\ Place(head.attributes[k]) = k
  BY <1>1, PlaceIs DEF Range
<1> QED BY <1>1, <1>2 DEF Filled, Size

\* No copy of the decoder leaves the array it writes to, though it checks no sizes
\* (decoder.cpp 364): the planner's header is large enough for every tile that it plans.
THEOREM CopiesStayInBounds == Spec => []CopiesInBounds
  BY PlannerIsSound, ClientIsSound, ArraysAsInHeader, PTL

\* What the invariants say of the types.
LEMMA AllTyped == PlannerInv /\ ClientInv => TypeOK
<1> SUFFICES ASSUME PlannerInv, ClientInv PROVE TypeOK
  OBVIOUS
<1>1. PlannerTypeOK  BY PlannerTyped
<1>2. CASE arrays = <<>>  BY <1>1, <1>2 DEF TypeOK, ClientInv
<1>3. CASE arrays # <<>>
  <2>1. /\ stage = "planned" /\ left \subseteq 1 .. Len(tasks)
        /\ \A a \in DOMAIN arrays : Filled(arrays[a], a)
    BY <1>3 DEF ClientInv
  <2>2. ASSUME NEW a \in DOMAIN arrays PROVE DOMAIN arrays[a] \subseteq Nat
    <3>1. DOMAIN arrays[a] = 0 .. Size(a) - 1  BY <2>1 DEF Filled
    <3> QED BY <3>1
  <2>3. ASSUME NEW t \in left
        PROVE  IF Query.function = "slice"
                 THEN \A n \in DOMAIN tasks[t].ids : Tile(tasks[t], n) \in tile
                 ELSE CurtainBundle(tasks[t]) \in curtain_bundle
    <3> DEFINE u == tasks[t]
    <3>1. u.attr \in Range(Wanted) /\ TaskOf(u, Output(u.attr))
      BY <2>1, TasksOfOutputs
    <3>2. DOMAIN u.ids = 1 .. Len(u.ids)  BY <3>1 DEF TaskOf
    <3>3. CASE Query.function = "slice"
      <4>1. \A n \in 1 .. Len(u.ids) : TilesPlane(u, n, Output(u.attr))
        BY <2>1, <3>1, <3>3, TileIs
      <4>2. \A n \in 1 .. Len(u.ids) : Tile(u, n) \in tile
        BY <4>1 DEF TilesPlane
      <4> QED BY <3>2, <3>3, <4>2
    <3>4. CASE Query.function # "slice"
      <4>1. Query.function = "curtain"  BY <2>1, <3>4, PlanIs
      <4>2. CurtainBundle(u) \in curtain_bundle
        BY <2>1, <3>1, <4>1, BundleIsTyped
      <4> QED BY <3>4, <4>2
    <3> QED BY <3>3, <3>4
  <2> QED BY <1>1, <2>1, <2>2, <2>3 DEF TypeOK
<1> QED BY <1>2, <1>3

\* The types of the plan, of the arrays and of what fetch nodes answer.
THEOREM AssemblyTyped == Spec => []TypeOK
  BY PlannerIsSound, ClientIsSound, AllTyped, PTL

\* The client that is done has decoded all bundles.
LEMMA DoneDecodesAll ==
    ASSUME PlannerInv, ClientInv, Done
    PROVE  /\ stage = "planned" /\ DOMAIN arrays = Range(head.attributes)
           /\ \A a \in DOMAIN arrays : Filled(arrays[a], a)
           /\ \A t \in 1 .. Len(tasks) : Decoded(arrays[tasks[t].attr], tasks[t].attr, t)
<1>1. stage = "planned" /\ arrays # <<>> /\ Len(tasks) - Cardinality(left) >= head.nbundles
  BY DEF Done
<1>2. /\ left \subseteq 1 .. Len(tasks) /\ DOMAIN arrays = Range(head.attributes)
      /\ \A a \in DOMAIN arrays : Filled(arrays[a], a)
      /\ \A t \in (1 .. Len(tasks)) \ left : Decoded(arrays[tasks[t].attr], tasks[t].attr, t)
  BY <1>1 DEF ClientInv
<1>3. head.nbundles = Len(tasks) /\ Len(tasks) \in Nat
  BY <1>1, HeadIs, PlanIs DEF Heads
<1>4. IsFiniteSet(left) /\ Cardinality(left) \in Nat
  <2>1. IsFiniteSet(1 .. Len(tasks))  BY <1>3, FS_Interval
  <2> QED BY <1>2, <2>1, FS_Subset, FS_CardinalityType
<1>5. Cardinality(left) = 0  BY <1>1, <1>3, <1>4
<1>6. left = {}  BY <1>4, <1>5, FS_EmptySet
<1> QED BY <1>1, <1>2, <1>6

\* A sample of the cube is neither padding nor nothing.
LEMMA SamplesAreValues ==
    ASSUME NEW a \in AttributeNames, NEW g \in [1 .. 3 -> Nat], NEW s, s = <<a, g>>
    PROVE  s # Blank /\ s # Pad /\ s[1] = a /\ s[2] = g
<1>1. g \in Seq(Nat)  BY ShortSequences
<1>2. s \in AttributeNames \X Seq(Nat)  BY <1>1
<1> QED BY <1>2, MarksAssumption

\* The numbers that the index of the header has for a place of an array of a slice.
LinesAt(a, off) ==
    [d \in 1 .. 3 |-> head.index[d][PointAt(off, head.shapes[Place(a)])[d] + 1]]

\* What belongs at a place of a slice is the sample that the index of the header tells.
LEMMA SliceSampleIs ==
    ASSUME PlannerInv, stage = "planned", Query.function = "slice", NEW a \in Range(Wanted),
           NEW off \in 0 .. Size(a) - 1, NEW s, Belongs(a, off, s)
    PROVE  IsSample(s, a, LinesAt(a, off))
<1> DEFINE o == Output(a)  d == Query.dim  S == head.shapes[Place(a)]  x == Plane(o)
<1>1. /\ Boxed(o) /\ o.attr = a /\ a \in AttributeNames
      /\ o.cube = [e \in 1 .. 3 |-> IF e = 3 /\ a # "data" THEN 1 ELSE Len(Lines(e))]
  BY WantedOutput
<1>2. d \in 1 .. 3 /\ args.idx \in 0 .. Len(Lines(d)) - 1 /\ Len(Lines(d)) \in Nat /\ args.idx \in Nat
  BY PlanIs, UnpackedIs
<1>3. FlatBox(S, d) /\ S[Rows(d)] = o.cube[Rows(d)] /\ S[Cols(d)] = o.cube[Cols(d)]
  <2>1. PlaneShape(S, o)  BY SliceShapeIs
  <2> QED BY <2>1, <1>2, FlatBoxIs DEF PlaneShape
<1>4. PICK i \in 0 .. o.cube[Rows(d)] - 1, j \in 0 .. o.cube[Cols(d)] - 1 :
          off = i * o.cube[Cols(d)] + j /\ s = <<a, Into(d, x, i, j)>>
  BY DEF Belongs
<1> DEFINE g == Into(d, x, i, j)  p == Into(d, 0, i, j)
<1>5. PointAt(off, S) = p  BY <1>3, <1>4 DEF FlatBox
<1>6. x \in 0 .. o.cube[d] - 1  BY <1>1, <1>2, PlaneIs
<1>7. o.cube \in ShapesOver(1 .. 3)  BY <1>1 DEF Boxed
<1>8. g \in CubePoints(o.cube)  BY <1>2, <1>4, <1>6, <1>7, InPlane
<1>9. g \in [1 .. 3 -> Nat] /\ \A e \in 1 .. 3 : g[e] < o.cube[e]
  BY <1>7, <1>8 DEF CubePoints, ShapesOver
<1>10. g[d] = x /\ p[d] = 0 /\ \A e \in 1 .. 3 : e # d => g[e] = p[e]
  BY <1>2 DEF Into
<1> HIDE DEF g, p
<1>11. s # Blank /\ s # Pad /\ s[1] = a /\ s[2] = g
  BY <1>1, <1>4, <1>9, SamplesAreValues DEF g
<1>12. head.index = [e \in 1 .. 3 |-> IF e = d THEN <<Lines(e)[args.idx + 1]>> ELSE Lines(e)]
  BY HeadIs DEF SliceHead
<1>13. ASSUME NEW e \in 1 .. 3
       PROVE  IF e = 3 /\ a # "data" THEN s[2][e] = 0 ELSE Lines(e)[s[2][e] + 1] = LinesAt(a, off)[e]
  <2>1. LinesAt(a, off)[e] = head.index[e][p[e] + 1]  BY <1>5 DEF LinesAt
  <2>2. CASE e = 3 /\ a # "data"
    <3>1. o.cube[e] = 1  BY <1>1, <2>2
    <3>2. g[e] \in Nat /\ g[e] < 1  BY <1>9, <3>1
    <3> QED BY <1>11, <2>2, <3>2
  <2>3. CASE ~(e = 3 /\ a # "data") /\ e = d
    <3>1. o.cube[d] = Len(Lines(d))  BY <1>1, <2>3
    <3>2. x = args.idx
      <4> DEFINE n == Len(Lines(d))  y == args.idx
      <4>1. n \in Nat \ {0} /\ y \in 0 .. n - 1  BY <1>2
      <4>2. x = y % n  BY <3>1 DEF Plane
      <4> HIDE DEF n, y
      <4> QED BY <4>1, <4>2, RemainderBelow DEF y
    <3>3. head.index[e] = <<Lines(e)[args.idx + 1]>>  BY <1>12, <2>3
    <3>4. head.index[e][p[e] + 1] = Lines(e)[args.idx + 1]
      <4>1. p[e] + 1 = 1  BY <1>10, <2>3
      <4> QED BY <3>3, <4>1
    <3> QED BY <1>10, <1>11, <2>1, <2>3, <3>2, <3>4
  <2>4. CASE ~(e = 3 /\ a # "data") /\ e # d
    <3>1. head.index[e] = Lines(e) /\ g[e] = p[e]  BY <1>10, <1>12, <2>4
    <3> QED BY <1>11, <2>1, <2>4, <3>1
  <2> QED BY <2>2, <2>3, <2>4
<1> QED BY <1>11, <1>13 DEF IsSample

\* An array that no task writes.
LEMMA UnwantedIsBlank ==
    ASSUME PlannerInv, ClientInv, Done, NEW a \in Range(head.attributes), a \notin Range(Wanted)
    PROVE  NothingWritten(a)
<1>1. Filled(arrays[a], a)  BY DoneDecodesAll
<1> QED BY <1>1 DEF Filled, NothingWritten

\* The invariants and all bundles make a slice complete.
LEMMA SlicesAreComplete == PlannerInv /\ ClientInv => SlicesAssemble
<1> SUFFICES ASSUME PlannerInv, ClientInv, Done, Query.function = "slice"
             PROVE  SlicesAssemble
  BY DEF SlicesAssemble
<1>1. /\ stage = "planned" /\ DOMAIN arrays = Range(head.attributes)
      /\ \A a \in DOMAIN arrays : Filled(arrays[a], a)
      /\ \A t \in 1 .. Len(tasks) : Decoded(arrays[tasks[t].attr], tasks[t].attr, t)
  BY DoneDecodesAll
<1>2. head.index[Query.dim] =
          <<IF Query.kind = "index" THEN Lines(Query.dim)[Query.val + 1] ELSE Query.val>>
  <2> DEFINE d == Query.dim
  <2>1. d \in 1 .. 3 /\ args.idx \in Indices(Lines(d), Query.kind, Query.val)
    BY <1>1, PlanIs, UnpackedIs DEF Unpacked
  <2>2. head.index = [e \in 1 .. 3 |-> IF e = d THEN <<Lines(e)[args.idx + 1]>> ELSE Lines(e)]
    BY <1>1, HeadIs DEF SliceHead
  <2>3. head.index[d] = <<Lines(d)[args.idx + 1]>>  BY <2>1, <2>2
  <2>4. \/ Query.kind = "index" /\ args.idx = Query.val
        \/ Query.kind = "lineno" /\ Lines(d)[args.idx + 1] = Query.val
    BY <2>1 DEF Indices
  <2>5. Lines(d)[args.idx + 1] = IF Query.kind = "index" THEN Lines(d)[Query.val + 1] ELSE Query.val
    BY <2>4
  <2> QED BY <2>3, <2>5
<1>3. ASSUME NEW k \in DOMAIN head.attributes, NEW a, a = head.attributes[k],
             a \in Range(Wanted), NEW o \in DOMAIN arrays[a]
      PROVE  IsSample(arrays[a][o], a, LinesAt(a, o))
  <2>1. a \in DOMAIN arrays  BY <1>1, <1>3 DEF Range
  <2>2. o \in 0 .. Size(a) - 1  BY <1>1, <2>1 DEF Filled
  <2>3. PICK t \in 1 .. Len(tasks) : tasks[t].attr = a /\ Covers(t, o)
    BY <1>1, <1>3, <2>2, SliceIsCovered
  <2>4. Decoded(arrays[a], a, t)  BY <1>1, <2>3
  <2>5. Belongs(a, o, arrays[a][o])  BY <2>2, <2>3, <2>4 DEF Decoded
  <2> QED BY <1>1, <1>3, <2>2, <2>5, SliceSampleIs
<1>4. ASSUME NEW k \in DOMAIN head.attributes
      PROVE  LET a == head.attributes[k] IN
             IF a \notin Range(Wanted) THEN NothingWritten(a)
             ELSE \A o \in DOMAIN arrays[a] :
                    LET p == PointAt(o, head.shapes[k]) IN
                    IsSample(arrays[a][o], a, [d \in 1 .. 3 |-> head.index[d][p[d] + 1]])
  <2> DEFINE a == head.attributes[k]
  <2>1. a \in Range(head.attributes) /\ Place(a) = k
    BY <1>1, PlaceIs DEF Range
  <2>2. CASE a \notin Range(Wanted)  BY <2>1, <2>2, UnwantedIsBlank
  <2>3. CASE a \in Range(Wanted)
    <3>1. \A o \in DOMAIN arrays[a] : IsSample(arrays[a][o], a, LinesAt(a, o))
      BY <1>3, <2>3
    <3>2. \A o : LinesAt(a, o) = [d \in 1 .. 3 |-> head.index[d][PointAt(o, head.shapes[k])[d] + 1]]
      BY <2>1 DEF LinesAt
    <3> HIDE DEF a
    <3>3. \A o \in DOMAIN arrays[a] :
             IsSample(arrays[a][o], a, [d \in 1 .. 3 |-> head.index[d][PointAt(o, head.shapes[k])[d] + 1]])
      BY <3>1, <3>2
    <3> QED BY <2>3, <3>3 DEF a
  <2> QED BY <2>2, <2>3
<1> QED BY <1>2, <1>4 DEF SlicesAssemble

\* When a slice is decoded, every sample is where the index of the header says (plan.cpp
\* 149-256, process.cpp 121-160, decoder.cpp 319-352), for every cube, plane and task size.
THEOREM SlicesComeTogether == Spec => []SlicesAssemble
  BY PlannerIsSound, ClientIsSound, SlicesAreComplete, PTL

\* The lines of a trace, which the index of the header tells.
LEMMA TraceLinesAre ==
    ASSUME PlannerInv, stage = "planned", Query.function = "curtain", NEW k \in 1 .. Len(args.coords)
    PROVE  /\ TraceLines(k)[1] = Lines(1)[args.coords[k][1] + 1]
           /\ TraceLines(k)[2] = Lines(2)[args.coords[k][2] + 1]
           /\ TraceLines(k) = <<Lines(1)[args.coords[k][1] + 1], Lines(2)[args.coords[k][2] + 1]>>
           /\ head.index[3] = Lines(3) /\ head.shapes[1] = <<Len(args.coords), Len(Lines(3))>>
           /\ DOMAIN head.index[1] = 1 .. Len(args.coords)
<1> DEFINE a == [m \in 1 .. Len(args.coords) |-> Lines(1)[args.coords[m][1] + 1]]
           b == [m \in 1 .. Len(args.coords) |-> Lines(2)[args.coords[m][2] + 1]]
<1>1. head.index = <<a, b, Lines(3)>> /\ head.shapes[1] = <<Len(args.coords), Len(Lines(3))>>
  BY HeadIs DEF CurtainHead
<1>2. /\ a[k] = Lines(1)[args.coords[k][1] + 1] /\ b[k] = Lines(2)[args.coords[k][2] + 1]
      /\ DOMAIN a = 1 .. Len(args.coords)
  OBVIOUS
<1> HIDE DEF a, b
<1>3. head.index[1] = a /\ head.index[2] = b /\ head.index[3] = Lines(3)
  BY <1>1
<1> QED BY <1>1, <1>2, <1>3 DEF TraceLines

\* What is found for a coordinate is what it asks for.
LEMMA FoundIsAskedFor ==
    ASSUME job \in Jobs, Query.function = "curtain", Len(Manifest.line_numbers) = 3, InCube,
           NEW k \in DOMAIN Query.coords, NEW d \in {1, 2}, NEW i \in Found(k, d)
    PROVE  IsAskedFor(Lines(d)[i + 1], d, Query.coords[k])
<1> DEFINE v == LineNo(Manifest.utm_to_lineno[d], Query.coords[k])  lines == Lines(d)
<1>1. /\ Query.kind \in {"index", "lineno", "utm"}
      /\ Query.kind = "utm" => "utm-to-lineno" \in Manifest.keys
      /\ Len(Query.coords[k]) = 2
  BY DEF InCube
<1>2. /\ Query.kind = "index" =>
            Found(k, d) = {m \in 0 .. Len(Lines(d)) - 1 : m = Query.coords[k][d]}
      /\ Query.kind = "lineno" =>
            Found(k, d) = {m \in 0 .. Len(Lines(d)) - 1 : Lines(d)[m + 1] = Query.coords[k][d]}
      /\ Query.kind = "utm" => Found(k, d) = Nearest(lines, v) /\ v \in Int
  BY <1>1, FoundIs
<1>3. CASE Query.kind = "index"
  <2>1. i = Query.coords[k][d]  BY <1>2, <1>3
  <2> QED BY <1>3, <2>1 DEF IsAskedFor
<1>4. CASE Query.kind = "lineno"
  <2>1. Lines(d)[i + 1] = Query.coords[k][d]  BY <1>2, <1>4
  <2> QED BY <1>4, <2>1 DEF IsAskedFor
<1>5. CASE Query.kind = "utm"
  <2>1. i \in Nearest(lines, v) /\ v \in Int  BY <1>2, <1>5
  <2>2. /\ lines \in Seq(Int) /\ Len(lines) \in Nat \ {0}
        /\ \A j, m \in 1 .. Len(lines) : j < m => lines[j] < lines[m]
    <3>1. d \in 1 .. Len(Manifest.line_numbers) /\ d # 3  OBVIOUS
    <3> QED BY <3>1, ManifestIs
  <2> HIDE DEF v
  <2>3. \A m \in 1 .. Len(lines) : Distance(v, lines[i + 1]) <= Distance(v, lines[m])
    <3> HIDE DEF lines
    <3> QED BY <2>1, <2>2, NearestLine
  <2>4. \A l \in Range(lines) : \E m \in 1 .. Len(lines) : lines[m] = l
    <3>1. DOMAIN lines = 1 .. Len(lines)  BY <2>2
    <3> QED BY <3>1 DEF Range
  <2>5. \A l \in Range(lines) : Distance(v, lines[i + 1]) <= Distance(v, l)
    BY <2>3, <2>4
  <2> QED BY <1>5, <2>5 DEF IsAskedFor, v
<1> QED BY <1>1, <1>3, <1>4, <1>5

\* Each coordinate has one trace, at the place where the planner has put it.
LEMMA TracesAreAskedFor ==
    ASSUME PlannerInv, stage = "planned", Query.function = "curtain"
    PROVE  \E f \in Bijection(DOMAIN Query.coords, DOMAIN head.index[1]) :
              \A k \in DOMAIN Query.coords, d \in {1, 2} :
                  IsAskedFor(TraceLines(f[k])[d], d, Query.coords[k])
<1> DEFINE n == Len(Query.coords)  c == args.coords
<1>1. /\ job \in Jobs /\ Len(Manifest.line_numbers) = 3 /\ InCube /\ HasShape
      /\ c = GroupByFragment(Asked)
  BY PlanIs, UnpackedIs
<1>2. /\ Asked \in Seq(Nat \X Nat) /\ Len(Asked) = n /\ Query.coords \in Seq(Seq(Int))
      /\ \A k \in 1 .. n, d \in {1, 2} : Asked[k][d] \in Found(k, d)
  BY <1>1, AskedIs
<1>3. Len(c) = n /\ \E order : Permutes(order, c, Asked)
  BY <1>1, CoordsAre
<1>4. PICK order : Permutes(order, c, Asked)  BY <1>3
<1>5. n \in Nat /\ DOMAIN Query.coords = 1 .. n  BY <1>2
<1>6. /\ order \in [1 .. n -> 1 .. n]
      /\ \A i, j \in 1 .. n : order[i] = order[j] => i = j
      /\ \A k \in 1 .. n : \E i \in 1 .. n : order[i] = k
      /\ \A i \in 1 .. n : c[i] = Asked[order[i]]
  BY <1>2, <1>4 DEF Permutes
<1> HIDE DEF n, c
<1> DEFINE f == [k \in 1 .. n |-> CHOOSE i \in 1 .. n : order[i] = k]
<1>7. \A k \in 1 .. n : f[k] \in 1 .. n /\ order[f[k]] = k  BY <1>6
<1>8. f \in [1 .. n -> 1 .. n]  BY <1>7
<1> HIDE DEF f
<1>9. \A a, b \in 1 .. n : f[a] = f[b] => a = b  BY <1>7
<1>10. \A i \in 1 .. n : \E k \in 1 .. n : f[k] = i
  <2> TAKE i \in 1 .. n
  <2>1. order[i] \in 1 .. n  BY <1>6
  <2>2. f[order[i]] \in 1 .. n /\ order[f[order[i]]] = order[i]
    BY <1>7, <2>1
  <2>3. f[order[i]] = i  BY <1>6, <2>2
  <2> QED BY <2>1, <2>3
<1>11. f \in Bijection(1 .. n, 1 .. n)
  BY <1>8, <1>9, <1>10 DEF Bijection, Injection, Surjection, IsInjective
<1>12. ASSUME NEW k \in 1 .. n, NEW d \in {1, 2}
       PROVE  IsAskedFor(TraceLines(f[k])[d], d, Query.coords[k])
  <2>1. f[k] \in 1 .. n /\ c[f[k]] = Asked[k]  BY <1>6, <1>7
  <2>2. f[k] \in 1 .. Len(args.coords)  BY <1>3, <2>1 DEF c
  <2>3. TraceLines(f[k])[d] = Lines(d)[args.coords[f[k]][d] + 1]
    <3> DEFINE m == f[k]
    <3>1. m \in 1 .. Len(args.coords)  BY <2>2
    <3> HIDE DEF m
    <3>2. /\ TraceLines(m)[1] = Lines(1)[args.coords[m][1] + 1]
          /\ TraceLines(m)[2] = Lines(2)[args.coords[m][2] + 1]
      BY <3>1, TraceLinesAre
    <3>3. TraceLines(m)[d] = Lines(d)[args.coords[m][d] + 1]  BY <3>2
    <3> QED BY <3>3 DEF m
  <2>4. TraceLines(f[k])[d] = Lines(d)[Asked[k][d] + 1]
    BY <2>1, <2>3 DEF c
  <2>5. Asked[k][d] \in Found(k, d)  BY <1>2
  <2>6. k \in DOMAIN Query.coords  BY <1>5
  <2> DEFINE i == Asked[k][d]
  <2> HIDE DEF i
  <2>7. i \in Found(k, d)  BY <2>5 DEF i
  <2>8. IsAskedFor(Lines(d)[i + 1], d, Query.coords[k])
    BY <1>1, <2>6, <2>7, FoundIsAskedFor
  <2> QED BY <2>4, <2>8 DEF i
<1>13. DOMAIN head.index[1] = 1 .. n
  <2>1. head.index = <<[k \in 1 .. Len(args.coords) |-> Lines(1)[args.coords[k][1] + 1]],
                       [k \in 1 .. Len(args.coords) |-> Lines(2)[args.coords[k][2] + 1]], Lines(3)>>
    BY HeadIs DEF CurtainHead
  <2>2. head.index[1] = [k \in 1 .. Len(args.coords) |-> Lines(1)[args.coords[k][1] + 1]]
    BY <2>1
  <2> QED BY <1>3, <2>2 DEF c
<1> QED BY <1>5, <1>11, <1>12, <1>13

\* A sample of the data is where the index says.
LEMMA CurtainSampleIs ==
    ASSUME PlannerInv, stage = "planned", Query.function = "curtain",
           NEW off, NEW s, Belongs("data", off, s)
    PROVE  LET p == PointAt(off, head.shapes[1]) IN
           IsSample(s, "data", TraceLines(p[1] + 1) \o <<head.index[3][p[2] + 1]>>)
<1> DEFINE n == Len(args.coords)  l == Len(Lines(3))
<1>1. Query.function # "slice"  OBVIOUS
<1>2. PICK k \in 1 .. n, z \in 0 .. l - 1 :
          off = (k - 1) * l + z /\ s = <<"data", <<args.coords[k][1], args.coords[k][2], z>>>>
  BY <1>1 DEF Belongs
<1> DEFINE g == <<args.coords[k][1], args.coords[k][2], z>>  box == <<n, l>>  q == <<k - 1, z>>
<1>3. args.coords \in Seq(Nat \X Nat)
  <2>1. args \in [attributes : Seq(AttributeNames), idx : Nat, coords : Seq(Nat \X Nat)]
    BY PlanIs
  <2> QED BY <2>1
<1>4. n \in Nat \ {0} /\ l \in Nat \ {0}
  <2>1. n \in Nat  BY <1>3
  <2>2. l \in Nat
    <3>1. job \in Jobs /\ Len(Manifest.line_numbers) = 3  BY PlanIs
    <3>2. 3 \in 1 .. Len(Manifest.line_numbers)  BY <3>1
    <3> QED BY <3>1, <3>2, ManifestIs
  <2> QED BY <1>2, <2>1, <2>2
<1>5. g \in [1 .. 3 -> Nat] /\ g[1] = args.coords[k][1] /\ g[2] = args.coords[k][2] /\ g[3] = z
  <2>1. args.coords[k] \in Nat \X Nat  BY <1>3, ElementOfSeq
  <2>2. z \in Nat  BY <1>4
  <2> QED BY <2>1, <2>2
<1> HIDE DEF g
<1>6. s # Blank /\ s # Pad /\ s[1] = "data" /\ s[2] = g
  <2>1. "data" \in AttributeNames /\ s = <<"data", g>>
    BY <1>2 DEF AttributeNames, g
  <2> QED BY <1>5, <2>1, SamplesAreValues
<1> HIDE DEF n, l
<1>7. PointAt(off, box) = q
  <2>1. box \in ShapesOver(1 .. 2) /\ q \in CubePoints(box) /\ q[1] = k - 1 /\ q[2] = z /\ box[2] = l
    BY <1>2, <1>4 DEF ShapesOver, CubePoints
  <2> HIDE DEF box, q
  <2>2. Offset(q, box) = q[1] * box[2] + q[2] /\ PointAt(Offset(q, box), box) = q
    BY <2>1, BoxOfTwo
  <2>3. off = q[1] * box[2] + q[2]  BY <1>2, <2>1
  <2> QED BY <2>2, <2>3
<1>8. /\ TraceLines(k) = <<Lines(1)[g[1] + 1], Lines(2)[g[2] + 1]>>
      /\ head.index[3] = Lines(3) /\ head.shapes[1] = box
  BY <1>2, <1>5, TraceLinesAre DEF n, l
<1>9. PointAt(off, head.shapes[1]) = q /\ q[1] + 1 = k /\ q[2] = z
  BY <1>2, <1>4, <1>7, <1>8
<1> HIDE DEF q
<1> DEFINE lines == TraceLines(k) \o <<Lines(3)[z + 1]>>
<1>10. lines[1] = Lines(1)[g[1] + 1] /\ lines[2] = Lines(2)[g[2] + 1] /\ lines[3] = Lines(3)[g[3] + 1]
  <2> DEFINE a == Lines(1)[g[1] + 1]  b == Lines(2)[g[2] + 1]  e == Lines(3)[z + 1]
  <2>1. lines = <<a, b>> \o <<e>>  BY <1>8
  <2> HIDE DEF a, b, e, lines
  <2> DEFINE X == {a, b, e}  u == <<a, b>>  w == <<e>>
  <2>2. /\ u \in Seq(X) /\ Len(u) = 2 /\ u[1] = a /\ u[2] = b
        /\ w \in Seq(X) /\ Len(w) = 1 /\ w[1] = e
    OBVIOUS
  <2> HIDE DEF X, u, w
  <2>3. /\ \A i \in 1 .. Len(u) : (u \o w)[i] = u[i]
        /\ \A i \in 1 .. Len(w) : (u \o w)[Len(u) + i] = w[i]
    <3>1. u \in Seq(X) /\ w \in Seq(X)  BY <2>2
    <3>2. \A Y : \A x, y \in Seq(Y) : /\ \A i \in 1 .. Len(x) : (x \o y)[i] = x[i]
                                     /\ \A i \in 1 .. Len(y) : (x \o y)[Len(x) + i] = y[i]
      BY ConcatFacts
    <3> QED BY <3>1, <3>2
  <2>4. lines = u \o w  BY <2>1 DEF u, w
  <2>5. 1 \in 1 .. Len(u) /\ 2 \in 1 .. Len(u) /\ 1 \in 1 .. Len(w) /\ Len(u) + 1 = 3
    BY <2>2
  <2>6. lines[1] = a /\ lines[2] = b /\ lines[3] = e
    BY <2>2, <2>3, <2>4, <2>5
  <2> QED BY <1>5, <2>6 DEF a, b, e
<1> HIDE DEF lines
<1>11. \A d \in 1 .. 3 : Lines(d)[g[d] + 1] = lines[d]  BY <1>10
<1>12. IsSample(s, "data", lines)  BY <1>6, <1>11 DEF IsSample
<1> QED BY <1>8, <1>9, <1>12 DEF lines

\* The invariants and all bundles make a curtain complete.
LEMMA CurtainsAreComplete == PlannerInv /\ ClientInv => CurtainsAssemble
<1> SUFFICES ASSUME PlannerInv, ClientInv, Done, Query.function = "curtain"
             PROVE  CurtainsAssemble
  BY DEF CurtainsAssemble
<1>1. /\ stage = "planned" /\ DOMAIN arrays = Range(head.attributes)
      /\ \A a \in DOMAIN arrays : Filled(arrays[a], a)
      /\ \A t \in 1 .. Len(tasks) : Decoded(arrays[tasks[t].attr], tasks[t].attr, t)
  BY DoneDecodesAll
<1>2. \E f \in Bijection(DOMAIN Query.coords, DOMAIN head.index[1]) :
         \A k \in DOMAIN Query.coords, d \in {1, 2} :
             IsAskedFor(TraceLines(f[k])[d], d, Query.coords[k])
  BY <1>1, TracesAreAskedFor
<1>3. ASSUME NEW o \in DOMAIN arrays["data"]
      PROVE  LET p == PointAt(o, head.shapes[1]) IN
             IsSample(arrays["data"][o], "data",
                      TraceLines(p[1] + 1) \o <<head.index[3][p[2] + 1]>>)
  <2>1. "data" \in DOMAIN arrays
    <3>1. /\ DOMAIN head.attributes = 1 .. Len(args.attributes) + 1 /\ Len(args.attributes) \in Nat
          /\ head.attributes[1] = "data"
      BY <1>1, PlaceIs
    <3> QED BY <1>1, <3>1 DEF Range
  <2>2. o \in 0 .. Size("data") - 1  BY <1>1, <2>1 DEF Filled
  <2>3. PICK t \in 1 .. Len(tasks) : tasks[t].attr = "data" /\ Covers(t, o)
    BY <1>1, <2>2, CurtainIsCovered
  <2>4. Decoded(arrays["data"], "data", t)  BY <1>1, <2>3
  <2>5. Belongs("data", o, arrays["data"][o])
    BY <2>2, <2>3, <2>4 DEF Decoded
  <2> QED BY <1>1, <2>5, CurtainSampleIs
<1>4. \A a \in Range(head.attributes) \ Range(Wanted) : NothingWritten(a)
  BY UnwantedIsBlank
<1> QED BY <1>2, <1>3, <1>4 DEF CurtainsAssemble

\* When a curtain is decoded, it has the traces that were asked for, each sample where the
\* index says (plan.cpp 301-365, process.cpp 166-265), for every cube and list of traces.
THEOREM CurtainsComeTogether == Spec => []CurtainsAssemble
  BY PlannerIsSound, ClientIsSound, CurtainsAreComplete, PTL
===============================================================================
