---------------------------- MODULE Ingest_proofs ----------------------------
(***************************************************************************)
(* Scan and upload, for files with any number of traces in any order.      *)
(*                                                                         *)
(* The corners.  A corner moves outwards only, and all traces read are on  *)
(* the same side of it in both dimensions.  There the distance to the      *)
(* corner is a linear function of the trace, Slope, less that of the       *)
(* corner: a corner that moves changes all distances by the same amount,   *)
(* and a trace that was passed over stays farther away.                    *)
(*                                                                         *)
(* The manifest.  Until the last trace of its lane is read, a fragment     *)
(* that upload holds has at each place the last trace so far that is put   *)
(* there.  Behind the limit of the lane no trace comes, so that this is    *)
(* the last of the whole file: that is what is stored, in each upload,      *)
(* unless a local file was truncated and never written.  An upload writes  *)
(* every fragment of the lanes behind it, whatever another one left there. *)
(* The rest is about lines: the index of a line is its Rank among them, a  *)
(* bijection, so that each fragment has a lane and each place of the cube  *)
(* one pair of lines, the one that the manifest lists there.               *)
(***************************************************************************)
EXTENDS Ingest, FunctionTheorems, FiniteSetTheorems, WellFoundedInduction, TLAPS

Slope(p, key) == IF p = 0 THEN key[1] + key[2]
                 ELSE IF p = 1 THEN key[2] - key[1] ELSE key[1] - key[2]

InLimits(l, key) == l[1] <= key[1] /\ key[1] <= l[2] /\ l[3] <= key[2] /\ key[2] <= l[4]

CornerInv ==
    /\ file \in Files
    /\ stage = "header" => trace = 0
    /\ stage \in {"header", "scan"} /\ trace = 0 =>
          limits = NoCorner /\ corners = [p \in 0 .. 2 |-> NoCorner]
    /\ stage = "scan" => trace \in 0 .. TraceCount
    /\ stage = "scan" /\ trace # 0 =>
          /\ limits \in Int \X Int \X Int \X Int
          /\ corners \in [0 .. 2 -> Int \X Int]
          /\ \A p \in 0 .. 2 : InLimits(limits, corners[p])
          /\ \A t \in 1 .. trace :
                /\ InLimits(limits, file.traces[t])
                /\ \A p \in 0 .. 2 : Slope(p, corners[p]) <= Slope(p, file.traces[t])

LEMMA TraceIsCorner ==
    ASSUME NEW key \in Int \X Int
    PROVE  key # NoCorner
  BY DEF NoCorner

\* Within the limits, the distance to a corner is linear.
LEMMA DistanceIsLinear ==
    ASSUME NEW l \in Int \X Int \X Int \X Int, NEW key \in Int \X Int, InLimits(l, key),
           NEW p \in 0 .. 2
    PROVE  Manhattan(key, Target(l, p)) = Slope(p, key) - Slope(p, Target(l, p))
<1>1. CASE p = 0
  BY <1>1 DEF Manhattan, Abs, Target, Slope, InLimits
<1>2. CASE p = 1
  BY <1>2 DEF Manhattan, Abs, Target, Slope, InLimits
<1>3. CASE p = 2
  BY <1>3 DEF Manhattan, Abs, Target, Slope, InLimits
<1> QED
  BY <1>1, <1>2, <1>3

\* The limits after a trace hold what they held, and the trace.
LEMMA LimitsWiden ==
    ASSUME NEW l \in Int \X Int \X Int \X Int, NEW key \in Int \X Int
    PROVE  /\ l # NoCorner
           /\ Widened(l, key) \in Int \X Int \X Int \X Int
           /\ InLimits(Widened(l, key), key)
           /\ \A other \in Int \X Int :
                 InLimits(l, other) => InLimits(Widened(l, key), other)
<1>1. l # NoCorner
  BY DEF NoCorner
<1> QED
  BY <1>1 DEF Widened, InLimits
-----------------------------------------------------------------------------
LEMMA CornerInit == Init => CornerInv
  BY DEF Init, CornerInv

\* A trace that is read keeps the invariant.
LEMMA CornerScan == CornerInv /\ ScanTrace => CornerInv'
<1> SUFFICES ASSUME CornerInv, ScanTrace PROVE CornerInv'
  OBVIOUS
<1>1. /\ file' = file /\ stage = "scan" /\ stage' = "scan"
      /\ trace \in 0 .. TraceCount /\ trace < TraceCount /\ trace' = trace + 1
  BY DEF CornerInv, ScanTrace
<1>2. file.traces \in Seq(Int \X Int)
  BY FilesAssumption DEF CornerInv
<1>3. TraceCount \in Nat /\ TraceCount' = TraceCount /\ trace' \in 0 .. TraceCount
  BY <1>1, <1>2 DEF TraceCount
<1>4. Key \in Int \X Int /\ Key = file.traces[trace']
  BY <1>1, <1>2, <1>3 DEF Key, TraceCount
<1>5. /\ limits' = Widened(limits, Key)
      /\ corners' = [p \in 0 .. 2 |-> Corner(p, Key)]
  BY DEF ScanTrace
<1>6. /\ limits' \in Int \X Int \X Int \X Int
      /\ corners' \in [0 .. 2 -> Int \X Int]
      /\ \A p \in 0 .. 2 : InLimits(limits', corners'[p])
      /\ \A t \in 1 .. trace' :
            /\ InLimits(limits', file.traces[t])
            /\ \A p \in 0 .. 2 : Slope(p, corners'[p]) <= Slope(p, file.traces[t])
  <2>1. CASE trace = 0
    <3>1. limits = NoCorner /\ corners = [p \in 0 .. 2 |-> NoCorner]
      BY <1>1, <2>1 DEF CornerInv
    <3>2. limits' = <<Key[1], Key[1], Key[2], Key[2]>>
      BY <1>5, <3>1 DEF Widened
    <3>3. corners' = [p \in 0 .. 2 |-> Key]
      BY <1>5, <3>1 DEF Corner
    <3>4. InLimits(limits', Key)
      BY <1>4, <3>2 DEF InLimits
    <3>5. \A t \in 1 .. trace' : file.traces[t] = Key
      BY <1>1, <1>4, <2>1
    <3>6. \A p \in 0 .. 2 : Slope(p, Key) \in Int
      BY <1>4 DEF Slope
    <3> QED
      BY <1>4, <3>2, <3>3, <3>4, <3>5, <3>6
  <2>2. CASE trace # 0
    <3>1. /\ limits \in Int \X Int \X Int \X Int
          /\ corners \in [0 .. 2 -> Int \X Int]
          /\ \A p \in 0 .. 2 : InLimits(limits, corners[p])
          /\ \A t \in 1 .. trace :
                /\ InLimits(limits, file.traces[t])
                /\ \A p \in 0 .. 2 : Slope(p, corners[p]) <= Slope(p, file.traces[t])
      BY <1>1, <2>2 DEF CornerInv
    <3>2. /\ limits' \in Int \X Int \X Int \X Int
          /\ InLimits(limits', Key)
          /\ \A other \in Int \X Int : InLimits(limits, other) => InLimits(limits', other)
      BY <1>4, <1>5, <3>1, LimitsWiden
    <3>3. ASSUME NEW p \in 0 .. 2
          PROVE  /\ corners'[p] \in {Key, corners[p]}
                 /\ Slope(p, corners'[p]) <= Slope(p, Key)
                 /\ Slope(p, corners'[p]) <= Slope(p, corners[p])
      <4> DEFINE target == Target(limits', p)
      <4>1. corners[p] \in Int \X Int /\ corners[p] # NoCorner
        BY <3>1, TraceIsCorner
      <4>2. corners'[p] = IF Manhattan(corners[p], target) > Manhattan(Key, target)
                            THEN Key ELSE corners[p]
        BY <1>5, <4>1 DEF Corner, IsCloser
      <4>3. /\ Manhattan(Key, target) = Slope(p, Key) - Slope(p, target)
            /\ Manhattan(corners[p], target) = Slope(p, corners[p]) - Slope(p, target)
        BY <1>4, <3>1, <3>2, <4>1, DistanceIsLinear
      <4>4. Slope(p, Key) \in Int /\ Slope(p, corners[p]) \in Int /\ Slope(p, target) \in Int
        BY <1>4, <3>2, <4>1 DEF Slope, Target
      <4> QED
        BY <4>2, <4>3, <4>4
    <3>4. corners' \in [0 .. 2 -> Int \X Int]
      <4>1. \A p \in 0 .. 2 : corners'[p] \in Int \X Int
        BY <1>4, <3>1, <3>3
      <4> QED
        BY <1>5, <4>1
    <3>5. ASSUME NEW t \in 1 .. trace'
          PROVE  /\ InLimits(limits', file.traces[t])
                 /\ \A p \in 0 .. 2 : Slope(p, corners'[p]) <= Slope(p, file.traces[t])
      <4>1. file.traces[t] \in Int \X Int
        BY <1>2, <1>3 DEF TraceCount
      <4>2. CASE t = trace'
        BY <1>4, <3>2, <3>3, <4>2
      <4>3. CASE t \in 1 .. trace
        <5>1. ASSUME NEW p \in 0 .. 2
              PROVE  /\ Slope(p, corners'[p]) \in Int /\ Slope(p, corners[p]) \in Int
                     /\ Slope(p, file.traces[t]) \in Int
          BY <3>1, <3>4, <4>1 DEF Slope
        <5> QED
          BY <3>1, <3>2, <3>3, <4>1, <4>3, <5>1
      <4> QED
        BY <1>1, <4>2, <4>3
    <3>6. \A p \in 0 .. 2 : InLimits(limits', corners'[p])
      BY <3>1, <3>2, <3>3
    <3> QED
      BY <3>2, <3>4, <3>5, <3>6
  <2> QED
    BY <2>1, <2>2
<1>7. trace' # 0
  BY <1>1
<1> QED
  BY <1>1, <1>3, <1>6, <1>7 DEF CornerInv

LEMMA CornerNext == CornerInv /\ [Next]_vars => CornerInv'
<1> SUFFICES ASSUME CornerInv, [Next]_vars PROVE CornerInv'
  OBVIOUS
<1>1. CASE ScanHeader
  <2>1. /\ file' = file /\ trace' = trace /\ limits' = limits /\ corners' = corners
        /\ stage' \in {"failed", "scan"} /\ trace = 0
    BY <1>1 DEF ScanHeader, scanner, CornerInv
  <2>2. TraceCount' \in Nat
    BY <2>1, FilesAssumption DEF TraceCount, CornerInv
  <2> QED
    BY <1>1, <2>1, <2>2 DEF ScanHeader, CornerInv
<1>2. CASE ScanTrace
  BY <1>2, CornerScan
<1>3. CASE EndScan
  BY <1>3 DEF EndScan, CornerInv
<1>4. CASE \/ Put \/ OpenManifest \/ WriteManifest \/ Start
          \/ \E b \in todo : Open(b) \/ Commit(b) \/ BlobExists(b)
  <2>1. file' = file /\ stage' \notin {"header", "scan"}
    BY <1>4 DEF Put, OpenManifest, WriteManifest, Start, Open, Commit, BlobExists
  <2> QED
    BY <2>1 DEF CornerInv
<1>5. CASE UNCHANGED vars
  BY <1>5 DEF vars, scanner, CornerInv, TraceCount
<1> QED
  BY <1>1, <1>2, <1>3, <1>4, <1>5 DEF Next

\* Of all traces read, those that GeoScanner holds are nearest to the three corners of
\* the lines read (scan_trace_header(), scanners.py 275-327), whatever the file.
THEOREM CornersNearest == Spec => []CornersAreNearest
<1>1. CornerInv => CornersAreNearest
  <2> SUFFICES ASSUME CornerInv, stage = "scan", NEW p \in 0 .. 2, NEW t \in 1 .. trace
               PROVE  Manhattan(corners[p], Target(limits, p))
                         <= Manhattan(file.traces[t], Target(limits, p))
    BY DEF CornersAreNearest
  <2>1. trace # 0 /\ trace \in 0 .. TraceCount
    BY DEF CornerInv
  <2>2. file.traces \in Seq(Int \X Int)
    BY FilesAssumption DEF CornerInv
  <2>3. file.traces[t] \in Int \X Int
    BY <2>1, <2>2 DEF TraceCount
  <2>4. /\ limits \in Int \X Int \X Int \X Int /\ corners[p] \in Int \X Int
        /\ InLimits(limits, corners[p]) /\ InLimits(limits, file.traces[t])
        /\ Slope(p, corners[p]) <= Slope(p, file.traces[t])
    BY <2>1 DEF CornerInv
  <2>5. /\ Manhattan(corners[p], Target(limits, p))
              = Slope(p, corners[p]) - Slope(p, Target(limits, p))
        /\ Manhattan(file.traces[t], Target(limits, p))
              = Slope(p, file.traces[t]) - Slope(p, Target(limits, p))
    BY <2>3, <2>4, DistanceIsLinear
  <2>6. /\ Slope(p, corners[p]) \in Int /\ Slope(p, file.traces[t]) \in Int
        /\ Slope(p, Target(limits, p)) \in Int
    BY <2>3, <2>4 DEF Slope, Target
  <2> QED
    BY <2>4, <2>5, <2>6
<1> QED
  BY CornerInit, CornerNext, <1>1, PTL DEF Spec
-----------------------------------------------------------------------------
\* A set of naturals has a least element, and one that is bounded a greatest.
LEMMA LeastNatural ==
    ASSUME NEW S \in SUBSET Nat, S # {}
    PROVE  \E x \in S : \A y \in S : x <= y
<1> DEFINE Less == OpToRel(<, Nat)
<1>1. \A x, y \in S : y < x => <<y, x>> \in Less
  BY DEF OpToRel
<1>2. IsWellFoundedOn(Less, Nat)
  BY NatLessThanWellFounded
<1> HIDE DEF Less
<1>3. PICK x \in S : \A y \in S : ~(<<y, x>> \in Less)
  BY <1>2, WFMin
<1>4. ASSUME NEW y \in S PROVE x <= y
  <2>1. x \in Nat /\ y \in Nat /\ ~(y < x)
    BY <1>1, <1>3
  <2> QED
    BY <2>1
<1> QED
  BY <1>4

LEMMA MaxOfBounded ==
    ASSUME NEW n \in Int, NEW S \in SUBSET (0 .. n), S # {}
    PROVE  Max(S) \in S /\ \A y \in S : Max(S) >= y
<1> DEFINE T == {n - x : x \in S}
<1>1. T \in SUBSET Nat /\ T # {}
  <2>1. \A x \in S : n - x \in Nat
    OBVIOUS
  <2> QED
    BY <2>1
<1>2. PICK z \in T : \A y \in T : z <= y
  BY <1>1, LeastNatural
<1>3. PICK x \in S : z = n - x
  OBVIOUS
<1>4. ASSUME NEW y \in S PROVE x >= y
  <2>1. n - y \in T /\ x \in Int /\ y \in Int
    OBVIOUS
  <2>2. n - x <= n - y
    BY <1>2, <1>3, <2>1
  <2> HIDE DEF T
  <2> QED
    BY <2>1, <2>2
<1> QED
  BY <1>3, <1>4 DEF Max

\* The place of a number in a set of numbers, as IndexOf has it of a line.
Rank(S, k) == Cardinality({x \in S : x < k})

LEMMA RankBelow ==
    ASSUME NEW S \in SUBSET Int, IsFiniteSet(S), NEW k \in S
    PROVE  Rank(S, k) \in 0 .. Cardinality(S) - 1
<1> DEFINE B == {x \in S : x < k}
<1>1. B \in SUBSET S /\ B # S
  OBVIOUS
<1>2. IsFiniteSet(B) /\ Cardinality(B) <= Cardinality(S) /\ Cardinality(B) # Cardinality(S)
  BY <1>1, FS_Subset
<1>3. Cardinality(B) \in Nat /\ Cardinality(S) \in Nat
  BY <1>2, FS_CardinalityType
<1> HIDE DEF B
<1>4. Cardinality(B) \in 0 .. Cardinality(S) - 1
  BY <1>2, <1>3
<1> QED
  BY <1>4 DEF B, Rank

LEMMA RankGrows ==
    ASSUME NEW S \in SUBSET Int, IsFiniteSet(S), NEW k \in S, NEW j \in S, j < k
    PROVE  Rank(S, j) < Rank(S, k)
<1> DEFINE B == {x \in S : x < j}  C == {x \in S : x < k}
<1>1. B \in SUBSET C /\ B # C /\ C \in SUBSET S
  <2>1. \A x \in S : x < j => x < k
    OBVIOUS
  <2>2. j \in C /\ j \notin B
    OBVIOUS
  <2> QED
    BY <2>1, <2>2
<1>2. IsFiniteSet(C)
  BY <1>1, FS_Subset
<1>3. IsFiniteSet(B) /\ Cardinality(B) <= Cardinality(C) /\ Cardinality(B) # Cardinality(C)
  BY <1>1, <1>2, FS_Subset
<1>4. Cardinality(B) \in Nat /\ Cardinality(C) \in Nat
  BY <1>2, <1>3, FS_CardinalityType
<1> HIDE DEF B, C
<1>5. Cardinality(B) < Cardinality(C)
  BY <1>3, <1>4
<1> QED
  BY <1>5 DEF B, C, Rank

\* Two numbers of a set have two places, and each place up to its cardinality is taken.
LEMMA RankIsOnto ==
    ASSUME NEW S \in SUBSET Int, IsFiniteSet(S), NEW i \in 0 .. Cardinality(S) - 1
    PROVE  \E k \in S : Rank(S, k) = i
<1> DEFINE n == Cardinality(S)  f == [k \in S |-> Rank(S, k)]
<1>1. n \in Nat
  BY FS_CardinalityType
<1>2. f \in [S -> 0 .. n - 1]
  BY RankBelow
<1>3. \A j, k \in S : j # k => f[j] # f[k]
  <2> SUFFICES ASSUME NEW j \in S, NEW k \in S, j # k PROVE Rank(S, j) # Rank(S, k)
    OBVIOUS
  <2>1. Rank(S, j) \in Int /\ Rank(S, k) \in Int
    BY RankBelow
  <2>2. CASE j < k
    BY <2>1, <2>2, RankGrows
  <2>3. CASE k < j
    BY <2>1, <2>3, RankGrows
  <2> QED
    BY <2>2, <2>3
<1>4. f \in Injection(S, 0 .. n - 1)
  BY <1>2, <1>3, Fun_IsInj
<1>5. IsFiniteSet(0 .. n - 1) /\ Cardinality(0 .. n - 1) = n
  BY <1>1, FS_Interval
<1>6. f \in Surjection(S, 0 .. n - 1)
  BY <1>4, <1>5, FS_Injection
<1>7. \E k \in S : f[k] = i
  BY <1>6 DEF Surjection
<1> QED
  BY <1>7

\* There is one sorted sequence of a set, and a number stands in it behind its place.
LEMMA SortedSequence ==
    ASSUME NEW S \in SUBSET Int, IsFiniteSet(S)
    PROVE  LET n == Cardinality(S)
               L == CHOOSE s \in [1 .. n -> S] :
                       \A i, j \in DOMAIN s : i < j => s[i] < s[j]
           IN  L \in [1 .. n -> S] /\ \A i \in 1 .. n : Rank(S, L[i]) = i - 1
<1> DEFINE n == Cardinality(S)
           Sorted(s) == \A i, j \in DOMAIN s : i < j => s[i] < s[j]
           L == CHOOSE s \in [1 .. n -> S] : Sorted(s)
           w == [i \in 1 .. n |-> CHOOSE k \in S : Rank(S, k) = i - 1]
<1>1. n \in Nat
  BY FS_CardinalityType
<1>2. ASSUME NEW i \in 1 .. n PROVE w[i] \in S /\ Rank(S, w[i]) = i - 1
  <2>1. i - 1 \in 0 .. n - 1
    BY <1>1
  <2>2. \E k \in S : Rank(S, k) = i - 1
    BY <2>1, RankIsOnto
  <2> QED
    BY <2>2
<1>3. w \in [1 .. n -> S]
  BY <1>2
<1>4. ASSUME NEW i \in 1 .. n, NEW j \in 1 .. n, i < j PROVE w[i] < w[j]
  <2>1. w[i] \in S /\ w[j] \in S /\ Rank(S, w[i]) = i - 1 /\ Rank(S, w[j]) = j - 1
    BY <1>2
  <2> HIDE DEF w, n
  <2>2. w[i] \in Int /\ w[j] \in Int /\ i \in Int /\ j \in Int /\ i < j
    <3>1. w[i] \in S /\ w[j] \in S
      BY <2>1
    <3>2. i \in Int /\ j \in Int
      BY <1>1
    <3> QED
      BY <3>1, <3>2, <1>4
  <2>3. w[i] # w[j]
    BY <2>1, <2>2
  <2>4. ~(w[j] < w[i])
    <3> SUFFICES ASSUME w[j] < w[i] PROVE FALSE
      OBVIOUS
    <3>1. j - 1 < i - 1
      BY <2>1, RankGrows
    <3> QED
      BY <3>1, <2>2
  <2> QED
    BY <2>2, <2>3, <2>4
<1>5. Sorted(w)
  <2>1. DOMAIN w = 1 .. n
    OBVIOUS
  <2> HIDE DEF w
  <2> QED
    BY <1>4, <2>1
<1>6. L \in [1 .. n -> S] /\ Sorted(L)
  <2> HIDE DEF w, n, Sorted
  <2> QED
    BY <1>3, <1>5
<1>7. \A i, j \in 1 .. n : i < j => L[i] < L[j]
  <2>1. DOMAIN L = 1 .. n
    BY <1>6
  <2> HIDE DEF L
  <2> QED
    BY <1>6, <2>1
<1> HIDE DEF L, w, Sorted
<1>8. ASSUME NEW i \in 1 .. n, NEW j \in 1 .. n, L[i] = L[j] PROVE i = j
  <2>1. L[i] \in Int /\ L[j] \in Int
    BY <1>6
  <2> QED
    BY <1>7, <1>8, <2>1, <1>1
<1>9. L \in Surjection(1 .. n, S)
  <2>1. L \in Injection(1 .. n, S)
    BY <1>6, <1>8, Fun_IsInj
  <2>2. Cardinality(1 .. n) = Cardinality(S)
    BY <1>1, FS_Interval
  <2> QED
    BY <2>1, <2>2, FS_Injection
<1>10. ASSUME NEW i \in 1 .. n PROVE Rank(S, L[i]) = i - 1
  <2> DEFINE B == {x \in S : x < L[i]}  g == [j \in 1 .. i - 1 |-> L[j]]
  <2>1. \A j \in 1 .. i - 1 : j \in 1 .. n /\ L[j] \in B
    BY <1>1, <1>6, <1>7
  <2>2. g \in [1 .. i - 1 -> B]
    BY <2>1
  <2>3. \A j, k \in 1 .. i - 1 : g[j] = g[k] => j = k
    BY <2>1, <1>8
  <2>4. ASSUME NEW x \in B PROVE \E j \in 1 .. i - 1 : g[j] = x
    <3>0. x \in S
      OBVIOUS
    <3>1. PICK j \in 1 .. n : L[j] = x
      BY <3>0, <1>9 DEF Surjection
    <3>2. L[i] \in Int /\ L[j] \in Int /\ L[j] < L[i]
      BY <1>6, <3>1
    <3>3. j # i /\ ~(i < j)
      BY <1>7, <3>2
    <3>4. j \in 1 .. i - 1
      BY <3>3, <1>1
    <3> QED
      BY <3>1, <3>4
  <2>5. g \in Bijection(1 .. i - 1, B)
    <3> HIDE DEF g, B
    <3>1. g \in Surjection(1 .. i - 1, B)
      BY <2>2, <2>4, Fun_IsSurj
    <3>2. g \in Injection(1 .. i - 1, B)
      BY <2>2, <2>3, Fun_IsInj
    <3> QED
      BY <3>1, <3>2 DEF Bijection
  <2>6. IsFiniteSet(1 .. i - 1) /\ Cardinality(1 .. i - 1) = i - 1
    BY FS_Interval
  <2>7. Cardinality(B) = i - 1
    <3> HIDE DEF g, B
    <3>1. ExistsBijection(1 .. i - 1, B)
      BY <2>5 DEF ExistsBijection
    <3> QED
      BY <3>1, <2>6, FS_Bijection
  <2> QED
    BY <2>7 DEF Rank
<1> QED
  BY <1>6, <1>10 DEF L, Sorted
-----------------------------------------------------------------------------
\* What scan knows of the first n traces: their lines, and the last trace of each line.
Scanned(n) ==
    /\ DOMAIN last1s = {file.traces[t][1] : t \in 1 .. n}
    /\ key2s = {file.traces[t][2] : t \in 1 .. n}
    /\ \A k \in DOMAIN last1s :
          /\ last1s[k] \in 0 .. n - 1
          /\ file.traces[last1s[k] + 1][1] = k
          /\ \A t \in 1 .. n : file.traces[t][1] = k => t - 1 <= last1s[k]

\* Upload starts from a report of the whole file, which has a trace.
Reported == file \in Files /\ TraceCount > 0 /\ Scanned(TraceCount)

LEMMA TracesType ==
    ASSUME file \in Files
    PROVE  /\ TraceCount \in Nat /\ file.samples \in Nat
           /\ \A t \in 1 .. TraceCount : file.traces[t] \in Int \X Int
<1>1. file.traces \in Seq(Int \X Int) /\ file.samples \in Nat
  BY FilesAssumption
<1> QED
  BY <1>1 DEF TraceCount

LEMMA ShapesType ==
    ASSUME NEW s \in Filesets
    PROVE  /\ s \in Nat
           /\ \A d \in 1 .. 3 : Shapes[s][d] \in Nat \ {0}
<1>1. s \in 1 .. Len(Shapes) /\ Len(Shapes) \in Nat /\ Shapes[s] \in ShapesOver(1 .. 3)
  BY ShapesAssumption DEF Filesets
<1> QED
  BY <1>1 DEF ShapesOver

LEMMA KeysAreTheLines ==
    ASSUME Reported, NEW d \in {1, 2}
    PROVE  /\ Keys(d) \in SUBSET Int /\ IsFiniteSet(Keys(d))
           /\ \A t \in 1 .. TraceCount : file.traces[t][d] \in Keys(d)
           /\ \A k \in Keys(d) : \E t \in 1 .. TraceCount : file.traces[t][d] = k
           /\ Cardinality(Keys(d)) \in Nat \ {0}
<1> DEFINE N == TraceCount
<1>1. Keys(d) = {file.traces[t][d] : t \in 1 .. N}
  <2>1. CASE d = 1
    BY <2>1 DEF Keys, Reported, Scanned
  <2>2. CASE d = 2
    BY <2>2 DEF Keys, Reported, Scanned
  <2> QED
    BY <2>1, <2>2
<1>2. N \in Nat /\ N > 0 /\ \A t \in 1 .. N : file.traces[t][d] \in Int
  BY TracesType DEF Reported
<1> HIDE DEF N
<1>3. \A t \in 1 .. N : file.traces[t][d] \in Keys(d)
  BY <1>1
<1>4. \A k \in Keys(d) : \E t \in 1 .. N : file.traces[t][d] = k
  BY <1>1
<1>5. IsFiniteSet(Keys(d))
  <2> DEFINE f == [t \in 1 .. N |-> file.traces[t][d]]
  <2>1. f \in [1 .. N -> Keys(d)]
    BY <1>3
  <2>2. f \in Surjection(1 .. N, Keys(d))
    BY <2>1, <1>4, Fun_IsSurj
  <2>3. IsFiniteSet(1 .. N)
    BY <1>2, FS_Interval
  <2> HIDE DEF f
  <2> QED
    BY <2>2, <2>3, FS_Surjection
<1>6. Keys(d) \in SUBSET Int
  BY <1>2, <1>4
<1>7. Keys(d) # {}
  <2>1. 1 \in 1 .. N
    BY <1>2
  <2> QED
    BY <2>1, <1>3
<1>8. Cardinality(Keys(d)) \in Nat \ {0}
  <2>1. Cardinality(Keys(d)) \in Nat
    BY <1>5, FS_CardinalityType
  <2>2. Cardinality(Keys(d)) # 0
    BY <1>5, <1>7, FS_EmptySet
  <2> QED
    BY <2>1, <2>2
<1> QED
  BY <1>3, <1>4, <1>5, <1>6, <1>8 DEF N

\* The lines of a dimension have the indices from 0, each its own, and the manifest lists
\* them in this order.
LEMMA IndexOfLine ==
    ASSUME Reported, NEW d \in {1, 2}
    PROVE  LET n == Cardinality(Keys(d)) IN
           /\ \A k \in Keys(d) : IndexOf(d, k) \in 0 .. n - 1
           /\ \A j, k \in Keys(d) : IndexOf(d, j) = IndexOf(d, k) => j = k
           /\ \A i \in 0 .. n - 1 : \E k \in Keys(d) : IndexOf(d, k) = i
           /\ Lines(d) \in [1 .. n -> Keys(d)]
           /\ \A i \in 1 .. n : IndexOf(d, Lines(d)[i]) = i - 1
<1> DEFINE K == Keys(d)
<1>1. K \in SUBSET Int /\ IsFiniteSet(K)
  BY KeysAreTheLines
<1>2. \A k : IndexOf(d, k) = Rank(K, k)
  BY DEF IndexOf, Rank
<1>3. Lines(d) = CHOOSE s \in [1 .. Cardinality(K) -> K] :
                     \A i, j \in DOMAIN s : i < j => s[i] < s[j]
  BY DEF Lines
<1> HIDE DEF K
<1>4. \A k \in K : Rank(K, k) \in 0 .. Cardinality(K) - 1
  BY <1>1, RankBelow
<1>5. ASSUME NEW j \in K, NEW k \in K, Rank(K, j) = Rank(K, k) PROVE j = k
  <2>1. j \in Int /\ k \in Int /\ Rank(K, j) \in Int
    BY <1>1, <1>4
  <2>2. j < k => Rank(K, j) < Rank(K, k)
    BY <1>1, RankGrows
  <2>3. k < j => Rank(K, k) < Rank(K, j)
    BY <1>1, RankGrows
  <2> QED
    BY <1>5, <2>1, <2>2, <2>3
<1>6. \A i \in 0 .. Cardinality(K) - 1 : \E k \in K : Rank(K, k) = i
  BY <1>1, RankIsOnto
<1>7. /\ Lines(d) \in [1 .. Cardinality(K) -> K]
      /\ \A i \in 1 .. Cardinality(K) : Rank(K, Lines(d)[i]) = i - 1
  BY <1>1, <1>3, SortedSequence
<1> QED
  BY <1>2, <1>4, <1>5, <1>6, <1>7 DEF K
-----------------------------------------------------------------------------
LEMMA Division ==
    ASSUME NEW a \in Nat, NEW b \in Nat \ {0}
    PROVE  /\ a \div b \in Nat /\ a % b \in 0 .. b - 1
           /\ a = ((a \div b) * b) + (a % b)
  BY SMT

LEMMA DivisionIsUnique ==
    ASSUME NEW a \in Nat, NEW b \in Nat \ {0}, NEW q \in Nat, NEW r \in 0 .. b - 1
    PROVE  a \div b = q /\ a % b = r <=> a = (q * b) + r
<1>1. ((q * b) + r) \div b = q /\ ((q * b) + r) % b = r
  BY SMT
<1>2. a = ((a \div b) * b) + (a % b)
  BY Division
<1> QED
  BY <1>1, <1>2

\* Rounding up, a line is in one of the fragments, and each of them has its first line.
LEMMA FragmentsOfLines ==
    ASSUME NEW n \in Nat \ {0}, NEW b \in Nat \ {0}
    PROVE  LET f == (n + (b - 1)) \div b IN
           /\ f \in Nat
           /\ \A x \in 0 .. n - 1 : x \div b \in 0 .. f - 1
           /\ \A i \in 0 .. f - 1 : i * b \in 0 .. n - 1 /\ (i * b) \div b = i
<1> DEFINE f == (n + (b - 1)) \div b
           r == (n + (b - 1)) % b
<1>1. n + (b - 1) \in Nat
  OBVIOUS
<1>2. f \in Nat /\ r \in 0 .. b - 1 /\ n + (b - 1) = (f * b) + r
  BY <1>1, Division
<1> HIDE DEF f, r
<1>3. ASSUME NEW x \in 0 .. n - 1 PROVE x \div b \in 0 .. f - 1
  <2> DEFINE q == x \div b  y == x % b
  <2>1. q \in Nat /\ y \in 0 .. b - 1 /\ x = (q * b) + y
    BY Division
  <2> HIDE DEF q, y
  <2>2. q * b < f * b
    <3>1. q * b \in Int /\ f * b \in Int
      BY <2>1, <1>2
    <3> DEFINE u == q * b  v == f * b
    <3>2. u \in Int /\ v \in Int /\ x = u + y /\ n + (b - 1) = v + r
      BY <2>1, <3>1, <1>2
    <3> HIDE DEF u, v
    <3>3. u < v
      BY <3>2, <2>1, <1>2
    <3> QED
      BY <3>3 DEF u, v
  <2>3. q < f
    <3> SUFFICES ASSUME f <= q PROVE FALSE
      BY <2>1, <1>2
    <3>1. f * b <= q * b
      BY <2>1, <1>2
    <3> QED
      BY <3>1, <2>2, <2>1, <1>2
  <2>4. q \in 0 .. f - 1
    BY <2>1, <2>3, <1>2
  <2> QED
    BY <2>4 DEF q
<1>4. ASSUME NEW i \in 0 .. f - 1 PROVE i * b \in 0 .. n - 1 /\ (i * b) \div b = i
  <2>1. i \in Nat /\ i + 1 <= f
    BY <1>2
  <2>2. (i + 1) * b <= f * b /\ (i + 1) * b = (i * b) + b /\ i * b \in Nat
    BY <2>1, <1>2
  <2>3. i * b < n
    <3> DEFINE u == i * b  v == f * b
    <3>1. u \in Nat /\ v \in Int /\ u + b <= v /\ n + (b - 1) = v + r
      BY <2>2, <1>2
    <3> HIDE DEF u, v
    <3>2. u < n
      BY <3>1, <1>2
    <3> QED
      BY <3>2 DEF u
  <2>4. i * b = (i * b) + 0 /\ 0 \in 0 .. b - 1
    BY <2>2
  <2>5. (i * b) \div b = i
    BY <2>1, <2>2, <2>4, DivisionIsUnique
  <2> QED
    BY <2>2, <2>3, <2>5
<1> QED
  BY <1>2, <1>3, <1>4 DEF f

\* The fragments of a fileset along the two line numbers, and those in depth.
LEMMA CountOfFragments ==
    ASSUME Reported, NEW s \in Filesets
    PROVE  /\ \A d \in {1, 2} :
                 /\ FragmentCount(Cube(s), Shapes[s], d) \in Nat
                 /\ \A k \in Keys(d) :
                       /\ IndexOf(d, k) \in Nat
                       /\ IndexOf(d, k) \div Shapes[s][d]
                             \in 0 .. FragmentCount(Cube(s), Shapes[s], d) - 1
                 /\ \A i \in 0 .. FragmentCount(Cube(s), Shapes[s], d) - 1 :
                       \E k \in Keys(d) : IndexOf(d, k) \div Shapes[s][d] = i
           /\ FragmentCount(Cube(s), Shapes[s], 3) = ZSections(s)
<1>1. ASSUME NEW d \in {1, 2}
      PROVE  /\ FragmentCount(Cube(s), Shapes[s], d) \in Nat
             /\ \A k \in Keys(d) :
                   /\ IndexOf(d, k) \in Nat
                   /\ IndexOf(d, k) \div Shapes[s][d]
                         \in 0 .. FragmentCount(Cube(s), Shapes[s], d) - 1
             /\ \A i \in 0 .. FragmentCount(Cube(s), Shapes[s], d) - 1 :
                   \E k \in Keys(d) : IndexOf(d, k) \div Shapes[s][d] = i
  <2> DEFINE n == Cardinality(Keys(d))  b == Shapes[s][d]
             f == FragmentCount(Cube(s), Shapes[s], d)
  <2>1. n \in Nat \ {0}
    BY KeysAreTheLines
  <2>2. b \in Nat \ {0}
    BY ShapesType
  <2>3. f = (n + (b - 1)) \div b
    <3>1. CASE d = 1
      BY <3>1 DEF FragmentCount, Cube
    <3>2. CASE d = 2
      BY <3>2 DEF FragmentCount, Cube
    <3> QED
      BY <3>1, <3>2
  <2>4. \A k \in Keys(d) : IndexOf(d, k) \in 0 .. n - 1
    BY IndexOfLine
  <2>5. \A i \in 0 .. n - 1 : \E k \in Keys(d) : IndexOf(d, k) = i
    BY IndexOfLine
  <2> HIDE DEF n, b, f
  <2>6. /\ f \in Nat
        /\ \A x \in 0 .. n - 1 : x \div b \in 0 .. f - 1
        /\ \A i \in 0 .. f - 1 : i * b \in 0 .. n - 1 /\ (i * b) \div b = i
    BY <2>1, <2>2, <2>3, FragmentsOfLines
  <2>7. \A k \in Keys(d) : IndexOf(d, k) \in Nat /\ IndexOf(d, k) \div b \in 0 .. f - 1
    BY <2>4, <2>6
  <2>8. \A i \in 0 .. f - 1 : \E k \in Keys(d) : IndexOf(d, k) \div b = i
    <3> TAKE i \in 0 .. f - 1
    <3>1. i * b \in 0 .. n - 1 /\ (i * b) \div b = i
      BY <2>6
    <3>2. \E k \in Keys(d) : IndexOf(d, k) = i * b
      BY <3>1, <2>5
    <3> QED
      BY <3>1, <3>2
  <2> QED
    BY <2>6, <2>7, <2>8 DEF b, f
<1> QED
  BY <1>1 DEF ZSections
-----------------------------------------------------------------------------
LEMMA IdentsAre ==
    ASSUME NEW b
    PROVE  b \in Idents <=> \E s \in Filesets : \E id \in Ids(s) : b = <<s, id>>
  BY DEF Idents

LEMMA IdentParts ==
    ASSUME Reported, NEW b \in Idents
    PROVE  /\ b[1] \in Filesets /\ b = <<b[1], b[2]>> /\ b[2] \in Ids(b[1])
           /\ b[2] = <<b[2][1], b[2][2], b[2][3]>>
           /\ \A d \in {1, 2} : b[2][d] \in 0 .. FragmentCount(Cube(b[1]), Shapes[b[1]], d) - 1
           /\ b[2][3] \in 0 .. ZSections(b[1]) - 1
<1>1. PICK s \in Filesets : \E id \in Ids(s) : b = <<s, id>>
  BY IdentsAre
<1>2. b[1] \in Filesets /\ b[2] \in Ids(b[1]) /\ b = <<b[1], b[2]>>
  BY <1>1
<1>3. FragmentCount(Cube(b[1]), Shapes[b[1]], 3) = ZSections(b[1])
  BY <1>2, CountOfFragments
<1> QED
  BY <1>2, <1>3 DEF Ids

\* The fragment of a line pair and a depth is one of the fileset.
Column(s, key2) == IndexOf(2, key2) \div Shapes[s][2]

LEMMA IdentOfLines ==
    ASSUME Reported, NEW s \in Filesets, NEW k \in 0 .. ZSections(s) - 1,
           NEW i \in 0 .. FragmentCount(Cube(s), Shapes[s], 1) - 1,
           NEW j \in 0 .. FragmentCount(Cube(s), Shapes[s], 2) - 1
    PROVE  <<s, <<i, j, k>>>> \in Idents
<1>1. k \in 0 .. FragmentCount(Cube(s), Shapes[s], 3) - 1
  BY CountOfFragments
<1>2. <<i, j, k>> \in Ids(s)
  BY <1>1 DEF Ids
<1> QED
  BY <1>2, IdentsAre

LEMMA LinesOfTrace ==
    ASSUME Reported, NEW s \in Filesets, NEW t \in 1 .. TraceCount
    PROVE  LET key == file.traces[t] IN
           /\ key[1] \in Keys(1) /\ key[2] \in Keys(2)
           /\ IndexOf(1, key[1]) \in Nat /\ IndexOf(2, key[2]) \in Nat
           /\ Lane(s, key[1]) \in 0 .. FragmentCount(Cube(s), Shapes[s], 1) - 1
           /\ Column(s, key[2]) \in 0 .. FragmentCount(Cube(s), Shapes[s], 2) - 1
<1> DEFINE key == file.traces[t]
<1>1. key[1] \in Keys(1) /\ key[2] \in Keys(2)
  BY KeysAreTheLines
<1> HIDE DEF key
<1>2. IndexOf(1, key[1]) \in Nat /\ IndexOf(2, key[2]) \in Nat
  BY <1>1, CountOfFragments
<1>3. Lane(s, key[1]) \in 0 .. FragmentCount(Cube(s), Shapes[s], 1) - 1
  BY <1>1, CountOfFragments DEF Lane
<1>4. Column(s, key[2]) \in 0 .. FragmentCount(Cube(s), Shapes[s], 2) - 1
  BY <1>1, CountOfFragments DEF Column
<1> QED
  BY <1>1, <1>2, <1>3, <1>4 DEF key

\* commit() yields all fragments of its lane, those too that no trace was put in.
LEMMA LaneIsWhole ==
    ASSUME Reported, NEW s \in Filesets,
           NEW i \in 0 .. FragmentCount(Cube(s), Shapes[s], 1) - 1
    PROVE  {<<s, id>> : id \in LaneIdents(s, i)} = {b \in Idents : b[1] = s /\ b[2][1] = i}
<1>1. ASSUME NEW id \in LaneIdents(s, i) PROVE <<s, id>> \in Idents /\ id[1] = i
  <2>1. PICK key2 \in key2s, k \in 0 .. ZSections(s) - 1 : id = <<i, Column(s, key2), k>>
    BY DEF LaneIdents, Column
  <2>2. key2 \in Keys(2)
    BY DEF Keys
  <2>3. Column(s, key2) \in 0 .. FragmentCount(Cube(s), Shapes[s], 2) - 1
    BY <2>2, CountOfFragments DEF Column
  <2> QED
    BY <2>1, <2>3, IdentOfLines
<1>2. ASSUME NEW b \in Idents, b[1] = s, b[2][1] = i
      PROVE  b[2] \in LaneIdents(s, i) /\ b = <<s, b[2]>>
  <2>1. /\ b = <<s, b[2]>> /\ b[2] = <<i, b[2][2], b[2][3]>>
        /\ b[2][2] \in 0 .. FragmentCount(Cube(s), Shapes[s], 2) - 1
        /\ b[2][3] \in 0 .. ZSections(s) - 1
    BY <1>2, IdentParts
  <2>2. PICK key2 \in Keys(2) : IndexOf(2, key2) \div Shapes[s][2] = b[2][2]
    BY <2>1, CountOfFragments
  <2>3. key2 \in key2s
    BY DEF Keys
  <2>4. <<i, b[2][2], b[2][3]>> \in LaneIdents(s, i)
    BY <2>1, <2>2, <2>3 DEF LaneIdents
  <2> QED
    BY <2>1, <2>4
<1> QED
  BY <1>1, <1>2

\* The limit of a lane is a trace of the lane, and no trace of the lane is behind it.
Limit(b) == SetLimits(b[1], b[2][1])

LEMMA LimitOfLane ==
    ASSUME Reported, NEW b \in Idents
    PROVE  /\ Limit(b) \in 0 .. TraceCount - 1
           /\ Lane(b[1], file.traces[Limit(b) + 1][1]) = b[2][1]
           /\ \A t \in 1 .. TraceCount :
                 Lane(b[1], file.traces[t][1]) = b[2][1] => t - 1 <= Limit(b)
<1> DEFINE L == {k \in Keys(1) : Lane(b[1], k) = b[2][1]}
           S == {last1s[k] : k \in L}
           N == TraceCount - 1
<1>1. b[1] \in Filesets /\ b[2][1] \in 0 .. FragmentCount(Cube(b[1]), Shapes[b[1]], 1) - 1
  BY IdentParts
<1>2. L # {}
  BY <1>1, CountOfFragments DEF Lane
<1>3. Limit(b) = Max(S)
  BY DEF Limit, SetLimits, Keys
<1>4. /\ TraceCount \in Nat
      /\ \A k \in L : /\ last1s[k] \in 0 .. N
                      /\ file.traces[last1s[k] + 1][1] = k
                      /\ \A t \in 1 .. TraceCount :
                            file.traces[t][1] = k => t - 1 <= last1s[k]
  BY TracesType DEF Reported, Scanned, Keys
<1>5. S \in SUBSET (0 .. N) /\ S # {} /\ N \in Int
  BY <1>2, <1>4
<1>6. Max(S) \in S /\ \A y \in S : Max(S) >= y
  <2> HIDE DEF S, N
  <2> QED
    BY <1>5, MaxOfBounded
<1>7. PICK k \in L : Limit(b) = last1s[k]
  BY <1>3, <1>6
<1>8. Limit(b) \in 0 .. N /\ Lane(b[1], file.traces[Limit(b) + 1][1]) = b[2][1]
  BY <1>4, <1>7
<1>9. ASSUME NEW t \in 1 .. TraceCount, Lane(b[1], file.traces[t][1]) = b[2][1]
      PROVE  t - 1 <= Limit(b)
  <2> DEFINE j == file.traces[t][1]
  <2>1. j \in L
    BY <1>9, KeysAreTheLines
  <2> HIDE DEF L
  <2>2. last1s[j] \in Int /\ t - 1 <= last1s[j]
    BY <2>1, <1>4
  <2>3. Limit(b) >= last1s[j]
    BY <2>1, <1>3, <1>6
  <2> HIDE DEF j
  <2> QED
    BY <2>2, <2>3, <1>8
<1> QED
  BY <1>8, <1>9
-----------------------------------------------------------------------------
\* A trace is put at this place of this fragment.
PutIn(b, xy, key) ==
    /\ Lane(b[1], key[1]) = b[2][1] /\ Column(b[1], key[2]) = b[2][2]
    /\ Place(b[1], key) = xy

\* v is the last of the first n traces at this place, 0 if there is none.
Holds(b, xy, n, v) ==
    /\ v \in 0 .. n
    /\ v # 0 => PutIn(b, xy, file.traces[v])
    /\ \A t \in v + 1 .. n : ~PutIn(b, xy, file.traces[t])

Filled(samples, b, n) ==
    /\ samples \in [DOMAIN Zeros(b[1]) -> 0 .. TraceCount]
    /\ \A xy \in DOMAIN Zeros(b[1]) : Holds(b, xy, n, samples[xy])

LEMMA PlaceOfTrace ==
    ASSUME Reported, NEW s \in Filesets, NEW t \in 1 .. TraceCount
    PROVE  LET key == file.traces[t] IN
           /\ Place(s, key) = <<IndexOf(1, key[1]) % Shapes[s][1],
                                IndexOf(2, key[2]) % Shapes[s][2]>>
           /\ Place(s, key) \in DOMAIN Zeros(s)
<1> DEFINE key == file.traces[t]
           x == IndexOf(1, key[1]) % Shapes[s][1]
           y == IndexOf(2, key[2]) % Shapes[s][2]
<1>1. IndexOf(1, key[1]) \in Nat /\ IndexOf(2, key[2]) \in Nat
  BY LinesOfTrace
<1>2. Shapes[s][1] \in Nat \ {0} /\ Shapes[s][2] \in Nat \ {0}
  BY ShapesType
<1> HIDE DEF key
<1>3. x \in 0 .. Shapes[s][1] - 1 /\ y \in 0 .. Shapes[s][2] - 1
  BY <1>1, <1>2, Division
<1>4. Place(s, key) = [d \in {1, 2} |-> IF d = 1 THEN x ELSE y]
  BY DEF Place
<1> HIDE DEF x, y
<1>5. Place(s, key) = <<x, y>>
  <2>1. {1, 2} = 1 .. 2
    OBVIOUS
  <2> QED
    BY <1>4, <2>1
<1>6. Place(s, key) \in DOMAIN Zeros(s)
  BY <1>3, <1>5 DEF Zeros
<1> QED
  BY <1>5, <1>6 DEF x, y, key

LEMMA ZerosAreFilled ==
    ASSUME Reported, NEW b \in Idents
    PROVE  Filled(Zeros(b[1]), b, 0)
<1> DEFINE D == (0 .. Shapes[b[1]][1] - 1) \X (0 .. Shapes[b[1]][2] - 1)
<1>1. Zeros(b[1]) = [xy \in D |-> 0]
  BY DEF Zeros
<1>2. TraceCount \in Nat
  BY TracesType DEF Reported
<1> HIDE DEF D
<1>3. /\ Zeros(b[1]) \in [DOMAIN Zeros(b[1]) -> 0 .. TraceCount]
      /\ \A xy \in DOMAIN Zeros(b[1]) : Zeros(b[1])[xy] = 0
  BY <1>1, <1>2
<1> QED
  BY <1>3 DEF Filled, Holds

\* put() of one trace: the place of the trace changes, in its fragment.
LEMMA TraceIsPut ==
    ASSUME Reported, NEW b \in Idents, NEW n \in 0 .. TraceCount - 1, NEW samples,
           Filled(samples, b, n)
    PROVE  LET key == file.traces[n + 1] IN
           Filled(IF Lane(b[1], key[1]) = b[2][1] /\ Column(b[1], key[2]) = b[2][2]
                    THEN [samples EXCEPT ![Place(b[1], key)] = n + 1] ELSE samples, b, n + 1)
<1> DEFINE key == file.traces[n + 1]
           here == Lane(b[1], key[1]) = b[2][1] /\ Column(b[1], key[2]) = b[2][2]
           new == IF here THEN [samples EXCEPT ![Place(b[1], key)] = n + 1] ELSE samples
           D == DOMAIN Zeros(b[1])
<1>1. TraceCount \in Nat /\ n \in Nat /\ n + 1 \in 1 .. TraceCount
  BY TracesType DEF Reported
<1>2. b[1] \in Filesets
  BY IdentParts
<1>3. Place(b[1], key) \in D
  BY <1>1, <1>2, PlaceOfTrace
<1>4. samples \in [D -> 0 .. TraceCount] /\ \A xy \in D : Holds(b, xy, n, samples[xy])
  BY DEF Filled
<1>5. here = (Lane(b[1], key[1]) = b[2][1] /\ Column(b[1], key[2]) = b[2][2])
      /\ key = file.traces[n + 1]
  OBVIOUS
<1> HIDE DEF here, key, D
<1>6. new \in [D -> 0 .. TraceCount]
  <2>1. n + 1 \in 0 .. TraceCount
    BY <1>1
  <2> QED
    BY <1>3, <1>4, <2>1
<1>7. ASSUME NEW xy \in D
      PROVE  new[xy] = IF PutIn(b, xy, key) THEN n + 1 ELSE samples[xy]
  <2>1. PutIn(b, xy, key) <=> here /\ Place(b[1], key) = xy
    BY DEF PutIn, here
  <2>2. DOMAIN samples = D
    BY <1>4
  <2> QED
    BY <2>1, <2>2
<1> HIDE DEF new
<1>8. ASSUME NEW xy \in D PROVE Holds(b, xy, n + 1, new[xy])
  <2>1. CASE PutIn(b, xy, key)
    <3>1. new[xy] = n + 1 /\ PutIn(b, xy, file.traces[new[xy]])
      BY <1>5, <1>7, <2>1
    <3> QED
      BY <3>1, <1>1 DEF Holds
  <2>2. CASE ~PutIn(b, xy, key)
    <3> DEFINE v == samples[xy]
    <3>1. new[xy] = v /\ Holds(b, xy, n, v)
      BY <1>4, <1>7, <2>2
    <3> HIDE DEF v
    <3>2. v \in 0 .. n /\ (v # 0 => PutIn(b, xy, file.traces[v]))
      BY <3>1 DEF Holds
    <3>3. ASSUME NEW t \in v + 1 .. n + 1 PROVE ~PutIn(b, xy, file.traces[t])
      <4>1. t \in v + 1 .. n \/ t = n + 1
        BY <3>2, <1>1
      <4> QED
        BY <4>1, <3>1, <2>2, <1>5 DEF Holds
    <3>4. v \in 0 .. n + 1
      BY <3>2, <1>1
    <3> QED
      BY <3>1, <3>2, <3>3, <3>4 DEF Holds
  <2> QED
    BY <2>1, <2>2
<1>9. Filled(new, b, n + 1)
  BY <1>6, <1>8 DEF Filled, D
<1> QED
  BY <1>9 DEF new, here, key

\* After the last trace of its lane, a fragment has what it will have.
LEMMA LaneIsFinal ==
    ASSUME Reported, NEW b \in Idents, NEW n \in 0 .. TraceCount, Limit(b) < n,
           NEW samples, Filled(samples, b, n)
    PROVE  Filled(samples, b, TraceCount)
<1>1. TraceCount \in Nat /\ Limit(b) \in Int
  BY TracesType, LimitOfLane DEF Reported
<1>2. ASSUME NEW xy, NEW t \in n + 1 .. TraceCount PROVE ~PutIn(b, xy, file.traces[t])
  <2>1. t \in 1 .. TraceCount /\ t \in Int /\ n < t
    BY <1>1
  <2>2. ~(t - 1 <= Limit(b))
    BY <2>1, <1>1
  <2> QED
    BY <2>1, <2>2, LimitOfLane DEF PutIn
<1>3. ASSUME NEW xy, NEW v, Holds(b, xy, n, v) PROVE Holds(b, xy, TraceCount, v)
  <2>1. v \in 0 .. n /\ v \in 0 .. TraceCount
    BY <1>1, <1>3 DEF Holds
  <2>2. ASSUME NEW t \in v + 1 .. TraceCount PROVE ~PutIn(b, xy, file.traces[t])
    <3>1. t \in v + 1 .. n \/ t \in n + 1 .. TraceCount
      BY <2>1, <1>1
    <3> QED
      BY <3>1, <1>2, <1>3 DEF Holds
  <2> QED
    BY <1>3, <2>1, <2>2 DEF Holds
<1> QED
  BY <1>3 DEF Filled

LEMMA FilledOnce ==
    ASSUME Reported, NEW b, NEW n \in 0 .. TraceCount,
           NEW x, NEW y, Filled(x, b, n), Filled(y, b, n)
    PROVE  x = y
<1> DEFINE D == DOMAIN Zeros(b[1])
<1>1. TraceCount \in Nat
  BY TracesType DEF Reported
<1>2. x \in [D -> 0 .. TraceCount] /\ y \in [D -> 0 .. TraceCount]
  BY DEF Filled
<1>3. ASSUME NEW xy \in D PROVE x[xy] = y[xy]
  <2> DEFINE v == x[xy]  w == y[xy]
  <2>1. Holds(b, xy, n, v) /\ Holds(b, xy, n, w)
    BY DEF Filled
  <2> HIDE DEF v, w
  <2>2. v \in Nat /\ w \in Nat /\ v <= n /\ w <= n /\ n \in Nat
    BY <2>1, <1>1 DEF Holds
  <2>3. ~(v < w)
    <3> SUFFICES ASSUME v < w PROVE FALSE
      OBVIOUS
    <3>1. w \in v + 1 .. n /\ w # 0
      BY <2>2
    <3> QED
      BY <3>1, <2>1 DEF Holds
  <2>4. ~(w < v)
    <3> SUFFICES ASSUME w < v PROVE FALSE
      OBVIOUS
    <3>1. v \in w + 1 .. n /\ v # 0
      BY <2>2
    <3> QED
      BY <3>1, <2>1 DEF Holds
  <2>5. v = w
    BY <2>2, <2>3, <2>4
  <2> QED
    BY <2>5 DEF v, w
<1> HIDE DEF D
<1> QED
  BY <1>2, <1>3
-----------------------------------------------------------------------------
Uploads == {"upload", "manifest", "stopped", "done"}

\* Nothing is put or stored before the file is scanned.
Stages ==
    /\ stage \notin Uploads => open = <<>> /\ todo = {} /\ blobs = <<>> /\ manifest = NoManifest
    /\ stage = "header" => trace = 0 /\ Scanned(0)
    /\ stage = "scan" => Scanned(trace)
    /\ stage \in Uploads => TraceCount > 0 /\ Scanned(TraceCount)

\* A fragment is stored with what the whole file has.
Whole(b) == b \in DOMAIN blobs /\ Filled(blobs[b], b, TraceCount)

\* A lane is held until its last trace, then yielded, then stored.
Uploading ==
    stage = "upload" =>
        /\ \A b \in todo : Limit(b) = trace - 1
        /\ \A b \in Idents :
              Limit(b) >= trace \/ b \in todo => Filled(Block(open, b), b, trace)
        /\ \A b \in Idents : Limit(b) < trace /\ b \notin todo => Whole(b)
        /\ \A b \in DOMAIN open : Limit(b) >= trace \/ b \in todo

\* The first upload has not opened what it has still to read or to write.
Fresh ==
    stage = "upload" /\ starts = 0 =>
        \A b \in DOMAIN blobs : Limit(b) < trace /\ (b \in todo => b \in writing)

\* What is stored is what the whole file has, or a local file that was truncated.
Stored == \A b \in DOMAIN blobs : Whole(b) \/ (blobs[b] = Torn /\ store = "local")

\* A manifest is written when the upload has written all fragments.  A local cube loses it
\* before the next is written, and no upload of it stops that has samples enough for one.
Finished ==
    /\ manifest # NoManifest =>
          /\ stage \in Uploads /\ ~(file.samples < 2)
          /\ manifest.lines = <<Lines(1), Lines(2)>>
          /\ Idents \subseteq DOMAIN blobs
    /\ stage \in {"manifest", "done"} => \A b \in Idents : Whole(b)
    /\ stage = "manifest" =>
          ~(file.samples < 2) /\ (store = "local" => manifest = NoManifest)
    /\ stage = "stopped" => store # "local" \/ file.samples < 2

IInv == TypeOK /\ Stages /\ Uploading /\ Fresh /\ Stored /\ Finished

LEMMA UploadHasReport == IInv /\ stage \in Uploads => Reported
  BY DEF IInv, TypeOK, Stages, Reported

\* What is said of the scanned file stays while the report does.
LEMMA ReportStays ==
    ASSUME file' = file, last1s' = last1s, key2s' = key2s
    PROVE  /\ TraceCount' = TraceCount
           /\ \A n : Scanned(n)' <=> Scanned(n)
           /\ Idents' = Idents
           /\ \A b : Limit(b)' = Limit(b)
           /\ \A x, b, n : Filled(x, b, n)' <=> Filled(x, b, n)
           /\ \A d \in {1, 2} : Lines(d)' = Lines(d)
           /\ \A s : Cube(s)' = Cube(s)
<1>1. TraceCount' = TraceCount
  BY DEF TraceCount
<1>2. \A n : Scanned(n)' <=> Scanned(n)
  BY DEF Scanned
<1>3. \A d : Keys(d)' = Keys(d)
  BY DEF Keys
<1>4. ASSUME NEW d, NEW k PROVE IndexOf(d, k)' = IndexOf(d, k)
  <2>1. {x \in Keys(d)' : x < k} = {x \in Keys(d) : x < k}
    BY <1>3
  <2> QED
    BY <2>1 DEF IndexOf
<1>5. \A s, k : Lane(s, k)' = Lane(s, k) /\ Column(s, k)' = Column(s, k)
  BY <1>4 DEF Lane, Column
<1>6. \A s, key : Place(s, key)' = Place(s, key)
  BY <1>4 DEF Place
<1>7. \A b, xy, key : PutIn(b, xy, key)' <=> PutIn(b, xy, key)
  BY <1>5, <1>6 DEF PutIn
<1>8. \A x, b, n : Filled(x, b, n)' <=> Filled(x, b, n)
  <2>1. \A b, xy, n, v : Holds(b, xy, n, v)' <=> Holds(b, xy, n, v)
    BY <1>7 DEF Holds
  <2> QED
    BY <1>1, <2>1 DEF Filled
<1>9. ASSUME NEW b PROVE Limit(b)' = Limit(b)
  <2>1. {last1s'[k] : k \in {j \in DOMAIN last1s' : Lane(b[1], j)' = b[2][1]}}
           = {last1s[k] : k \in {j \in DOMAIN last1s : Lane(b[1], j) = b[2][1]}}
    BY <1>5
  <2> QED
    BY <2>1 DEF Limit, SetLimits
<1>10. ASSUME NEW d PROVE Lines(d)' = Lines(d)
  BY <1>3 DEF Lines
<1>11. \A s : Cube(s)' = Cube(s)
  BY <1>3 DEF Cube
<1>12. Idents' = Idents
  <2>1. \A s : Ids(s)' = Ids(s)
    BY <1>11 DEF Ids, FragmentCount
  <2> QED
    BY <2>1 DEF Idents
<1> QED
  BY <1>1, <1>2, <1>8, <1>9, <1>10, <1>11, <1>12
-----------------------------------------------------------------------------
LEMMA InitInv == Init => IInv
<1> SUFFICES ASSUME Init PROVE IInv
  OBVIOUS
<1>1. file \in Files /\ TraceCount \in Nat
  BY TracesType DEF Init
<1>2. DOMAIN last1s = {} /\ DOMAIN open = {} /\ DOMAIN blobs = {}
  BY DEF Init
<1>3. TypeOK
  <2>1. last1s \in [DOMAIN last1s -> 0 .. TraceCount - 1]
    BY <1>2 DEF Init
  <2> QED
    BY <1>1, <1>2, <2>1, StartsAssumption DEF Init, TypeOK
<1>4. Scanned(0)
  BY <1>2 DEF Init, Scanned
<1> QED
  BY <1>2, <1>3, <1>4 DEF Init, IInv, Stages, Uploads, Uploading, Fresh, Stored, Finished

LEMMA ScanHeaderInv == IInv /\ ScanHeader => IInv'
<1> SUFFICES ASSUME IInv, ScanHeader PROVE IInv'
  OBVIOUS
<1>1. /\ stage = "header" /\ stage' \in {"failed", "scan"} /\ trace = 0
      /\ UNCHANGED <<file, store, trace, last1s, key2s, limits, corners, open, todo, writing,
                     blobs, manifest, starts>>
  BY DEF IInv, Stages, ScanHeader, scanner
<1>2. /\ TraceCount' = TraceCount /\ Idents' = Idents
      /\ \A n : Scanned(n)' <=> Scanned(n)
  BY <1>1, ReportStays
<1>3. open = <<>> /\ todo = {} /\ blobs = <<>> /\ manifest = NoManifest /\ Scanned(0)
  BY <1>1 DEF IInv, Stages, Uploads
<1>4. DOMAIN blobs = {}
  BY <1>3
<1>5. TypeOK'
  BY <1>1, <1>2 DEF IInv, TypeOK
<1>6. Stages'
  BY <1>1, <1>2, <1>3 DEF Stages, Uploads, NoManifest
<1> QED
  BY <1>1, <1>3, <1>4, <1>5, <1>6 DEF IInv, Uploading, Fresh, Stored, Finished, NoManifest

LEMMA ScanTraceInv == IInv /\ ScanTrace => IInv'
<1> SUFFICES ASSUME IInv, ScanTrace PROVE IInv'
  OBVIOUS
<1>1. /\ stage = "scan" /\ stage' = stage /\ trace < TraceCount /\ trace' = trace + 1
      /\ last1s' = With(last1s, Key[1], trace) /\ key2s' = key2s \cup {Key[2]}
      /\ UNCHANGED <<file, store, open, todo, writing, blobs, manifest, starts>>
  BY DEF ScanTrace
<1>2. /\ open = <<>> /\ todo = {} /\ blobs = <<>> /\ manifest = NoManifest
      /\ Scanned(trace)
  BY <1>1 DEF IInv, Stages, Uploads
<1>3. /\ file \in Files /\ trace \in Nat /\ TraceCount \in Nat /\ TraceCount' = TraceCount
      /\ trace + 1 \in 1 .. TraceCount /\ Key = file.traces[trace + 1]
  BY <1>1, TracesType DEF IInv, TypeOK, TraceCount, Key
<1>4. \A t \in 1 .. trace + 1 : t \in 1 .. trace \/ t = trace + 1
  BY <1>3
<1>5. DOMAIN last1s' = DOMAIN last1s \cup {Key[1]}
  BY <1>1 DEF With
<1>6. ASSUME NEW k \in DOMAIN last1s'
      PROVE  last1s'[k] = IF k = Key[1] THEN trace ELSE last1s[k]
  BY <1>1, <1>5 DEF With
<1>7. DOMAIN last1s' = {file.traces[t][1] : t \in 1 .. trace + 1}
  <2>1. \A t \in 1 .. trace : t \in 1 .. trace + 1
    BY <1>3
  <2>2. trace + 1 \in 1 .. trace + 1
    BY <1>3
  <2>3. DOMAIN last1s = {file.traces[t][1] : t \in 1 .. trace}
    BY <1>2 DEF Scanned
  <2> QED
    BY <1>3, <1>4, <1>5, <2>1, <2>2, <2>3
<1>8. key2s' = {file.traces[t][2] : t \in 1 .. trace + 1}
  <2>1. \A t \in 1 .. trace : t \in 1 .. trace + 1
    BY <1>3
  <2>2. trace + 1 \in 1 .. trace + 1
    BY <1>3
  <2>3. key2s = {file.traces[t][2] : t \in 1 .. trace}
    BY <1>2 DEF Scanned
  <2> QED
    BY <1>1, <1>3, <1>4, <2>1, <2>2, <2>3
<1>9. ASSUME NEW k \in DOMAIN last1s'
      PROVE  /\ last1s'[k] \in 0 .. trace
             /\ file.traces[last1s'[k] + 1][1] = k
             /\ \A t \in 1 .. trace + 1 : file.traces[t][1] = k => t - 1 <= last1s'[k]
  <2>1. CASE k = Key[1]
    <3>1. last1s'[k] = trace
      BY <1>6, <2>1
    <3>2. \A t \in 1 .. trace + 1 : t - 1 <= trace
      BY <1>3
    <3> QED
      BY <3>1, <3>2, <1>3, <2>1
  <2>2. CASE k # Key[1]
    <3>1. k \in DOMAIN last1s /\ last1s'[k] = last1s[k]
      BY <1>5, <1>6, <2>2
    <3>2. /\ last1s[k] \in 0 .. trace - 1
          /\ file.traces[last1s[k] + 1][1] = k
          /\ \A t \in 1 .. trace : file.traces[t][1] = k => t - 1 <= last1s[k]
      BY <3>1, <1>2 DEF Scanned
    <3>3. last1s[k] \in 0 .. trace
      BY <3>2, <1>3
    <3>4. \A t \in 1 .. trace + 1 : file.traces[t][1] = k => t \in 1 .. trace
      BY <1>3, <1>4, <2>2
    <3> QED
      BY <3>1, <3>2, <3>3, <3>4
  <2> QED
    BY <2>1, <2>2
<1>10. Scanned(trace)'
  <2>1. trace' = trace + 1 /\ trace' - 1 = trace
    BY <1>1, <1>3
  <2> QED
    BY <1>1, <1>7, <1>8, <1>9, <2>1 DEF Scanned
<1>11. TypeOK'
  <2>1. last1s' \in [DOMAIN last1s' -> 0 .. TraceCount - 1]
    <3>1. \A i \in 0 .. trace : i \in 0 .. TraceCount - 1
      BY <1>3
    <3>2. last1s' = [k \in DOMAIN last1s' |-> last1s'[k]]
      BY <1>1 DEF With
    <3> QED
      BY <1>9, <3>1, <3>2
  <2>2. trace' \in 0 .. TraceCount
    BY <1>1, <1>3
  <2>3. DOMAIN open' = {} /\ DOMAIN blobs' = {} /\ todo' = {} /\ writing' \subseteq todo'
    BY <1>1, <1>2 DEF IInv, TypeOK
  <2> QED
    BY <1>1, <1>3, <2>1, <2>2, <2>3 DEF IInv, TypeOK
<1>12. Stages'
  BY <1>1, <1>2, <1>10 DEF Stages, Uploads, NoManifest
<1> QED
  BY <1>1, <1>2, <1>11, <1>12 DEF IInv, Uploading, Fresh, Stored, Finished, NoManifest

LEMMA EndScanInv == IInv /\ EndScan => IInv'
<1> SUFFICES ASSUME IInv, EndScan PROVE IInv'
  OBVIOUS
<1>1. /\ stage = "scan" /\ trace = TraceCount /\ trace' = 0
      /\ stage' \in {"failed", "upload"} /\ (stage' = "upload" => TraceCount # 0)
      /\ UNCHANGED <<file, store, last1s, key2s, limits, corners, open, todo, writing,
                     blobs, manifest, starts>>
  BY DEF EndScan, scanner
<1>2. /\ TraceCount' = TraceCount /\ Idents' = Idents
      /\ \A n : Scanned(n)' <=> Scanned(n)
      /\ \A b : Limit(b)' = Limit(b)
      /\ \A x, b, n : Filled(x, b, n)' <=> Filled(x, b, n)
  BY <1>1, ReportStays
<1>3. /\ open = <<>> /\ todo = {} /\ blobs = <<>> /\ manifest = NoManifest
      /\ Scanned(TraceCount) /\ file \in Files /\ TraceCount \in Nat
  BY <1>1, TracesType DEF IInv, TypeOK, Stages, Uploads
<1>4. DOMAIN blobs = {} /\ DOMAIN open = {}
  BY <1>3
<1>5. TypeOK'
  <2>1. trace' \in 0 .. TraceCount
    BY <1>1, <1>3
  <2> QED
    BY <1>1, <1>2, <2>1 DEF IInv, TypeOK
<1>6. Stages'
  <2>1. stage' = "upload" => TraceCount > 0
    BY <1>1, <1>3
  <2> QED
    BY <1>1, <1>2, <1>3, <2>1 DEF Stages, Uploads, NoManifest
<1>7. Uploading'
  <2> SUFFICES ASSUME stage' = "upload" PROVE Uploading'
    BY DEF Uploading
  <2>1. Reported
    BY <1>1, <1>3 DEF Reported
  <2>2. ASSUME NEW b \in Idents
        PROVE  ~(Limit(b) < 0) /\ Filled(Block(<<>>, b), b, 0)
    <3>1. Block(<<>>, b) = Zeros(b[1])
      BY <1>3, <1>4 DEF Block
    <3>2. Limit(b) \in Nat
      BY <2>1, LimitOfLane
    <3> QED
      BY <2>1, <3>1, <3>2, ZerosAreFilled
  <2> QED
    BY <1>1, <1>2, <1>3, <1>4, <2>2 DEF Uploading, Block
<1> QED
  BY <1>1, <1>3, <1>4, <1>5, <1>6, <1>7 DEF IInv, Fresh, Stored, Finished, NoManifest

\* A trace is put in a fragment of each fileset, and each lane that it ends is yielded.
LEMMA PutInv == IInv /\ Put => IInv'
<1> SUFFICES ASSUME IInv, Put PROVE IInv'
  OBVIOUS
<1> DEFINE idents == UNION {{<<s, <<Lane(s, Key[1]), IndexOf(2, Key[2]) \div Shapes[s][2], k>>>> :
                                 k \in 0 .. ZSections(s) - 1} : s \in Filesets}
           here(b) == Lane(b[1], Key[1]) = b[2][1] /\ Column(b[1], Key[2]) = b[2][2]
<1>1. /\ stage = "upload" /\ stage' = stage /\ todo = {} /\ trace < TraceCount
      /\ trace' = trace + 1
      /\ UNCHANGED <<file, store, last1s, key2s, limits, corners, writing, blobs, manifest,
                     starts>>
  BY DEF Put, scanner
<1>2. /\ DOMAIN open' = idents \cup DOMAIN open
      /\ \A b \in DOMAIN open' :
            open'[b] = IF b \in idents
                         THEN [Block(open, b) EXCEPT ![Place(b[1], Key)] = trace + 1]
                         ELSE open[b]
  BY DEF Put
<1>3. todo' = UNION {{<<s, id>> : id \in LaneIdents(s, Lane(s, Key[1]))} :
                         s \in {r \in Filesets : LaneEnds(r)}}
  BY DEF Put
<1>4. /\ TraceCount' = TraceCount /\ Idents' = Idents
      /\ \A n : Scanned(n)' <=> Scanned(n)
      /\ \A b : Limit(b)' = Limit(b)
      /\ \A x, b, n : Filled(x, b, n)' <=> Filled(x, b, n)
      /\ \A d \in {1, 2} : Lines(d)' = Lines(d)
  BY <1>1, ReportStays
<1>5. Reported
  BY <1>1, UploadHasReport DEF Uploads
<1>6. /\ TraceCount \in Nat /\ trace \in 0 .. TraceCount - 1 /\ trace \in Nat
      /\ trace + 1 \in 1 .. TraceCount /\ Key = file.traces[trace + 1]
  BY <1>1, TracesType DEF IInv, TypeOK, Key
<1>7. ASSUME NEW s \in Filesets
      PROVE  /\ Lane(s, Key[1]) \in 0 .. FragmentCount(Cube(s), Shapes[s], 1) - 1
             /\ Column(s, Key[2]) \in 0 .. FragmentCount(Cube(s), Shapes[s], 2) - 1
  BY <1>5, <1>6, LinesOfTrace
<1>8. ASSUME NEW b PROVE b \in idents <=> b \in Idents /\ here(b)
  <2>1. ASSUME b \in idents PROVE b \in Idents /\ here(b)
    <3>1. PICK s \in Filesets : \E k \in 0 .. ZSections(s) - 1 :
              b = <<s, <<Lane(s, Key[1]), Column(s, Key[2]), k>>>>
      BY <2>1 DEF Column
    <3>2. b \in Idents
      BY <3>1, <1>5, <1>7, IdentOfLines
    <3> QED
      BY <3>1, <3>2
  <2>2. ASSUME b \in Idents, here(b) PROVE b \in idents
    <3>1. /\ b[1] \in Filesets /\ b[2][3] \in 0 .. ZSections(b[1]) - 1
          /\ b = <<b[1], <<Lane(b[1], Key[1]), Column(b[1], Key[2]), b[2][3]>>>>
      BY <1>5, <2>2, IdentParts
    <3> QED
      BY <3>1 DEF Column
  <2> QED
    BY <2>1, <2>2
<1> HIDE DEF idents
<1>9. ASSUME NEW b \in Idents
      PROVE  Block(open', b) = IF here(b)
                                 THEN [Block(open, b) EXCEPT ![Place(b[1], Key)] = trace + 1]
                                 ELSE Block(open, b)
  BY <1>2, <1>8 DEF Block
<1>10. ASSUME NEW b PROVE b \in todo' <=> b \in Idents /\ Limit(b) = trace
  <2>1. ASSUME b \in todo' PROVE b \in Idents /\ Limit(b) = trace
    <3>1. PICK s \in Filesets : /\ LaneEnds(s)
                                /\ b \in {<<s, id>> : id \in LaneIdents(s, Lane(s, Key[1]))}
      BY <2>1, <1>3
    <3>2. b \in Idents /\ b[1] = s /\ b[2][1] = Lane(s, Key[1])
      BY <3>1, <1>5, <1>7, LaneIsWhole
    <3> QED
      BY <3>1, <3>2 DEF LaneEnds, Limit
  <2>2. ASSUME b \in Idents, Limit(b) = trace PROVE b \in todo'
    <3>1. b[1] \in Filesets /\ Lane(b[1], Key[1]) = b[2][1]
      BY <2>2, <1>5, <1>6, IdentParts, LimitOfLane
    <3>2. LaneEnds(b[1])
      BY <3>1, <2>2 DEF LaneEnds, Limit
    <3>3. b \in {<<b[1], id>> : id \in LaneIdents(b[1], Lane(b[1], Key[1]))}
      BY <3>1, <2>2, <1>5, <1>7, LaneIsWhole
    <3> QED
      BY <3>1, <3>2, <3>3, <1>3
  <2> QED
    BY <2>1, <2>2
<1>11. \A b \in Idents : Limit(b) \in Nat
  BY <1>5, LimitOfLane
<1>12. /\ \A b \in Idents : Limit(b) >= trace => Filled(Block(open, b), b, trace)
       /\ \A b \in Idents : Limit(b) < trace => Whole(b)
       /\ \A b \in DOMAIN open : b \in Idents /\ Limit(b) >= trace
  BY <1>1 DEF IInv, TypeOK, Uploading
<1>13. DOMAIN open' \subseteq Idents /\ todo' \subseteq Idents
  BY <1>2, <1>8, <1>10, <1>12
<1>14. TypeOK'
  <2>1. trace' \in 0 .. TraceCount
    BY <1>1, <1>6
  <2>2. writing' \subseteq todo'
    BY <1>1 DEF IInv, TypeOK
  <2> QED
    BY <1>1, <1>4, <1>13, <2>1, <2>2 DEF IInv, TypeOK
<1>15. Stages'
  BY <1>1, <1>4 DEF IInv, Stages, Uploads
<1>16. Uploading'
  <2>1. ASSUME NEW b \in todo' PROVE Limit(b) = trace' - 1
    BY <1>1, <1>6, <1>10
  <2>2. ASSUME NEW b \in Idents, Limit(b) >= trace' \/ b \in todo'
        PROVE  Filled(Block(open', b), b, trace + 1)
    <3>1. Limit(b) >= trace
      BY <2>2, <1>1, <1>6, <1>10, <1>11
    <3> QED
      BY <3>1, <1>5, <1>6, <1>9, <1>12, TraceIsPut
  <2>3. ASSUME NEW b \in Idents, Limit(b) < trace', b \notin todo' PROVE Whole(b)
    BY <2>3, <1>1, <1>6, <1>10, <1>11, <1>12
  <2>4. ASSUME NEW b \in DOMAIN open' PROVE Limit(b) >= trace' \/ b \in todo'
    <3>1. b \in Idents /\ Limit(b) >= trace
      <4>1. CASE b \in DOMAIN open
        BY <4>1, <1>12
      <4>2. CASE b \in idents
        <5>1. b \in Idents /\ trace + 1 - 1 <= Limit(b)
          BY <4>2, <1>5, <1>6, <1>8, LimitOfLane
        <5> QED
          BY <5>1, <1>6, <1>11
      <4> QED
        BY <4>1, <4>2, <1>2
    <3> QED
      BY <3>1, <1>1, <1>6, <1>10, <1>11
  <2> QED
    BY <2>1, <2>2, <2>3, <2>4, <1>1, <1>4 DEF Uploading, Block, Whole
<1>17. Stored' /\ Finished'
  BY <1>1, <1>4 DEF IInv, Stored, Whole, Finished, Uploads, NoManifest
<1>18. Fresh'
  <2> SUFFICES ASSUME starts = 0, NEW b \in DOMAIN blobs
               PROVE  Limit(b) < trace' /\ b \notin todo'
    BY <1>1, <1>4 DEF Fresh
  <2>1. b \in Idents /\ Limit(b) < trace
    BY <1>1 DEF IInv, TypeOK, Fresh
  <2> QED
    BY <2>1, <1>1, <1>6, <1>10, <1>11
<1> QED
  BY <1>14, <1>15, <1>16, <1>17, <1>18 DEF IInv

\* A fragment that is yielded has all its traces, and the storage has it from then on.
LEMMA YieldedIsFinal ==
    ASSUME IInv, stage = "upload", NEW b \in todo
    PROVE  b \in Idents /\ Limit(b) < trace /\ Filled(Block(open, b), b, TraceCount)
<1>1. Reported /\ b \in Idents /\ Limit(b) = trace - 1 /\ trace \in 0 .. TraceCount
  BY UploadHasReport DEF Uploads, IInv, TypeOK, Uploading
<1>2. TraceCount \in Nat
  BY TracesType DEF IInv, TypeOK
<1>3. Limit(b) < trace
  BY <1>1, <1>2
<1>4. Filled(Block(open, b), b, trace)
  BY <1>1 DEF IInv, Uploading
<1> QED
  BY <1>1, <1>3, <1>4, LaneIsFinal

\* A file that is opened is torn; it is one that upload has not written yet.
LEMMA OpenInv == ASSUME IInv, NEW b \in todo, Open(b) PROVE IInv'
<1>1. /\ stage = "upload" /\ stage' = stage /\ writing = {} /\ writing' = {b}
      /\ blobs' = IF store = "local" THEN With(blobs, b, Torn) ELSE blobs
      /\ UNCHANGED <<file, store, trace, last1s, key2s, limits, corners, open, todo, manifest,
                     starts>>
  BY DEF Open, scanner
<1>2. /\ TraceCount' = TraceCount /\ Idents' = Idents
      /\ \A n : Scanned(n)' <=> Scanned(n)
      /\ \A c : Limit(c)' = Limit(c)
      /\ \A x, c, n : Filled(x, c, n)' <=> Filled(x, c, n)
      /\ \A d \in {1, 2} : Lines(d)' = Lines(d)
  BY <1>1, ReportStays
<1>3. b \in Idents /\ Limit(b) < trace
  BY <1>1, YieldedIsFinal
<1>4. /\ DOMAIN blobs \subseteq DOMAIN blobs' /\ DOMAIN blobs' \subseteq DOMAIN blobs \cup {b}
      /\ \A c \in DOMAIN blobs' : c # b => blobs'[c] = blobs[c]
      /\ b \in DOMAIN blobs' =>
            \/ blobs'[b] = Torn /\ store = "local"
            \/ b \in DOMAIN blobs /\ blobs'[b] = blobs[b]
  BY <1>1 DEF With
<1>5. ASSUME NEW c, c # b PROVE Whole(c)' <=> Whole(c)
  BY <1>2, <1>4, <1>5 DEF Whole
<1>6. Stored'
  <2> SUFFICES ASSUME NEW c \in DOMAIN blobs'
               PROVE  Whole(c)' \/ (blobs'[c] = Torn /\ store' = "local")
    BY DEF Stored
  <2>1. CASE c # b
    BY <2>1, <1>1, <1>4, <1>5 DEF IInv, Stored
  <2>2. CASE c = b
    BY <2>2, <1>1, <1>2, <1>4 DEF IInv, Stored, Whole
  <2> QED
    BY <2>1, <2>2
<1>7. TypeOK'
  <2>1. \A c \in DOMAIN blobs' :
            blobs'[c] = Torn \/ blobs'[c] \in [DOMAIN Zeros(c[1]) -> 0 .. TraceCount]
    BY <1>4 DEF IInv, TypeOK
  <2>2. todo' \cup DOMAIN open' \cup DOMAIN blobs' \subseteq Idents /\ writing' \subseteq todo'
    BY <1>1, <1>3, <1>4 DEF IInv, TypeOK
  <2> QED
    BY <1>1, <1>2, <2>1, <2>2 DEF IInv, TypeOK
<1>8. Stages'
  BY <1>1, <1>2 DEF IInv, Stages, Uploads
<1>9. Uploading'
  <2>1. \A c \in todo' : Limit(c) = trace - 1
    BY <1>1 DEF IInv, Uploading
  <2>2. ASSUME NEW c \in Idents, Limit(c) < trace, c \notin todo' PROVE Whole(c)'
    BY <2>2, <1>1, <1>5 DEF IInv, Uploading
  <2> QED
    BY <1>1, <1>2, <2>1, <2>2 DEF IInv, Uploading, Block
<1>10. Fresh'
  BY <1>1, <1>2, <1>3, <1>4 DEF IInv, Fresh
<1>11. Finished'
  BY <1>1, <1>2, <1>4 DEF IInv, Finished, Uploads, NoManifest
<1> QED
  BY <1>6, <1>7, <1>8, <1>9, <1>10, <1>11 DEF IInv

LEMMA CommitInv == ASSUME IInv, NEW b \in todo, Commit(b) PROVE IInv'
<1> DEFINE samples == Block(open, b)
<1>1. /\ stage = "upload" /\ stage' = stage /\ todo' = todo \ {b} /\ writing' = {}
      /\ blobs' = With(blobs, b, samples)
      /\ open' = [c \in DOMAIN open \ {b} |-> open[c]]
      /\ UNCHANGED <<file, store, trace, last1s, key2s, limits, corners, manifest, starts>>
  BY DEF Commit, scanner
<1>2. /\ TraceCount' = TraceCount /\ Idents' = Idents
      /\ \A n : Scanned(n)' <=> Scanned(n)
      /\ \A c : Limit(c)' = Limit(c)
      /\ \A x, c, n : Filled(x, c, n)' <=> Filled(x, c, n)
      /\ \A d \in {1, 2} : Lines(d)' = Lines(d)
  BY <1>1, ReportStays
<1>3. b \in Idents /\ Limit(b) < trace /\ Filled(samples, b, TraceCount)
  BY <1>1, YieldedIsFinal
<1> HIDE DEF samples
<1>4. /\ DOMAIN blobs' = DOMAIN blobs \cup {b}
      /\ \A c \in DOMAIN blobs' : blobs'[c] = IF c = b THEN samples ELSE blobs[c]
  BY <1>1 DEF With
<1>5. /\ DOMAIN open' = DOMAIN open \ {b}
      /\ \A c : c # b => Block(open', c) = Block(open, c)
  BY <1>1 DEF Block
<1>6. Whole(b)' /\ \A c : Whole(c) => Whole(c)'
  BY <1>2, <1>3, <1>4 DEF Whole
<1>7. Stored'
  BY <1>1, <1>4, <1>6 DEF IInv, Stored
<1>8. TypeOK'
  <2>1. \A c \in DOMAIN blobs' :
            blobs'[c] = Torn \/ blobs'[c] \in [DOMAIN Zeros(c[1]) -> 0 .. TraceCount]
    BY <1>3, <1>4 DEF IInv, TypeOK, Filled
  <2>2. todo' \cup DOMAIN open' \cup DOMAIN blobs' \subseteq Idents /\ writing' \subseteq todo'
    BY <1>1, <1>3, <1>4, <1>5 DEF IInv, TypeOK
  <2> QED
    BY <1>1, <1>2, <2>1, <2>2 DEF IInv, TypeOK
<1>9. Stages'
  BY <1>1, <1>2 DEF IInv, Stages, Uploads
<1>10. Uploading'
  <2>1. \A c \in todo' : Limit(c) = trace - 1
    BY <1>1 DEF IInv, Uploading
  <2>2. ASSUME NEW c \in Idents, Limit(c) >= trace \/ c \in todo'
        PROVE  Filled(Block(open', c), c, trace)
    <3>1. c # b
      <4>1. Limit(b) \in Nat /\ trace \in Int
        BY <1>1, <1>3, UploadHasReport, LimitOfLane, TracesType DEF IInv, TypeOK, Uploads
      <4> QED
        BY <4>1, <1>1, <1>3, <2>2
    <3>2. Filled(Block(open, c), c, trace)
      BY <1>1, <2>2 DEF IInv, Uploading
    <3> QED
      BY <3>1, <3>2, <1>5
  <2>3. \A c \in Idents : Limit(c) < trace /\ c \notin todo' => Whole(c)'
    BY <1>1, <1>6 DEF IInv, Uploading
  <2>4. \A c \in DOMAIN open' : Limit(c) >= trace \/ c \in todo'
    BY <1>1, <1>5 DEF IInv, Uploading
  <2> QED
    BY <1>1, <1>2, <2>1, <2>2, <2>3, <2>4 DEF Uploading, Block
<1>11. Fresh'
  <2>1. writing = {b}
    BY DEF Commit
  <2> QED
    BY <2>1, <1>1, <1>2, <1>3, <1>4 DEF IInv, Fresh
<1>12. Finished'
  BY <1>1, <1>2, <1>4 DEF IInv, Finished, Uploads, NoManifest
<1> QED
  BY <1>7, <1>8, <1>9, <1>10, <1>11, <1>12 DEF IInv

LEMMA BlobExistsInv == ASSUME IInv, NEW b \in todo, BlobExists(b) PROVE IInv'
<1>1. /\ stage = "upload" /\ stage' = "stopped" /\ store # "local" /\ writing' = {}
      /\ UNCHANGED <<file, store, trace, last1s, key2s, limits, corners, open, todo, blobs,
                     manifest, starts>>
  BY DEF BlobExists, Replaces, scanner
<1>2. /\ TraceCount' = TraceCount /\ Idents' = Idents
      /\ \A n : Scanned(n)' <=> Scanned(n)
      /\ \A x, c, n : Filled(x, c, n)' <=> Filled(x, c, n)
      /\ \A d \in {1, 2} : Lines(d)' = Lines(d)
  BY <1>1, ReportStays
<1>3. TypeOK'
  BY <1>1, <1>2 DEF IInv, TypeOK
<1>4. Stages' /\ Uploading' /\ Fresh'
  BY <1>1, <1>2 DEF IInv, Stages, Uploading, Fresh, Uploads
<1>5. Stored' /\ Finished'
  BY <1>1, <1>2 DEF IInv, Stored, Whole, Finished, Uploads, NoManifest
<1> QED
  BY <1>3, <1>4, <1>5 DEF IInv

\* At the end of the file all lanes have ended, so the manifest comes behind all fragments.
LEMMA AllIsWritten ==
    ASSUME IInv, stage = "upload", todo = {}, trace = TraceCount, NEW b \in Idents
    PROVE  Whole(b)
<1>1. Limit(b) \in 0 .. TraceCount - 1 /\ TraceCount \in Nat
  BY UploadHasReport, LimitOfLane, TracesType DEF Reported, Uploads
<1>2. Limit(b) < trace
  BY <1>1
<1> QED
  BY <1>2 DEF IInv, Uploading

LEMMA OpenManifestInv == IInv /\ OpenManifest => IInv'
<1> SUFFICES ASSUME IInv, OpenManifest PROVE IInv'
  OBVIOUS
<1>1. /\ stage = "upload" /\ todo = {} /\ trace = TraceCount
      /\ \/ file.samples < 2 /\ stage' = "stopped" /\ manifest' = manifest
         \/ /\ ~(file.samples < 2) /\ stage' = "manifest"
            /\ manifest' = IF store = "local" THEN NoManifest ELSE manifest
      /\ UNCHANGED <<file, store, trace, last1s, key2s, limits, corners, open, todo, writing,
                     blobs, starts>>
  BY DEF OpenManifest, scanner
<1>2. /\ TraceCount' = TraceCount /\ Idents' = Idents
      /\ \A n : Scanned(n)' <=> Scanned(n)
      /\ \A x, c, n : Filled(x, c, n)' <=> Filled(x, c, n)
      /\ \A d \in {1, 2} : Lines(d)' = Lines(d)
  BY <1>1, ReportStays
<1>3. stage' \in {"stopped", "manifest"} /\ NoManifest' = NoManifest
  BY <1>1 DEF NoManifest
<1>4. TypeOK'
  BY <1>1, <1>2, <1>3 DEF IInv, TypeOK
<1>5. Stages' /\ Uploading' /\ Fresh'
  BY <1>1, <1>2, <1>3 DEF IInv, Stages, Uploading, Fresh, Uploads
<1>6. \A b : Whole(b)' <=> Whole(b)
  BY <1>1, <1>2 DEF Whole
<1>7. Stored'
  BY <1>1, <1>6 DEF IInv, Stored
<1>8. Finished'
  <2>1. \A b \in Idents : Whole(b)
    BY <1>1, AllIsWritten
  <2>2. manifest' = NoManifest \/ manifest' = manifest
    BY <1>1
  <2>3. manifest' # NoManifest =>
           /\ ~(file.samples < 2) /\ manifest'.lines = <<Lines(1), Lines(2)>>
           /\ Idents \subseteq DOMAIN blobs
    BY <2>2 DEF IInv, Finished
  <2>4. stage' \in Uploads /\ stage' # "done"
    BY <1>3 DEF Uploads
  <2>5. stage' = "manifest" => ~(file.samples < 2) /\ (store = "local" => manifest' = NoManifest)
    BY <1>1
  <2>6. stage' = "stopped" => file.samples < 2
    BY <1>1
  <2> QED
    BY <1>1, <1>2, <1>3, <1>6, <2>1, <2>3, <2>4, <2>5, <2>6 DEF Finished, Uploads
<1> QED
  BY <1>4, <1>5, <1>7, <1>8 DEF IInv

LEMMA WriteManifestInv == IInv /\ WriteManifest => IInv'
<1> SUFFICES ASSUME IInv, WriteManifest PROVE IInv'
  OBVIOUS
<1>1. /\ stage = "manifest" /\ stage' \in {"stopped", "done"}
      /\ \/ manifest' = manifest /\ stage' = "stopped" /\ store # "local"
         \/ manifest' = [lines |-> <<Lines(1), Lines(2)>>] /\ stage' = "done"
      /\ UNCHANGED <<file, store, trace, last1s, key2s, limits, corners, open, todo, writing,
                     blobs, starts>>
  BY DEF WriteManifest, Replaces, scanner
<1>2. /\ TraceCount' = TraceCount /\ Idents' = Idents
      /\ \A n : Scanned(n)' <=> Scanned(n)
      /\ \A x, c, n : Filled(x, c, n)' <=> Filled(x, c, n)
      /\ \A d \in {1, 2} : Lines(d)' = Lines(d)
  BY <1>1, ReportStays
<1>3. TypeOK'
  BY <1>1, <1>2 DEF IInv, TypeOK
<1>4. Stages' /\ Uploading' /\ Fresh'
  BY <1>1, <1>2 DEF IInv, Stages, Uploading, Fresh, Uploads
<1>5. \A b : Whole(b)' <=> Whole(b)
  BY <1>1, <1>2 DEF Whole
<1>6. Stored'
  BY <1>1, <1>5 DEF IInv, Stored
<1>7. /\ ~(file.samples < 2)
      /\ \A b \in Idents : Whole(b)
  BY <1>1 DEF IInv, Finished
<1>8. Idents \subseteq DOMAIN blobs
  BY <1>7 DEF Whole
<1>9. Finished'
  <2>1. CASE manifest' = manifest /\ stage' = "stopped" /\ store # "local"
    BY <2>1, <1>1, <1>2, <1>7, <1>8 DEF IInv, Finished, Uploads, NoManifest
  <2>2. CASE manifest' = [lines |-> <<Lines(1), Lines(2)>>] /\ stage' = "done"
    <3>1. manifest'.lines = <<Lines(1), Lines(2)>>
      BY <2>2
    <3> QED
      BY <3>1, <2>2, <1>1, <1>2, <1>5, <1>7, <1>8 DEF Finished, Uploads
  <2> QED
    BY <2>1, <2>2, <1>1
<1> QED
  BY <1>3, <1>4, <1>6, <1>9 DEF IInv

LEMMA StartInv == IInv /\ Start => IInv'
<1> SUFFICES ASSUME IInv, Start PROVE IInv'
  OBVIOUS
<1>1. /\ stage \in Uploads /\ stage' = "upload" /\ trace' = 0 /\ open' = <<>> /\ todo' = {}
      /\ writing' = {} /\ starts < MaxStarts /\ starts' = starts + 1
      /\ UNCHANGED <<file, store, last1s, key2s, limits, corners, blobs, manifest>>
  BY DEF Start, scanner, Uploads
<1>2. /\ TraceCount' = TraceCount /\ Idents' = Idents
      /\ \A n : Scanned(n)' <=> Scanned(n)
      /\ \A b : Limit(b)' = Limit(b)
      /\ \A x, b, n : Filled(x, b, n)' <=> Filled(x, b, n)
      /\ \A d \in {1, 2} : Lines(d)' = Lines(d)
  BY <1>1, ReportStays
<1>3. Reported /\ TraceCount \in Nat
  BY <1>1, UploadHasReport, TracesType DEF Reported
<1>4. DOMAIN open' = {}
  BY <1>1
<1>5. TypeOK'
  <2>1. starts' \in 0 .. MaxStarts
    BY <1>1, StartsAssumption DEF IInv, TypeOK
  <2>2. trace' \in 0 .. TraceCount
    BY <1>1, <1>3
  <2> QED
    BY <1>1, <1>2, <1>4, <2>1, <2>2 DEF IInv, TypeOK
<1>6. Stages'
  BY <1>1, <1>2 DEF IInv, Stages, Uploads
<1>7. Uploading'
  <2>1. ASSUME NEW b \in Idents
        PROVE  ~(Limit(b) < 0) /\ Filled(Block(open', b), b, 0)
    <3>1. Block(open', b) = Zeros(b[1])
      BY <1>4 DEF Block
    <3>2. Limit(b) \in Nat
      BY <1>3, LimitOfLane
    <3> QED
      BY <1>3, <3>1, <3>2, ZerosAreFilled
  <2> QED
    BY <1>1, <1>2, <1>4, <2>1 DEF Uploading, Block
<1>8. Stored' /\ Finished'
  BY <1>1, <1>2 DEF IInv, Stored, Whole, Finished, Uploads, NoManifest
<1>9. Fresh'
  <2>1. starts' # 0
    BY <1>1, StartsAssumption DEF IInv, TypeOK
  <2> QED
    BY <2>1 DEF Fresh
<1> QED
  BY <1>5, <1>6, <1>7, <1>8, <1>9 DEF IInv

LEMMA StutterInv == IInv /\ UNCHANGED vars => IInv'
<1> SUFFICES ASSUME IInv, UNCHANGED vars PROVE IInv'
  OBVIOUS
<1>1. UNCHANGED <<file, store, stage, trace, last1s, key2s, limits, corners, open, todo,
                  writing, blobs, manifest, starts>>
  BY DEF vars, scanner
<1>2. /\ TraceCount' = TraceCount /\ Idents' = Idents
      /\ \A n : Scanned(n)' <=> Scanned(n)
      /\ \A b : Limit(b)' = Limit(b)
      /\ \A x, b, n : Filled(x, b, n)' <=> Filled(x, b, n)
      /\ \A d \in {1, 2} : Lines(d)' = Lines(d)
  BY <1>1, ReportStays
<1>3. TypeOK'
  BY <1>1, <1>2 DEF IInv, TypeOK
<1>4. Stages' /\ Uploading' /\ Fresh'
  BY <1>1, <1>2 DEF IInv, Stages, Uploading, Fresh, Whole, Uploads, Block, NoManifest
<1>5. Stored' /\ Finished'
  BY <1>1, <1>2 DEF IInv, Stored, Whole, Finished, Uploads, NoManifest
<1> QED
  BY <1>3, <1>4, <1>5 DEF IInv

LEMMA NextInv == IInv /\ [Next]_vars => IInv'
<1> SUFFICES ASSUME IInv, [Next]_vars PROVE IInv'
  OBVIOUS
<1>1. CASE ScanHeader
  BY <1>1, ScanHeaderInv
<1>2. CASE ScanTrace
  BY <1>2, ScanTraceInv
<1>3. CASE EndScan
  BY <1>3, EndScanInv
<1>4. CASE Put
  BY <1>4, PutInv
<1>5. CASE \E b \in todo : Open(b) \/ Commit(b) \/ BlobExists(b)
  BY <1>5, OpenInv, CommitInv, BlobExistsInv
<1>6. CASE OpenManifest \/ WriteManifest
  BY <1>6, OpenManifestInv, WriteManifestInv
<1>7. CASE Start
  BY <1>7, StartInv
<1>8. CASE UNCHANGED vars
  BY <1>8, StutterInv
<1> QED
  BY <1>1, <1>2, <1>3, <1>4, <1>5, <1>6, <1>7, <1>8 DEF Next
-----------------------------------------------------------------------------
\* The trace at a place of a fragment has the lines of that place of the cube.
LEMMA PutWhereTheLinesAre ==
    ASSUME Reported, NEW b \in Idents, NEW t \in 1 .. TraceCount, NEW xy \in DOMAIN Zeros(b[1])
    PROVE  PutIn(b, xy, file.traces[t]) <=>
              \A d \in {1, 2} : IndexOf(d, file.traces[t][d])
                                   = (b[2][d] * Shapes[b[1]][d]) + xy[d]
<1> DEFINE s == b[1]  key == file.traces[t]
           x == IndexOf(1, key[1])  y == IndexOf(2, key[2])
<1>1. s \in Filesets /\ b[2][1] \in Nat /\ b[2][2] \in Nat
  BY IdentParts
<1>2. Shapes[s][1] \in Nat \ {0} /\ Shapes[s][2] \in Nat \ {0}
  BY <1>1, ShapesType
<1>3. x \in Nat /\ y \in Nat
  BY <1>1, LinesOfTrace
<1>4. Place(s, key) = <<x % Shapes[s][1], y % Shapes[s][2]>>
  BY <1>1, PlaceOfTrace
<1>5. /\ xy = <<xy[1], xy[2]>>
      /\ xy[1] \in 0 .. Shapes[s][1] - 1 /\ xy[2] \in 0 .. Shapes[s][2] - 1
  BY DEF Zeros
<1>6. Place(s, key) = xy <=> x % Shapes[s][1] = xy[1] /\ y % Shapes[s][2] = xy[2]
  BY <1>4, <1>5
<1>7. Lane(s, key[1]) = x \div Shapes[s][1] /\ Column(s, key[2]) = y \div Shapes[s][2]
  BY DEF Lane, Column
<1>8. \A d \in {1, 2} : IndexOf(d, key[d]) = IF d = 1 THEN x ELSE y
  OBVIOUS
<1>9. PutIn(b, xy, key) <=> /\ x \div Shapes[s][1] = b[2][1] /\ x % Shapes[s][1] = xy[1]
                            /\ y \div Shapes[s][2] = b[2][2] /\ y % Shapes[s][2] = xy[2]
  BY <1>6, <1>7 DEF PutIn
<1> HIDE DEF x, y, key, s
<1>10. x \div Shapes[s][1] = b[2][1] /\ x % Shapes[s][1] = xy[1]
          <=> x = (b[2][1] * Shapes[s][1]) + xy[1]
  <2> DEFINE q == b[2][1]  w == Shapes[s][1]  r == xy[1]
  <2>1. x \in Nat /\ q \in Nat /\ w \in Nat \ {0} /\ r \in 0 .. w - 1
    BY <1>1, <1>2, <1>3, <1>5
  <2> HIDE DEF q, w, r
  <2>2. x \div w = q /\ x % w = r <=> x = (q * w) + r
    BY <2>1, DivisionIsUnique
  <2> QED
    BY <2>2 DEF q, w, r
<1>11. y \div Shapes[s][2] = b[2][2] /\ y % Shapes[s][2] = xy[2]
          <=> y = (b[2][2] * Shapes[s][2]) + xy[2]
  <2> DEFINE q == b[2][2]  w == Shapes[s][2]  r == xy[2]
  <2>1. y \in Nat /\ q \in Nat /\ w \in Nat \ {0} /\ r \in 0 .. w - 1
    BY <1>1, <1>2, <1>3, <1>5
  <2> HIDE DEF q, w, r
  <2>2. y \div w = q /\ y % w = r <=> y = (q * w) + r
    BY <2>1, DivisionIsUnique
  <2> QED
    BY <2>2 DEF q, w, r
<1>12. PutIn(b, xy, key) <=> \A d \in {1, 2} : IndexOf(d, key[d])
                                                  = (b[2][d] * Shapes[s][d]) + xy[d]
  BY <1>8, <1>9, <1>10, <1>11
<1> QED
  BY <1>12 DEF key, s

\* What a place of the cube has is the last trace with its lines.
LEMMA HeldIsTraceAt ==
    ASSUME Reported, NEW b, NEW xy, NEW v, Holds(b, xy, TraceCount, v), NEW key,
           \A t \in 1 .. TraceCount : PutIn(b, xy, file.traces[t]) <=> file.traces[t] = key
    PROVE  v = TraceAt(key)
<1> DEFINE S == {0} \cup {t \in 1 .. TraceCount : file.traces[t] = key}
<1>1. TraceCount \in Nat
  BY TracesType DEF Reported
<1>2. S \in SUBSET (0 .. TraceCount) /\ S # {}
  BY <1>1
<1>3. v \in 0 .. TraceCount /\ v \in S
  BY <1>1 DEF Holds
<1>4. ASSUME NEW t \in S PROVE t <= v
  <2> SUFFICES ASSUME ~(t <= v) PROVE FALSE
    OBVIOUS
  <2>1. t \in v + 1 .. TraceCount /\ t \in 1 .. TraceCount /\ t # 0
    BY <1>1, <1>2, <1>3
  <2>2. file.traces[t] = key
    BY <2>1
  <2> QED
    BY <2>1, <2>2 DEF Holds
<1>5. TraceAt(key) = Max(S)
  BY DEF TraceAt
<1> HIDE DEF S
<1>6. Max(S) \in S /\ \A y \in S : Max(S) >= y
  BY <1>1, <1>2, MaxOfBounded
<1> DEFINE m == Max(S)
<1>7. m \in S /\ m >= v
  BY <1>3, <1>6
<1> HIDE DEF m
<1>8. m \in 0 .. TraceCount /\ m <= v
  BY <1>2, <1>4, <1>7
<1>9. m = v
  BY <1>1, <1>3, <1>7, <1>8
<1> QED
  BY <1>5, <1>9 DEF m

\* A fragment with all its traces has at every place what the manifest says.
LEMMA FilledIsComplete ==
    ASSUME Reported, NEW s \in Filesets, NEW id \in Ids(s), NEW samples,
           Filled(samples, <<s, id>>, TraceCount), NEW xy \in DOMAIN Zeros(s)
    PROVE  LET g == ToGlobal(Shapes[s], id, <<xy[1], xy[2], 0>>) IN
           samples[xy] = IF g[1] < Cube(s)[1] /\ g[2] < Cube(s)[2]
                           THEN TraceAt(<<Lines(1)[g[1] + 1], Lines(2)[g[2] + 1]>>)
                           ELSE 0
<1> DEFINE b == <<s, id>>
           g == ToGlobal(Shapes[s], id, <<xy[1], xy[2], 0>>)
           n(d) == Cardinality(Keys(d))
           v == samples[xy]
<1>1. b \in Idents /\ b[1] = s /\ b[2] = id
  BY IdentsAre
<1>2. Holds(b, xy, TraceCount, v)
  BY DEF Filled
<1>3. \A d \in {1, 2} : g[d] = (id[d] * Shapes[s][d]) + xy[d]
  BY DEF ToGlobal
<1>4. \A d \in {1, 2} : id[d] \in Nat /\ Shapes[s][d] \in Nat \ {0} /\ xy[d] \in Nat
  <2>1. \A d \in {1, 2} : id[d] \in Nat
    BY <1>1, IdentParts
  <2>2. \A d \in {1, 2} : Shapes[s][d] \in Nat \ {0}
    BY ShapesType
  <2>3. \A d \in {1, 2} : xy[d] \in Nat
    BY DEF Zeros
  <2> QED
    BY <2>1, <2>2, <2>3
<1>5. g[1] \in Nat /\ g[2] \in Nat
  BY <1>3, <1>4
<1>6. \A t \in 1 .. TraceCount :
          PutIn(b, xy, file.traces[t]) <=>
             IndexOf(1, file.traces[t][1]) = g[1] /\ IndexOf(2, file.traces[t][2]) = g[2]
  <2> TAKE t \in 1 .. TraceCount
  <2>1. PutIn(b, xy, file.traces[t]) <=>
           \A d \in {1, 2} : IndexOf(d, file.traces[t][d]) = (b[2][d] * Shapes[b[1]][d]) + xy[d]
    BY <1>1, PutWhereTheLinesAre
  <2> HIDE DEF b, g
  <2> QED
    BY <2>1, <1>1, <1>3
<1>7. \A t \in 1 .. TraceCount : \A d \in {1, 2} : file.traces[t][d] \in Keys(d)
  BY KeysAreTheLines
<1>8. Cube(s)[1] = n(1) /\ Cube(s)[2] = n(2)
  BY DEF Cube
<1>9. \A d \in {1, 2} :
         /\ n(d) \in Nat
         /\ \A k \in Keys(d) : IndexOf(d, k) \in 0 .. n(d) - 1
         /\ \A j, k \in Keys(d) : IndexOf(d, j) = IndexOf(d, k) => j = k
         /\ Lines(d) \in [1 .. n(d) -> Keys(d)]
         /\ \A i \in 1 .. n(d) : IndexOf(d, Lines(d)[i]) = i - 1
  BY IndexOfLine, KeysAreTheLines
<1> HIDE DEF b, g, v, n
<1>10. CASE g[1] < n(1) /\ g[2] < n(2)
  <2> DEFINE k1 == Lines(1)[g[1] + 1]  k2 == Lines(2)[g[2] + 1]
  <2>1. g[1] + 1 \in 1 .. n(1) /\ g[2] + 1 \in 1 .. n(2)
    BY <1>5, <1>9, <1>10
  <2>2. k1 \in Keys(1) /\ IndexOf(1, k1) = g[1]
    BY <2>1, <1>5, <1>9
  <2>3. k2 \in Keys(2) /\ IndexOf(2, k2) = g[2]
    BY <2>1, <1>5, <1>9
  <2> HIDE DEF k1, k2
  <2>4. ASSUME NEW t \in 1 .. TraceCount
        PROVE  PutIn(b, xy, file.traces[t]) <=> file.traces[t] = <<k1, k2>>
    <3> DEFINE key == file.traces[t]
    <3>1. key = <<key[1], key[2]>> /\ key[1] \in Keys(1) /\ key[2] \in Keys(2)
      <4>1. key \in Int \X Int
        BY TracesType DEF Reported
      <4> QED
        BY <4>1, <1>7
    <3>2. PutIn(b, xy, key) <=> IndexOf(1, key[1]) = g[1] /\ IndexOf(2, key[2]) = g[2]
      BY <1>6
    <3> HIDE DEF key
    <3>3. IndexOf(1, key[1]) = g[1] <=> key[1] = k1
      BY <3>1, <2>2, <1>9
    <3>4. IndexOf(2, key[2]) = g[2] <=> key[2] = k2
      BY <3>1, <2>3, <1>9
    <3>5. key = <<k1, k2>> <=> key[1] = k1 /\ key[2] = k2
      BY <3>1
    <3>6. PutIn(b, xy, key) <=> key = <<k1, k2>>
      BY <3>2, <3>3, <3>4, <3>5
    <3> QED
      BY <3>6 DEF key
  <2>5. v = TraceAt(<<k1, k2>>)
    BY <2>4, <1>2, HeldIsTraceAt
  <2> QED
    BY <2>5, <1>8, <1>10 DEF k1, k2, v, g
<1>11. CASE ~(g[1] < n(1) /\ g[2] < n(2))
  <2>1. ASSUME NEW t \in 1 .. TraceCount PROVE ~PutIn(b, xy, file.traces[t])
    <3>1. /\ IndexOf(1, file.traces[t][1]) \in 0 .. n(1) - 1
          /\ IndexOf(2, file.traces[t][2]) \in 0 .. n(2) - 1
      BY <1>7, <1>9
    <3>2. n(1) \in Nat /\ n(2) \in Nat
      BY <1>9
    <3> QED
      BY <3>1, <3>2, <1>5, <1>6, <1>11
  <2>2. v = 0
    <3>1. TraceCount \in Nat
      BY TracesType DEF Reported
    <3> QED
      BY <3>1, <2>1, <1>2 DEF Holds
  <2> QED
    BY <2>2, <1>8, <1>11 DEF v, g
<1> QED
  BY <1>10, <1>11
-----------------------------------------------------------------------------
\* The stages, the lines of the report and what is held, yielded and stored have their
\* types, for files of any length with fragments of any shape (scan and upload()).
THEOREM TypeCorrect == Spec => []TypeOK
<1>1. IInv => TypeOK
  BY DEF IInv
<1> QED
  BY InitInv, NextInv, <1>1, PTL DEF Spec

\* An empty file is none with all samples.
LEMMA TornIsNotFilled ==
    ASSUME Reported, NEW b \in Idents, NEW n PROVE ~Filled(Torn, b, n)
<1>1. Shapes[b[1]][1] \in Nat \ {0} /\ Shapes[b[1]][2] \in Nat \ {0}
  BY ShapesType, IdentParts
<1>2. <<0, 0>> \in DOMAIN Zeros(b[1])
  BY <1>1 DEF Zeros
<1> QED
  BY <1>2 DEF Filled, Torn

\* A manifest describes a cube that is all there: each fragment is stored and has at each
\* place the last trace of the file with the lines of that place, in whatever order the
\* traces come and however often upload is started again; only local fragments that are
\* written again may be truncated, until upload is done (upload(), upload.py 333-386).
THEOREM ManifestIsComplete == Spec => []ManifestMeansComplete
<1>1. IInv => ManifestMeansComplete
  <2> SUFFICES ASSUME IInv, manifest # NoManifest, NEW s \in Filesets, NEW id \in Ids(s)
               PROVE  /\ <<s, id>> \in DOMAIN blobs
                      /\ IF blobs[<<s, id>>] = Torn
                           THEN store = "local" /\ stage = "upload"
                           ELSE IsWhole(manifest.lines, s, id)
    BY DEF ManifestMeansComplete
  <2>1. /\ stage \in Uploads /\ Idents \subseteq DOMAIN blobs /\ ~(file.samples < 2)
        /\ manifest.lines[1] = Lines(1) /\ manifest.lines[2] = Lines(2)
    BY DEF IInv, Finished
  <2>2. Reported
    BY <2>1, UploadHasReport
  <2>3. <<s, id>> \in Idents /\ <<s, id>> \in DOMAIN blobs
    BY <2>1, IdentsAre
  <2>4. CASE blobs[<<s, id>>] = Torn
    <3>1. ~Whole(<<s, id>>)
      BY <2>2, <2>3, <2>4, TornIsNotFilled DEF Whole
    <3>2. store = "local"
      BY <2>3, <3>1 DEF IInv, Stored
    <3>3. stage \notin {"manifest", "done"}
      BY <2>3, <3>1 DEF IInv, Finished
    <3>4. stage # "stopped"
      BY <2>1, <3>2 DEF IInv, Finished
    <3> QED
      BY <2>1, <2>3, <2>4, <3>2, <3>3, <3>4 DEF Uploads
  <2>5. CASE blobs[<<s, id>>] # Torn
    <3>1. Filled(blobs[<<s, id>>], <<s, id>>, TraceCount)
      BY <2>3, <2>5 DEF IInv, Stored, Whole
    <3>2. IsWhole(manifest.lines, s, id)
      BY <2>1, <2>2, <3>1, FilledIsComplete DEF IsWhole
    <3> QED
      BY <2>3, <2>5, <3>2
  <2> QED
    BY <2>4, <2>5
<1> QED
  BY InitInv, NextInv, <1>1, PTL DEF Spec

\* Upload holds no fragment of a lane that it has written (commit(), upload.py 104-147).
THEOREM OnlyOpenLanesAreHeld == Spec => []LanesArePruned
<1>1. IInv => LanesArePruned
  BY DEF IInv, Uploading, LanesArePruned, Limit
<1> QED
  BY InitInv, NextInv, <1>1, PTL DEF Spec

\* No upload writes a fragment twice, and no fragment is stored with other samples than the
\* first time, neither when more traces come nor when upload is started again: a local file
\* that has its samples is only truncated by a later upload, and one that was truncated is
\* only written with the samples of the whole file (upload(), upload.py 333-386).
THEOREM StoredFragmentsAreFinal == Spec => FragmentsAreFinal
<1> DEFINE Kept(s, id) ==
               LET b == <<s, id>> IN
               b \in DOMAIN blobs =>
                  /\ b \in DOMAIN blobs'
                  /\ blobs'[b] # blobs[b] =>
                        IF blobs[b] = Torn THEN IsWhole(<<Lines(1), Lines(2)>>, s, id)'
                        ELSE blobs'[b] = Torn /\ store = "local" /\ starts > 0
<1>1. ASSUME IInv, NEW s \in Filesets, NEW id \in Ids(s), NEW c \in todo, Open(c)
      PROVE  Kept(s, id)
  <2> DEFINE b == <<s, id>>
  <2>1. /\ stage = "upload" /\ writing = {}
        /\ blobs' = IF store = "local" THEN With(blobs, c, Torn) ELSE blobs
    BY <1>1 DEF Open
  <2>2. /\ \A d \in DOMAIN blobs : d \in DOMAIN blobs'
        /\ \A d \in DOMAIN blobs :
              blobs'[d] # blobs[d] => d = c /\ blobs'[d] = Torn /\ store = "local"
    BY <2>1 DEF With
  <2>3. c \in DOMAIN blobs => starts # 0
    BY <1>1, <2>1 DEF IInv, Fresh
  <2>4. c \in DOMAIN blobs => starts > 0
    BY <1>1, <2>3, StartsAssumption DEF IInv, TypeOK
  <2> QED
    BY <2>2, <2>4
<1>2. ASSUME IInv, NEW s \in Filesets, NEW id \in Ids(s), NEW c \in todo, Commit(c)
      PROVE  Kept(s, id)
  <2> DEFINE b == <<s, id>>
  <2>1. /\ stage = "upload" /\ blobs' = With(blobs, c, Block(open, c))
        /\ UNCHANGED <<file, last1s, key2s>>
    BY <1>2 DEF Commit, scanner
  <2>2. /\ DOMAIN blobs' = DOMAIN blobs \cup {c}
        /\ \A d \in DOMAIN blobs' : blobs'[d] = IF d = c THEN Block(open, c) ELSE blobs[d]
    BY <2>1 DEF With
  <2>3. Reported /\ c \in Idents /\ Filled(Block(open, c), c, TraceCount)
    BY <1>2, <2>1, UploadHasReport, YieldedIsFinal DEF Uploads
  <2>4. TraceCount \in 0 .. TraceCount
    BY <2>3, TracesType DEF Reported
  <2>5. CASE b # c
    BY <2>2, <2>5
  <2>6. CASE b = c /\ b \in DOMAIN blobs /\ blobs[b] = Torn
    <3>1. Filled(blobs'[b], b, TraceCount)
      BY <2>2, <2>3, <2>6
    <3>2. /\ TraceCount' = TraceCount /\ Cube(s)' = Cube(s)
          /\ Lines(1)' = Lines(1) /\ Lines(2)' = Lines(2)
      BY <2>1, ReportStays
    <3>3. \A key : TraceAt(key)' = TraceAt(key)
      BY <2>1, <3>2 DEF TraceAt
    <3> DEFINE g(xy) == ToGlobal(Shapes[s], id, <<xy[1], xy[2], 0>>)
    <3>4. \A xy \in DOMAIN Zeros(s) :
             blobs'[b][xy] = IF g(xy)[1] < Cube(s)[1] /\ g(xy)[2] < Cube(s)[2]
                               THEN TraceAt(<<Lines(1)[g(xy)[1] + 1], Lines(2)[g(xy)[2] + 1]>>)
                               ELSE 0
      BY <2>3, <3>1, FilledIsComplete
    <3>5. IsWhole(<<Lines(1), Lines(2)>>, s, id)'
      BY <2>1, <3>2, <3>3, <3>4 DEF IsWhole
    <3> QED
      BY <2>2, <2>6, <3>5
  <2>7. CASE b = c /\ b \in DOMAIN blobs /\ blobs[b] # Torn
    <3>1. Filled(blobs[b], b, TraceCount)
      BY <1>2, <2>7 DEF IInv, Stored, Whole
    <3>2. blobs'[b] = blobs[b]
      BY <2>2, <2>3, <2>4, <2>7, <3>1, FilledOnce
    <3> QED
      BY <2>2, <2>7, <3>2
  <2> QED
    BY <2>5, <2>6, <2>7
<1>3. IInv /\ [Next]_vars => [\A s \in Filesets : \A id \in Ids(s) : Kept(s, id)]_vars
  <2> SUFFICES ASSUME IInv, [Next]_vars, NEW s \in Filesets, NEW id \in Ids(s)
               PROVE  Kept(s, id)
    OBVIOUS
  <2>1. CASE \E c \in todo : Open(c) \/ Commit(c)
    <3>1. PICK c \in todo : Open(c) \/ Commit(c)
      BY <2>1
    <3> QED
      BY <3>1, <1>1, <1>2
  <2>2. CASE blobs' = blobs
    BY <2>2
  <2> QED
    BY <2>1, <2>2 DEF Next, ScanHeader, ScanTrace, EndScan, Put, BlobExists, OpenManifest,
                      WriteManifest, Start, vars
<1> QED
  BY InitInv, NextInv, <1>3, PTL DEF Spec, FragmentsAreFinal
===============================================================================
