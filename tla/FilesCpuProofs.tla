---------------------------- MODULE FilesCpuProofs -----------------------------
(***************************************************************************)
(* Three programs with one theorem each: the image filter of lab8 writes   *)
(* the filtered image, whatever its size and the number of threads, the    *)
(* processor of Mikro/lab1 carries out its instruction set, whatever the   *)
(* memory holds and whenever it is reset, and the record tool of lab2      *)
(* loses no record, whatever the records, their number and the buffers.    *)
(***************************************************************************)
EXTENDS MCFilesCpu, FiniteSetTheorems, WellFoundedInduction, SequenceTheorems, TLAPS

-----------------------------------------------------------------------------
(* What is filtered: a sum over the elements of the filter                 *)

\* Filtered, with the size of the image as an argument.
Weighted(w, h, x, y, e) ==
    LET r == Under(x, e[1]) k == Under(y, e[2]) IN
    IF r - 1 < h /\ k - 1 < w THEN Image(r, k) * FILTER[e] ELSE 0

AddsUp(g, w, h, x, y, s) ==
    IF s = {} THEN 0
    ELSE LET e == CHOOSE e \in s : TRUE IN Weighted(w, h, x, y, e) + g[s \ {e}]

Sums(w, h, x, y) == CHOOSE g : g = [s \in SUBSET DOMAIN FILTER |-> AddsUp(g, w, h, x, y, s)]
FilteredIn(w, h, x, y) == Rounded(Sums(w, h, x, y)[DOMAIN FILTER])

LEMMA FilteredIs == \A x, y : Filtered(x, y) = FilteredIn(WIDTH, HEIGHT, x, y)
BY DEF FilteredIn, Filtered, MapThenSumSet, MapThenFoldSet, Sums, AddsUp, Weighted

LEMMA FilteredIsThen == (\A x, y : Filtered(x, y) = FilteredIn(WIDTH, HEIGHT, x, y))'
BY FilteredIs, PTL

\* Induction over 0 .. n, with the numbers it holds for as a set.
LEMMA InductionUpTo ==
    ASSUME NEW n \in Nat, NEW P, 0 \in P, \A k \in 1 .. n : k - 1 \in P => k \in P
    PROVE  0 .. n \subseteq P
<1> SUFFICES ASSUME (0 .. n) \ P # {} PROVE FALSE
  OBVIOUS
<1> DEFINE R == {p \in Nat \X Nat : p[1] < p[2]}
           Q == (0 .. n) \ P
<1>1. IsWellFoundedOn(R, Nat)
  BY NatLessThanWellFounded DEF OpToRel
<1>2. PICK m \in Q : \A k \in Q : <<k, m>> \notin R
  <2>1. Q \subseteq Nat
    OBVIOUS
  <2> QED BY <1>1, <2>1, WFMin
<1>3. m \in 1 .. n /\ m - 1 \in 0 .. n /\ m - 1 \notin P
  BY <1>2
<1>4. m - 1 \in Q /\ <<m - 1, m>> \in R
  BY <1>3
<1> QED BY <1>2, <1>4

\* An element of the filter lies over a pixel of the image, or counts as 0.
LEMMA WeightedIsNatural ==
    ASSUME NEW w \in Widths, NEW h \in Heights, NEW x \in Nat, NEW y \in Nat, NEW e \in DOMAIN FILTER
    PROVE  Weighted(w, h, x, y, e) \in Nat
<1> USE ImageFilterAssumption
<1>1. e[1] \in Nat /\ e[2] \in Nat /\ FILTER[e] \in Nat /\ w \in Nat /\ h \in Nat
  OBVIOUS
<1>2. ASSUME NEW a \in Nat, NEW b \in Nat PROVE Under(a, b) \in Nat \ {0}
  <2> DEFINE c == a - Centre + b
             S == {1, c}
  <2>1. c \in Int
    <3>1. Centre \in Int
      BY DEF Centre
    <3> QED BY <1>2, <3>1
  <2>2. \E m \in S : \A o \in S : m >= o
    BY <2>1
  <2>3. Max(S) \in S /\ \A o \in S : Max(S) >= o
    BY <2>2 DEF Max
  <2> QED BY <2>1, <2>3 DEF Under
<1> DEFINE r == Under(x, e[1])
           k == Under(y, e[2])
<1>3. r \in Nat \ {0} /\ k \in Nat \ {0}
  BY <1>1, <1>2
<1> HIDE DEF r, k
<1>4. CASE r - 1 < h /\ k - 1 < w
  <2>1. r \in 1 .. h /\ k \in 1 .. w
    BY <1>1, <1>3, <1>4
  <2>2. Image(r, k) \in Nat
    BY <2>1
  <2>3. Image(r, k) * FILTER[e] \in Nat
    BY <1>1, <2>2
  <2> QED BY <1>4, <2>3 DEF Weighted, r, k
<1>5. CASE ~(r - 1 < h /\ k - 1 < w)
  BY <1>5 DEF Weighted, r, k
<1> QED BY <1>4, <1>5

\* The recursive sum over a finite set exists, and is a number.
LEMMA SumIsNatural ==
    ASSUME NEW w \in Widths, NEW h \in Heights, NEW x \in Nat, NEW y \in Nat
    PROVE  Sums(w, h, x, y)[DOMAIN FILTER] \in Nat
<1> DEFINE D == DOMAIN FILTER
           n == Cardinality(D)
           A(g, s) == AddsUp(g, w, h, x, y, s)
           Small(k) == {s \in SUBSET D : Cardinality(s) <= k}
           Found == {k \in 0 .. n : \E g : g = [s \in Small(k) |-> A(g, s)]}
           sum == Sums(w, h, x, y)
           Right == {k \in 0 .. n : \A s \in Small(k) : sum[s] \in Nat}
<1>1. /\ IsFiniteSet(D) /\ n \in Nat
      /\ \A s \in SUBSET D : IsFiniteSet(s) /\ Cardinality(s) \in 0 .. n
  <2>1. D = (1 .. FILTER_SIZE) \X (1 .. FILTER_SIZE)
    BY ImageFilterAssumption
  <2>2. IsFiniteSet(1 .. FILTER_SIZE)
    BY ImageFilterAssumption, FS_Interval
  <2>3. IsFiniteSet(D) /\ n \in Nat
    BY <2>1, <2>2, FS_Product, FS_CardinalityType
  <2> HIDE DEF D
  <2>4. ASSUME NEW s \in SUBSET D PROVE IsFiniteSet(s) /\ Cardinality(s) \in 0 .. n
    <3>1. IsFiniteSet(s) /\ Cardinality(s) <= Cardinality(D)
      BY <2>3, FS_Subset
    <3>2. Cardinality(s) \in Nat
      BY <3>1, FS_CardinalityType
    <3> QED BY <2>3, <3>1, <3>2
  <2> QED BY <2>3, <2>4
<1> HIDE DEF n, D
\* What follows one element of s has one element less.
<1>2. ASSUME NEW k \in 0 .. n, NEW s \in Small(k), s # {}
      PROVE  /\ k - 1 \in 0 .. n
             /\ (CHOOSE e \in s : TRUE) \in D
             /\ s \ {CHOOSE e \in s : TRUE} \in Small(k - 1)
  <2> DEFINE e == CHOOSE e \in s : TRUE
  <2>1. e \in s /\ e \in D /\ IsFiniteSet(s) /\ Cardinality(s) \in Nat /\ Cardinality(s) <= k
    BY <1>1, <1>2
  <2> HIDE DEF e
  <2>2. Cardinality(s \ {e}) = Cardinality(s) - 1
    BY <2>1, FS_RemoveElement
  <2>3. Cardinality(s) # 0
    BY <1>2, <2>1, FS_EmptySet
  <2>4. s \ {e} \in SUBSET D
    OBVIOUS
  <2>5. k \in Nat /\ k <= n
    BY <1>1
  <2> QED BY <1>1, <2>1, <2>2, <2>3, <2>4, <2>5 DEF e
<1>3. 0 .. n \subseteq Found
  <2>1. 0 \in Found
    <3>1. \A s \in Small(0) : s = {}
      <4>1. ASSUME NEW s \in Small(0), s # {} PROVE FALSE
        <5>1. s \ {CHOOSE e \in s : TRUE} \in Small(0 - 1)
          BY <1>1, <1>2, <4>1
        <5>2. Cardinality(s \ {CHOOSE e \in s : TRUE}) \in Nat
          BY <1>1, <4>1
        <5> QED BY <5>1, <5>2
      <4> QED BY <4>1
    <3> DEFINE g == [s \in Small(0) |-> 0]
    <3>2. \A s \in Small(0) : A(g, s) = 0
      BY <3>1 DEF AddsUp
    <3>3. g = [s \in Small(0) |-> A(g, s)]
      <4> HIDE DEF Small, A
      <4> QED BY <3>2
    <3> HIDE DEF Small, A, g
    <3> QED BY <1>1, <3>3
  <2>2. ASSUME NEW k \in 1 .. n, k - 1 \in Found PROVE k \in Found
    <3>1. PICK g : g = [s \in Small(k - 1) |-> A(g, s)]
      BY <2>2
    <3> DEFINE f == [s \in Small(k) |-> A(g, s)]
    <3>2. \A s \in Small(k - 1) : s \in Small(k) /\ g[s] = A(g, s) /\ f[s] = g[s]
      <4>1. \A s \in Small(k - 1) : g[s] = A(g, s)
        <5> HIDE DEF Small, A
        <5> QED BY <3>1
      <4>2. \A s \in Small(k - 1) : s \in Small(k)
        BY <1>1
      <4> HIDE DEF Small, A
      <4> QED BY <4>1, <4>2
    <3> HIDE DEF f
    <3>3. \A s \in Small(k) : A(g, s) = A(f, s)
      <4>1. ASSUME NEW s \in Small(k), s # {} PROVE A(g, s) = A(f, s)
        <5>1. k \in 0 .. n
          OBVIOUS
        <5>2. s \ {CHOOSE e \in s : TRUE} \in Small(k - 1)
          BY <1>2, <4>1, <5>1
        <5>3. f[s \ {CHOOSE e \in s : TRUE}] = g[s \ {CHOOSE e \in s : TRUE}]
          BY <3>2, <5>2
        <5> QED BY <4>1, <5>3 DEF AddsUp
      <4>2. ASSUME NEW s \in Small(k), s = {} PROVE A(g, s) = A(f, s)
        BY <4>2 DEF AddsUp
      <4> QED BY <4>1, <4>2
    <3>4. f = [s \in Small(k) |-> A(f, s)]
      <4> HIDE DEF Small, A
      <4> QED BY <3>3 DEF f
    <3>5. k \in 0 .. n
      OBVIOUS
    <3> HIDE DEF Small, A
    <3> QED BY <3>4, <3>5
  <2> HIDE DEF Found
  <2> QED BY <1>1, <2>1, <2>2, InductionUpTo
<1>4. \A s \in SUBSET D : sum[s] = A(sum, s)
  <2>1. Small(n) = SUBSET D
    BY <1>1
  <2>2. n \in Found
    <3> HIDE DEF Found
    <3> QED BY <1>1, <1>3
  <2>3. \E g : g = [s \in SUBSET D |-> A(g, s)]
    <3> HIDE DEF Small, A
    <3> QED BY <2>1, <2>2
  <2>4. sum = [s \in SUBSET D |-> A(sum, s)]
    BY <2>3 DEF Sums, D
  <2> HIDE DEF A, sum
  <2> QED BY <2>4
<1> HIDE DEF sum
<1>5. 0 .. n \subseteq Right
  <2>1. ASSUME NEW k \in 0 .. n, k # 0 => k - 1 \in Right, NEW s \in Small(k) PROVE sum[s] \in Nat
    <3>1. sum[s] = AddsUp(sum, w, h, x, y, s)
      BY <1>4
    <3>2. CASE s = {}
      BY <3>1, <3>2 DEF AddsUp
    <3>3. CASE s # {}
      <4> DEFINE e == CHOOSE e \in s : TRUE
                 t == s \ {e}
      <4>1. e \in D /\ t \in Small(k - 1) /\ k # 0
        BY <1>1, <1>2, <3>3
      <4>2. sum[t] \in Nat
        BY <2>1, <4>1
      <4>3. Weighted(w, h, x, y, e) \in Nat
        BY <4>1, WeightedIsNatural DEF D
      <4>4. sum[s] = Weighted(w, h, x, y, e) + sum[t]
        BY <3>1, <3>3 DEF AddsUp
      <4> HIDE DEF e, t
      <4> QED BY <4>2, <4>3, <4>4
    <3> QED BY <3>2, <3>3
  <2>2. 0 \in Right
    BY <1>1, <2>1
  <2>3. ASSUME NEW k \in 1 .. n, k - 1 \in Right PROVE k \in Right
    BY <2>1, <2>3
  <2> HIDE DEF Right
  <2> QED BY <1>1, <2>2, <2>3, InductionUpTo
<1>6. n \in Right
  <2> HIDE DEF Right
  <2> QED BY <1>1, <1>5
<1>7. D \in Small(n)
  BY <1>1 DEF n
<1> QED BY <1>6, <1>7 DEF sum, D

LEMMA FilteredIsNatural ==
    ASSUME WIDTH \in Widths, HEIGHT \in Heights, NEW x \in Nat, NEW y \in Nat
    PROVE  Filtered(x, y) \in Nat
<1> DEFINE sum == Sums(WIDTH, HEIGHT, x, y)[DOMAIN FILTER]
<1>1. sum \in Nat
  BY SumIsNatural
<1> HIDE DEF sum
<1>2. (2 * sum + Unit) \div (2 * Unit) \in Nat
  BY <1>1, ImageFilterAssumption
<1> QED BY <1>2, FilteredIs DEF FilteredIn, Rounded, sum

-----------------------------------------------------------------------------
(* The ranges of the threads                                               *)

Sizes == WIDTH \in Widths /\ HEIGHT \in Heights /\ NUM_OF_THREADS \in ThreadCounts \ {0}

LEMMA Division ==
    ASSUME NEW a \in Nat, NEW n \in Nat \ {0}
    PROVE  a \div n \in Nat /\ n * (a \div n) <= a /\ a < n * (a \div n) + n
OBVIOUS

LEMMA DivisionGrows ==
    ASSUME NEW a \in Nat, NEW b \in Nat, a <= b, NEW n \in Nat \ {0}
    PROVE  a \div n <= b \div n
<1> DEFINE p == a \div n
           q == b \div n
<1>1. p \in Nat /\ q \in Nat /\ n * p <= a /\ b < n * q + n
  BY Division
<1> HIDE DEF p, q
<1> SUFFICES ASSUME q + 1 <= p PROVE FALSE
  BY <1>1 DEF p, q
<1>2. n * (q + 1) <= n * p
  BY <1>1
<1>3. n * (q + 1) = n * q + n
  BY <1>1
<1> QED BY <1>1, <1>2, <1>3

\* Up to where the columns of the threads before s go.
Bound(s) == (s * WIDTH) \div NUM_OF_THREADS

LEMMA Bounds ==
    ASSUME Sizes
    PROVE  /\ \A s \in 0 .. NUM_OF_THREADS : Bound(s) \in 0 .. WIDTH
           /\ \A s, t \in 0 .. NUM_OF_THREADS : s <= t => Bound(s) <= Bound(t)
           /\ \A s \in Threads : First(s) = Bound(s) + 1 /\ Last(s) = Bound(s + 1)
<1>1. WIDTH \in Nat \ {0} /\ NUM_OF_THREADS \in Nat \ {0}
  BY ImageFilterAssumption DEF Sizes
<1>2. ASSUME NEW s \in 0 .. NUM_OF_THREADS, NEW t \in 0 .. NUM_OF_THREADS, s <= t
      PROVE  Bound(s) <= Bound(t)
  <2>1. s * WIDTH \in Nat /\ t * WIDTH \in Nat /\ s * WIDTH <= t * WIDTH
    BY <1>1, <1>2
  <2> QED BY <1>1, <2>1, DivisionGrows DEF Bound
<1>3. Bound(NUM_OF_THREADS) = WIDTH
  <2> DEFINE q == (NUM_OF_THREADS * WIDTH) \div NUM_OF_THREADS
  <2>1. NUM_OF_THREADS * WIDTH \in Nat
    BY <1>1
  <2>2. /\ q \in Nat /\ NUM_OF_THREADS * q <= NUM_OF_THREADS * WIDTH
        /\ NUM_OF_THREADS * WIDTH < NUM_OF_THREADS * q + NUM_OF_THREADS
    BY <1>1, <2>1, Division
  <2> HIDE DEF q
  <2>3. NUM_OF_THREADS * q + NUM_OF_THREADS = NUM_OF_THREADS * (q + 1)
    BY <1>1, <2>2
  <2>4. ~(WIDTH + 1 <= q) /\ ~(q + 1 <= WIDTH)
    <3>1. ASSUME WIDTH + 1 <= q PROVE FALSE
      <4>1. NUM_OF_THREADS * (WIDTH + 1) <= NUM_OF_THREADS * q
        BY <1>1, <2>2, <3>1
      <4>2. NUM_OF_THREADS * (WIDTH + 1) = NUM_OF_THREADS * WIDTH + NUM_OF_THREADS
        BY <1>1
      <4> QED BY <1>1, <2>2, <4>1, <4>2
    <3>2. ASSUME q + 1 <= WIDTH PROVE FALSE
      <4>1. NUM_OF_THREADS * (q + 1) <= NUM_OF_THREADS * WIDTH
        BY <1>1, <2>2, <3>2
      <4> QED BY <1>1, <2>2, <2>3, <4>1
    <3> QED BY <3>1, <3>2
  <2>5. q = WIDTH
    BY <1>1, <2>2, <2>4
  <2> QED BY <2>5 DEF Bound, q
<1>4. ASSUME NEW s \in 0 .. NUM_OF_THREADS PROVE Bound(s) \in 0 .. WIDTH
  <2>1. s * WIDTH \in Nat
    BY <1>1
  <2>2. Bound(s) \in Nat
    BY <1>1, <2>1, Division DEF Bound
  <2>3. Bound(s) <= WIDTH
    BY <1>1, <1>2, <1>3
  <2> QED BY <1>1, <2>2, <2>3
<1>5. ASSUME NEW s \in Threads PROVE First(s) = Bound(s) + 1 /\ Last(s) = Bound(s + 1)
  BY <1>1, <1>3 DEF Threads, First, Last, Bound
<1> QED BY <1>2, <1>4, <1>5

\* Each column is in the range of one thread.
LEMMA RangesPartition ==
    ASSUME Sizes
    PROVE  /\ \A s, t \in Threads : s # t => First(s) .. Last(s) \intersect First(t) .. Last(t) = {}
           /\ \A y \in 1 .. WIDTH : \E s \in Threads : y \in First(s) .. Last(s)
<1>1. WIDTH \in Nat \ {0} /\ NUM_OF_THREADS \in Nat \ {0}
  BY ImageFilterAssumption DEF Sizes
<1>2. ASSUME NEW s \in Threads, NEW t \in Threads, s < t
      PROVE  First(s) .. Last(s) \intersect First(t) .. Last(t) = {}
  <2>1. s + 1 \in 0 .. NUM_OF_THREADS /\ t \in 0 .. NUM_OF_THREADS /\ s + 1 <= t
    BY <1>1, <1>2 DEF Threads
  <2>2. Bound(s + 1) <= Bound(t) /\ Bound(s + 1) \in Int /\ Bound(t) \in Int
    BY <1>1, <2>1, Bounds
  <2>3. Last(s) = Bound(s + 1) /\ First(t) = Bound(t) + 1
    BY Bounds
  <2> QED BY <2>2, <2>3
<1>3. ASSUME NEW y \in 1 .. WIDTH PROVE \E s \in Threads : y \in First(s) .. Last(s)
  <2> DEFINE N == NUM_OF_THREADS
             s == (y * N - 1) \div WIDTH
  <2>1. y * N - 1 \in Nat /\ y * N <= WIDTH * N
    <3>1. y * N \in Nat \ {0} /\ y * N <= WIDTH * N
      BY <1>1
    <3> QED BY <3>1
  <2>2. s \in Nat /\ WIDTH * s <= y * N - 1 /\ y * N - 1 < WIDTH * s + WIDTH
    BY <1>1, <2>1, Division
  <2> HIDE DEF s
  <2>3. s < N
    <3> SUFFICES ASSUME N <= s PROVE FALSE
      BY <1>1, <2>2
    <3>1. WIDTH * N <= WIDTH * s
      BY <1>1, <2>2
    <3> QED BY <1>1, <2>1, <2>2, <3>1
  <2>4. s \in Threads /\ s + 1 \in 0 .. N /\ s \in 0 .. N
    BY <1>1, <2>2, <2>3 DEF Threads
  <2>5. Bound(s) < y
    <3> DEFINE q == (s * WIDTH) \div N
    <3>1. s * WIDTH \in Nat
      BY <1>1, <2>2
    <3>2. q \in Nat /\ N * q <= s * WIDTH
      BY <1>1, <3>1, Division
    <3> HIDE DEF q
    <3> SUFFICES ASSUME y <= q PROVE FALSE
      BY <3>2 DEF q, Bound
    <3>3. N * y <= N * q
      BY <1>1, <3>2
    <3> QED BY <1>1, <2>2, <3>2, <3>3
  <2>6. y <= Bound(s + 1)
    <3> DEFINE q == ((s + 1) * WIDTH) \div N
    <3>1. (s + 1) * WIDTH \in Nat /\ (s + 1) * WIDTH = WIDTH * s + WIDTH
      BY <1>1, <2>2
    <3>2. q \in Nat /\ (s + 1) * WIDTH < N * q + N
      BY <1>1, <3>1, Division
    <3> HIDE DEF q
    <3> SUFFICES ASSUME q + 1 <= y PROVE FALSE
      BY <3>2 DEF q, Bound
    <3>3. N * (q + 1) <= N * y /\ N * (q + 1) = N * q + N
      BY <1>1, <3>2
    <3> QED BY <1>1, <2>2, <3>1, <3>2, <3>3
  <2>7. Bound(s) \in Int /\ Bound(s + 1) \in Int
    BY <2>4, Bounds
  <2> QED BY <2>4, <2>5, <2>6, <2>7, Bounds
<1> QED BY <1>1, <1>2, <1>3 DEF Threads

-----------------------------------------------------------------------------
(* What the threads have written                                           *)

IsFiltered(p) == OUTPUT[p] = FilteredIn(WIDTH, HEIGHT, p[1], p[2])

\* The loops of thread s have written the pixels before row x, column y.
DoneBefore(s, x, y) ==
    \A p \in Pixels :
       p[2] \in First(s) .. Last(s) /\ (p[1] < x \/ (p[1] = x /\ p[2] < y)) => IsFiltered(p)

ThreadInv(s) ==
    /\ thread[s] = "runs" => /\ pos[s][1] \in 1 .. HEIGHT + 1 /\ pos[s][2] >= First(s)
                             /\ DoneBefore(s, pos[s][1], pos[s][2])
    /\ FINISHED[s] = 1 => DoneBefore(s, HEIGHT + 1, 0)

\* What main knows of the flags, and what is in the file.
MainInv ==
    /\ main.at = "scans" /\ main.flag = 1 => \A s \in Threads : s < main.i => FINISHED[s] = 1
    /\ main.at \in {"writes", "end"} => \A s \in Threads : FINISHED[s] = 1
    /\ IF main.at = "end" THEN \A s \in Threads : thread[s] = "done" ELSE file = <<>>

MainType == [at : {"creates", "scans", "writes", "end"}, i : 0 .. NUM_OF_THREADS, flag : {0, 1}]

\* Without a thread nobody writes.
ZerosInv == NUM_OF_THREADS = 0 => \A p \in Pixels : OUTPUT[p] = 0

FilterInv == TypeOK /\ main \in MainType /\ (\A s \in Threads : ThreadInv(s)) /\ MainInv /\ ZerosInv

LEMMA SizesAre == TypeOK => /\ WIDTH \in Nat \ {0} /\ HEIGHT \in Nat \ {0} /\ NUM_OF_THREADS \in Nat
                            /\ NUM_OF_THREADS # 0 => Sizes
  BY ImageFilterAssumption DEF TypeOK, Sizes

LEMMA ThreadsAre == TypeOK /\ Threads # {} => Sizes /\ NUM_OF_THREADS \in Nat \ {0}
  BY SizesAre DEF Threads

LEMMA FilterInit == Init => FilterInv
<1> SUFFICES ASSUME Init PROVE FilterInv
  OBVIOUS
<1>1. TypeOK /\ main \in MainType
  BY ImageFilterAssumption DEF Init, TypeOK, MainType
<1>2. MainInv /\ ZerosInv /\ \A s \in Threads : ThreadInv(s)
  BY DEF Init, MainInv, ZerosInv, ThreadInv
<1> QED BY <1>1, <1>2 DEF FilterInv

\* A pixel that is written right stays so, whoever writes, and none is forgotten.
LEMMA WrittenStays ==
    ASSUME UNCHANGED args, NEW s, NEW x, NEW y, DoneBefore(s, x, y),
           \A p \in Pixels : OUTPUT'[p] = OUTPUT[p] \/ IsFiltered(p)'
    PROVE  DoneBefore(s, x, y)'
<1>1. WIDTH' = WIDTH /\ HEIGHT' = HEIGHT /\ NUM_OF_THREADS' = NUM_OF_THREADS
  BY DEF args
<1>2. Pixels' = Pixels /\ First(s)' = First(s) /\ Last(s)' = Last(s)
  BY <1>1 DEF Pixels, Rows, First, Last
<1>3. \A p \in Pixels : IsFiltered(p) => IsFiltered(p)'
  BY <1>1 DEF IsFiltered
<1> QED BY <1>1, <1>2, <1>3 DEF DoneBefore

LEMMA CalculateStep ==
    ASSUME FilterInv, NEW s \in Threads, Calculate(s)
    PROVE  FilterInv'
<1> USE DEF FilterInv
<1>0. PICK x, y : x = pos[s][1] /\ y = pos[s][2]
  OBVIOUS
<1>1. /\ UNCHANGED <<WIDTH, HEIGHT, NUM_OF_THREADS, FINISHED, thread, main, file>>
      /\ UNCHANGED args /\ thread[s] = "runs" /\ x <= HEIGHT
  BY <1>0 DEF Calculate, args
<1>2. Threads' = Threads /\ Pixels' = Pixels /\ Rows' = Rows
      /\ \A t \in Threads : First(t)' = First(t) /\ Last(t)' = Last(t)
  BY <1>1 DEF Threads, Pixels, Rows, First, Last
<1>3. /\ WIDTH \in Nat \ {0} /\ HEIGHT \in Nat \ {0} /\ NUM_OF_THREADS \in Nat \ {0} /\ Sizes
      /\ pos \in [Threads -> Nat \X Nat] /\ pos[s] = <<x, y>> /\ x \in 1 .. HEIGHT /\ y \in Nat
      /\ y >= First(s) /\ DoneBefore(s, x, y)
  BY <1>0, <1>1, SizesAre, ThreadsAre DEF TypeOK, ThreadInv
<1>4. /\ First(s) \in Nat \ {0} /\ Last(s) \in 0 .. WIDTH
  <2>1. s \in 0 .. NUM_OF_THREADS /\ s + 1 \in 0 .. NUM_OF_THREADS
    BY <1>3 DEF Threads
  <2>2. Bound(s) \in 0 .. WIDTH /\ Bound(s + 1) \in 0 .. WIDTH
    BY <1>3, <2>1, Bounds
  <2>3. First(s) = Bound(s) + 1 /\ Last(s) = Bound(s + 1)
    BY <1>3, Bounds
  <2> QED BY <1>3, <2>2, <2>3
<1>5. file = <<>> /\ main.at # "end"
  BY <1>1 DEF MainInv
<1>6. MainInv' /\ ZerosInv'
  BY <1>1, <1>2, <1>3 DEF MainInv, ZerosInv
<1>7. CASE y <= Last(s)
  <2>1. /\ OUTPUT' = [OUTPUT EXCEPT ![pos[s]] = Filtered(x, y)]
        /\ pos' = [pos EXCEPT ![s] = <<x, y + 1>>]
    BY <1>0, <1>7 DEF Calculate
  <2>2. pos[s] \in Pixels /\ Filtered(x, y) = FilteredIn(WIDTH, HEIGHT, x, y)
        /\ Filtered(x, y) \in Nat
    <3>1. pos[s] \in Pixels
      BY <1>3, <1>4, <1>7 DEF Pixels, Rows
    <3> QED BY <1>3, <3>1, FilteredIs, FilteredIsNatural DEF Sizes
  <2>3. /\ OUTPUT' \in [Pixels -> Nat]
        /\ \A p \in Pixels : p # <<x, y>> => OUTPUT'[p] = OUTPUT[p]
        /\ IsFiltered(<<x, y>>)'
    <3>1. OUTPUT \in [Pixels -> Nat]
      BY DEF TypeOK
    <3>2. OUTPUT'[<<x, y>>] = FilteredIn(WIDTH', HEIGHT', x, y)
      BY <1>1, <1>3, <2>1, <2>2, <3>1
    <3>3. OUTPUT' \in [Pixels -> Nat] /\ \A p \in Pixels : p # <<x, y>> => OUTPUT'[p] = OUTPUT[p]
      BY <1>3, <2>1, <2>2, <3>1
    <3> QED BY <3>2, <3>3 DEF IsFiltered
  <2>4. \A p \in Pixels : OUTPUT'[p] = OUTPUT[p] \/ IsFiltered(p)'
    BY <2>3
  <2>5. pos' \in [Threads -> Nat \X Nat] /\ pos'[s] = <<x, y + 1>>
        /\ \A t \in Threads : t # s => pos'[t] = pos[t]
    BY <1>3, <2>1
  <2>6. TypeOK' /\ (main \in MainType)'
    BY <1>1, <1>2, <1>5, <2>3, <2>5 DEF TypeOK, MainType
  <2>7. DoneBefore(s, x, y + 1)'
    <3>1. DoneBefore(s, x, y)'
      BY <1>1, <1>3, <2>4, WrittenStays
    <3>2. ASSUME NEW p \in Pixels, p[2] \in First(s) .. Last(s),
                 p[1] < x \/ (p[1] = x /\ p[2] < y + 1)
          PROVE  IsFiltered(p)'
      <4>1. p = <<p[1], p[2]>> /\ p[1] \in Int /\ p[2] \in Int
        BY <1>3, <3>2 DEF Pixels, Rows
      <4>2. CASE p = <<x, y>>
        BY <2>3, <4>2
      <4>3. CASE p # <<x, y>>
        <5>1. p[1] < x \/ (p[1] = x /\ p[2] < y)
          BY <1>3, <3>2, <4>1, <4>3
        <5> QED BY <1>2, <3>1, <3>2, <5>1 DEF DoneBefore
      <4> QED BY <4>2, <4>3
    <3> QED BY <1>2, <3>2 DEF DoneBefore
  <2>8. ASSUME NEW t \in Threads PROVE ThreadInv(t)'
    <3>1. FINISHED[t] = 1 => DoneBefore(t, HEIGHT + 1, 0)'
      <4>1. PICK h : h = HEIGHT + 1
        OBVIOUS
      <4>2. FINISHED[t] = 1 => DoneBefore(t, h, 0)'
        BY <1>1, <2>4, <4>1, WrittenStays DEF ThreadInv
      <4> QED BY <1>1, <4>1, <4>2
    <3>2. FINISHED'[t] = 1 => DoneBefore(t, HEIGHT + 1, 0)'
      BY <1>1, <3>1
    <3>3. CASE t = s
      BY <1>1, <1>2, <1>3, <1>4, <2>5, <2>7, <3>2, <3>3 DEF ThreadInv
    <3>4. CASE t # s
      <4>1. PICK u, v : u = pos[t][1] /\ v = pos[t][2]
        OBVIOUS
      <4>2. pos'[t][1] = u /\ pos'[t][2] = v /\ thread'[t] = thread[t]
        BY <1>1, <2>5, <3>4, <4>1
      <4>3. thread[t] = "runs" => DoneBefore(t, u, v)'
        BY <1>1, <2>4, <4>1, WrittenStays DEF ThreadInv
      <4> QED BY <1>1, <1>2, <3>2, <4>1, <4>2, <4>3 DEF ThreadInv
    <3> QED BY <3>3, <3>4
  <2> QED BY <1>2, <1>6, <2>6, <2>8
<1>8. CASE ~(y <= Last(s))
  <2>1. OUTPUT' = OUTPUT /\ pos' = [pos EXCEPT ![s] = <<x + 1, First(s)>>]
    BY <1>0, <1>8 DEF Calculate
  <2>2. pos' \in [Threads -> Nat \X Nat] /\ pos'[s] = <<x + 1, First(s)>>
        /\ \A t \in Threads : t # s => pos'[t] = pos[t]
    BY <1>3, <1>4, <2>1
  <2>3. TypeOK' /\ (main \in MainType)'
    BY <1>1, <1>2, <2>1, <2>2 DEF TypeOK, MainType
  <2>4. ASSUME NEW v, v = First(s) PROVE DoneBefore(s, x + 1, v)
    <3>1. ASSUME NEW p \in Pixels, p[2] \in First(s) .. Last(s),
                 p[1] < x + 1 \/ (p[1] = x + 1 /\ p[2] < First(s))
          PROVE  p[1] < x \/ (p[1] = x /\ p[2] < y)
      <4>1. p[1] \in Int /\ p[2] \in Int
        BY <1>3, <3>1 DEF Pixels, Rows
      <4> QED BY <1>3, <1>4, <1>8, <3>1, <4>1
    <3> QED BY <1>3, <2>4, <3>1 DEF DoneBefore
  <2>5. ASSUME NEW t \in Threads PROVE ThreadInv(t)'
    <3>1. FINISHED'[t] = 1 => DoneBefore(t, HEIGHT + 1, 0)'
      <4>1. PICK h : h = HEIGHT + 1
        OBVIOUS
      <4>2. FINISHED[t] = 1 => DoneBefore(t, h, 0)'
        BY <1>1, <2>1, <4>1, WrittenStays DEF ThreadInv
      <4> QED BY <1>1, <4>1, <4>2
    <3>2. CASE t = s
      <4>1. PICK v : v = First(s)
        OBVIOUS
      <4>2. DoneBefore(s, x + 1, v)'
        BY <1>1, <2>1, <2>4, <4>1, WrittenStays
      <4>3. pos'[s][1] = x + 1 /\ pos'[s][2] = v
        BY <2>2, <4>1
      <4> QED BY <1>1, <1>2, <1>3, <1>4, <3>1, <3>2, <4>1, <4>2, <4>3 DEF ThreadInv
    <3>3. CASE t # s
      <4>1. PICK u, v : u = pos[t][1] /\ v = pos[t][2]
        OBVIOUS
      <4>2. pos'[t][1] = u /\ pos'[t][2] = v /\ thread'[t] = thread[t]
        BY <1>1, <2>2, <3>3, <4>1
      <4>3. thread[t] = "runs" => DoneBefore(t, u, v)'
        BY <1>1, <2>1, <4>1, WrittenStays DEF ThreadInv
      <4> QED BY <1>1, <1>2, <3>1, <4>1, <4>2, <4>3 DEF ThreadInv
    <3> QED BY <3>2, <3>3
  <2> QED BY <1>2, <1>6, <2>3, <2>5
<1> QED BY <1>7, <1>8

\* What main and the end of a thread leave alone of a thread.
LEMMA ThreadStays ==
    ASSUME UNCHANGED <<args, OUTPUT>>, NEW s, ThreadInv(s),
           FINISHED'[s] = FINISHED[s], thread'[s] = "runs" => thread[s] = "runs" /\ pos'[s] = pos[s]
    PROVE  ThreadInv(s)'
<1>1. WIDTH' = WIDTH /\ HEIGHT' = HEIGHT /\ NUM_OF_THREADS' = NUM_OF_THREADS /\ OUTPUT' = OUTPUT
  BY DEF args
<1>2. Pixels' = Pixels /\ First(s)' = First(s) /\ Last(s)' = Last(s)
  BY <1>1 DEF Pixels, Rows, First, Last
<1>3. \A p : IsFiltered(p)' <=> IsFiltered(p)
  BY <1>1 DEF IsFiltered
<1>4. \A x, y : DoneBefore(s, x, y)' <=> DoneBefore(s, x, y)
  BY <1>1, <1>2, <1>3 DEF DoneBefore
<1>5. DoneBefore(s, HEIGHT + 1, 0)' <=> DoneBefore(s, HEIGHT + 1, 0)
  BY <1>1, <1>2, <1>3 DEF DoneBefore
<1>6. CASE thread'[s] = "runs"
  <2>1. PICK x, y : x = pos[s][1] /\ y = pos[s][2]
    OBVIOUS
  <2>2. thread[s] = "runs" /\ pos'[s][1] = x /\ pos'[s][2] = y
    BY <1>6, <2>1
  <2> QED BY <1>1, <1>2, <1>4, <1>5, <2>1, <2>2 DEF ThreadInv
<1>7. CASE thread'[s] # "runs"
  BY <1>5, <1>7 DEF ThreadInv
<1> QED BY <1>6, <1>7

LEMMA FinishStep ==
    ASSUME FilterInv, NEW s \in Threads, Finish(s)
    PROVE  FilterInv'
<1> USE DEF FilterInv, Finish
<1>1. /\ UNCHANGED <<args, WIDTH, HEIGHT, NUM_OF_THREADS, OUTPUT, pos, main, file>>
      /\ Threads' = Threads /\ Pixels' = Pixels
  BY DEF args, Threads, Pixels, Rows
<1>2. /\ FINISHED' \in [Threads -> {0, 1}] /\ FINISHED'[s] = 1
      /\ thread' \in [Threads -> {"none", "missing", "runs", "done"}] /\ thread'[s] = "done"
      /\ \A t \in Threads : t # s => FINISHED'[t] = FINISHED[t] /\ thread'[t] = thread[t]
  BY DEF TypeOK
<1>3. TypeOK' /\ (main \in MainType)'
  BY <1>1, <1>2 DEF TypeOK, MainType
<1>4. MainInv' /\ ZerosInv'
  BY <1>1, <1>2 DEF MainInv, ZerosInv
<1>5. ThreadInv(s)'
  <2>1. PICK x, y : x = pos[s][1] /\ y = pos[s][2]
    OBVIOUS
  <2>2. /\ x = HEIGHT + 1 /\ DoneBefore(s, x, y) /\ HEIGHT \in Nat
    BY <2>1, SizesAre DEF ThreadInv
  <2>3. DoneBefore(s, HEIGHT + 1, 0)
    <3>1. \A p \in Pixels : p[1] < x
      BY <2>2 DEF Pixels, Rows
    <3> QED BY <2>2, <3>1 DEF DoneBefore
  <2>4. PICK h : h = HEIGHT + 1
    OBVIOUS
  <2>5. DoneBefore(s, h, 0)'
    BY <1>1, <2>3, <2>4, WrittenStays
  <2> QED BY <1>1, <1>2, <2>4, <2>5 DEF ThreadInv
<1>6. ASSUME NEW t \in Threads, t # s PROVE ThreadInv(t)'
  BY <1>1, <1>2, <1>6, ThreadStays
<1> QED BY <1>1, <1>3, <1>4, <1>5, <1>6

LEMMA CreateStep ==
    ASSUME FilterInv, Create
    PROVE  FilterInv'
<1> USE DEF FilterInv
<1>0. PICK s : s = main.i
  OBVIOUS
<1>1. /\ UNCHANGED <<args, WIDTH, HEIGHT, NUM_OF_THREADS, OUTPUT, FINISHED, file>>
      /\ Threads' = Threads /\ Pixels' = Pixels /\ Rows' = Rows
      /\ \A t : First(t)' = First(t)
  BY DEF Create, args, Threads, Pixels, Rows, First
<1>2. /\ main.at = "creates" /\ s \in Threads /\ s + 1 \in 0 .. NUM_OF_THREADS
      /\ main' = [main EXCEPT !.i = s + 1]
      /\ HEIGHT \in Nat /\ Sizes /\ First(s) \in Nat \ {0}
  <2>1. main.at = "creates" /\ s \in Threads /\ s + 1 \in 0 .. NUM_OF_THREADS
        /\ main' = [main EXCEPT !.i = s + 1]
    BY <1>0, SizesAre DEF Create, MainType, Threads
  <2>2. Sizes /\ NUM_OF_THREADS \in Nat \ {0}
    BY <2>1, ThreadsAre
  <2>3. First(s) = Bound(s) + 1 /\ Bound(s) \in Nat
    <3>1. s \in 0 .. NUM_OF_THREADS
      BY <2>1, <2>2 DEF Threads
    <3> QED BY <2>1, <2>2, <3>1, SizesAre, Bounds
  <2> QED BY <2>1, <2>2, <2>3, SizesAre
<1>3. main' \in MainType /\ main'.at = "creates" /\ MainType' = MainType
  BY <1>1, <1>2 DEF MainType
<1>4. /\ thread' \in [Threads -> {"none", "missing", "runs", "done"}]
      /\ pos' \in [Threads -> Nat \X Nat]
      /\ \A t \in Threads : t # s => thread'[t] = thread[t] /\ pos'[t] = pos[t]
      /\ thread'[s] = "missing" \/ (thread'[s] = "runs" /\ pos'[s] = <<1, First(s)>>)
  <2>1. /\ thread \in [Threads -> {"none", "missing", "runs", "done"}]
        /\ pos \in [Threads -> Nat \X Nat]
    BY DEF TypeOK
  <2>2. CASE thread' = [thread EXCEPT ![s] = "missing"] /\ UNCHANGED pos
    BY <1>2, <2>1, <2>2
  <2>3. CASE thread' = [thread EXCEPT ![s] = "runs"] /\ pos' = [pos EXCEPT ![s] = <<1, First(s)>>]
    BY <1>2, <2>1, <2>3
  <2> QED BY <1>0, <2>2, <2>3 DEF Create
<1>5. TypeOK'
  BY <1>1, <1>3, <1>4 DEF TypeOK, MainType
<1>6. MainInv' /\ ZerosInv'
  BY <1>1, <1>2, <1>3 DEF MainInv, ZerosInv
<1>7. ASSUME NEW t \in Threads, t # s PROVE ThreadInv(t)'
  BY <1>1, <1>4, <1>7, ThreadStays
<1>8. ThreadInv(s)'
  <2>1. FINISHED'[s] = 1 => DoneBefore(s, HEIGHT + 1, 0)'
    <3>1. PICK h : h = HEIGHT + 1
      OBVIOUS
    <3>2. FINISHED[s] = 1 => DoneBefore(s, h, 0)'
      BY <1>1, <1>2, <3>1, WrittenStays DEF ThreadInv
    <3> QED BY <1>1, <3>1, <3>2
  <2>2. CASE thread'[s] = "missing"
    BY <1>1, <2>1, <2>2 DEF ThreadInv
  <2>3. CASE thread'[s] = "runs" /\ pos'[s] = <<1, First(s)>>
    <3>1. PICK v : v = First(s)
      OBVIOUS
    <3>2. DoneBefore(s, 1, v)'
      <4>1. \A p \in Pixels : ~(p[1] < 1) /\ (p[2] \in v .. Last(s)' => ~(p[2] < v))
        BY <1>2, <3>1 DEF Pixels, Rows
      <4>2. First(s)' = v
        BY <1>1, <3>1
      <4> QED BY <1>1, <4>1, <4>2 DEF DoneBefore
    <3> QED BY <1>1, <1>2, <2>1, <2>3, <3>1, <3>2 DEF ThreadInv
  <2> QED BY <1>4, <2>2, <2>3
<1> QED BY <1>1, <1>3, <1>5, <1>6, <1>7, <1>8

LEMMA MainSteps ==
    ASSUME FilterInv, StartScan \/ ReadFlag \/ EndScan \/ Write
    PROVE  FilterInv'
<1> USE DEF FilterInv
<1>1. /\ UNCHANGED <<args, WIDTH, HEIGHT, NUM_OF_THREADS, OUTPUT, FINISHED, pos>>
      /\ Threads' = Threads /\ Pixels' = Pixels /\ MainType' = MainType
  BY DEF StartScan, ReadFlag, EndScan, Write, args, Threads, Pixels, Rows, MainType
<1>2. /\ main' \in MainType /\ MainInv'
      /\ thread' \in [Threads -> {"none", "missing", "runs", "done"}]
      /\ \A s \in Threads : thread'[s] \in {thread[s], "done"}
      /\ file' \in {<<>>, OUTPUT}
  <2>1. NUM_OF_THREADS \in Nat /\ main.i \in 0 .. NUM_OF_THREADS
        /\ thread \in [Threads -> {"none", "missing", "runs", "done"}]
        /\ FINISHED \in [Threads -> {0, 1}] /\ file \in {<<>>, OUTPUT}
    BY SizesAre DEF TypeOK
  <2>2. Scans \in MainType /\ Scans.at = "scans" /\ Scans.i = 0 /\ Scans.flag = 1
    BY <2>1 DEF Scans, MainType
  <2>3. CASE StartScan
    BY <1>1, <2>1, <2>2, <2>3 DEF StartScan, MainInv, Threads
  <2>4. CASE ReadFlag
    <3>1. /\ main.at = "scans" /\ main.i < NUM_OF_THREADS /\ UNCHANGED <<thread, file>>
          /\ main' \in MainType /\ main'.at = "scans" /\ main'.i = main.i + 1
          /\ main'.flag = IF FINISHED[main.i] = 0 THEN 0 ELSE main.flag
      <4> DEFINE f == IF FINISHED[main.i] = 0 THEN 0 ELSE main.flag
      <4>1. main.at = "scans" /\ main.i < NUM_OF_THREADS /\ UNCHANGED <<thread, file>>
        BY <2>4 DEF ReadFlag
      <4>2. main' = [at |-> "scans", i |-> main.i + 1, flag |-> f]
        BY <2>4 DEF ReadFlag, MainType
      <4>3. f \in {0, 1}
        BY DEF MainType
      <4> HIDE DEF f
      <4>4. main.i + 1 \in 0 .. NUM_OF_THREADS
        BY <2>1, <4>1
      <4> QED BY <4>1, <4>2, <4>3, <4>4 DEF MainType, f
    <3>2. main.i \in Threads /\ \A s \in Threads : s < main.i + 1 => s < main.i \/ s = main.i
      BY <2>1, <3>1 DEF Threads
    <3> QED BY <1>1, <2>1, <3>1, <3>2 DEF MainInv
  <2>5. CASE EndScan
    <3>1. /\ main.at = "scans" /\ main.i = NUM_OF_THREADS /\ UNCHANGED <<thread, file>>
          /\ \A s \in Threads : s < main.i
      BY <2>1, <2>5 DEF EndScan, Threads
    <3>2. CASE main.flag = 1
      <4>1. main' \in MainType /\ main'.at = "writes"
        BY <2>5, <3>2 DEF EndScan, MainType
      <4> QED BY <1>1, <2>1, <3>1, <3>2, <4>1 DEF MainInv
    <3>3. CASE main.flag # 1
      <4>1. main' = Scans /\ \A s \in Threads : ~(s < 0)
        BY <2>5, <3>3 DEF EndScan, Threads
      <4> QED BY <1>1, <2>1, <2>2, <3>1, <4>1 DEF MainInv
    <3> QED BY <3>2, <3>3
  <2>6. CASE Write
    <3>1. main' \in MainType /\ main'.at = "end" /\ main.at = "writes"
      BY <2>6 DEF Write, MainType
    <3>2. thread' = [s \in Threads |-> "done"] /\ file' = OUTPUT
      BY <2>6 DEF Write
    <3> QED BY <1>1, <2>1, <3>1, <3>2 DEF MainInv
  <2> QED BY <2>3, <2>4, <2>5, <2>6
<1>3. TypeOK' /\ ZerosInv'
  BY <1>1, <1>2 DEF TypeOK, MainType, ZerosInv
<1>4. ASSUME NEW s \in Threads PROVE ThreadInv(s)'
  BY <1>1, <1>2, ThreadStays
<1> QED BY <1>1, <1>2, <1>3, <1>4

LEMMA FilterStep == FilterInv /\ [Next]_vars => FilterInv'
<1> SUFFICES ASSUME FilterInv, [Next]_vars PROVE FilterInv'
  OBVIOUS
<1>1. CASE UNCHANGED vars
  <2>1. /\ UNCHANGED <<args, WIDTH, HEIGHT, NUM_OF_THREADS, OUTPUT, FINISHED, thread, pos, main, file>>
        /\ Threads' = Threads /\ Pixels' = Pixels /\ MainType' = MainType
    BY <1>1 DEF vars, args, Threads, Pixels, Rows, MainType
  <2>2. \A s \in Threads : ThreadInv(s)'
    BY <2>1, ThreadStays DEF FilterInv
  <2>3. TypeOK' /\ MainInv' /\ ZerosInv'
    BY <2>1 DEF FilterInv, TypeOK, MainInv, ZerosInv
  <2> QED BY <2>1, <2>2, <2>3 DEF FilterInv
<1>2. CASE MainStep
  BY <1>2, CreateStep, MainSteps DEF MainStep
<1>3. ASSUME NEW s \in Threads, ThreadStep(s) PROVE FilterInv'
  BY <1>3, CalculateStep, FinishStep DEF ThreadStep
<1> QED BY <1>1, <1>2, <1>3 DEF Next

\* For any image, filter and number of threads, more than columns included: the
\* ranges are disjoint, and what main writes when it has seen all flags is the
\* filtered image, or zeros without threads, and changes no more (main.c:94-152,
\* :162-180).
THEOREM FileIsFiltered == Spec => []SeesFilteredImage
<1>1. FilterInv => SeesFilteredImage
  <2> SUFFICES ASSUME FilterInv PROVE SeesFilteredImage
    OBVIOUS
  <2>1. TypeOK /\ HEIGHT \in Nat /\ NUM_OF_THREADS \in Nat
    BY SizesAre DEF FilterInv
  <2>2. ASSUME main.at \in {"writes", "end"}, NEW p \in Pixels, NUM_OF_THREADS # 0
        PROVE  OUTPUT[p] = Filtered(p[1], p[2])
    <3>1. p[1] \in 1 .. HEIGHT /\ p[2] \in 1 .. WIDTH
      BY DEF Pixels, Rows
    <3>2. PICK s \in Threads : p[2] \in First(s) .. Last(s)
      BY <2>1, <2>2, <3>1, SizesAre, RangesPartition
    <3>3. DoneBefore(s, HEIGHT + 1, 0)
      BY <2>2 DEF FilterInv, MainInv, ThreadInv
    <3>4. p[1] < HEIGHT + 1
      BY <2>1, <3>1
    <3>5. IsFiltered(p)
      BY <3>2, <3>3, <3>4 DEF DoneBefore
    <3> QED BY <3>5, FilteredIs DEF IsFiltered
  <2>3. ASSUME main.at \in {"writes", "end"} PROVE OUTPUT = Expected
    <3>1. \A p \in Pixels : OUTPUT[p] = IF NUM_OF_THREADS = 0 THEN 0 ELSE Filtered(p[1], p[2])
      BY <2>2, <2>3 DEF FilterInv, ZerosInv
    <3>2. OUTPUT \in [Pixels -> Nat]
      BY <2>1 DEF TypeOK
    <3> QED BY <3>1, <3>2 DEF Expected
  <2>4. \A s, t \in Threads : s # t => First(s) .. Last(s) \intersect First(t) .. Last(t) = {}
    BY <2>1, ThreadsAre, RangesPartition
  <2> QED BY <2>1, <2>3, <2>4 DEF SeesFilteredImage
<1> QED BY <1>1, FilterInit, FilterStep, PTL DEF Spec

-----------------------------------------------------------------------------
(* The processor                                                           *)

Before(p) == (p + 15) % 16

\* A load or store has its operand on the bus, and is still in the memory where
\* it was fetched.
BusHoldsOperand ==
    /\ opcode = memory[Before(pc)] /\ mem_address = Chip!Low
    /\ Chip!IsStore => mem_data_w = (IF Chip!High = 14 THEN r0 ELSE r1)

ChipInv ==
    /\ Chip!TypeOK
    /\ state # 0 => mem_we = 0
    /\ state = 1 => mem_address = pc /\ (clk = 0 => mem_data_r = memory[pc])
    /\ state = 2 => opcode = memory[Before(pc)]
    /\ state = 3 /\ (Chip!IsLoad \/ Chip!IsStore) =>
          BusHoldsOperand /\ (clk = 0 => mem_data_r = memory[mem_address])
    /\ state = 0 /\ clk = 1 /\ mem_we = 1 => Chip!IsStore /\ BusHoldsOperand

\* The processor works on four and eight bits.
LEMMA FourBits ==
    /\ \A b \in 0 .. 255 : b \div 16 \in 0 .. 15 /\ b % 16 \in 0 .. 15
    /\ \A n \in 0 .. 15 : /\ (n + 1) % 16 \in 0 .. 15 /\ Before(n) \in 0 .. 15
                          /\ Before((n + 1) % 16) = n /\ (Before(n) + 1) % 16 = n
    /\ \A m, n \in 0 .. 15 : m + n \in 0 .. 255 /\ m * n \in 0 .. 255
<1>1. \A b \in 0 .. 255 : b \div 16 \in 0 .. 15 /\ b % 16 \in 0 .. 15
  OBVIOUS
<1>2. \A n \in 0 .. 15 : /\ (n + 1) % 16 \in 0 .. 15 /\ Before(n) \in 0 .. 15
                         /\ Before((n + 1) % 16) = n /\ (Before(n) + 1) % 16 = n
  BY DEF Before
<1>3. ASSUME NEW m \in 0 .. 15, NEW n \in 0 .. 15 PROVE m + n \in 0 .. 255 /\ m * n \in 0 .. 255
  <2>1. m * n \in Nat /\ m * n <= 15 * n
    OBVIOUS
  <2> QED BY <2>1
<1> QED BY <1>1, <1>2, <1>3

LEMMA ChipTypes ==
    ASSUME Chip!TypeOK
    PROVE  /\ Chip!High \in 0 .. 15 /\ Chip!Low \in 0 .. 15 /\ opcode \in 0 .. 255
           /\ (pc + 1) % 16 \in 0 .. 15 /\ Before(pc) \in 0 .. 15
           /\ (r0 + r1) % 16 \in 0 .. 15
           /\ (r0 * r1) \div 16 \in 0 .. 15 /\ (r0 * r1) % 16 \in 0 .. 15
<1>1. /\ opcode \in 0 .. 255 /\ pc \in 0 .. 15 /\ r0 \in 0 .. 15 /\ r1 \in 0 .. 15
  BY DEF Chip!TypeOK, Chip!Nibbles, Chip!BytesOf
<1>2. r0 + r1 \in 0 .. 255 /\ r0 * r1 \in 0 .. 255
  BY <1>1, FourBits
<1> QED BY <1>1, <1>2, FourBits DEF Chip!High, Chip!Low

LEMMA ChipInit == Chip!Init => ChipInv /\ Chip!Program!Init
<1> SUFFICES ASSUME Chip!Init PROVE ChipInv /\ Chip!Program!Init
  OBVIOUS
<1> USE ChipAssumption
<1>1. Chip!TypeOK
  <2>1. PICK b \in PowerUp : /\ opcode = b /\ mem_address = b % 16
                             /\ mem_data_w = b /\ mem_data_r = b
    BY DEF Chip!Init
  <2>2. b \in 0 .. 255 /\ b % 16 \in 0 .. 15
    BY FourBits DEF Chip!CpuAssumption, Chip!BytesOf
  <2> QED BY <2>1, <2>2 DEF Chip!Init, Chip!CpuAssumption, Chip!TypeOK, Chip!Nibbles, Chip!BytesOf
<1>2. ChipInv
  BY <1>1 DEF Chip!Init, ChipInv
<1>3. ~Chip!Pending
  BY DEF Chip!Init, Chip!Pending
<1> QED BY <1>2, <1>3 DEF Chip!Init, Chip!Program!Init

\* The counter of the instruction set: that of the next instruction to take effect.
NextPc == IF Chip!Pending THEN Before(pc) ELSE pc

LEMMA ProgramIs ==
    /\ Chip!Program!vars = <<NextPc, r0, r1, memory>>
    /\ Chip!Program!Code = memory[NextPc] /\ Chip!Program!Operand = memory[NextPc] % 16
BY DEF Chip!Program!vars, Chip!Program!Code, Chip!Program!Operand, NextPc, Before

LEMMA AddressStep ==
    ASSUME ChipInv, Chip!Rise, Chip!Address
    PROVE  ChipInv' /\ UNCHANGED <<NextPc, r0, r1, memory>>
<1>1. /\ state = 0 /\ state' = 1 /\ clk = 0 /\ clk' = 1 /\ mem_we' = 0 /\ mem_address' = pc
      /\ UNCHANGED <<pc, opcode, r0, r1, mem_data_w, memory, mem_data_r>>
  BY DEF Chip!Rise, Chip!Address
<1>2. Chip!TypeOK'
  BY <1>1 DEF ChipInv, Chip!TypeOK
<1>3. ChipInv'
  BY <1>1, <1>2 DEF ChipInv
<1>4. ~Chip!Pending /\ ~Chip!Pending'
  BY <1>1 DEF Chip!Pending
<1> QED BY <1>1, <1>3, <1>4 DEF NextPc

LEMMA FetchStep ==
    ASSUME ChipInv, Chip!Rise, Chip!Fetch
    PROVE  ChipInv' /\ UNCHANGED <<NextPc, r0, r1, memory>>
<1>1. /\ state = 1 /\ state' = 2 /\ clk = 0 /\ clk' = 1
      /\ opcode' = mem_data_r /\ pc' = (pc + 1) % 16
      /\ UNCHANGED <<r0, r1, mem_address, mem_data_w, mem_we, memory, mem_data_r>>
  BY DEF Chip!Rise, Chip!Fetch, Chip!bus
<1>2. Chip!TypeOK' /\ Before(pc') = pc
  <2>1. pc \in 0 .. 15
    BY DEF ChipInv, Chip!TypeOK, Chip!Nibbles
  <2> QED BY <1>1, <2>1, FourBits DEF ChipInv, Chip!TypeOK, Chip!Nibbles
<1>3. ChipInv'
  BY <1>1, <1>2 DEF ChipInv
<1>4. ~Chip!Pending /\ Chip!Pending'
  BY <1>1 DEF Chip!Pending
<1> QED BY <1>1, <1>2, <1>3, <1>4 DEF NextPc, Before

\* Execute without a load or store is the whole instruction.
LEMMA ExecuteStep ==
    ASSUME ChipInv, Chip!Rise, Chip!Execute
    PROVE  ChipInv' /\ (Chip!Program!Instruction \/ UNCHANGED <<NextPc, r0, r1, memory>>)
<1> DEFINE high == Chip!High
           low == Chip!Low
<1>1. /\ state = 2 /\ state' = 3 /\ clk = 0 /\ clk' = 1
      /\ UNCHANGED <<opcode, memory, mem_data_r>>
  BY DEF Chip!Rise, Chip!Execute
<1>2. /\ Chip!TypeOK /\ mem_we = 0 /\ opcode = memory[Before(pc)]
  BY <1>1 DEF ChipInv
<1>3. Chip!Pending /\ NextPc = Before(pc)
  BY <1>1 DEF Chip!Pending, NextPc
<1>4. Chip!High' = high /\ Chip!Low' = low
  BY <1>1 DEF Chip!High, Chip!Low
<1>5. CASE Chip!Point
  <2>1. /\ Chip!IsStore \/ Chip!IsLoad
        /\ mem_address' = low
        /\ mem_data_w' = (CASE high = 14 -> r0 [] high = 15 -> r1 [] OTHER -> mem_data_w)
        /\ UNCHANGED <<pc, r0, r1, mem_we>>
    BY <1>5 DEF Chip!Point
  <2>2. /\ high \in {14, 15} => mem_data_w' = IF high = 14 THEN r0 ELSE r1
        /\ mem_data_w' \in {r0, r1, mem_data_w}
    BY <2>1
  <2>3. Chip!TypeOK'
    <3>1. mem_data_w' \in 0 .. 255
      BY <1>2, <2>2 DEF Chip!TypeOK, Chip!Nibbles, Chip!BytesOf
    <3>2. mem_address' \in 0 .. 15
      BY <1>2, <2>1, ChipTypes
    <3>3. state' \in 0 .. 3 /\ clk' \in {0, 1}
      BY <1>1
    <3>4. /\ pc' \in 0 .. 15 /\ opcode' \in 0 .. 255 /\ r0' \in 0 .. 15 /\ r1' \in 0 .. 15
          /\ mem_we' \in {0, 1} /\ memory' \in [0 .. 15 -> 0 .. 255] /\ mem_data_r' \in 0 .. 255
      BY <1>1, <1>2, <2>1, Zenon DEF Chip!TypeOK, Chip!Nibbles, Chip!BytesOf
    <3> QED BY <3>1, <3>2, <3>3, <3>4, Zenon DEF Chip!TypeOK, Chip!Nibbles, Chip!BytesOf
  <2>4. BusHoldsOperand'
    BY <1>1, <1>2, <1>4, <2>1, <2>2 DEF BusHoldsOperand, Chip!IsStore
  <2>5. ChipInv'
    BY <1>1, <1>2, <2>1, <2>3, <2>4 DEF ChipInv
  <2>6. Chip!Pending' /\ NextPc' = NextPc
    BY <1>1, <1>3, <1>4, <2>1 DEF Chip!Pending, NextPc, Before, Chip!IsStore, Chip!IsLoad
  <2> QED BY <1>1, <2>1, <2>5, <2>6
<1>6. CASE Chip!Jump \/ Chip!Calculate \/ Chip!Move
  <2>1. /\ high \notin {12, 13, 14, 15} /\ UNCHANGED <<mem_address, mem_data_w, mem_we>>
        /\ pc' \in {pc, low}
        /\ r0' \in 0 .. 15 /\ r1' \in 0 .. 15
    <3>1. r0 \in 0 .. 15 /\ r1 \in 0 .. 15
      BY <1>2 DEF Chip!TypeOK, Chip!Nibbles
    <3>2. CASE Chip!Jump
      BY <3>1, <3>2 DEF Chip!Jump, Chip!bus
    <3>3. CASE Chip!Calculate
      BY <1>2, <3>1, <3>3, ChipTypes DEF Chip!Calculate, Chip!bus
    <3>4. CASE Chip!Move
      BY <1>2, <3>1, <3>4, ChipTypes DEF Chip!Move, Chip!bus
    <3> QED BY <1>6, <3>2, <3>3, <3>4
  <2>2. Chip!TypeOK'
    <3>1. pc' \in 0 .. 15
      BY <1>2, <2>1, ChipTypes DEF Chip!TypeOK, Chip!Nibbles
    <3>2. state' \in 0 .. 3 /\ clk' \in {0, 1}
      BY <1>1
    <3>3. /\ opcode' \in 0 .. 255 /\ memory' \in [0 .. 15 -> 0 .. 255] /\ mem_data_r' \in 0 .. 255
          /\ mem_address' \in 0 .. 15 /\ mem_data_w' \in 0 .. 255 /\ mem_we' \in {0, 1}
      BY <1>1, <1>2, <2>1, Zenon DEF Chip!TypeOK, Chip!Nibbles, Chip!BytesOf
    <3>4. r0' \in 0 .. 15 /\ r1' \in 0 .. 15
      BY <2>1
    <3> QED BY <3>1, <3>2, <3>3, <3>4, Zenon DEF Chip!TypeOK, Chip!Nibbles, Chip!BytesOf
  <2>3. ChipInv'
    BY <1>1, <1>2, <1>4, <2>1, <2>2 DEF ChipInv, Chip!IsStore, Chip!IsLoad
  <2>4. ~Chip!Pending' /\ NextPc' = pc'
    BY <1>1, <1>4, <2>1 DEF Chip!Pending, NextPc, Chip!IsStore, Chip!IsLoad
  <2>5. /\ \A h : Chip!Program!Is(h) <=> high = h
        /\ Chip!Program!Operand = low
    BY <1>2, <1>3, ProgramIs DEF Chip!Program!Is, Chip!High, Chip!Low
  <2>6. Chip!Program!Next4(NextPc) = pc
    <3>1. pc \in 0 .. 15
      BY <1>2 DEF Chip!TypeOK, Chip!Nibbles
    <3> QED BY <1>3, <3>1, FourBits DEF Chip!Program!Next4
  <2>7. \A v0, v1 : pc' = pc /\ r0' = v0 /\ r1' = v1 => Chip!Program!Sets(v0, v1)
    BY <1>1, <2>4, <2>6 DEF Chip!Program!Sets, Chip!Program!Falls, NextPc, Before
  <2>8. ASSUME Chip!Jump PROVE Chip!Program!Instruction
    BY <1>1, <2>4, <2>5, <2>8 DEF Chip!Jump, Chip!Program!Instruction, NextPc, Before
  <2>9. ASSUME Chip!Calculate PROVE Chip!Program!Instruction
    BY <2>5, <2>7, <2>9 DEF Chip!Calculate, Chip!Program!Instruction
  <2>10. ASSUME Chip!Move PROVE Chip!Program!Instruction
    BY <2>5, <2>7, <2>10 DEF Chip!Move, Chip!Program!Instruction
  <2> QED BY <1>6, <2>3, <2>8, <2>9, <2>10
<1> QED BY <1>5, <1>6 DEF Chip!Execute

\* A load takes effect here; a store has the write enabled for the falling edge.
LEMMA AccessStep ==
    ASSUME ChipInv, Chip!Rise, Chip!Access
    PROVE  ChipInv' /\ (Chip!Program!Instruction \/ UNCHANGED <<NextPc, r0, r1, memory>>)
<1> DEFINE high == Chip!High
           low == Chip!Low
<1>1. /\ state = 3 /\ state' = 0 /\ clk = 0 /\ clk' = 1
      /\ mem_we' = (IF Chip!IsStore THEN 1 ELSE mem_we)
      /\ r0' = (IF high = 12 THEN mem_data_r % 16 ELSE r0)
      /\ r1' = (IF high = 13 THEN mem_data_r % 16 ELSE r1)
      /\ UNCHANGED <<pc, opcode, mem_address, mem_data_w, memory, mem_data_r>>
  BY DEF Chip!Rise, Chip!Access
<1>2. /\ Chip!TypeOK /\ mem_we = 0
      /\ Chip!IsLoad \/ Chip!IsStore => BusHoldsOperand /\ mem_data_r = memory[mem_address]
  BY <1>1 DEF ChipInv
<1>3. /\ Chip!High' = high /\ Chip!Low' = low
      /\ (Chip!IsStore <=> high \in {14, 15}) /\ (Chip!IsLoad <=> high \in {12, 13})
  BY <1>1 DEF Chip!High, Chip!Low, Chip!IsStore, Chip!IsLoad
<1>4. Chip!TypeOK'
  <2>1. mem_data_r \in 0 .. 255
    BY <1>2 DEF Chip!TypeOK, Chip!BytesOf
  <2>2. mem_data_r % 16 \in 0 .. 15
    BY <2>1, FourBits
  <2> QED BY <1>1, <1>2, <2>2 DEF Chip!TypeOK, Chip!Nibbles
<1>5. CASE high \in {14, 15}
  <2>1. UNCHANGED <<r0, r1>> /\ mem_we' = 1 /\ BusHoldsOperand /\ Chip!IsStore
    BY <1>1, <1>2, <1>3, <1>5
  <2>2. BusHoldsOperand' /\ Chip!IsStore'
    BY <1>1, <1>3, <1>5, <2>1 DEF BusHoldsOperand, Chip!IsStore
  <2>3. ChipInv'
    BY <1>1, <1>4, <2>2 DEF ChipInv
  <2>4. NextPc = Before(pc) /\ NextPc' = Before(pc)
    BY <1>1, <2>1 DEF NextPc, Chip!Pending, Before
  <2> QED BY <1>1, <2>1, <2>3, <2>4
<1>6. CASE high \notin {14, 15}
  <2>1. mem_we' = 0 /\ ~Chip!IsStore
    BY <1>1, <1>2, <1>3, <1>6
  <2>2. ChipInv'
    BY <1>1, <1>4, <2>1 DEF ChipInv
  <2>3. NextPc' = pc
    BY <1>1, <2>1 DEF NextPc, Chip!Pending
  <2>4. CASE high \in {12, 13}
    <3>1. /\ opcode = memory[Before(pc)] /\ mem_data_r = memory[low]
          /\ NextPc = Before(pc)
      BY <1>1, <1>2, <1>3, <2>4 DEF BusHoldsOperand, NextPc, Chip!Pending
    <3>2. /\ Chip!Program!Is(high) /\ Chip!Program!Operand = low
      BY <3>1, ProgramIs DEF Chip!Program!Is, Chip!High, Chip!Low
    <3>3. Chip!Program!Next4(NextPc) = pc
      <4>1. pc \in 0 .. 15
        BY <1>2 DEF Chip!TypeOK, Chip!Nibbles
      <4> QED BY <3>1, <4>1, FourBits DEF Chip!Program!Next4
    <3>4. \A v0, v1 : r0' = v0 /\ r1' = v1 => Chip!Program!Sets(v0, v1)
      BY <1>1, <2>3, <3>3 DEF Chip!Program!Sets, Chip!Program!Falls, NextPc, Before
    <3> QED BY <1>1, <2>2, <2>4, <3>1, <3>2, <3>4 DEF Chip!Program!Instruction
  <2>5. CASE high \notin {12, 13}
    <3>1. NextPc = pc /\ UNCHANGED <<r0, r1>>
      BY <1>1, <1>3, <2>1, <2>5 DEF NextPc, Chip!Pending
    <3> QED BY <1>1, <2>2, <2>3, <3>1
  <2> QED BY <2>4, <2>5
<1> QED BY <1>5, <1>6

\* A store takes effect at the falling edge; any other edge only reads.
LEMMA FallStep ==
    ASSUME ChipInv, Chip!Fall
    PROVE  ChipInv' /\ (Chip!Program!Instruction \/ UNCHANGED <<NextPc, r0, r1, memory>>)
<1>1. /\ clk = 1 /\ clk' = 0
      /\ memory' = (IF mem_we = 1 THEN [memory EXCEPT ![mem_address] = mem_data_w] ELSE memory)
      /\ mem_data_r' = memory'[mem_address]
      /\ UNCHANGED <<state, pc, opcode, r0, r1, mem_address, mem_data_w, mem_we>>
  BY DEF Chip!Fall, Chip!registers, Chip!bus
<1>2. Chip!TypeOK' /\ Chip!TypeOK
  BY <1>1 DEF ChipInv, Chip!TypeOK
<1>3. Chip!High' = Chip!High /\ Chip!Low' = Chip!Low
      /\ Chip!IsStore' = Chip!IsStore /\ Chip!IsLoad' = Chip!IsLoad
  BY <1>1 DEF Chip!High, Chip!Low, Chip!IsStore, Chip!IsLoad
<1>4. CASE mem_we = 1
  <2>1. /\ state = 0 /\ Chip!IsStore /\ BusHoldsOperand /\ NextPc = Before(pc)
    BY <1>1, <1>4 DEF ChipInv, NextPc, Chip!Pending
  <2>2. ChipInv'
    BY <1>1, <1>2, <2>1 DEF ChipInv
  <2>3. NextPc' = pc
    BY <1>1, <2>1 DEF NextPc, Chip!Pending
  <2>4. /\ \A h : Chip!Program!Is(h) <=> Chip!High = h
        /\ Chip!Program!Operand = Chip!Low
    BY <2>1, ProgramIs DEF Chip!Program!Is, Chip!High, Chip!Low, BusHoldsOperand
  <2>5. Chip!Program!Next4(NextPc) = pc
    <3>1. pc \in 0 .. 15
      BY <1>2 DEF Chip!TypeOK, Chip!Nibbles
    <3> QED BY <2>1, <3>1, FourBits DEF Chip!Program!Next4
  <2>6. Chip!Program!Stores(mem_data_w)
    BY <1>1, <1>4, <2>1, <2>3, <2>4, <2>5
       DEF Chip!Program!Stores, Chip!Program!Falls, BusHoldsOperand, NextPc, Before
  <2>7. \/ Chip!High = 14 /\ mem_data_w = r0
        \/ Chip!High = 15 /\ mem_data_w = r1
    BY <2>1 DEF BusHoldsOperand, Chip!IsStore
  <2> QED BY <2>2, <2>4, <2>6, <2>7 DEF Chip!Program!Instruction
<1>5. CASE mem_we # 1
  <2>1. memory' = memory /\ mem_data_r' = memory[mem_address] /\ mem_we = 0
    BY <1>1, <1>2, <1>5 DEF Chip!TypeOK
  <2>2. BusHoldsOperand' <=> BusHoldsOperand
    BY <1>1, <1>3, <2>1 DEF BusHoldsOperand
  <2>3. ChipInv'
    BY <1>1, <1>2, <1>3, <2>1, <2>2 DEF ChipInv
  <2>4. Chip!Pending' = Chip!Pending
    BY <1>1, <1>3, <2>1 DEF Chip!Pending
  <2> QED BY <1>1, <2>1, <2>3, <2>4 DEF NextPc
<1> QED BY <1>4, <1>5

LEMMA ResetStep ==
    ASSUME ChipInv, Chip!Reset
    PROVE  ChipInv' /\ Chip!Program!Reset
<1>1. /\ state' = 0 /\ pc' = 0 /\ r0' = 0 /\ r1' = 0 /\ mem_we' = 0
      /\ UNCHANGED <<opcode, mem_address, mem_data_w, memory, mem_data_r, clk>>
  BY DEF Chip!Reset
<1>2. Chip!TypeOK'
  BY <1>1 DEF ChipInv, Chip!TypeOK, Chip!Nibbles
<1>3. ChipInv'
  BY <1>1, <1>2 DEF ChipInv
<1>4. NextPc' = 0
  BY <1>1 DEF NextPc, Chip!Pending
<1> QED BY <1>1, <1>3, <1>4 DEF Chip!Program!Reset, NextPc, Before

LEMMA ChipStep ==
    ASSUME ChipInv, [Chip!Next]_(Chip!vars)
    PROVE  /\ ChipInv'
           /\ [Chip!Program!Instruction \/ Chip!Program!Reset]_(Chip!Program!vars)
<1>1. UNCHANGED <<NextPc, r0, r1, memory>> => UNCHANGED Chip!Program!vars
  BY DEF Chip!Program!vars, NextPc, Before
<1>2. CASE UNCHANGED Chip!vars
  <2>1. UNCHANGED <<state, pc, opcode, r0, r1, mem_address, mem_data_w, mem_we, memory, mem_data_r, clk>>
    BY <1>2 DEF Chip!vars, Chip!registers, Chip!bus
  <2>2. ChipInv'
    BY <2>1 DEF ChipInv, Chip!TypeOK, BusHoldsOperand, Chip!High, Chip!Low, Chip!IsStore, Chip!IsLoad
  <2>3. NextPc' = NextPc
    BY <2>1 DEF NextPc, Chip!Pending, Chip!High, Chip!IsStore, Chip!IsLoad, Before
  <2> QED BY <1>1, <2>1, <2>2, <2>3
<1>3. CASE Chip!Rise
  BY <1>1, <1>3, AddressStep, FetchStep, ExecuteStep, AccessStep DEF Chip!Rise
<1>4. CASE Chip!Fall
  BY <1>1, <1>4, FallStep
<1>5. CASE Chip!Reset
  BY <1>5, ResetStep
<1> QED BY <1>2, <1>3, <1>4, <1>5 DEF Chip!Next

\* Four states and a memory half a clock behind make one instruction at a time, for
\* any contents of the memory and of the registers at power-up, programs that store
\* into their own code and resets in the middle of an instruction included
\* (cpu.v:59-158, toplevel.v:99-104).
THEOREM ProcessorImplementsIsa == Chip!Spec => ImplementsIsa
BY ChipInit, ChipStep, PTL DEF Chip!Spec, ImplementsIsa, Chip!ImplementsIsa, Chip!Program!Spec

-----------------------------------------------------------------------------
(* The record tool: the ranks of an insertion sort                         *)

\* Records as they are sorted: k goes before r.
Precedes(key, k, r) == key[k] < key[r] \/ (key[k] = key[r] /\ k < r)

Keys(key, m) == \A k \in 0 .. m - 1 : key[k] \in 0 .. 255

RankIn(key, m, r) == Cardinality({k \in 0 .. m - 1 : Precedes(key, k, r)})

\* Those that go before a record are finitely many, and fewer than all.
LEMMA Preceding ==
    ASSUME NEW m \in Nat, NEW key, Keys(key, m), NEW r \in 0 .. m - 1
    PROVE  /\ IsFiniteSet({k \in 0 .. m - 1 : Precedes(key, k, r)})
           /\ RankIn(key, m, r) \in 0 .. m - 1
<1> DEFINE S == {k \in 0 .. m - 1 : Precedes(key, k, r)}
<1>1. IsFiniteSet(0 .. m - 1) /\ Cardinality(0 .. m - 1) = m
  BY FS_Interval
<1>2. S \subseteq 0 .. m - 1 /\ r \notin S
  BY DEF Precedes, Keys
<1>3. IsFiniteSet(S) /\ Cardinality(S) \in Nat /\ Cardinality(S) <= m /\ (Cardinality(S) = m => S = 0 .. m - 1)
  BY <1>1, <1>2, FS_Subset, FS_CardinalityType, ZenonT(40)
<1>4. Cardinality(S) # m
  BY <1>2, <1>3
<1> QED BY <1>3, <1>4 DEF RankIn

LEMMA OrderIsTotal ==
    ASSUME NEW m \in Nat, NEW key, Keys(key, m), NEW k \in 0 .. m - 1, NEW r \in 0 .. m - 1
    PROVE  /\ k = r \/ Precedes(key, k, r) \/ Precedes(key, r, k)
           /\ ~Precedes(key, k, k)
           /\ key[k] <= key[r] \/ Precedes(key, r, k)
           /\ \A c \in 0 .. m - 1 : Precedes(key, c, k) /\ Precedes(key, k, r) => Precedes(key, c, r)
<1>1. \A c \in 0 .. m - 1 : key[c] \in Int /\ c \in Int
  BY DEF Keys
<1>2. key[k] \in Int /\ key[r] \in Int /\ k \in Int /\ r \in Int
  BY <1>1
<1>3. k = r \/ Precedes(key, k, r) \/ Precedes(key, r, k)
  BY <1>2 DEF Precedes
<1>4. ~Precedes(key, k, k) /\ (key[k] <= key[r] \/ Precedes(key, r, k))
  BY <1>2 DEF Precedes
<1>5. ASSUME NEW c \in 0 .. m - 1, Precedes(key, c, k), Precedes(key, k, r) PROVE Precedes(key, c, r)
  <2>1. key[c] \in Int /\ c \in Int
    BY <1>1
  <2> QED BY <1>2, <1>5, <2>1 DEF Precedes
<1> QED BY <1>3, <1>4, <1>5

\* Ranks grow with the order of the records, and no two records have the same.
LEMMA RanksGrow ==
    ASSUME NEW m \in Nat, NEW key, Keys(key, m), NEW k \in 0 .. m - 1, NEW r \in 0 .. m - 1
    PROVE  /\ RankIn(key, m, k) = RankIn(key, m, r) => k = r
           /\ RankIn(key, m, k) <= RankIn(key, m, r) => key[k] <= key[r]
<1>1. ASSUME NEW a \in 0 .. m - 1, NEW b \in 0 .. m - 1, Precedes(key, a, b)
      PROVE  RankIn(key, m, a) < RankIn(key, m, b)
  <2> DEFINE A == {c \in 0 .. m - 1 : Precedes(key, c, a)}
             B == {c \in 0 .. m - 1 : Precedes(key, c, b)}
  <2>1. IsFiniteSet(A) /\ IsFiniteSet(B) /\ Cardinality(A) \in Nat /\ Cardinality(B) \in Nat
    BY Preceding, FS_CardinalityType
  <2>2. A \subseteq B /\ a \in B /\ a \notin A
    BY <1>1, OrderIsTotal
  <2>3. Cardinality(A) <= Cardinality(B) /\ Cardinality(A) # Cardinality(B)
    BY <2>1, <2>2, FS_Subset
  <2> QED BY <2>1, <2>3 DEF RankIn
<1>2. RankIn(key, m, k) \in 0 .. m - 1 /\ RankIn(key, m, r) \in 0 .. m - 1
  BY Preceding
<1> QED BY <1>1, <1>2, OrderIsTotal

\* Every place is some record's.
LEMMA RanksReach ==
    ASSUME NEW m \in Nat, NEW key, Keys(key, m), NEW g \in 0 .. m - 1
    PROVE  \E r \in 0 .. m - 1 : RankIn(key, m, r) = g
<1> DEFINE S == 0 .. m - 1
           f == [r \in S |-> RankIn(key, m, r)]
<1>1. f \in [S -> S]
  BY Preceding
<1>2. f \in Injection(S, S)
  BY <1>1, RanksGrow DEF Injection, IsInjective
<1>3. IsFiniteSet(S)
  BY FS_Interval
<1>4. f \in Surjection(S, S)
  <2> HIDE DEF f, S
  <2> QED BY <1>2, <1>3, FS_Injection
<1> QED BY <1>4 DEF Surjection

\* The next record moves those that go after it by one place.
LEMMA RanksNext ==
    ASSUME NEW m \in Nat, NEW key, Keys(key, m + 1), NEW r \in 0 .. m - 1
    PROVE  RankIn(key, m + 1, r) = RankIn(key, m, r) + (IF key[m] < key[r] THEN 1 ELSE 0)
<1> DEFINE S == {k \in 0 .. m - 1 : Precedes(key, k, r)}
           T == {k \in 0 .. (m + 1) - 1 : Precedes(key, k, r)}
<1>1. IsFiniteSet(S) /\ Cardinality(S) \in Nat
  <2>1. Keys(key, m)
    BY DEF Keys
  <2> QED BY <2>1, Preceding, FS_CardinalityType
<1>2. Precedes(key, m, r) <=> key[m] < key[r]
  <2>1. r < m /\ r \in Int
    OBVIOUS
  <2> QED BY <2>1 DEF Precedes
<1>3. 0 .. (m + 1) - 1 = (0 .. m - 1) \cup {m} /\ m \notin S
  OBVIOUS
<1>4. CASE key[m] < key[r]
  <2>1. T = S \cup {m}
    BY <1>2, <1>3, <1>4
  <2> QED BY <1>1, <1>3, <1>4, <2>1, FS_AddElement DEF RankIn
<1>5. CASE ~(key[m] < key[r])
  <2>1. T = S
    BY <1>2, <1>3, <1>5
  <2> QED BY <1>1, <1>5, <2>1 DEF RankIn
<1> QED BY <1>4, <1>5

\* The next record goes where those end that do not go after it.
LEMMA RankOfNext ==
    ASSUME NEW m \in Nat, NEW key, Keys(key, m + 1), NEW g \in 0 .. m,
           \A r \in 0 .. m - 1 : RankIn(key, m, r) < g <=> key[r] <= key[m]
    PROVE  RankIn(key, m + 1, m) = g
<1> DEFINE S == {r \in 0 .. m - 1 : RankIn(key, m, r) < g}
           T == {k \in 0 .. (m + 1) - 1 : Precedes(key, k, m)}
           f == [r \in S |-> RankIn(key, m, r)]
<1>1. Keys(key, m)
  BY DEF Keys
<1>2. S = T
  <2>1. ASSUME NEW r \in 0 .. m - 1 PROVE Precedes(key, r, m) <=> key[r] <= key[m]
    <3>1. r < m /\ key[r] \in Int /\ key[m] \in Int
      BY DEF Keys
    <3> QED BY <3>1 DEF Precedes
  <2>2. ~Precedes(key, m, m)
    <3>1. key[m] \in Int
      BY DEF Keys
    <3> QED BY <3>1 DEF Precedes
  <2>3. 0 .. (m + 1) - 1 = (0 .. m - 1) \cup {m}
    OBVIOUS
  <2> QED BY <2>1, <2>2, <2>3
<1>3. f \in [S -> 0 .. g - 1]
  <2>1. ASSUME NEW r \in S PROVE RankIn(key, m, r) \in 0 .. g - 1
    <3>1. RankIn(key, m, r) \in 0 .. m - 1
      BY <1>1, Preceding
    <3> QED BY <3>1
  <2> QED BY <2>1
<1>4. f \in Injection(S, 0 .. g - 1)
  BY <1>1, <1>3, RanksGrow DEF Injection, IsInjective
<1>5. f \in Surjection(S, 0 .. g - 1)
  <2>1. ASSUME NEW t \in 0 .. g - 1 PROVE \E r \in S : f[r] = t
    <3>1. PICK r \in 0 .. m - 1 : RankIn(key, m, r) = t
      BY <1>1, RanksReach
    <3> QED BY <3>1
  <2> QED BY <1>3, <2>1 DEF Surjection
<1>6. IsFiniteSet(S) /\ ExistsBijection(S, 0 .. g - 1)
  <2>1. IsFiniteSet(0 .. m - 1)
    BY FS_Interval
  <2>2. IsFiniteSet(S)
    BY <2>1, FS_Subset
  <2> QED BY <1>4, <1>5, <2>2 DEF ExistsBijection, Bijection
<1>7. Cardinality(0 .. g - 1) = Cardinality(S)
  BY <1>6, FS_Bijection
<1>8. Cardinality(0 .. g - 1) = g
  BY FS_Interval
<1> QED BY <1>2, <1>7, <1>8 DEF RankIn

Placed(key, m, r) == IF r >= m THEN r ELSE RankIn(key, m, r)

\* F is O with its first m records sorted.
SortedTo(F, O, key, n, m) == \A r \in 0 .. n - 1 : F[Placed(key, m, r)] = O[r]

\* Where a record is that is not in hand, when those from the gap on have been moved.
Moved(key, m, g, r) ==
    IF r > m THEN r ELSE RankIn(key, m, r) + (IF RankIn(key, m, r) >= g THEN 1 ELSE 0)

ShiftedTo(F, O, key, n, m, g) ==
    \A r \in 0 .. n - 1 : r # m =>
       /\ F[Moved(key, m, g, r)] = O[r]
       /\ r < m /\ RankIn(key, m, r) >= g => key[m] < key[r]

\* The records before the gap do not go after the one in hand.
LowBefore(key, m, g) == \A r \in 0 .. m - 1 : RankIn(key, m, r) < g => key[r] <= key[m]

LEMMA KeysOfFewer ==
    ASSUME NEW n \in Nat, NEW m \in 0 .. n, NEW key, Keys(key, n)
    PROVE  Keys(key, m) /\ \A r \in 0 .. n - 1 : key[r] \in Int
BY DEF Keys

\* Every place but the gap is some record's.
LEMMA MovedIsPlace ==
    ASSUME NEW n \in Nat, NEW key, Keys(key, n), NEW m \in 0 .. n - 1, NEW g \in 0 .. m,
           NEW r \in 0 .. n - 1, r # m
    PROVE  /\ Moved(key, m, g, r) \in 0 .. n - 1 /\ Moved(key, m, g, r) # g
           /\ r < m => RankIn(key, m, r) \in 0 .. m - 1
           /\ \A s \in 0 .. n - 1 : s # m /\ Moved(key, m, g, s) = Moved(key, m, g, r) => s = r
<1>1. m \in Nat /\ Keys(key, m)
  BY KeysOfFewer
<1>2. ASSUME NEW s \in 0 .. m - 1 PROVE RankIn(key, m, s) \in 0 .. m - 1
  BY <1>1, Preceding
<1>3. ASSUME NEW s \in 0 .. n - 1, s # m, Moved(key, m, g, s) = Moved(key, m, g, r)
      PROVE  s = r
  <2>1. CASE s < m /\ r < m
    <3>1. s \in 0 .. m - 1 /\ r \in 0 .. m - 1
      BY <2>1
    <3>2. RankIn(key, m, s) = RankIn(key, m, r)
      BY <1>2, <1>3, <2>1, <3>1 DEF Moved
    <3> QED BY <1>1, <3>1, <3>2, RanksGrow
  <2>2. CASE ~(s < m /\ r < m)
    <3>1. s < m => Moved(key, m, g, s) \in 0 .. m
      BY <1>2 DEF Moved
    <3>2. r < m => Moved(key, m, g, r) \in 0 .. m
      BY <1>2 DEF Moved
    <3> QED BY <1>3, <2>2, <3>1, <3>2 DEF Moved
  <2> QED BY <2>1, <2>2
<1>4. Moved(key, m, g, r) \in 0 .. n - 1 /\ Moved(key, m, g, r) # g
  <2>1. CASE r > m
    BY <2>1 DEF Moved
  <2>2. CASE r < m
    <3>1. RankIn(key, m, r) \in 0 .. m - 1
      BY <1>2, <2>2
    <3> QED BY <2>2, <3>1 DEF Moved
  <2> QED BY <2>1, <2>2
<1>5. r < m => RankIn(key, m, r) \in 0 .. m - 1
  BY <1>2
<1> QED BY <1>3, <1>4, <1>5

\* TakeRecord leaves the gap where the record was.
LEMMA TakenFromItsPlace ==
    ASSUME NEW n \in Nat, NEW key, Keys(key, n), NEW m \in 0 .. n - 1,
           NEW F, NEW O, SortedTo(F, O, key, n, m)
    PROVE  ShiftedTo(F, O, key, n, m, m) /\ F[m] = O[m]
<1>1. F[m] = O[m]
  BY DEF SortedTo, Placed
<1>2. ASSUME NEW r \in 0 .. n - 1, r # m
      PROVE  /\ F[Moved(key, m, m, r)] = O[r]
             /\ r < m => ~(RankIn(key, m, r) >= m)
  <2>1. r < m => RankIn(key, m, r) \in 0 .. m - 1
    BY <1>2, MovedIsPlace
  <2>2. Moved(key, m, m, r) = Placed(key, m, r)
    BY <1>2, <2>1 DEF Moved, Placed
  <2>3. F[Placed(key, m, r)] = O[r]
    BY DEF SortedTo
  <2> QED BY <2>1, <2>2, <2>3
<1> QED BY <1>1, <1>2 DEF ShiftedTo

\* A record that goes after the one in hand moves into the gap.
LEMMA ShiftOne ==
    ASSUME NEW n \in Nat, NEW key, Keys(key, n), NEW m \in 0 .. n - 1, NEW g \in 1 .. m,
           NEW O, NEW F, DOMAIN F = 0 .. n - 1, ShiftedTo(F, O, key, n, m, g),
           \A r \in 0 .. n - 1 : key[r] = O[r][1], key[m] < F[g - 1][1]
    PROVE  ShiftedTo([F EXCEPT ![g] = F[g - 1]], O, key, n, m, g - 1)
<1> DEFINE H == [F EXCEPT ![g] = F[g - 1]]
<1>1. ASSUME NEW s \in 0 .. n - 1 PROVE H[s] = (IF s = g THEN F[g - 1] ELSE F[s])
  OBVIOUS
<1> HIDE DEF H
<1>2. ASSUME NEW r \in 0 .. n - 1, r # m
      PROVE  /\ H[Moved(key, m, g - 1, r)] = O[r]
             /\ r < m /\ RankIn(key, m, r) >= g - 1 => key[m] < key[r]
  <2>1. /\ Moved(key, m, g, r) \in 0 .. n - 1 /\ Moved(key, m, g, r) # g
        /\ r < m => RankIn(key, m, r) \in 0 .. m - 1
    <3>1. g \in 0 .. m
      OBVIOUS
    <3> QED BY <1>2, <3>1, MovedIsPlace
  <2>2. F[Moved(key, m, g, r)] = O[r] /\ (r < m /\ RankIn(key, m, r) >= g => key[m] < key[r])
    BY <1>2 DEF ShiftedTo
  <2>3. CASE r < m /\ RankIn(key, m, r) = g - 1
    <3>1. Moved(key, m, g, r) = g - 1 /\ Moved(key, m, g - 1, r) = g
      BY <2>1, <2>3 DEF Moved
    <3>2. O[r] = F[g - 1]
      BY <2>2, <3>1
    <3>3. key[r] = F[g - 1][1]
      BY <3>2
    <3> QED BY <1>1, <3>1, <3>2, <3>3
  <2>4. CASE ~(r < m /\ RankIn(key, m, r) = g - 1)
    <3>1. Moved(key, m, g - 1, r) = Moved(key, m, g, r)
      BY <1>2, <2>1, <2>4 DEF Moved
    <3>2. H[Moved(key, m, g, r)] = O[r]
      BY <1>1, <2>1, <2>2
    <3>3. r < m /\ RankIn(key, m, r) >= g - 1 => RankIn(key, m, r) >= g
      BY <2>1, <2>4
    <3> QED BY <2>2, <3>1, <3>2, <3>3
  <2> QED BY <2>3, <2>4
<1> QED BY <1>2 DEF ShiftedTo, H

\* When the search stops at a record, no earlier one goes after the one in hand.
LEMMA StopsBelow ==
    ASSUME NEW n \in Nat, NEW key, Keys(key, n), NEW m \in 0 .. n - 1, NEW g \in 1 .. m,
           NEW O, NEW F, ShiftedTo(F, O, key, n, m, g),
           \A r \in 0 .. n - 1 : key[r] = O[r][1], ~(key[m] < F[g - 1][1])
    PROVE  LowBefore(key, m, g)
<1>1. m \in Nat /\ Keys(key, m) /\ g - 1 \in 0 .. m - 1
  BY KeysOfFewer
<1>2. PICK s \in 0 .. m - 1 : RankIn(key, m, s) = g - 1
  BY <1>1, RanksReach
<1>3. F[Moved(key, m, g, s)] = O[s] /\ Moved(key, m, g, s) = g - 1
  <2>1. s \in 0 .. n - 1 /\ s # m
    OBVIOUS
  <2>2. F[Moved(key, m, g, s)] = O[s]
    BY <2>1 DEF ShiftedTo
  <2> QED BY <1>2, <2>2 DEF Moved
<1>4. key[s] \in Int /\ key[m] \in Int /\ key[s] <= key[m]
  <2>1. key[s] \in Int /\ key[m] \in Int /\ key[s] = O[s][1]
    <3>1. s \in 0 .. n - 1 /\ m \in 0 .. n - 1
      OBVIOUS
    <3>2. \A k \in 0 .. n - 1 : key[k] \in 0 .. 255
      BY Zenon DEF Keys
    <3>3. key[s] \in 0 .. 255 /\ key[m] \in 0 .. 255
      BY <3>1, <3>2, Zenon
    <3>4. key[s] = O[s][1]
      BY <3>1, Zenon
    <3> QED BY <3>3, <3>4
  <2>2. key[s] = F[g - 1][1]
    BY <1>3, <2>1
  <2> QED BY <2>1, <2>2
<1>5. ASSUME NEW r \in 0 .. m - 1, RankIn(key, m, r) < g PROVE key[r] <= key[m]
  <2>1. RankIn(key, m, r) <= RankIn(key, m, s)
    <3>1. RankIn(key, m, r) \in 0 .. m - 1
      BY <1>1, Preceding
    <3> QED BY <1>2, <1>5, <3>1
  <2>2. key[r] <= key[s]
    BY <1>1, <2>1, RanksGrow
  <2>3. key[r] \in Int
    BY <1>1, SMTT(20) DEF Keys
  <2> QED BY <1>4, <2>2, <2>3
<1> QED BY <1>5 DEF LowBefore

\* Place puts the record in hand where it belongs.
LEMMA PlacedInOrder ==
    ASSUME NEW n \in Nat, NEW key, Keys(key, n), NEW m \in 0 .. n - 1, NEW g \in 0 .. m,
           NEW O, NEW F, DOMAIN F = 0 .. n - 1,
           ShiftedTo(F, O, key, n, m, g), LowBefore(key, m, g)
    PROVE  SortedTo([F EXCEPT ![g] = O[m]], O, key, n, m + 1)
<1> DEFINE H == [F EXCEPT ![g] = O[m]]
<1>1. ASSUME NEW s \in 0 .. n - 1 PROVE H[s] = (IF s = g THEN O[m] ELSE F[s])
  OBVIOUS
<1> HIDE DEF H
<1>2. m \in Nat /\ Keys(key, m + 1) /\ Keys(key, m)
  BY KeysOfFewer
<1>3. ASSUME NEW r \in 0 .. m - 1
      PROVE  /\ RankIn(key, m, r) < g <=> key[r] <= key[m]
             /\ RankIn(key, m, r) >= g <=> key[m] < key[r]
             /\ RankIn(key, m, r) \in 0 .. m - 1
  <2>1. RankIn(key, m, r) \in 0 .. m - 1
    BY <1>2, Preceding
  <2>2. RankIn(key, m, r) >= g => key[m] < key[r]
    BY DEF ShiftedTo
  <2>3. RankIn(key, m, r) < g => key[r] <= key[m]
    BY DEF LowBefore
  <2>4. key[r] \in Int /\ key[m] \in Int
    <3>1. \A k \in 0 .. n - 1 : key[k] \in Int
      BY KeysOfFewer
    <3> QED BY <3>1
  <2> QED BY <2>1, <2>2, <2>3, <2>4
<1>4. RankIn(key, m + 1, m) = g
  BY <1>2, <1>3, RankOfNext
<1>5. ASSUME NEW r \in 0 .. n - 1 PROVE H[Placed(key, m + 1, r)] = O[r]
  <2>1. CASE r = m
    <3>1. Placed(key, m + 1, r) = g
      BY <1>4, <2>1 DEF Placed
    <3> QED BY <1>1, <2>1, <3>1
  <2>2. CASE r # m
    <3>1. Moved(key, m, g, r) \in 0 .. n - 1 /\ Moved(key, m, g, r) # g
      BY <2>2, MovedIsPlace
    <3>2. F[Moved(key, m, g, r)] = O[r]
      BY <2>2 DEF ShiftedTo
    <3>3. Placed(key, m + 1, r) = Moved(key, m, g, r)
      <4>1. CASE r > m
        BY <4>1 DEF Placed, Moved
      <4>2. CASE r < m
        <5>1. r \in 0 .. m - 1
          BY <4>2
        <5>2. RankIn(key, m + 1, r) = RankIn(key, m, r) + (IF key[m] < key[r] THEN 1 ELSE 0)
          BY <1>2, <5>1, RanksNext
        <5> QED BY <1>3, <4>2, <5>1, <5>2, SMTT(20) DEF Placed, Moved
      <4> QED BY <2>2, <4>1, <4>2
    <3> QED BY <1>1, <3>1, <3>2, <3>3
  <2> QED BY <2>1, <2>2
<1> QED BY <1>5 DEF SortedTo, H

\* How many of the records 0 .. n - 1 of f are x; as many of each in f as in g.
Occurs(f, n, x) == Cardinality({k \in 0 .. n - 1 : f[k] = x})
Alike(f, g, n) == \A x : Occurs(f, n, x) = Occurs(g, n, x)

\* With the record in hand in the gap, there are as many records of each kind as before.
LEMMA SameRecords ==
    ASSUME NEW n \in Nat, NEW key, Keys(key, n), NEW m \in 0 .. n - 1, NEW g \in 0 .. m,
           NEW O, NEW F, DOMAIN F = 0 .. n - 1, ShiftedTo(F, O, key, n, m, g)
    PROVE  Alike([F EXCEPT ![g] = O[m]], O, n)
<1> SUFFICES ASSUME NEW x PROVE Occurs([F EXCEPT ![g] = O[m]], n, x) = Occurs(O, n, x)
  BY DEF Alike
<1> DEFINE N == 0 .. n - 1
           H == [F EXCEPT ![g] = O[m]]
           p == [r \in N |-> IF r = m THEN g ELSE Moved(key, m, g, r)]
           S == {k \in N : O[k] = x}
           T == {k \in N : H[k] = x}
           q == [r \in S |-> p[r]]
<1>1. ASSUME NEW s \in N PROVE H[s] = (IF s = g THEN O[m] ELSE F[s])
  OBVIOUS
<1>2. p \in [N -> N]
  BY MovedIsPlace
<1>3. \A r \in N : H[p[r]] = O[r]
  <2>1. ASSUME NEW r \in N PROVE H[p[r]] = O[r]
    <3>1. CASE r = m
      BY <1>1, <3>1
    <3>2. CASE r # m
      <4>1. Moved(key, m, g, r) \in N /\ Moved(key, m, g, r) # g
        BY <3>2, MovedIsPlace
      <4>2. F[Moved(key, m, g, r)] = O[r]
        BY <3>2 DEF ShiftedTo
      <4> QED BY <1>1, <3>2, <4>1, <4>2
    <3> QED BY <3>1, <3>2
  <2> QED BY <2>1
<1>4. \A r, s \in N : p[r] = p[s] => r = s
  <2>1. ASSUME NEW r \in N, NEW s \in N, p[r] = p[s] PROVE r = s
    <3>1. r # m => Moved(key, m, g, r) # g
      BY MovedIsPlace
    <3>2. s # m => Moved(key, m, g, s) # g
      BY MovedIsPlace
    <3>3. r # m /\ s # m /\ Moved(key, m, g, s) = Moved(key, m, g, r) => s = r
      BY MovedIsPlace
    <3> QED BY <2>1, <3>1, <3>2, <3>3
  <2> QED BY <2>1
<1>5. p \in Surjection(N, N)
  <2>1. p \in Injection(N, N)
    BY <1>2, <1>4 DEF Injection, IsInjective
  <2>2. IsFiniteSet(N)
    BY FS_Interval
  <2> HIDE DEF p, N
  <2> QED BY <2>1, <2>2, FS_Injection
<1> HIDE DEF p
<1>6. q \in [S -> T]
  BY <1>2, <1>3
<1>7. q \in Bijection(S, T)
  <2>1. q \in Injection(S, T)
    BY <1>4, <1>6 DEF Injection, IsInjective
  <2>2. ASSUME NEW t \in T PROVE \E s \in S : q[s] = t
    <3>1. PICK s \in N : p[s] = t
      BY <1>5 DEF Surjection
    <3> QED BY <1>3, <3>1
  <2> QED BY <1>6, <2>1, <2>2 DEF Bijection, Surjection
<1>8. IsFiniteSet(S)
  <2>1. IsFiniteSet(N)
    BY FS_Interval
  <2> QED BY <2>1, FS_Subset
<1>9. Cardinality(S) = Cardinality(T)
  BY <1>7, <1>8, FS_Bijection DEF ExistsBijection
<1> QED BY <1>9 DEF Occurs

-----------------------------------------------------------------------------
(* The record tool: files of records                                       *)

Byte == 0 .. 255

\* Record r of file f, and f with record r replaced by b; both with records of z bytes.
Rec(f, z, r) == SubSeq(f, z * r + 1, z * (r + 1))
Put(f, z, b, r) ==
    [k \in 1 .. Max({Len(f), z * (r + 1)}) |->
        IF k \in z * r + 1 .. z * (r + 1) THEN b[k - z * r]
        ELSE IF k <= Len(f) THEN f[k] ELSE 0]

LEMMA MaxOfTwo == \A a, b \in Int : Max({a, b}) = IF a >= b THEN a ELSE b
<1> SUFFICES ASSUME NEW a \in Int, NEW b \in Int PROVE Max({a, b}) = IF a >= b THEN a ELSE b
  OBVIOUS
<1> DEFINE S == {a, b}
<1>1. \E m \in S : \A o \in S : m >= o
  OBVIOUS
<1>2. Max(S) \in S /\ \A o \in S : Max(S) >= o
  BY <1>1 DEF Max
<1> QED BY <1>2

\* Records follow each other and lie in the file.
LEMMA RecordBounds ==
    ASSUME NEW n \in Nat, NEW z \in Nat \ {0}, NEW r \in 0 .. n - 1
    PROVE  /\ z * r \in Nat /\ z * (r + 1) = z * r + z /\ z * (r + 1) <= n * z
           /\ \A s \in 0 .. n - 1 : s < r => z * (s + 1) <= z * r
<1>1. \A a, b \in Nat : a * b \in Nat
  OBVIOUS
<1>2. z * (r + 1) = z * r + z /\ z * r \in Nat
  BY <1>1
<1>3. z * (r + 1) <= n * z
  <2>1. n - (r + 1) \in Nat
    OBVIOUS
  <2>2. z * (n - (r + 1)) \in Nat
    BY <1>1, <2>1
  <2>3. z * (n - (r + 1)) = n * z - z * (r + 1)
    OBVIOUS
  <2>4. n * z \in Nat /\ z * (r + 1) \in Nat
    BY <1>1
  <2> QED BY <2>2, <2>3, <2>4
<1>4. ASSUME NEW s \in 0 .. n - 1, s < r PROVE z * (s + 1) <= z * r
  <2>1. r - (s + 1) \in Nat
    BY <1>4
  <2>2. z * (r - (s + 1)) \in Nat
    BY <1>1, <2>1
  <2>3. z * (r - (s + 1)) = z * r - z * (s + 1)
    OBVIOUS
  <2>4. z * (s + 1) \in Nat
    BY <1>1
  <2> QED BY <1>2, <2>2, <2>3, <2>4
<1> QED BY <1>2, <1>3, <1>4

LEMMA RecordIs ==
    ASSUME NEW n \in Nat, NEW z \in Nat \ {0}, NEW f \in Seq(Byte), n * z <= Len(f), NEW r \in 0 .. n - 1
    PROVE  /\ Rec(f, z, r) \in Seq(Byte) /\ Len(Rec(f, z, r)) = z
           /\ Rec(f, z, r) \in [1 .. z -> Byte]
           /\ \A k \in 1 .. z : Rec(f, z, r)[k] = f[z * r + k]
<1> DEFINE a == z * r
           b == z * (r + 1)
<1>1. a \in Nat /\ b = a + z /\ b <= Len(f) /\ Len(f) \in Nat
  <2>1. a \in Nat /\ b = a + z /\ b <= n * z /\ n * z \in Nat /\ Len(f) \in Nat
    BY RecordBounds
  <2> QED BY <2>1
<1> HIDE DEF a, b
<1>2. \A k \in a + 1 .. b : f[k] \in Byte
  <2>1. f \in [1 .. Len(f) -> Byte]
    BY LenProperties
  <2> QED BY <1>1, <2>1
<1>3. /\ SubSeq(f, a + 1, b) \in Seq(Byte)
      /\ Len(SubSeq(f, a + 1, b)) = (IF a + 1 <= b THEN b - (a + 1) + 1 ELSE 0)
      /\ \A k \in 1 .. b - (a + 1) + 1 : SubSeq(f, a + 1, b)[k] = f[(a + 1) + k - 1]
  BY <1>1, <1>2, SubSeqProperties
<1>4. Len(SubSeq(f, a + 1, b)) = z /\ b - (a + 1) + 1 = z
  BY <1>1, <1>3
<1>5. SubSeq(f, a + 1, b) \in [1 .. z -> Byte]
  BY <1>3, <1>4, LenProperties
<1>6. \A k \in 1 .. z : SubSeq(f, a + 1, b)[k] = f[a + k]
  <2>1. \A k \in 1 .. z : (a + 1) + k - 1 = a + k
    BY <1>1
  <2> QED BY <1>3, <1>4, <2>1
<1> QED BY <1>3, <1>4, <1>5, <1>6 DEF Rec, a, b

\* What a write makes of the file, within it or not.
LEMMA PutIsFile ==
    ASSUME NEW z \in Nat \ {0}, NEW f \in Seq(Byte), NEW r \in Nat, NEW b \in [1 .. z -> Byte]
    PROVE  Put(f, z, b, r) \in Seq(Byte)
<1> DEFINE a == z * r
           c == z * (r + 1)
           l == Max({Len(f), c})
<1>1. a \in Nat /\ c = a + z /\ Len(f) \in Nat
  <2>1. \A x, y \in Nat : x * y \in Nat
    OBVIOUS
  <2> QED BY <2>1
<1> HIDE DEF a, c
<1>2. l \in Nat
  BY <1>1, MaxOfTwo
<1> HIDE DEF l
<1>3. \A k \in 1 .. Len(f) : f[k] \in Byte
  BY ElementOfSeq
<1>4. ASSUME NEW k \in 1 .. l
      PROVE  (IF k \in a + 1 .. c THEN b[k - a] ELSE IF k <= Len(f) THEN f[k] ELSE 0) \in Byte
  <2>1. k \in a + 1 .. c => k - a \in 1 .. z
    BY <1>1
  <2> QED BY <1>1, <1>3, <2>1 DEF Byte
<1>5. [k \in 1 .. l |-> IF k \in a + 1 .. c THEN b[k - a] ELSE IF k <= Len(f) THEN f[k] ELSE 0] \in Seq(Byte)
  BY <1>2, <1>4, IsASeq
<1> QED BY <1>5 DEF Put, a, c, l

Array(f, z, n) == [r \in 0 .. n - 1 |-> Rec(f, z, r)]

\* A write within the file changes the record it is for, and nothing else.
LEMMA PutChanges ==
    ASSUME NEW n \in Nat, NEW z \in Nat \ {0}, NEW f \in Seq(Byte), n * z <= Len(f),
           NEW p \in 0 .. n - 1, NEW b \in [1 .. z -> Byte]
    PROVE  LET g == Put(f, z, b, p) IN
           /\ g \in Seq(Byte) /\ Len(g) = Len(f)
           /\ Array(g, z, n) = [Array(f, z, n) EXCEPT ![p] = b]
           /\ SubSeq(g, n * z + 1, Len(f)) = SubSeq(f, n * z + 1, Len(f))
<1> DEFINE g == Put(f, z, b, p)
           a == z * p
           c == z * (p + 1)
<1>1. /\ a \in Nat /\ c = a + z /\ c <= n * z /\ n * z \in Nat /\ Len(f) \in Nat /\ c <= Len(f)
      /\ \A s \in 0 .. n - 1 : s < p => z * (s + 1) <= a
  <2>1. /\ a \in Nat /\ c = a + z /\ c <= n * z /\ n * z \in Nat /\ Len(f) \in Nat
        /\ \A s \in 0 .. n - 1 : s < p => z * (s + 1) <= a
    BY RecordBounds
  <2> QED BY <2>1
<1>2. g \in Seq(Byte)
  BY PutIsFile
<1>3. g = [k \in 1 .. Len(f) |-> IF k \in a + 1 .. c THEN b[k - a] ELSE f[k]]
  <2>1. Max({Len(f), c}) = Len(f)
    BY <1>1, MaxOfTwo
  <2>2. g = [k \in 1 .. Max({Len(f), c}) |->
                IF k \in a + 1 .. c THEN b[k - a] ELSE IF k <= Len(f) THEN f[k] ELSE 0]
    BY DEF Put
  <2>3. \A k \in 1 .. Len(f) : k <= Len(f)
    BY <1>1
  <2> HIDE DEF g, a, c
  <2> QED BY <2>1, <2>2, <2>3
<1> HIDE DEF g, a, c
<1>4. Len(g) = Len(f)
  <2>1. DOMAIN g = 1 .. Len(f) /\ DOMAIN g = 1 .. Len(g) /\ Len(g) \in Nat
    BY <1>2, <1>3, LenProperties
  <2> QED BY <1>1, <2>1
<1>5. Rec(g, z, p) = b
  <2>1. /\ Rec(g, z, p) \in [1 .. z -> Byte]
        /\ \A k \in 1 .. z : Rec(g, z, p)[k] = g[a + k]
    BY <1>2, <1>4, RecordIs, ZenonT(40) DEF a
  <2>2. ASSUME NEW k \in 1 .. z PROVE g[a + k] = b[k]
    <3>1. a + k \in 1 .. Len(f) /\ a + k \in a + 1 .. c /\ (a + k) - a = k
      BY <1>1
    <3> QED BY <1>3, <3>1
  <2> QED BY <2>1, <2>2
<1>6. ASSUME NEW s \in 0 .. n - 1, s # p PROVE Rec(g, z, s) = Rec(f, z, s)
  <2> DEFINE d == z * s
  <2>1. /\ Rec(g, z, s) \in [1 .. z -> Byte] /\ Rec(f, z, s) \in [1 .. z -> Byte]
        /\ \A k \in 1 .. z : Rec(g, z, s)[k] = g[d + k] /\ Rec(f, z, s)[k] = f[d + k]
    <3>1. /\ Rec(f, z, s) \in [1 .. z -> Byte]
          /\ \A k \in 1 .. z : Rec(f, z, s)[k] = f[d + k]
      BY RecordIs, ZenonT(40)
    <3>2. n * z <= Len(g)
      BY <1>4
    <3>3. /\ Rec(g, z, s) \in [1 .. z -> Byte]
          /\ \A k \in 1 .. z : Rec(g, z, s)[k] = g[d + k]
      BY <1>2, <3>2, RecordIs, ZenonT(40)
    <3> QED BY <3>1, <3>3
  <2>2. d \in Nat /\ d + z <= Len(f) /\ (d + z <= a \/ c <= d)
    <3>1. /\ d \in Nat /\ z * (s + 1) = d + z /\ z * (s + 1) <= n * z
          /\ p < s => z * (p + 1) <= d
      BY RecordBounds
    <3>2. s < p => z * (s + 1) <= a
      BY <1>1
    <3> QED BY <1>1, <1>6, <3>1, <3>2 DEF c
  <2> HIDE DEF d
  <2>3. ASSUME NEW k \in 1 .. z PROVE g[d + k] = f[d + k]
    <3>1. d + k \in 1 .. Len(f) /\ d + k \notin a + 1 .. c
      BY <1>1, <2>2
    <3> QED BY <1>3, <3>1
  <2> QED BY <2>1, <2>3
<1>7. Array(g, z, n) = [Array(f, z, n) EXCEPT ![p] = b]
  BY <1>5, <1>6 DEF Array
<1>8. SubSeq(g, n * z + 1, Len(f)) = SubSeq(f, n * z + 1, Len(f))
  <2> DEFINE m == n * z + 1
             l == Len(f)
  <2>1. m \in Nat /\ l \in Nat /\ \A k \in m .. l : g[k] = f[k] /\ f[k] \in Byte /\ g[k] \in Byte
    <3>1. \A k \in 1 .. Len(f) : f[k] \in Byte
      BY ElementOfSeq
    <3>2. ASSUME NEW k \in m .. l PROVE k \in 1 .. Len(f) /\ k \notin a + 1 .. c
      BY <1>1
    <3> QED BY <1>1, <1>3, <3>1, <3>2
  <2> HIDE DEF m, l
  <2>2. /\ SubSeq(g, m, l) \in Seq(Byte) /\ Len(SubSeq(g, m, l)) = (IF m <= l THEN l - m + 1 ELSE 0)
        /\ \A k \in 1 .. l - m + 1 : SubSeq(g, m, l)[k] = g[m + k - 1]
    BY <2>1, SubSeqProperties
  <2>3. /\ SubSeq(f, m, l) \in Seq(Byte) /\ Len(SubSeq(f, m, l)) = (IF m <= l THEN l - m + 1 ELSE 0)
        /\ \A k \in 1 .. l - m + 1 : SubSeq(f, m, l)[k] = f[m + k - 1]
    BY <2>1, SubSeqProperties
  <2>4. ASSUME NEW k \in 1 .. Len(SubSeq(g, m, l)) PROVE SubSeq(g, m, l)[k] = SubSeq(f, m, l)[k]
    <3>1. k \in 1 .. l - m + 1 /\ m + k - 1 \in m .. l
      BY <2>1, <2>2
    <3> QED BY <2>1, <2>2, <2>3, <3>1
  <2>5. SubSeq(g, m, l) = SubSeq(f, m, l)
    BY <2>2, <2>3, <2>4, SeqEqual
  <2> QED BY <2>5 DEF m, l
<1> QED BY <1>2, <1>4, <1>7, <1>8 DEF g

-----------------------------------------------------------------------------
(* The record tool: its invariant                                          *)

Fits == cmd.n * cmd.size <= Len(old)
OldRecords == Array(old, cmd.size, cmd.n)
Key == [r \in 0 .. cmd.n - 1 |-> OldRecords[r][1]]

Sorting == at \in {"sorts", "shifts", "places"}

\* Where the loops of sort are.
SortPlaces ==
    Sorting =>
       /\ cmd.op = "sort" /\ cmd.n <= MaxBytes /\ i \in Nat \ {0}
       /\ buffer1 \in [1 .. cmd.size -> Byte] /\ buffer2 \in [1 .. cmd.size -> Byte]
       /\ at = "sorts" => i = 1 \/ i <= cmd.n
       /\ at # "sorts" => i < cmd.n
       /\ at = "shifts" => j \in 0 .. i - 1
       /\ at = "places" => j \in -1 .. i - 2 /\ (Records!Smaller(buffer1, buffer2) => j = -1)

SortedInv ==
    Sorting /\ Fits =>
       /\ Len(source) = Len(old)
       /\ SubSeq(source, cmd.n * cmd.size + 1, Len(old)) = SubSeq(old, cmd.n * cmd.size + 1, Len(old))
       /\ at = "sorts" => SortedTo(Array(source, cmd.size, cmd.n), OldRecords, Key, cmd.n, i)
       /\ at = "shifts" =>
             /\ buffer1 = OldRecords[i]
             /\ ShiftedTo(Array(source, cmd.size, cmd.n), OldRecords, Key, cmd.n, i, j + 1)
       /\ at = "places" =>
             /\ buffer1 = OldRecords[i] /\ LowBefore(Key, i, Records!Gap)
             /\ ShiftedTo(Array(source, cmd.size, cmd.n), OldRecords, Key, cmd.n, i, Records!Gap)

CopyInv ==
    at = "copies" =>
       /\ cmd.op = "copy" /\ source = old /\ offset <= Len(source) /\ recNum = cmd.n * cmd.size - offset
       /\ destination = SubSeq(old, 1, IF recNum >= 0 THEN offset ELSE cmd.n * cmd.size)

RecordsInv == Records!TypeOK /\ SortPlaces /\ SortedInv /\ CopyInv /\ Records!CommandDone

LEMMA WrittenIs == \A b, r : Records!Written(b, r) = Put(source, cmd.size, b, r)
  BY DEF Records!Written, Put, Records!Max, Max

LEMMA RecordsInit == Records!Init => RecordsInv
<1> SUFFICES ASSUME Records!Init PROVE RecordsInv
  OBVIOUS
<1> USE RecordsAssumption DEF Records!Init, Records!None, Records!RecordFileAssumption
<1>1. Records!TypeOK
  BY DEF Records!TypeOK
<1>2. SortPlaces /\ SortedInv /\ CopyInv /\ Records!CommandDone
  BY DEF SortPlaces, SortedInv, CopyInv, Sorting, Records!CommandDone
<1> QED BY <1>1, <1>2 DEF RecordsInv

\* The types of a sort, and its keys.
LEMMA SortTypes ==
    ASSUME RecordsInv
    PROVE  /\ cmd.n \in Nat /\ cmd.size \in Nat \ {0} /\ MaxBytes \in Nat
           /\ source \in Seq(Byte) /\ old \in Seq(Byte)
           /\ Len(source) \in Nat /\ Len(old) \in Nat /\ cmd.n * cmd.size \in Nat
           /\ Fits => /\ Keys(Key, cmd.n)
                      /\ \A r \in 0 .. cmd.n - 1 : /\ OldRecords[r] \in [1 .. cmd.size -> Byte]
                                                   /\ Key[r] = OldRecords[r][1]
<1>1. /\ cmd.n \in Nat /\ cmd.size \in Nat \ {0} /\ source \in Seq(Byte) /\ old \in Seq(Byte)
      /\ MaxBytes \in Nat
  BY RecordsAssumption DEF RecordsInv, Records!TypeOK, Byte, Records!RecordFileAssumption
<1>2. Len(source) \in Nat /\ Len(old) \in Nat /\ cmd.n * cmd.size \in Nat
  <2>1. \A x, y \in Nat : x * y \in Nat
    OBVIOUS
  <2> QED BY <1>1, <2>1
<1>3. ASSUME Fits, NEW r \in 0 .. cmd.n - 1
      PROVE  OldRecords[r] \in [1 .. cmd.size -> Byte] /\ Key[r] = OldRecords[r][1] /\ Key[r] \in Byte
  <2>1. Rec(old, cmd.size, r) \in [1 .. cmd.size -> Byte]
    BY <1>1, <1>3, RecordIs DEF Fits
  <2>2. OldRecords[r] = Rec(old, cmd.size, r) /\ Key[r] = OldRecords[r][1]
    BY DEF OldRecords, Array, Key
  <2>3. 1 \in 1 .. cmd.size
    BY <1>1
  <2> QED BY <2>1, <2>2, <2>3
<1>4. Fits => Keys(Key, cmd.n)
  BY <1>3 DEF Keys, Byte
<1> QED BY <1>1, <1>2, <1>3, <1>4

\* A read fills the buffer with bytes, and with a record where there is one.
LEMMA ReadStep ==
    ASSUME RecordsInv, NEW r \in Nat, NEW b \in [1 .. cmd.size -> Byte]
    PROVE  /\ Records!Read(b, r) \in [1 .. cmd.size -> Byte]
           /\ r < cmd.n /\ Fits /\ Len(source) = Len(old) =>
                 Records!Read(b, r) = Array(source, cmd.size, cmd.n)[r]
<1> DEFINE z == cmd.size
           a == z * r
<1>1. z \in Nat \ {0} /\ a \in Nat /\ Len(source) \in Nat /\ \A k \in 1 .. Len(source) : source[k] \in Byte
  <2>1. \A x, y \in Nat : x * y \in Nat
    OBVIOUS
  <2> QED BY <2>1, SortTypes, ElementOfSeq
<1>2. Records!Read(b, r) = [k \in 1 .. z |-> IF a + k <= Len(source) THEN source[a + k] ELSE b[k]]
  BY DEF Records!Read
<1>3. ASSUME r < cmd.n, Fits, Len(source) = Len(old)
      PROVE  Records!Read(b, r) = Array(source, cmd.size, cmd.n)[r]
  <2>1. r \in 0 .. cmd.n - 1
    BY <1>3, SortTypes
  <2>2. cmd.n * z <= Len(source)
    BY <1>3 DEF Fits
  <2>3. Records!Read(b, r) = Rec(source, z, r)
    <3>1. cmd.n \in Nat /\ z \in Nat \ {0} /\ source \in Seq(Byte) /\ cmd.n * z \in Nat
      BY SortTypes
    <3>2. a + z <= Len(source)
      <4>1. z * (r + 1) = a + z /\ z * (r + 1) <= cmd.n * z
        BY <2>1, <3>1, RecordBounds
      <4> QED BY <1>1, <2>2, <3>1, <4>1
    <3>3. Rec(source, z, r) \in [1 .. z -> Byte] /\ \A k \in 1 .. z : Rec(source, z, r)[k] = source[a + k]
      BY <2>1, <2>2, <3>1, RecordIs, ZenonT(40)
    <3> HIDE DEF z, a
    <3>4. \A k \in 1 .. z : a + k <= Len(source)
      BY <1>1, <3>1, <3>2
    <3> QED BY <1>2, <3>3, <3>4
  <2> QED BY <2>1, <2>3 DEF Array
<1> HIDE DEF z, a
<1>4. b \in [1 .. z -> Byte]
  BY DEF z
<1>5. Records!Read(b, r) \in [1 .. z -> Byte]
  <2>1. ASSUME NEW k \in 1 .. z
        PROVE  (IF a + k <= Len(source) THEN source[a + k] ELSE b[k]) \in Byte
    <3>1. a + k <= Len(source) => a + k \in 1 .. Len(source)
      BY <1>1
    <3> QED BY <1>1, <1>4, <3>1
  <2> QED BY <1>2, <2>1
<1> QED BY <1>3, <1>5 DEF z

\* Starting a command.
LEMMA CallTypes ==
    ASSUME RecordsInv, NEW n \in 0 .. MaxBytes, NEW size \in RecordSizes, Records!Called(n, size)
    PROVE  /\ n \in Nat /\ size \in Nat \ {0} /\ n * size \in Nat /\ commands' \in 0 .. MaxCommands
           /\ MaxBytes \in Nat /\ Bytes \subseteq Byte /\ BufferSizes \subseteq Nat \ {0}
<1>1. /\ n \in Nat /\ size \in Nat \ {0} /\ BufferSizes \subseteq Nat \ {0} /\ MaxCommands \in Nat
      /\ MaxBytes \in Nat /\ Bytes \subseteq Byte
  BY RecordsAssumption DEF Records!RecordFileAssumption, Byte
<1>2. n * size \in Nat
  <2>1. \A x, y \in Nat : x * y \in Nat
    OBVIOUS
  <2> QED BY <1>1, <2>1
<1>3. commands' \in 0 .. MaxCommands
  BY <1>1 DEF Records!Called, RecordsInv, Records!TypeOK
<1> QED BY <1>1, <1>2, <1>3

LEMMA GenerateStep ==
    ASSUME RecordsInv, NEW n \in 0 .. MaxBytes, NEW size \in RecordSizes, Records!Generate(n, size)
    PROVE  RecordsInv'
<1>1. /\ Records!Called(n, size) /\ at' = "shell" /\ cmd' = [op |-> "generate", n |-> n, size |-> size, buf |-> 1]
      /\ source' \in [1 .. n * size -> Bytes] /\ old' = source'
      /\ UNCHANGED <<i, j, buffer1, buffer2, recNum, offset, destination>>
  BY DEF Records!Generate, Records!Called, Records!None, Records!sortVars, Records!copyVars
<1>2. /\ n \in Nat /\ size \in Nat \ {0} /\ n * size \in Nat /\ commands' \in 0 .. MaxCommands
      /\ Bytes \subseteq Byte
  BY <1>1, CallTypes
<1>3. source' \in Seq(Byte) /\ old' \in Seq(Byte)
  <2>1. source' \in [1 .. n * size -> Byte]
    BY <1>1, <1>2
  <2> QED BY <1>1, <1>2, <2>1
<1>4. Records!TypeOK'
  BY <1>1, <1>2, <1>3 DEF RecordsInv, Records!TypeOK, Byte
<1> QED BY <1>1, <1>4 DEF RecordsInv, SortPlaces, SortedInv, CopyInv, Sorting, Records!CommandDone

LEMMA StartSortStep ==
    ASSUME RecordsInv, NEW n \in 0 .. MaxBytes, NEW size \in RecordSizes, Records!StartSort(n, size)
    PROVE  RecordsInv'
<1>1. /\ Records!Called(n, size) /\ at' = "sorts" /\ cmd' = [op |-> "sort", n |-> n, size |-> size, buf |-> 1]
      /\ i' = 1 /\ j' = 0 /\ old' = source /\ source' = source
      /\ buffer1' = [k \in 1 .. size |-> 0] /\ buffer2' = buffer1'
      /\ UNCHANGED <<recNum, offset, destination>>
  BY DEF Records!StartSort, Records!None, Records!copyVars
<1>2. /\ n \in Nat /\ size \in Nat \ {0} /\ n * size \in Nat /\ commands' \in 0 .. MaxCommands
      /\ MaxBytes \in Nat
  BY <1>1, CallTypes
<1>3. buffer1' \in [1 .. size -> Byte] /\ buffer1' \in Seq(Byte)
  BY <1>1, <1>2 DEF Byte
<1>4. Records!TypeOK'
  BY <1>1, <1>2, <1>3 DEF RecordsInv, Records!TypeOK, Byte
<1>5. SortPlaces'
  BY <1>1, <1>2, <1>3 DEF SortPlaces, Sorting
<1>6. SortedInv'
  <2> DEFINE O == Array(source, size, n)
             key == [r \in 0 .. n - 1 |-> O[r][1]]
  <2>1. OldRecords' = O /\ Key' = key /\ Array(source, cmd.size, cmd.n)' = O
    BY <1>1 DEF OldRecords, Key
  <2>2. ASSUME n * size <= Len(source) PROVE SortedTo(O, O, key, n, 1)
    <3>1. ASSUME NEW r \in 0 .. n - 1 PROVE Placed(key, 1, r) = r
      <4>1. CASE r >= 1
        BY <4>1 DEF Placed
      <4>2. CASE r = 0
        <5>1. Rec(source, size, 0) \in [1 .. size -> Byte]
          BY <1>2, <2>2, <4>2, RecordIs, SortTypes
        <5>2. key[0] \in 0 .. 255
          BY <1>2, <4>2, <5>1 DEF Array, Byte
        <5>3. Keys(key, 1)
          <6>1. \A k \in 0 .. 1 - 1 : k = 0
            OBVIOUS
          <6> HIDE DEF key
          <6> QED BY <5>2, <6>1, ZenonT(40) DEF Keys
        <5>4. RankIn(key, 1, 0) \in 0 .. 1 - 1
          <6>1. 1 \in Nat /\ 0 \in 0 .. 1 - 1
            OBVIOUS
          <6> HIDE DEF key
          <6> QED BY <5>3, <6>1, Preceding
        <5> QED BY <4>2, <5>4 DEF Placed
      <4> QED BY <4>1, <4>2
    <3> QED BY <3>1 DEF SortedTo
  <2> HIDE DEF O, key
  <2> QED BY <1>1, <2>1, <2>2 DEF SortedInv, Sorting, Fits
<1> QED BY <1>1, <1>4, <1>5, <1>6 DEF RecordsInv, CopyInv, Records!CommandDone

LEMMA StartCopyStep ==
    ASSUME RecordsInv, NEW n \in 0 .. MaxBytes, NEW size \in RecordSizes, NEW buf \in BufferSizes,
           Records!StartCopy(n, size, buf)
    PROVE  RecordsInv'
<1>1. /\ Records!Called(n, size) /\ at' = "copies" /\ cmd' = [op |-> "copy", n |-> n, size |-> size, buf |-> buf]
      /\ recNum' = n * size /\ offset' = 0 /\ destination' = <<>>
      /\ old' = source /\ source' = source
      /\ UNCHANGED <<i, j, buffer1, buffer2>>
  BY DEF Records!StartCopy, Records!sortVars
<1>2. /\ n \in Nat /\ size \in Nat \ {0} /\ n * size \in Nat /\ commands' \in 0 .. MaxCommands
      /\ buf \in Nat \ {0}
  BY <1>1, CallTypes
<1>3. Records!TypeOK'
  BY <1>1, <1>2 DEF RecordsInv, Records!TypeOK
<1>4. CopyInv'
  <2>1. SubSeq(source, 1, 0) = <<>>
    BY SubSeqEmpty
  <2> QED BY <1>1, <1>2, <2>1, SortTypes DEF CopyInv
<1> QED BY <1>1, <1>3, <1>4 DEF RecordsInv, SortPlaces, SortedInv, Sorting, Records!CommandDone

-----------------------------------------------------------------------------
(* The record tool: the steps of a sort                                    *)

LEMMA BufferIsSeq == ASSUME NEW z \in Nat, NEW b \in [1 .. z -> Byte] PROVE b \in Seq(Byte)
  OBVIOUS

\* Sorted in the sense of the module.
LEMMA SortedIs ==
    ASSUME RecordsInv, Fits, NEW f, NEW m \in 0 .. cmd.n,
           SortedTo(Array(f, cmd.size, cmd.n), OldRecords, Key, cmd.n, m)
    PROVE  Records!IsSorted(f, old, m)
<1>1. /\ cmd.n \in Nat /\ Keys(Key, cmd.n) /\ Keys(Key, m) /\ m \in Nat
      /\ \A r \in 0 .. cmd.n - 1 : Key[r] = OldRecords[r][1]
  <2>1. cmd.n \in Nat /\ Keys(Key, cmd.n) /\ \A r \in 0 .. cmd.n - 1 : Key[r] = OldRecords[r][1]
    BY SortTypes
  <2>2. Keys(Key, m)
    BY <2>1, KeysOfFewer
  <2> QED BY <2>1, <2>2
<1>2. \A r \in 0 .. cmd.n - 1 : OldRecords[r] = Records!Record(old, r)
  BY DEF OldRecords, Array, Rec, Records!Record
<1>3. ASSUME NEW r \in 0 .. cmd.n - 1
      PROVE  Records!Record(f, Records!Rank(old, m, r)) = Records!Record(old, r)
  <2>1. Records!Rank(old, m, r) = Placed(Key, m, r)
    <3>1. CASE r >= m
      BY <3>1 DEF Records!Rank, Placed
    <3>2. CASE r < m
      <4> DEFINE goes(k) == \/ Records!Record(old, k)[1] < Records!Record(old, r)[1]
                            \/ Records!Record(old, k)[1] = Records!Record(old, r)[1] /\ k < r
      <4>1. ASSUME NEW k \in 0 .. m - 1 PROVE goes(k) <=> Precedes(Key, k, r)
        <5>1. k \in 0 .. cmd.n - 1
          BY <1>1
        <5>2. Key[k] = Records!Record(old, k)[1] /\ Key[r] = Records!Record(old, r)[1]
          BY <1>1, <1>2, <5>1
        <5> QED BY <5>2 DEF Precedes
      <4>2. {k \in 0 .. m - 1 : goes(k)} = {k \in 0 .. m - 1 : Precedes(Key, k, r)}
        BY <4>1
      <4>3. Records!Rank(old, m, r) = Cardinality({k \in 0 .. m - 1 : goes(k)})
        BY <3>2, <1>1 DEF Records!Rank, Records!Cardinality, Cardinality
      <4>4. Placed(Key, m, r) = Cardinality({k \in 0 .. m - 1 : Precedes(Key, k, r)})
        BY <1>1, <3>2 DEF Placed, RankIn
      <4> HIDE DEF goes
      <4> QED BY <4>2, <4>3, <4>4
    <3> QED BY <1>1, <3>1, <3>2
  <2>2. Placed(Key, m, r) \in 0 .. cmd.n - 1
    <3>1. r < m => RankIn(Key, m, r) \in 0 .. m - 1
      <4>1. r < m => r \in 0 .. m - 1
        OBVIOUS
      <4> QED BY <1>1, <4>1, Preceding
    <3> QED BY <1>1, <3>1 DEF Placed
  <2>3. Array(f, cmd.size, cmd.n)[Placed(Key, m, r)] = OldRecords[r]
    BY DEF SortedTo
  <2>4. Array(f, cmd.size, cmd.n)[Placed(Key, m, r)] = Records!Record(f, Placed(Key, m, r))
    BY <2>2 DEF Array, Rec, Records!Record
  <2> QED BY <1>2, <2>1, <2>3, <2>4
<1> QED BY <1>3 DEF Records!IsSorted

LEMMA TakeStep == RecordsInv /\ Records!TakeRecord => RecordsInv'
<1> SUFFICES ASSUME RecordsInv, Records!TakeRecord PROVE RecordsInv'
  OBVIOUS
<1>1. /\ at = "sorts" /\ i < cmd.n /\ at' = "shifts" /\ buffer1' = Records!Read(buffer1, i) /\ j' = i - 1
      /\ UNCHANGED <<source, cmd, i, buffer2, recNum, offset, destination, old, commands>>
  BY DEF Records!TakeRecord, Records!copyVars, Records!history
<1>2. /\ cmd.op = "sort" /\ cmd.n <= MaxBytes /\ i \in Nat \ {0} /\ cmd.n \in Nat /\ MaxBytes \in Nat
      /\ buffer1 \in [1 .. cmd.size -> Byte] /\ buffer2 \in [1 .. cmd.size -> Byte] /\ cmd.size \in Nat
  BY <1>1, SortTypes DEF RecordsInv, SortPlaces, Sorting
<1>3. buffer1' \in [1 .. cmd.size -> Byte] /\ buffer1' \in Seq(Byte)
  <2>1. buffer1' \in [1 .. cmd.size -> Byte]
    BY <1>1, <1>2, ReadStep
  <2> QED BY <1>2, <2>1, SMTT(20)
<1>4. Records!TypeOK'
  BY <1>1, <1>2, <1>3 DEF RecordsInv, Records!TypeOK, Byte
<1>5. SortPlaces'
  BY <1>1, <1>2, <1>3 DEF SortPlaces, Sorting
<1>6. SortedInv'
  <2>1. OldRecords' = OldRecords /\ Key' = Key /\ Fits' = Fits
    BY <1>1 DEF OldRecords, Key, Fits
  <2>2. CASE Fits
    <3> DEFINE F == Array(source, cmd.size, cmd.n)
    <3>1. /\ Len(source) = Len(old) /\ SortedTo(F, OldRecords, Key, cmd.n, i)
          /\ SubSeq(source, cmd.n * cmd.size + 1, Len(old)) = SubSeq(old, cmd.n * cmd.size + 1, Len(old))
      BY <1>1, <2>2 DEF RecordsInv, SortedInv, Sorting
    <3>2. i \in 0 .. cmd.n - 1 /\ j' + 1 = i
      BY <1>1, <1>2
    <3>3. ShiftedTo(F, OldRecords, Key, cmd.n, i, i) /\ F[i] = OldRecords[i]
      BY <1>2, <2>2, <3>1, <3>2, SortTypes, TakenFromItsPlace, SMTT(20)
    <3>4. buffer1' = F[i]
      BY <1>1, <1>2, <2>2, <3>1, ReadStep
    <3>5. F' = F
      BY <1>1
    <3> HIDE DEF F
    <3>6. /\ buffer1' = OldRecords'[i'] /\ ShiftedTo(F', OldRecords', Key', cmd'.n, i', j' + 1)
          /\ Len(source') = Len(old')
          /\ SubSeq(source', cmd'.n * cmd'.size + 1, Len(old')) = SubSeq(old', cmd'.n * cmd'.size + 1, Len(old'))
      BY <1>1, <2>1, <3>1, <3>2, <3>3, <3>4, <3>5
    <3> QED BY <1>1, <3>6 DEF SortedInv, F
  <2>3. CASE ~Fits
    BY <2>1, <2>3 DEF SortedInv
  <2> QED BY <2>2, <2>3
<1>7. CopyInv' /\ Records!CommandDone'
  BY <1>1 DEF CopyInv, Records!CommandDone
<1> QED BY <1>4, <1>5, <1>6, <1>7 DEF RecordsInv

\* A write within the file, as the sort sees it.
LEMMA WriteStep ==
    ASSUME RecordsInv, Fits, Len(source) = Len(old),
           SubSeq(source, cmd.n * cmd.size + 1, Len(old)) = SubSeq(old, cmd.n * cmd.size + 1, Len(old)),
           NEW p \in 0 .. cmd.n - 1, NEW b \in [1 .. cmd.size -> Byte]
    PROVE  LET f == Records!Written(b, p) IN
           /\ Len(f) = Len(old)
           /\ SubSeq(f, cmd.n * cmd.size + 1, Len(old)) = SubSeq(old, cmd.n * cmd.size + 1, Len(old))
           /\ Array(f, cmd.size, cmd.n) = [Array(source, cmd.size, cmd.n) EXCEPT ![p] = b]
<1>1. cmd.n * cmd.size <= Len(source)
  BY DEF Fits
<1>2. cmd.n \in Nat /\ cmd.size \in Nat \ {0} /\ source \in Seq(Byte)
  BY SortTypes
<1>3. Records!Written(b, p) = Put(source, cmd.size, b, p)
  BY WrittenIs
<1> DEFINE g == Put(source, cmd.size, b, p)
<1>4. /\ Len(g) = Len(source)
      /\ Array(g, cmd.size, cmd.n) = [Array(source, cmd.size, cmd.n) EXCEPT ![p] = b]
      /\ SubSeq(g, cmd.n * cmd.size + 1, Len(source)) = SubSeq(source, cmd.n * cmd.size + 1, Len(source))
  <2> DEFINE z == cmd.size
             n == cmd.n
             f == source
  <2>1. n * z <= Len(f) /\ n \in Nat /\ z \in Nat \ {0} /\ f \in Seq(Byte) /\ p \in 0 .. n - 1 /\ b \in [1 .. z -> Byte]
    BY <1>1, <1>2
  <2> HIDE DEF z, n, f
  <2>2. /\ Len(Put(f, z, b, p)) = Len(f)
        /\ Array(Put(f, z, b, p), z, n) = [Array(f, z, n) EXCEPT ![p] = b]
        /\ SubSeq(Put(f, z, b, p), n * z + 1, Len(f)) = SubSeq(f, n * z + 1, Len(f))
    BY <2>1, PutChanges
  <2> QED BY <2>2 DEF z, n, f
<1> HIDE DEF g
<1>5. Records!Written(b, p) = g
  BY <1>3 DEF g
<1> QED BY <1>4, <1>5

LEMMA ShiftStep == RecordsInv /\ Records!Shift => RecordsInv'
<1> SUFFICES ASSUME RecordsInv, Records!Shift PROVE RecordsInv'
  OBVIOUS
<1> DEFINE b == Records!Read(buffer2, j)
           smaller == Records!Smaller(buffer1, b)
<1>1. /\ at = "shifts" /\ buffer2' = b /\ j' = j - 1
      /\ source' = (IF smaller THEN Records!Written(b, j + 1) ELSE source)
      /\ at' = (IF smaller /\ j' >= 0 THEN "shifts" ELSE "places")
      /\ UNCHANGED <<cmd, i, buffer1, recNum, offset, destination, old, commands>>
  BY DEF Records!Shift, Records!copyVars, Records!history
<1>2. /\ cmd.op = "sort" /\ cmd.n <= MaxBytes /\ i \in Nat \ {0} /\ cmd.n \in Nat /\ MaxBytes \in Nat
      /\ buffer1 \in [1 .. cmd.size -> Byte] /\ buffer2 \in [1 .. cmd.size -> Byte] /\ cmd.size \in Nat \ {0}
      /\ i < cmd.n /\ j \in 0 .. i - 1 /\ source \in Seq(Byte)
  BY <1>1, SortTypes DEF RecordsInv, SortPlaces, Sorting
<1>3. b \in [1 .. cmd.size -> Byte] /\ b \in Seq(Byte)
  <2>1. b \in [1 .. cmd.size -> Byte]
    BY <1>2, ReadStep
  <2> HIDE DEF b
  <2> QED BY <1>2, <2>1, BufferIsSeq
<1>4. smaller <=> buffer1[1] < b[1]
  BY DEF Records!Smaller
<1>5. Records!Smaller(buffer1, buffer2)' = smaller
  BY <1>1 DEF Records!Smaller
<1>6. Records!Gap' = IF smaller THEN j' + 1 ELSE j' + 2
  BY <1>1 DEF Records!Smaller, Records!Gap
<1>7. source' \in Seq(Byte)
  <2>1. Put(source, cmd.size, b, j + 1) \in Seq(Byte)
    <3>1. j + 1 \in Nat
      BY <1>2
    <3> HIDE DEF b
    <3> QED BY <1>2, <1>3, <3>1, PutIsFile
  <2> QED BY <1>1, <1>2, <2>1, WrittenIs
<1> HIDE DEF b, smaller
<1>8. Records!TypeOK'
  BY <1>1, <1>2, <1>3, <1>7 DEF RecordsInv, Records!TypeOK, Byte
<1>9. SortPlaces'
  BY <1>1, <1>2, <1>3, <1>5 DEF SortPlaces, Sorting
<1>10. SortedInv'
  <2>1. OldRecords' = OldRecords /\ Key' = Key /\ Fits' = Fits
    BY <1>1 DEF OldRecords, Key, Fits
  <2>2. CASE Fits
    <3> DEFINE F == Array(source, cmd.size, cmd.n)
               n == cmd.n
    <3>1. /\ Len(source) = Len(old) /\ ShiftedTo(F, OldRecords, Key, n, i, j + 1)
          /\ SubSeq(source, n * cmd.size + 1, Len(old)) = SubSeq(old, n * cmd.size + 1, Len(old))
          /\ buffer1 = OldRecords[i]
      BY <1>1, <2>2 DEF RecordsInv, SortedInv, Sorting
    <3>2. /\ i \in 0 .. n - 1 /\ j + 1 \in 1 .. i /\ (j + 1) - 1 = j /\ j + 1 \in 0 .. n - 1 /\ n \in Nat
          /\ j < n /\ j \in Nat /\ DOMAIN F = 0 .. n - 1
      BY <1>2 DEF Array
    <3>3. /\ Keys(Key, n) /\ \A r \in 0 .. n - 1 : Key[r] = OldRecords[r][1]
      BY <2>2, SortTypes
    <3>4. b = F[j]
      BY <1>2, <2>2, <3>1, <3>2, ReadStep DEF b
    <3>5. smaller <=> Key[i] < F[j][1]
      BY <1>4, <3>1, <3>2, <3>3, <3>4
    <3>6. CASE smaller
      <4>1. source' = Records!Written(b, j + 1)
        BY <1>1, <3>6
      <4>2. /\ Len(source') = Len(old)
            /\ SubSeq(source', n * cmd.size + 1, Len(old)) = SubSeq(old, n * cmd.size + 1, Len(old))
            /\ Array(source', cmd.size, n) = [F EXCEPT ![j + 1] = F[j]]
        BY <1>3, <2>2, <3>1, <3>2, <3>4, <4>1, WriteStep
      <4>3. ShiftedTo([F EXCEPT ![j + 1] = F[j]], OldRecords, Key, n, i, j)
        <5> DEFINE g == j + 1
        <5>1. g - 1 = j /\ g \in 1 .. i
          BY <3>2
        <5> HIDE DEF g, F, n
        <5>2. ShiftedTo([F EXCEPT ![g] = F[g - 1]], OldRecords, Key, n, i, g - 1)
          BY <3>1, <3>2, <3>3, <3>5, <3>6, <5>1, ShiftOne DEF g
        <5> QED BY <5>1, <5>2 DEF g
      <4>4. LowBefore(Key, i, 0)
        <5>1. Keys(Key, i) /\ i \in Nat
          BY <1>2, <3>2, <3>3, KeysOfFewer
        <5>2. \A r \in 0 .. i - 1 : RankIn(Key, i, r) \in 0 .. i - 1
          BY <5>1, Preceding
        <5> QED BY <5>2 DEF LowBefore
      <4>5. at' = "shifts" => j' + 1 = j
        BY <1>1, <1>2
      <4>6. at' = "places" => j = 0 /\ Records!Gap' = 0
        BY <1>1, <1>2, <1>6, <3>6
      <4>7. /\ ShiftedTo(Array(source', cmd'.size, cmd'.n), OldRecords', Key', cmd'.n, i', j)
            /\ buffer1' = OldRecords'[i'] /\ Len(source') = Len(old') /\ LowBefore(Key', i', 0)
            /\ SubSeq(source', cmd'.n * cmd'.size + 1, Len(old')) = SubSeq(old', cmd'.n * cmd'.size + 1, Len(old'))
        <5> HIDE DEF F
        <5> QED BY <1>1, <2>1, <3>1, <4>2, <4>3, <4>4
      <4>8. at' \in {"shifts", "places"}
        BY <1>1
      <4> QED BY <4>5, <4>6, <4>7, <4>8 DEF SortedInv
    <3>7. CASE ~smaller
      <4>1. LowBefore(Key, i, j + 1)
        <5> DEFINE g == j + 1
        <5>1. g - 1 = j /\ g \in 1 .. i
          BY <3>2
        <5> HIDE DEF g, F, n
        <5>2. LowBefore(Key, i, g)
          BY <3>1, <3>2, <3>3, <3>5, <3>7, <5>1, StopsBelow DEF g
        <5> QED BY <5>2 DEF g
      <4>2. at' = "places" /\ Records!Gap' = j + 1 /\ source' = source
        BY <1>1, <1>2, <1>6, <3>7
      <4>3. /\ ShiftedTo(Array(source', cmd'.size, cmd'.n), OldRecords', Key', cmd'.n, i', Records!Gap')
            /\ buffer1' = OldRecords'[i'] /\ Len(source') = Len(old') /\ LowBefore(Key', i', Records!Gap')
            /\ SubSeq(source', cmd'.n * cmd'.size + 1, Len(old')) = SubSeq(old', cmd'.n * cmd'.size + 1, Len(old'))
        BY <1>1, <2>1, <3>1, <4>1, <4>2
      <4> QED BY <4>2, <4>3 DEF SortedInv
    <3> QED BY <3>6, <3>7
  <2>3. CASE ~Fits
    BY <2>1, <2>3 DEF SortedInv
  <2> QED BY <2>2, <2>3
<1>11. CopyInv' /\ Records!CommandDone'
  BY <1>1 DEF CopyInv, Records!CommandDone
<1> QED BY <1>8, <1>9, <1>10, <1>11 DEF RecordsInv

\* The gap is among the records looked at so far.
LEMMA GapIs ==
    ASSUME RecordsInv, at \in {"shifts", "places"}
    PROVE  /\ i \in Nat \ {0} /\ i < cmd.n /\ cmd.n \in Nat /\ i \in 0 .. cmd.n - 1
           /\ buffer1 \in [1 .. cmd.size -> Byte] /\ cmd.op = "sort"
           /\ at = "shifts" => j + 1 \in 0 .. i
           /\ at = "places" => Records!Gap \in 0 .. i
<1>1. /\ i \in Nat \ {0} /\ i < cmd.n /\ cmd.n \in Nat /\ buffer1 \in [1 .. cmd.size -> Byte] /\ cmd.op = "sort"
      /\ at = "shifts" => j \in 0 .. i - 1
      /\ at = "places" => j \in -1 .. i - 2 /\ (Records!Smaller(buffer1, buffer2) => j = -1)
  BY SortTypes DEF RecordsInv, SortPlaces, Sorting
<1>2. at = "places" => Records!Gap \in 0 .. i
  <2>1. CASE Records!Smaller(buffer1, buffer2)
    BY <1>1, <2>1 DEF Records!Gap
  <2>2. CASE ~Records!Smaller(buffer1, buffer2)
    BY <1>1, <2>2 DEF Records!Gap
  <2> QED BY <2>1, <2>2
<1> QED BY <1>1, <1>2

\* The file with the record in hand in the gap.
LEMMA GapFilled ==
    ASSUME RecordsInv, at \in {"shifts", "places"}, Fits,
           NEW gap, gap = IF at = "shifts" THEN j + 1 ELSE Records!Gap
    PROVE  LET f == Records!Written(buffer1, gap) IN
           /\ Len(f) = Len(old)
           /\ SubSeq(f, cmd.n * cmd.size + 1, Len(old)) = SubSeq(old, cmd.n * cmd.size + 1, Len(old))
           /\ at = "places" => SortedTo(Array(f, cmd.size, cmd.n), OldRecords, Key, cmd.n, i + 1)
           /\ Alike(Array(f, cmd.size, cmd.n), OldRecords, cmd.n)
<1> DEFINE n == cmd.n
           F == Array(source, cmd.size, cmd.n)
           f == Records!Written(buffer1, gap)
<1>1. i \in 0 .. n - 1 /\ n \in Nat /\ gap \in 0 .. i /\ gap \in 0 .. n - 1 /\ Keys(Key, n)
  BY GapIs, SortTypes
<1>2. /\ Len(source) = Len(old)
      /\ SubSeq(source, n * cmd.size + 1, Len(old)) = SubSeq(old, n * cmd.size + 1, Len(old))
      /\ buffer1 = OldRecords[i] /\ ShiftedTo(F, OldRecords, Key, n, i, gap)
      /\ at = "places" => LowBefore(Key, i, gap)
  BY DEF RecordsInv, SortedInv, Sorting
<1>3. /\ Len(f) = Len(old)
      /\ SubSeq(f, n * cmd.size + 1, Len(old)) = SubSeq(old, n * cmd.size + 1, Len(old))
      /\ Array(f, cmd.size, n) = [F EXCEPT ![gap] = OldRecords[i]]
  <2>1. buffer1 \in [1 .. cmd.size -> Byte]
    BY GapIs
  <2> QED BY <1>1, <1>2, <2>1, WriteStep
<1>4. DOMAIN F = 0 .. n - 1
  BY DEF Array
<1> DEFINE G == Array(f, cmd.size, n)
           O == OldRecords
<1>8. ShiftedTo(F, O, Key, n, i, gap)
  BY <1>2
<1> HIDE DEF n, F, f, G, O
<1>5. G = [F EXCEPT ![gap] = O[i]]
  BY <1>3 DEF G, O
<1>6. at = "places" => SortedTo(G, O, Key, n, i + 1)
  BY <1>1, <1>2, <1>4, <1>5, <1>8, PlacedInOrder
<1>7. Alike(G, O, n)
  <2>1. Keys(Key, n) /\ n \in Nat /\ i \in 0 .. n - 1 /\ gap \in 0 .. i
    BY <1>1
  <2>2. Alike([F EXCEPT ![gap] = O[i]], O, n)
    BY <2>1, <1>4, <1>8, SameRecords
  <2> QED BY <2>2, <1>5
<1> QED BY <1>3, <1>6, <1>7 DEF n, f, G, O

LEMMA PlaceStep == RecordsInv /\ Records!Place => RecordsInv'
<1> SUFFICES ASSUME RecordsInv, Records!Place PROVE RecordsInv'
  OBVIOUS
<1>1. /\ at = "places" /\ at' = "sorts" /\ source' = Records!Written(buffer1, Records!Gap) /\ i' = i + 1
      /\ UNCHANGED <<cmd, j, buffer1, buffer2, recNum, offset, destination, old, commands>>
  BY DEF Records!Place, Records!copyVars, Records!history
<1>2. /\ i \in Nat \ {0} /\ i < cmd.n /\ cmd.n \in Nat /\ buffer1 \in [1 .. cmd.size -> Byte]
      /\ cmd.op = "sort" /\ Records!Gap \in 0 .. i
      /\ cmd.size \in Nat \ {0} /\ source \in Seq(Byte)
  BY <1>1, GapIs, SortTypes
<1>3. source' \in Seq(Byte)
  <2> DEFINE gap == Records!Gap
  <2>1. gap \in Nat
    BY <1>2
  <2> HIDE DEF gap
  <2>2. Put(source, cmd.size, buffer1, gap) \in Seq(Byte)
    BY <1>2, <2>1, PutIsFile
  <2> QED BY <1>1, <2>2, WrittenIs DEF gap
<1>4. Records!TypeOK'
  BY <1>1, <1>2, <1>3 DEF RecordsInv, Records!TypeOK, Byte
<1>5. SortPlaces'
  BY <1>1, <1>2 DEF RecordsInv, SortPlaces, Sorting
<1>6. SortedInv'
  <2>1. OldRecords' = OldRecords /\ Key' = Key /\ Fits' = Fits
    BY <1>1 DEF OldRecords, Key, Fits
  <2>2. CASE Fits
    <3> DEFINE f == Records!Written(buffer1, Records!Gap)
    <3>1. /\ Len(f) = Len(old)
          /\ SubSeq(f, cmd.n * cmd.size + 1, Len(old)) = SubSeq(old, cmd.n * cmd.size + 1, Len(old))
          /\ SortedTo(Array(f, cmd.size, cmd.n), OldRecords, Key, cmd.n, i + 1)
      BY <1>1, <2>2, GapFilled
    <3>2. source' = f
      BY <1>1
    <3> HIDE DEF f
    <3>3. /\ Len(source') = Len(old') /\ SortedTo(Array(source', cmd'.size, cmd'.n), OldRecords', Key', cmd'.n, i')
          /\ SubSeq(source', cmd'.n * cmd'.size + 1, Len(old')) = SubSeq(old', cmd'.n * cmd'.size + 1, Len(old'))
      BY <1>1, <2>1, <3>1, <3>2
    <3> QED BY <1>1, <3>3 DEF SortedInv
  <2>3. CASE ~Fits
    BY <2>1, <2>3 DEF SortedInv
  <2> QED BY <2>2, <2>3
<1>7. CopyInv' /\ Records!CommandDone'
  BY <1>1 DEF CopyInv, Records!CommandDone
<1> QED BY <1>4, <1>5, <1>6, <1>7 DEF RecordsInv

LEMMA EndSortStep == RecordsInv /\ Records!EndSort => RecordsInv'
<1> SUFFICES ASSUME RecordsInv, Records!EndSort PROVE RecordsInv'
  OBVIOUS
<1>1. /\ at = "sorts" /\ i >= cmd.n /\ at' = "shell" /\ i' = 0 /\ j' = 0 /\ buffer1' = <<>> /\ buffer2' = <<>>
      /\ UNCHANGED <<source, cmd, recNum, offset, destination, old, commands>>
  BY DEF Records!EndSort, Records!copyVars, Records!history
<1>2. Records!TypeOK'
  BY <1>1, SortTypes DEF RecordsInv, Records!TypeOK
<1>3. Records!CommandDone'
  <2>1. cmd.op = "sort" /\ i \in Nat \ {0} /\ (i = 1 \/ i <= cmd.n) /\ cmd.n \in Nat
    BY <1>1, SortTypes DEF RecordsInv, SortPlaces, Sorting
  <2>2. ASSUME Fits
        PROVE  /\ Records!IsSorted(source, old, cmd.n) /\ Len(source) = Len(old)
               /\ SubSeq(source, cmd.n * cmd.size + 1, Len(old)) = SubSeq(old, cmd.n * cmd.size + 1, Len(old))
    <3>1. /\ Len(source) = Len(old) /\ SortedTo(Array(source, cmd.size, cmd.n), OldRecords, Key, cmd.n, i)
          /\ SubSeq(source, cmd.n * cmd.size + 1, Len(old)) = SubSeq(old, cmd.n * cmd.size + 1, Len(old))
      BY <1>1, <2>2 DEF RecordsInv, SortedInv, Sorting
    <3>2. CASE cmd.n = 0
      <4>1. 0 .. cmd.n - 1 = {}
        BY <3>2
      <4>2. Records!IsSorted(source, old, cmd.n)
        BY <4>1, Zenon DEF Records!IsSorted
      <4> QED BY <3>1, <4>2
    <3>3. CASE cmd.n # 0
      <4>1. i = cmd.n
        BY <1>1, <2>1, <3>3
      <4>2. cmd.n \in 0 .. cmd.n
        BY <2>1
      <4>3. SortedTo(Array(source, cmd.size, cmd.n), OldRecords, Key, cmd.n, cmd.n)
        BY <3>1, <4>1
      <4> QED BY <2>2, <3>1, <4>2, <4>3, SortedIs
    <3> QED BY <3>2, <3>3
  <2>3. Records!IsSorted(source, old, cmd.n)' = Records!IsSorted(source, old, cmd.n)
    BY <1>1 DEF Records!IsSorted, Records!Record, Records!Rank
  <2> QED BY <1>1, <2>1, <2>2, <2>3 DEF Records!CommandDone, Fits
<1> QED BY <1>1, <1>2, <1>3 DEF RecordsInv, SortPlaces, SortedInv, CopyInv, Sorting

-----------------------------------------------------------------------------
(* The record tool: copying, and the theorem                               *)

LEMMA MinOfTwo == \A a, b \in Int : Records!Min({a, b}) = IF a <= b THEN a ELSE b
<1> SUFFICES ASSUME NEW a \in Int, NEW b \in Int PROVE Records!Min({a, b}) = IF a <= b THEN a ELSE b
  OBVIOUS
<1> DEFINE S == {a, b}
<1>1. \E m \in S : \A o \in S : m <= o
  OBVIOUS
<1>2. Records!Min(S) \in S /\ \A o \in S : Records!Min(S) <= o
  BY <1>1 DEF Records!Min
<1> QED BY <1>2

LEMMA CopyBufferStep == RecordsInv /\ Records!CopyBuffer => RecordsInv'
<1> SUFFICES ASSUME RecordsInv, Records!CopyBuffer PROVE RecordsInv'
  OBVIOUS
<1> DEFINE got == Records!Min({cmd.buf, Len(source) - offset})
           put == IF recNum - got > 0 THEN got ELSE recNum
           l == cmd.n * cmd.size
<1>1. /\ at = "copies" /\ at' = "copies" /\ got > 0 /\ recNum > 0
      /\ destination' = destination \o SubSeq(source, offset + 1, offset + put)
      /\ recNum' = recNum - got /\ offset' = offset + got
      /\ UNCHANGED <<source, cmd, i, j, buffer1, buffer2, old, commands>>
  BY DEF Records!CopyBuffer, Records!sortVars, Records!history
<1>2. /\ cmd.op = "copy" /\ source = old /\ offset <= Len(source) /\ recNum = l - offset
      /\ destination = SubSeq(old, 1, IF recNum >= 0 THEN offset ELSE l)
  BY <1>1 DEF RecordsInv, CopyInv
<1>3. /\ offset \in Nat /\ recNum \in Int /\ cmd.buf \in Nat \ {0} /\ source \in Seq(Byte)
      /\ Len(source) \in Nat /\ l \in Nat
  BY SortTypes DEF RecordsInv, Records!TypeOK
<1> HIDE DEF l
<1>4. got \in Nat /\ got <= Len(source) - offset
  <2> DEFINE a == cmd.buf
             d == Len(source) - offset
  <2>1. a \in Int /\ d \in Int
    BY <1>3
  <2>2. got = IF a <= d THEN a ELSE d
    <3> HIDE DEF a, d
    <3>1. Records!Min({a, d}) = IF a <= d THEN a ELSE d
      BY <2>1, MinOfTwo
    <3> QED BY <3>1 DEF a, d
  <2> HIDE DEF got
  <2> QED BY <1>1, <1>3, <2>2
<1> HIDE DEF got
<1>5. put \in Nat /\ put <= got /\ offset + put = (IF recNum - got >= 0 THEN offset + got ELSE l)
  BY <1>1, <1>2, <1>3, <1>4
<1> HIDE DEF put
<1>6. destination' = SubSeq(source, 1, offset + put)
  <2>1. destination = SubSeq(source, 1, offset)
    BY <1>1, <1>2, <1>3
  <2>2. /\ 1 \in 1 .. Len(source) + 1 /\ offset \in 1 - 1 .. Len(source)
        /\ offset + put \in offset .. Len(source)
    BY <1>2, <1>3, <1>4, <1>5
  <2>3. SubSeq(source, 1, offset) \o SubSeq(source, offset + 1, offset + put) = SubSeq(source, 1, offset + put)
    BY <1>3, <2>2, ConcatAdjacentSubSeq
  <2> QED BY <1>1, <2>1, <2>3
<1>7. destination' \in Seq(Byte)
  <2>1. \A k \in 1 .. offset + put : source[k] \in Byte
    <3>1. \A k \in 1 .. Len(source) : source[k] \in Byte
      BY <1>3, ElementOfSeq
    <3> QED BY <1>2, <1>3, <1>4, <1>5, <3>1
  <2>2. SubSeq(source, 1, offset + put) \in Seq(Byte)
    BY <1>3, <1>5, <2>1, SubSeqProperties
  <2> QED BY <1>6, <2>2
<1>8. Records!TypeOK'
  BY <1>1, <1>3, <1>4, <1>7 DEF RecordsInv, Records!TypeOK, Byte
<1>9. CopyInv'
  <2>1. l' = l
    BY <1>1 DEF l
  <2>2. /\ offset' <= Len(source) /\ recNum' = l - offset'
        /\ destination' = SubSeq(old', 1, IF recNum' >= 0 THEN offset' ELSE l)
    BY <1>1, <1>2, <1>3, <1>4, <1>5, <1>6, SMTT(20)
  <2> QED BY <1>1, <1>2, <2>1, <2>2 DEF CopyInv, l
<1> QED BY <1>1, <1>8, <1>9 DEF RecordsInv, SortPlaces, SortedInv, Sorting, Records!CommandDone

LEMMA EndCopyStep == RecordsInv /\ Records!EndCopy => RecordsInv'
<1> SUFFICES ASSUME RecordsInv, Records!EndCopy PROVE RecordsInv'
  OBVIOUS
<1> DEFINE l == cmd.n * cmd.size
<1>1. /\ at = "copies" /\ (offset = Len(source) \/ recNum <= 0) /\ at' = "shell"
      /\ recNum' = 0 /\ offset' = 0
      /\ UNCHANGED <<source, destination, cmd, i, j, buffer1, buffer2, old, commands>>
  BY DEF Records!EndCopy, Records!sortVars, Records!history
<1>2. /\ cmd.op = "copy" /\ source = old /\ offset <= Len(source) /\ recNum = l - offset
      /\ destination = SubSeq(old, 1, IF recNum >= 0 THEN offset ELSE l)
  BY <1>1 DEF RecordsInv, CopyInv
<1>3. offset \in Nat /\ recNum \in Int /\ Len(source) \in Nat /\ l \in Nat
  BY SortTypes DEF RecordsInv, Records!TypeOK
<1> HIDE DEF l
<1>4. Records!Min({l, Len(old)}) = IF recNum >= 0 THEN offset ELSE l
  <2>1. Records!Min({l, Len(old)}) = IF l <= Len(old) THEN l ELSE Len(old)
    BY <1>2, <1>3, MinOfTwo
  <2> QED BY <1>1, <1>2, <1>3, <2>1
<1>5. Records!CommandDone'
  BY <1>1, <1>2, <1>4 DEF Records!CommandDone, l
<1>6. Records!TypeOK'
  BY <1>1 DEF RecordsInv, Records!TypeOK
<1> QED BY <1>1, <1>5, <1>6 DEF RecordsInv, SortPlaces, SortedInv, CopyInv, Sorting

LEMMA RecordsStep == RecordsInv /\ [Records!Next]_(Records!vars) => RecordsInv'
<1> SUFFICES ASSUME RecordsInv, [Records!Next]_(Records!vars) PROVE RecordsInv'
  OBVIOUS
<1>1. ASSUME NEW n \in 0 .. MaxBytes, NEW size \in RecordSizes,
             \/ Records!Generate(n, size) \/ Records!StartSort(n, size)
             \/ \E buf \in BufferSizes : Records!StartCopy(n, size, buf)
      PROVE  RecordsInv'
  <2>1. CASE Records!Generate(n, size) \/ Records!StartSort(n, size)
    BY <2>1, GenerateStep, StartSortStep
  <2>2. CASE \E buf \in BufferSizes : Records!StartCopy(n, size, buf)
    BY <2>2, StartCopyStep
  <2> QED BY <1>1, <2>1, <2>2
<1>2. CASE Records!SortStep
  BY <1>2, TakeStep, ShiftStep, PlaceStep, EndSortStep DEF Records!SortStep
<1>3. CASE Records!CopyStep
  BY <1>3, CopyBufferStep, EndCopyStep DEF Records!CopyStep
<1>4. CASE UNCHANGED Records!vars
  <2>1. UNCHANGED <<source, cmd, at, i, j, buffer1, buffer2, recNum, offset, destination, old, commands>>
    BY <1>4 DEF Records!vars, Records!sortVars, Records!copyVars, Records!history
  <2>2. OldRecords' = OldRecords /\ Key' = Key /\ Fits' = Fits /\ Records!Gap' = Records!Gap
    BY <2>1 DEF OldRecords, Key, Fits, Records!Gap, Records!Smaller
  <2>3. Records!TypeOK' /\ SortPlaces' /\ CopyInv'
    BY <2>1 DEF RecordsInv, Records!TypeOK, SortPlaces, Sorting, Records!Smaller, CopyInv
  <2>4. SortedInv'
    BY <2>1, <2>2 DEF RecordsInv, SortedInv, Sorting
  <2>5. Records!CommandDone'
    BY <2>1 DEF RecordsInv, Records!CommandDone, Records!IsSorted, Records!Rank, Records!Record
  <2> QED BY <2>3, <2>4, <2>5 DEF RecordsInv
<1> QED BY <1>1, <1>2, <1>3, <1>4 DEF Records!Next

\* What the invariant says of a sort that is interrupted.
LEMMA RecordIsInHand == RecordsInv => Records!OneRecordInHand
<1> DEFINE gap == IF at = "shifts" THEN j + 1 ELSE Records!Gap
           f == Records!Written(buffer1, gap)
           recs(g, r) == Records!Cardinality({k \in 0 .. cmd.n - 1 : Records!Record(g, k) = r})
<1> SUFFICES ASSUME RecordsInv, at \in {"shifts", "places"}, Fits
             PROVE  /\ gap \in 0 .. i
                    /\ \A k \in 0 .. cmd.n - 1 : recs(f, Records!Record(old, k)) = recs(old, Records!Record(old, k))
                    /\ at = "places" => Records!IsSorted(f, old, i + 1)
  BY DEF Records!OneRecordInHand, Fits
<1>1. /\ i \in 0 .. cmd.n - 1 /\ cmd.n \in Nat
      /\ gap \in 0 .. i
  BY GapIs
<1> HIDE DEF gap
<1>2. /\ at = "places" => SortedTo(Array(f, cmd.size, cmd.n), OldRecords, Key, cmd.n, i + 1)
      /\ Alike(Array(f, cmd.size, cmd.n), OldRecords, cmd.n)
  <2>1. gap = IF at = "shifts" THEN j + 1 ELSE Records!Gap
    BY DEF gap
  <2> QED BY <2>1, GapFilled
<1> HIDE DEF f
<1>3. ASSUME NEW g, NEW x
      PROVE  recs(g, x) = Occurs(Array(g, cmd.size, cmd.n), cmd.n, x)
  <2>1. \A k \in 0 .. cmd.n - 1 : Array(g, cmd.size, cmd.n)[k] = Records!Record(g, k)
    BY DEF Array, Rec, Records!Record
  <2>2. {k \in 0 .. cmd.n - 1 : Records!Record(g, k) = x}
           = {k \in 0 .. cmd.n - 1 : Array(g, cmd.size, cmd.n)[k] = x}
    BY <2>1
  <2> QED BY <2>2 DEF Occurs, Records!Cardinality, Cardinality
<1>4. \A x : recs(f, x) = recs(old, x)
  <2>1. ASSUME NEW x PROVE recs(f, x) = recs(old, x)
    <3>1. recs(f, x) = Occurs(Array(f, cmd.size, cmd.n), cmd.n, x)
      BY <1>3
    <3>2. recs(old, x) = Occurs(OldRecords, cmd.n, x)
      BY <1>3 DEF OldRecords
    <3> HIDE DEF recs
    <3> QED BY <1>2, <3>1, <3>2 DEF Alike
  <2> QED BY <2>1
<1> HIDE DEF recs
<1>5. at = "places" => Records!IsSorted(f, old, i + 1)
  <2>1. i + 1 \in 0 .. cmd.n
    BY <1>1
  <2> QED BY <1>2, <2>1, SortedIs
<1> QED BY <1>1, <1>4, <1>5

\* A sort keeps every record: between any two of its calls, the file with the record
\* it has in hand put into the gap has as many records of each kind as before, and
\* when it ends, every record is where a stable sort puts it, whatever follows the
\* records is as it was, and a copy is as long as asked for or as the file
\* (zad1.c:139-173, :212-251).
THEOREM RecordsAreKept == Records!Spec => []RecordsKept
<1>1. RecordsInv => RecordsKept
  BY RecordIsInHand DEF RecordsInv, RecordsKept, Records!RecordsKept
<1> QED BY RecordsInit, RecordsStep, <1>1, PTL DEF Records!Spec
=================================================================================
