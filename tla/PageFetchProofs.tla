-------------------------- MODULE PageFetchProofs ---------------------------
(***************************************************************************)
(* Proofs about the pages the service fetches: the overlap of two texts,   *)
(* normalizing, merging and truncating the texts of a page, its links, and *)
(* one call of url_fetch.  With them the types of the whole service are    *)
(* proved.                                                                 *)
(***************************************************************************)
EXTENDS ServiceProofs, SequenceTheorems, FiniteSetTheorems, WellFoundedInduction

(***************************************************************************)
(* Induction, for functions that are defined by recursion over the numbers *)
(* up to n.                                                                *)
(***************************************************************************)

\* A set of numbers has a least one.
LEMMA LeastNumber ==
  ASSUME NEW T \in SUBSET Nat, T # {}
  PROVE  \E x \in T : \A y \in T : x <= y
<1> DEFINE R == {p \in Nat \X Nat : p[1] < p[2]}
<1>1. IsWellFoundedOn(R, Nat)
  BY NatLessThanWellFounded DEF OpToRel
<1>2. \A x, y \in Nat : <<x, y>> \in R <=> x < y
  OBVIOUS
<1> HIDE DEF R
<1>3. PICK x \in T : \A y \in T : ~ (<<y, x>> \in R)
  BY <1>1, WFMin
<1>4. ASSUME NEW y \in T PROVE x <= y
  <2>1. x \in Nat /\ y \in Nat /\ ~ (y < x)
    BY <1>2, <1>3
  <2> QED
    BY <2>1
<1> QED
  BY <1>4

\* Induction up to n, over a set.
LEMMA UpTo ==
  ASSUME NEW n \in Nat, NEW T \in SUBSET (0 .. n), 0 \in T,
         \A i \in 0 .. n : i < n /\ i \in T => i + 1 \in T
  PROVE  T = 0 .. n
<1> SUFFICES ASSUME (0 .. n) \ T # {} PROVE FALSE
  OBVIOUS
<1>1. PICK x \in (0 .. n) \ T : \A y \in (0 .. n) \ T : x <= y
  <2> DEFINE U == (0 .. n) \ T
  <2>1. U \in SUBSET Nat /\ U # {}
    OBVIOUS
  <2> HIDE DEF U
  <2>2. \E x \in U : \A y \in U : x <= y
    BY <2>1, LeastNumber
  <2> QED
    BY <2>2 DEF U
<1>2. x # 0 /\ x - 1 \in 0 .. n /\ x - 1 < n
  BY <1>1
<1>3. x - 1 \in T
  BY <1>1, <1>2
<1>4. (x - 1) + 1 \in T
  BY <1>2, <1>3
<1>5. (x - 1) + 1 = x
  BY <1>1
<1> QED
  BY <1>1, <1>4, <1>5

\* A state that each step keeps in S is in S.
LEMMA StaysIn ==
  ASSUME NEW n \in Nat, NEW S, NEW f, f = [i \in 0 .. n |-> f[i]], f[0] \in S,
         \A i \in 1 .. n : f[i - 1] \in S => f[i] \in S
  PROVE  f \in [0 .. n -> S]
<1> DEFINE T == {i \in 0 .. n : f[i] \in S}
<1>1. T \in SUBSET (0 .. n) /\ 0 \in T
  OBVIOUS
<1>2. ASSUME NEW i \in 0 .. n, i < n, i \in T PROVE i + 1 \in T
  <2>1. i + 1 \in 1 .. n /\ (i + 1) - 1 = i /\ i + 1 \in 0 .. n
    BY <1>2
  <2>2. f[i] \in S
    BY <1>2
  <2>3. f[i + 1] \in S
    BY <2>1, <2>2
  <2> QED
    BY <2>1, <2>3
<1> HIDE DEF T
<1>3. T = 0 .. n
  BY <1>1, <1>2, UpTo
<1>4. \A i \in 0 .. n : f[i] \in S
  BY <1>3 DEF T
<1> QED
  BY <1>4

\* f starts with first and goes on by step.
IsRun(f, first, step, n) == f[0] = first /\ \A i \in 1 .. n : f[i] = step[<<f[i - 1], i>>]
IsStep(step, S, n) == step \in [S \X (1 .. n) -> S]

\* There is such a function, on the numbers up to n.
LEMMA Recursion ==
  ASSUME NEW n \in Nat, NEW S, NEW first \in S, NEW step, IsStep(step, S, n)
  PROVE  \E f \in [0 .. n -> S] : IsRun(f, first, step, n)
<1> DEFINE T == {k \in 0 .. n : \E f \in [0 .. k -> S] : IsRun(f, first, step, k)}
<1> USE DEF IsStep
<1>1. 0 \in T
  <2> DEFINE f == [i \in 0 .. 0 |-> first]
  <2>1. f \in [0 .. 0 -> S] /\ f[0] = first /\ \A i \in 1 .. 0 : FALSE
    OBVIOUS
  <2> HIDE DEF f
  <2>2. IsRun(f, first, step, 0)
    BY <2>1 DEF IsRun
  <2> QED
    BY <2>1, <2>2
<1>2. ASSUME NEW k \in 0 .. n, k < n, k \in T PROVE k + 1 \in T
  <2>1. PICK f \in [0 .. k -> S] : IsRun(f, first, step, k)
    BY <1>2
  <2> DEFINE g == [i \in 0 .. k + 1 |-> IF i <= k THEN f[i] ELSE step[<<f[k], k + 1>>]]
  <2>2. k \in 0 .. k /\ k + 1 \in 1 .. n /\ k + 1 \in 0 .. n /\ k \in Nat
    BY <1>2
  <2>3. step[<<f[k], k + 1>>] \in S
    <3>1. <<f[k], k + 1>> \in S \X (1 .. n)
      BY <2>2
    <3> QED
      BY <3>1
  <2>4. g \in [0 .. k + 1 -> S]
    BY <2>2, <2>3
  <2>5. /\ \A i \in 0 .. k : g[i] = f[i]
        /\ g[k + 1] = step[<<f[k], k + 1>>]
    BY <2>2
  <2> HIDE DEF g
  <2>6. ASSUME NEW i \in 1 .. k + 1 PROVE g[i] = step[<<g[i - 1], i>>]
    <3>1. CASE i \in 1 .. k
      <4>1. i \in 0 .. k /\ i - 1 \in 0 .. k
        BY <2>2, <3>1
      <4> QED
        BY <2>1, <2>5, <3>1, <4>1 DEF IsRun
    <3>2. CASE i = k + 1
      <4>1. i - 1 = k
        BY <2>2, <3>2
      <4> QED
        BY <2>2, <2>5, <3>2, <4>1
    <3> QED
      BY <2>2, <3>1, <3>2
  <2>7. g[0] = first
    BY <2>1, <2>2, <2>5 DEF IsRun
  <2>8. IsRun(g, first, step, k + 1)
    BY <2>6, <2>7 DEF IsRun
  <2>9. \E e \in [0 .. k + 1 -> S] : IsRun(e, first, step, k + 1)
    BY <2>4, <2>8
  <2> QED
    BY <2>2, <2>9
<1>3. T \in SUBSET (0 .. n)
  OBVIOUS
<1> HIDE DEF T
<1>4. T = 0 .. n
  BY <1>1, <1>2, <1>3, UpTo
<1> QED
  BY <1>4 DEF T

(***************************************************************************)
(* suffixPrefixOverlap                                                     *)
(***************************************************************************)

\* The last n of the first i lines of l are the first n of r.
Fits(l, i, r, n) == n \in 0 .. i /\ \A j \in 1 .. n : l[(i - n) + j] = r[j]

\* An overlap within an overlap is one of the texts, and the other way round.
LEMMA FitsTwice ==
  ASSUME NEW l, NEW r, NEW i \in Nat, NEW n \in Nat, NEW m \in Nat, Fits(l, i, r, n)
  PROVE  /\ Fits(r, n, r, m) => Fits(l, i, r, m)
         /\ Fits(l, i, r, m) /\ m <= n => Fits(r, n, r, m)
<1>1. n <= i /\ \A j \in 1 .. n : l[(i - n) + j] = r[j]
  BY DEF Fits
<1>2. ASSUME Fits(r, n, r, m) PROVE Fits(l, i, r, m)
  <2>1. m <= n /\ \A j \in 1 .. m : r[(n - m) + j] = r[j]
    BY <1>2 DEF Fits
  <2>2. ASSUME NEW j \in 1 .. m PROVE l[(i - m) + j] = r[j]
    <3>1. (n - m) + j \in 1 .. n /\ (i - n) + ((n - m) + j) = (i - m) + j
      BY <1>1, <2>1
    <3>2. l[(i - n) + ((n - m) + j)] = r[(n - m) + j]
      BY <1>1, <3>1
    <3> QED
      BY <2>1, <3>1, <3>2
  <2> QED
    BY <1>1, <2>1, <2>2 DEF Fits
<1>3. ASSUME Fits(l, i, r, m), m <= n PROVE Fits(r, n, r, m)
  <2>1. \A j \in 1 .. m : l[(i - m) + j] = r[j]
    BY <1>3 DEF Fits
  <2>2. ASSUME NEW j \in 1 .. m PROVE r[(n - m) + j] = r[j]
    <3>1. (n - m) + j \in 1 .. n /\ (i - n) + ((n - m) + j) = (i - m) + j
      BY <1>1, <1>3
    <3>2. l[(i - n) + ((n - m) + j)] = r[(n - m) + j]
      BY <1>1, <3>1
    <3> QED
      BY <2>1, <3>1, <3>2
  <2> QED
    BY <1>3, <2>2 DEF Fits
<1> QED
  BY <1>2, <1>3

\* An overlap that goes on is one that ends a line earlier, and the line.
LEMMA FitsOneMore ==
  ASSUME NEW l, NEW r, NEW i \in Nat, NEW n \in Nat
  PROVE  Fits(l, i + 1, r, n + 1) <=> Fits(l, i, r, n) /\ l[i + 1] = r[n + 1]
<1>1. ASSUME Fits(l, i + 1, r, n + 1)
      PROVE  Fits(l, i, r, n) /\ l[i + 1] = r[n + 1]
  <2>1. n <= i /\ \A j \in 1 .. n + 1 : l[((i + 1) - (n + 1)) + j] = r[j]
    BY <1>1 DEF Fits
  <2>2. \A j \in 1 .. n : j \in 1 .. n + 1 /\ ((i + 1) - (n + 1)) + j = (i - n) + j
    OBVIOUS
  <2>3. n + 1 \in 1 .. n + 1 /\ ((i + 1) - (n + 1)) + (n + 1) = i + 1
    OBVIOUS
  <2>4. l[i + 1] = r[n + 1]
    BY <2>1, <2>3
  <2>5. \A j \in 1 .. n : l[(i - n) + j] = r[j]
    BY <2>1, <2>2
  <2> QED
    BY <2>1, <2>4, <2>5 DEF Fits
<1>2. ASSUME Fits(l, i, r, n), l[i + 1] = r[n + 1]
      PROVE  Fits(l, i + 1, r, n + 1)
  <2>1. n <= i /\ \A j \in 1 .. n : l[(i - n) + j] = r[j]
    BY <1>2 DEF Fits
  <2>2. ASSUME NEW j \in 1 .. n + 1 PROVE l[((i + 1) - (n + 1)) + j] = r[j]
    <3>1. CASE j = n + 1
      <4>1. ((i + 1) - (n + 1)) + j = i + 1
        BY <3>1
      <4> QED
        BY <1>2, <3>1, <4>1
    <3>2. CASE j \in 1 .. n
      <4>1. ((i + 1) - (n + 1)) + j = (i - n) + j
        BY <3>2
      <4> QED
        BY <2>1, <3>2, <4>1
    <3> QED
      BY <3>1, <3>2
  <2> QED
    BY <2>1, <2>2 DEF Fits
<1> QED
  BY <1>1, <1>2

\* A table for the first k lines of r: the longest proper overlap of each.
IsTable(r, p, k) ==
  /\ p \in Seq(Nat) /\ Len(p) = k
  /\ \A j \in 1 .. k :
       /\ p[j] \in 0 .. j - 1
       /\ Fits(r, j, r, p[j])
       /\ \A m \in 0 .. j - 1 : Fits(r, j, r, m) => m <= p[j]

\* The search cannot go on from n with x.
Falls(r, n, x) == n > 0 /\ (n = Len(r) \/ r[n + 1] # x)

\* FallBack, which the model defines by recursion, exists.
LEMMA FallBackIs ==
  ASSUME NEW r, NEW k \in Nat, NEW p, IsTable(r, p, k), NEW x
  PROVE  \A n \in 0 .. k :
           FallBack(r, p, x)[n] = IF Falls(r, n, x) THEN FallBack(r, p, x)[p[n]] ELSE n
<1> DEFINE Going(f, i) == IF Falls(r, i, x) THEN f[p[i]] ELSE i
           T == {i \in 0 .. k : \E f : f = [j \in 0 .. i |-> Going(f, j)]}
<1>1. Len(p) = k /\ \A j \in 1 .. k : p[j] \in 0 .. j - 1
  BY DEF IsTable
<1>2. 0 \in T
  <2> DEFINE f == [j \in 0 .. 0 |-> j]
  <2>1. \A j \in 0 .. 0 : ~ Falls(r, j, x)
    BY DEF Falls
  <2>2. f = [j \in 0 .. 0 |-> Going(f, j)]
    BY <2>1
  <2> HIDE DEF f, Going
  <2>3. \E e : e = [j \in 0 .. 0 |-> Going(e, j)]
    BY <2>2
  <2> QED
    BY <2>3
<1>3. ASSUME NEW i \in 0 .. k, i < k, i \in T PROVE i + 1 \in T
  <2>1. PICK f : f = [j \in 0 .. i |-> Going(f, j)]
    BY <1>3
  <2> DEFINE g == [j \in 0 .. i + 1 |-> IF j <= i THEN f[j] ELSE Going(f, i + 1)]
  <2>2. i \in Nat /\ i + 1 \in 1 .. k
    BY <1>3
  <2>3. ASSUME NEW j \in 0 .. i + 1 PROVE g[j] = Going(g, j)
    <3>1. Falls(r, j, x) => p[j] \in 0 .. i
      BY <1>1, <2>2 DEF Falls
    <3>2. Falls(r, j, x) => g[p[j]] = f[p[j]]
      BY <2>2, <3>1
    <3>3. Going(g, j) = Going(f, j)
      BY <3>2
    <3>4. CASE j \in 0 .. i
      <4>1. f[j] = Going(f, j)
        BY <2>1, <3>4
      <4> QED
        BY <2>2, <3>3, <3>4, <4>1
    <3>5. CASE j = i + 1
      BY <2>2, <3>3, <3>5
    <3> QED
      BY <2>2, <3>4, <3>5
  <2>4. g = [j \in 0 .. i + 1 |-> Going(g, j)]
    <3>1. g = [j \in 0 .. i + 1 |-> g[j]]
      OBVIOUS
    <3> HIDE DEF g, Going
    <3> QED
      BY <2>3, <3>1
  <2> HIDE DEF g, Going
  <2>5. \E e : e = [j \in 0 .. i + 1 |-> Going(e, j)]
    BY <2>4
  <2> QED
    BY <2>2, <2>5
<1>4. k \in T
  <2>1. T \in SUBSET (0 .. k)
    OBVIOUS
  <2> HIDE DEF T
  <2>2. T = 0 .. k
    BY <1>2, <1>3, <2>1, UpTo
  <2> QED
    BY <2>2
<1>5. FallBack(r, p, x) = CHOOSE f : f = [j \in 0 .. k |-> Going(f, j)]
  BY <1>1 DEF FallBack, Falls
<1> HIDE DEF Going
<1>6. FallBack(r, p, x) = [j \in 0 .. k |-> Going(FallBack(r, p, x), j)]
  BY <1>4, <1>5
<1>7. \A n \in 0 .. k : FallBack(r, p, x)[n] = Going(FallBack(r, p, x), n)
  <2> DEFINE e == FallBack(r, p, x)
  <2>1. e = [j \in 0 .. k |-> Going(e, j)]
    BY <1>6
  <2> HIDE DEF e
  <2>2. \A n \in 0 .. k : e[n] = Going(e, n)
    BY <2>1
  <2> QED
    BY <2>2 DEF e
<1> QED
  BY <1>7 DEF Going

\* It is the longest overlap that x continues, if there is one.
Best(r, x, n, best) ==
  /\ best \in 0 .. n /\ Fits(r, n, r, best) /\ ~ Falls(r, best, x)
  /\ \A m \in 0 .. n :
       Fits(r, n, r, m) /\ m < Len(r) /\ r[m + 1] = x => m <= best

\* Following the table it finds that overlap: one that was left out would be
\* longer than the table says.
LEMMA FallBackFinds ==
  ASSUME NEW r \in Seq(Line), NEW k \in 0 .. Len(r), NEW p, IsTable(r, p, k), NEW x,
         NEW n \in 0 .. k
  PROVE  Best(r, x, n, FallBack(r, p, x)[n])
<1> DEFINE f == FallBack(r, p, x)
           Bad == {i \in 0 .. k : ~ Best(r, x, i, f[i])}
<1>1. Len(r) \in Nat /\ k \in Nat
  BY LenProperties
<1>2. \A i \in 0 .. k : f[i] = IF Falls(r, i, x) THEN f[p[i]] ELSE i
  BY <1>1, FallBackIs
<1> HIDE DEF f
<1> SUFFICES ASSUME Bad # {} PROVE FALSE
  BY DEF f
<1>3. PICK i \in Bad : \A j \in Bad : i <= j
  <2>1. Bad \in SUBSET Nat
    BY <1>1
  <2> HIDE DEF Bad
  <2> QED
    BY <2>1, LeastNumber
<1>4. i \in 0 .. k /\ i \in Nat
  BY <1>1
<1>5. CASE ~ Falls(r, i, x)
  <2>1. f[i] = i
    BY <1>2, <1>4, <1>5
  <2>2. Fits(r, i, r, i)
    <3>1. \A j \in 1 .. i : (i - i) + j = j
      BY <1>4
    <3> QED
      BY <1>4, <3>1 DEF Fits
  <2>3. Best(r, x, i, i)
    BY <1>4, <1>5, <2>2 DEF Best
  <2> QED
    BY <2>1, <2>3
<1>6. CASE Falls(r, i, x)
  <2> DEFINE q == p[i]
  <2>1. /\ i \in 1 .. k /\ q \in 0 .. i - 1 /\ Fits(r, i, r, q) /\ q \in Nat
        /\ \A m \in 0 .. i - 1 : Fits(r, i, r, m) => m <= q
    BY <1>1, <1>4, <1>6 DEF Falls, IsTable
  <2>2. f[i] = f[q]
    BY <1>2, <1>4, <1>6
  <2> HIDE DEF q
  <2>3. q \in 0 .. k /\ q \notin Bad
    BY <1>1, <1>3, <1>4, <2>1
  <2>4. Best(r, x, q, f[q])
    BY <2>3
  <2> DEFINE b == f[q]
  <2>5. /\ b \in 0 .. q /\ Fits(r, q, r, b) /\ ~ Falls(r, b, x) /\ b \in Nat
        /\ \A m \in 0 .. q : Fits(r, q, r, m) /\ m < Len(r) /\ r[m + 1] = x => m <= b
    BY <2>1, <2>4 DEF Best
  <2> HIDE DEF b
  <2>6. Fits(r, i, r, b) /\ b \in 0 .. i
    BY <1>4, <2>1, <2>5, FitsTwice
  <2>7. ASSUME NEW m \in 0 .. i, Fits(r, i, r, m), m < Len(r), r[m + 1] = x
        PROVE  m <= b
    <3>1. m # i
      BY <1>6, <2>7 DEF Falls
    <3>2. m \in Nat /\ m \in 0 .. i - 1
      BY <1>4, <3>1
    <3>3. m <= q
      BY <2>1, <2>7, <3>2
    <3>4. Fits(r, q, r, m)
      BY <1>4, <2>1, <2>7, <3>2, <3>3, FitsTwice
    <3> QED
      BY <2>1, <2>5, <2>7, <3>2, <3>3, <3>4
  <2>8. Best(r, x, i, b)
    BY <2>5, <2>6, <2>7 DEF Best
  <2> QED
    BY <2>2, <2>8 DEF b
<1> QED
  BY <1>5, <1>6

\* n is the longest overlap up to b.
Longest(l, i, r, b, n) ==
  /\ n \in 0 .. b /\ Fits(l, i, r, n)
  /\ \A m \in 0 .. b : Fits(l, i, r, m) => m <= n

LEMMA FitsNothing ==
  ASSUME NEW l, NEW r, NEW i \in Nat
  PROVE  Fits(l, i, r, 0)
BY DEF Fits

LEMMA FitsOneLess ==
  ASSUME NEW l, NEW r, NEW i \in Nat, NEW a \in Nat, a # 0, Fits(l, i + 1, r, a)
  PROVE  Fits(l, i, r, a - 1) /\ l[i + 1] = r[a]
<1>1. PICK n \in Nat : a = n + 1
  <2>1. a - 1 \in Nat /\ a = (a - 1) + 1
    OBVIOUS
  <2> QED
    BY <2>1
<1>2. Fits(l, i + 1, r, n + 1)
  BY <1>1
<1>3. Fits(l, i, r, n) /\ l[i + 1] = r[n + 1]
  BY <1>1, <1>2, FitsOneMore
<1>4. a - 1 = n
  BY <1>1
<1> QED
  BY <1>1, <1>3, <1>4

\* One line further the longest overlap is the longest one that the line
\* continues, and the line.
LEMMA MatchedLongest ==
  ASSUME NEW r \in Seq(Line), NEW k \in 0 .. Len(r), NEW p, IsTable(r, p, k), r # <<>>,
         NEW l, NEW i \in Nat, NEW n \in 0 .. k, NEW b \in Nat, NEW c \in 0 .. Len(r),
         c = b + 1 \/ (c = b /\ c = Len(r)), Longest(l, i, r, b, n)
  PROVE  Longest(l, i + 1, r, c, Matched(r, p, n, l[i + 1]))
<1> DEFINE x == l[i + 1]
           m == FallBack(r, p, x)[n]
           M == Matched(r, p, n, x)
<1>1. Len(r) \in Nat /\ Len(r) > 0 /\ k \in Nat /\ n \in Nat /\ c \in Nat
  BY LenProperties, EmptySeq
<1>2. /\ m \in 0 .. n /\ m \in Nat /\ Fits(r, n, r, m)
      /\ \A a \in 0 .. n : Fits(r, n, r, a) /\ a < Len(r) /\ r[a + 1] = x => a <= m
      /\ m > 0 => m # Len(r) /\ r[m + 1] = x
  <2>1. Best(r, x, n, m)
    BY FallBackFinds
  <2> HIDE DEF m, x
  <2> QED
    BY <1>1, <2>1 DEF Best, Falls
<1>3. M = IF r[m + 1] = x THEN m + 1 ELSE m
  BY DEF Matched
<1> HIDE DEF m, M
<1>4. /\ n <= b /\ Fits(l, i, r, n)
      /\ \A a \in 0 .. b : Fits(l, i, r, a) => a <= n
  BY DEF Longest
<1>5. Fits(l, i, r, m)
  BY <1>1, <1>2, <1>4, FitsTwice
<1>6. ASSUME NEW a \in 0 .. c, a # 0, Fits(l, i + 1, r, a)
      PROVE  a - 1 \in 0 .. m /\ r[a] = x
  <2>1. a - 1 \in Nat /\ (a - 1) + 1 = a /\ a - 1 \in 0 .. b /\ a - 1 < Len(r)
    BY <1>1, <1>6
  <2>2. Fits(l, i, r, a - 1) /\ x = r[a]
    BY <1>6, <2>1, FitsOneLess DEF x
  <2>3. a - 1 <= n
    BY <1>4, <2>1, <2>2
  <2>4. Fits(r, n, r, a - 1)
    BY <1>1, <1>4, <2>1, <2>2, <2>3, FitsTwice
  <2>5. a - 1 <= m
    <3>1. a - 1 \in 0 .. n
      BY <1>1, <2>1, <2>3
    <3>2. r[(a - 1) + 1] = x
      BY <2>1, <2>2
    <3> QED
      BY <1>2, <2>1, <2>4, <3>1, <3>2
  <2> QED
    BY <1>2, <2>1, <2>2, <2>5
<1>7. CASE r[m + 1] = x
  <2>1. M = m + 1 /\ m < Len(r) /\ M \in 0 .. c
    BY <1>1, <1>2, <1>3, <1>4, <1>7
  <2>2. Fits(l, i + 1, r, M)
    BY <1>2, <1>5, <1>7, <2>1, FitsOneMore DEF x
  <2>3. ASSUME NEW a \in 0 .. c, Fits(l, i + 1, r, a) PROVE a <= M
    <3>1. a # 0 => a - 1 \in 0 .. m
      BY <1>6, <2>3
    <3> QED
      BY <1>1, <1>2, <2>1, <3>1
  <2> QED
    BY <2>1, <2>2, <2>3 DEF Longest, M, x
<1>8. CASE r[m + 1] # x
  <2>1. m = 0 /\ M = 0 /\ M \in 0 .. c
    BY <1>1, <1>2, <1>3, <1>8
  <2>2. Fits(l, i + 1, r, M)
    BY <2>1, FitsNothing
  <2>3. ASSUME NEW a \in 0 .. c, Fits(l, i + 1, r, a) PROVE a <= M
    <3>1. a # 0 => a - 1 \in 0 .. m /\ r[a] = x
      BY <1>6, <2>3
    <3>2. a # 0 => a = m + 1
      BY <1>1, <2>1, <3>1
    <3> QED
      BY <1>8, <2>1, <3>1, <3>2
  <2> QED
    BY <2>1, <2>2, <2>3 DEF Longest, M, x
<1> QED
  BY <1>7, <1>8

\* What computePrefix has after the first i lines.
LEMMA TableGrows ==
  ASSUME NEW r \in Seq(Line), NEW i \in 1 .. Len(r), NEW p, IsTable(r, p, i - 1)
  PROVE  IsTable(r, Append(p, IF i = 1 THEN 0 ELSE Matched(r, p, p[i - 1], r[i])), i)
<1> DEFINE v == IF i = 1 THEN 0 ELSE Matched(r, p, p[i - 1], r[i])
           q == Append(p, v)
<1>1. Len(r) \in Nat /\ i \in Nat /\ i - 1 \in Nat
  BY LenProperties
<1>2. /\ p \in Seq(Nat) /\ Len(p) = i - 1
      /\ \A j \in 1 .. i - 1 :
           /\ p[j] \in 0 .. j - 1
           /\ Fits(r, j, r, p[j])
           /\ \A m \in 0 .. j - 1 : Fits(r, j, r, m) => m <= p[j]
  BY DEF IsTable
<1>3. Longest(r, i, r, i - 1, v)
  <2>1. CASE i = 1
    <3>1. v = 0 /\ i - 1 = 0
      BY <2>1
    <3> HIDE DEF v
    <3>2. Fits(r, i, r, v)
      BY <1>1, <3>1, FitsNothing
    <3> QED
      BY <3>1, <3>2 DEF Longest
  <2>2. CASE i # 1
    <3> DEFINE h == i - 1
    <3>1. h \in 1 .. Len(r) /\ h \in Nat /\ h + 1 = i /\ h - 1 \in Nat /\ h \in 0 .. Len(r)
          /\ h = (h - 1) + 1
      BY <1>1, <2>2
    <3>2. v = Matched(r, p, p[h], r[h + 1])
      BY <2>2, <3>1
    <3> HIDE DEF h, v
    <3>3. /\ p[h] \in 0 .. h - 1 /\ Fits(r, h, r, p[h])
          /\ \A m \in 0 .. h - 1 : Fits(r, h, r, m) => m <= p[h]
      BY <1>2, <3>1 DEF h
    <3>4. Longest(r, h, r, h - 1, p[h]) /\ p[h] \in 0 .. h
      BY <3>1, <3>3 DEF Longest
    <3>5. r # <<>>
      BY <1>1, EmptySeq
    <3>6. IsTable(r, p, h)
      BY DEF h
    <3>7. Longest(r, h + 1, r, h, v)
      BY <3>1, <3>2, <3>4, <3>5, <3>6, MatchedLongest
    <3> QED
      BY <3>1, <3>7 DEF h
  <2> QED
    BY <2>1, <2>2
<1> HIDE DEF v
<1>4. v \in Nat /\ v \in 0 .. i - 1
  BY <1>1, <1>3 DEF Longest
<1>5. q \in Seq(Nat) /\ Len(q) = i /\ q[i] = v /\ \A j \in 1 .. i - 1 : q[j] = p[j]
  BY <1>1, <1>2, <1>4, AppendProperties
<1> HIDE DEF q
<1>6. ASSUME NEW j \in 1 .. i
      PROVE  /\ q[j] \in 0 .. j - 1 /\ Fits(r, j, r, q[j])
             /\ \A m \in 0 .. j - 1 : Fits(r, j, r, m) => m <= q[j]
  <2>1. CASE j = i
    BY <1>3, <1>5, <2>1 DEF Longest
  <2>2. CASE j # i
    <3>1. j \in 1 .. i - 1
      BY <1>1, <2>2
    <3> QED
      BY <1>2, <1>5, <3>1
  <2> QED
    BY <2>1, <2>2
<1>7. IsTable(r, q, i)
  BY <1>5, <1>6 DEF IsTable
<1> QED
  BY <1>7 DEF q, v

\* The table is the one of all lines.
LEMMA PrefixTableIs ==
  ASSUME NEW r \in Seq(Line)
  PROVE  \A k \in 0 .. Len(r) : IsTable(r, PrefixTable(r)[k], k)
<1> DEFINE N == Len(r)
           Going(f, i) ==
             IF i = 0 THEN <<>>
             ELSE Append(f[i - 1],
                         IF i = 1 THEN 0
                         ELSE Matched(r, f[i - 1], f[i - 1][i - 1], r[i]))
           T == {i \in 0 .. N : \E f : f = [j \in 0 .. i |-> Going(f, j)]}
<1>1. N \in Nat
  BY LenProperties
<1>2. 0 \in T
  <2> DEFINE f == [j \in 0 .. 0 |-> <<>>]
  <2>1. f = [j \in 0 .. 0 |-> Going(f, j)]
    <3>1. \A j \in 0 .. 0 : Going(f, j) = <<>>
      OBVIOUS
    <3> QED
      BY <3>1
  <2> HIDE DEF f, Going
  <2>2. \E e : e = [j \in 0 .. 0 |-> Going(e, j)]
    BY <2>1
  <2> QED
    BY <1>1, <2>2
<1>3. ASSUME NEW i \in 0 .. N, i < N, i \in T PROVE i + 1 \in T
  <2>1. PICK f : f = [j \in 0 .. i |-> Going(f, j)]
    BY <1>3
  <2> DEFINE g == [j \in 0 .. i + 1 |-> IF j <= i THEN f[j] ELSE Going(f, i + 1)]
  <2>2. i \in Nat /\ i + 1 \in 0 .. N /\ (i + 1) - 1 = i
    BY <1>1, <1>3
  <2>3. ASSUME NEW j \in 0 .. i + 1 PROVE g[j] = Going(g, j)
    <3>1. j # 0 => j - 1 \in 0 .. i /\ g[j - 1] = f[j - 1]
      BY <2>2
    <3>2. Going(g, j) = Going(f, j)
      <4> HIDE DEF g
      <4> QED
        BY <3>1
    <3>3. CASE j \in 0 .. i
      <4>1. f[j] = Going(f, j)
        <5> HIDE DEF Going
        <5> QED
          BY <2>1, <3>3
      <4>2. g[j] = f[j]
        BY <2>2, <3>3
      <4> QED
        BY <3>2, <4>1, <4>2
    <3>4. CASE j = i + 1
      <4>1. g[j] = Going(f, i + 1)
        <5> HIDE DEF Going
        <5> QED
          BY <2>2, <3>4
      <4> QED
        BY <3>2, <3>4, <4>1
    <3> QED
      BY <2>2, <3>3, <3>4
  <2>4. g = [j \in 0 .. i + 1 |-> Going(g, j)]
    <3>1. g = [j \in 0 .. i + 1 |-> g[j]]
      OBVIOUS
    <3> HIDE DEF g, Going
    <3> QED
      BY <2>3, <3>1
  <2> HIDE DEF g, Going
  <2>5. \E e : e = [j \in 0 .. i + 1 |-> Going(e, j)]
    BY <2>4
  <2> QED
    BY <2>2, <2>5
<1>4. N \in T
  <2>1. T \in SUBSET (0 .. N)
    OBVIOUS
  <2> HIDE DEF T
  <2>2. T = 0 .. N
    BY <1>1, <1>2, <1>3, <2>1, UpTo
  <2> QED
    BY <1>1, <2>2
<1> DEFINE pre == PrefixTable(r)
<1>5. pre = CHOOSE f : f = [j \in 0 .. N |-> Going(f, j)]
  BY DEF PrefixTable
<1>6. pre = [j \in 0 .. N |-> Going(pre, j)]
  <2> HIDE DEF Going, pre
  <2> QED
    BY <1>4, <1>5
<1>7. \A j \in 0 .. N : pre[j] = Going(pre, j)
  <2> HIDE DEF Going, pre, N
  <2> QED
    BY <1>6
<1> HIDE DEF pre
<1> DEFINE U == {j \in 0 .. N : IsTable(r, pre[j], j)}
<1>8. U \in SUBSET (0 .. N)
  OBVIOUS
<1>9. 0 \in U
  <2>1. pre[0] = <<>>
    BY <1>1, <1>7
  <2>2. IsTable(r, <<>>, 0)
    BY EmptySeq DEF IsTable
  <2> QED
    BY <1>1, <2>1, <2>2
<1>10. ASSUME NEW i \in 0 .. N, i < N, i \in U PROVE i + 1 \in U
  <2> DEFINE h == i + 1
  <2>1. h \in 1 .. N /\ h \in 0 .. N /\ h - 1 = i /\ h # 0
    BY <1>1, <1>10
  <2> HIDE DEF h
  <2>2. IsTable(r, pre[h - 1], h - 1)
    BY <1>10, <2>1
  <2>3. pre[h] = Append(pre[h - 1], IF h = 1 THEN 0
                         ELSE Matched(r, pre[h - 1], pre[h - 1][h - 1], r[h]))
    BY <1>7, <2>1
  <2>4. IsTable(r, pre[h], h)
    <3> HIDE DEF N, Going
    <3>1. h \in 1 .. Len(r)
      BY <2>1 DEF N
    <3> QED
      BY <2>2, <2>3, <3>1, TableGrows
  <2> QED
    BY <2>1, <2>4 DEF h
<1> HIDE DEF U
<1>11. U = 0 .. N
  BY <1>1, <1>8, <1>9, <1>10, UpTo
<1> QED
  BY <1>11 DEF U, pre

\* The search ends with the longest overlap.
LEMMA OverlapIs ==
  ASSUME NEW l \in Seq(Line), NEW r \in Seq(Line), r # <<>>
  PROVE  Longest(l, Len(l), r, Len(r), SuffixPrefixOverlap(l, r))
<1> DEFINE N == Len(l)
           R == Len(r)
           p == PrefixTable(r)[R]
           step == [u \in (0 .. R) \X (1 .. N) |-> Matched(r, p, u[1], l[u[2]])]
<1>1. N \in Nat /\ R \in Nat /\ R \in 0 .. R /\ IsTable(r, p, R)
  BY LenProperties, PrefixTableIs
<1> HIDE DEF p
<1>2. ASSUME NEW i \in 1 .. N, NEW n \in 0 .. R, Longest(l, i - 1, r, R, n)
      PROVE  Longest(l, i, r, R, Matched(r, p, n, l[i]))
  <2> DEFINE h == i - 1
  <2>1. h \in Nat /\ h + 1 = i
    BY <1>1
  <2> HIDE DEF h
  <2>2. Longest(l, h, r, R, n)
    BY <1>2 DEF h
  <2>3. Longest(l, h + 1, r, R, Matched(r, p, n, l[h + 1]))
    BY <1>1, <2>1, <2>2, MatchedLongest
  <2> QED
    BY <2>1, <2>3
<1>3. ASSUME NEW i \in 1 .. N, NEW n \in 0 .. R PROVE Matched(r, p, n, l[i]) \in 0 .. R
  <2> DEFINE b == FallBack(r, p, l[i])[n]
  <2>1. Best(r, l[i], n, b)
    BY <1>1, FallBackFinds
  <2> HIDE DEF b
  <2>2. b \in 0 .. n /\ (b > 0 => b # R)
    BY <2>1 DEF Best, Falls
  <2>3. R > 0
    BY <1>1, EmptySeq
  <2>4. b \in 0 .. R /\ b + 1 \in 0 .. R
    BY <1>1, <2>2, <2>3
  <2>5. Matched(r, p, n, l[i]) \in {b, b + 1}
    BY DEF Matched, b
  <2> QED
    BY <2>4, <2>5
<1>4. step \in [(0 .. R) \X (1 .. N) -> 0 .. R]
  BY <1>3
<1>5. PICK f \in [0 .. N -> 0 .. R] :
        f[0] = 0 /\ \A i \in 1 .. N : f[i] = step[<<f[i - 1], i>>]
  <2>1. 0 \in 0 .. R
    BY <1>1
  <2>2. IsStep(step, 0 .. R, N)
    BY <1>4 DEF IsStep
  <2> HIDE DEF step, R, N
  <2>3. \E f \in [0 .. N -> 0 .. R] : IsRun(f, 0, step, N)
    BY <1>1, <2>1, <2>2, Recursion
  <2> QED
    BY <2>3 DEF IsRun
<1>6. \A i \in 1 .. N : f[i] = Matched(r, p, f[i - 1], l[i])
  <2>1. ASSUME NEW i \in 1 .. N PROVE f[i] = Matched(r, p, f[i - 1], l[i])
    <3>1. i - 1 \in 0 .. N
      BY <1>1
    <3>2. <<f[i - 1], i>> \in (0 .. R) \X (1 .. N)
      BY <1>5, <3>1
    <3>3. f[i] = step[<<f[i - 1], i>>]
      BY <1>5
    <3> QED
      BY <3>2, <3>3
  <2> QED
    BY <2>1
<1> HIDE DEF step
<1> DEFINE Going(g, i) == IF i = 0 THEN 0 ELSE Matched(r, p, g[i - 1], l[i])
           M == CHOOSE g : g = [i \in 0 .. N |-> Going(g, i)]
<1>7. SuffixPrefixOverlap(l, r) = M[N]
  BY DEF SuffixPrefixOverlap, p
<1>8. f = [i \in 0 .. N |-> Going(f, i)]
  <2>1. \A i \in 0 .. N : i = 0 \/ i \in 1 .. N
    BY <1>1
  <2>2. \A i \in 0 .. N : f[i] = Going(f, i)
    BY <1>5, <1>6, <2>1
  <2> HIDE DEF Going, N
  <2>3. f = [i \in 0 .. N |-> f[i]]
    BY <1>5
  <2> QED
    BY <2>2, <2>3
<1>9. M = [i \in 0 .. N |-> Going(M, i)]
  <2> HIDE DEF Going, N
  <2> QED
    BY <1>8
<1>10. \A i \in 0 .. N : M[i] = Going(M, i)
  <2> HIDE DEF Going, N, M
  <2> QED
    BY <1>9
<1> HIDE DEF M
<1> DEFINE T == {i \in 0 .. N : M[i] \in 0 .. R /\ Longest(l, i, r, R, M[i])}
<1>11. 0 \in T
  <2>1. M[0] = 0
    BY <1>1, <1>10
  <2>2. Fits(l, 0, r, 0)
    BY FitsNothing
  <2>3. \A m \in 0 .. R : Fits(l, 0, r, m) => m <= 0
    BY DEF Fits
  <2>4. Longest(l, 0, r, R, 0)
    BY <1>1, <2>2, <2>3 DEF Longest
  <2> QED
    BY <1>1, <2>1, <2>4
<1>12. ASSUME NEW i \in 0 .. N, i < N, i \in T PROVE i + 1 \in T
  <2> DEFINE h == i + 1
  <2>1. h \in 1 .. N /\ h \in 0 .. N /\ h - 1 = i /\ h # 0
    BY <1>1, <1>12
  <2> HIDE DEF h
  <2>2. M[h - 1] \in 0 .. R /\ Longest(l, h - 1, r, R, M[h - 1])
    BY <1>12, <2>1
  <2>3. M[h] = Matched(r, p, M[h - 1], l[h])
    BY <1>10, <2>1
  <2>4. M[h] \in 0 .. R /\ Longest(l, h, r, R, M[h])
    <3> HIDE DEF R, N
    <3> QED
      BY <1>2, <1>3, <2>1, <2>2, <2>3
  <2> QED
    BY <2>1, <2>4 DEF h
<1>13. T \in SUBSET (0 .. N)
  OBVIOUS
<1> HIDE DEF T
<1>14. T = 0 .. N
  BY <1>1, <1>11, <1>12, <1>13, UpTo
<1>15. N \in T
  BY <1>1, <1>14
<1> QED
  BY <1>7, <1>15 DEF T

(***************************************************************************)
(* Parts of a text                                                         *)
(***************************************************************************)

\* SubSeq, for indices that are there.
LEMMA Sub ==
  ASSUME NEW S, NEW s \in Seq(S), NEW a \in 1 .. Len(s) + 1, NEW b \in a - 1 .. Len(s)
  PROVE  /\ SubSeq(s, a, b) \in Seq(S)
         /\ Len(SubSeq(s, a, b)) = (b - a) + 1
         /\ \A i \in 1 .. (b - a) + 1 : SubSeq(s, a, b)[i] = s[(a + i) - 1]
<1>1. Len(s) \in Nat /\ a \in Nat /\ b \in Nat
  BY LenProperties
<1>2. /\ SubSeq(s, a, b) \in Seq(S)
      /\ Len(SubSeq(s, a, b)) = IF a <= b THEN b - a + 1 ELSE 0
      /\ \A i \in 1 .. b - a + 1 : SubSeq(s, a, b)[i] = s[a + i - 1]
  BY <1>1, SubSeqProperties
<1> QED
  BY <1>1, <1>2

\* The lines of t are together in m, after the first i.
Begins(t, m, i) ==
  i \in 0 .. Len(m) - Len(t) /\ \A j \in 1 .. Len(t) : m[i + j] = t[j]

\* A part of a text by its lines.
LEMMA BlockBegins ==
  ASSUME NEW t \in Seq(Line), NEW m \in Seq(Line)
  PROVE  IsBlock(t, m) <=> \E i \in Nat : Begins(t, m, i)
<1>1. Len(t) \in Nat /\ Len(m) \in Nat
  BY LenProperties
<1>2. ASSUME NEW i \in 0 .. Len(m) - Len(t)
      PROVE  SubSeq(m, i + 1, i + Len(t)) = t <=> \A j \in 1 .. Len(t) : m[i + j] = t[j]
  <2> DEFINE s == SubSeq(m, i + 1, i + Len(t))
  <2>1. /\ i + 1 \in 1 .. Len(m) + 1 /\ i + Len(t) \in (i + 1) - 1 .. Len(m)
        /\ ((i + Len(t)) - (i + 1)) + 1 = Len(t)
        /\ \A j \in 1 .. Len(t) : ((i + 1) + j) - 1 = i + j
    BY <1>1
  <2>2. s \in Seq(Line) /\ Len(s) = Len(t) /\ \A j \in 1 .. Len(t) : s[j] = m[i + j]
    <3>1. /\ s \in Seq(Line)
          /\ Len(s) = ((i + Len(t)) - (i + 1)) + 1
          /\ \A j \in 1 .. ((i + Len(t)) - (i + 1)) + 1 : s[j] = m[((i + 1) + j) - 1]
      BY <2>1, Sub
    <3> HIDE DEF s
    <3> QED
      BY <2>1, <3>1
  <2> HIDE DEF s
  <2>3. s = t <=> \A j \in 1 .. Len(t) : s[j] = t[j]
    BY <2>2, SeqEqual
  <2>4. s = t <=> \A j \in 1 .. Len(t) : m[i + j] = t[j]
    BY <2>2, <2>3
  <2> QED
    BY <2>4 DEF s
<1>3. \A i \in 0 .. Len(m) - Len(t) : i \in Nat
  BY <1>1
<1> QED
  BY <1>2, <1>3 DEF IsBlock, Begins

LEMMA BlockOfBlock ==
  ASSUME NEW t \in Seq(Line), NEW m \in Seq(Line), NEW n \in Seq(Line),
         IsBlock(t, m), IsBlock(m, n)
  PROVE  IsBlock(t, n)
<1>1. Len(t) \in Nat /\ Len(m) \in Nat /\ Len(n) \in Nat
  BY LenProperties
<1>2. PICK a \in Nat : Begins(t, m, a)
  BY BlockBegins
<1>3. PICK b \in Nat : Begins(m, n, b)
  BY BlockBegins
<1>4. a + Len(t) <= Len(m) /\ \A j \in 1 .. Len(t) : m[a + j] = t[j]
  BY <1>1, <1>2 DEF Begins
<1>5. b + Len(m) <= Len(n) /\ \A j \in 1 .. Len(m) : n[b + j] = m[j]
  BY <1>1, <1>3 DEF Begins
<1>6. ASSUME NEW j \in 1 .. Len(t) PROVE n[(b + a) + j] = t[j]
  <2>1. a + j \in 1 .. Len(m) /\ b + (a + j) = (b + a) + j
    BY <1>1, <1>4
  <2>2. n[b + (a + j)] = m[a + j]
    BY <1>5, <2>1
  <2> QED
    BY <1>4, <2>1, <2>2
<1>7. b + a \in 0 .. Len(n) - Len(t) /\ b + a \in Nat
  BY <1>1, <1>4, <1>5
<1>8. Begins(t, n, b + a)
  BY <1>6, <1>7 DEF Begins
<1> QED
  BY <1>7, <1>8, BlockBegins

LEMMA RangeIs ==
  ASSUME NEW S, NEW s \in Seq(S), NEW x
  PROVE  x \in Range(s) <=> \E i \in 1 .. Len(s) : s[i] = x
BY LenProperties DEF Range

LEMMA BlockOfSelf ==
  ASSUME NEW t \in Seq(Line)
  PROVE  IsBlock(t, t) /\ IsBlock(<<>>, t)
<1>1. Len(t) \in Nat /\ Len(<<>>) = 0 /\ <<>> \in Seq(Line)
  BY LenProperties, EmptySeq
<1>2. Begins(t, t, 0) /\ Begins(<<>>, t, 0)
  BY <1>1 DEF Begins
<1> QED
  BY <1>1, <1>2, BlockBegins

(***************************************************************************)
(* normalizeText                                                           *)
(***************************************************************************)

\* Line by line: one that is blank once it is unescaped is left out.
LEMMA NormalizedIs ==
  ASSUME NEW raw \in Seq(Line)
  PROVE  /\ Normalized(raw) \in [0 .. Len(raw) -> Seq(Line)]
         /\ Normalized(raw)[0] = <<>>
         /\ \A i \in 1 .. Len(raw) :
              Normalized(raw)[i] =
                IF Unescaped[raw[i]] = BlankLine THEN Normalized(raw)[i - 1]
                ELSE Append(Normalized(raw)[i - 1], Unescaped[raw[i]])
<1> DEFINE N == Len(raw)
           One(s, i) == IF Unescaped[raw[i]] = BlankLine THEN s
                        ELSE Append(s, Unescaped[raw[i]])
           step == [u \in Seq(Line) \X (1 .. N) |-> One(u[1], u[2])]
<1>1. N \in Nat /\ \A i \in 1 .. N : raw[i] \in Line
  BY LenProperties, ElementOfSeq
<1>2. \A i \in 1 .. N : Unescaped[raw[i]] \in Line \/ Unescaped[raw[i]] = BlankLine
  BY <1>1, LinesDiffer
<1>3. \A s \in Seq(Line), i \in 1 .. N : One(s, i) \in Seq(Line)
  BY <1>2, AppendProperties
<1>4. step \in [Seq(Line) \X (1 .. N) -> Seq(Line)]
  BY <1>3
<1>5. PICK f \in [0 .. N -> Seq(Line)] :
        f[0] = <<>> /\ \A i \in 1 .. N : f[i] = step[<<f[i - 1], i>>]
  <2>1. <<>> \in Seq(Line)
    BY EmptySeq
  <2>2. IsStep(step, Seq(Line), N)
    BY <1>4 DEF IsStep
  <2> HIDE DEF step, N
  <2>3. \E f \in [0 .. N -> Seq(Line)] : IsRun(f, <<>>, step, N)
    BY <1>1, <2>1, <2>2, Recursion
  <2> QED
    BY <2>3 DEF IsRun
<1>6. \A i \in 1 .. N : f[i] = One(f[i - 1], i)
  <2>1. ASSUME NEW i \in 1 .. N PROVE f[i] = One(f[i - 1], i)
    <3>1. i - 1 \in 0 .. N
      BY <1>1
    <3>2. <<f[i - 1], i>> \in Seq(Line) \X (1 .. N)
      BY <1>5, <3>1
    <3>3. f[i] = step[<<f[i - 1], i>>]
      BY <1>5
    <3> HIDE DEF One
    <3> QED
      BY <3>2, <3>3
  <2> QED
    BY <2>1
<1> HIDE DEF step
<1> DEFINE Going(g, i) == IF i = 0 THEN <<>>
                          ELSE IF Unescaped[raw[i]] = BlankLine THEN g[i - 1]
                          ELSE Append(g[i - 1], Unescaped[raw[i]])
           M == CHOOSE g : g = [i \in 0 .. N |-> Going(g, i)]
<1>7. Normalized(raw) = M
  BY DEF Normalized
<1>8. f = [i \in 0 .. N |-> Going(f, i)]
  <2>1. \A i \in 0 .. N : i = 0 \/ i \in 1 .. N
    BY <1>1
  <2>2. \A i \in 0 .. N : f[i] = Going(f, i)
    BY <1>5, <1>6, <2>1
  <2> HIDE DEF Going, N
  <2>3. f = [i \in 0 .. N |-> f[i]]
    BY <1>5
  <2> QED
    BY <2>2, <2>3
<1>9. M = [i \in 0 .. N |-> Going(M, i)]
  <2> HIDE DEF Going, N
  <2> QED
    BY <1>8
<1>10. \A i \in 0 .. N : M[i] = Going(M, i)
  <2> HIDE DEF Going, N, M
  <2> QED
    BY <1>9
<1> HIDE DEF M
<1>11. M[0] = <<>> /\ \A i \in 1 .. N : M[i] = One(M[i - 1], i)
  <2>1. 0 \in 0 .. N /\ \A i \in 1 .. N : i \in 0 .. N /\ i # 0
    BY <1>1
  <2> QED
    BY <1>10, <2>1
<1>12. M \in [0 .. N -> Seq(Line)]
  <2>1. M = [i \in 0 .. N |-> M[i]]
    <3> HIDE DEF Going, N
    <3> QED
      BY <1>9
  <2>2. M[0] \in Seq(Line)
    BY <1>11, EmptySeq
  <2>3. \A i \in 1 .. N : M[i - 1] \in Seq(Line) => M[i] \in Seq(Line)
    <3> HIDE DEF One
    <3> QED
      BY <1>3, <1>11
  <2> HIDE DEF Going, N, One
  <2> QED
    BY <1>1, <2>1, <2>2, <2>3, StaysIn
<1> QED
  BY <1>7, <1>11, <1>12

LEMMA NormalizeTextType ==
  ASSUME NEW raw \in Seq(Line)
  PROVE  /\ NormalizeText(raw) \in Seq(Line)
         /\ \A i \in 0 .. Len(raw) : Normalized(raw)[i] \in Seq(Line)
<1> DEFINE f == Normalized(raw)
           N == Len(raw)
<1>1. N \in Nat
  BY LenProperties
<1>2. f \in [0 .. N -> Seq(Line)]
  BY NormalizedIs
<1> HIDE DEF f, N
<1>3. N \in 0 .. N /\ \A i \in 0 .. N : f[i] \in Seq(Line)
  BY <1>1, <1>2
<1> QED
  BY <1>3 DEF NormalizeText, f, N

LEMMA ConcatAppend ==
  ASSUME NEW s \in Seq(Line), NEW t \in Seq(Line), NEW x \in Line
  PROVE  Append(s \o t, x) = s \o Append(t, x)
<1>1. s \o t \in Seq(Line) /\ <<x>> \in Seq(Line)
  BY ConcatProperties
<1>2. Append(s \o t, x) = (s \o t) \o <<x>> /\ Append(t, x) = t \o <<x>>
  BY <1>1, AppendIsConcat
<1> QED
  BY <1>1, <1>2, ConcatAssociative

\* What becomes of the lines of t does not depend on the lines before them.
LEMMA BehindLines ==
  ASSUME NEW t \in Seq(Line), NEW m \in Seq(Line), NEW a \in Nat, Begins(t, m, a)
  PROVE  \A j \in 0 .. Len(t) :
           Normalized(m)[a + j] = Normalized(m)[a] \o Normalized(t)[j]
<1> DEFINE n == Len(t)
           A == Normalized(m)[a]
           T == {j \in 0 .. n : Normalized(m)[a + j] = A \o Normalized(t)[j]}
<1>1. /\ n \in Nat /\ Len(m) \in Nat /\ a + n <= Len(m)
      /\ \A j \in 1 .. n : m[a + j] = t[j]
  BY LenProperties DEF Begins
<1>2. A \in Seq(Line) /\ \A j \in 0 .. n : Normalized(t)[j] \in Seq(Line)
  <2>1. a \in 0 .. Len(m)
    BY <1>1
  <2> QED
    BY <2>1, NormalizeTextType
<1>a. Normalized(m)[a] = A
  OBVIOUS
<1> HIDE DEF A
<1>3. 0 \in T
  <2>1. Normalized(t)[0] = <<>>
    BY NormalizedIs
  <2>2. A \o <<>> = A
    BY <1>2, ConcatEmptySeq
  <2>3. a + 0 = a /\ 0 \in 0 .. n
    BY <1>1
  <2>4. Normalized(m)[a + 0] = A \o Normalized(t)[0]
    BY <1>a, <2>1, <2>2, <2>3
  <2> QED
    BY <2>3, <2>4
<1>4. ASSUME NEW j \in 0 .. n, j < n, j \in T PROVE j + 1 \in T
  <2> DEFINE x == Unescaped[t[j + 1]]
             B == Normalized(t)[j]
  <2>1. /\ j + 1 \in 1 .. n /\ j + 1 \in 0 .. n /\ a + (j + 1) \in 1 .. Len(m)
        /\ (j + 1) - 1 = j /\ (a + (j + 1)) - 1 = a + j
    BY <1>1, <1>4
  <2>2. m[a + (j + 1)] = t[j + 1]
    BY <1>1, <2>1
  <2>3. Normalized(m)[a + j] = A \o B /\ B \in Seq(Line)
    BY <1>2, <1>4
  <2>4. Normalized(m)[a + (j + 1)] = IF x = BlankLine THEN A \o B ELSE Append(A \o B, x)
    <3>1. Normalized(m)[a + (j + 1)] =
            IF Unescaped[m[a + (j + 1)]] = BlankLine
            THEN Normalized(m)[(a + (j + 1)) - 1]
            ELSE Append(Normalized(m)[(a + (j + 1)) - 1], Unescaped[m[a + (j + 1)]])
      BY <2>1, NormalizedIs
    <3> QED
      BY <2>1, <2>2, <2>3, <3>1
  <2>5. Normalized(t)[j + 1] = IF x = BlankLine THEN B ELSE Append(B, x)
    <3>1. Normalized(t)[j + 1] =
            IF x = BlankLine THEN Normalized(t)[(j + 1) - 1]
            ELSE Append(Normalized(t)[(j + 1) - 1], x)
      BY <2>1, NormalizedIs
    <3> QED
      BY <2>1, <3>1
  <2>6. x = BlankLine \/ x \in Line
    <3>1. t[j + 1] \in Line
      BY <2>1, ElementOfSeq
    <3> QED
      BY <3>1, LinesDiffer
  <2> HIDE DEF x, B
  <2>7. x \in Line => Append(A \o B, x) = A \o Append(B, x)
    BY <1>2, <2>3, ConcatAppend
  <2>8. Normalized(m)[a + (j + 1)] = A \o Normalized(t)[j + 1]
    BY <2>4, <2>5, <2>6, <2>7
  <2> QED
    BY <2>1, <2>8
<1>5. T \in SUBSET (0 .. n)
  OBVIOUS
<1> HIDE DEF T
<1>6. T = 0 .. n
  BY <1>1, <1>3, <1>4, <1>5, UpTo
<1> QED
  BY <1>6 DEF T, A

\* What is together stays together.
LEMMA NormalizeBlock ==
  ASSUME NEW t \in Seq(Line), NEW m \in Seq(Line), IsBlock(t, m)
  PROVE  IsBlock(NormalizeText(t), NormalizeText(m))
<1>1. Len(t) \in Nat /\ Len(m) \in Nat
  BY LenProperties
<1>2. PICK a \in Nat : Begins(t, m, a)
  BY BlockBegins
<1> DEFINE b == a + Len(t)
           r == SubSeq(m, b + 1, Len(m))
           A == Normalized(m)[a]
           B == NormalizeText(t)
           C == NormalizeText(r)
<1>3. b \in Nat /\ b <= Len(m) /\ a \in 0 .. Len(m)
  BY <1>1, <1>2 DEF Begins
<1>4. /\ r \in Seq(Line) /\ Len(r) = Len(m) - b
      /\ \A i \in 1 .. Len(m) - b : r[i] = m[b + i]
  <2> HIDE DEF b
  <2>1. /\ b + 1 \in 1 .. Len(m) + 1 /\ Len(m) \in (b + 1) - 1 .. Len(m)
        /\ (Len(m) - (b + 1)) + 1 = Len(m) - b
        /\ \A i \in 1 .. Len(m) - b : ((b + 1) + i) - 1 = b + i
    BY <1>1, <1>3
  <2>2. /\ r \in Seq(Line)
        /\ Len(r) = (Len(m) - (b + 1)) + 1
        /\ \A i \in 1 .. (Len(m) - (b + 1)) + 1 : r[i] = m[((b + 1) + i) - 1]
    BY <2>1, Sub
  <2> HIDE DEF r
  <2> QED
    BY <2>1, <2>2
<1>5. A \in Seq(Line) /\ B \in Seq(Line) /\ C \in Seq(Line)
  <2> HIDE DEF r, b
  <2> QED
    BY <1>3, <1>4, NormalizeTextType
<1>6. Normalized(m)[b] = A \o B
  <2>1. Len(t) \in 0 .. Len(t)
    BY <1>1
  <2> QED
    BY <1>2, <2>1, BehindLines DEF NormalizeText
<1>7. NormalizeText(m) = (A \o B) \o C
  <2> HIDE DEF r, b, A, B
  <2>1. Begins(r, m, b)
    BY <1>1, <1>3, <1>4 DEF Begins
  <2>2. Len(r) \in 0 .. Len(r) /\ b + Len(r) = Len(m)
    BY <1>1, <1>3, <1>4
  <2>3. Normalized(m)[b + Len(r)] = Normalized(m)[b] \o Normalized(r)[Len(r)]
    BY <1>3, <1>4, <2>1, <2>2, BehindLines
  <2> QED
    BY <1>6, <2>2, <2>3 DEF NormalizeText, C
<1> HIDE DEF A, B, C
<1> DEFINE M == (A \o B) \o C
<1>8. /\ M \in Seq(Line) /\ Len(A) \in Nat /\ Len(B) \in Nat
      /\ Len(M) >= Len(A) + Len(B)
      /\ \A j \in 1 .. Len(B) : M[Len(A) + j] = B[j]
  <2> DEFINE D == A \o B
  <2>1. /\ D \in Seq(Line) /\ Len(D) = Len(A) + Len(B)
        /\ \A i \in 1 .. Len(A) + Len(B) :
             D[i] = IF i <= Len(A) THEN A[i] ELSE B[i - Len(A)]
    BY <1>5, ConcatProperties
  <2>2. /\ Len(A) \in Nat /\ Len(B) \in Nat /\ Len(C) \in Nat
        /\ C \in Seq(Line)
    BY <1>5, LenProperties
  <2> HIDE DEF D
  <2>3. /\ D \o C \in Seq(Line) /\ Len(D \o C) = Len(D) + Len(C)
        /\ \A i \in 1 .. Len(D) + Len(C) :
             (D \o C)[i] = IF i <= Len(D) THEN D[i] ELSE C[i - Len(D)]
    <3>1. D \in Seq(Line)
      BY <2>1
    <3> QED
      BY <2>2, <3>1, ConcatProperties
  <2>4. ASSUME NEW j \in 1 .. Len(B) PROVE (D \o C)[Len(A) + j] = B[j]
    <3>1. /\ Len(A) + j \in 1 .. Len(A) + Len(B) /\ ~ (Len(A) + j <= Len(A))
          /\ (Len(A) + j) - Len(A) = j
          /\ Len(A) + j \in 1 .. Len(D) + Len(C) /\ Len(A) + j <= Len(D)
      BY <2>1, <2>2
    <3>2. (D \o C)[Len(A) + j] = D[Len(A) + j]
      BY <2>3, <3>1
    <3>3. D[Len(A) + j] = B[(Len(A) + j) - Len(A)]
      BY <2>1, <3>1
    <3> QED
      BY <3>1, <3>2, <3>3
  <2> QED
    BY <2>1, <2>2, <2>3, <2>4 DEF D
<1> HIDE DEF M
<1>9. Begins(B, M, Len(A))
  <2>1. Len(M) \in Nat
    BY <1>8, LenProperties
  <2> QED
    BY <1>8, <2>1 DEF Begins
<1>10. IsBlock(B, M)
  BY <1>5, <1>8, <1>9, BlockBegins
<1> QED
  BY <1>7, <1>10 DEF M, B

\* The lines of a text are those it had, unescaped, but for blank ones.
LEMMA NormalizedRange ==
  ASSUME NEW t \in Seq(Line)
  PROVE  Range(NormalizeText(t)) = {Unescaped[line] : line \in Range(t)} \ {BlankLine}
<1> DEFINE n == Len(t)
           Kept(i) == {Unescaped[t[j]] : j \in 1 .. i} \ {BlankLine}
           T == {i \in 0 .. n : Range(Normalized(t)[i]) = Kept(i)}
<1>1. n \in Nat
  BY LenProperties
<1>2. 0 \in T
  <2>1. Normalized(t)[0] = <<>> /\ DOMAIN <<>> = {} /\ 1 .. 0 = {}
    BY NormalizedIs, EmptySeq
  <2> QED
    BY <1>1, <2>1 DEF Range
<1>3. ASSUME NEW i \in 0 .. n, i < n, i \in T PROVE i + 1 \in T
  <2> DEFINE x == Unescaped[t[i + 1]]
             B == Normalized(t)[i]
  <2>1. /\ i + 1 \in 1 .. n /\ i + 1 \in 0 .. n /\ (i + 1) - 1 = i
        /\ 1 .. i + 1 = (1 .. i) \cup {i + 1}
    BY <1>1, <1>3
  <2>2. Kept(i + 1) = IF x = BlankLine THEN Kept(i) ELSE Kept(i) \cup {x}
    BY <2>1
  <2> HIDE DEF Kept
  <2>3. Normalized(t)[i + 1] = IF x = BlankLine THEN B ELSE Append(B, x)
    <3>1. Normalized(t)[i + 1] =
            IF x = BlankLine THEN Normalized(t)[(i + 1) - 1]
            ELSE Append(Normalized(t)[(i + 1) - 1], x)
      BY <2>1, NormalizedIs
    <3> QED
      BY <2>1, <3>1
  <2>4. B \in Seq(Line) /\ (x = BlankLine \/ x \in Line) /\ Range(B) = Kept(i)
    <3>1. t[i + 1] \in Line
      BY <2>1, ElementOfSeq
    <3> QED
      BY <1>3, <3>1, LinesDiffer, NormalizeTextType
  <2> HIDE DEF x, B
  <2>5. x \in Line => Range(Append(B, x)) = Range(B) \cup {x}
    <3>1. SUFFICES ASSUME x \in Line PROVE Range(Append(B, x)) = Range(B) \cup {x}
      OBVIOUS
    <3>2. Append(B, x) = B \o <<x>> /\ <<x>> \in Seq(Line)
      BY <2>4, <3>1, AppendIsConcat
    <3>3. /\ Append(B, x) \in Seq(Line) /\ Len(B) \in Nat
          /\ Len(Append(B, x)) = Len(B) + 1
          /\ \A j \in 1 .. Len(B) : Append(B, x)[j] = B[j]
          /\ Append(B, x)[Len(B) + 1] = x
      BY <2>4, <3>1, AppendProperties, LenProperties
    <3>4. 1 .. Len(B) + 1 = (1 .. Len(B)) \cup {Len(B) + 1}
      BY <3>3
    <3> DEFINE E == Append(B, x)
    <3>5. \A y : y \in Range(E) <=> \E j \in 1 .. Len(B) + 1 : E[j] = y
      <4>1. E \in Seq(Line) /\ Len(E) = Len(B) + 1
        BY <3>3
      <4> HIDE DEF E
      <4>2. \A y : y \in Range(E) <=> \E j \in 1 .. Len(E) : E[j] = y
        BY <4>1, RangeIs
      <4> QED
        BY <4>1, <4>2
    <3>6. \A y : y \in Range(B) <=> \E j \in 1 .. Len(B) : B[j] = y
      BY <2>4, RangeIs
    <3> HIDE DEF E
    <3>7. \A y : y \in Range(E) <=> y \in Range(B) \/ y = x
      BY <3>3, <3>4, <3>5, <3>6 DEF E
    <3> QED
      BY <3>7 DEF E
  <2>6. Range(Normalized(t)[i + 1]) = Kept(i + 1)
    BY <2>2, <2>3, <2>4, <2>5
  <2> QED
    BY <2>1, <2>6
<1>4. T \in SUBSET (0 .. n)
  OBVIOUS
<1>5. Kept(n) = {Unescaped[line] : line \in Range(t)} \ {BlankLine}
  <2>1. \A y : y \in Range(t) <=> \E j \in 1 .. n : t[j] = y
    BY RangeIs
  <2> QED
    BY <2>1
<1> HIDE DEF T, Kept
<1>6. T = 0 .. n
  BY <1>1, <1>2, <1>3, <1>4, UpTo
<1>7. Range(Normalized(t)[n]) = Kept(n)
  BY <1>1, <1>6 DEF T
<1> QED
  BY <1>5, <1>7 DEF NormalizeText

\* A complete text stays so when it is normalized, and its parts with it.
LEMMA NormalizeAgain ==
  ASSUME NEW m \in Seq(Line), NEW texts \in SUBSET Seq(Line), Complete(m, texts)
  PROVE  Complete(NormalizeText(m), {NormalizeText(t) : t \in texts})
<1>1. ASSUME NEW t \in texts PROVE IsBlock(NormalizeText(t), NormalizeText(m))
  <2>1. t \in Seq(Line) /\ IsBlock(t, m)
    BY DEF Complete
  <2> QED
    BY <2>1, NormalizeBlock
<1>2. ASSUME NEW x \in Range(NormalizeText(m))
      PROVE  \E t \in texts : x \in Range(NormalizeText(t))
  <2>1. PICK line \in Range(m) : x = Unescaped[line] /\ x # BlankLine
    BY NormalizedRange
  <2>2. PICK t \in texts : line \in Range(t)
    BY DEF Complete
  <2>3. t \in Seq(Line)
    OBVIOUS
  <2>4. x \in Range(NormalizeText(t))
    BY <2>1, <2>2, <2>3, NormalizedRange
  <2> QED
    BY <2>4
<1> QED
  BY <1>1, <1>2 DEF Complete

(***************************************************************************)
(* mergeText                                                               *)
(***************************************************************************)

\* The lines in common are there once.
LEMMA JoinKeeps ==
  ASSUME NEW m \in Seq(Line), NEW t \in Seq(Line), t # <<>>
  PROVE  /\ Join(m, t) \in Seq(Line)
         /\ IsBlock(m, Join(m, t)) /\ IsBlock(t, Join(m, t))
         /\ Range(Join(m, t)) \subseteq Range(m) \cup Range(t)
<1> DEFINE o == IF SuffixPrefixOverlap(m, t) = 1 /\ Chars[t[1]] < 80
                THEN 0 ELSE SuffixPrefixOverlap(m, t)
           s == SubSeq(t, o + 1, Len(t))
           J == m \o s
<1>1. Len(t) \in Nat /\ Len(m) \in Nat
  BY LenProperties
<1>2. o \in 0 .. Len(t) /\ o \in 0 .. Len(m) /\ o \in Nat
      /\ \A j \in 1 .. o : m[(Len(m) - o) + j] = t[j]
  <2>1. Longest(m, Len(m), t, Len(t), SuffixPrefixOverlap(m, t))
    BY OverlapIs
  <2>2. o \in 0 .. Len(t) /\ Fits(m, Len(m), t, o)
    BY <1>1, <2>1, FitsNothing DEF Longest
  <2> HIDE DEF o
  <2> QED
    BY <1>1, <2>2 DEF Fits
<1>3. Join(m, t) = J
  BY DEF Join
<1> HIDE DEF o
<1>4. /\ s \in Seq(Line) /\ Len(s) = Len(t) - o
      /\ \A i \in 1 .. Len(t) - o : s[i] = t[o + i]
  <2>1. /\ o + 1 \in 1 .. Len(t) + 1 /\ Len(t) \in (o + 1) - 1 .. Len(t)
        /\ (Len(t) - (o + 1)) + 1 = Len(t) - o
        /\ \A i \in 1 .. Len(t) - o : ((o + 1) + i) - 1 = o + i
    BY <1>1, <1>2
  <2>2. /\ s \in Seq(Line)
        /\ Len(s) = (Len(t) - (o + 1)) + 1
        /\ \A i \in 1 .. (Len(t) - (o + 1)) + 1 : s[i] = t[((o + 1) + i) - 1]
    BY <2>1, Sub
  <2> HIDE DEF s
  <2> QED
    BY <2>1, <2>2
<1> HIDE DEF s
<1>5. /\ J \in Seq(Line) /\ Len(J) = Len(m) + Len(s)
      /\ \A i \in 1 .. Len(m) + Len(s) :
           J[i] = IF i <= Len(m) THEN m[i] ELSE s[i - Len(m)]
  BY <1>4, ConcatProperties
<1> HIDE DEF J
<1>6. Len(J) = Len(m) + (Len(t) - o)
  BY <1>4, <1>5
<1>7. \A i \in 1 .. Len(m) : J[i] = m[i]
  <2>1. Len(s) \in Nat
    BY <1>1, <1>2, <1>4
  <2>2. \A i \in 1 .. Len(m) : i \in 1 .. Len(m) + Len(s) /\ i <= Len(m)
    BY <1>1, <2>1
  <2> QED
    BY <1>5, <2>2
<1>8. \A i \in 1 .. Len(t) - o : J[Len(m) + i] = t[o + i]
  <2>1. ASSUME NEW i \in 1 .. Len(t) - o PROVE J[Len(m) + i] = t[o + i]
    <3>1. Len(m) + i \in 1 .. Len(m) + Len(s) /\ ~ (Len(m) + i <= Len(m))
          /\ (Len(m) + i) - Len(m) = i
      BY <1>1, <1>2, <1>4
    <3>2. J[Len(m) + i] = s[(Len(m) + i) - Len(m)]
      BY <1>5, <3>1
    <3> QED
      BY <1>4, <3>1, <3>2
  <2> QED
    BY <2>1
<1>9. IsBlock(m, J)
  <2>1. Begins(m, J, 0)
    BY <1>1, <1>2, <1>6, <1>7 DEF Begins
  <2> QED
    BY <1>5, <2>1, BlockBegins
<1>10. IsBlock(t, J)
  <2> DEFINE b == Len(m) - o
  <2>1. b \in Nat /\ b \in 0 .. Len(J) - Len(t)
    BY <1>1, <1>2, <1>6
  <2>2. ASSUME NEW j \in 1 .. Len(t) PROVE J[b + j] = t[j]
    <3>1. CASE j \in 1 .. o
      <4>1. b + j \in 1 .. Len(m)
        BY <1>1, <1>2, <3>1
      <4>2. J[b + j] = m[b + j]
        BY <1>7, <4>1
      <4> QED
        BY <1>2, <3>1, <4>2
    <3>2. CASE j \notin 1 .. o
      <4>1. /\ j - o \in 1 .. Len(t) - o /\ b + j = Len(m) + (j - o)
            /\ o + (j - o) = j
        BY <1>1, <1>2, <3>2
      <4>2. J[Len(m) + (j - o)] = t[o + (j - o)]
        BY <1>8, <4>1
      <4> QED
        BY <4>1, <4>2
    <3> QED
      BY <3>1, <3>2
  <2> HIDE DEF b
  <2>3. Begins(t, J, b)
    BY <2>1, <2>2 DEF Begins
  <2> QED
    BY <1>5, <2>1, <2>3, BlockBegins
<1>11. ASSUME NEW x \in Range(J) PROVE x \in Range(m) \cup Range(t)
  <2>1. PICK i \in 1 .. Len(J) : J[i] = x
    BY <1>5, RangeIs
  <2>2. CASE i <= Len(m)
    <3>1. i \in 1 .. Len(m) /\ m[i] = x
      BY <1>1, <1>7, <2>1, <2>2
    <3> QED
      BY <3>1, RangeIs
  <2>3. CASE ~ (i <= Len(m))
    <3> DEFINE e == i - Len(m)
    <3>1. e \in 1 .. Len(t) - o /\ Len(m) + e = i /\ o + e \in 1 .. Len(t)
      BY <1>1, <1>2, <1>6, <2>3
    <3> HIDE DEF e
    <3>2. t[o + e] = x
      BY <1>8, <2>1, <3>1
    <3> QED
      BY <3>1, <3>2, RangeIs
  <2> QED
    BY <2>2, <2>3
<1> QED
  BY <1>3, <1>5, <1>9, <1>10, <1>11

LEMMA MergeKeeps ==
  ASSUME NEW m \in Seq(Line), NEW t \in Seq(Line)
  PROVE  /\ Merge(m, t) \in Seq(Line)
         /\ IsBlock(m, Merge(m, t)) /\ IsBlock(t, Merge(m, t))
         /\ Range(Merge(m, t)) \subseteq Range(m) \cup Range(t)
<1>1. CASE t = <<>>
  BY <1>1, BlockOfSelf DEF Merge
<1>2. CASE t # <<>> /\ (m = <<>> \/ IsBlock(m, t))
  BY <1>2, BlockOfSelf DEF Merge
<1>3. CASE t # <<>> /\ ~ (m = <<>> \/ IsBlock(m, t)) /\ IsBlock(t, m)
  BY <1>3, BlockOfSelf DEF Merge
<1>4. CASE t # <<>> /\ ~ (m = <<>> \/ IsBlock(m, t)) /\ ~ IsBlock(t, m)
  BY <1>4, JoinKeeps DEF Merge
<1> QED
  BY <1>1, <1>2, <1>3, <1>4

\* A merged text has what its parts had ...
LEMMA MergeCompletes ==
  ASSUME NEW m \in Seq(Line), NEW t \in Seq(Line), NEW texts \in SUBSET Seq(Line),
         Complete(m, texts)
  PROVE  Complete(Merge(m, t), texts \cup {t})
<1> DEFINE M == Merge(m, t)
<1>1. /\ M \in Seq(Line) /\ IsBlock(m, M) /\ IsBlock(t, M)
      /\ Range(M) \subseteq Range(m) \cup Range(t)
  BY MergeKeeps
<1> HIDE DEF M
<1>2. ASSUME NEW u \in texts \cup {t} PROVE IsBlock(u, M)
  <2>1. CASE u = t
    BY <1>1, <2>1
  <2>2. CASE u \in texts
    <3>1. u \in Seq(Line) /\ IsBlock(u, m)
      BY <2>2 DEF Complete
    <3> QED
      BY <1>1, <3>1, BlockOfBlock
  <2> QED
    BY <2>1, <2>2
<1>3. ASSUME NEW x \in Range(M) PROVE \E u \in texts \cup {t} : x \in Range(u)
  BY <1>1 DEF Complete
<1>4. Complete(M, texts \cup {t})
  BY <1>2, <1>3 DEF Complete
<1> QED
  BY <1>4 DEF M

\* ... and so has one of any number of parts, each normalized.
LEMMA MergeTextCompletes ==
  ASSUME NEW texts \in Seq(Seq(Line))
  PROVE  /\ MergeText(texts) \in Seq(Line)
         /\ Complete(MergeText(texts), {NormalizeText(t) : t \in Range(texts)})
<1> DEFINE N == Len(texts)
           part == [i \in 1 .. N |-> NormalizeText(texts[i])]
           step == [u \in Seq(Line) \X (1 .. N) |-> Merge(u[1], part[u[2]])]
<1>1. N \in Nat /\ \A i \in 1 .. N : part[i] \in Seq(Line)
  <2>1. \A i \in 1 .. N : texts[i] \in Seq(Line)
    BY LenProperties, ElementOfSeq
  <2> QED
    BY <2>1, LenProperties, NormalizeTextType
<1>parts. \A i \in 1 .. N : part[i] = NormalizeText(texts[i])
  OBVIOUS
<1> HIDE DEF part
<1>2. step \in [Seq(Line) \X (1 .. N) -> Seq(Line)]
  BY <1>1, MergeKeeps
<1>3. PICK f \in [0 .. N -> Seq(Line)] :
        f[0] = <<>> /\ \A i \in 1 .. N : f[i] = step[<<f[i - 1], i>>]
  <2>1. <<>> \in Seq(Line)
    BY EmptySeq
  <2>2. IsStep(step, Seq(Line), N)
    BY <1>2 DEF IsStep
  <2> HIDE DEF step, N
  <2>3. \E f \in [0 .. N -> Seq(Line)] : IsRun(f, <<>>, step, N)
    BY <1>1, <2>1, <2>2, Recursion
  <2> QED
    BY <2>3 DEF IsRun
<1>4. \A i \in 1 .. N : f[i] = Merge(f[i - 1], part[i])
  <2>1. ASSUME NEW i \in 1 .. N PROVE f[i] = Merge(f[i - 1], part[i])
    <3>1. i - 1 \in 0 .. N
      BY <1>1
    <3>2. <<f[i - 1], i>> \in Seq(Line) \X (1 .. N)
      BY <1>3, <3>1
    <3>3. f[i] = step[<<f[i - 1], i>>]
      BY <1>3
    <3> QED
      BY <3>2, <3>3
  <2> QED
    BY <2>1
<1> HIDE DEF step
<1> DEFINE Going(g, i) == IF i = 0 THEN <<>> ELSE Merge(g[i - 1], NormalizeText(texts[i]))
           M == CHOOSE g : g = [i \in 0 .. N |-> Going(g, i)]
<1>5. MergeText(texts) = M[N]
  BY DEF MergeText
<1>6. f = [i \in 0 .. N |-> Going(f, i)]
  <2>1. \A i \in 0 .. N : i = 0 \/ i \in 1 .. N
    BY <1>1
  <2>2. \A i \in 0 .. N : f[i] = Going(f, i)
    BY <1>parts, <1>3, <1>4, <2>1
  <2> HIDE DEF Going, N
  <2>3. f = [i \in 0 .. N |-> f[i]]
    BY <1>3
  <2> QED
    BY <2>2, <2>3
<1>7. M = [i \in 0 .. N |-> Going(M, i)]
  <2> HIDE DEF Going, N
  <2> QED
    BY <1>6
<1>8. \A i \in 0 .. N : M[i] = Going(M, i)
  <2> HIDE DEF Going, N, M
  <2> QED
    BY <1>7
<1> HIDE DEF M
<1> DEFINE Read(i) == {part[j] : j \in 1 .. i}
           T == {i \in 0 .. N : M[i] \in Seq(Line) /\ Complete(M[i], Read(i))}
<1>9. 0 \in T
  <2>1. M[0] = <<>> /\ <<>> \in Seq(Line)
    BY <1>1, <1>8, EmptySeq
  <2>2. Range(<<>>) = {} /\ Read(0) = {}
    <3>1. 1 .. 0 = {} /\ DOMAIN <<>> = {}
      BY EmptySeq
    <3> QED
      BY <3>1 DEF Range
  <2> HIDE DEF Read
  <2>3. Complete(<<>>, Read(0))
    BY <2>2 DEF Complete
  <2>4. M[0] \in Seq(Line) /\ Complete(M[0], Read(0)) /\ 0 \in 0 .. N
    BY <1>1, <2>1, <2>3
  <2> QED
    BY <2>4
<1>10. ASSUME NEW i \in 0 .. N, i < N, i \in T PROVE i + 1 \in T
  <2> DEFINE h == i + 1
  <2>1. h \in 1 .. N /\ h \in 0 .. N /\ h - 1 = i /\ h # 0
    BY <1>1, <1>10
  <2>2. Read(h) = Read(i) \cup {part[h]} /\ Read(i) \in SUBSET Seq(Line)
    <3>1. 1 .. h = (1 .. i) \cup {h} /\ 1 .. i \subseteq 1 .. N
      BY <1>1, <1>10
    <3> QED
      BY <1>1, <3>1
  <2> HIDE DEF h, Read
  <2>3. M[i] \in Seq(Line) /\ Complete(M[i], Read(i))
    BY <1>10
  <2>4. M[h] = Merge(M[i], part[h])
    BY <1>parts, <1>8, <2>1
  <2>5. M[h] \in Seq(Line) /\ Complete(M[h], Read(h))
    <3>1. part[h] \in Seq(Line)
      BY <1>1, <2>1
    <3> HIDE DEF Going, N
    <3>2. Merge(M[i], part[h]) \in Seq(Line)
      BY <2>3, <3>1, MergeKeeps
    <3>3. Complete(Merge(M[i], part[h]), Read(i) \cup {part[h]})
      BY <2>2, <2>3, <3>1, MergeCompletes
    <3> QED
      BY <2>2, <2>4, <3>2, <3>3
  <2> QED
    BY <2>1, <2>5 DEF h
<1>11. T \in SUBSET (0 .. N)
  OBVIOUS
<1> HIDE DEF T
<1>12. T = 0 .. N
  BY <1>1, <1>9, <1>10, <1>11, UpTo
<1>13. M[N] \in Seq(Line) /\ Complete(M[N], Read(N))
  BY <1>1, <1>12 DEF T
<1>14. Read(N) = {NormalizeText(t) : t \in Range(texts)}
  <2>1. \A x : x \in Range(texts) <=> \E i \in 1 .. N : texts[i] = x
    BY RangeIs
  <2>2. Read(N) = {NormalizeText(texts[i]) : i \in 1 .. N}
    BY <1>parts
  <2> QED
    BY <2>1, <2>2
<1> QED
  BY <1>5, <1>13, <1>14

\* suffixPrefixOverlap computes the longest overlap, for any two texts: the
\* table of Knuth, Morris and Pratt only saves time.
THEOREM OverlapIsTheLongest ==
  ASSUME NEW l \in Seq(Line), NEW r \in Seq(Line), r # <<>>
  PROVE  SuffixPrefixOverlap(l, r) = LongestOverlap(l, r)
<1> DEFINE fits == {n \in 0 .. Len(r) :
                      n <= Len(l) /\ SubSeq(l, Len(l) - n + 1, Len(l)) = SubSeq(r, 1, n)}
           o == SuffixPrefixOverlap(l, r)
<1>1. Len(l) \in Nat /\ Len(r) \in Nat
  BY LenProperties
<1>2. ASSUME NEW n \in 0 .. Len(r), n <= Len(l)
      PROVE  SubSeq(l, Len(l) - n + 1, Len(l)) = SubSeq(r, 1, n) <=> Fits(l, Len(l), r, n)
  <2> DEFINE a == SubSeq(l, (Len(l) - n) + 1, Len(l))
             b == SubSeq(r, 1, n)
  <2>1. /\ (Len(l) - n) + 1 \in 1 .. Len(l) + 1
        /\ Len(l) \in ((Len(l) - n) + 1) - 1 .. Len(l)
        /\ (Len(l) - ((Len(l) - n) + 1)) + 1 = n
        /\ \A j \in 1 .. n : (((Len(l) - n) + 1) + j) - 1 = (Len(l) - n) + j
    BY <1>1, <1>2
  <2>2. /\ a \in Seq(Line) /\ Len(a) = n
        /\ \A j \in 1 .. n : a[j] = l[(Len(l) - n) + j]
    <3>1. /\ a \in Seq(Line) /\ Len(a) = (Len(l) - ((Len(l) - n) + 1)) + 1
          /\ \A j \in 1 .. (Len(l) - ((Len(l) - n) + 1)) + 1 :
               a[j] = l[(((Len(l) - n) + 1) + j) - 1]
      BY <2>1, Sub
    <3> HIDE DEF a
    <3> QED
      BY <2>1, <3>1
  <2>3. /\ 1 \in 1 .. Len(r) + 1 /\ n \in 1 - 1 .. Len(r) /\ (n - 1) + 1 = n
        /\ \A j \in 1 .. n : (1 + j) - 1 = j
    BY <1>1, <1>2
  <2>4. b \in Seq(Line) /\ Len(b) = n /\ \A j \in 1 .. n : b[j] = r[j]
    <3>1. /\ b \in Seq(Line) /\ Len(b) = (n - 1) + 1
          /\ \A j \in 1 .. (n - 1) + 1 : b[j] = r[(1 + j) - 1]
      BY <2>3, Sub
    <3> HIDE DEF b
    <3> QED
      BY <2>3, <3>1
  <2> HIDE DEF a, b
  <2>5. a = b <=> \A j \in 1 .. n : a[j] = b[j]
    BY <2>2, <2>4, SeqEqual
  <2>6. n \in 0 .. Len(l)
    BY <1>1, <1>2
  <2>7. Fits(l, Len(l), r, n) <=> \A j \in 1 .. n : l[(Len(l) - n) + j] = r[j]
    BY <2>6 DEF Fits
  <2>8. a = b <=> Fits(l, Len(l), r, n)
    BY <2>2, <2>4, <2>5, <2>7
  <2> QED
    BY <2>8 DEF a, b
<1>3. \A n \in 0 .. Len(r) : n \in fits <=> Fits(l, Len(l), r, n)
  BY <1>1, <1>2 DEF Fits
<1>4. Longest(l, Len(l), r, Len(r), o)
  BY OverlapIs
<1>5. LongestOverlap(l, r) = CHOOSE n \in fits : \A m \in fits : m <= n
  BY DEF LongestOverlap
<1>6. \A n \in fits : n \in 0 .. Len(r)
  OBVIOUS
<1> HIDE DEF fits, o
<1>7. o \in fits /\ \A m \in fits : m <= o
  BY <1>3, <1>4, <1>6 DEF Longest
<1>8. ASSUME NEW n \in fits, \A m \in fits : m <= n PROVE n = o
  BY <1>1, <1>6, <1>7, <1>8
<1>9. o = CHOOSE n \in fits : \A m \in fits : m <= n
  BY <1>7, <1>8
<1> QED
  BY <1>5, <1>9 DEF o

(***************************************************************************)
(* The characters of a text, and what is shown of it                       *)
(***************************************************************************)
LEMMA SizesAre ==
  ASSUME NEW t \in Seq(Line)
  PROVE  /\ Sizes(t) \in [0 .. Len(t) -> Nat]
         /\ Sizes(t)[0] = 0
         /\ \A i \in 1 .. Len(t) : Sizes(t)[i] >= Sizes(t)[i - 1] + 2
<1> DEFINE N == Len(t)
           step == [u \in Nat \X (1 .. N) |-> u[1] + Chars[t[u[2]]] + 1]
<1>1. N \in Nat /\ \A i \in 1 .. N : Chars[t[i]] \in Nat /\ Chars[t[i]] >= 1
  <2>1. \A i \in 1 .. N : t[i] \in Line
    BY LenProperties, ElementOfSeq
  <2> QED
    BY <2>1, LenProperties, LinesDiffer
<1>2. step \in [Nat \X (1 .. N) -> Nat]
  BY <1>1
<1>3. PICK f \in [0 .. N -> Nat] :
        f[0] = 0 /\ \A i \in 1 .. N : f[i] = step[<<f[i - 1], i>>]
  <2>1. IsStep(step, Nat, N)
    BY <1>2 DEF IsStep
  <2> HIDE DEF step, N
  <2>2. \E f \in [0 .. N -> Nat] : IsRun(f, 0, step, N)
    BY <1>1, <2>1, Recursion
  <2> QED
    BY <2>2 DEF IsRun
<1>4. \A i \in 1 .. N : f[i] = f[i - 1] + Chars[t[i]] + 1
  <2>1. ASSUME NEW i \in 1 .. N PROVE f[i] = f[i - 1] + Chars[t[i]] + 1
    <3>1. i - 1 \in 0 .. N
      BY <1>1
    <3>2. <<f[i - 1], i>> \in Nat \X (1 .. N)
      BY <1>3, <3>1
    <3>3. f[i] = step[<<f[i - 1], i>>]
      BY <1>3
    <3> QED
      BY <3>2, <3>3
  <2> QED
    BY <2>1
<1> HIDE DEF step
<1> DEFINE Going(g, i) == IF i = 0 THEN 0 ELSE g[i - 1] + Chars[t[i]] + 1
           M == CHOOSE g : g = [i \in 0 .. N |-> Going(g, i)]
<1>5. Sizes(t) = M
  BY DEF Sizes
<1>6. f = [i \in 0 .. N |-> Going(f, i)]
  <2>1. \A i \in 0 .. N : i = 0 \/ i \in 1 .. N
    BY <1>1
  <2>2. \A i \in 0 .. N : f[i] = Going(f, i)
    BY <1>3, <1>4, <2>1
  <2> HIDE DEF Going, N
  <2>3. f = [i \in 0 .. N |-> f[i]]
    BY <1>3
  <2> QED
    BY <2>2, <2>3
<1>7. M = [i \in 0 .. N |-> Going(M, i)]
  <2> HIDE DEF Going, N
  <2> QED
    BY <1>6
<1>8. \A i \in 0 .. N : M[i] = Going(M, i)
  <2> HIDE DEF Going, N, M
  <2> QED
    BY <1>7
<1>9. M = [i \in 0 .. N |-> M[i]]
  <2> HIDE DEF Going, N
  <2> QED
    BY <1>7
<1> HIDE DEF M
<1>10. M[0] = 0 /\ \A i \in 1 .. N : M[i] = M[i - 1] + Chars[t[i]] + 1
  <2>1. 0 \in 0 .. N /\ \A i \in 1 .. N : i \in 0 .. N /\ i # 0
    BY <1>1
  <2> QED
    BY <1>8, <2>1
<1>11. M \in [0 .. N -> Nat]
  <2>1. \A i \in 1 .. N : M[i - 1] \in Nat => M[i] \in Nat
    BY <1>1, <1>10
  <2>2. M[0] \in Nat
    BY <1>10
  <2> HIDE DEF Going, N
  <2> QED
    BY <1>1, <1>9, <2>1, <2>2, StaysIn
<1>12. ASSUME NEW i \in 1 .. N PROVE M[i] >= M[i - 1] + 2
  <2>1. i - 1 \in 0 .. N
    BY <1>1
  <2>2. M[i - 1] \in Nat /\ Chars[t[i]] \in Nat /\ Chars[t[i]] >= 1
    BY <1>1, <1>11, <2>1
  <2>3. M[i] = M[i - 1] + Chars[t[i]] + 1
    BY <1>10
  <2> QED
    BY <2>2, <2>3
<1> QED
  BY <1>5, <1>10, <1>11, <1>12

\* The lines before the last leave room for it.
LEMMA SizeIs ==
  ASSUME NEW t \in Seq(Line)
  PROVE  /\ Size(t) \in Nat
         /\ \A i \in 1 .. Len(t) : Sizes(t)[i - 1] \in Nat /\ Sizes(t)[i - 1] + 2 <= Size(t)
<1> DEFINE N == Len(t)
           f == Sizes(t)
           T == {j \in 0 .. N : \A i \in 1 .. j : f[i - 1] + 2 <= f[j]}
<1>1. /\ N \in Nat /\ f \in [0 .. N -> Nat]
      /\ \A i \in 1 .. N : f[i] >= f[i - 1] + 2
  BY LenProperties, SizesAre
<1>2. Size(t) = f[N]
  BY DEF Size
<1> HIDE DEF N, f
<1>3. 0 \in T
  BY <1>1
<1>4. ASSUME NEW j \in 0 .. N, j < N, j \in T PROVE j + 1 \in T
  <2>1. /\ j + 1 \in 1 .. N /\ j + 1 \in 0 .. N /\ (j + 1) - 1 = j
        /\ f[j] \in Nat /\ f[j + 1] \in Nat
    BY <1>1, <1>4
  <2>2. f[j + 1] >= f[j] + 2
    BY <1>1, <2>1
  <2>3. ASSUME NEW i \in 1 .. j + 1 PROVE f[i - 1] + 2 <= f[j + 1]
    <3>1. i \in 1 .. j \/ i = j + 1
      BY <1>1
    <3>2. i - 1 \in 0 .. N
      BY <1>1, <2>1
    <3>3. f[i - 1] \in Nat
      BY <1>1, <3>2
    <3>4. i \in 1 .. j => f[i - 1] + 2 <= f[j]
      BY <1>4
    <3> QED
      BY <2>1, <2>2, <3>1, <3>3, <3>4
  <2> QED
    BY <2>1, <2>3
<1>5. T \in SUBSET (0 .. N)
  OBVIOUS
<1> HIDE DEF T
<1>6. T = 0 .. N
  BY <1>1, <1>3, <1>4, <1>5, UpTo
<1>7. N \in 0 .. N /\ N \in T /\ f[N] \in Nat
  BY <1>1, <1>6
<1>8. \A i \in 1 .. N : i - 1 \in 0 .. N
  BY <1>1
<1>9. \A i \in 1 .. N : f[i - 1] \in Nat /\ f[i - 1] + 2 <= f[N]
  BY <1>1, <1>7, <1>8 DEF T
<1> QED
  BY <1>2, <1>7, <1>9 DEF N, f

\* What is shown of a text is its beginning, which is not empty, and all of
\* it unless it is said to be cut.
LEMMA TruncateKeeps ==
  ASSUME NEW t \in Seq(Line)
  PROVE  /\ Truncate(t) \in Excerpts
         /\ IsPrefix(Truncate(t).text, t)
         /\ t # <<>> => Truncate(t).text # <<>>
         /\ ~ Truncate(t).cut => Truncate(t).text = t
<1> DEFINE N == Len(t)
           K == {i \in 1 .. N : Sizes(t)[i - 1] < MaxChars}
           k == Cardinality(K)
           e == SubSeq(t, 1, k)
           cut == Size(t) - 1 > MaxChars
<1>1. /\ N \in Nat /\ DOMAIN t = 1 .. N
      /\ IsFiniteSet(1 .. N) /\ Cardinality(1 .. N) = N
  <2>1. N \in Nat /\ DOMAIN t = 1 .. N
    BY LenProperties
  <2>2. 1 \in Int /\ N \in Int /\ (N - 1) + 1 = N /\ (1 > N => N = 0)
    BY <2>1
  <2> HIDE DEF N
  <2>3. /\ IsFiniteSet(1 .. N)
        /\ Cardinality(1 .. N) = IF 1 > N THEN 0 ELSE N - 1 + 1
    BY <2>2, FS_Interval
  <2> QED
    BY <2>1, <2>2, <2>3
<1>2. Truncate(t) = [text |-> e, cut |-> cut]
  BY <1>1 DEF Truncate
<1>3. /\ Size(t) \in Nat
      /\ \A i \in 1 .. N : Sizes(t)[i - 1] \in Nat /\ Sizes(t)[i - 1] + 2 <= Size(t)
  BY SizeIs
<1>4. K \in SUBSET (1 .. N)
  OBVIOUS
<1>5. N # 0 => 1 \in K
  <2>1. Sizes(t)[0] = 0 /\ MaxChars \in Nat /\ MaxChars # 0
    BY SizesAre, FetchSizes
  <2> QED
    BY <1>1, <2>1
<1>6. ~ cut => K = 1 .. N
  <2>1. MaxChars \in Nat
    BY FetchSizes
  <2> QED
    BY <1>3, <2>1
<1> HIDE DEF K, cut, N
<1>7. k \in 0 .. N /\ (N # 0 => k # 0) /\ (~ cut => k = N)
  <2>1. IsFiniteSet(K) /\ k <= N
    <3> DEFINE D == 1 .. N
    <3>1. IsFiniteSet(D) /\ Cardinality(D) = N /\ K \in SUBSET D
      BY <1>1, <1>4
    <3> HIDE DEF D
    <3>2. IsFiniteSet(K) /\ Cardinality(K) <= Cardinality(D)
      BY <3>1, FS_Subset
    <3> QED
      BY <3>1, <3>2
  <2>2. k \in Nat /\ (K # {} => k # 0)
    BY <2>1, FS_CardinalityType, FS_EmptySet
  <2>3. ~ cut => k = N
    BY <1>1, <1>6
  <2> HIDE DEF k
  <2> QED
    BY <1>1, <1>5, <2>1, <2>2, <2>3
<1> HIDE DEF k
<1>a. N = Len(t)
  BY DEF N
<1>b. Len(t) \in Nat /\ k \in Nat /\ k <= Len(t)
  <2>1. N \in Nat
    BY <1>1
  <2>2. k \in 0 .. N
    BY <1>7
  <2>3. k \in Nat /\ k <= N
    BY <2>1, <2>2
  <2> QED
    BY <1>a, <2>1, <2>3
<1>8. e \in Seq(Line) /\ Len(e) = k
  <2>1. 1 \in 1 .. Len(t) + 1 /\ k \in 1 - 1 .. Len(t) /\ (k - 1) + 1 = k
    BY <1>b
  <2>2. e \in Seq(Line) /\ Len(e) = (k - 1) + 1
    BY <2>1, Sub
  <2> HIDE DEF e
  <2> QED
    BY <2>1, <2>2
<1>9. SubSeq(e, 1, k) = e
  <2> HIDE DEF e
  <2> QED
    BY <1>8, SubSeqFull
<1>10. IsPrefix(e, t)
  <2> HIDE DEF e
  <2>1. SubSeq(e, 1, Len(e)) = SubSeq(t, 1, Len(e))
    BY <1>8, <1>9 DEF e
  <2> QED
    BY <1>8, <1>b, <2>1 DEF IsPrefix
<1>11. k = N => e = t
  BY SubSeqFull DEF N
<1>12. k # 0 => e # <<>>
  <2> HIDE DEF e
  <2> QED
    BY <1>8, EmptySeq
<1>13. t # <<>> => N # 0
  BY EmptySeq DEF N
<1>14. cut \in BOOLEAN
  BY DEF cut
<1> HIDE DEF e
<1> QED
  BY <1>2, <1>7, <1>8, <1>10, <1>11, <1>12, <1>13, <1>14 DEF Excerpts

(***************************************************************************)
(* extractCandidates                                                       *)
(***************************************************************************)
\* Documents of any length, with texts of any length.
Found == Seq([source : DOMAIN CandidatePriority, text : Seq(Line)])

\* The order of the candidates is a strict and total one.
LEMMA PrecedesOrders ==
  ASSUME NEW d \in Found, NEW i \in DOMAIN d, NEW j \in DOMAIN d, NEW k \in DOMAIN d
  PROVE  /\ ~ (Precedes(d, i, j) /\ Precedes(d, j, i))
         /\ Precedes(d, i, j) /\ Precedes(d, j, k) => Precedes(d, i, k)
         /\ i = j \/ Precedes(d, i, j) \/ Precedes(d, j, i)
<1>1. ASSUME NEW e \in DOMAIN d
      PROVE  e \in Nat /\ CandidatePriority[d[e].source] \in Nat /\ Size(d[e].text) \in Nat
  <2>1. DOMAIN d = 1 .. Len(d) /\ Len(d) \in Nat
    BY LenProperties DEF Found
  <2>2. d[e] \in [source : DOMAIN CandidatePriority, text : Seq(Line)]
    BY <2>1, ElementOfSeq DEF Found
  <2>3. \A s \in DOMAIN CandidatePriority : CandidatePriority[s] \in Nat
    BY DEF CandidatePriority
  <2>4. d[e].text \in Seq(Line) /\ d[e].source \in DOMAIN CandidatePriority
    BY <2>2
  <2>5. Size(d[e].text) \in Nat
    BY <2>4, SizeIs
  <2> QED
    BY <2>1, <2>3, <2>4, <2>5
<1> QED
  BY <1>1 DEF Precedes

\* Each candidate has a rank of its own, and each rank a candidate.
LEMMA RankIs ==
  ASSUME NEW d \in Found
  PROVE  /\ \A i \in DOMAIN d : Rank(d, i) \in DOMAIN d
         /\ \A r \in DOMAIN d : \E i \in DOMAIN d : Rank(d, i) = r
         /\ \A i, j \in DOMAIN d : Rank(d, i) = Rank(d, j) => i = j
<1> DEFINE D == DOMAIN d
           Upto(i) == {j \in D : j = i \/ Precedes(d, j, i)}
           rank == [i \in D |-> Rank(d, i)]
<1>1. Len(d) \in Nat /\ D = 1 .. Len(d) /\ IsFiniteSet(D) /\ Cardinality(D) = Len(d)
  <2>1. Len(d) \in Nat /\ D = 1 .. Len(d)
    BY LenProperties DEF Found
  <2>2. IsFiniteSet(1 .. Len(d)) /\ Cardinality(1 .. Len(d)) = Len(d)
    <3> DEFINE L == Len(d)
    <3>1. 1 \in Int /\ L \in Int /\ (L - 1) + 1 = L /\ (1 > L => L = 0)
      BY <2>1
    <3> HIDE DEF L
    <3>2. /\ IsFiniteSet(1 .. L)
          /\ Cardinality(1 .. L) = IF 1 > L THEN 0 ELSE L - 1 + 1
      BY <3>1, FS_Interval
    <3> QED
      BY <3>1, <3>2 DEF L
  <2> QED
    BY <2>1, <2>2
<1>2. ASSUME NEW i \in D
      PROVE  /\ IsFiniteSet(Upto(i)) /\ Cardinality(Upto(i)) \in Nat
             /\ Rank(d, i) = Cardinality(Upto(i)) /\ Rank(d, i) \in D
  <2>1. Rank(d, i) = Cardinality(Upto(i)) /\ Upto(i) \in SUBSET D /\ Upto(i) # {}
    BY DEF Rank
  <2> HIDE DEF Upto, D
  <2>2. IsFiniteSet(Upto(i)) /\ Cardinality(Upto(i)) <= Cardinality(D)
    BY <1>1, <2>1, FS_Subset
  <2>3. Cardinality(Upto(i)) \in Nat /\ Cardinality(Upto(i)) # 0
    BY <2>1, <2>2, FS_CardinalityType, FS_EmptySet
  <2>4. Cardinality(Upto(i)) \in 1 .. Len(d)
    BY <1>1, <2>2, <2>3
  <2> QED
    BY <1>1, <2>1, <2>2, <2>3, <2>4
<1>3. ASSUME NEW i \in D, NEW j \in D, Precedes(d, i, j) PROVE Rank(d, i) < Rank(d, j)
  <2>1. Upto(i) \in SUBSET Upto(j)
    BY <1>3, PrecedesOrders
  <2>2. j \in Upto(j) /\ j \notin Upto(i)
    BY <1>3, PrecedesOrders
  <2> HIDE DEF Upto, D
  <2>3. /\ Cardinality(Upto(i)) <= Cardinality(Upto(j))
        /\ Cardinality(Upto(i)) = Cardinality(Upto(j)) => Upto(i) = Upto(j)
    BY <1>2, <2>1, FS_Subset
  <2> QED
    BY <1>2, <2>2, <2>3
<1>4. ASSUME NEW i \in D, NEW j \in D, i # j PROVE Rank(d, i) # Rank(d, j)
  <2>1. Rank(d, i) \in Nat /\ Rank(d, j) \in Nat
    BY <1>2
  <2>2. Precedes(d, i, j) \/ Precedes(d, j, i)
    BY <1>4, PrecedesOrders
  <2> QED
    BY <1>3, <2>1, <2>2
<1>5. rank \in [D -> D]
  BY <1>2
<1>6. \A i \in D : rank[i] = Rank(d, i)
  OBVIOUS
<1> HIDE DEF D, rank
<1>7. rank \in Injection(D, D)
  <2>1. \A i, j \in D : rank[i] = rank[j] => i = j
    BY <1>4, <1>6
  <2>2. DOMAIN rank = D
    BY <1>5
  <2> QED
    BY <1>5, <2>1, <2>2 DEF Injection, IsInjective
<1>8. rank \in Surjection(D, D)
  BY <1>1, <1>7, FS_Injection
<1>9. \A r \in D : \E i \in D : rank[i] = r
  BY <1>8 DEF Surjection
<1> QED
  BY <1>2, <1>4, <1>6, <1>9 DEF D

\* The texts that were found.
TextsOf(d) == {d[i].text : i \in DOMAIN d}

\* Sorting neither loses nor adds any.
LEMMA CandidatesAreTexts ==
  ASSUME NEW d \in Found
  PROVE  /\ ExtractCandidates(d) \in Seq(Seq(Line))
         /\ Range(ExtractCandidates(d)) = TextsOf(d)
         /\ TextsOf(d) \in SUBSET Seq(Line)
<1> DEFINE D == DOMAIN d
           place(r) == CHOOSE i \in D : Rank(d, i) = r
           e == [r \in D |-> d[place(r)].text]
<1>1. ExtractCandidates(d) = e
  BY DEF ExtractCandidates
<1>2. \A i \in D : Rank(d, i) \in D
  BY RankIs
<1>3. ASSUME NEW r \in D PROVE place(r) \in D /\ Rank(d, place(r)) = r
  BY RankIs
<1> HIDE DEF place
<1>4. Len(d) \in Nat /\ D = 1 .. Len(d)
  BY LenProperties DEF Found
<1>5. \A i \in D : d[i].text \in Seq(Line)
  <2>1. ASSUME NEW i \in D PROVE d[i].text \in Seq(Line)
    <3>1. d[i] \in [source : DOMAIN CandidatePriority, text : Seq(Line)]
      BY <1>4, ElementOfSeq DEF Found
    <3> QED
      BY <3>1
  <2> QED
    BY <2>1
<1>6. e \in Seq(Seq(Line)) /\ DOMAIN e = D /\ \A r \in D : e[r] = d[place(r)].text
  <2>1. \A r \in 1 .. Len(d) : d[place(r)].text \in Seq(Line)
    BY <1>3, <1>4, <1>5
  <2>2. e = [r \in 1 .. Len(d) |-> d[place(r)].text]
    BY <1>4
  <2>3. e \in Seq(Seq(Line))
    BY <1>4, <2>1, <2>2, IsASeq
  <2> QED
    BY <2>3
<1> HIDE DEF e
<1>7. ASSUME NEW i \in D PROVE place(Rank(d, i)) = i
  <2>1. \A j, k \in D : Rank(d, j) = Rank(d, k) => j = k
    BY RankIs
  <2> QED
    BY <1>2, <1>3, <2>1
<1>8. Range(e) = TextsOf(d)
  <2>1. ASSUME NEW x \in Range(e) PROVE x \in TextsOf(d)
    <3>1. PICK r \in D : e[r] = x
      BY <1>6 DEF Range
    <3> QED
      BY <1>3, <1>6, <3>1 DEF TextsOf
  <2>2. ASSUME NEW i \in D PROVE d[i].text \in Range(e)
    <3>1. Rank(d, i) \in D /\ e[Rank(d, i)] = d[i].text
      BY <1>2, <1>6, <1>7
    <3> QED
      BY <1>6, <3>1 DEF Range
  <2> QED
    BY <2>1, <2>2 DEF TextsOf
<1> QED
  BY <1>1, <1>5, <1>6, <1>8 DEF TextsOf

\* Whatever is found in a document, and in whatever order its candidates are
\* merged: the text of the page has each of the texts as mergeText makes it,
\* unescaped once more and without the lines that are blank then, with its
\* lines together, and no line besides.
THEOREM CandidatesMerge ==
  ASSUME NEW d \in Found
  PROVE  /\ MergeText(ExtractCandidates(d)) \in Seq(Line)
         /\ Complete(MergeText(ExtractCandidates(d)),
                     {NormalizeText(t) : t \in TextsOf(d)})
<1>1. /\ ExtractCandidates(d) \in Seq(Seq(Line))
      /\ Range(ExtractCandidates(d)) = TextsOf(d)
  BY CandidatesAreTexts
<1> DEFINE e == ExtractCandidates(d)
<1> HIDE DEF e
<1>2. /\ MergeText(e) \in Seq(Line)
      /\ Complete(MergeText(e), {NormalizeText(t) : t \in Range(e)})
  BY <1>1, MergeTextCompletes DEF e
<1> QED
  BY <1>1, <1>2 DEF e

-----------------------------------------------------------------------------
(* The links.                                                              *)

LinkState == [links : Seq(Link), looked : Nat, truncated : BOOLEAN]

\* What IsHonest asks, once the links in seen have been looked at.
Honest(seen, v) ==
  /\ Len(v.links) <= MaxLinks
  /\ Range(v.links) \subseteq GoodLink \cap seen
  /\ \A i, j \in DOMAIN v.links : v.links[i] = v.links[j] => i = j
  /\ ~ v.truncated => GoodLink \cap seen \subseteq Range(v.links)

LEMMA ValidateType ==
  ASSUME NEW v \in LinkState, NEW x \in Link, NEW inTime
  PROVE  Validate(v, x, inTime) \in LinkState
<1>1. v.links \in Seq(Link) /\ v.looked \in Nat
  BY DEF LinkState
<1>2. Append(v.links, x) \in Seq(Link) /\ v.looked + 1 \in Nat
  BY <1>1, AppendProperties
<1> QED
  BY <1>2 DEF Validate, LinkState

\* A link that is taken is new, good, and not one too many; one that is left
\* out is not good or was taken before, unless the rest is cut off.
LEMMA ValidateIsHonest ==
  ASSUME NEW v \in LinkState, NEW x \in Link, NEW inTime, NEW seen, Honest(seen, v)
  PROVE  Honest(seen \cup {x}, Validate(v, x, inTime))
<1> DEFINE w == Validate(v, x, inTime)
           n == Len(v.links)
<1> SUFFICES Honest(seen \cup {x}, w)
  OBVIOUS
<1>1. v.links \in Seq(Link) /\ n \in Nat /\ DOMAIN v.links = 1 .. n
  BY LenProperties DEF LinkState
<1>2. CASE v.truncated
  <2>1. w = v
    BY <1>2 DEF Validate
  <2> QED
    BY <1>2, <2>1 DEF Honest
<1>3. CASE /\ ~ v.truncated
           /\ v.looked >= MaxCandidates \/ Len(v.links) >= MaxLinks \/ v.looked >= inTime
  <2>1. w.links = v.links /\ w.truncated
    BY <1>3 DEF Validate, LinkState
  <2> HIDE DEF w
  <2> QED
    BY <2>1 DEF Honest
<1>4. CASE /\ ~ v.truncated
           /\ ~ (v.looked >= MaxCandidates \/ Len(v.links) >= MaxLinks \/ v.looked >= inTime)
  <2>1. w = [v EXCEPT !.looked = @ + 1,
                      !.links = IF x \in GoodLink \ Range(@) THEN Append(@, x) ELSE @]
    BY <1>4 DEF Validate
  <2>2. CASE x \in GoodLink \ Range(v.links)
    <3>1. w.links = Append(v.links, x) /\ w.truncated = v.truncated
      BY <2>1, <2>2 DEF LinkState
    <3>2. /\ Len(w.links) = n + 1
          /\ DOMAIN w.links = 1 .. n + 1
          /\ \A i \in 1 .. n : w.links[i] = v.links[i]
          /\ w.links[n + 1] = x
      BY <1>1, <3>1, AppendProperties
    <3> HIDE DEF w
    <3>3. \A i \in DOMAIN v.links : v.links[i] # x
      BY <2>2 DEF Range
    <3>4. Range(w.links) = Range(v.links) \cup {x}
      <4>1. ASSUME NEW y \in Range(w.links) PROVE y \in Range(v.links) \cup {x}
        <5>1. PICK i \in 1 .. n + 1 : w.links[i] = y
          BY <3>2 DEF Range
        <5>2. i \in 1 .. n \/ i = n + 1
          BY <1>1
        <5> QED
          BY <1>1, <3>2, <5>1, <5>2 DEF Range
      <4>2. ASSUME NEW i \in 1 .. n PROVE v.links[i] \in Range(w.links)
        <5>1. i \in 1 .. n + 1 /\ w.links[i] = v.links[i]
          BY <1>1, <3>2
        <5> QED
          BY <3>2, <5>1 DEF Range
      <4>3. x \in Range(w.links)
        <5>1. n + 1 \in 1 .. n + 1
          BY <1>1
        <5> QED
          BY <3>2, <5>1 DEF Range
      <4> QED
        BY <1>1, <4>1, <4>2, <4>3 DEF Range
    <3>5. ASSUME NEW i \in DOMAIN w.links, NEW j \in DOMAIN w.links, w.links[i] = w.links[j]
          PROVE  i = j
      <4>1. (i \in 1 .. n \/ i = n + 1) /\ (j \in 1 .. n \/ j = n + 1)
        BY <1>1, <3>2, <3>5
      <4>2. CASE i \in 1 .. n /\ j \in 1 .. n
        BY <1>1, <3>2, <3>5, <4>2 DEF Honest
      <4>3. CASE ~ (i \in 1 .. n /\ j \in 1 .. n)
        BY <1>1, <3>2, <3>3, <3>5, <4>1, <4>3
      <4> QED
        BY <4>2, <4>3
    <3>6. Len(w.links) <= MaxLinks
      BY <1>1, <1>4, <3>2, LinkSizes
    <3>7. Range(w.links) \subseteq GoodLink \cap (seen \cup {x})
      BY <2>2, <3>4 DEF Honest
    <3>8. GoodLink \cap (seen \cup {x}) \subseteq Range(w.links)
      BY <1>4, <3>4 DEF Honest
    <3> QED
      BY <3>5, <3>6, <3>7, <3>8 DEF Honest
  <2>3. CASE x \notin GoodLink \ Range(v.links)
    <3>1. w.links = v.links /\ w.truncated = v.truncated
      BY <2>1, <2>3 DEF LinkState
    <3> HIDE DEF w
    <3> QED
      BY <2>3, <3>1 DEF Honest
  <2> QED
    BY <2>2, <2>3
<1> QED
  BY <1>2, <1>3, <1>4

\* validateLinks, for any number of candidates, any of its limits and
\* whenever its time is up: it returns good links only, each once, no more
\* than it may, and leaves none out unless it says that it has.
THEOREM LinksAreValidated ==
  ASSUME NEW candidates \in Seq(Link), NEW inTime
  PROVE  IsHonest(candidates, ValidateLinks(candidates, inTime))
<1> DEFINE N == Len(candidates)
           none == [links |-> <<>>, looked |-> 0, truncated |-> FALSE]
           step == [u \in LinkState \X (1 .. N) |-> Validate(u[1], candidates[u[2]], inTime)]
<1>1. N \in Nat /\ \A i \in 1 .. N : candidates[i] \in Link
  BY LenProperties, ElementOfSeq
<1>2. step \in [LinkState \X (1 .. N) -> LinkState]
  BY <1>1, ValidateType
<1>3. none \in LinkState
  BY EmptySeq DEF LinkState
<1> HIDE DEF none
<1>4. PICK f \in [0 .. N -> LinkState] :
        f[0] = none /\ \A i \in 1 .. N : f[i] = step[<<f[i - 1], i>>]
  <2>1. IsStep(step, LinkState, N)
    BY <1>2 DEF IsStep
  <2> HIDE DEF step, N
  <2>2. \E f \in [0 .. N -> LinkState] : IsRun(f, none, step, N)
    BY <1>1, <1>3, <2>1, Recursion
  <2> QED
    BY <2>2 DEF IsRun
<1>5. \A i \in 1 .. N : f[i] = Validate(f[i - 1], candidates[i], inTime)
  <2>1. ASSUME NEW i \in 1 .. N PROVE f[i] = Validate(f[i - 1], candidates[i], inTime)
    <3>1. i - 1 \in 0 .. N
      BY <1>1
    <3>2. <<f[i - 1], i>> \in LinkState \X (1 .. N)
      BY <1>4, <3>1
    <3>3. f[i] = step[<<f[i - 1], i>>]
      BY <1>4
    <3> QED
      BY <3>2, <3>3
  <2> QED
    BY <2>1
<1> HIDE DEF step
<1> DEFINE Going(g, i) == IF i = 0 THEN none
                          ELSE Validate(g[i - 1], candidates[i], inTime)
           M == CHOOSE g : g = [i \in 0 .. N |-> Going(g, i)]
<1>6. ValidateLinks(candidates, inTime) = M[N]
  BY DEF ValidateLinks, none
<1>7. f = [i \in 0 .. N |-> Going(f, i)]
  <2>1. \A i \in 0 .. N : i = 0 \/ i \in 1 .. N
    BY <1>1
  <2>2. \A i \in 0 .. N : f[i] = Going(f, i)
    BY <1>4, <1>5, <2>1
  <2> HIDE DEF Going, N
  <2>3. f = [i \in 0 .. N |-> f[i]]
    BY <1>4
  <2> QED
    BY <2>2, <2>3
<1>8. M = [i \in 0 .. N |-> Going(M, i)]
  <2> HIDE DEF Going, N
  <2> QED
    BY <1>7
<1>9. \A i \in 0 .. N : M[i] = Going(M, i)
  <2> HIDE DEF Going, N, M
  <2> QED
    BY <1>8
<1> HIDE DEF M
<1> DEFINE Seen(i) == {candidates[j] : j \in 1 .. i}
           T == {i \in 0 .. N : M[i] \in LinkState /\ Honest(Seen(i), M[i])}
<1>10. 0 \in T
  <2>1. M[0] = none
    BY <1>1, <1>9
  <2>2. none.links = <<>> /\ DOMAIN <<>> = {} /\ Len(<<>>) = 0
    BY EmptySeq DEF none
  <2>3. Seen(0) = {} /\ Range(none.links) = {}
    <3>1. 1 .. 0 = {}
      OBVIOUS
    <3> QED
      BY <2>2, <3>1 DEF Range
  <2> HIDE DEF Seen
  <2>4. Honest(Seen(0), none)
    BY <2>2, <2>3, LinkSizes DEF Honest
  <2> QED
    BY <1>1, <1>3, <2>1, <2>4
<1>11. ASSUME NEW i \in 0 .. N, i < N, i \in T PROVE i + 1 \in T
  <2> DEFINE h == i + 1
  <2>1. h \in 1 .. N /\ h \in 0 .. N /\ h - 1 = i /\ h # 0
    BY <1>1, <1>11
  <2>2. Seen(h) = Seen(i) \cup {candidates[h]}
    <3>1. 1 .. h = (1 .. i) \cup {h}
      BY <1>1, <1>11
    <3> QED
      BY <3>1
  <2> HIDE DEF h, Seen
  <2>3. M[i] \in LinkState /\ Honest(Seen(i), M[i])
    BY <1>11
  <2>4. M[h] = Validate(M[i], candidates[h], inTime)
    BY <1>9, <2>1
  <2>5. candidates[h] \in Link
    BY <1>1, <2>1
  <2> HIDE DEF Going, N
  <2>6. M[h] \in LinkState /\ Honest(Seen(h), M[h])
    BY <2>2, <2>3, <2>4, <2>5, ValidateType, ValidateIsHonest
  <2> QED
    BY <2>1, <2>6 DEF h
<1>12. T \in SUBSET (0 .. N)
  OBVIOUS
<1> HIDE DEF T
<1>13. T = 0 .. N
  BY <1>1, <1>10, <1>11, <1>12, UpTo
<1>14. Honest(Seen(N), M[N])
  BY <1>1, <1>13 DEF T
<1>15. Seen(N) = Range(candidates)
  BY RangeIs
<1> HIDE DEF Seen
<1> QED
  BY <1>6, <1>14, <1>15 DEF Honest, IsHonest

-----------------------------------------------------------------------------
(* The call.                                                               *)

\* The texts and documents of the model, whose sizes are bounded.
LEMMA BoundedIsSeq ==
  ASSUME NEW S, NEW n \in Nat
  PROVE  BoundedSeq(S, n) \subseteq Seq(S)
<1> SUFFICES ASSUME NEW s \in BoundedSeq(S, n) PROVE s \in Seq(S)
  OBVIOUS
<1>1. PICK m \in 0 .. n : s \in [1 .. m -> S]
  BY DEF BoundedSeq, SeqOf
<1>2. m \in Nat /\ s = [i \in 1 .. m |-> s[i]] /\ \A i \in 1 .. m : s[i] \in S
  BY <1>1
<1> QED
  BY <1>2, IsASeq

LEMMA DocumentsAreFound == Documents \subseteq Found
<1> DEFINE One == [source : DOMAIN CandidatePriority, text : Texts \ {<<>>}]
           All == [source : DOMAIN CandidatePriority, text : Seq(Line)]
<1>1. Texts \subseteq Seq(Line)
  BY BoundedIsSeq, FetchSizes DEF Texts
<1>2. One \subseteq All
  BY <1>1
<1>3. Documents \subseteq Seq(One)
  BY BoundedIsSeq, FetchSizes DEF Documents
<1> HIDE DEF One, All
<1>4. Seq(One) \subseteq Seq(All)
  BY <1>2
<1> QED
  BY <1>3, <1>4 DEF Found, All

\* A text that has two others, one of them complete.
LEMMA CompleteThrough ==
  ASSUME NEW m \in Seq(Line), NEW s \in Seq(Line), NEW t \in Seq(Line),
         NEW texts \in SUBSET Seq(Line), Complete(m, {s, t}), Complete(s, texts)
  PROVE  Complete(m, texts \cup {t}) /\ (s # <<>> => m # <<>>)
<1>1. ASSUME NEW u \in texts \cup {t} PROVE IsBlock(u, m)
  <2>1. CASE u = t
    BY <2>1 DEF Complete
  <2>2. CASE u \in texts
    <3>1. u \in Seq(Line) /\ IsBlock(u, s) /\ IsBlock(s, m)
      BY <2>2 DEF Complete
    <3> QED
      BY <3>1, BlockOfBlock
  <2> QED
    BY <2>1, <2>2
<1>2. ASSUME NEW x \in Range(m) PROVE \E u \in texts \cup {t} : x \in Range(u)
  BY DEF Complete
<1>3. ASSUME s # <<>> PROVE m # <<>>
  <2>1. IsBlock(s, m)
    BY DEF Complete
  <2>2. PICK i \in Nat : Begins(s, m, i)
    BY <2>1, BlockBegins
  <2>3. Len(s) \in Nat /\ Len(m) \in Nat /\ Len(s) # 0
    BY <1>3, LenProperties, EmptySeq
  <2>4. Len(m) # 0
    BY <2>2, <2>3 DEF Begins
  <2> QED
    BY <2>4, EmptySeq
<1> QED
  BY <1>1, <1>2, <1>3 DEF Complete

\* The text without a browser, whose parts were normalized once, and what
\* the browser has read.
LEMMA BothAreComplete ==
  ASSUME NEW s \in Seq(Line), NEW r \in Seq(Line), NEW texts \in SUBSET Seq(Line),
         Complete(s, {Decoded(t, 1) : t \in texts})
  PROVE  LET m == MergeText(<<s, NormalizeText(r)>>)
         IN /\ m \in Seq(Line)
            /\ Complete(m, {Decoded(t, 2) : t \in texts \cup {r}})
            /\ NormalizeText(s) # <<>> => m # <<>>
<1> DEFINE b == NormalizeText(r)
           both == <<s, b>>
           m == MergeText(both)
           once == {NormalizeText(t) : t \in texts}
           twice == {NormalizeText(t) : t \in once}
<1>1. b \in Seq(Line) /\ NormalizeText(b) \in Seq(Line) /\ NormalizeText(s) \in Seq(Line)
  BY NormalizeTextType
<1>2. once \in SUBSET Seq(Line) /\ twice \in SUBSET Seq(Line)
  BY NormalizeTextType
<1>3. /\ Complete(s, once)
      /\ {Decoded(t, 2) : t \in texts \cup {r}} = twice \cup {NormalizeText(b)}
  BY DEF Decoded
<1>4. both \in Seq(Seq(Line)) /\ Range(both) = {s, b}
  <2> HIDE DEF b
  <2>1. DOMAIN both = {1, 2} /\ both[1] = s /\ both[2] = b
    OBVIOUS
  <2> QED
    BY <1>1, <2>1 DEF Range
<1> HIDE DEF b, both, once
<1>5. m \in Seq(Line) /\ Complete(m, {NormalizeText(t) : t \in Range(both)})
  BY <1>4, MergeTextCompletes
<1> HIDE DEF m
<1>6. {NormalizeText(t) : t \in Range(both)} = {NormalizeText(s), NormalizeText(b)}
  BY <1>4
<1>7. Complete(NormalizeText(s), twice)
  BY <1>2, <1>3, NormalizeAgain
<1> HIDE DEF twice
<1> DEFINE c == NormalizeText(b)
           d == NormalizeText(s)
<1>a. c \in Seq(Line) /\ d \in Seq(Line) /\ Complete(m, {d, c}) /\ Complete(d, twice)
  BY <1>1, <1>5, <1>6, <1>7
<1> HIDE DEF c, d
<1>b. Complete(m, twice \cup {c}) /\ (d # <<>> => m # <<>>)
  BY <1>2, <1>5, <1>a, CompleteThrough
<1>8. Complete(m, twice \cup {NormalizeText(b)}) /\ (NormalizeText(s) # <<>> => m # <<>>)
  BY <1>b DEF c, d
<1> QED
  BY <1>3, <1>5, <1>8 DEF m, both, b

LEMMA NothingIsComplete == Complete(<<>>, {})
<1>1. DOMAIN <<>> = {}
  BY EmptySeq
<1> QED
  BY <1>1 DEF Complete, Range

LEMMA OneIsComplete ==
  ASSUME NEW t \in Seq(Line)
  PROVE  Complete(t, {t})
BY BlockOfSelf DEF Complete

-----------------------------------------------------------------------------
(***************************************************************************)
(* One call of url_fetch.  Until there is an answer nothing has been read; *)
(* while the browser runs, the text without it is complete; and what is    *)
(* about to be returned is complete as well, or an error that does not     *)
(* cost a text, unless the caller is gone.                                 *)
(***************************************************************************)
InBrowser ==
  {"address", "launching", "navigating", "extracting", "accepting", "closing",
   "merging"}

PurposeIsKnown == purpose = "none" <=> at \notin InBrowser

NothingRead ==
  at \in {"idle", "checking", "getting"} \/ purpose \in {"preflight", "fallback"} =>
    static = <<>> /\ read = {}

StaticIsComplete ==
  at \in InBrowser => Complete(static, {Decoded(t, 1) : t \in read})

ReturnedIsComplete ==
  at = "ending" =>
    /\ status = "ok" => \E k \in 1 .. 2 : Complete(content, {Decoded(t, k) : t \in read})
    /\ NormalizeText(static) # <<>> =>
         cancelled \/ (status = "ok" /\ content # <<>>)

FetchInv ==
  /\ FetchTypeOK
  /\ PurposeIsKnown /\ NothingRead
  /\ StaticIsComplete /\ ReturnedIsComplete /\ ResultIsComplete

\* A step of a call, or of the look for a browser.
FetchStep ==
  Extract \/ FetchProceeds(browser) \/ Meanwhile \/ Preflight \/ EndPreflight

LEMMA FetchInitInv == FetchInit => FetchInv
<1> SUFFICES ASSUME FetchInit PROVE FetchInv
  OBVIOUS
<1>1. <<>> \in Seq(Line)
  BY EmptySeq
<1> QED
  BY <1>1 DEF FetchInit, FetchInv, PurposeIsKnown, InBrowser, FetchTypeOK, Excerpts,
     NothingRead, StaticIsComplete, ReturnedIsComplete, ResultIsComplete

\* What only moves the call on, within the browser or before it.
MovesOn ==
  /\ at' \in {"checking", "getting", "launching", "navigating", "extracting",
              "accepting", "closing"}
  /\ at = "idle" => \/ at' = "checking" /\ purpose' = purpose
                    \/ at' = "launching" /\ purpose' = "preflight"
  /\ at = "checking" => at' = "getting"
  /\ at \in {"idle", "checking", "address", "launching", "navigating", "extracting",
             "accepting"}
  /\ at' \in {"checking", "getting"} => at \in {"idle", "checking"}
  /\ at # "idle" => purpose' = purpose
  /\ purpose' \in {purpose, "preflight"}
  /\ rendered' \in Seq(Line)
  /\ status' \in {"ok", "cancelled"} \cup Errors
  /\ proxy' \in {"none", "open", "closed"}
  /\ UNCHANGED <<static, read, content, excerpt, cancelled, late, blocked, tunnel>>

\* Such a step changes nothing the invariant is about but where the call is.
LEMMA MovesOnStep == ASSUME FetchInv, MovesOn PROVE FetchInv'
<1> USE DEF FetchInv, MovesOn
<1>1. FetchTypeOK'
  BY DEF FetchTypeOK
<1>2. NothingRead' /\ PurposeIsKnown'
  BY DEF NothingRead, PurposeIsKnown, InBrowser
<1>3. StaticIsComplete'
  <2>1. CASE at \in {"idle", "checking"}
    <3>1. read = {} /\ static = <<>>
      BY <2>1 DEF NothingRead
    <3>2. {Decoded(t, 1) : t \in read} = {}
      BY <3>1
    <3> QED
      BY <3>1, <3>2, NothingIsComplete DEF StaticIsComplete
  <2>2. CASE at \notin {"idle", "checking"}
    BY <2>2 DEF StaticIsComplete, InBrowser
  <2> QED
    BY <2>1, <2>2
<1>4. ReturnedIsComplete' /\ ResultIsComplete'
  BY DEF ReturnedIsComplete, ResultIsComplete
<1> QED
  BY <1>1, <1>2, <1>3, <1>4

LEMMA QuietSteps ==
  ASSUME FetchInv,
         \/ Extract \/ Check \/ Preflight
         \/ AddressAllowed \/ AddressRefused \/ NoAllocator \/ Launch \/ Navigate
         \/ (\E raw \in Texts : ExtractPage(raw))
         \/ BrowserFails \/ Accept \/ AcceptFails
  PROVE  MovesOn
<1> USE DEF FetchInv, FetchTypeOK, MovesOn, environment, Errors
<1>1. CASE Extract \/ Check \/ Preflight \/ Launch
  BY <1>1 DEF Extract, Check, Preflight, Launch
<1>2. CASE AddressAllowed \/ Navigate \/ Accept
  BY <1>2 DEF AddressAllowed, Navigate, Accept, Rendering
<1>3. CASE AddressRefused \/ NoAllocator \/ BrowserFails \/ AcceptFails
  BY <1>3 DEF AddressRefused, NoAllocator, BrowserFails, AcceptFails, RenderFails
<1>4. CASE \E raw \in Texts : ExtractPage(raw)
  <2>1. Texts \subseteq Seq(Line)
    BY BoundedIsSeq, FetchSizes DEF Texts
  <2> QED
    BY <1>4, <2>1 DEF ExtractPage
<1> QED
  BY <1>1, <1>2, <1>3, <1>4

\* The call is about to return a complete text or an error.
Returns ==
  /\ at' = "ending" /\ purpose' = "none"
  /\ static' \in Seq(Line) /\ read' \subseteq Seq(Line)
  /\ rendered' \in Seq(Line)
  /\ status' \in {"ok", "cancelled"} \cup Errors /\ content' \in Seq(Line)
  /\ status' = "ok" => \E k \in 1 .. 2 : Complete(content', {Decoded(t, k) : t \in read'})
  /\ NormalizeText(static') # <<>> =>
       cancelled \/ (status' = "ok" /\ content' # <<>>)
  /\ UNCHANGED <<excerpt, cancelled, late, blocked, proxy, tunnel>>

LEMMA ReturnsStep == ASSUME FetchInv, Returns PROVE FetchInv'
<1> USE DEF FetchInv, Returns
<1>1. FetchTypeOK'
  BY DEF FetchTypeOK
<1>2. /\ NothingRead' /\ PurposeIsKnown' /\ StaticIsComplete'
      /\ ReturnedIsComplete' /\ ResultIsComplete'
  BY DEF NothingRead, PurposeIsKnown, InBrowser, StaticIsComplete,
     ReturnedIsComplete, ResultIsComplete
<1> QED
  BY <1>1, <1>2

LEMMA NothingNormalized == NormalizeText(<<>>) = <<>>
<1>1. <<>> \in Seq(Line) /\ Len(<<>>) = 0
  BY EmptySeq
<1> QED
  BY <1>1, NormalizedIs DEF NormalizeText

\* Until there is an answer there is no text to be lost.
LEMMA FailsReturns ==
  ASSUME FetchInv, at \in {"checking", "getting"}, NEW s \in Errors, Fail(s),
         read' \subseteq Seq(Line),
         UNCHANGED <<purpose, static, rendered, excerpt, environment>>
  PROVE  Returns
<1>1. <<>> \in Seq(Line)
  BY EmptySeq
<1>2. purpose = "none" /\ NormalizeText(static') = <<>>
  BY NothingNormalized DEF FetchInv, PurposeIsKnown, InBrowser, NothingRead
<1> QED
  BY <1>1, <1>2 DEF FetchInv, FetchTypeOK, Returns, Fail, Return, environment, Errors

\* The browser is started for a page whose text so far is complete.
Renders ==
  /\ at' = "address" /\ purpose' \in {"fallback", "supplement"}
  /\ static' \in Seq(Line) /\ read' \subseteq Seq(Line)
  /\ Complete(static', {Decoded(t, 1) : t \in read'})
  /\ purpose' = "fallback" => static' = <<>> /\ read' = {}
  /\ UNCHANGED <<rendered, status, content, excerpt, environment>>

LEMMA RendersStep == ASSUME FetchInv, Renders PROVE FetchInv'
<1> USE DEF FetchInv, Renders
<1>1. FetchTypeOK'
  BY DEF FetchTypeOK, environment
<1>2. /\ NothingRead' /\ PurposeIsKnown' /\ StaticIsComplete'
      /\ ReturnedIsComplete' /\ ResultIsComplete'
  BY DEF NothingRead, PurposeIsKnown, InBrowser, StaticIsComplete, ReturnedIsComplete,
     ResultIsComplete
<1> QED
  BY <1>1, <1>2

LEMMA CheckFailsStep == ASSUME FetchInv, CheckFails PROVE FetchInv'
<1>1. PICK s \in {"url_not_allowed", "web_unavailable"} : Fail(s)
  BY DEF CheckFails
<1>2. s \in Errors
  BY <1>1 DEF Errors
<1> QED
  BY <1>1, <1>2, FailsReturns, ReturnsStep DEF CheckFails, FetchInv, FetchTypeOK

LEMMA UnreadableStep == ASSUME FetchInv, PageIsUnreadable PROVE FetchInv'
<1>1. "fetch_failed" \in Errors
  BY DEF Errors
<1> QED
  BY <1>1, FailsReturns, ReturnsStep DEF PageIsUnreadable, FetchInv, FetchTypeOK

LEMMA GetFailsStep ==
  ASSUME FetchInv, NEW hasBrowser \in BOOLEAN, GetFails(hasBrowser)
  PROVE  FetchInv'
<1>1. /\ at = "getting" /\ UNCHANGED <<static, read, rendered, excerpt, environment>>
      /\ read' \subseteq Seq(Line)
  BY DEF GetFails, FetchInv, FetchTypeOK
<1>2. CASE Fail("url_not_allowed") /\ UNCHANGED purpose
  <2>1. "url_not_allowed" \in Errors
    BY DEF Errors
  <2> QED
    BY <1>1, <1>2, <2>1, FailsReturns, ReturnsStep
<1>3. CASE (\E s \in Errors : Fail(s)) /\ UNCHANGED purpose
  BY <1>1, <1>3, FailsReturns, ReturnsStep
<1>4. CASE Render("fallback")
  <2>1. static = <<>> /\ read = {}
    BY <1>1 DEF FetchInv, NothingRead
  <2>2. Complete(static', {Decoded(t, 1) : t \in read'})
    <3>1. {Decoded(t, 1) : t \in read'} = {}
      BY <1>1, <2>1
    <3> QED
      BY <1>1, <2>1, <3>1, NothingIsComplete
  <2>3. Renders
    BY <1>1, <1>4, <2>1, <2>2 DEF Renders, Render, FetchInv, FetchTypeOK
  <2> QED
    BY <2>3, RendersStep
<1> QED
  BY <1>2, <1>3, <1>4 DEF GetFails

LEMMA PlainStep ==
  ASSUME FetchInv, NEW t \in Texts, PageIsPlain(t)
  PROVE  FetchInv'
<1> DEFINE c == NormalizeText(t)
<1>1. t \in Seq(Line) /\ c \in Seq(Line)
  <2>1. t \in Seq(Line)
    BY BoundedIsSeq, FetchSizes DEF Texts
  <2> QED
    BY <2>1, NormalizeTextType
<1>2. /\ at = "getting" /\ UNCHANGED <<purpose, static, rendered, excerpt, environment>>
      /\ read' = {t} /\ read' \subseteq Seq(Line)
      /\ purpose = "none" /\ static = <<>>
  BY <1>1 DEF PageIsPlain, FetchInv, PurposeIsKnown, InBrowser, NothingRead
<1>3. CASE c = <<>>
  <2>1. "fetch_failed" \in Errors
    BY DEF Errors
  <2>2. Fail("fetch_failed")
    BY <1>3 DEF PageIsPlain
  <2> QED
    BY <1>2, <2>1, <2>2, FailsReturns, ReturnsStep
<1>4. CASE c # <<>>
  <2>1. Return("ok", c)
    BY <1>4 DEF PageIsPlain
  <2>2. {Decoded(u, 1) : u \in read'} = {c}
    BY <1>2 DEF Decoded
  <2> HIDE DEF c
  <2>3. Complete(content', {Decoded(u, 1) : u \in read'}) /\ 1 \in 1 .. 2
    <3>1. Complete(c, {c}) /\ content' = c
      BY <1>1, <2>1, OneIsComplete DEF Return
    <3> QED
      BY <2>2, <3>1
  <2>4. NormalizeText(static') = <<>>
    BY <1>2, NothingNormalized
  <2>5. Returns
    BY <1>1, <1>2, <2>1, <2>3, <2>4
       DEF Returns, Return, FetchInv, FetchTypeOK, environment
  <2> QED
    BY <2>5, ReturnsStep
<1> QED
  BY <1>3, <1>4

LEMMA HtmlStep ==
  ASSUME FetchInv, NEW hasBrowser \in BOOLEAN, NEW d \in Documents,
         PageIsHtml(d, hasBrowser)
  PROVE  FetchInv'
<1>1. /\ at = "getting" /\ UNCHANGED <<rendered, excerpt, environment>>
      /\ purpose = "none"
      /\ static' = MergeText(ExtractCandidates(d)) /\ read' = TextsOf(d)
  BY DEF PageIsHtml, FetchInv, PurposeIsKnown, InBrowser, TextsOf
<1>2. /\ static' \in Seq(Line) /\ read' \in SUBSET Seq(Line)
      /\ Complete(static', {Decoded(t, 1) : t \in read'})
  <2>1. d \in Found
    BY DocumentsAreFound
  <2>2. {Decoded(t, 1) : t \in read'} = {NormalizeText(t) : t \in read'}
    BY DEF Decoded
  <2> QED
    BY <1>1, <2>1, <2>2, CandidatesAreTexts, CandidatesMerge
<1>3. CASE hasBrowser
  <2>1. Renders
    BY <1>1, <1>2, <1>3 DEF PageIsHtml, Render, Renders
  <2> QED
    BY <2>1, RendersStep
<1>4. CASE ~ hasBrowser
  <2>1. /\ UNCHANGED purpose
        /\ IF static' = <<>> THEN Fail("fetch_failed") ELSE Return("ok", static')
    BY <1>4 DEF PageIsHtml
  <2>2. <<>> \in Seq(Line)
    BY EmptySeq
  <2>3. NormalizeText(static') # <<>> => static' # <<>>
    BY NothingNormalized
  <2>4. Returns
    BY <1>1, <1>2, <2>1, <2>2, <2>3
       DEF Returns, Fail, Return, FetchInv, FetchTypeOK, environment, Errors
  <2> QED
    BY <2>4, ReturnsStep
<1> QED
  BY <1>3, <1>4

LEMMA CloseBrowserStep == ASSUME FetchInv, CloseBrowser PROVE FetchInv'
<1> USE DEF FetchInv, CloseBrowser
<1>1. FetchTypeOK'
  BY DEF FetchTypeOK
<1>2. /\ NothingRead' /\ PurposeIsKnown' /\ StaticIsComplete'
      /\ ReturnedIsComplete' /\ ResultIsComplete'
  BY DEF NothingRead, PurposeIsKnown, InBrowser, StaticIsComplete, ReturnedIsComplete,
     ResultIsComplete
<1> QED
  BY <1>1, <1>2

\* The text of the browser is merged with the other one, or does without it.
LEMMA MergePagesStep == ASSUME FetchInv, MergePages PROVE FetchInv'
<1> DEFINE c == NormalizeText(rendered)
<1>1. /\ rendered' = <<>> /\ purpose' = "none"
      /\ UNCHANGED <<static, excerpt, environment>>
      /\ static \in Seq(Line) /\ read \in SUBSET Seq(Line) /\ rendered \in Seq(Line)
      /\ Complete(static, {Decoded(t, 1) : t \in read})
      /\ status \in {"ok", "cancelled"} \cup Errors
  BY DEF MergePages, FetchInv, FetchTypeOK, StaticIsComplete, InBrowser
<1>2. <<>> \in Seq(Line) /\ "fetch_failed" \in Errors /\ 1 \in 1 .. 2 /\ 2 \in 1 .. 2
  BY EmptySeq DEF Errors
<1>3. NormalizeText(static) # <<>> => static # <<>>
  BY NothingNormalized
<1>4. CASE Usable /\ purpose = "fallback"
  <2>1. Return("ok", c) /\ read' = {rendered} /\ static = <<>>
    BY <1>4 DEF MergePages, FetchInv, NothingRead
  <2>2. {Decoded(t, 1) : t \in read'} = {c}
    BY <2>1 DEF Decoded
  <2>3. c \in Seq(Line)
    BY <1>1, NormalizeTextType
  <2> HIDE DEF c
  <2>4. Complete(content', {Decoded(t, 1) : t \in read'})
    BY <2>1, <2>2, <2>3, OneIsComplete DEF Return
  <2>5. Returns
    BY <1>1, <1>2, <1>3, <2>1, <2>3, <2>4 DEF Returns, Return, environment
  <2> QED
    BY <2>5, ReturnsStep
<1>5. CASE Usable /\ purpose = "supplement"
  <2> DEFINE m == Both
  <2>1. /\ IF m = <<>> THEN Fail("fetch_failed") ELSE Return("ok", m)
        /\ read' = read \cup {rendered}
    BY <1>5 DEF MergePages
  <2>2. /\ m \in Seq(Line)
        /\ Complete(m, {Decoded(t, 2) : t \in read \cup {rendered}})
        /\ NormalizeText(static) # <<>> => m # <<>>
    BY <1>1, BothAreComplete DEF Both
  <2> HIDE DEF m
  <2>3. Returns
    BY <1>1, <1>2, <2>1, <2>2 DEF Returns, Fail, Return, environment
  <2> QED
    BY <2>3, ReturnsStep
<1>6. CASE ~ Usable /\ static # <<>> /\ ~ cancelled
  <2>1. at' = "ending" /\ status' = "ok" /\ content' = static /\ read' = read
    BY <1>6 DEF MergePages, Return
  <2>2. Returns
    BY <1>1, <1>2, <1>6, <2>1 DEF Returns, environment
  <2> QED
    BY <2>2, ReturnsStep
<1>7. CASE ~ Usable /\ ~ (static # <<>> /\ ~ cancelled)
  <2>1. /\ at' = "ending" /\ content' = <<>> /\ read' = read
        /\ status' = IF status = "ok" THEN "fetch_failed" ELSE status
    BY <1>7 DEF MergePages, Fail, Return
  <2>2. Returns
    BY <1>1, <1>2, <1>3, <1>7, <2>1 DEF Returns, environment
  <2> QED
    BY <2>2, ReturnsStep
<1> QED
  BY <1>4, <1>5, <1>6, <1>7 DEF MergePages

LEMMA EndPreflightStep == ASSUME FetchInv, EndPreflight PROVE FetchInv'
<1> USE DEF FetchInv, EndPreflight
<1>1. FetchTypeOK'
  BY DEF FetchTypeOK
<1>2. /\ NothingRead' /\ PurposeIsKnown' /\ StaticIsComplete'
      /\ ReturnedIsComplete' /\ ResultIsComplete'
  BY DEF NothingRead, PurposeIsKnown, InBrowser, StaticIsComplete, ReturnedIsComplete,
     ResultIsComplete
<1> QED
  BY <1>1, <1>2

LEMMA FinishStep == ASSUME FetchInv, Finish PROVE FetchInv'
<1> USE DEF FetchInv, Finish, environment
<1>1. <<>> \in Seq(Line) /\ content \in Seq(Line)
  BY EmptySeq DEF FetchTypeOK
<1>2. /\ Truncate(content) \in Excerpts /\ IsPrefix(Truncate(content).text, content)
      /\ content # <<>> => Truncate(content).text # <<>>
      /\ ~ Truncate(content).cut => Truncate(content).text = content
  BY <1>1, TruncateKeeps
<1>3. FetchTypeOK'
  BY <1>1, <1>2 DEF FetchTypeOK, Errors
<1>4. /\ NothingRead' /\ PurposeIsKnown' /\ StaticIsComplete' /\ ReturnedIsComplete'
  BY DEF NothingRead, PurposeIsKnown, InBrowser, StaticIsComplete, ReturnedIsComplete
<1>5. ResultIsComplete'
  <2>1. /\ status' = "ok" =>
             /\ ~ cancelled /\ status = "ok" /\ content # <<>> /\ content' = content
             /\ excerpt' = Truncate(content)
        /\ read' = read /\ static' = static
    OBVIOUS
  <2>2. status' = "ok" =>
          \E k \in 1 .. 2 : Complete(content', {Decoded(t, k) : t \in read'})
    BY <2>1 DEF ReturnedIsComplete
  <2>3. NormalizeText(static') # <<>> => status' \in {"ok", "cancelled"}
    BY <2>1 DEF ReturnedIsComplete
  <2>4. status' = "ok" =>
          /\ content' # <<>>
          /\ excerpt'.text # <<>> /\ IsPrefix(excerpt'.text, content')
          /\ ~ excerpt'.cut => excerpt'.text = content'
    BY <1>2, <2>1
  <2> QED
    BY <2>2, <2>3, <2>4 DEF ResultIsComplete
<1> QED
  BY <1>3, <1>4, <1>5

LEMMA MeanwhileStep == ASSUME FetchInv, Meanwhile PROVE FetchInv'
<1> USE DEF FetchInv
<1>1. /\ UNCHANGED page
      /\ cancelled' \in {cancelled, TRUE} /\ late' \in {late, TRUE}
      /\ blocked' \in {blocked, TRUE} /\ proxy' \in {proxy, "closed"}
      /\ tunnel' \in [Tunnel -> {"none", "dialing", "open", "closed"}]
  <2> USE DEF FetchTypeOK
  <2>1. CASE Cancel \/ BrowserTimeout \/ Block \/ ProxyFollows
    BY <2>1 DEF Cancel, BrowserTimeout, Block, ProxyFollows
  <2>2. CASE \E t \in Tunnel : TunnelStarts(t) \/ TunnelOpens(t) \/ TunnelEnds(t)
    BY <2>2 DEF TunnelStarts, TunnelOpens, TunnelEnds
  <2> QED
    BY <2>1, <2>2 DEF Meanwhile
<1>2. FetchTypeOK'
  BY <1>1 DEF FetchTypeOK, page
<1>3. NothingRead' /\ PurposeIsKnown' /\ StaticIsComplete' /\ ResultIsComplete'
  BY <1>1 DEF page, NothingRead, PurposeIsKnown, InBrowser, StaticIsComplete,
     ResultIsComplete
<1>4. ReturnedIsComplete'
  <2>1. cancelled => cancelled'
    BY <1>1
  <2> QED
    BY <1>1, <2>1 DEF page, ReturnedIsComplete
<1> QED
  BY <1>2, <1>3, <1>4

\* Every step keeps the invariant.
LEMMA FetchStepInv ==
  ASSUME browser \in BOOLEAN, FetchInv, [FetchStep]_fetch
  PROVE  FetchInv'
<1>1. CASE \/ Extract \/ Check \/ Preflight
           \/ AddressAllowed \/ AddressRefused \/ NoAllocator \/ Launch \/ Navigate
           \/ (\E raw \in Texts : ExtractPage(raw))
           \/ BrowserFails \/ Accept \/ AcceptFails
  BY <1>1, QuietSteps, MovesOnStep
<1>2. CASE CheckFails \/ GetFails(browser) \/ PageIsUnreadable
  BY <1>2, CheckFailsStep, GetFailsStep, UnreadableStep
<1>3. CASE \/ \E t \in Texts : PageIsPlain(t)
           \/ \E d \in Documents : PageIsHtml(d, browser)
  BY <1>3, PlainStep, HtmlStep
<1>4. CASE CloseBrowser \/ MergePages \/ Finish \/ EndPreflight \/ Meanwhile
  BY <1>4, CloseBrowserStep, MergePagesStep, FinishStep, EndPreflightStep,
     MeanwhileStep
<1>5. CASE UNCHANGED fetch
  <2>1. FetchTypeOK'
    BY <1>5 DEF fetch, FetchInv, FetchTypeOK
  <2>2. /\ NothingRead' /\ PurposeIsKnown' /\ StaticIsComplete'
        /\ ReturnedIsComplete' /\ ResultIsComplete'
    BY <1>5 DEF fetch, FetchInv, NothingRead, PurposeIsKnown, StaticIsComplete,
       ReturnedIsComplete, ResultIsComplete
  <2> QED
    BY <2>1, <2>2 DEF FetchInv
<1> QED
  BY <1>1, <1>2, <1>3, <1>4, <1>5 DEF FetchStep, FetchProceeds

-----------------------------------------------------------------------------
\* What the service does to a fetch is what a fetch does.
LEMMA StepIsFetch == [Next]_vars => [FetchStep]_fetch
<1>1. CASE Run \/ AnswerRequest \/ UNCHANGED vars
  BY <1>1 DEF Run, AnswerRequest, vars
<1>2. CASE LookForBrowser
  BY <1>2 DEF LookForBrowser, FetchStep
<1>3. CASE FetchRequest
  BY <1>3 DEF FetchRequest, FetchStep
<1> QED
  BY <1>1, <1>2, <1>3 DEF Next

\* The invariant of a fetch holds, whether or not there is a browser.
LEMMA FetchInvariant == Spec => []FetchInv
<1>1. Init => FetchInit
  BY DEF Init
<1>2. StartTypeOK /\ FetchInv /\ [FetchStep]_fetch => FetchInv'
  <2>1. StartTypeOK => browser \in BOOLEAN
    BY DEF StartTypeOK
  <2> QED
    BY <2>1, FetchStepInv
<1> QED
  BY <1>1, FetchInitInv, StepIsFetch, StartTypeCorrect, <1>2, PTL DEF Spec

\* A page that is fetched has every text that was read of it, over HTTP and
\* by the browser, all unescaped once or all twice, and nothing else; what is
\* shown of it is its beginning, and all of it unless it is said to be cut;
\* and whatever happens to the browser, the text that was there without it is
\* not lost.  This holds for pages of any number of texts of any length.
THEOREM Fetching == Spec => []ResultIsComplete
<1>1. FetchInv => ResultIsComplete
  BY DEF FetchInv
<1> QED
  BY FetchInvariant, <1>1, PTL

\* The proxy listens only between the launch of the browser and the deferred
\* functions of Render.
ProxyIsBrowsers ==
  proxy = "open" => at \in {"navigating", "extracting", "accepting", "closing"}

\* Within those, the browser moves on to the next or to its end; a step from
\* elsewhere does not open the proxy, and only the launch does.
LEMMA ProxyStep ==
  ASSUME ProxyIsBrowsers, [FetchStep]_fetch
  PROVE  ProxyIsBrowsers'
<1> USE DEF ProxyIsBrowsers, environment
<1>1. CASE \/ Extract \/ Check \/ CheckFails \/ GetFails(browser) \/ PageIsUnreadable
           \/ (\E t \in Texts : PageIsPlain(t))
           \/ (\E d \in Documents : PageIsHtml(d, browser))
           \/ Preflight \/ MergePages \/ EndPreflight \/ Finish
  BY <1>1 DEF Extract, Check, CheckFails, GetFails, PageIsUnreadable, PageIsPlain,
     PageIsHtml, Preflight, MergePages, EndPreflight, Finish
<1>2. CASE AddressAllowed \/ AddressRefused \/ NoAllocator
  BY <1>2 DEF AddressAllowed, AddressRefused, NoAllocator, Rendering, RenderFails
<1>3. CASE \/ Launch \/ Navigate \/ (\E raw \in Texts : ExtractPage(raw))
           \/ BrowserFails \/ Accept \/ AcceptFails
  BY <1>3 DEF Launch, Navigate, ExtractPage, BrowserFails, Accept, AcceptFails,
     Rendering, RenderFails
<1>4. CASE CloseBrowser
  BY <1>4 DEF CloseBrowser
<1>5. CASE Meanwhile \/ UNCHANGED fetch
  BY <1>5 DEF Meanwhile, Cancel, BrowserTimeout, Block, ProxyFollows, TunnelStarts,
     TunnelOpens, TunnelEnds, page, fetch
<1> QED
  BY <1>1, <1>2, <1>3, <1>4, <1>5 DEF FetchStep, FetchProceeds

\* No step behind the browser opens the proxy or takes a connection.
LEMMA LateStep ==
  ASSUME FetchTypeOK, ProxyIsBrowsers, [FetchStep]_fetch,
         at \in {"merging", "ending", "done"}
  PROVE  /\ proxy' # "open"
         /\ \A t \in Tunnel : tunnel[t] = "none" => tunnel'[t] = "none"
<1> USE DEF ProxyIsBrowsers, environment
<1>1. CASE MergePages \/ EndPreflight \/ Finish \/ UNCHANGED fetch
  BY <1>1 DEF MergePages, EndPreflight, Finish, fetch
<1>2. CASE Meanwhile
  <2>1. CASE Cancel \/ BrowserTimeout \/ Block \/ ProxyFollows
    BY <2>1 DEF Cancel, BrowserTimeout, Block, ProxyFollows, page
  <2>2. ASSUME NEW s \in Tunnel, TunnelStarts(s) \/ TunnelOpens(s) \/ TunnelEnds(s)
        PROVE  /\ proxy' # "open"
               /\ \A t \in Tunnel : tunnel[t] = "none" => tunnel'[t] = "none"
    BY <2>2 DEF TunnelStarts, TunnelOpens, TunnelEnds, FetchTypeOK
  <2> QED
    BY <1>2, <2>1, <2>2 DEF Meanwhile
<1> QED
  <2>1. ~ \/ Extract \/ Check \/ CheckFails \/ GetFails(browser) \/ PageIsUnreadable
          \/ (\E t \in Texts : PageIsPlain(t))
          \/ (\E d \in Documents : PageIsHtml(d, browser))
          \/ AddressAllowed \/ AddressRefused \/ NoAllocator \/ Launch \/ Navigate
          \/ (\E raw \in Texts : ExtractPage(raw))
          \/ BrowserFails \/ Accept \/ AcceptFails \/ CloseBrowser \/ Preflight
    BY DEF Extract, Check, CheckFails, GetFails, PageIsUnreadable, PageIsPlain,
       PageIsHtml, AddressAllowed, AddressRefused, NoAllocator, Launch, Navigate,
       ExtractPage, BrowserFails, Accept, AcceptFails, CloseBrowser, Preflight
  <2> QED
    BY <1>1, <1>2, <2>1 DEF FetchStep, FetchProceeds

\* Once Render has returned, with a page or with any error, or the caller has
\* gone, nothing of it listens and no connection is taken any more: the safety
\* half of NothingIsLeft, for any number of connections.
THEOREM RenderClosesBehind == Spec => NothingOpensLate
<1>1. Init => ProxyIsBrowsers
  BY DEF Init, FetchInit, ProxyIsBrowsers
<1>2. Spec => []ProxyIsBrowsers
  BY <1>1, ProxyStep, StepIsFetch, PTL DEF Spec
<1>3. FetchInv => FetchTypeOK
  BY DEF FetchInv
<1>4. ASSUME FetchInv, ProxyIsBrowsers, [FetchStep]_fetch
      PROVE  [(at \in {"merging", "ending", "done"}) =>
                (proxy' # "open"
                 /\ \A t \in Tunnel : tunnel[t] = "none" => tunnel'[t] = "none")]_fetch
  BY <1>3, <1>4, LateStep
<1> QED
  BY <1>2, <1>4, FetchInvariant, StepIsFetch, PTL DEF Spec, NothingOpensLate

\* The variables of the service keep their types: those of its start and its
\* end, of an answer and of a fetch.
THEOREM TypeCorrect == Spec => []TypeOK
<1>1. FetchInv => FetchTypeOK
  BY DEF FetchInv
<1>2. StartTypeOK /\ AnswerTypeOK /\ FetchTypeOK => TypeOK
  BY DEF TypeOK
<1> QED
  BY StartTypeCorrect, AnswerTypeCorrect, FetchInvariant, <1>1, <1>2, PTL
=============================================================================
