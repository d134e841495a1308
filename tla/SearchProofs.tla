---------------------------- MODULE SearchProofs ----------------------------
(***************************************************************************)
(* The order of routes, the places of towers and the corridors of lines,   *)
(* for every laying of the routes, every line and every raster.            *)
(***************************************************************************)
EXTENDS RouteOrder, TowerPlacement, CorridorRouter, FiniteSetTheorems, NaturalsInduction, TLAPS

-----------------------------------------------------------------------------
(* Induction and sums *)

(* A set of natural numbers has a least one. *)
LEMMA LeastOf ==
    ASSUME NEW T, T \subseteq Nat, T # {}
    PROVE  \E x \in T : \A y \in T : x <= y
<1>. DEFINE R == OpToRel(<, Nat)
<1>1. IsWellFoundedOn(R, Nat)
  BY NatLessThanWellFounded
<1>. HIDE DEF R
<1>2. PICK x \in T : \A y \in T : ~(<<y, x>> \in R)
  BY <1>1, WFMin
<1>3. ASSUME NEW y \in T PROVE x <= y
  <2>1. x \in Nat /\ y \in Nat
    OBVIOUS
  <2>2. <<y, x>> \in Nat \X Nat
    BY <2>1
  <2>3. ~(y < x)
    BY <1>2, <2>2 DEF R, OpToRel
  <2>. QED
    BY <2>1, <2>3
<1>. QED
  BY <1>3

(* Induction over an interval. *)
LEMMA EveryOne ==
    ASSUME NEW a \in Int, NEW b \in Int, NEW S, a \in S,
           \A k \in a + 1..b : k - 1 \in S => k \in S
    PROVE  \A k \in a..b : k \in S
<1>. DEFINE T == {n \in Nat : a + n <= b /\ a + n \notin S}
<1>1. CASE T = {}
  <2>. SUFFICES ASSUME NEW k \in a..b PROVE k \in S
    OBVIOUS
  <2>. DEFINE n == k - a
  <2>1. n \in Nat /\ a + n = k
    OBVIOUS
  <2>. HIDE DEF n
  <2>2. ~(a + n <= b /\ a + n \notin S)
    BY <1>1, <2>1
  <2>. QED
    BY <2>1, <2>2
<1>2. CASE T # {}
  <2>1. PICK n \in T : \A m \in T : n <= m
    <3>. HIDE DEF T
    <3>1. T \subseteq Nat
      BY DEF T
    <3>. QED
      BY <1>2, <3>1, LeastOf
  <2>2. n \in Nat /\ a + n <= b /\ a + n \notin S
    OBVIOUS
  <2>3. n # 0
    BY <2>2
  <2>4. n - 1 \in Nat /\ n - 1 \notin T
    BY <2>1, <2>2, <2>3
  <2>5. a + (n - 1) \in S
    BY <2>2, <2>4
  <2>6. a + n \in a + 1..b /\ (a + n) - 1 = a + (n - 1)
    BY <2>2, <2>3
  <2>. QED
    BY <2>2, <2>5, <2>6
<1>. QED
  BY <1>1, <1>2

(* What no step changes is the same in the end. *)
LEMMA Steady ==
    ASSUME NEW a \in Int, NEW b \in Int, a <= b, NEW h,
           \A k \in a + 1..b : h[k] = h[k - 1]
    PROVE  h[b] = h[a]
<1>. DEFINE S == {k \in a..b : h[k] = h[a]}
<1>1. a \in S
  OBVIOUS
<1>2. ASSUME NEW k \in a + 1..b, k - 1 \in S PROVE k \in S
  BY <1>2
<1>. HIDE DEF S
<1>3. \A k \in a..b : k \in S
  BY <1>1, <1>2, EveryOne
<1>. QED
  BY <1>3 DEF S

(* The sums of the first values of w. *)
SumTo(f, n, w) ==
    f \in [0..n -> Int] /\ f[0] = 0 /\ \A i \in 1..n : f[i] = f[i - 1] + w[i]

(* Sums exist. *)
LEMMA SumsExist ==
    ASSUME NEW n \in Nat, NEW w, \A i \in 1..n : w[i] \in Int
    PROVE  \E f : SumTo(f, n, w)
<1>. DEFINE T == {k \in Nat : k <= n /\ ~\E f : SumTo(f, k, w)}
<1>1. CASE T = {}
  BY <1>1
<1>2. CASE T # {}
  <2>1. PICK k \in T : \A m \in T : k <= m
    <3>. HIDE DEF T
    <3>1. T \subseteq Nat
      BY DEF T
    <3>. QED
      BY <1>2, <3>1, LeastOf
  <2>2. k \in Nat /\ k <= n /\ ~\E f : SumTo(f, k, w)
    OBVIOUS
  <2>3. SumTo([i \in 0..0 |-> 0], 0, w)
    BY DEF SumTo
  <2>4. k # 0
    BY <2>2, <2>3
  <2>5. k - 1 \in Nat /\ k - 1 \notin T
    BY <2>1, <2>2, <2>4
  <2>6. PICK f : SumTo(f, k - 1, w)
    BY <2>2, <2>5
  <2>. DEFINE g == [i \in 0..k |-> IF i = k THEN f[k - 1] + w[k] ELSE f[i]]
  <2>7. f \in [0..k - 1 -> Int] /\ f[0] = 0 /\ \A i \in 1..k - 1 : f[i] = f[i - 1] + w[i]
    BY <2>6 DEF SumTo
  <2>8. k - 1 \in 0..k - 1 /\ k \in 1..n /\ w[k] \in Int
    BY <2>2, <2>4
  <2>9. g \in [0..k -> Int] /\ g[0] = 0
    BY <2>2, <2>4, <2>7, <2>8
  <2>10. ASSUME NEW i \in 1..k PROVE g[i] = g[i - 1] + w[i]
    <3>1. i - 1 \in 0..k /\ i - 1 # k /\ i \in 0..k
      BY <2>2
    <3>2. g[i - 1] = f[i - 1]
      BY <3>1
    <3>3. CASE i = k
      BY <3>1, <3>2, <3>3
    <3>4. CASE i # k
      <4>1. i \in 1..k - 1
        BY <2>2, <3>4
      <4>. QED
        BY <2>7, <3>1, <3>2, <3>4, <4>1
    <3>. QED
      BY <3>3, <3>4
  <2>11. SumTo(g, k, w)
    BY <2>9, <2>10 DEF SumTo
  <2>. QED
    BY <2>2, <2>11
<1>. QED
  BY <1>1, <1>2

(* The sums as the program computes them. *)
AddsUp(f, n, w) == f = [i \in 0..n |-> IF i = 0 THEN 0 ELSE f[i - 1] + w[i]]

(* They are the sums of the first values of w, and can be computed. *)
LEMMA SumsAddUp ==
    ASSUME NEW n \in Nat, NEW w, \A i \in 1..n : w[i] \in Int
    PROVE  /\ \E f : AddsUp(f, n, w)
           /\ \A f : AddsUp(f, n, w) => SumTo(f, n, w)
<1>1. PICK g : SumTo(g, n, w)
  BY SumsExist
<1>2. AddsUp(g, n, w)
  <2>1. g = [i \in 0..n |-> g[i]]
    BY <1>1 DEF SumTo
  <2>2. \A i \in 0..n : g[i] = IF i = 0 THEN 0 ELSE g[i - 1] + w[i]
    BY <1>1 DEF SumTo
  <2>. QED
    BY <2>1, <2>2 DEF AddsUp
<1>3. ASSUME NEW f, AddsUp(f, n, w) PROVE SumTo(f, n, w)
  <2>. DEFINE S == {i \in 0..n : f[i] \in Int}
  <2>1. /\ f = [i \in 0..n |-> f[i]] /\ f[0] = 0
        /\ \A i \in 1..n : f[i] = f[i - 1] + w[i]
    BY <1>3 DEF AddsUp
  <2>2. 0 \in S
    BY <2>1
  <2>3. ASSUME NEW i \in 0 + 1..n, i - 1 \in S PROVE i \in S
    <3>1. i \in 1..n /\ i \in 0..n /\ f[i - 1] \in Int /\ w[i] \in Int
      BY <2>3
    <3>2. f[i] = f[i - 1] + w[i]
      BY <2>1, <3>1
    <3>. QED
      BY <3>1, <3>2
  <2>4. 0 \in Int /\ n \in Int
    OBVIOUS
  <2>. HIDE DEF S
  <2>5. \A i \in 0..n : i \in S
    BY <2>2, <2>3, <2>4, EveryOne
  <2>6. \A i \in 0..n : f[i] \in Int
    BY <2>5 DEF S
  <2>. QED
    BY <2>1, <2>6 DEF SumTo
<1>. QED
  BY <1>2, <1>3

-----------------------------------------------------------------------------
(* Distances and tours *)

(* In hundredths, rounded down. *)
IsRoot(n, s) == n * n <= 10000 * s /\ 10000 * s < (n + 1) * (n + 1)

(* Every number has a root. *)
LEMMA RootExists ==
    ASSUME NEW s \in Nat
    PROVE  \E n \in 0..100 * s : IsRoot(n, s)
<1>. DEFINE N == 10000 * s
            T == {n \in Nat : N < (n + 1) * (n + 1)}
<1>1. N \in Nat
  OBVIOUS
<1>2. 100 * s \in Nat /\ N < (100 * s + 1) * (100 * s + 1)
  <2>1. (100 * s + 1) * (100 * s + 1) = 10000 * (s * s) + 200 * s + 1
    OBVIOUS
  <2>2. s <= s * s
    <3>1. CASE s = 0
      BY <3>1
    <3>2. CASE s # 0
      <4>1. s >= 1
        BY <3>2
      <4>2. s * (s - 1) >= 0
        BY <4>1
      <4>. QED
        BY <4>2
    <3>. QED
      BY <3>1, <3>2
  <2>. QED
    BY <2>1, <2>2
<1>3. PICK n \in T : \A m \in T : n <= m
  <2>1. 100 * s \in T
    BY <1>2
  <2>. HIDE DEF T
  <2>2. T \subseteq Nat
    BY DEF T
  <2>. QED
    BY <2>1, <2>2, LeastOf
<1>4. n \in Nat /\ N < (n + 1) * (n + 1) /\ n <= 100 * s
  BY <1>2, <1>3
<1>5. n * n <= N
  <2>1. CASE n = 0
    BY <2>1, <1>1
  <2>2. CASE n # 0
    <3>1. n - 1 \in Nat /\ n - 1 \notin T
      BY <1>3, <1>4, <2>2
    <3>2. ~(N < ((n - 1) + 1) * ((n - 1) + 1))
      BY <3>1
    <3>3. (n - 1) + 1 = n /\ n * n \in Int
      BY <1>4
    <3>. HIDE DEF N
    <3>. QED
      BY <3>2, <3>3, <1>1
  <2>. QED
    BY <2>1, <2>2
<1>. QED
  BY <1>4, <1>5 DEF IsRoot

(* Distances are numbers, the same there and back. *)
LEMMA ApartIsDistance ==
    ASSUME centroids \in Seq(Int \X Int), NEW r \in Routes, NEW s \in Routes
    PROVE  Apart(r, s) \in Int /\ Apart(r, s) = Apart(s, r)
<1>. DEFINE p == centroids[r]
            q == centroids[s]
            square == (p[1] - q[1]) * (p[1] - q[1]) + (p[2] - q[2]) * (p[2] - q[2])
            other == (q[1] - p[1]) * (q[1] - p[1]) + (q[2] - p[2]) * (q[2] - p[2])
            root(sq) == CHOOSE n \in 0..100 * sq : IsRoot(n, sq)
<1>1. p \in Int \X Int /\ q \in Int \X Int
  BY DEF Routes
<1>2. p[1] \in Int /\ p[2] \in Int /\ q[1] \in Int /\ q[2] \in Int
  BY <1>1
<1>3. square = other /\ square \in Nat
  <2>1. \A x, y \in Int : (x - y) * (x - y) = (y - x) * (y - x)
    OBVIOUS
  <2>2. \A x \in Int : x * x \in Nat
    OBVIOUS
  <2>3. p[1] - q[1] \in Int /\ p[2] - q[2] \in Int
    BY <1>2
  <2>4. square \in Nat
    <3>. DEFINE x == p[1] - q[1]
                y == p[2] - q[2]
    <3>. HIDE DEF x, y
    <3>1. x \in Int /\ y \in Int
      BY <2>3 DEF x, y
    <3>2. x * x \in Nat /\ y * y \in Nat
      BY <2>2, <3>1
    <3>3. x * x + y * y \in Nat
      BY <3>2
    <3>. QED
      BY <3>3 DEF x, y
  <2>5. square = other
    <3>1. (p[1] - q[1]) * (p[1] - q[1]) = (q[1] - p[1]) * (q[1] - p[1])
      BY <1>2, <2>1
    <3>2. (p[2] - q[2]) * (p[2] - q[2]) = (q[2] - p[2]) * (q[2] - p[2])
      BY <1>2, <2>1
    <3>. QED
      BY <3>1, <3>2
  <2>. QED
    BY <2>4, <2>5
<1>4. Apart(r, s) = root(square) /\ Apart(s, r) = root(other)
  BY DEF Apart, IsRoot
<1>. HIDE DEF square, other
<1>5. \E n \in 0..100 * square : IsRoot(n, square)
  BY <1>3, RootExists
<1>6. root(square) \in 0..100 * square
  BY <1>5
<1>. QED
  BY <1>3, <1>4, <1>6

(* The way of a tour that each route of it begins. *)
Ways(t) == [i \in 1..Len(t) |-> Apart(t[i], After(t, i))]

(* A tour is as long as its ways together. *)
LEMMA TourIsSum ==
    ASSUME NEW t, Len(t) \in Nat, \A i \in 1..Len(t) : Ways(t)[i] \in Int
    PROVE  \E f : SumTo(f, Len(t), Ways(t)) /\ TourLength(t) = f[Len(t)]
<1>. DEFINE n == Len(t)
            w == Ways(t)
            Rec(f) == f = [i \in 0..n |-> IF i = 0 THEN 0 ELSE f[i - 1] + Apart(t[i], After(t, i))]
            upTo == CHOOSE f : Rec(f)
<1>1. \A i \in 1..n : w[i] = Apart(t[i], After(t, i))
  BY DEF Ways
<1>2. \A f : Rec(f) <=> AddsUp(f, n, w)
  <2>. SUFFICES ASSUME NEW f PROVE Rec(f) <=> AddsUp(f, n, w)
    OBVIOUS
  <2>1. [i \in 0..n |-> IF i = 0 THEN 0 ELSE f[i - 1] + Apart(t[i], After(t, i))]
          = [i \in 0..n |-> IF i = 0 THEN 0 ELSE f[i - 1] + w[i]]
    BY <1>1
  <2>. QED
    BY <2>1, Zenon DEF AddsUp
<1>. HIDE DEF Rec
<1>3. \E f : AddsUp(f, n, w)
  BY SumsAddUp
<1>4. AddsUp(upTo, n, w)
  BY <1>2, <1>3
<1>5. SumTo(upTo, n, w)
  <2>1. n \in Nat /\ \A i \in 1..n : w[i] \in Int
    OBVIOUS
  <2>. HIDE DEF n, w, upTo
  <2>. QED
    BY <1>4, <2>1, SumsAddUp
<1>6. TourLength(t) = upTo[n]
  BY DEF TourLength, Rec
<1>. QED
  BY <1>5, <1>6

(* The tours of all routes. *)
Tours == {t \in Seq(Routes) : Len(t) = Len(centroids)}

(* The tour t with the part from p to q the other way round. *)
Turned(t, p, q) == [k \in Routes |-> IF k \in p..q THEN t[p + q - k] ELSE t[k]]

(* The ways of a tour are distances, and the last one leads back. *)
LEMMA WaysOf ==
    ASSUME centroids \in Seq(Int \X Int), NEW t \in Tours
    PROVE  /\ Len(t) = Len(centroids) /\ Len(t) \in Nat
           /\ \A i \in 1..Len(t) :
                 /\ t[i] \in Routes /\ Ways(t)[i] \in Int
                 /\ After(t, i) = IF i = Len(t) THEN t[1] ELSE t[i + 1]
                 /\ Ways(t)[i] = Apart(t[i], After(t, i))
<1>1. Len(t) = Len(centroids) /\ Len(t) \in Nat /\ \A i \in 1..Len(t) : t[i] \in Routes
  BY DEF Tours
<1>. DEFINE n == Len(t)
<1>2. ASSUME NEW i \in 1..n PROVE After(t, i) = IF i = n THEN t[1] ELSE t[i + 1]
  <2>1. n \in Nat /\ n > 0
    BY <1>1
  <2>2. (i % n) = IF i = n THEN 0 ELSE i
    <3>. HIDE DEF n
    <3>. QED
      BY <2>1
  <2>. QED
    BY <2>1, <2>2, SMTT(60) DEF After
<1>3. ASSUME NEW i \in 1..n PROVE After(t, i) \in Routes
  <2>1. 1 \in 1..n /\ (i # n => i + 1 \in 1..n)
    BY <1>1
  <2>2. t[1] \in Routes /\ (i # n => t[i + 1] \in Routes)
    BY <1>1, <2>1
  <2>. QED
    BY <1>2, <2>2
<1>4. \A i \in 1..n : Ways(t)[i] = Apart(t[i], After(t, i))
  BY DEF Ways
<1>. QED
  BY <1>1, <1>2, <1>3, <1>4, ApartIsDistance

(* A tour turned in part is one. *)
LEMMA TurnedIsTour ==
    ASSUME NEW t \in Tours, NEW p \in Routes, NEW q \in Routes
    PROVE  /\ Turned(t, p, q) \in Tours
           /\ \A k \in Routes : Turned(t, p, q)[k] = IF k \in p..q THEN t[p + q - k] ELSE t[k]
<1>. DEFINE n == Len(centroids)
<1>1. Routes = 1..n /\ p \in 1..n /\ q \in 1..n /\ Len(t) = n /\ n \in Nat
  BY DEF Routes, Tours
<1>2. \A k \in 1..n : t[k] \in Routes
  BY <1>1, SMTT(60) DEF Tours
<1>. HIDE DEF n
<1>3. \A k \in p..q : p + q - k \in 1..n
  BY <1>1
<1>4. Turned(t, p, q) \in [1..n -> Routes]
  BY <1>1, <1>2, <1>3 DEF Turned
<1>5. Turned(t, p, q) \in Seq(Routes) /\ Len(Turned(t, p, q)) = n
  BY <1>1, <1>4, SMTT(60)
<1>. QED
  BY <1>1, <1>5 DEF Tours, Turned, n

(* Turning a part behind the first route exchanges two ways for two others. *)
LEMMA TurnedLength ==
    ASSUME centroids \in Seq(Int \X Int), NEW t \in Tours,
           NEW p \in Routes, NEW q \in Routes, 2 <= p, p < q
    PROVE  /\ TourLength(t) \in Int
           /\ TourLength(Turned(t, p, q)) =
                 TourLength(t) - Apart(t[p - 1], t[p]) - Apart(t[q], After(t, q))
                   + Apart(t[p - 1], t[q]) + Apart(t[p], After(t, q))
<1>. DEFINE n == Len(centroids)
            r == Turned(t, p, q)
            w == Ways(t)
            v == Ways(r)
<1>1. n \in Nat /\ Routes = 1..n /\ p \in 1..n /\ q \in 1..n
  BY DEF Routes
<1>2. r \in Tours /\ \A k \in 1..n : r[k] = IF k \in p..q THEN t[p + q - k] ELSE t[k]
  BY <1>1, TurnedIsTour
<1>. HIDE DEF r
<1>3. /\ Len(t) = n
      /\ \A i \in 1..n : /\ t[i] \in Routes /\ w[i] \in Int
                          /\ w[i] = Apart(t[i], IF i = n THEN t[1] ELSE t[i + 1])
  BY WaysOf
<1>4. /\ Len(r) = n
      /\ \A i \in 1..n : /\ r[i] \in Routes /\ v[i] \in Int
                          /\ v[i] = Apart(r[i], IF i = n THEN r[1] ELSE r[i + 1])
  BY <1>2, WaysOf
<1>5. PICK f : SumTo(f, n, w) /\ TourLength(t) = f[n]
  BY <1>1, <1>3, TourIsSum
<1>6. PICK g : SumTo(g, n, v) /\ TourLength(r) = g[n]
  BY <1>1, <1>4, TourIsSum
<1>7. After(t, q) = IF q = n THEN t[1] ELSE t[q + 1]
  BY <1>1, <1>3, WaysOf
<1>. HIDE DEF w, v, n
<1>8. \A i \in 1..p - 2 : v[i] = w[i]
  <2>. SUFFICES ASSUME NEW i \in 1..p - 2 PROVE v[i] = w[i]
    OBVIOUS
  <2>1. i \in 1..n /\ i + 1 \in 1..n /\ i # n /\ i \notin p..q /\ i + 1 \notin p..q
    BY <1>1
  <2>2. r[i] = t[i] /\ r[i + 1] = t[i + 1]
    BY <1>2, <2>1
  <2>. QED
    BY <1>3, <1>4, <2>1, <2>2
<1>9. v[p - 1] = Apart(t[p - 1], t[q]) /\ w[p - 1] = Apart(t[p - 1], t[p])
  <2>1. /\ p - 1 \in 1..n /\ (p - 1) + 1 = p /\ p - 1 # n /\ p - 1 \notin p..q /\ p \in p..q
        /\ p + q - p = q
    BY <1>1
  <2>2. r[p - 1] = t[p - 1] /\ r[p] = t[q]
    BY <1>1, <1>2, <2>1
  <2>. QED
    BY <1>3, <1>4, <2>1, <2>2
<1>10. \A k \in p..q - 1 : v[k] = w[p + q - k - 1]
  <2>. SUFFICES ASSUME NEW k \in p..q - 1 PROVE v[k] = w[p + q - k - 1]
    OBVIOUS
  <2>. DEFINE m == p + q - k - 1
  <2>1. /\ k \in 1..n /\ k + 1 \in 1..n /\ k # n /\ k \in p..q /\ k + 1 \in p..q
        /\ m \in 1..n /\ m + 1 \in 1..n /\ m # n /\ p + q - k = m + 1 /\ p + q - (k + 1) = m
    BY <1>1
  <2>2. r[k] = t[m + 1] /\ r[k + 1] = t[m]
    BY <1>2, <2>1
  <2>3. v[k] = Apart(t[m + 1], t[m]) /\ w[m] = Apart(t[m], t[m + 1])
    BY <1>3, <1>4, <2>1, <2>2
  <2>4. t[m] \in Routes /\ t[m + 1] \in Routes
    BY <1>3, <2>1
  <2>. QED
    BY <2>3, <2>4, ApartIsDistance
<1>11. v[q] = Apart(t[p], After(t, q)) /\ w[q] = Apart(t[q], After(t, q))
  <2>1. q \in p..q /\ p + q - q = p /\ 1 \in 1..n /\ 1 \notin p..q /\ q + 1 \notin p..q
    BY <1>1
  <2>2. r[q] = t[p] /\ r[1] = t[1] /\ (q # n => r[q + 1] = t[q + 1])
    BY <1>1, <1>2, <2>1
  <2>3. v[q] = Apart(r[q], IF q = n THEN r[1] ELSE r[q + 1])
    BY <1>1, <1>4
  <2>4. w[q] = Apart(t[q], IF q = n THEN t[1] ELSE t[q + 1])
    BY <1>1, <1>3
  <2>. QED
    BY <1>7, <2>2, <2>3, <2>4
<1>12. \A i \in q + 1..n : v[i] = w[i]
  <2>. SUFFICES ASSUME NEW i \in q + 1..n PROVE v[i] = w[i]
    OBVIOUS
  <2>1. i \in 1..n /\ i \notin p..q /\ i + 1 \notin p..q /\ 1 \in 1..n /\ 1 \notin p..q
    BY <1>1
  <2>2. r[i] = t[i] /\ r[1] = t[1] /\ (i # n => r[i + 1] = t[i + 1])
    BY <1>1, <1>2, <2>1
  <2>. QED
    BY <1>3, <1>4, <2>1, <2>2
<1>13. /\ \A i \in 0..n : f[i] \in Int /\ g[i] \in Int
       /\ f[0] = 0 /\ g[0] = 0
       /\ \A i \in 1..n : f[i] = f[i - 1] + w[i] /\ g[i] = g[i - 1] + v[i]
  BY <1>5, <1>6 DEF SumTo
<1>. DEFINE h == [k \in 0..n |-> g[k] - f[k]]
            b == [k \in p - 1..q - 1 |-> g[k] + f[p + q - k - 2]]
<1>14. h[p - 2] = h[0]
  <2>1. ASSUME NEW k \in 0 + 1..p - 2 PROVE h[k] = h[k - 1]
    <3>1. k \in 1..n /\ k - 1 \in 0..n /\ k \in 0..n /\ v[k] = w[k] /\ w[k] \in Int
      BY <1>1, <1>3, <1>8
    <3>2. f[k] = f[k - 1] + w[k] /\ g[k] = g[k - 1] + w[k]
      BY <1>13, <3>1
    <3>3. f[k - 1] \in Int /\ g[k - 1] \in Int
      BY <1>13, <3>1
    <3>. QED
      BY <3>1, <3>2, <3>3
  <2>. HIDE DEF h
  <2>. QED
    BY <1>1, <2>1, Steady
<1>15. h[n] = h[q]
  <2>1. ASSUME NEW k \in q + 1..n PROVE h[k] = h[k - 1]
    <3>1. k \in 1..n /\ k - 1 \in 0..n /\ k \in 0..n /\ v[k] = w[k] /\ w[k] \in Int
      BY <1>1, <1>3, <1>12
    <3>2. f[k] = f[k - 1] + w[k] /\ g[k] = g[k - 1] + w[k]
      BY <1>13, <3>1
    <3>3. f[k - 1] \in Int /\ g[k - 1] \in Int
      BY <1>13, <3>1
    <3>. QED
      BY <3>1, <3>2, <3>3
  <2>. HIDE DEF h
  <2>. QED
    BY <1>1, <2>1, Steady
<1>16. b[q - 1] = b[p - 1]
  <2>1. ASSUME NEW k \in (p - 1) + 1..q - 1 PROVE b[k] = b[k - 1]
    <3>. DEFINE m == p + q - k - 1
    <3>1. m \in 1..n /\ k \in 1..n /\ m \in 0..n /\ m - 1 \in 0..n /\ k - 1 \in 0..n /\ k \in p..q - 1
      BY <1>1
    <3>2. v[k] = w[m]
      BY <1>10, <3>1
    <3>3. p + q - k - 2 = m - 1 /\ p + q - (k - 1) - 2 = m
      BY <1>1
    <3>4. b[k] = g[k] + f[m - 1] /\ b[k - 1] = g[k - 1] + f[m]
      BY <1>1, <3>3
    <3>5. f[m] = f[m - 1] + w[m] /\ g[k] = g[k - 1] + v[k]
      BY <1>13, <3>1
    <3>. HIDE DEF m
    <3>. QED
      BY <1>3, <1>13, <3>1, <3>2, <3>4, <3>5, SMTT(60)
  <2>. HIDE DEF b
  <2>. QED
    BY <1>1, <2>1, Steady
<1>17. g[q - 1] + f[p - 1] = g[p - 1] + f[q - 1]
  <2>1. p + q - (q - 1) - 2 = p - 1 /\ p + q - (p - 1) - 2 = q - 1
    BY <1>1
  <2>2. b[q - 1] = g[q - 1] + f[p - 1] /\ b[p - 1] = g[p - 1] + f[q - 1]
    BY <1>1, <2>1
  <2>. QED
    BY <1>16, <2>2
<1>18. g[p - 2] = f[p - 2] /\ g[n] - f[n] = g[q] - f[q]
  <2>1. p - 2 \in 0..n /\ 0 \in 0..n /\ n \in 0..n /\ q \in 0..n
    BY <1>1
  <2>2. /\ h[p - 2] = g[p - 2] - f[p - 2] /\ h[0] = g[0] - f[0]
        /\ h[n] = g[n] - f[n] /\ h[q] = g[q] - f[q]
    BY <2>1
  <2>. DEFINE x == g[p - 2]  y == f[p - 2]
  <2>3. x \in Int /\ y \in Int
    BY <1>13, <2>1
  <2>4. x - y = g[0] - f[0]
    BY <1>14, <2>2
  <2>5. x - y = 0
    BY <1>13, <2>4
  <2>6. g[n] - f[n] = g[q] - f[q]
    BY <1>15, <2>2
  <2>. HIDE DEF x, y
  <2>7. x = y
    BY <2>3, <2>5
  <2>. QED
    BY <2>6, <2>7 DEF x, y
<1>19. /\ f[p - 1] = f[p - 2] + w[p - 1] /\ g[p - 1] = g[p - 2] + v[p - 1]
       /\ f[q] = f[q - 1] + w[q] /\ g[q] = g[q - 1] + v[q]
  <2>1. p - 1 \in 1..n /\ (p - 1) - 1 = p - 2
    BY <1>1
  <2>. QED
    BY <1>1, <1>13, <2>1
<1>. DEFINE f2 == f[p - 2]  f1 == f[p - 1]  f3 == f[q - 1]  f4 == f[q]  f5 == f[n]
            g2 == g[p - 2]  g1 == g[p - 1]  g3 == g[q - 1]  g4 == g[q]  g5 == g[n]
            w1 == w[p - 1]  w4 == w[q]  v1 == v[p - 1]  v4 == v[q]
<1>20. /\ f2 \in Int /\ f1 \in Int /\ f3 \in Int /\ f4 \in Int /\ f5 \in Int
       /\ g2 \in Int /\ g1 \in Int /\ g3 \in Int /\ g4 \in Int /\ g5 \in Int
  <2>1. p - 2 \in 0..n /\ p - 1 \in 0..n /\ q - 1 \in 0..n /\ q \in 0..n /\ n \in 0..n
    BY <1>1
  <2>. QED
    BY <1>13, <2>1
<1>21. w1 \in Int /\ v1 \in Int /\ w4 \in Int /\ v4 \in Int
  BY <1>1, <1>3, <1>4
<1>22. /\ g2 = f2 /\ g5 - f5 = g4 - f4 /\ g3 + f1 = g1 + f3
       /\ f1 = f2 + w1 /\ g1 = g2 + v1 /\ f4 = f3 + w4 /\ g4 = g3 + v4
  BY <1>17, <1>18, <1>19
<1>23. TourLength(t) = f5 /\ TourLength(r) = g5
  BY <1>5, <1>6
<1>24. /\ v1 = Apart(t[p - 1], t[q]) /\ w1 = Apart(t[p - 1], t[p])
       /\ v4 = Apart(t[p], After(t, q)) /\ w4 = Apart(t[q], After(t, q))
  BY <1>9, <1>11
<1>. HIDE DEF f1, f2, f3, f4, f5, g1, g2, g3, g4, g5, w1, w4, v1, v4
<1>25. g5 = f5 - w1 - w4 + v1 + v4
  BY <1>20, <1>21, <1>22
<1>. QED
  BY <1>20, <1>23, <1>24, <1>25 DEF r

(* Turning the first part exchanges the way behind it and the way back. *)
LEMMA TurnedFirst ==
    ASSUME centroids \in Seq(Int \X Int), NEW t \in Tours, NEW q \in Routes, 1 < q
    PROVE  /\ TourLength(t) \in Int
           /\ LET n == Len(t) IN
              TourLength(Turned(t, 1, q)) =
                 IF q = n THEN TourLength(t)
                 ELSE TourLength(t) - Apart(t[n], t[1]) - Apart(t[q], t[q + 1])
                        + Apart(t[n], t[q]) + Apart(t[1], t[q + 1])
<1>. DEFINE n == Len(centroids)
            r == Turned(t, 1, q)
            w == Ways(t)
            v == Ways(r)
<1>1. n \in Nat /\ Routes = 1..n /\ 1 \in 1..n /\ q \in 1..n
  BY DEF Routes
<1>2. r \in Tours /\ \A k \in 1..n : r[k] = IF k \in 1..q THEN t[1 + q - k] ELSE t[k]
  <2>1. 1 \in Routes /\ q \in Routes
    BY <1>1
  <2>2. /\ Turned(t, 1, q) \in Tours
        /\ \A k \in Routes : Turned(t, 1, q)[k] = IF k \in 1..q THEN t[1 + q - k] ELSE t[k]
    BY <2>1, TurnedIsTour
  <2>. HIDE DEF n
  <2>. QED
    BY <1>1, <2>2
<1>. HIDE DEF r
<1>3. /\ Len(t) = n
      /\ \A i \in 1..n : /\ t[i] \in Routes /\ w[i] \in Int
                          /\ w[i] = Apart(t[i], IF i = n THEN t[1] ELSE t[i + 1])
  BY WaysOf, SMTT(60)
<1>4. /\ Len(r) = n
      /\ \A i \in 1..n : /\ r[i] \in Routes /\ v[i] \in Int
                          /\ v[i] = Apart(r[i], IF i = n THEN r[1] ELSE r[i + 1])
  BY <1>2, WaysOf, SMTT(60)
<1>5. PICK f : SumTo(f, n, w) /\ TourLength(t) = f[n]
  BY <1>1, <1>3, TourIsSum
<1>6. PICK g : SumTo(g, n, v) /\ TourLength(r) = g[n]
  BY <1>1, <1>4, TourIsSum
<1>. HIDE DEF w, v, n
<1>7. \A k \in 1..q - 1 : v[k] = w[q - k]
  <2>. SUFFICES ASSUME NEW k \in 1..q - 1 PROVE v[k] = w[q - k]
    OBVIOUS
  <2>. DEFINE m == q - k
  <2>1. /\ k \in 1..n /\ k + 1 \in 1..n /\ k # n /\ k \in 1..q /\ k + 1 \in 1..q
        /\ m \in 1..n /\ m + 1 \in 1..n /\ m # n /\ 1 + q - k = m + 1 /\ 1 + q - (k + 1) = m
    BY <1>1
  <2>2. r[k] = t[m + 1] /\ r[k + 1] = t[m]
    BY <1>2, <2>1
  <2>3. v[k] = Apart(t[m + 1], t[m]) /\ w[m] = Apart(t[m], t[m + 1])
    BY <1>3, <1>4, <2>1, <2>2
  <2>4. t[m] \in Routes /\ t[m + 1] \in Routes
    BY <1>3, <2>1
  <2>. QED
    BY <2>3, <2>4, ApartIsDistance
<1>8. /\ \A i \in 0..n : f[i] \in Int /\ g[i] \in Int
      /\ f[0] = 0 /\ g[0] = 0
      /\ \A i \in 1..n : f[i] = f[i - 1] + w[i] /\ g[i] = g[i - 1] + v[i]
  BY <1>5, <1>6 DEF SumTo
<1>. DEFINE b == [k \in 0..q - 1 |-> g[k] + f[q - 1 - k]]
<1>9. b[q - 1] = b[0]
  <2>1. ASSUME NEW k \in 0 + 1..q - 1 PROVE b[k] = b[k - 1]
    <3>. DEFINE m == q - k
    <3>1. m \in 1..n /\ k \in 1..n /\ m \in 0..n /\ m - 1 \in 0..n /\ k - 1 \in 0..n /\ k \in 1..q - 1
      BY <1>1
    <3>2. v[k] = w[m]
      BY <1>7, <3>1
    <3>3. q - 1 - k = m - 1 /\ q - 1 - (k - 1) = m
      BY <1>1
    <3>4. b[k] = g[k] + f[m - 1] /\ b[k - 1] = g[k - 1] + f[m]
      BY <1>1, <3>3
    <3>5. f[m] = f[m - 1] + w[m] /\ g[k] = g[k - 1] + v[k]
      BY <1>8, <3>1
    <3>. HIDE DEF m
    <3>. QED
      BY <1>3, <1>8, <3>1, <3>2, <3>4, <3>5, SMTT(60)
  <2>. HIDE DEF b
  <2>. QED
    BY <1>1, <2>1, Steady
<1>10. g[q - 1] = f[q - 1]
  <2>1. b[q - 1] = g[q - 1] + f[0] /\ b[0] = g[0] + f[q - 1]
    BY <1>1
  <2>2. q - 1 \in 0..n
    BY <1>1
  <2>. QED
    BY <1>8, <1>9, <2>1, <2>2
<1>11. TourLength(t) \in Int
  BY <1>1, <1>5, <1>8
<1>12. r[q] = t[1] /\ r[1] = t[q]
  BY <1>1, <1>2
<1>13. CASE q = n
  <2>1. v[n] = Apart(t[1], t[n]) /\ w[n] = Apart(t[n], t[1])
    BY <1>1, <1>3, <1>4, <1>12, <1>13
  <2>2. v[n] = w[n]
    BY <1>1, <1>3, <1>13, <2>1, ApartIsDistance
  <2>3. f[n] = f[n - 1] + w[n] /\ g[n] = g[n - 1] + v[n]
    BY <1>1, <1>8, <1>13
  <2>4. g[n] = f[n]
    BY <1>10, <1>13, <2>2, <2>3
  <2>. QED
    BY <1>3, <1>5, <1>6, <1>11, <1>13, <2>4 DEF r
<1>14. CASE q # n
  <2>1. /\ q \in 1..n /\ q + 1 \in 1..n /\ q + 1 \notin 1..q /\ n \notin 1..q /\ n \in 1..n
        /\ q - 1 \in 0..n /\ n - 1 \in 0..n /\ q <= n - 1
    BY <1>1, <1>14
  <2>2. v[q] = Apart(t[1], t[q + 1]) /\ w[q] = Apart(t[q], t[q + 1])
    <3>1. r[q + 1] = t[q + 1]
      BY <1>2, <2>1
    <3>. QED
      BY <1>3, <1>4, <1>12, <1>14, <2>1, <3>1
  <2>3. v[n] = Apart(t[n], t[q]) /\ w[n] = Apart(t[n], t[1])
    <3>1. r[n] = t[n]
      BY <1>2, <2>1
    <3>. QED
      BY <1>3, <1>4, <1>12, <2>1, <3>1
  <2>. DEFINE h == [k \in 0..n |-> g[k] - f[k]]
  <2>4. h[n - 1] = h[q]
    <3>1. ASSUME NEW k \in q + 1..n - 1 PROVE h[k] = h[k - 1]
      <4>1. k \in 1..n /\ k + 1 \in 1..n /\ k # n /\ k \notin 1..q /\ k + 1 \notin 1..q
        BY <1>1
      <4>2. r[k] = t[k] /\ r[k + 1] = t[k + 1]
        BY <1>2, <4>1
      <4>3. v[k] = w[k] /\ w[k] \in Int /\ k - 1 \in 0..n /\ k \in 0..n
        BY <1>3, <1>4, <4>1, <4>2
      <4>4. f[k] = f[k - 1] + w[k] /\ g[k] = g[k - 1] + w[k]
        BY <1>8, <4>1, <4>3
      <4>5. f[k - 1] \in Int /\ g[k - 1] \in Int
        BY <1>8, <4>3
      <4>. QED
        BY <4>3, <4>4, <4>5
    <3>. HIDE DEF h
    <3>. QED
      BY <1>1, <2>1, <3>1, Steady
  <2>. DEFINE f3 == f[q - 1]  f4 == f[q]  f6 == f[n - 1]  f5 == f[n]
              g3 == g[q - 1]  g4 == g[q]  g6 == g[n - 1]  g5 == g[n]
              w4 == w[q]  v4 == v[q]  w5 == w[n]  v5 == v[n]
  <2>5. /\ f3 \in Int /\ f4 \in Int /\ f5 \in Int /\ f6 \in Int
        /\ g3 \in Int /\ g4 \in Int /\ g5 \in Int /\ g6 \in Int
    BY <1>1, <1>8, <2>1
  <2>6. w4 \in Int /\ v4 \in Int /\ w5 \in Int /\ v5 \in Int
    BY <1>3, <1>4, <2>1
  <2>7. g6 - f6 = g4 - f4
    BY <2>1, <2>4
  <2>8. g3 = f3 /\ f4 = f3 + w4 /\ g4 = g3 + v4 /\ f5 = f6 + w5 /\ g5 = g6 + v5
    BY <1>8, <1>10, <2>1
  <2>9. TourLength(t) = f5 /\ TourLength(r) = g5
    BY <1>5, <1>6
  <2>10. /\ v4 = Apart(t[1], t[q + 1]) /\ w4 = Apart(t[q], t[q + 1])
         /\ v5 = Apart(t[n], t[q]) /\ w5 = Apart(t[n], t[1])
    BY <2>2, <2>3
  <2>. HIDE DEF f3, f4, f5, f6, g3, g4, g5, g6, w4, v4, w5, v5
  <2>11. g5 = f5 - w5 - w4 + v5 + v4
    BY <2>5, <2>6, <2>7, <2>8
  <2>12. Len(t) = n
    BY <1>3
  <2>. QED
    BY <1>11, <1>14, <2>9, <2>10, <2>11, <2>12 DEF r
<1>. QED
  BY <1>13, <1>14

-----------------------------------------------------------------------------
(* The order of routes *)

(* The tour so far starts at the first route and comes to none twice. *)
TourIsOpen ==
    /\ ordering \in {"idle", "nearest", "twoOpt", "done"}
    /\ ordering # "idle" =>
          /\ centroids \in Seq(Int \X Int) /\ order \in Seq(Routes)
          /\ order # << >> /\ order[1] = 1 /\ Len(order) <= Len(centroids)
          /\ \A i, j \in 1..Len(order) : order[i] = order[j] => i = j
    /\ ordering \in {"twoOpt", "done"} => Len(order) = Len(centroids)

(* The exchanges of a pass before the next one. *)
Compared(i, j) == i < pair[1] \/ (i = pair[1] /\ j < pair[2])

(* A pass that has not improved the tour has found nothing to exchange. *)
PassIsSwept ==
    LET n == Len(order) IN
    /\ ordering = "twoOpt" =>
          /\ pair \in Int \X Int /\ improved \in BOOLEAN
          /\ pair[1] \in 1..n - 2 /\ pair[2] \in pair[1] + 2..n
          /\ ~improved => \A i \in 1..n - 2 : \A j \in i + 2..n : Compared(i, j) => ~Shorter(i, j)
    /\ ordering = "done" => \A i \in 1..n - 2 : \A j \in i + 2..n : ~Shorter(i, j)

OrderInv == TourIsOpen /\ PassIsSwept

(* The routes wait in the order they were stored. *)
LEMMA OrderStart == OrderInit => OrderInv
BY DEF OrderInit, OrderInv, TourIsOpen, PassIsSwept

(* Routes are numbered from one. *)
LEMMA RoutesNumbered ==
    ASSUME TourIsOpen, ordering # "idle"
    PROVE  /\ Len(centroids) \in Nat /\ Len(order) \in Nat /\ 1 <= Len(order)
           /\ Routes = 1..Len(centroids)
           /\ \A i \in 1..Len(order) : order[i] \in Routes
<1>1. centroids \in Seq(Int \X Int) /\ order \in Seq(Routes) /\ order # << >>
  BY DEF TourIsOpen
<1>2. Len(order) \in Nat /\ Len(order) # 0 /\ \A i \in 1..Len(order) : order[i] \in Routes
  BY <1>1
<1>3. Len(centroids) \in Nat /\ Routes = 1..Len(centroids)
  BY <1>1 DEF Routes
<1>4. 1 <= Len(order)
  BY <1>2
<1>. QED
  BY <1>2, <1>3, <1>4

(* The first route is the tour to begin with. *)
LEMMA FirstRoute == OrderAssumption /\ OptimizeRoutes => OrderInv'
<1>. SUFFICES ASSUME OrderAssumption, OptimizeRoutes PROVE OrderInv'
  OBVIOUS
<1>1. centroids' \in Seq(Int \X Int) /\ centroids' # << >>
  BY DEF OrderAssumption, OptimizeRoutes
<1>2. order' = <<1>> /\ ordering' = "nearest"
  BY DEF OptimizeRoutes
<1>3. Len(centroids') \in Nat /\ Len(centroids') >= 1
  BY <1>1
<1>4. order' \in Seq(Routes') /\ order' # << >> /\ order'[1] = 1 /\ Len(order') = 1
  BY <1>2, <1>3 DEF Routes
<1>5. TourIsOpen'
  BY <1>1, <1>2, <1>3, <1>4 DEF TourIsOpen
<1>. QED
  BY <1>2, <1>5 DEF OrderInv, PassIsSwept

(* The nearest route is one the tour has not come to. *)
LEMMA NearestIsNew == OrderInv /\ NearestNeighbour => OrderInv'
<1>. SUFFICES ASSUME OrderInv, NearestNeighbour PROVE OrderInv'
  OBVIOUS
<1>1. TourIsOpen /\ ordering = "nearest" /\ Len(order) < Len(centroids)
  BY DEF OrderInv, NearestNeighbour
<1>2. UNCHANGED <<centroids, ordering>>
  BY DEF NearestNeighbour
<1>3. PICK r \in Routes : /\ \A i \in 1..Len(order) : order[i] # r
                          /\ order' = Append(order, r)
  BY DEF NearestNeighbour
<1>4. /\ order \in Seq(Routes) /\ order # << >> /\ order[1] = 1
      /\ \A i, j \in 1..Len(order) : order[i] = order[j] => i = j
  BY <1>1 DEF TourIsOpen
<1>5. /\ order' \in Seq(Routes) /\ Len(order') = Len(order) + 1 /\ order' # << >>
      /\ \A i \in 1..Len(order) + 1 : order'[i] = IF i <= Len(order) THEN order[i] ELSE r
  BY <1>3, <1>4
<1>6. Routes' = Routes
  BY <1>2 DEF Routes
<1>7. Len(order) \in Nat /\ Len(order) >= 1 /\ Len(centroids) \in Nat
  BY <1>1, RoutesNumbered
<1>8. \A i, j \in 1..Len(order') : order'[i] = order'[j] => i = j
  <2>. SUFFICES ASSUME NEW i \in 1..Len(order) + 1, NEW j \in 1..Len(order) + 1,
                       order'[i] = order'[j]
                PROVE  i = j
    BY <1>5
  <2>1. CASE i <= Len(order) /\ j <= Len(order)
    BY <1>4, <1>5, <1>7, <2>1
  <2>2. CASE ~(i <= Len(order)) /\ j <= Len(order)
    <3>1. j \in 1..Len(order) /\ order'[i] = r /\ order'[j] = order[j]
      BY <1>5, <1>7, <2>2
    <3>. QED
      BY <1>3, <3>1
  <2>3. CASE i <= Len(order) /\ ~(j <= Len(order))
    <3>1. i \in 1..Len(order) /\ order'[j] = r /\ order'[i] = order[i]
      BY <1>5, <1>7, <2>3
    <3>. QED
      BY <1>3, <3>1
  <2>4. CASE ~(i <= Len(order)) /\ ~(j <= Len(order))
    BY <1>7, <2>4
  <2>. QED
    BY <2>1, <2>2, <2>3, <2>4
<1>9. order'[1] = 1 /\ Len(order') <= Len(centroids)
  BY <1>1, <1>4, <1>5, <1>7
<1>10. TourIsOpen'
  BY <1>1, <1>2, <1>5, <1>6, <1>8, <1>9 DEF TourIsOpen
<1>. QED
  BY <1>1, <1>2, <1>10 DEF OrderInv, PassIsSwept

(* The first pass has compared nothing yet. *)
LEMMA PassesStart == OrderInv /\ StartTwoOpt => OrderInv'
<1>. SUFFICES ASSUME OrderInv, StartTwoOpt PROVE OrderInv'
  OBVIOUS
<1>1. /\ TourIsOpen /\ ordering = "nearest" /\ Len(order) = Len(centroids)
      /\ UNCHANGED <<centroids, order>>
      /\ ordering' = IF Len(centroids) < 3 THEN "done" ELSE "twoOpt"
      /\ pair' = <<1, 3>> /\ improved' = FALSE
  BY DEF OrderInv, StartTwoOpt
<1>2. Len(order) \in Nat /\ Len(order) >= 1
  BY <1>1, RoutesNumbered
<1>3. TourIsOpen'
  BY <1>1 DEF TourIsOpen, Routes
<1>4. ASSUME NEW i \in 1..Len(order) - 2, NEW j \in i + 2..Len(order) PROVE ~Compared(i, j)'
  BY <1>1, <1>2 DEF Compared
<1>5. PassIsSwept'
  <2>1. CASE Len(order) < 3
    BY <1>1, <1>2, <2>1 DEF PassIsSwept
  <2>2. CASE ~(Len(order) < 3)
    <3>1. pair'[1] \in 1..Len(order) - 2 /\ pair'[2] \in pair'[1] + 2..Len(order)
      BY <1>1, <1>2, <2>2
    <3>2. pair' \in Int \X Int
      <4>1. pair' = <<1, 3>>
        BY <1>1
      <4>. QED
        BY <4>1
    <3>4. improved' = FALSE
      BY <1>1
    <3>3. ordering' = "twoOpt" /\ order' = order
      BY <1>1, <2>2
    <3>. QED
      BY <1>4, <3>1, <3>2, <3>3, <3>4 DEF PassIsSwept
  <2>. QED
    BY <2>1, <2>2
<1>. QED
  BY <1>3, <1>5 DEF OrderInv

(* The order with a part reversed is the tour with the part turned. *)
LEMMA ReversedIsTurned ==
    ASSUME TourIsOpen, ordering \in {"twoOpt", "done"}
    PROVE  /\ order \in Tours /\ \A p, q : Reversed(p, q) = Turned(order, p, q)
BY DEF TourIsOpen, Tours, Reversed, Turned

(* A reversal behind the first route loses no route and lists none twice. *)
LEMMA ReversalKeepsRoutes ==
    ASSUME TourIsOpen, ordering = "twoOpt",
           NEW p \in Routes, NEW q \in Routes, 2 <= p, p < q,
           order' = Reversed(p, q), centroids' = centroids, ordering' \in {"twoOpt", "done"}
    PROVE  TourIsOpen'
<1>. DEFINE n == Len(centroids)
<1>1. /\ n \in Nat /\ Routes = 1..n /\ p \in 1..n /\ q \in 1..n
      /\ centroids \in Seq(Int \X Int) /\ Len(order) = n /\ order[1] = 1
      /\ \A i, j \in 1..n : order[i] = order[j] => i = j
  BY DEF TourIsOpen, Routes
<1>2. /\ order' \in Seq(Routes) /\ Len(order') = n
      /\ \A k \in 1..n : order'[k] = IF k \in p..q THEN order[p + q - k] ELSE order[k]
  <2>1. order \in Tours /\ order' = Turned(order, p, q)
    BY ReversedIsTurned
  <2>2. order' \in Tours
    BY <2>1, TurnedIsTour
  <2>3. \A k \in Routes : order'[k] = IF k \in p..q THEN order[p + q - k] ELSE order[k]
    <3>1. \A k \in Routes : Turned(order, p, q)[k] = IF k \in p..q THEN order[p + q - k] ELSE order[k]
      BY <2>1, TurnedIsTour
    <3>. QED
      BY <2>1, <3>1
  <2>. QED
    BY <1>1, <2>2, <2>3 DEF Tours
<1>3. Routes' = Routes
  BY DEF Routes
<1>. HIDE DEF n
<1>. DEFINE from(k) == IF k \in p..q THEN p + q - k ELSE k
<1>4. \A k \in 1..n : from(k) \in 1..n /\ order'[k] = order[from(k)]
  BY <1>1, <1>2
<1>5. \A i, j \in 1..n : from(i) = from(j) => i = j
  BY <1>1
<1>. HIDE DEF from
<1>6. \A i, j \in 1..n : order'[i] = order'[j] => i = j
  BY <1>1, <1>4, <1>5
<1>7. 1 \in 1..n /\ 1 \notin p..q
  BY <1>1
<1>8. order'[1] = 1 /\ order' # << >>
  BY <1>1, <1>2, <1>7
<1>. QED
  BY <1>1, <1>2, <1>3, <1>6, <1>8 DEF TourIsOpen, n

(* An exchange leaves a tour, and a pass without one ends what it compared. *)
LEMMA ExchangeSweeps == OrderInv /\ Exchange => OrderInv'
<1>. SUFFICES ASSUME OrderInv, Exchange PROVE OrderInv'
  OBVIOUS
<1>. DEFINE i == pair[1]
            j == pair[2]
            n == Len(order)
            lastOne == i + 2 = n
<1>1. /\ TourIsOpen /\ ordering = "twoOpt" /\ n = Len(centroids)
      /\ pair \in Int \X Int /\ improved \in BOOLEAN
      /\ i \in 1..n - 2 /\ j \in i + 2..n
      /\ ~improved => \A k \in 1..n - 2 : \A l \in k + 2..n : Compared(k, l) => ~Shorter(k, l)
  BY DEF OrderInv, Exchange, PassIsSwept, TourIsOpen
<1>2. /\ order' = IF Shorter(i, j) THEN Reversed(i + 1, j) ELSE order
      /\ pair' = IF j < n THEN <<i, j + 1>> ELSE IF lastOne THEN <<1, 3>> ELSE <<i + 1, i + 3>>
      /\ improved' = ((improved \/ Shorter(i, j)) /\ ~(j = n /\ lastOne))
      /\ ordering' = IF j = n /\ lastOne /\ ~improved /\ ~Shorter(i, j) THEN "done" ELSE "twoOpt"
      /\ centroids' = centroids
  BY DEF Exchange
<1>3. n \in Nat /\ Routes = 1..n
  BY <1>1, RoutesNumbered
<1>4. i \in Int /\ j \in Int /\ pair = <<i, j>>
  BY <1>1
<1>5. i + 1 \in Routes /\ j \in Routes /\ 2 <= i + 1 /\ i + 1 < j
  BY <1>1, <1>3, <1>4
<1>6. TourIsOpen' /\ Len(order') = n
  <2>1. ordering' \in {"twoOpt", "done"}
    BY <1>2
  <2>2. TourIsOpen'
    <3>1. CASE Shorter(i, j)
      <4>1. order' = Reversed(i + 1, j)
        BY <1>2, <3>1
      <4>. HIDE DEF i, j, n, lastOne
      <4>. QED
        BY <1>1, <1>2, <1>5, <2>1, <4>1, ReversalKeepsRoutes
    <3>2. CASE ~Shorter(i, j)
      <4>1. order' = order
        BY <1>2, <3>2
      <4>. QED
        BY <1>1, <1>2, <2>1, <4>1 DEF TourIsOpen, Routes
    <3>. QED
      BY <3>1, <3>2
  <2>3. Len(order') = Len(centroids')
    BY <2>1, <2>2 DEF TourIsOpen
  <2>. QED
    BY <1>1, <1>2, <2>2, <2>3
<1>7. /\ pair' \in Int \X Int /\ improved' \in BOOLEAN
      /\ pair'[1] \in 1..n - 2 /\ pair'[2] \in pair'[1] + 2..n
  <2>1. pair' \in {<<i, j + 1>>, <<1, 3>>, <<i + 1, i + 3>>}
    BY <1>2
  <2>2. pair' \in Int \X Int
    BY <1>4, <2>1
  <2>3. improved' \in BOOLEAN
    BY <1>2
  <2>. HIDE DEF i, j, n
  <2>4. CASE j < n
    BY <1>1, <1>2, <1>3, <1>4, <2>2, <2>3, <2>4
  <2>5. CASE ~(j < n) /\ lastOne
    BY <1>1, <1>2, <1>3, <1>4, <2>2, <2>3, <2>5
  <2>6. CASE ~(j < n) /\ ~lastOne
    BY <1>1, <1>2, <1>3, <1>4, <2>2, <2>3, <2>6
  <2>. QED
    BY <2>4, <2>5, <2>6
<1>8. ASSUME ~Shorter(i, j)
      PROVE  \A k, l : Shorter(k, l)' <=> Shorter(k, l)
  <2>1. order' = order
    BY <1>2, <1>8
  <2>2. \A r, s : Apart(r, s)' = Apart(r, s)
    BY <1>2 DEF Apart
  <2>. HIDE DEF i, j, n
  <2>. QED
    BY <2>1, <2>2 DEF Shorter, After
<1>9. ASSUME ~improved, ~Shorter(i, j),
             NEW k \in 1..n - 2, NEW l \in k + 2..n,
             \/ k < i
             \/ k = i /\ l <= j
             \/ j = n /\ k <= i
      PROVE  ~Shorter(k, l)
  <2>1. k \in Int /\ l \in Int /\ l <= n
    BY <1>3
  <2>2. Compared(k, l) \/ (k = i /\ l = j)
    <3>. HIDE DEF i, j, n
    <3>1. CASE k < i
      BY <3>1 DEF Compared, i
    <3>2. CASE k = i /\ l <= j
      <4>1. (k = i /\ l < j) \/ (k = i /\ l = j)
        BY <1>4, <2>1, <3>2
      <4>. QED
        BY <4>1 DEF Compared, i, j
    <3>3. CASE j = n /\ k <= i
      <4>1. k < i \/ (k = i /\ l < j) \/ (k = i /\ l = j)
        BY <1>4, <2>1, <3>3
      <4>. QED
        BY <4>1 DEF Compared, i, j
    <3>. QED
      BY <1>9, <3>1, <3>2, <3>3
  <2>. QED
    BY <1>1, <1>9, <2>2
<1>10. ASSUME ordering' = "twoOpt", ~improved',
              NEW k \in 1..n - 2, NEW l \in k + 2..n, Compared(k, l)'
       PROVE  ~Shorter(k, l)'
  <2>1. k < pair'[1] \/ (k = pair'[1] /\ l < pair'[2])
    BY <1>10 DEF Compared
  <2>2. k \in Int /\ l \in Int /\ 1 <= k /\ k + 2 <= l /\ l <= n
    BY <1>3
  <2>3. CASE j = n /\ lastOne
    <3>1. pair' = <<1, 3>>
      BY <1>2, <1>4, <2>3
    <3>. QED
      BY <2>1, <2>2, <3>1
  <2>4. CASE ~(j = n /\ lastOne)
    <3>1. ~improved /\ ~Shorter(i, j)
      BY <1>2, <1>10, <2>4
    <3>2. \/ j < n /\ pair' = <<i, j + 1>>
          \/ j = n /\ pair' = <<i + 1, i + 3>>
      BY <1>1, <1>2, <1>3, <1>4, <2>4
    <3>3. k < i \/ (k = i /\ l <= j) \/ (j = n /\ k <= i)
      BY <1>4, <2>1, <2>2, <3>2
    <3>4. ~Shorter(k, l)
      BY <1>9, <3>1, <3>3
    <3>. QED
      BY <1>8, <3>1, <3>4
  <2>. QED
    BY <2>3, <2>4
<1>11. ASSUME ordering' = "done", NEW k \in 1..n - 2, NEW l \in k + 2..n
       PROVE  ~Shorter(k, l)'
  <2>1. j = n /\ lastOne /\ ~improved /\ ~Shorter(i, j)
    BY <1>2, <1>11
  <2>2. k <= i
    BY <1>3, <1>4, <2>1
  <2>3. ~Shorter(k, l)
    BY <1>9, <2>1, <2>2
  <2>. QED
    BY <1>8, <2>1, <2>3
<1>12. PassIsSwept'
  <2>1. Len(order') = n
    BY <1>6
  <2>. HIDE DEF i, j, n
  <2>. QED
    BY <1>7, <1>10, <1>11, <2>1 DEF PassIsSwept
<1>. QED
  BY <1>6, <1>12 DEF OrderInv

(* Every step keeps the order in order. *)
LEMMA OrderStep == OrderAssumption /\ OrderInv /\ [OrderNext]_orderVars => OrderInv'
<1>. SUFFICES ASSUME OrderAssumption, OrderInv, [OrderNext]_orderVars PROVE OrderInv'
  OBVIOUS
<1>1. CASE OptimizeRoutes
  BY <1>1, FirstRoute
<1>2. CASE NearestNeighbour
  BY <1>2, NearestIsNew
<1>3. CASE StartTwoOpt
  BY <1>3, PassesStart
<1>4. CASE Exchange
  BY <1>4, ExchangeSweeps
<1>5. CASE UNCHANGED orderVars
  <2>1. UNCHANGED <<centroids, order, pair, improved, ordering>>
    BY <1>5 DEF orderVars
  <2>2. Routes' = Routes /\ \A r, s : Apart(r, s)' = Apart(r, s)
    BY <2>1 DEF Routes, Apart
  <2>3. \A i, j : (Shorter(i, j)' <=> Shorter(i, j)) /\ (Compared(i, j)' <=> Compared(i, j))
    BY <2>1, <2>2 DEF Shorter, After, Compared
  <2>. QED
    BY <2>1, <2>2, <2>3 DEF OrderInv, TourIsOpen, PassIsSwept
<1>. QED
  BY <1>1, <1>2, <1>3, <1>4, <1>5 DEF OrderNext

(* A tour that comes to no route twice and is as long comes to all. *)
LEMMA WholeTour ==
    ASSUME TourIsOpen, ordering \in {"twoOpt", "done"}
    PROVE  \A r \in Routes : \E i \in Routes : order[i] = r
<1>1. /\ order \in [Routes -> Routes]
      /\ \A i, j \in Routes : order[i] = order[j] => i = j
  BY SMTT(60) DEF TourIsOpen, Routes
<1>2. order \in Injection(Routes, Routes)
  BY <1>1 DEF Injection, IsInjective
<1>3. IsFiniteSet(Routes)
  BY FS_Interval, RoutesNumbered
<1>4. order \in Surjection(Routes, Routes)
  BY <1>2, <1>3, FS_Injection
<1>. QED
  BY <1>4 DEF Surjection

(* A part turned back is as long, once nothing is left to exchange. *)
LEMMA NothingShorter ==
    ASSUME OrderInv, ordering = "done", NEW p \in Routes, NEW q \in Routes, p < q
    PROVE  TourLength(order) <= TourLength(Reversed(p, q))
<1>. DEFINE n == Len(order)
            t == order
<1>1. /\ TourIsOpen /\ n = Len(centroids) /\ centroids \in Seq(Int \X Int)
      /\ \A i \in 1..n - 2 : \A j \in i + 2..n : ~Shorter(i, j)
  BY DEF OrderInv, TourIsOpen, PassIsSwept
<1>2. n \in Nat /\ Routes = 1..n /\ \A i \in 1..n : t[i] \in Routes
  BY <1>1, RoutesNumbered
<1>3. t \in Tours /\ Reversed(p, q) = Turned(t, p, q)
  BY <1>1, ReversedIsTurned
<1>4. \A i \in 1..n : After(t, i) = IF i = n THEN t[1] ELSE t[i + 1]
  BY <1>1, <1>3, WaysOf
<1>5. \A r, s \in Routes : Apart(r, s) \in Int /\ Apart(r, s) = Apart(s, r)
  BY <1>1, ApartIsDistance
<1>6. CASE 2 <= p
  <2>. DEFINE a == Apart(t[p - 1], t[p])  b == Apart(t[q], After(t, q))
              c == Apart(t[p - 1], t[q])  d == Apart(t[p], After(t, q))
  <2>1. /\ TourLength(t) \in Int
        /\ TourLength(Turned(t, p, q)) = TourLength(t) - a - b + c + d
    BY <1>1, <1>3, <1>6, TurnedLength
  <2>2. p - 1 \in 1..n - 2 /\ q \in (p - 1) + 2..n /\ (p - 1) + 1 = p
    BY <1>2, <1>6
  <2>3. ~Shorter(p - 1, q)
    BY <1>1, <2>2
  <2>4. ~(c + d < a + b)
    BY <2>2, <2>3 DEF Shorter
  <2>5. a \in Int /\ b \in Int /\ c \in Int /\ d \in Int
    <3>1. t[p - 1] \in Routes /\ t[p] \in Routes /\ t[q] \in Routes /\ After(t, q) \in Routes
      <4>1. p - 1 \in 1..n /\ p \in 1..n /\ q \in 1..n /\ 1 \in 1..n /\ (q # n => q + 1 \in 1..n)
        BY <1>2, <1>6
      <4>. QED
        BY <1>2, <1>4, <4>1
    <3>. QED
      BY <1>5, <3>1
  <2>. HIDE DEF a, b, c, d
  <2>. QED
    BY <1>3, <2>1, <2>4, <2>5
<1>7. CASE p = 1
  <2>. DEFINE a == Apart(t[n], t[1])  b == Apart(t[q], t[q + 1])
              c == Apart(t[n], t[q])  d == Apart(t[1], t[q + 1])
  <2>1. /\ TourLength(t) \in Int
        /\ TourLength(Turned(t, 1, q)) =
              IF q = n THEN TourLength(t) ELSE TourLength(t) - a - b + c + d
    BY <1>1, <1>3, <1>7, TurnedFirst
  <2>2. CASE q = n
    BY <1>3, <1>7, <2>1, <2>2
  <2>3. CASE q # n
    <3>1. q \in 1..n /\ q + 1 \in 1..n /\ n \in 1..n /\ 1 \in 1..n
      BY <1>2, <2>3
    <3>2. t[n] \in Routes /\ t[1] \in Routes /\ t[q] \in Routes /\ t[q + 1] \in Routes
      BY <1>2, <3>1
    <3>3. a \in Int /\ b \in Int /\ c \in Int /\ d \in Int
      BY <1>5, <3>2
    <3>4. a + b <= c + d
      <4>1. CASE q = n - 1
        <5>1. d = Apart(t[1], t[n]) /\ b = Apart(t[q], t[n])
          BY <1>2, <4>1
        <5>2. d = a /\ b = c
          BY <1>5, <3>2, <5>1
        <5>. HIDE DEF a, b, c, d
        <5>. QED
          BY <3>3, <5>2
      <4>2. CASE q # n - 1
        <5>1. q \in 1..n - 2 /\ n \in q + 2..n
          BY <1>2, <3>1, <4>2, <2>3, <1>7
        <5>2. ~Shorter(q, n)
          BY <1>1, <5>1
        <5>3. After(t, n) = t[1]
          BY <1>4, <3>1
        <5>4. ~(Apart(t[q], t[n]) + Apart(t[q + 1], t[1]) < b + a)
          BY <5>2, <5>3 DEF Shorter
        <5>5. Apart(t[q], t[n]) = c /\ Apart(t[q + 1], t[1]) = d
          BY <1>5, <3>2
        <5>. HIDE DEF a, b, c, d
        <5>. QED
          BY <3>3, <5>4, <5>5
      <4>. QED
        BY <4>1, <4>2
    <3>. HIDE DEF a, b, c, d
    <3>. QED
      BY <1>3, <1>7, <2>1, <2>3, <3>3, <3>4
  <2>. QED
    BY <2>2, <2>3
<1>8. p = 1 \/ 2 <= p
  BY <1>2
<1>. QED
  BY <1>6, <1>7, <1>8

(* The routes are ordered, whatever their centroids are. *)
LEMMA OrderHolds == OrderInv => RoutesAreOrdered
<1>. SUFFICES ASSUME OrderInv PROVE RoutesAreOrdered
  OBVIOUS
<1>1. TourIsOpen
  BY DEF OrderInv
<1>2. ordering \in {"twoOpt", "done"} =>
         /\ Len(order) = Len(centroids) /\ order[1] = 1
         /\ \A r \in Routes : \E i \in Routes : order[i] = r
  BY <1>1, WholeTour DEF TourIsOpen
<1>3. ASSUME ordering = "twoOpt", Shorter(pair[1], pair[2])
      PROVE  TourLength(Reversed(pair[1] + 1, pair[2])) < TourLength(order)
  <2>. DEFINE i == pair[1]
              p == pair[1] + 1
              q == pair[2]
              n == Len(order)
              t == order
  <2>1. /\ n = Len(centroids) /\ centroids \in Seq(Int \X Int)
        /\ i \in 1..n - 2 /\ q \in i + 2..n
    BY <1>1, <1>3 DEF OrderInv, PassIsSwept, TourIsOpen
  <2>2. n \in Nat /\ Routes = 1..n /\ \A k \in 1..n : t[k] \in Routes
    BY <1>1, <1>3, <2>1, RoutesNumbered
  <2>. HIDE DEF i, q, n
  <2>3. p = i + 1
    BY DEF i
  <2>. HIDE DEF p
  <2>4. /\ p \in Routes /\ q \in Routes /\ i \in Routes /\ 2 <= p /\ p < q /\ p - 1 = i
        /\ 1 \in Routes /\ (q # n => q + 1 \in Routes)
    BY <2>1, <2>2, <2>3, SMTT(60)
  <2>5. t \in Tours /\ Reversed(p, q) = Turned(t, p, q)
    BY <1>1, <1>3, ReversedIsTurned
  <2>. DEFINE a == Apart(t[p - 1], t[p])  b == Apart(t[q], After(t, q))
              c == Apart(t[p - 1], t[q])  d == Apart(t[p], After(t, q))
  <2>6. /\ TourLength(t) \in Int
        /\ TourLength(Turned(t, p, q)) = TourLength(t) - a - b + c + d
    BY <2>1, <2>4, <2>5, TurnedLength
  <2>7. c + d < a + b
    BY <1>3, <2>3, <2>4 DEF Shorter, i, q
  <2>8. a \in Int /\ b \in Int /\ c \in Int /\ d \in Int
    <3>1. After(t, q) = IF q = n THEN t[1] ELSE t[q + 1]
      BY <2>1, <2>2, <2>4, <2>5, WaysOf DEF n
    <3>2. t[p - 1] \in Routes /\ t[p] \in Routes /\ t[q] \in Routes /\ After(t, q) \in Routes
      BY <2>2, <2>4, <3>1
    <3>. QED
      BY <2>1, <3>2, ApartIsDistance
  <2>. HIDE DEF a, b, c, d
  <2>9. TourLength(Reversed(p, q)) < TourLength(t)
    BY <2>5, <2>6, <2>7, <2>8
  <2>. QED
    BY <2>9 DEF p, q
<1>4. ordering = "done" =>
         \A i, j \in Routes : i < j => TourLength(order) <= TourLength(Reversed(i, j))
  BY NothingShorter
<1>. QED
  BY <1>2, <1>3, <1>4 DEF RoutesAreOrdered

(* No route is lost or listed twice, the first stays first, every exchange *)
(* shortens the closed tour, and in the end no reversal of a part would,   *)
(* for any number of routes wherever they lie: the heuristics of           *)
(* nearestNeighborOrder and twoOpt.                                        *)
THEOREM OrderedRoutes == OrderSpec => []RoutesAreOrdered
<1>1. OrderInit => OrderInv
  BY OrderStart
<1>2. OrderInv /\ [OrderNext]_orderVars => OrderInv'
  BY OrderAssumption, OrderStep
<1>3. OrderInv => RoutesAreOrdered
  BY OrderHolds
<1>. QED
  BY <1>1, <1>2, <1>3, PTL DEF OrderSpec

-----------------------------------------------------------------------------
(* The places of towers *)

(* A bounded set of natural numbers has a greatest one. *)
LEMMA GreatestOf ==
    ASSUME NEW T, T \subseteq Nat, T # {}, NEW n \in Nat, \A x \in T : x <= n
    PROVE  \E x \in T : \A y \in T : y <= x
<1>. DEFINE R == {m \in Nat : n - m \in T}
<1>1. R # {}
  <2>1. PICK x \in T : TRUE
    OBVIOUS
  <2>2. n - x \in Nat /\ n - (n - x) = x
    BY <2>1
  <2>3. n - x \in R
    BY <2>1, <2>2
  <2>. QED
    BY <2>3
<1>2. PICK m \in R : \A k \in R : m <= k
  <2>1. R \subseteq Nat
    OBVIOUS
  <2>. HIDE DEF R
  <2>. QED
    BY <1>1, <2>1, LeastOf
<1>3. m \in Nat /\ n - m \in T
  OBVIOUS
<1>4. ASSUME NEW y \in T PROVE y <= n - m
  <2>1. y \in Nat /\ y <= n
    OBVIOUS
  <2>2. n - y \in Nat /\ n - (n - y) = y
    BY <2>1
  <2>3. n - y \in R
    BY <2>1, <2>2
  <2>4. m <= n - y
    BY <1>2, <2>3
  <2>. QED
    BY <1>3, <2>1, <2>4
<1>. QED
  BY <1>3, <1>4

(* Max and Min pick an extreme member of a bounded set. *)
LEMMA Extremes ==
    ASSUME NEW T, T \subseteq Nat, T # {}, NEW n \in Nat, \A x \in T : x <= n
    PROVE  /\ Max(T) \in T /\ \A x \in T : x <= Max(T)
           /\ Min(T) \in T /\ \A x \in T : Min(T) <= x
<1>1. \E x \in T : \A y \in T : x >= y
  <2>1. PICK x \in T : \A y \in T : y <= x
    BY GreatestOf
  <2>. QED
    BY <2>1
<1>2. \E x \in T : \A y \in T : x =< y
  BY LeastOf
<1>3. Max(T) \in T /\ \A y \in T : Max(T) >= y
  BY <1>1 DEF Max
<1>4. Min(T) \in T /\ \A y \in T : Min(T) =< y
  BY <1>2 DEF Min
<1>. QED
  BY <1>3, <1>4

(* Distances along the line add up the gaps. *)
LEMMA AlongIsSum ==
    ASSUME gaps \in Seq(Nat)
    PROVE  SumTo(Along, Len(gaps), gaps)
<1>. DEFINE n == Len(gaps)
            cum == CHOOSE f : f = [i \in 0..n |-> IF i = 0 THEN 0 ELSE f[i - 1] + gaps[i]]
<1>1. n \in Nat /\ \A i \in 1..n : gaps[i] \in Int
  OBVIOUS
<1>2. Along = CHOOSE f : AddsUp(f, n, gaps)
  BY DEF Along, AddsUp
<1>. HIDE DEF n
<1>3. \E f : AddsUp(f, n, gaps)
  BY <1>1, SumsAddUp
<1>4. AddsUp(Along, n, gaps)
  BY <1>2, <1>3
<1>. QED
  BY <1>1, <1>4, SumsAddUp DEF n

(* A part of a span is no longer than the span. *)
LEMMA PartOfSpan ==
    ASSUME gaps \in Seq(Nat), NEW a \in Points, NEW b \in Points,
           NEW c \in Points, NEW d \in Points, a <= b, b <= c, c <= d
    PROVE  Span(a, d) \in Int /\ Span(b, c) \in Int /\ Span(b, c) <= Span(a, d)
<1>. DEFINE n == Len(gaps)
<1>1. n \in Nat /\ Points = 1..n + 1 /\ \A i \in 1..n : gaps[i] \in Nat
  BY DEF Points
<1>2. /\ \A i \in 0..n : Along[i] \in Int
      /\ \A i \in 1..n : Along[i] = Along[i - 1] + gaps[i]
  BY AlongIsSum DEF SumTo
<1>. HIDE DEF n
<1>3. ASSUME NEW x \in 0..n, NEW y \in x..n PROVE Along[x] <= Along[y]
  <2>. DEFINE S == {k \in x..n : Along[x] <= Along[k]}
  <2>1. x \in S
    BY <1>1, <1>2
  <2>2. ASSUME NEW k \in x + 1..n, k - 1 \in S PROVE k \in S
    <3>1. k \in x..n /\ k - 1 \in 0..n /\ k \in 1..n /\ k \in 0..n
      BY <1>1
    <3>2. Along[x] <= Along[k - 1] /\ Along[k] = Along[k - 1] + gaps[k] /\ gaps[k] \in Nat
      BY <1>1, <1>2, <2>2, <3>1
    <3>3. Along[x] \in Int /\ Along[k - 1] \in Int /\ Along[k] \in Int
      BY <1>2, <3>1
    <3>4. Along[x] <= Along[k]
      BY <3>2, <3>3, SMTT(60)
    <3>. QED
      BY <3>1, <3>4
  <2>3. x \in Int /\ n \in Int
    BY <1>1
  <2>. HIDE DEF S
  <2>4. \A k \in x..n : k \in S
    BY <2>1, <2>2, <2>3, EveryOne
  <2>. QED
    BY <2>4 DEF S
<1>4. /\ a - 1 \in 0..n /\ b - 1 \in 0..n /\ c - 1 \in 0..n /\ d - 1 \in 0..n
      /\ b - 1 \in a - 1..n /\ d - 1 \in c - 1..n
  BY <1>1
<1>5. Along[a - 1] <= Along[b - 1] /\ Along[c - 1] <= Along[d - 1]
  BY <1>3, <1>4
<1>. DEFINE w == Along[a - 1]  x == Along[b - 1]  y == Along[c - 1]  z == Along[d - 1]
<1>6. w \in Int /\ x \in Int /\ y \in Int /\ z \in Int /\ w <= x /\ y <= z
  BY <1>2, <1>4, <1>5
<1>7. Span(a, d) = z - w /\ Span(b, c) = y - x
  BY DEF Span
<1>. HIDE DEF w, x, y, z
<1>. QED
  BY <1>6, <1>7

(* The first parts of the sequences s, one after the other. *)
JoinTo(f, n, s) ==
    f \in [1..n -> Seq(Nat)] /\ f[1] = s[1] /\ \A i \in 2..n : f[i] = f[i - 1] \o s[i]

(* The joined parts as FlattenSeq computes them. *)
Joins(f, n, s) == f = [i \in 1..n |-> IF i = 1 THEN s[i] ELSE f[i - 1] \o s[i]]

(* Sequences can be joined. *)
LEMMA JoinsExist ==
    ASSUME NEW n \in Nat, n >= 1, NEW s, \A i \in 1..n : s[i] \in Seq(Nat)
    PROVE  \E f : JoinTo(f, n, s)
<1>. DEFINE S == {k \in 1..n : \E f : JoinTo(f, k, s)}
<1>1. 1 \in S
  <2>. DEFINE f == [i \in 1..1 |-> s[1]]
  <2>1. 1 \in 1..n /\ s[1] \in Seq(Nat)
    OBVIOUS
  <2>2. JoinTo(f, 1, s)
    BY <2>1 DEF JoinTo
  <2>. QED
    BY <2>1, <2>2
<1>2. ASSUME NEW k \in 1 + 1..n, k - 1 \in S PROVE k \in S
  <2>1. PICK f : JoinTo(f, k - 1, s)
    BY <1>2
  <2>. DEFINE g == [i \in 1..k |-> IF i = k THEN f[k - 1] \o s[k] ELSE f[i]]
  <2>2. k \in 1..n /\ k - 1 \in 1..k - 1 /\ 1 \in 1..k - 1 /\ k \in Nat
    OBVIOUS
  <2>3. /\ \A i \in 1..k - 1 : f[i] \in Seq(Nat)
        /\ f[1] = s[1] /\ \A i \in 2..k - 1 : f[i] = f[i - 1] \o s[i]
    BY <2>1 DEF JoinTo
  <2>4. s[k] \in Seq(Nat) /\ f[k - 1] \in Seq(Nat)
    BY <2>2, <2>3
  <2>5. f[k - 1] \o s[k] \in Seq(Nat)
    BY <2>4
  <2>6. \A i \in 1..k : i # k => i \in 1..k - 1
    BY <2>2
  <2>7. g \in [1..k -> Seq(Nat)]
    BY <2>3, <2>5, <2>6
  <2>8. g[1] = s[1]
    BY <2>2, <2>3
  <2>9. ASSUME NEW i \in 2..k PROVE g[i] = g[i - 1] \o s[i]
    <3>1. i - 1 \in 1..k /\ i - 1 # k /\ i \in 1..k
      BY <2>2
    <3>2. g[i - 1] = f[i - 1]
      BY <3>1
    <3>3. CASE i = k
      BY <3>1, <3>2, <3>3
    <3>4. CASE i # k
      <4>1. i \in 2..k - 1
        BY <2>2, <3>4
      <4>2. g[i] = f[i]
        BY <3>1, <3>4
      <4>. QED
        BY <2>3, <3>2, <4>1, <4>2
    <3>. QED
      BY <3>3, <3>4
  <2>10. JoinTo(g, k, s)
    BY <2>7, <2>8, <2>9 DEF JoinTo
  <2>. QED
    BY <2>2, <2>10
<1>3. 1 \in Int /\ n \in Int
  OBVIOUS
<1>. HIDE DEF S
<1>4. \A k \in 1..n : k \in S
  BY <1>1, <1>2, <1>3, EveryOne
<1>5. n \in S
  BY <1>4
<1>. QED
  BY <1>5 DEF S

(* FlattenSeq joins the sequences from the first to the last. *)
LEMMA FlattenJoins ==
    ASSUME NEW n \in Nat, n >= 1, NEW s \in Seq(Seq(Nat)), Len(s) = n, NEW f, JoinTo(f, n, s)
    PROVE  FlattenSeq(s) = f[n]
<1>. DEFINE flatten == CHOOSE g : Joins(g, n, s)
<1>1. Joins(f, n, s)
  <2>1. f = [i \in 1..n |-> f[i]]
    BY DEF JoinTo
  <2>2. \A i \in 1..n : f[i] = IF i = 1 THEN s[i] ELSE f[i - 1] \o s[i]
    <3>. SUFFICES ASSUME NEW i \in 1..n PROVE f[i] = IF i = 1 THEN s[i] ELSE f[i - 1] \o s[i]
      OBVIOUS
    <3>1. CASE i = 1
      BY <3>1 DEF JoinTo
    <3>2. CASE i # 1
      <4>1. i \in 2..n
        BY <3>2
      <4>2. f[i] = f[i - 1] \o s[i]
        BY <4>1 DEF JoinTo
      <4>. QED
        BY <3>2, <4>2
    <3>. QED
      BY <3>1, <3>2
  <2>. QED
    BY <2>1, <2>2, Zenon DEF Joins
<1>2. Joins(flatten, n, s)
  BY <1>1
<1>3. FlattenSeq(s) = flatten[n]
  BY DEF FlattenSeq, Joins
<1>. HIDE DEF flatten
<1>. DEFINE S == {i \in 1..n : flatten[i] = f[i]}
<1>4. 1 \in S
  BY <1>2 DEF Joins, JoinTo
<1>5. ASSUME NEW i \in 1 + 1..n, i - 1 \in S PROVE i \in S
  <2>1. i \in 1..n /\ i \in 2..n /\ i # 1 /\ flatten[i - 1] = f[i - 1]
    BY <1>5
  <2>2. flatten[i] = flatten[i - 1] \o s[i]
    BY <1>2, <2>1 DEF Joins
  <2>3. f[i] = f[i - 1] \o s[i]
    BY <2>1 DEF JoinTo
  <2>. QED
    BY <2>1, <2>2, <2>3
<1>6. 1 \in Int /\ n \in Int
  OBVIOUS
<1>. HIDE DEF S
<1>7. \A i \in 1..n : i \in S
  BY <1>4, <1>5, <1>6, EveryOne
<1>8. n \in S
  BY <1>7
<1>. QED
  BY <1>3, <1>8 DEF S

(* A natural number divided by another is one. *)
LEMMA DivisionNat == \A a, b \in Nat : b >= 1 => a \div b \in Nat
OBVIOUS

(* The longest span is positive. *)
LEMMA LongestIsNat ==
    ASSUME TowerAssumption, NEW l \in Lines
    PROVE  LongestSpan(l) \in Nat /\ LongestSpan(l) >= 1
<1>. DEFINE T == {l.maxSpan, l.minSpan}
<1>1. l.maxSpan \in Nat /\ l.minSpan \in Nat /\ (l.maxSpan > 0 \/ l.minSpan > 0)
  BY DEF TowerAssumption
<1>2. l.maxSpan + l.minSpan \in Nat /\ \A x \in T : x <= l.maxSpan + l.minSpan
  BY <1>1
<1>3. T \subseteq Nat /\ T # {}
  BY <1>1
<1>4. l.maxSpan \in T /\ l.minSpan \in T
  OBVIOUS
<1>. HIDE DEF T
<1>5. Max(T) \in T /\ \A x \in T : x <= Max(T)
  BY <1>2, <1>3, Extremes
<1>6. Max(T) \in Nat /\ l.maxSpan <= Max(T) /\ l.minSpan <= Max(T)
  BY <1>3, <1>4, <1>5
<1>. QED
  BY <1>1, <1>6 DEF LongestSpan, T

(* A leg is divided into one part or more. *)
LEMMA DividedLeg ==
    ASSUME TowerAssumption, NEW l \in Lines, NEW leg \in Nat
    PROVE  Divided(l, leg) \in Seq(Nat) /\ Len(Divided(l, leg)) >= 1
<1>. DEFINE span == LongestSpan(l)
            parts == (leg + span - 1) \div span
            T == {1, parts}
            steps == Max(T)
<1>1. span \in Nat /\ span >= 1
  BY LongestIsNat
<1>. HIDE DEF span
<1>2. leg + span - 1 \in Nat
  BY <1>1
<1>3. parts \in Nat
  BY <1>1, <1>2, DivisionNat
<1>. HIDE DEF parts
<1>4. T \subseteq Nat /\ T # {} /\ 1 \in T /\ 1 + parts \in Nat /\ \A x \in T : x <= 1 + parts
  BY <1>3
<1>. HIDE DEF T
<1>5. steps \in T /\ 1 <= steps
  BY <1>4, Extremes
<1>6. steps \in Nat /\ steps >= 1
  BY <1>4, <1>5
<1>. HIDE DEF steps
<1>7. leg \div steps \in Nat /\ l.relief \in Nat
  BY <1>6, DivisionNat DEF TowerAssumption
<1>8. leg \div steps + (IF steps > 1 THEN l.relief ELSE 0) \in Nat
  BY <1>7
<1>9. Divided(l, leg) = [i \in 1..steps |-> leg \div steps + IF steps > 1 THEN l.relief ELSE 0]
  BY DEF Divided, steps, T, parts, span
<1>. QED
  BY <1>6, <1>8, <1>9

(* The parts of the first legs are some of the parts of all. *)
LEMMA DividedLegs ==
    ASSUME TowerAssumption, NEW l \in Lines
    PROVE  /\ Densified(l) \in Seq(Nat) /\ Len(Densified(l)) >= 1
           /\ \A k \in 1..Len(l.legs) - 1 :
                 LET corner == Len(FlattenSeq([i \in 1..k |-> Divided(l, l.legs[i])]))
                 IN  corner \in Nat /\ corner <= Len(Densified(l))
<1>. DEFINE n == Len(l.legs)
            s == [k \in 1..n |-> Divided(l, l.legs[k])]
<1>1. n \in Nat /\ n >= 1 /\ \A k \in 1..n : l.legs[k] \in Nat
  <2>1. l.legs \in Seq(Nat) /\ l.legs # << >>
    BY DEF TowerAssumption
  <2>. QED
    BY <2>1
<1>2. \A k \in 1..n : Divided(l, l.legs[k]) \in Seq(Nat) /\ Len(Divided(l, l.legs[k])) >= 1
  BY <1>1, DividedLeg
<1>3. Densified(l) = FlattenSeq(s)
  BY DEF Densified
<1>. HIDE DEF n
<1>4. /\ s \in Seq(Seq(Nat)) /\ Len(s) = n
      /\ \A k \in 1..n : s[k] \in Seq(Nat) /\ Len(s[k]) >= 1 /\ s[k] = Divided(l, l.legs[k])
  BY <1>1, <1>2
<1>. HIDE DEF s
<1>5. PICK f : JoinTo(f, n, s)
  BY <1>1, <1>4, JoinsExist
<1>6. Densified(l) = f[n]
  BY <1>1, <1>3, <1>4, <1>5, FlattenJoins
<1>7. /\ \A k \in 1..n : f[k] \in Seq(Nat)
      /\ f[1] = s[1] /\ \A k \in 2..n : f[k] = f[k - 1] \o s[k]
  BY <1>5 DEF JoinTo
<1>8. Densified(l) \in Seq(Nat)
  BY <1>1, <1>6, <1>7
<1>9. ASSUME NEW k \in 1..n PROVE Len(f[k]) <= Len(f[n])
  <2>. DEFINE S == {m \in k..n : Len(f[k]) <= Len(f[m])}
  <2>1. k \in S
    BY <1>1, <1>7
  <2>2. ASSUME NEW m \in k + 1..n, m - 1 \in S PROVE m \in S
    <3>1. m \in k..n /\ m \in 2..n /\ m \in 1..n /\ m - 1 \in 1..n
      BY <1>1
    <3>2. f[m] = f[m - 1] \o s[m] /\ f[m - 1] \in Seq(Nat) /\ s[m] \in Seq(Nat) /\ f[k] \in Seq(Nat)
      BY <1>4, <1>7, <3>1
    <3>3. Len(f[m]) = Len(f[m - 1]) + Len(s[m])
      BY <3>2
    <3>4. Len(f[k]) <= Len(f[m - 1])
      BY <2>2
    <3>5. Len(f[k]) \in Nat /\ Len(f[m - 1]) \in Nat /\ Len(s[m]) \in Nat
      BY <3>2
    <3>. DEFINE a == Len(f[k])  b == Len(f[m - 1])  c == Len(f[m])  d == Len(s[m])
    <3>6. a \in Nat /\ b \in Nat /\ d \in Nat /\ c = b + d /\ a <= b
      BY <3>3, <3>4, <3>5
    <3>. HIDE DEF a, b, c, d
    <3>7. a <= c
      BY <3>6
    <3>. QED
      BY <3>1, <3>7 DEF a, c
  <2>3. k \in Int /\ n \in Int /\ n \in k..n
    BY <1>1
  <2>. HIDE DEF S
  <2>4. n \in S
    BY <2>1, <2>2, <2>3, EveryOne
  <2>. QED
    BY <2>4 DEF S
<1>10. Len(Densified(l)) >= 1
  <2>1. 1 \in 1..n
    BY <1>1
  <2>2. Len(f[1]) <= Len(f[n]) /\ Len(f[1]) >= 1 /\ Len(f[1]) \in Nat /\ Len(f[n]) \in Nat
    BY <1>1, <1>4, <1>7, <1>9, <2>1
  <2>. QED
    BY <1>6, <2>2
<1>11. ASSUME NEW k \in 1..n - 1
       PROVE  LET corner == Len(FlattenSeq([i \in 1..k |-> Divided(l, l.legs[i])]))
              IN  corner \in Nat /\ corner <= Len(Densified(l))
  <2>. DEFINE part == [i \in 1..k |-> Divided(l, l.legs[i])]
              start == [i \in 1..k |-> f[i]]
  <2>1. k \in 1..n /\ k \in Nat /\ k >= 1 /\ k \in 1..k /\ \A i \in 1..k : i \in 1..n
    BY <1>1
  <2>2. part \in Seq(Seq(Nat)) /\ Len(part) = k /\ \A i \in 1..k : part[i] = s[i]
    BY <1>2, <1>4, <2>1
  <2>3. JoinTo(start, k, part)
    <3>1. start \in [1..k -> Seq(Nat)]
      BY <1>7, <2>1
    <3>2. 1 \in 1..k /\ start[1] = part[1]
      BY <1>7, <2>1, <2>2
    <3>3. ASSUME NEW i \in 2..k PROVE start[i] = start[i - 1] \o part[i]
      <4>1. i \in 2..n /\ i \in 1..k /\ i - 1 \in 1..k
        BY <2>1
      <4>2. start[i] = f[i] /\ start[i - 1] = f[i - 1] /\ part[i] = s[i]
        BY <2>2, <4>1
      <4>. HIDE DEF start, part
      <4>. QED
        BY <1>7, <4>1, <4>2
    <3>. QED
      BY <3>1, <3>2, <3>3 DEF JoinTo
  <2>4. start[k] = f[k]
    BY <2>1
  <2>. HIDE DEF part, start
  <2>5. FlattenSeq(part) = f[k]
    BY <2>1, <2>2, <2>3, <2>4, FlattenJoins
  <2>6. Len(f[k]) \in Nat /\ Len(f[k]) <= Len(f[n])
    BY <1>1, <1>7, <1>9, <2>1
  <2>. QED
    BY <1>6, <2>5, <2>6 DEF part
<1>. QED
  BY <1>8, <1>10, <1>11 DEF n

(* The points of the divided line include those between its legs. *)
LEMMA DividedLine ==
    ASSUME TowerAssumption, line \in Lines, gaps = Densified(line)
    PROVE  gaps \in Seq(Nat) /\ Len(gaps) >= 1 /\ Turns \subseteq Points
<1>1. gaps \in Seq(Nat) /\ Len(gaps) >= 1
  BY DividedLegs
<1>2. ASSUME NEW k \in 1..Len(line.legs) - 1 PROVE Corner(k) \in Points
  <2>. DEFINE corner == Len(FlattenSeq([i \in 1..k |-> Divided(line, line.legs[i])]))
  <2>1. corner \in Nat /\ corner <= Len(gaps)
    BY DividedLegs
  <2>2. Corner(k) = 1 + corner
    BY DEF Corner
  <2>. HIDE DEF corner
  <2>. QED
    BY <1>1, <2>1, <2>2 DEF Points
<1>. QED
  BY <1>1, <1>2 DEF Turns

(* How the next tower b after the one at a was chosen. *)
Placed(a, b) ==
    /\ Span(a, b) <= LongestSpan(line) \/ b = a + 1
    /\ <<a, b>> \in clear \/ (b = a + 1 /\ \A p \in Points : <<a, p>> \notin clear)
    /\ Span(a, b) < line.minSpan =>
          \/ b = Len(gaps) + 1
          \/ \A p \in Points : <<a, p>> \in clear => Span(a, p) < line.minSpan

(* Towers next to each other before the bends got theirs. *)
NextTo(a, b) == a < b /\ \A t \in towers : t <= a \/ b <= t

(* Every tower but the last was placed from the one before it, and nothing *)
(* has been looked at from the last.                                       *)
LinePlaced ==
    /\ line \in Lines /\ gaps = Densified(line)
    /\ towers \subseteq Points /\ 1 \in towers
    /\ \A a, b \in towers : NextTo(a, b) => Placed(a, b)
    /\ \A a, p : <<a, p>> \in clear => a \in towers /\ a < LastTower

(* In the end the properties of the spans hold. *)
TowerInv ==
    /\ placing \in {"idle", "placing", "done"}
    /\ placing = "idle" => clear = {}
    /\ placing = "placing" => LinePlaced
    /\ SpansHold

(* No tower stands at first. *)
LEMMA TowersStart == TowerInit => TowerInv
BY DEF TowerInit, TowerInv, SpansHold

(* The towers of a line have a first and a last one. *)
LEMMA TowersBounded ==
    ASSUME TowerAssumption, LinePlaced
    PROVE  /\ gaps \in Seq(Nat) /\ Len(gaps) \in Nat /\ Len(gaps) >= 1
           /\ Points = 1..Len(gaps) + 1 /\ Turns \subseteq Points
           /\ LastTower \in towers /\ \A t \in towers : t <= LastTower
<1>1. gaps \in Seq(Nat) /\ Len(gaps) >= 1 /\ Turns \subseteq Points
  BY DividedLine DEF LinePlaced
<1>2. Len(gaps) \in Nat /\ Points = 1..Len(gaps) + 1
  BY <1>1 DEF Points
<1>3. towers \subseteq Nat /\ towers # {} /\ Len(gaps) + 1 \in Nat /\ \A t \in towers : t <= Len(gaps) + 1
  BY <1>2 DEF LinePlaced
<1>4. Max(towers) \in towers /\ \A t \in towers : t <= Max(towers)
  BY <1>3, Extremes
<1>. QED
  BY <1>1, <1>2, <1>4 DEF LastTower

(* The farm has a tower. *)
LEMMA FarmHasTower == TowerAssumption /\ TowerInv /\ PlaceTowers => TowerInv'
<1>. SUFFICES ASSUME TowerAssumption, TowerInv, PlaceTowers PROVE TowerInv'
  OBVIOUS
<1>1. /\ line' \in Lines /\ gaps' = Densified(line') /\ towers' = {1} /\ clear' = {}
      /\ placing' = "placing"
  BY DEF PlaceTowers, TowerInv
<1>2. 1 \in Points'
  <2>1. Len(gaps') \in Nat
    BY <1>1, DividedLegs
  <2>. QED
    BY <2>1 DEF Points
<1>3. \A a, b \in towers' : ~NextTo(a, b)'
  BY <1>1 DEF NextTo
<1>4. LinePlaced'
  BY <1>1, <1>2, <1>3 DEF LinePlaced
<1>. QED
  BY <1>1, <1>4 DEF TowerInv, SpansHold

(* The next tower is one that was seen with clearance, at least the least  *)
(* span away if any was, or the next point if none was.                    *)
LEMMA NextChosen ==
    ASSUME TowerAssumption, LinePlaced, LastTower <= Len(gaps), NEW seen \in SUBSET WithinReach
    PROVE  LET b == NextTower(seen) IN
           /\ b \in Points /\ b > LastTower
           /\ \/ b \in seen /\ Span(LastTower, b) <= LongestSpan(line)
              \/ seen = {} /\ b = LastTower + 1
           /\ Span(LastTower, b) < line.minSpan =>
                 \/ b = Len(gaps) + 1
                 \/ \A p \in seen : Span(LastTower, p) < line.minSpan
<1>. DEFINE last == LastTower
            n == Len(gaps)
            longEnough == {p \in seen : Span(last, p) >= line.minSpan \/ p = n + 1}
            onTarget == {p \in longEnough : 10 * Span(last, p) >= TargetSpan}
            b == NextTower(seen)
<1>1. n \in Nat /\ Points = 1..n + 1 /\ last \in Points /\ gaps \in Seq(Nat) /\ last <= n
  BY TowersBounded DEF LinePlaced
<1>2. \A p \in seen : p \in Points /\ p > last /\ Span(last, p) <= LongestSpan(line)
  BY DEF WithinReach
<1>3. b = IF onTarget # {} THEN Min(onTarget)
          ELSE IF longEnough # {} THEN Max(longEnough)
          ELSE IF seen # {} THEN Min(seen)
          ELSE last + 1
  BY DEF NextTower
<1>4. \A p \in seen : Span(last, p) \in Int
  <2>. SUFFICES ASSUME NEW p \in seen PROVE Span(last, p) \in Int
    OBVIOUS
  <2>1. p \in Points /\ last <= p /\ last <= last /\ p <= p
    BY <1>1, <1>2
  <2>. QED
    BY <1>1, <2>1, PartOfSpan
<1>5. line.minSpan \in Nat
  BY DEF TowerAssumption, LinePlaced
<1>6. onTarget \subseteq longEnough /\ longEnough \subseteq seen /\ seen \subseteq Nat
      /\ \A p \in seen : p <= n + 1
  BY <1>1, <1>2
<1>7. n + 1 \in Nat
  BY <1>1
<1>8. \A p \in longEnough : Span(last, p) >= line.minSpan \/ p = n + 1
  OBVIOUS
<1>9. \A p \in seen : p \notin longEnough => Span(last, p) < line.minSpan
  BY <1>4, <1>5
<1>. HIDE DEF b, onTarget, longEnough, last, n
<1>10. CASE longEnough # {}
  <2>1. b \in longEnough
    <3>1. CASE onTarget # {}
      <4>1. onTarget \subseteq Nat /\ \A p \in onTarget : p <= n + 1
        BY <1>6
      <4>2. Min(onTarget) \in onTarget
        BY <1>7, <3>1, <4>1, Extremes
      <4>. QED
        BY <1>3, <1>6, <3>1, <4>2
    <3>2. CASE onTarget = {}
      <4>1. longEnough \subseteq Nat /\ \A p \in longEnough : p <= n + 1
        BY <1>6
      <4>2. Max(longEnough) \in longEnough
        BY <1>7, <1>10, <4>1, Extremes
      <4>. QED
        BY <1>3, <1>10, <3>2, <4>2
    <3>. QED
      BY <3>1, <3>2
  <2>2. b \in seen /\ (Span(last, b) >= line.minSpan \/ b = n + 1)
    BY <1>6, <1>8, <2>1
  <2>3. Span(last, b) < line.minSpan => b = n + 1
    BY <1>4, <1>5, <2>2
  <2>. QED
    BY <1>2, <2>2, <2>3 DEF b, last, n
<1>11. CASE longEnough = {} /\ seen # {}
  <2>1. Min(seen) \in seen
    BY <1>6, <1>7, <1>11, Extremes
  <2>2. b \in seen
    BY <1>3, <1>6, <1>11, <2>1
  <2>3. \A p \in seen : Span(last, p) < line.minSpan
    BY <1>9, <1>11
  <2>. QED
    BY <1>2, <2>2, <2>3 DEF b, last, n
<1>12. CASE seen = {}
  <2>1. b = last + 1
    BY <1>3, <1>6, <1>12
  <2>2. b \in Points /\ b > last
    BY <1>1, <2>1
  <2>. QED
    BY <1>12, <2>1, <2>2 DEF b, last, n
<1>. QED
  BY <1>10, <1>11, <1>12

(* The next tower stands where the limits allow, or else at the next point. *)
LEMMA TowerIsPlaced == TowerAssumption /\ TowerInv /\ PlaceNext => TowerInv'
<1>. SUFFICES ASSUME TowerAssumption, TowerInv, PlaceNext PROVE TowerInv'
  OBVIOUS
<1>0. PICK last : last = LastTower
  OBVIOUS
<1>1. LinePlaced /\ placing = "placing" /\ last <= Len(gaps) /\ UNCHANGED <<line, gaps, placing>>
  BY <1>0 DEF TowerInv, PlaceNext
<1>2. PICK seen \in SUBSET WithinReach :
         /\ towers' = towers \cup {NextTower(seen)}
         /\ clear' = clear \cup {<<last, p>> : p \in seen}
  BY <1>0 DEF PlaceNext
<1>b. PICK b : b = NextTower(seen)
  OBVIOUS
<1>3. /\ b \in Points /\ b > last
      /\ \/ b \in seen /\ Span(last, b) <= LongestSpan(line)
         \/ seen = {} /\ b = last + 1
      /\ Span(last, b) < line.minSpan =>
            \/ b = Len(gaps) + 1
            \/ \A p \in seen : Span(last, p) < line.minSpan
  BY <1>0, <1>1, <1>b, NextChosen
<1>4. /\ Len(gaps) \in Nat /\ Points = 1..Len(gaps) + 1
      /\ last \in towers /\ \A t \in towers : t <= last
      /\ towers \subseteq Points
  BY <1>0, <1>1, TowersBounded DEF LinePlaced
<1>5. /\ Points' = Points /\ LongestSpan(line)' = LongestSpan(line)
      /\ \A x, y : Span(x, y)' = Span(x, y)
  BY <1>1 DEF Points, Span, Along
<1>6. /\ line \in Lines /\ gaps = Densified(line) /\ 1 \in towers
      /\ \A x, y \in towers : NextTo(x, y) => Placed(x, y)
      /\ \A x, p : <<x, p>> \in clear => x \in towers /\ x < last
  BY <1>0, <1>1 DEF LinePlaced
<1>7. towers' = towers \cup {b}
  BY <1>b, <1>2
<1>8. LastTower' = b
  <2>1. towers' \subseteq Nat /\ towers' # {} /\ Len(gaps) + 1 \in Nat /\ \A t \in towers' : t <= Len(gaps) + 1
    <3>1. \A t \in Points : t \in Nat /\ t <= Len(gaps) + 1
      BY <1>4
    <3>2. towers' \subseteq Points /\ towers' # {}
      BY <1>3, <1>4, <1>7
    <3>. QED
      BY <1>4, <3>1, <3>2
  <2>2. Max(towers') \in towers' /\ \A t \in towers' : t <= Max(towers')
    BY <2>1, Extremes
  <2>3. b \in Int /\ last \in Int /\ \A t \in towers : t \in Int
    BY <1>3, <1>4
  <2>4. b \in towers' /\ \A t \in towers' : t <= b
    BY <1>3, <1>4, <1>7, <2>3
  <2>5. Max(towers') \in Int
    <3>1. \A t \in towers' : t \in Int
      BY <2>1
    <3>. QED
      BY <2>2, <3>1
  <2>6. Max(towers') = b
    BY <2>2, <2>3, <2>4, <2>5
  <2>. QED
    BY <2>6 DEF LastTower
<1>9. \A x \in towers : x \in Int
  BY <1>4
<1>10. \A x, p : <<x, p>> \in clear' <=> <<x, p>> \in clear \/ (x = last /\ p \in seen)
  BY <1>2
<1>11. Placed(last, b)'
  <2>1. \A p : <<last, p>> \in clear' <=> p \in seen
    BY <1>4, <1>6, <1>9, <1>10
  <2>. QED
    BY <1>1, <1>3, <1>5, <2>1 DEF Placed
<1>12. ASSUME NEW x \in towers, NEW y \in towers, NextTo(x, y) PROVE Placed(x, y)'
  <2>1. Placed(x, y)
    BY <1>6, <1>12
  <2>2. x # last
    BY <1>4, <1>9, <1>12 DEF NextTo
  <2>3. \A p : <<x, p>> \in clear' <=> <<x, p>> \in clear
    BY <1>10, <2>2
  <2>. QED
    BY <1>1, <1>5, <2>1, <2>3 DEF Placed
<1>13. ASSUME NEW x \in towers', NEW y \in towers', NextTo(x, y)' PROVE Placed(x, y)'
  <2>1. x < y /\ (\A t \in towers : t <= x \/ y <= t) /\ (b <= x \/ y <= b)
    BY <1>7, <1>13 DEF NextTo
  <2>2. b \in Int /\ last \in Int
    BY <1>3, <1>4
  <2>3. CASE y = b
    <3>1. x \in towers
      BY <1>7, <2>1, <2>2, <2>3
    <3>2. last <= x
      BY <1>3, <1>4, <2>1, <2>2, <2>3
    <3>3. x = last
      BY <1>4, <1>9, <2>2, <3>1, <3>2
    <3>. QED
      BY <1>11, <2>3, <3>3
  <2>4. CASE y # b
    <3>1. y \in towers /\ y <= last
      BY <1>4, <1>7, <2>4
    <3>2. x # b
      BY <1>3, <1>9, <2>1, <2>2, <3>1
    <3>3. x \in towers /\ NextTo(x, y)
      BY <1>7, <2>1, <3>2 DEF NextTo
    <3>. QED
      BY <1>12, <3>1, <3>3
  <2>. QED
    BY <2>3, <2>4
<1>14. ASSUME NEW x, NEW p, <<x, p>> \in clear' PROVE x \in towers /\ x < b
  <2>1. last \in Int /\ b \in Int
    BY <1>3, <1>4
  <2>2. CASE x = last
    BY <1>3, <1>4, <2>2
  <2>3. CASE x # last
    <3>1. x \in towers /\ x < last
      BY <1>6, <1>10, <1>14, <2>3
    <3>. QED
      BY <1>3, <1>9, <2>1, <3>1
  <2>. QED
    BY <2>2, <2>3
<1>15. LinePlaced'
  <2>1. towers' \subseteq Points' /\ 1 \in towers'
    BY <1>3, <1>4, <1>5, <1>6, <1>7
  <2>2. line' \in Lines /\ gaps' = Densified(line')
    BY <1>1, <1>6
  <2>3. \A x, p : <<x, p>> \in clear' => x \in towers' /\ x < LastTower'
    BY <1>7, <1>8, <1>14
  <2>. QED
    BY <1>13, <2>1, <2>2, <2>3 DEF LinePlaced
<1>. QED
  BY <1>1, <1>15 DEF TowerInv, SpansHold

(* A tower at a bend divides a span. *)
LEMMA TurnsDivide ==
    ASSUME TowerAssumption, LinePlaced, LastTower = Len(gaps) + 1,
           NEW all, all = towers \cup Turns,
           NEW a \in all \ {Len(gaps) + 1}
    PROVE  LET b == Min({t \in all : t > a})
               atBend == {a, b} \cap Turns # {}
           IN  /\ Span(a, b) <= LongestSpan(line) \/ b = a + 1
               /\ \/ <<a, b>> \in clear \/ atBend
                  \/ b = a + 1 /\ \A p \in Points : <<a, p>> \notin clear
               /\ Span(a, b) < line.minSpan =>
                     \/ b = Len(gaps) + 1 \/ atBend
                     \/ \A p \in Points : <<a, p>> \in clear => Span(a, p) < line.minSpan
<1>. DEFINE n == Len(gaps) + 1
            b == Min({t \in all : t > a})
<1>1. /\ n \in Nat /\ Points = 1..n /\ n \in towers /\ gaps \in Seq(Nat)
      /\ towers \subseteq Points /\ Turns \subseteq Points /\ 1 \in towers
      /\ \A x, y \in towers : NextTo(x, y) => Placed(x, y)
  BY TowersBounded DEF LinePlaced
<1>. HIDE DEF n
<1>2. all \subseteq Points /\ a \in Points /\ a < n /\ a \in Nat /\ n \in all
  <2>1. all \subseteq Points /\ a \in Points /\ a # n /\ n \in all
    BY <1>1 DEF n
  <2>. QED
    BY <1>1, <2>1
<1>3. b \in all /\ a < b /\ \A t \in all : a < t => b <= t
  <2>. DEFINE T == {t \in all : t > a}
  <2>1. T \subseteq Nat /\ T # {} /\ \A t \in T : t <= n
    <3>1. \A t \in all : t \in Nat /\ t <= n
      BY <1>1, <1>2
    <3>2. n \in T
      BY <1>1, <1>2
    <3>. QED
      BY <3>1, <3>2
  <2>2. \A t \in all : a < t => t \in T
    BY <1>1, <1>2
  <2>3. \A t \in T : t \in all /\ a < t
    BY <1>1, <1>2
  <2>. HIDE DEF T
  <2>4. Min(T) \in T /\ \A t \in T : Min(T) <= t
    BY <1>1, <2>1, Extremes
  <2>5. b = Min(T)
    BY DEF T
  <2>. HIDE DEF b
  <2>. QED
    BY <2>2, <2>3, <2>4, <2>5
<1>. HIDE DEF b
<1>4. b \in Points /\ \A t \in towers : t \in all /\ t \in Nat
  BY <1>1, <1>2, <1>3
<1>5. CASE {a, b} \cap Turns = {}
  <2>1. a \in towers /\ b \in towers
    BY <1>3, <1>5
  <2>2. NextTo(a, b)
    <3>1. \A t \in towers : t <= a \/ a < t
      BY <1>2, <1>4
    <3>. QED
      BY <1>3, <1>4, <3>1 DEF NextTo
  <2>3. Placed(a, b)
    BY <1>1, <2>1, <2>2
  <2>. QED
    BY <2>3 DEF Placed, b
<1>6. CASE {a, b} \cap Turns # {}
  <2>1. PICK c \in towers : c <= a /\ \A t \in towers : t <= a => t <= c
    <3>. DEFINE T == {t \in towers : t <= a}
    <3>1. T \subseteq Nat /\ T # {} /\ \A t \in T : t <= a
      <4>1. 1 <= a
        BY <1>1, <1>2
      <4>2. 1 \in T
        BY <1>1, <4>1
      <4>. QED
        BY <1>4, <4>2
    <3>2. PICK c \in T : \A t \in T : t <= c
      <4>. HIDE DEF T
      <4>. QED
        BY <1>2, <3>1, GreatestOf
    <3>. QED
      BY <3>2
  <2>2. PICK d \in towers : a < d /\ \A t \in towers : a < t => d <= t
    <3>. DEFINE T == {t \in towers : a < t}
    <3>1. T \subseteq Nat /\ T # {}
      BY <1>1, <1>2, <1>4
    <3>2. PICK d \in T : \A t \in T : d <= t
      <4>. HIDE DEF T
      <4>. QED
        BY <3>1, LeastOf
    <3>. QED
      BY <3>2
  <2>3. c \in Nat /\ d \in Nat /\ b \in Nat /\ c \in Points /\ d \in Points
    BY <1>1, <1>4
  <2>4. NextTo(c, d)
    <3>1. \A t \in towers : t <= a \/ a < t
      BY <1>2, <1>4
    <3>2. c < d
      BY <1>2, <2>1, <2>2, <2>3
    <3>. QED
      BY <2>1, <2>2, <3>1, <3>2 DEF NextTo
  <2>5. Span(c, d) <= LongestSpan(line) \/ d = c + 1
    BY <1>1, <2>4 DEF Placed
  <2>6. c <= a /\ a <= b /\ b <= d
    BY <1>2, <1>3, <1>4, <2>1, <2>2, <2>3
  <2>7. Span(c, d) \in Int /\ Span(a, b) \in Int /\ Span(a, b) <= Span(c, d)
    BY <1>1, <1>2, <1>4, <2>3, <2>6, PartOfSpan
  <2>8. LongestSpan(line) \in Nat
    BY LongestIsNat DEF LinePlaced
  <2>9. d = c + 1 => b = a + 1
    BY <1>2, <1>3, <2>1, <2>2, <2>3, <2>6
  <2>10. Span(a, b) <= LongestSpan(line) \/ b = a + 1
    BY <2>5, <2>7, <2>8, <2>9
  <2>. QED
    BY <1>6, <2>10 DEF b
<1>. QED
  BY <1>5, <1>6

(* The towers of the bends leave the spans as short as they were. *)
LEMMA TurnsAreMerged == TowerAssumption /\ TowerInv /\ MergeTurns => TowerInv'
<1>. SUFFICES ASSUME TowerAssumption, TowerInv, MergeTurns PROVE TowerInv'
  OBVIOUS
<1>1. /\ LinePlaced /\ LastTower = Len(gaps) + 1
      /\ towers' = towers \cup Turns /\ placing' = "done" /\ UNCHANGED <<line, gaps, clear>>
  BY DEF TowerInv, MergeTurns
<1>2. /\ Points' = Points /\ LongestSpan(line)' = LongestSpan(line) /\ Turns' = Turns
      /\ \A x, y : Span(x, y)' = Span(x, y)
  BY <1>1 DEF Points, Span, Along, Turns, Corner
<1>3. {1, Len(gaps) + 1} \cup Turns \subseteq towers'
  BY <1>1, TowersBounded DEF LinePlaced
<1>4. ASSUME NEW a \in towers' \ {Len(gaps) + 1}
      PROVE  LET b == Min({t \in towers' : t > a})
                 atBend == {a, b} \cap Turns # {}
             IN  /\ Span(a, b) <= LongestSpan(line) \/ b = a + 1
                 /\ \/ <<a, b>> \in clear \/ atBend
                    \/ b = a + 1 /\ \A p \in Points : <<a, p>> \notin clear
                 /\ Span(a, b) < line.minSpan =>
                       \/ b = Len(gaps) + 1 \/ atBend
                       \/ \A p \in Points : <<a, p>> \in clear => Span(a, p) < line.minSpan
  BY <1>1, TurnsDivide
<1>5. SpansHold'
  BY <1>1, <1>2, <1>3, <1>4 DEF SpansHold
<1>. QED
  BY <1>1, <1>5 DEF TowerInv

(* Every step keeps the spans within their limits. *)
LEMMA TowerStep == TowerAssumption /\ TowerInv /\ [TowerNext]_towerVars => TowerInv'
<1>. SUFFICES ASSUME TowerAssumption, TowerInv, [TowerNext]_towerVars PROVE TowerInv'
  OBVIOUS
<1>1. CASE PlaceTowers
  BY <1>1, FarmHasTower
<1>2. CASE PlaceNext
  BY <1>2, TowerIsPlaced
<1>3. CASE MergeTurns
  BY <1>3, TurnsAreMerged
<1>4. CASE UNCHANGED towerVars
  <2>1. UNCHANGED <<line, gaps, towers, clear, placing>>
    BY <1>4 DEF towerVars
  <2>2. /\ Points' = Points /\ LongestSpan(line)' = LongestSpan(line) /\ Turns' = Turns
        /\ \A x, y : Span(x, y)' = Span(x, y)
    BY <2>1 DEF Points, Span, Along, Turns, Corner
  <2>3. \A x, y : (Placed(x, y)' <=> Placed(x, y)) /\ (NextTo(x, y)' <=> NextTo(x, y))
    BY <2>1, <2>2 DEF Placed, NextTo
  <2>4. LinePlaced' <=> LinePlaced
    BY <2>1, <2>2, <2>3 DEF LinePlaced, LastTower
  <2>5. SpansHold' <=> SpansHold
    BY <2>1, <2>2 DEF SpansHold
  <2>. QED
    BY <2>1, <2>4, <2>5 DEF TowerInv
<1>. QED
  BY <1>1, <1>2, <1>3, <1>4 DEF TowerNext

(* Towers stand at the ends and the bends of the line, no span is longer    *)
(* than the limit but between neighbouring points, and every span without   *)
(* clearance or shorter than the least one has its reason, for every line,  *)
(* whatever the terrain allows: placeTowers.                                *)
THEOREM TowersHold == TowerSpec => []SpansHold
<1>1. TowerInit => TowerInv
  BY TowersStart
<1>2. TowerInv /\ [TowerNext]_towerVars => TowerInv'
  BY TowerAssumption, TowerStep
<1>3. TowerInv => SpansHold
  BY DEF TowerInv
<1>. QED
  BY <1>1, <1>2, <1>3, PTL DEF TowerSpec

-----------------------------------------------------------------------------
(* The search for a corridor *)

(* Differences of neighbouring cells are small. *)
LEMMA NeighbourCells ==
    ASSUME CorridorAssumption, NEW a \in Cells, NEW b \in Neighbours(a)
    PROVE  /\ b \in Cells /\ a # b
           /\ b[1] - a[1] \in {-1, 0, 1} /\ b[2] - a[2] \in {-1, 0, 1}
           /\ a[1] \in Int /\ a[2] \in Int /\ b[1] \in Int /\ b[2] \in Int
           /\ a = <<a[1], a[2]>> /\ b = <<b[1], b[2]>>
<1>1. a \in Cells /\ b \in Cells /\ a # b /\ Distance(a[1], b[1]) <= 1 /\ Distance(a[2], b[2]) <= 1
  BY DEF Neighbours
<1>2. \A c \in Cells : c[1] \in Int /\ c[2] \in Int /\ c = <<c[1], c[2]>>
  BY DEF Cells, CorridorAssumption
<1>3. \A x, y \in Int : Distance(x, y) <= 1 => y - x \in {-1, 0, 1}
  BY DEF Distance
<1>. QED
  BY <1>1, <1>2, <1>3

(* The courses of the compass, and the bend from one to another. *)
Compass == <<<<-1, 0>>, <<-1, 1>>, <<0, 1>>, <<1, 1>>, <<1, 0>>, <<1, -1>>, <<0, -1>>, <<-1, -1>>>>

(* A bend is at most half a turn. *)
LEMMA BendType ==
    ASSUME CorridorAssumption, NEW a \in Cells, NEW b \in Neighbours(a), NEW c \in Neighbours(b)
    PROVE  Bend(a, b, c) \in 0..4
<1>. DEFINE course(x, y) == CHOOSE i \in 1..8 : Compass[i] = <<y[1] - x[1], y[2] - x[2]>>
<1>1. ASSUME NEW x \in Cells, NEW y \in Neighbours(x) PROVE course(x, y) \in 1..8
  <2>. DEFINE r == y[1] - x[1]
              s == y[2] - x[2]
  <2>1. r \in {-1, 0, 1} /\ s \in {-1, 0, 1} /\ ~(r = 0 /\ s = 0)
    <3>1. y[1] - x[1] = 0 => y[1] = x[1]
      BY NeighbourCells
    <3>2. y[2] - x[2] = 0 => y[2] = x[2]
      BY NeighbourCells
    <3>. QED
      BY <3>1, <3>2, NeighbourCells
  <2>. HIDE DEF r, s
  <2>2. \E i \in 1..8 : Compass[i] = <<r, s>>
    <3>1. CASE r = -1
      BY <2>1, <3>1 DEF Compass
    <3>2. CASE r = 0
      BY <2>1, <3>2 DEF Compass
    <3>3. CASE r = 1
      BY <2>1, <3>3 DEF Compass
    <3>. QED
      BY <2>1, <3>1, <3>2, <3>3
  <2>. QED
    BY <2>2 DEF r, s
<1>2. b \in Cells
  BY NeighbourCells
<1>. DEFINE u == course(a, b)
            v == course(b, c)
<1>3. u \in 1..8 /\ v \in 1..8
  BY <1>1, <1>2
<1>4. Bend(a, b, c) = IF Distance(u, v) > 4 THEN 8 - Distance(u, v) ELSE Distance(u, v)
  BY DEF Bend, Compass
<1>. HIDE DEF u, v
<1>. QED
  BY <1>3, <1>4 DEF Distance

(* A move costs something. *)
LEMMA MoveCosts == \A a, b : MoveCost(a, b) \in Nat /\ MoveCost(a, b) >= 1
<1>. SUFFICES ASSUME NEW a, NEW b PROVE MoveCost(a, b) \in Nat /\ MoveCost(a, b) >= 1
  OBVIOUS
<1>. DEFINE multiplier == IF b \in corridor.blocked THEN 350
                          ELSE IF b \in corridor.road THEN 3
                          ELSE IF corridor.road # {} THEN 50 ELSE 10
            length == IF Climbs(a, b) THEN IF IsDiagonal(a, b) THEN 309 ELSE 283
                      ELSE IF IsDiagonal(a, b) THEN 141 ELSE 100
<1>1. multiplier \in {350, 3, 50, 10} /\ length \in {309, 283, 141, 100}
  OBVIOUS
<1>2. MoveCost(a, b) = (length * multiplier) \div 10
  BY DEF MoveCost
<1>. HIDE DEF multiplier, length
<1>3. \A m \in {350, 3, 50, 10} : \A l \in {309, 283, 141, 100} : l * m \in Nat /\ l * m >= 300
  OBVIOUS
<1>4. \A x \in Nat : x >= 300 => x \div 10 \in Nat /\ x \div 10 >= 1
  OBVIOUS
<1>. QED
  BY <1>1, <1>2, <1>3, <1>4

(* The cells the search has a way to, each but the farm's by a cell it is   *)
(* done with.                                                               *)
WaysAreSteps ==
    /\ corridor \in Corridors /\ attempt \in Attempts
    /\ DOMAIN gScore = {corridor.start} \cup DOMAIN cameFrom
    /\ corridor.start \notin DOMAIN cameFrom /\ gScore[corridor.start] = 0
    /\ \A b \in DOMAIN gScore : b \in Cells /\ gScore[b] \in Nat
    /\ closed \subseteq DOMAIN gScore /\ corridor.goal \notin closed
    /\ \A b \in DOMAIN cameFrom :
          /\ cameFrom[b] \in closed /\ b \in Neighbours(cameFrom[b])
          /\ Allowed(cameFrom[b], b)
          /\ gScore[b] = gScore[cameFrom[b]] + StepTo(cameFrom[b], b)

(* No cell is forgotten: one that is not done with waits on the heap, and    *)
(* the last attempt comes to every neighbour of those that are.              *)
NothingForgotten ==
    /\ \A e \in open : e.pos \in DOMAIN gScore
    /\ \A b \in DOMAIN gScore \ closed : \E e \in open : e.pos = b
    /\ attempt = 3 => \A a \in closed : Neighbours(a) \subseteq DOMAIN gScore

CorridorInv ==
    /\ searched \in {"idle", "searching", "found"}
    /\ searched # "idle" => WaysAreSteps
    /\ searched = "searching" => NothingForgotten
    /\ searched = "found" => corridor.goal \in DOMAIN gScore

(* The search waits to be asked. *)
LEMMA CorridorStart == CorridorInit => CorridorInv
BY DEF CorridorInit, CorridorInv

(* A search starts with a way to the farm and to no other cell. *)
LEMMA SearchStarts ==
    ASSUME CorridorAssumption, NEW c \in Corridors, NEW n \in Attempts,
           corridor' = c, StartSearch(c, n)
    PROVE  CorridorInv'
<1>1. /\ attempt' = n /\ open' = {[pos |-> c.start, f |-> 0]} /\ gScore' = [a \in {c.start} |-> 0]
      /\ cameFrom' = << >> /\ closed' = {} /\ searched' = "searching" /\ corridor' = c
  BY DEF StartSearch
<1>2. c.start \in Cells
  BY DEF CorridorAssumption
<1>3. DOMAIN cameFrom' = {}
  BY <1>1
<1>4. DOMAIN gScore' = {c.start} /\ gScore'[c.start] = 0
  BY <1>1
<1>5. WaysAreSteps'
  BY <1>1, <1>2, <1>3, <1>4 DEF WaysAreSteps, Cells
<1>6. NothingForgotten'
  <2>. DEFINE e == [pos |-> c.start, f |-> 0]
  <2>1. e.pos = c.start /\ open' = {e}
    BY <1>1
  <2>. HIDE DEF e
  <2>. QED
    BY <1>1, <1>4, <2>1 DEF NothingForgotten
<1>. QED
  BY <1>1, <1>5, <1>6 DEF CorridorInv

(* A step costs something, whatever turn it takes. *)
LEMMA StepCosts ==
    ASSUME CorridorAssumption, WaysAreSteps, NEW a \in DOMAIN gScore, NEW b \in Neighbours(a)
    PROVE  /\ StepTo(a, b) \in Nat /\ StepTo(a, b) >= 1
           /\ a \in DOMAIN cameFrom => Bend(cameFrom[a], a, b) \in 0..4
<1>1. MoveCost(a, b) \in Nat /\ MoveCost(a, b) >= 1
  BY MoveCosts
<1>2. CASE a \notin DOMAIN cameFrom
  BY <1>1, <1>2 DEF StepTo
<1>3. CASE a \in DOMAIN cameFrom
  <2>. DEFINE bend == Bend(cameFrom[a], a, b)
              cost == MoveCost(a, b)
  <2>1. cameFrom[a] \in Cells /\ a \in Neighbours(cameFrom[a])
    BY <1>3 DEF WaysAreSteps
  <2>2. bend \in 0..4
    BY <2>1, BendType
  <2>. HIDE DEF bend
  <2>3. TurnPenalty(cost, bend) \in Nat
    <3>1. cost * bend * bend \in Nat
      <4>1. \A x, y \in Nat : x * y \in Nat
        OBVIOUS
      <4>2. cost * bend \in Nat
        BY <1>1, <2>2, <4>1
      <4>. QED
        BY <2>2, <4>1, <4>2
    <3>2. cost * bend * bend * (IF attempt = 3 THEN 1 ELSE 6) \in Nat
      BY <3>1
    <3>. QED
      BY <3>2, DivisionNat DEF TurnPenalty
  <2>4. StepTo(a, b) = cost + TurnPenalty(cost, bend)
    BY <1>3 DEF StepTo, bend
  <2>. HIDE DEF cost
  <2>5. StepTo(a, b) \in Nat /\ StepTo(a, b) >= 1
    BY <1>1, <2>3, <2>4 DEF cost
  <2>. QED
    BY <2>2, <2>5 DEF bend
<1>. QED
  BY <1>2, <1>3

(* The last attempt may take any step. *)
LEMMA LastAttemptAllows ==
    ASSUME CorridorAssumption, WaysAreSteps, attempt = 3, NEW a \in DOMAIN gScore, NEW b \in Neighbours(a)
    PROVE  Allowed(a, b)
<1>1. Passable(attempt, a, b)
  BY DEF Passable
<1>2. ASSUME a \in DOMAIN cameFrom PROVE ~Exceeds(attempt, Bend(cameFrom[a], a, b))
  <2>1. Bend(cameFrom[a], a, b) \in 0..4
    BY <1>2, StepCosts
  <2>2. MaxDeflection(attempt) = 180
    BY DEF MaxDeflection
  <2>. QED
    BY <2>1, <2>2 DEF Exceeds
<1>. QED
  BY <1>1, <1>2 DEF Allowed

(* Expanding a cell keeps the ways to the others. *)
LEMMA ExpansionSteps ==
    ASSUME CorridorAssumption, CorridorInv, NEW e \in open, Expand(e)
    PROVE  CorridorInv'
<1>. DEFINE D == DOMAIN gScore
            C == DOMAIN cameFrom
<1>1. PICK a : a = e.pos
  OBVIOUS
<1>2. PICK I : I = Improved(a)
  OBVIOUS
<1>3. /\ searched = "searching" /\ a # corridor.goal /\ a \notin closed
      /\ closed' = closed \cup {a}
      /\ gScore' = [b \in D \cup I |-> IF b \in I THEN gScore[a] + StepTo(a, b) ELSE gScore[b]]
      /\ cameFrom' = [b \in C \cup I |-> IF b \in I THEN a ELSE cameFrom[b]]
      /\ open' = (open \ {e})
            \cup {[pos |-> b, f |-> gScore[a] + StepTo(a, b) + Heuristic(b)] : b \in I}
      /\ corridor' = corridor /\ attempt' = attempt /\ searched' = searched
  BY <1>1, <1>2 DEF Expand
<1>4. WaysAreSteps /\ NothingForgotten
  BY <1>3 DEF CorridorInv
<1>5. /\ a \in D /\ a \in Cells /\ gScore[a] \in Nat
      /\ D = {corridor.start} \cup C /\ corridor.start \notin C /\ gScore[corridor.start] = 0
      /\ closed \subseteq D
  BY <1>1, <1>4 DEF WaysAreSteps, NothingForgotten
<1>6. \A b \in I : /\ b \in Neighbours(a) /\ b \notin closed /\ b # a /\ Allowed(a, b)
                   /\ b \in Cells /\ StepTo(a, b) \in Nat /\ StepTo(a, b) >= 1
                   /\ b \in D => gScore[a] + StepTo(a, b) < gScore[b]
  <2>1. \A b \in I : /\ b \in Neighbours(a) /\ b \notin closed /\ b # a /\ Allowed(a, b)
                     /\ b \in D => gScore[a] + StepTo(a, b) < gScore[b]
    BY <1>2 DEF Improved
  <2>2. \A b \in I : b \in Cells /\ StepTo(a, b) \in Nat /\ StepTo(a, b) >= 1
    BY <1>4, <1>5, <2>1, StepCosts DEF Neighbours
  <2>. QED
    BY <2>1, <2>2
<1>7. corridor.start \notin I
  <2>1. SUFFICES ASSUME corridor.start \in I PROVE FALSE
    OBVIOUS
  <2>2. gScore[a] + StepTo(a, corridor.start) < 0 /\ StepTo(a, corridor.start) \in Nat
    BY <1>5, <1>6, <2>1
  <2>. QED
    BY <1>5, <2>2
<1>8. /\ DOMAIN gScore' = D \cup I /\ DOMAIN cameFrom' = C \cup I
      /\ \A b \in I : gScore'[b] = gScore[a] + StepTo(a, b) /\ cameFrom'[b] = a
      /\ \A b \in D : b \notin I => gScore'[b] = gScore[b]
      /\ \A b \in C : b \notin I => cameFrom'[b] = cameFrom[b]
  BY <1>3
<1>. HIDE DEF D, C
<1>9. \A p : p \notin I => (p \in DOMAIN cameFrom' <=> p \in C)
  BY <1>8
<1>10. \A p, b : /\ MoveCost(p, b)' = MoveCost(p, b) /\ (Passable(attempt, p, b))' = Passable(attempt, p, b)
                 /\ Neighbours(p)' = Neighbours(p)
  BY <1>3 DEF MoveCost, Climbs, Passable, Neighbours
<1>11. \A x, y : (TurnPenalty(x, y))' = TurnPenalty(x, y) /\ (Exceeds(attempt, y))' = Exceeds(attempt, y)
  BY <1>3 DEF TurnPenalty, Exceeds, MaxDeflection
<1>12. ASSUME NEW p \in D, p \notin I, NEW b
       PROVE  StepTo(p, b)' = StepTo(p, b) /\ (Allowed(p, b)' <=> Allowed(p, b))
  <2>1. CASE p \in C
    <3>1. p \in DOMAIN cameFrom' /\ cameFrom'[p] = cameFrom[p] /\ p \in DOMAIN cameFrom
      BY <1>8, <1>12, <2>1 DEF C
    <3>. QED
      BY <1>10, <1>11, <3>1 DEF StepTo, Allowed
  <2>2. CASE p \notin C
    <3>1. p \notin DOMAIN cameFrom' /\ p \notin DOMAIN cameFrom
      BY <1>9, <1>12, <2>2 DEF C
    <3>. QED
      BY <1>10, <1>11, <3>1 DEF StepTo, Allowed
  <2>. QED
    BY <2>1, <2>2
<1>13. ASSUME NEW b \in C, b \notin I PROVE cameFrom[b] \in closed /\ cameFrom[b] \in D /\ cameFrom[b] \notin I
  BY <1>4, <1>5, <1>6, <1>13 DEF WaysAreSteps, C
<1>14. ASSUME NEW b \in DOMAIN cameFrom'
       PROVE  \E p : /\ p = cameFrom'[b] /\ p \in closed' /\ b \in Neighbours(p)
                     /\ Allowed(p, b)' /\ gScore'[b] = gScore'[p] + StepTo(p, b)'
  <2>1. CASE b \in I
    <3>1. a \notin I
      BY <1>6
    <3>2. cameFrom'[b] = a /\ gScore'[b] = gScore[a] + StepTo(a, b) /\ gScore'[a] = gScore[a]
      BY <1>5, <1>8, <2>1, <3>1 DEF D
    <3>3. StepTo(a, b)' = StepTo(a, b) /\ (Allowed(a, b)' <=> Allowed(a, b))
      BY <1>5, <1>12, <3>1 DEF D
    <3>4. a \in closed' /\ b \in Neighbours(a) /\ Allowed(a, b)
      BY <1>3, <1>6, <2>1
    <3>5. gScore'[b] = gScore'[a] + StepTo(a, b)'
      BY <3>2, <3>3
    <3>. QED
      BY <3>2, <3>3, <3>4, <3>5
  <2>2. CASE b \notin I
    <3>1. b \in C
      BY <1>8, <1>14, <2>2
    <3>2. PICK p : p = cameFrom[b]
      OBVIOUS
    <3>3. p \in closed /\ p \in D /\ p \notin I
      BY <1>13, <2>2, <3>1, <3>2
    <3>4. /\ b \in Neighbours(p) /\ Allowed(p, b) /\ gScore[b] = gScore[p] + StepTo(p, b) /\ b \in D
      BY <1>4, <1>5, <3>1, <3>2 DEF WaysAreSteps, C, D
    <3>5. cameFrom'[b] = p /\ gScore'[b] = gScore[b] /\ gScore'[p] = gScore[p]
      BY <1>8, <2>2, <3>1, <3>2, <3>3, <3>4
    <3>6. StepTo(p, b)' = StepTo(p, b) /\ (Allowed(p, b)' <=> Allowed(p, b))
      BY <1>12, <3>3
    <3>7. gScore'[b] = gScore'[p] + StepTo(p, b)'
      BY <3>4, <3>5, <3>6
    <3>. QED
      BY <1>3, <3>3, <3>4, <3>5, <3>6, <3>7
  <2>. QED
    BY <2>1, <2>2
<1>15. ASSUME NEW b \in DOMAIN gScore' PROVE b \in Cells /\ gScore'[b] \in Nat
  <2>1. CASE b \in I
    BY <1>5, <1>6, <1>8, <2>1
  <2>2. CASE b \notin I
    BY <1>4, <1>8, <1>15, <2>2 DEF WaysAreSteps, D
  <2>. QED
    BY <2>1, <2>2
<1>16. WaysAreSteps'
  <2>1. DOMAIN gScore' = {corridor'.start} \cup DOMAIN cameFrom'
    BY <1>3, <1>5, <1>8
  <2>2. corridor'.start \notin DOMAIN cameFrom' /\ gScore'[corridor'.start] = 0
    BY <1>3, <1>5, <1>7, <1>8
  <2>3. closed' \subseteq DOMAIN gScore' /\ corridor'.goal \notin closed'
    BY <1>3, <1>4, <1>5, <1>8 DEF WaysAreSteps
  <2>4. ASSUME NEW b \in DOMAIN cameFrom'
        PROVE  /\ cameFrom'[b] \in closed' /\ b \in Neighbours(cameFrom'[b])
               /\ Allowed(cameFrom[b], b)'
               /\ gScore'[b] = gScore'[cameFrom'[b]] + StepTo(cameFrom[b], b)'
    <3>1. PICK p : /\ p = cameFrom'[b] /\ p \in closed' /\ b \in Neighbours(p)
                   /\ Allowed(p, b)' /\ gScore'[b] = gScore'[p] + StepTo(p, b)'
      BY <1>14
    <3>2. Allowed(cameFrom[b], b)' <=> Allowed(p, b)'
      BY <3>1 DEF Allowed, Passable, Climbs
    <3>3. StepTo(cameFrom[b], b)' = StepTo(p, b)'
      BY <3>1 DEF StepTo, MoveCost, Climbs
    <3>. QED
      BY <3>1, <3>2, <3>3
  <2>5. corridor' \in Corridors /\ attempt' \in Attempts
    BY <1>3, <1>4 DEF WaysAreSteps
  <2>. QED
    BY <1>15, <2>1, <2>2, <2>3, <2>4, <2>5 DEF WaysAreSteps, Neighbours
<1>17. NothingForgotten'
  <2>1. ASSUME NEW d \in open' PROVE d.pos \in DOMAIN gScore'
    <3>1. CASE d \in open
      BY <1>4, <1>8, <3>1 DEF NothingForgotten, D
    <3>2. CASE d \notin open
      BY <1>3, <1>8, <2>1, <3>2
    <3>. QED
      BY <3>1, <3>2
  <2>2. ASSUME NEW b \in DOMAIN gScore' \ closed' PROVE \E d \in open' : d.pos = b
    <3>1. CASE b \in I
      <4>. DEFINE d == [pos |-> b, f |-> gScore[a] + StepTo(a, b) + Heuristic(b)]
      <4>1. d \in open' /\ d.pos = b
        BY <1>3, <3>1
      <4>. QED
        BY <4>1
    <3>2. CASE b \notin I
      <4>1. b \in DOMAIN gScore \ closed /\ b # a
        BY <1>3, <1>8, <2>2, <3>2 DEF D
      <4>2. PICK d \in open : d.pos = b
        BY <1>4, <4>1 DEF NothingForgotten
      <4>3. d # e
        BY <1>1, <4>1, <4>2
      <4>. QED
        BY <1>3, <4>2, <4>3
    <3>. QED
      BY <3>1, <3>2
  <2>3. ASSUME attempt' = 3, NEW c \in closed', NEW b \in Neighbours(c) PROVE b \in DOMAIN gScore'
    <3>1. CASE c \in closed
      BY <1>3, <1>4, <1>8, <2>3, <3>1 DEF NothingForgotten, D
    <3>2. CASE c = a
      <4>1. b # a /\ Allowed(a, b)
        BY <1>3, <1>4, <1>5, <2>3, <3>2, LastAttemptAllows DEF Neighbours, D
      <4>2. b \in D \/ b \in I
        BY <1>2, <1>5, <2>3, <3>2, <4>1 DEF Improved, D
      <4>. QED
        BY <1>8, <4>2
    <3>. QED
      BY <1>3, <2>3, <3>1, <3>2
  <2>. QED
    BY <2>1, <2>2, <2>3 DEF NothingForgotten, Neighbours
<1>. QED
  BY <1>3, <1>16, <1>17 DEF CorridorInv

(* What spreads up and down an interval covers it. *)
LEMMA BothWays ==
    ASSUME NEW lo \in Int, NEW hi \in Int, NEW m \in lo..hi, NEW S, m \in S,
           \A k \in lo..hi : k \in S => /\ k + 1 <= hi => k + 1 \in S
                                        /\ k - 1 >= lo => k - 1 \in S
    PROVE  \A k \in lo..hi : k \in S
<1>1. \A k \in m..hi : k \in S
  <2>1. ASSUME NEW k \in m + 1..hi, k - 1 \in S PROVE k \in S
    <3>1. k - 1 \in lo..hi /\ (k - 1) + 1 = k /\ k <= hi
      OBVIOUS
    <3>. QED
      BY <2>1, <3>1
  <2>2. m \in Int
    OBVIOUS
  <2>. QED
    BY <2>1, <2>2, EveryOne
<1>2. \A k \in lo..m : k \in S
  <2>. DEFINE T == {n \in Int : m - n \in S}
  <2>1. 0 \in T
    OBVIOUS
  <2>2. ASSUME NEW n \in 0 + 1..m - lo, n - 1 \in T PROVE n \in T
    <3>. DEFINE k == m - (n - 1)
    <3>1. k \in lo..hi /\ k - 1 = m - n /\ k - 1 >= lo /\ k \in S
      BY <2>2
    <3>2. k - 1 \in S
      BY <3>1
    <3>. QED
      BY <3>1, <3>2
  <2>3. m - lo \in Int
    OBVIOUS
  <2>. HIDE DEF T
  <2>4. \A n \in 0..m - lo : n \in T
    <3>. DEFINE w == m - lo
    <3>1. w \in Int /\ 0 \in Int /\ \A n \in 0 + 1..w : n - 1 \in T => n \in T
      BY <2>2, <2>3
    <3>. HIDE DEF w
    <3>2. \A n \in 0..w : n \in T
      BY <2>1, <3>1, EveryOne
    <3>. QED
      BY <3>2 DEF w
  <2>. SUFFICES ASSUME NEW k \in lo..m PROVE k \in S
    OBVIOUS
  <2>5. m - k \in 0..m - lo /\ m - (m - k) = k
    OBVIOUS
  <2>6. m - k \in T
    BY <2>4, <2>5
  <2>. QED
    BY <2>5, <2>6 DEF T
<1>3. \A k \in lo..hi : k \in m..hi \/ k \in lo..m
  OBVIOUS
<1>. QED
  BY <1>1, <1>2, <1>3

(* From one cell all can be reached. *)
LEMMA RasterConnected ==
    ASSUME CorridorAssumption, NEW S, NEW s \in Cells, s \in S,
           \A a \in Cells : a \in S => Neighbours(a) \subseteq S
    PROVE  Cells \subseteq S
<1>1. PICK r0 \in 0..Height - 1, c0 \in 0..Width - 1 : s = <<r0, c0>>
  BY DEF Cells
<1>2. Height \in Int /\ Width \in Int
  BY DEF CorridorAssumption
<1>3. ASSUME NEW r \in 0..Height - 1, NEW c \in 0..Width - 1,
             NEW q \in 0..Height - 1, NEW d \in 0..Width - 1, <<r, c>> \in S,
             r # q \/ c # d, r - q \in {-1, 0, 1}, c - d \in {-1, 0, 1}
      PROVE  <<q, d>> \in S
  <2>1. <<r, c>> \in Cells /\ <<q, d>> \in Cells /\ <<r, c>> # <<q, d>>
    BY <1>3 DEF Cells
  <2>2. \A x, y \in Int : x - y \in {-1, 0, 1} => Distance(x, y) <= 1
    BY DEF Distance
  <2>3. Distance(r, q) <= 1 /\ Distance(c, d) <= 1
    BY <1>3, <2>2
  <2>4. <<q, d>> \in Neighbours(<<r, c>>)
    BY <2>1, <2>3 DEF Neighbours
  <2>. QED
    BY <1>3, <2>1, <2>4
<1>4. \A r \in 0..Height - 1 : <<r, c0>> \in S
  <2>. DEFINE R == {r \in 0..Height - 1 : <<r, c0>> \in S}
  <2>1. r0 \in R
    BY <1>1
  <2>2. ASSUME NEW k \in 0..Height - 1, k \in R
        PROVE  (k + 1 <= Height - 1 => k + 1 \in R) /\ (k - 1 >= 0 => k - 1 \in R)
    <3>1. ASSUME k + 1 <= Height - 1 PROVE k + 1 \in R
      <4>1. k + 1 \in 0..Height - 1 /\ k - (k + 1) = -1 /\ c0 - c0 = 0 /\ k # k + 1
        BY <1>2, <3>1
      <4>2. <<k + 1, c0>> \in S
        BY <1>3, <2>2, <4>1
      <4>. QED
        BY <4>1, <4>2
    <3>2. ASSUME k - 1 >= 0 PROVE k - 1 \in R
      <4>1. k - 1 \in 0..Height - 1 /\ k - (k - 1) = 1 /\ c0 - c0 = 0 /\ k # k - 1
        BY <1>2, <3>2
      <4>2. <<k - 1, c0>> \in S
        BY <1>3, <2>2, <4>1
      <4>. QED
        BY <4>1, <4>2
    <3>. QED
      BY <3>1, <3>2
  <2>3. 0 \in Int /\ Height - 1 \in Int /\ r0 \in 0..Height - 1
    BY <1>2
  <2>. HIDE DEF R
  <2>4. \A k \in 0..Height - 1 : k \in R
    BY <2>1, <2>2, <2>3, BothWays
  <2>. QED
    BY <2>4 DEF R
<1>5. ASSUME NEW r \in 0..Height - 1 PROVE \A c \in 0..Width - 1 : <<r, c>> \in S
  <2>. DEFINE C == {c \in 0..Width - 1 : <<r, c>> \in S}
  <2>1. c0 \in C
    BY <1>4
  <2>2. ASSUME NEW k \in 0..Width - 1, k \in C
        PROVE  (k + 1 <= Width - 1 => k + 1 \in C) /\ (k - 1 >= 0 => k - 1 \in C)
    <3>1. ASSUME k + 1 <= Width - 1 PROVE k + 1 \in C
      <4>1. k + 1 \in 0..Width - 1 /\ k - (k + 1) = -1 /\ r - r = 0 /\ k # k + 1
        BY <1>2, <3>1
      <4>2. <<r, k + 1>> \in S
        BY <1>3, <2>2, <4>1
      <4>. QED
        BY <4>1, <4>2
    <3>2. ASSUME k - 1 >= 0 PROVE k - 1 \in C
      <4>1. k - 1 \in 0..Width - 1 /\ k - (k - 1) = 1 /\ r - r = 0 /\ k # k - 1
        BY <1>2, <3>2
      <4>2. <<r, k - 1>> \in S
        BY <1>3, <2>2, <4>1
      <4>. QED
        BY <4>1, <4>2
    <3>. QED
      BY <3>1, <3>2
  <2>3. 0 \in Int /\ Width - 1 \in Int /\ c0 \in 0..Width - 1
    BY <1>2
  <2>. HIDE DEF C
  <2>4. \A k \in 0..Width - 1 : k \in C
    BY <2>1, <2>2, <2>3, BothWays
  <2>. QED
    BY <2>4 DEF C
<1>. QED
  BY <1>5 DEF Cells

(* The last attempt does not run out of cells before the goal. *)
LEMMA LastAttemptFinds ==
    ASSUME CorridorAssumption, WaysAreSteps, NothingForgotten, attempt = 3
    PROVE  open # {}
<1>. SUFFICES ASSUME open = {} PROVE FALSE
  OBVIOUS
<1>1. corridor.start \in closed /\ DOMAIN gScore \subseteq closed
  BY DEF WaysAreSteps, NothingForgotten
<1>2. \A a \in Cells : a \in closed => Neighbours(a) \subseteq closed
  BY <1>1 DEF NothingForgotten
<1>3. corridor.start \in Cells /\ corridor.goal \in Cells
  BY DEF WaysAreSteps, CorridorAssumption
<1>4. Cells \subseteq closed
  BY <1>1, <1>2, <1>3, RasterConnected
<1>. QED
  BY <1>3, <1>4 DEF WaysAreSteps

(* Every step of the search keeps the ways to the cells. *)
LEMMA CorridorStep ==
    CorridorAssumption /\ CorridorInv /\ [CorridorNext]_corridorVars => CorridorInv'
<1>. SUFFICES ASSUME CorridorAssumption, CorridorInv, [CorridorNext]_corridorVars PROVE CorridorInv'
  OBVIOUS
<1>1. ASSUME UNCHANGED <<corridor, attempt, gScore, cameFrom, closed>> PROVE WaysAreSteps' <=> WaysAreSteps
  <2>1. \A a, b : /\ MoveCost(a, b)' = MoveCost(a, b) /\ Neighbours(a)' = Neighbours(a)
                  /\ (Passable(attempt, a, b))' = Passable(attempt, a, b)
    BY <1>1 DEF MoveCost, Climbs, Passable, Neighbours
  <2>2. \A x, y : (TurnPenalty(x, y))' = TurnPenalty(x, y) /\ (Exceeds(attempt, y))' = Exceeds(attempt, y)
    BY <1>1 DEF TurnPenalty, Exceeds, MaxDeflection
  <2>3. \A a, b : StepTo(a, b)' = StepTo(a, b) /\ (Allowed(a, b)' <=> Allowed(a, b))
    BY <1>1, <2>1, <2>2 DEF StepTo, Allowed
  <2>. QED
    BY <1>1, <2>1, <2>3 DEF WaysAreSteps
<1>2. CASE CalculateFallback
  BY <1>2, SearchStarts DEF CalculateFallback, Attempts
<1>3. CASE ReachGoal
  <2>1. PICK e \in open : e.pos = corridor.goal
    BY <1>3 DEF ReachGoal, Cheapest
  <2>2. /\ WaysAreSteps /\ NothingForgotten /\ searched' = "found"
        /\ UNCHANGED <<corridor, attempt, open, gScore, cameFrom, closed>>
    BY <1>3 DEF ReachGoal, CorridorInv
  <2>3. corridor.goal \in DOMAIN gScore
    BY <2>1, <2>2 DEF NothingForgotten
  <2>. QED
    BY <1>1, <2>2, <2>3 DEF CorridorInv
<1>4. ASSUME NEW e \in open, PassOver(e) PROVE CorridorInv'
  <2>1. /\ searched = "searching" /\ searched' = searched /\ e.pos \in closed /\ open' = open \ {e}
        /\ UNCHANGED <<corridor, attempt, gScore, cameFrom, closed>>
    BY <1>4 DEF PassOver
  <2>2. WaysAreSteps' /\ NothingForgotten
    BY <1>1, <2>1 DEF CorridorInv
  <2>3. NothingForgotten'
    BY <2>1, <2>2 DEF NothingForgotten, Neighbours
  <2>. QED
    BY <2>1, <2>2, <2>3 DEF CorridorInv
<1>5. ASSUME NEW e \in open, Expand(e) PROVE CorridorInv'
  BY <1>5, ExpansionSteps
<1>6. CASE TryAgain
  <2>1. searched = "searching" /\ open = {} /\ corridor' = corridor
    BY <1>6 DEF TryAgain
  <2>2. WaysAreSteps /\ NothingForgotten
    BY <2>1 DEF CorridorInv
  <2>3. attempt < 3 /\ attempt + 1 \in Attempts /\ corridor \in Corridors
    BY <2>1, <2>2, LastAttemptFinds DEF WaysAreSteps, Attempts
  <2>4. PICK n \in Attempts : n = attempt + 1
    BY <2>3
  <2>5. PICK c \in Corridors : c = corridor
    BY <2>3
  <2>6. StartSearch(c, n)
    BY <1>6, <2>3, <2>4, <2>5 DEF TryAgain
  <2>7. corridor' = c
    BY <2>1, <2>5
  <2>. QED
    BY <2>6, <2>7, SearchStarts
<1>7. CASE UNCHANGED corridorVars
  <2>1. UNCHANGED <<corridor, attempt, open, gScore, cameFrom, closed, searched>>
    BY <1>7 DEF corridorVars
  <2>2. NothingForgotten' <=> NothingForgotten
    BY <2>1 DEF NothingForgotten, Neighbours
  <2>. QED
    BY <1>1, <2>1, <2>2 DEF CorridorInv
<1>. QED
  BY <1>2, <1>3, <1>4, <1>5, <1>6, <1>7 DEF CorridorNext

(* The route walked back from the goal: one cell further each time. *)
Extended(tail) == IF Head(tail) \in DOMAIN cameFrom THEN <<cameFrom[Head(tail)]>> \o tail ELSE tail

Backs(f, n) ==
    f = [k \in 1..n |->
            IF k = 1 THEN <<corridor.goal>>
            ELSE LET tail == f[k - 1] IN
                 IF Head(tail) \in DOMAIN cameFrom THEN <<cameFrom[Head(tail)]>> \o tail ELSE tail]

(* The walk back is defined for any number of steps. *)
LEMMA BacksExist ==
    ASSUME NEW n \in Nat, n >= 1
    PROVE  \E f : Backs(f, n)
<1>. DEFINE S == {k \in 1..n : \E f : Backs(f, k)}
<1>1. 1 \in S
  <2>. DEFINE f == [k \in 1..1 |-> <<corridor.goal>>]
  <2>1. Backs(f, 1)
    BY DEF Backs
  <2>. QED
    BY <2>1
<1>2. ASSUME NEW k \in 1 + 1..n, k - 1 \in S PROVE k \in S
  <2>1. PICK f : Backs(f, k - 1)
    BY <1>2
  <2>. DEFINE g == [i \in 1..k |-> IF i = k THEN Extended(f[k - 1]) ELSE f[i]]
  <2>2. ASSUME NEW i \in 1..k
        PROVE  g[i] = IF i = 1 THEN <<corridor.goal>> ELSE Extended(g[i - 1])
    <3>1. CASE i = k
      <4>1. k - 1 \in 1..k /\ k - 1 # k /\ k # 1
        OBVIOUS
      <4>2. g[k - 1] = f[k - 1] /\ g[k] = Extended(f[k - 1])
        BY <4>1
      <4>. QED
        BY <3>1, <4>1, <4>2
    <3>2. CASE i # k
      <4>1. i \in 1..k - 1
        BY <3>2
      <4>2. g[i] = f[i]
        BY <3>2
      <4>3. f[i] = IF i = 1 THEN <<corridor.goal>> ELSE Extended(f[i - 1])
        BY <2>1, <4>1 DEF Backs, Extended
      <4>4. i # 1 => g[i - 1] = f[i - 1]
        BY <4>1
      <4>. QED
        BY <4>2, <4>3, <4>4
    <3>. QED
      BY <3>1, <3>2
  <2>3. g = [i \in 1..k |-> g[i]]
    OBVIOUS
  <2>. HIDE DEF g
  <2>4. Backs(g, k)
    BY <2>2, <2>3 DEF Backs, Extended
  <2>. QED
    BY <2>4
<1>3. 1 \in Int /\ n \in Int
  OBVIOUS
<1>. HIDE DEF S
<1>4. n \in S
  BY <1>1, <1>2, <1>3, EveryOne
<1>. QED
  BY <1>4 DEF S

(* A way back from the goal of at most k cells, shorter only at its end. *)
Trail(r, k) ==
    /\ r \in Seq(Cells) /\ Len(r) >= 1 /\ r[Len(r)] = corridor.goal
    /\ \A i \in 1..Len(r) : r[i] \in DOMAIN gScore
    /\ \A i \in 1..Len(r) - 1 : r[i + 1] \in DOMAIN cameFrom /\ cameFrom[r[i + 1]] = r[i]
    /\ r[1] \in DOMAIN cameFrom => Len(r) = k

(* A step back leads on along the way. *)
LEMMA TrailExtends ==
    ASSUME WaysAreSteps, NEW k \in Nat, NEW r, Trail(r, k)
    PROVE  Trail(Extended(r), k + 1)
<1>1. r \in Seq(Cells) /\ Len(r) >= 1 /\ Len(r) \in Nat /\ Head(r) = r[1] /\ r[Len(r)] = corridor.goal
  BY DEF Trail
<1>2. CASE r[1] \notin DOMAIN cameFrom
  BY <1>1, <1>2 DEF Trail, Extended
<1>3. CASE r[1] \in DOMAIN cameFrom
  <2>. DEFINE p == cameFrom[r[1]]
              l == Len(r)
  <2>1. p \in DOMAIN gScore /\ p \in Cells /\ l = k
    BY <1>3 DEF WaysAreSteps, Trail
  <2>2. PICK q : q = <<p>> \o r
    OBVIOUS
  <2>3. Extended(r) = q
    BY <1>1, <1>3, <2>2 DEF Extended
  <2>. HIDE DEF p
  <2>4. q \in Seq(Cells) /\ Len(q) = l + 1 /\ q[1] = p /\ \A i \in 2..l + 1 : q[i] = r[i - 1]
    BY <1>1, <2>1, <2>2
  <2>5. q[l + 1] = corridor.goal
    BY <1>1, <2>4
  <2>6. ASSUME NEW i \in 1..l + 1 PROVE q[i] \in DOMAIN gScore
    <3>1. i = 1 \/ (i \in 2..l + 1 /\ i - 1 \in 1..l)
      BY <1>1
    <3>. QED
      BY <2>1, <2>4, <3>1 DEF Trail
  <2>7. ASSUME NEW i \in 1..l PROVE q[i + 1] \in DOMAIN cameFrom /\ cameFrom[q[i + 1]] = q[i]
    <3>1. q[i + 1] = r[i]
      <4>1. i + 1 \in 2..l + 1 /\ (i + 1) - 1 = i
        BY <1>1
      <4>. QED
        BY <2>4, <4>1
    <3>2. CASE i = 1
      BY <1>3, <2>4, <3>1, <3>2 DEF p
    <3>3. CASE i # 1
      <4>1. i \in 2..l + 1 /\ i - 1 \in 1..l - 1 /\ (i - 1) + 1 = i
        BY <1>1, <3>3
      <4>2. r[i] \in DOMAIN cameFrom /\ cameFrom[r[i]] = r[i - 1]
        <5>1. \A j \in 1..l - 1 : r[j + 1] \in DOMAIN cameFrom /\ cameFrom[r[j + 1]] = r[j]
          BY DEF Trail
        <5>2. r[(i - 1) + 1] \in DOMAIN cameFrom /\ cameFrom[r[(i - 1) + 1]] = r[i - 1]
          BY <4>1, <5>1
        <5>. QED
          BY <4>1, <5>2
      <4>. QED
        BY <2>4, <3>1, <4>1, <4>2
    <3>. QED
      BY <3>2, <3>3
  <2>8. l \in Nat /\ Len(q) = k + 1 /\ (l + 1) - 1 = l
    BY <1>1, <2>1, <2>4
  <2>9. /\ q \in Seq(Cells) /\ Len(q) >= 1 /\ q[Len(q)] = corridor.goal /\ Len(q) = k + 1
        /\ \A i \in 1..Len(q) : q[i] \in DOMAIN gScore
    BY <2>4, <2>5, <2>6, <2>8
  <2>10. \A i \in 1..Len(q) - 1 : q[i + 1] \in DOMAIN cameFrom /\ cameFrom[q[i + 1]] = q[i]
    BY <2>4, <2>7, <2>8
  <2>11. Trail(q, k + 1)
    BY <2>9, <2>10 DEF Trail
  <2>. QED
    BY <2>3, <2>11
<1>. QED
  BY <1>2, <1>3

(* The raster has finitely many cells. *)
LEMMA CellsAreFinite ==
    ASSUME CorridorAssumption
    PROVE  IsFiniteSet(Cells) /\ Cardinality(Cells) \in Nat
<1>1. 0 \in Int /\ Height - 1 \in Int /\ Width - 1 \in Int
  BY DEF CorridorAssumption
<1>2. IsFiniteSet(0..Height - 1) /\ IsFiniteSet(0..Width - 1)
  BY <1>1, FS_Interval
<1>. QED
  BY <1>2, FS_Product, FS_CardinalityType DEF Cells

(* A way back over all the cells has come to the farm: the costs fall along *)
(* it, so it does not come to a cell twice.                                 *)
LEMMA TrailEnds ==
    ASSUME CorridorAssumption, WaysAreSteps, NEW r, Trail(r, Cardinality(Cells))
    PROVE  r[1] = corridor.start
<1>1. r[1] \in DOMAIN gScore /\ DOMAIN gScore = {corridor.start} \cup DOMAIN cameFrom
  BY DEF Trail, WaysAreSteps
<1>. SUFFICES ASSUME r[1] \in DOMAIN cameFrom PROVE FALSE
  BY <1>1
<1>2. PICK n : n = Cardinality(Cells)
  OBVIOUS
<1>3. n \in Nat /\ Len(r) = n /\ r \in Seq(Cells) /\ n >= 1 /\ IsFiniteSet(Cells)
  BY <1>2, CellsAreFinite DEF Trail
<1>4. PICK p : p = cameFrom[r[1]]
  OBVIOUS
<1>. DEFINE g == [i \in 0..n |-> IF i = 0 THEN p ELSE r[i]]
<1>5. ASSUME NEW i \in 0..n PROVE g[i] \in DOMAIN gScore
  <2>1. p \in DOMAIN gScore
    BY <1>4 DEF WaysAreSteps
  <2>2. i = 0 \/ i \in 1..n
    BY <1>3
  <2>. QED
    BY <1>3, <2>1, <2>2 DEF Trail
<1>6. \A i \in 0..n : g[i] \in Cells /\ gScore[g[i]] \in Nat
  BY <1>5 DEF WaysAreSteps
<1>7. ASSUME NEW i \in 1..n PROVE gScore[g[i - 1]] < gScore[g[i]]
  <2>1. i \in 0..n /\ i - 1 \in 0..n
    BY <1>3
  <2>2. g[i] \in DOMAIN cameFrom /\ cameFrom[g[i]] = g[i - 1]
    <3>1. CASE i = 1
      BY <1>4, <2>1, <3>1
    <3>2. CASE i # 1
      <4>1. i - 1 \in 1..Len(r) - 1 /\ (i - 1) + 1 = i /\ g[i] = r[i] /\ g[i - 1] = r[i - 1]
        BY <1>3, <3>2
      <4>. HIDE DEF g
      <4>2. r[(i - 1) + 1] \in DOMAIN cameFrom /\ cameFrom[r[(i - 1) + 1]] = r[i - 1]
        BY <4>1 DEF Trail
      <4>. QED
        BY <4>1, <4>2
    <3>. QED
      BY <3>1, <3>2
  <2>. DEFINE a == g[i - 1]
              b == g[i]
  <2>3. gScore[b] = gScore[a] + StepTo(a, b) /\ b \in Neighbours(a) /\ a \in DOMAIN gScore
    BY <1>5, <2>1, <2>2 DEF WaysAreSteps
  <2>4. StepTo(a, b) \in Nat /\ StepTo(a, b) >= 1
    BY <2>3, StepCosts
  <2>5. gScore[a] \in Nat
    BY <1>6, <2>1
  <2>. HIDE DEF a, b
  <2>6. gScore[a] < gScore[b]
    BY <2>3, <2>4, <2>5
  <2>. QED
    BY <2>6 DEF a, b
<1>8. ASSUME NEW i \in 0..n, NEW j \in 0..n, i < j PROVE g[i] # g[j]
  <2>. DEFINE S == {k \in i + 1..n : gScore[g[i]] < gScore[g[k]]}
  <2>1. i + 1 \in S
    <3>1. i + 1 \in 1..n /\ (i + 1) - 1 = i
      BY <1>3, <1>8
    <3>. HIDE DEF g
    <3>2. gScore[g[(i + 1) - 1]] < gScore[g[i + 1]]
      BY <1>7, <3>1
    <3>. QED
      BY <3>1, <3>2
  <2>. HIDE DEF g
  <2>2. ASSUME NEW k \in (i + 1) + 1..n, k - 1 \in S PROVE k \in S
    <3>1. k \in 1..n /\ k - 1 \in 0..n /\ k \in 0..n /\ k \in i + 1..n
      BY <1>3
    <3>. DEFINE x == gScore[g[i]]
                y == gScore[g[k - 1]]
                z == gScore[g[k]]
    <3>2. x < y /\ y < z /\ x \in Nat /\ y \in Nat /\ z \in Nat
      BY <1>6, <1>7, <2>2, <3>1
    <3>. HIDE DEF x, y, z
    <3>3. x < z
      BY <3>2
    <3>. QED
      BY <3>1, <3>3 DEF x, z
  <2>3. i + 1 \in Int /\ n \in Int /\ j \in i + 1..n
    BY <1>3, <1>8
  <2>. HIDE DEF S
  <2>4. j \in S
    <3>1. PICK l \in Int : l = i + 1
      BY <2>3
    <3>2. \A k \in l..n : k \in S
      BY <2>1, <2>2, <2>3, <3>1, EveryOne
    <3>. QED
      BY <2>3, <3>1, <3>2
  <2>5. gScore[g[i]] < gScore[g[j]] /\ gScore[g[i]] \in Nat
    BY <1>6, <2>4 DEF S
  <2>. QED
    BY <2>5
<1>9. \A i, j \in 0..n : i # j => g[i] # g[j]
  <2>. HIDE DEF g
  <2>1. \A i, j \in 0..n : i # j => i < j \/ j < i
    OBVIOUS
  <2>. QED
    BY <1>8, <2>1
<1>10. g \in [0..n -> Cells]
  BY <1>6
<1>. HIDE DEF g
<1>11. IsFiniteSet(0..n) /\ n < Cardinality(0..n)
  <2>1. 0 \in Int /\ n \in Int /\ ~(0 > n)
    BY <1>3
  <2>. QED
    BY <1>3, <2>1, FS_Interval
<1>. QED
  BY <1>2, <1>3, <1>9, <1>10, <1>11, FS_PigeonHole

(* The route of a search that has found the goal is a way back to the farm. *)
LEMMA RouteIsTrail ==
    ASSUME CorridorAssumption, WaysAreSteps, corridor.goal \in DOMAIN gScore
    PROVE  Trail(Route, Cardinality(Cells)) /\ Route[1] = corridor.start
<1>1. PICK n : n = Cardinality(Cells)
  OBVIOUS
<1>2. corridor.goal \in Cells
  BY DEF WaysAreSteps
<1>3. n \in Nat /\ n >= 1
  <2>1. n # 0
    BY <1>1, <1>2, CellsAreFinite, FS_EmptySet
  <2>. QED
    BY <1>1, <2>1, CellsAreFinite
<1>. DEFINE f == CHOOSE g : Backs(g, n)
<1>4. Backs(f, n)
  BY <1>3, BacksExist
<1>5. Route = f[n]
  BY <1>1 DEF Route, Backs
<1>. HIDE DEF f
<1>6. f[1] = <<corridor.goal>> /\ \A k \in 1 + 1..n : f[k] = Extended(f[k - 1])
  <2>1. \A k \in 1..n : f[k] = IF k = 1 THEN <<corridor.goal>> ELSE Extended(f[k - 1])
    BY <1>4, Zenon DEF Backs, Extended
  <2>2. 1 \in 1..n /\ \A k \in 1 + 1..n : k \in 1..n /\ k # 1
    BY <1>3
  <2>. QED
    BY <2>1, <2>2
<1>. DEFINE S == {k \in Nat : Trail(f[k], k)}
<1>7. 1 \in S
  <2>1. PICK q : q = <<corridor.goal>>
    OBVIOUS
  <2>2. q \in Seq(Cells) /\ Len(q) = 1 /\ q[1] = corridor.goal /\ f[1] = q
    BY <1>2, <1>6, <2>1
  <2>3. \A i \in 1..1 : i = 1
    OBVIOUS
  <2>4. \A i \in 1..1 - 1 : FALSE
    OBVIOUS
  <2>5. Trail(q, 1)
    BY <2>2, <2>3, <2>4 DEF Trail
  <2>. QED
    BY <2>2, <2>5
<1>8. ASSUME NEW k \in 1 + 1..n, k - 1 \in S PROVE k \in S
  <2>1. k - 1 \in Nat /\ (k - 1) + 1 = k /\ k \in Nat /\ Trail(f[k - 1], k - 1)
    BY <1>8
  <2>2. Trail(Extended(f[k - 1]), (k - 1) + 1)
    BY <2>1, TrailExtends
  <2>. QED
    BY <1>6, <2>1, <2>2
<1>. HIDE DEF S
<1>9. n \in S
  <2>1. 1 \in Int /\ n \in Int /\ n \in 1..n
    BY <1>3
  <2>. QED
    BY <1>7, <1>8, <2>1, EveryOne
<1>10. Trail(Route, n)
  BY <1>5, <1>9 DEF S
<1>. QED
  BY <1>1, <1>10, TrailEnds

(* What the invariant says of the cells holds of the route. *)
LEMMA FoundRoutes == CorridorAssumption /\ CorridorInv => RouteIsSound
<1>. SUFFICES ASSUME CorridorAssumption, CorridorInv, searched = "found"
              PROVE  LET r == Route
                         limit == IF MaxDeflection(attempt) < 45 THEN 45 ELSE MaxDeflection(attempt)
                     IN  /\ r[1] = corridor.start
                         /\ \A i \in 1..Len(r) - 1 :
                               /\ Passable(attempt, r[i], r[i + 1])
                               /\ gScore[r[i + 1]] = gScore[r[i]] + StepTo(r[i], r[i + 1])
                         /\ \A i \in 2..Len(r) - 1 : 45 * Bend(r[i - 1], r[i], r[i + 1]) <= limit
  BY DEF CorridorInv, RouteIsSound
<1>1. WaysAreSteps /\ corridor.goal \in DOMAIN gScore
  BY DEF CorridorInv
<1>2. PICK r : r = Route
  OBVIOUS
<1>3. Trail(r, Cardinality(Cells)) /\ r[1] = corridor.start
  BY <1>1, <1>2, RouteIsTrail
<1>4. ASSUME NEW i \in 1..Len(r) - 1
      PROVE  /\ r[i + 1] \in DOMAIN cameFrom /\ cameFrom[r[i + 1]] = r[i]
             /\ r[i] \in DOMAIN gScore /\ r[i + 1] \in Neighbours(r[i])
             /\ Allowed(r[i], r[i + 1])
             /\ gScore[r[i + 1]] = gScore[r[i]] + StepTo(r[i], r[i + 1])
  <2>1. r[i + 1] \in DOMAIN cameFrom /\ cameFrom[r[i + 1]] = r[i]
    BY <1>3 DEF Trail
  <2>2. i \in 1..Len(r)
    BY <1>3 DEF Trail
  <2>3. r[i] \in DOMAIN gScore
    BY <1>3, <2>2 DEF Trail
  <2>. QED
    BY <1>1, <2>1, <2>3 DEF WaysAreSteps
<1>5. ASSUME NEW i \in 1..Len(r) - 1 PROVE Passable(attempt, r[i], r[i + 1])
  BY <1>4 DEF Allowed
<1>. DEFINE limit == IF MaxDeflection(attempt) < 45 THEN 45 ELSE MaxDeflection(attempt)
<1>6. limit \in Nat /\ limit >= 45
  <2>1. MaxDeflection(attempt) \in Nat
    BY <1>1 DEF MaxDeflection, WaysAreSteps, CorridorAssumption
  <2>. QED
    BY <2>1
<1>7. ASSUME NEW i \in 2..Len(r) - 1 PROVE 45 * Bend(r[i - 1], r[i], r[i + 1]) <= limit
  <2>1. i \in 1..Len(r) - 1 /\ i - 1 \in 1..Len(r) - 1 /\ (i - 1) + 1 = i
    BY <1>3 DEF Trail
  <2>2. r[(i - 1) + 1] \in DOMAIN cameFrom /\ cameFrom[r[(i - 1) + 1]] = r[i - 1]
    BY <1>4, <2>1
  <2>3. r[i] \in DOMAIN cameFrom /\ cameFrom[r[i]] = r[i - 1]
    BY <2>1, <2>2
  <2>. DEFINE bend == Bend(cameFrom[r[i]], r[i], r[i + 1])
  <2>4. ~Exceeds(attempt, bend)
    BY <1>4, <2>1, <2>3 DEF Allowed
  <2>5. bend \in 0..4
    BY <1>1, <1>4, <2>1, <2>3, StepCosts
  <2>6. bend = Bend(r[i - 1], r[i], r[i + 1])
    BY <2>3
  <2>7. ~(IF bend = 1 THEN limit = 45 ELSE 45 * bend > limit)
    BY <2>4 DEF Exceeds
  <2>. HIDE DEF bend, limit
  <2>8. 45 * bend <= limit
    BY <1>6, <2>5, <2>7
  <2>. QED
    BY <2>6, <2>8
<1>. QED
  BY <1>2, <1>3, <1>4, <1>5, <1>7

(* A route that is found leads from the farm to the grid by steps and bends *)
(* within the limits, at the cost that was compared, and one is always      *)
(* found.                                                                   *)
THEOREM FoundRoutesAreSound == CorridorSpec => []RouteIsSound
<1>1. CorridorInit => CorridorInv
  BY CorridorStart
<1>2. CorridorInv /\ [CorridorNext]_corridorVars => CorridorInv'
  BY CorridorAssumption, CorridorStep
<1>3. CorridorInv => RouteIsSound
  BY CorridorAssumption, FoundRoutes
<1>. QED
  BY <1>1, <1>2, <1>3, PTL DEF CorridorSpec
=============================================================================
