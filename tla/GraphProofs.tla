----------------------------- MODULE GraphProofs -----------------------------
(***************************************************************************)
(* Shortest paths, connectivity, spanning trees and Steiner trees, for     *)
(* every graph and all terminals.                                          *)
(***************************************************************************)
EXTENDS GraphCompute, SearchProofs, FunctionTheorems

-----------------------------------------------------------------------------
(* Rounds *)

(* The first n steps from the start. *)
Steps(f, St, start, step, n) ==
    f \in [0..n -> St] /\ f[0] = start /\ \A k \in 1..n : f[k] = step[f[k - 1]]

(* Steps can be repeated as often as one likes. *)
LEMMA StepsRepeat ==
    ASSUME NEW St, NEW start \in St, NEW step \in [St -> St], NEW n \in Nat
    PROVE  \E f : Steps(f, St, start, step, n)
<1>. DEFINE S == {m \in 0..n : \E f : Steps(f, St, start, step, m)}
<1>1. 0 \in S
  <2>. DEFINE g == [k \in 0..0 |-> start]
  <2>1. Steps(g, St, start, step, 0)
    BY DEF Steps
  <2>. HIDE DEF g
  <2>. QED
    BY <2>1
<1>2. ASSUME NEW m \in 0 + 1..n, m - 1 \in S PROVE m \in S
  <2>1. PICK f : Steps(f, St, start, step, m - 1)
    BY <1>2
  <2>2. m \in 1..n /\ m - 1 \in 0..m - 1 /\ m \in 0..n
    OBVIOUS
  <2>3. f \in [0..m - 1 -> St] /\ f[0] = start /\ \A k \in 1..m - 1 : f[k] = step[f[k - 1]]
    BY <2>1 DEF Steps
  <2>. DEFINE g == [k \in 0..m |-> IF k = m THEN step[f[m - 1]] ELSE f[k]]
  <2>4. g \in [0..m -> St]
    <3>1. step[f[m - 1]] \in St
      BY <2>2, <2>3
    <3>2. \A k \in 0..m : k # m => k \in 0..m - 1
      BY <2>2
    <3>. QED
      BY <2>3, <3>1, <3>2
  <2>5. g[0] = start
    BY <2>2, <2>3
  <2>6. ASSUME NEW k \in 1..m PROVE g[k] = step[g[k - 1]]
    <3>1. k - 1 \in 0..m /\ k - 1 # m /\ k \in 0..m /\ (k # m => k \in 1..m - 1)
      BY <2>2
    <3>2. g[k - 1] = f[k - 1] /\ g[k] = IF k = m THEN step[f[m - 1]] ELSE f[k]
      BY <3>1
    <3>. QED
      BY <2>3, <3>1, <3>2
  <2>. HIDE DEF g
  <2>7. Steps(g, St, start, step, m)
    BY <2>4, <2>5, <2>6 DEF Steps
  <2>. QED
    BY <2>2, <2>7
<1>. HIDE DEF S
<1>3. n \in S
  BY <1>1, <1>2, EveryOne
<1>. QED
  BY <1>3 DEF S

(* The least number of a set. *)
LEMMA MinIsLeast ==
    ASSUME NEW T, T \subseteq Nat, T # {}
    PROVE  Min(T) \in T /\ \A x \in T : Min(T) <= x
BY LeastOf DEF Min

-----------------------------------------------------------------------------
(* Sums over a set *)

(* What the number k adds to the sum over S. *)
Addend(w, S, k) == IF k \in S THEN w[k] ELSE 0
Addends(w, S, n) == [k \in 1..n |-> Addend(w, S, k)]

(* The sum of w over the numbers of S up to n. *)
Total(w, S, n) == (CHOOSE f : AddsUp(f, n, Addends(w, S, n)))[n]

(* Every number of S has a weight. *)
Weights(w, S) == \A k \in S : w[k] \in Nat

(* The sum is that of what the numbers add, one after the other. *)
LEMMA TotalIsSum ==
    ASSUME NEW w, NEW S, NEW n \in Nat, Weights(w, S)
    PROVE  \E f : /\ Total(w, S, n) = f[n]
                  /\ f \in [0..n -> Int] /\ f[0] = 0
                  /\ \A k \in 1..n : f[k] = f[k - 1] + Addend(w, S, k)
<1>. DEFINE p == Addends(w, S, n)
            f == CHOOSE g : AddsUp(g, n, p)
<1>1. \A k \in 1..n : p[k] = Addend(w, S, k) /\ p[k] \in Int
  BY DEF Addends, Addend, Weights
<1>2. Total(w, S, n) = f[n]
  BY DEF Total
<1>. HIDE DEF p
<1>3. AddsUp(f, n, p) /\ SumTo(f, n, p)
  BY <1>1, SumsAddUp
<1>. HIDE DEF f
<1>. QED
  BY <1>1, <1>2, <1>3 DEF SumTo

(* A sum is one of natural numbers, and over nothing it is zero. *)
LEMMA TotalType ==
    ASSUME NEW w, NEW S, NEW n \in Nat, Weights(w, S)
    PROVE  Total(w, S, n) \in Nat /\ Total(w, {}, n) = 0
<1>1. ASSUME NEW T, Weights(w, T) PROVE Total(w, T, n) \in Nat /\ (T = {} => Total(w, T, n) = 0)
  <2>1. PICK f : /\ Total(w, T, n) = f[n]
                 /\ f \in [0..n -> Int] /\ f[0] = 0
                 /\ \A k \in 1..n : f[k] = f[k - 1] + Addend(w, T, k)
    BY <1>1, TotalIsSum, ZenonT(60)
  <2>. DEFINE Q == {k \in 0..n : f[k] \in Nat /\ (T = {} => f[k] = 0)}
  <2>2. 0 \in Q
    BY <2>1
  <2>3. \A k \in 0 + 1..n : k - 1 \in Q => k \in Q
    <3>. SUFFICES ASSUME NEW k \in 0 + 1..n, k - 1 \in Q PROVE k \in Q
      OBVIOUS
    <3>1. k \in 1..n /\ k \in 0..n
      OBVIOUS
    <3>2. Addend(w, T, k) \in Nat /\ (T = {} => Addend(w, T, k) = 0)
      BY <1>1 DEF Addend, Weights
    <3>3. f[k] = f[k - 1] + Addend(w, T, k) /\ f[k - 1] \in Nat /\ (T = {} => f[k - 1] = 0)
      BY <2>1, <3>1
    <3>. QED
      BY <3>1, <3>2, <3>3
  <2>. HIDE DEF Q
  <2>4. n \in Q
    <3>1. n \in Int /\ 0 \in Int /\ n \in 0..n
      OBVIOUS
    <3>2. \A k \in 0..n : k \in Q
      BY <2>2, <2>3, <3>1, EveryOne
    <3>. QED
      BY <3>1, <3>2
  <2>. QED
    BY <2>1, <2>4 DEF Q
<1>2. Weights(w, {})
  BY DEF Weights
<1>. QED
  BY <1>1, <1>2

(* A sum that differs at i only differs by as much. *)
LEMMA TotalDiffers ==
    ASSUME NEW w, NEW S, NEW v, NEW R, NEW n \in Nat, Weights(w, S), Weights(v, R),
           NEW i \in 1..n, \A k \in 1..n : k # i => Addend(v, R, k) = Addend(w, S, k)
    PROVE  Total(v, R, n) = Total(w, S, n) - Addend(w, S, i) + Addend(v, R, i)
<1>1. PICK f : /\ Total(w, S, n) = f[n]
               /\ f \in [0..n -> Int] /\ f[0] = 0
               /\ \A k \in 1..n : f[k] = f[k - 1] + Addend(w, S, k)
  BY TotalIsSum, ZenonT(60)
<1>2. PICK h : /\ Total(v, R, n) = h[n]
               /\ h \in [0..n -> Int] /\ h[0] = 0
               /\ \A k \in 1..n : h[k] = h[k - 1] + Addend(v, R, k)
  BY TotalIsSum, ZenonT(60)
<1>. DEFINE d == Addend(v, R, i) - Addend(w, S, i)
            Q == {k \in 0..n : h[k] = f[k] + IF k >= i THEN d ELSE 0}
<1>3. \A k \in 1..n : Addend(w, S, k) \in Nat /\ Addend(v, R, k) \in Nat
  BY DEF Addend, Weights
<1>4. 0 \in Q
  BY <1>1, <1>2
<1>5. \A k \in 0 + 1..n : k - 1 \in Q => k \in Q
  <2>. SUFFICES ASSUME NEW k \in 0 + 1..n, k - 1 \in Q PROVE k \in Q
    OBVIOUS
  <2>1. k \in 1..n /\ k \in 0..n /\ k - 1 \in 0..n
    OBVIOUS
  <2>2. h[k - 1] = f[k - 1] + IF k - 1 >= i THEN d ELSE 0
    OBVIOUS
  <2>3. /\ f[k] = f[k - 1] + Addend(w, S, k) /\ h[k] = h[k - 1] + Addend(v, R, k)
        /\ f[k - 1] \in Int /\ f[k] \in Int /\ h[k] \in Int /\ h[k - 1] \in Int
    BY <1>1, <1>2, <2>1
  <2>4. Addend(w, S, k) \in Nat /\ Addend(v, R, k) \in Nat
    BY <1>3, <2>1
  <2>5. CASE k = i
    <3>1. h[k - 1] = f[k - 1]
      BY <2>2, <2>3, <2>5
    <3>2. h[k] = f[k] + d
      BY <2>3, <2>4, <2>5, <3>1
    <3>. QED
      BY <2>1, <2>5, <3>2
  <2>6. CASE k # i
    <3>1. k - 1 >= i <=> k >= i
      BY <2>1, <2>6
    <3>2. Addend(v, R, k) = Addend(w, S, k)
      BY <2>1, <2>6
    <3>. DEFINE e == IF k >= i THEN d ELSE 0
    <3>3. h[k - 1] = f[k - 1] + e /\ e \in Int
      BY <1>3, <2>2, <3>1
    <3>4. h[k] = f[k] + e
      <4>. HIDE DEF e
      <4>. QED
        BY <2>3, <2>4, <3>2, <3>3
    <3>. QED
      BY <2>1, <3>4
  <2>. QED
    BY <2>5, <2>6
<1>. HIDE DEF Q
<1>6. n \in Q
  <2>1. n \in Int /\ 0 \in Int /\ n \in 0..n
    OBVIOUS
  <2>2. \A k \in 0..n : k \in Q
    BY <1>4, <1>5, <2>1, EveryOne
  <2>. QED
    BY <2>1, <2>2
<1>7. n >= i /\ h[n] \in Int /\ f[n] \in Int /\ Addend(w, S, i) \in Nat /\ Addend(v, R, i) \in Nat
  BY <1>1, <1>2, <1>3
<1>. QED
  BY <1>1, <1>2, <1>6, <1>7 DEF Q

(* A sum whose every part is within two others is within their sum. *)
LEMMA TotalWithin ==
    ASSUME NEW u, NEW R, NEW v, NEW S, NEW w, NEW T, NEW n \in Nat,
           Weights(u, R), Weights(v, S), Weights(w, T),
           \A k \in 1..n : Addend(u, R, k) <= Addend(v, S, k) + Addend(w, T, k)
    PROVE  Total(u, R, n) <= Total(v, S, n) + Total(w, T, n)
<1>1. PICK f : /\ Total(u, R, n) = f[n]
               /\ f \in [0..n -> Int] /\ f[0] = 0
               /\ \A k \in 1..n : f[k] = f[k - 1] + Addend(u, R, k)
  BY TotalIsSum, ZenonT(60)
<1>2. PICK g : /\ Total(v, S, n) = g[n]
               /\ g \in [0..n -> Int] /\ g[0] = 0
               /\ \A k \in 1..n : g[k] = g[k - 1] + Addend(v, S, k)
  BY TotalIsSum, ZenonT(60)
<1>3. PICK h : /\ Total(w, T, n) = h[n]
               /\ h \in [0..n -> Int] /\ h[0] = 0
               /\ \A k \in 1..n : h[k] = h[k - 1] + Addend(w, T, k)
  BY TotalIsSum, ZenonT(60)
<1>. DEFINE Q == {k \in 0..n : f[k] <= g[k] + h[k]}
<1>4. \A k \in 1..n : Addend(u, R, k) \in Nat /\ Addend(v, S, k) \in Nat /\ Addend(w, T, k) \in Nat
  BY DEF Addend, Weights
<1>5. 0 \in Q
  BY <1>1, <1>2, <1>3
<1>6. \A k \in 0 + 1..n : k - 1 \in Q => k \in Q
  <2>. SUFFICES ASSUME NEW k \in 0 + 1..n, k - 1 \in Q PROVE k \in Q
    OBVIOUS
  <2>1. k \in 1..n /\ k \in 0..n /\ k - 1 \in 0..n
    OBVIOUS
  <2>2. /\ f[k] = f[k - 1] + Addend(u, R, k) /\ g[k] = g[k - 1] + Addend(v, S, k)
        /\ h[k] = h[k - 1] + Addend(w, T, k)
        /\ f[k - 1] \in Int /\ g[k - 1] \in Int /\ h[k - 1] \in Int
    BY <1>1, <1>2, <1>3, <2>1
  <2>3. Addend(u, R, k) \in Nat /\ Addend(v, S, k) \in Nat /\ Addend(w, T, k) \in Nat
        /\ Addend(u, R, k) <= Addend(v, S, k) + Addend(w, T, k)
    BY <1>4, <2>1
  <2>4. f[k - 1] <= g[k - 1] + h[k - 1]
    OBVIOUS
  <2>. QED
    BY <2>1, <2>2, <2>3, <2>4
<1>. HIDE DEF Q
<1>7. n \in Q
  <2>1. n \in Int /\ 0 \in Int /\ n \in 0..n
    OBVIOUS
  <2>2. \A k \in 0..n : k \in Q
    BY <1>5, <1>6, <2>1, EveryOne
  <2>. QED
    BY <2>1, <2>2
<1>. QED
  BY <1>1, <1>2, <1>3, <1>7 DEF Q

(* One more number adds its weight. *)
LEMMA TotalOfMore ==
    ASSUME NEW w, NEW S, NEW n \in Nat, NEW i \in 1..n, i \notin S, Weights(w, S \cup {i})
    PROVE  Total(w, S \cup {i}, n) = Total(w, S, n) + w[i]
<1>1. Weights(w, S) /\ w[i] \in Nat
  BY DEF Weights
<1>2. \A k \in 1..n : k # i => Addend(w, S \cup {i}, k) = Addend(w, S, k)
  BY DEF Addend
<1>3. Addend(w, S, i) = 0 /\ Addend(w, S \cup {i}, i) = w[i]
  BY DEF Addend
<1>4. Total(w, S \cup {i}, n) = Total(w, S, n) - Addend(w, S, i) + Addend(w, S \cup {i}, i)
  <2>. DEFINE R == S \cup {i}
  <2>. HIDE DEF R
  <2>1. Weights(w, R) /\ \A k \in 1..n : k # i => Addend(w, R, k) = Addend(w, S, k)
    BY <1>2 DEF R
  <2>2. Total(w, R, n) = Total(w, S, n) - Addend(w, S, i) + Addend(w, R, i)
    BY <1>1, <2>1, TotalDiffers
  <2>. QED
    BY <2>2 DEF R
<1>5. Total(w, S, n) \in Nat
  BY <1>1, TotalType
<1>. QED
  BY <1>1, <1>3, <1>4, <1>5

(* Two sets together add up to no more than each for itself. *)
LEMMA TotalOfBoth ==
    ASSUME NEW w, NEW S, NEW T, NEW n \in Nat, Weights(w, S \cup T)
    PROVE  Total(w, S \cup T, n) <= Total(w, S, n) + Total(w, T, n)
<1>1. Weights(w, S) /\ Weights(w, T)
  BY DEF Weights
<1>2. \A k \in 1..n : Addend(w, S \cup T, k) <= Addend(w, S, k) + Addend(w, T, k)
  BY DEF Addend, Weights
<1>. QED
  <2>. DEFINE R == S \cup T
  <2>. HIDE DEF R
  <2>1. Weights(w, R) /\ \A k \in 1..n : Addend(w, R, k) <= Addend(w, S, k) + Addend(w, T, k)
    BY <1>2 DEF R
  <2>2. Total(w, R, n) <= Total(w, S, n) + Total(w, T, n)
    BY <1>1, <2>1, TotalWithin
  <2>. QED
    BY <2>2 DEF R

(* Fewer numbers add up to no more. *)
LEMMA TotalOfFewer ==
    ASSUME NEW w, NEW S, NEW T, S \subseteq T, NEW n \in Nat, Weights(w, T)
    PROVE  Total(w, S, n) <= Total(w, T, n)
<1>1. Weights(w, S) /\ Weights(w, {})
  BY DEF Weights
<1>2. \A k \in 1..n : Addend(w, S, k) <= Addend(w, T, k) + Addend(w, {}, k)
  BY DEF Addend, Weights
<1>3. Total(w, S, n) <= Total(w, T, n) + Total(w, {}, n)
  BY <1>1, <1>2, TotalWithin
<1>4. Total(w, {}, n) = 0 /\ Total(w, T, n) \in Nat
  BY TotalType
<1>. QED
  BY <1>3, <1>4

(* A sum that differs at i and j only differs by as much. *)
LEMMA TotalDiffersTwice ==
    ASSUME NEW w, NEW S, NEW v, NEW R, NEW n \in Nat, Weights(w, S), Weights(v, R),
           NEW i \in 1..n, NEW j \in 1..n, i # j,
           \A k \in 1..n : k # i /\ k # j => Addend(v, R, k) = Addend(w, S, k)
    PROVE  Total(v, R, n) + Addend(w, S, i) + Addend(w, S, j)
             = Total(w, S, n) + Addend(v, R, i) + Addend(v, R, j)
<1>. DEFINE N == 1..n
            u == [k \in N |-> IF k = i THEN Addend(v, R, i) ELSE Addend(w, S, k)]
<1>1. \A k \in 1..n : Addend(w, S, k) \in Nat /\ Addend(v, R, k) \in Nat
  BY DEF Addend, Weights
<1>2. Weights(u, N)
  BY <1>1 DEF Weights
<1>3. \A k \in 1..n : Addend(u, N, k) = IF k = i THEN Addend(v, R, i) ELSE Addend(w, S, k)
  BY DEF Addend
<1>. HIDE DEF u, N
<1>4. Total(u, N, n) = Total(w, S, n) - Addend(w, S, i) + Addend(u, N, i)
  <2>1. \A k \in 1..n : k # i => Addend(u, N, k) = Addend(w, S, k)
    BY <1>3
  <2>. QED
    BY <1>2, <2>1, TotalDiffers
<1>5. Total(v, R, n) = Total(u, N, n) - Addend(u, N, j) + Addend(v, R, j)
  <2>1. \A k \in 1..n : k # j => Addend(v, R, k) = Addend(u, N, k)
    BY <1>3
  <2>. QED
    BY <1>2, <2>1, TotalDiffers
<1>6. Total(w, S, n) \in Nat /\ Total(u, N, n) \in Nat /\ Total(v, R, n) \in Nat
  BY <1>2, TotalType
<1>7. Addend(u, N, i) = Addend(v, R, i) /\ Addend(u, N, j) = Addend(w, S, j)
  BY <1>3
<1>. QED
  BY <1>1, <1>4, <1>5, <1>6, <1>7

(* The sets of all the numbers of S. *)
Together(h, S) == UNION {h[k] : k \in S}

(* What is made of sets adds up to no more than the sets weigh. *)
LEMMA TotalOfUnion ==
    ASSUME NEW w, NEW S, NEW n \in Nat, S \subseteq 1..n, Weights(w, S),
           NEW v, NEW N \in Nat, NEW h,
           \A k \in S : Weights(v, h[k]) /\ Total(v, h[k], N) <= w[k]
    PROVE  Total(v, Together(h, S), N) <= Total(w, S, n)
<1>. DEFINE Upto(k) == UNION {h[j] : j \in {i \in S : i <= k}}
            t(k) == Total(v, Upto(k), N)
<1>1. PICK f : /\ Total(w, S, n) = f[n]
               /\ f \in [0..n -> Int] /\ f[0] = 0
               /\ \A k \in 1..n : f[k] = f[k - 1] + Addend(w, S, k)
  BY TotalIsSum, ZenonT(60)
<1>. DEFINE Q == {k \in 0..n : t(k) <= f[k]}
<1>2. \A k : Weights(v, Upto(k))
  BY DEF Weights
<1>3. \A k : t(k) \in Nat
  <2>. SUFFICES ASSUME NEW k PROVE t(k) \in Nat
    OBVIOUS
  <2>. DEFINE U == Upto(k)
  <2>1. Weights(v, U)
    BY <1>2
  <2>. HIDE DEF U
  <2>2. Total(v, U, N) \in Nat
    BY <2>1, TotalType
  <2>. QED
    BY <2>2 DEF U
<1>. DEFINE Firsts(k) == {i \in S : i <= k}
<1>0. \A i \in S : i \in Int /\ 1 <= i /\ i <= n
  OBVIOUS
<1>4. Upto(0) = {}
  <2>1. \A i \in S : ~(i <= 0)
    BY <1>0
  <2>2. Firsts(0) = {}
    BY <2>1, Zenon
  <2>. QED
    BY <2>2
<1>5. 0 \in Q
  <2>1. Total(v, {}, N) = 0
    <3>. DEFINE U == Upto(0)
    <3>1. Weights(v, U)
      BY <1>2
    <3>. HIDE DEF U
    <3>. QED
      BY <3>1, TotalType
  <2>2. t(0) = 0 /\ f[0] = 0 /\ 0 \in 0..n
    <3>1. t(0) = 0
      BY <1>4, <2>1
    <3>. QED
      BY <1>1, <3>1
  <2>. HIDE DEF t
  <2>. QED
    BY <2>2
<1>6. \A k \in 0 + 1..n : k - 1 \in Q => k \in Q
  <2>. SUFFICES ASSUME NEW k \in 0 + 1..n, k - 1 \in Q PROVE k \in Q
    OBVIOUS
  <2>1. k \in 1..n /\ k \in 0..n /\ k - 1 \in 0..n /\ k \in Int
    OBVIOUS
  <2>2. t(k - 1) <= f[k - 1] /\ f[k - 1] \in Int /\ f[k] \in Int /\ f[k] = f[k - 1] + Addend(w, S, k)
    BY <1>1, <2>1
  <2>3. t(k) \in Nat /\ t(k - 1) \in Nat
    BY <1>3
  <2>4. CASE k \in S
    <3>. DEFINE U == Upto(k - 1)
                R == h[k]
    <3>1. Upto(k) = U \cup R
      <4>1. \A i \in S : i <= k <=> i <= k - 1 \/ i = k
        BY <1>0, <2>1
      <4>2. Firsts(k) = Firsts(k - 1) \cup {k}
        BY <2>4, <4>1
      <4>. QED
        BY <4>2
    <3>2. Weights(v, U \cup R) /\ Weights(v, R)
      <4>1. Weights(v, U) /\ Weights(v, R)
        BY <1>2, <2>4
      <4>. HIDE DEF U, R
      <4>. QED
        BY <4>1 DEF Weights
    <3>3. Total(v, R, N) <= w[k] /\ w[k] \in Nat
      BY <2>4 DEF Weights
    <3>4. Addend(w, S, k) = w[k]
      BY <2>4 DEF Addend
    <3>5. t(k) = Total(v, U \cup R, N) /\ t(k - 1) = Total(v, U, N)
      BY <3>1
    <3>. HIDE DEF U, R, t
    <3>6. Total(v, U \cup R, N) <= Total(v, U, N) + Total(v, R, N) /\ Total(v, R, N) \in Nat
      <4>1. Total(v, U \cup R, N) <= Total(v, U, N) + Total(v, R, N)
        BY <3>2, TotalOfBoth
      <4>2. Total(v, R, N) \in Nat
        BY <3>2, TotalType
      <4>. QED
        BY <4>1, <4>2
    <3>7. t(k) <= f[k]
      BY <2>2, <2>3, <3>3, <3>4, <3>5, <3>6
    <3>. QED
      BY <2>1, <3>7
  <2>5. CASE k \notin S
    <3>1. Upto(k) = Upto(k - 1)
      <4>1. \A i \in S : i <= k <=> i <= k - 1
        BY <1>0, <2>1, <2>5
      <4>2. Firsts(k) = Firsts(k - 1)
        BY <4>1
      <4>. QED
        BY <4>2
    <3>2. Addend(w, S, k) = 0
      BY <2>5 DEF Addend
    <3>3. t(k) = t(k - 1)
      BY <3>1
    <3>. HIDE DEF t
    <3>4. t(k) <= f[k]
      BY <2>2, <2>3, <3>2, <3>3
    <3>. QED
      BY <2>1, <3>4
  <2>. QED
    BY <2>4, <2>5
<1>. HIDE DEF Q
<1>7. n \in Q
  <2>1. n \in Int /\ 0 \in Int /\ n \in 0..n
    OBVIOUS
  <2>2. \A k \in 0..n : k \in Q
    BY <1>5, <1>6, <2>1, EveryOne
  <2>. QED
    BY <2>1, <2>2
<1>8. Upto(n) = Together(h, S)
  <2>1. Firsts(n) = S
    BY <1>0
  <2>. QED
    BY <2>1 DEF Together
<1>. QED
  BY <1>1, <1>7, <1>8 DEF Q

(* One number alone adds up to its weight. *)
LEMMA TotalOfOne ==
    ASSUME NEW w, NEW n \in Nat, NEW i \in 1..n, w[i] \in Nat
    PROVE  Weights(w, {i}) /\ Total(w, {i}, n) = w[i]
<1>. DEFINE none == {}
            one == none \cup {i}
<1>1. Weights(w, none) /\ Weights(w, one)
  BY DEF Weights
<1>2. i \notin none /\ one = {i} /\ none = {}
  OBVIOUS
<1>. HIDE DEF none
<1>3. Total(w, one, n) = Total(w, none, n) + w[i]
  BY <1>1, <1>2, TotalOfMore
<1>4. Total(w, {}, n) = 0
  BY <1>1, TotalType
<1>. HIDE DEF one
<1>5. Total(w, one, n) = w[i]
  BY <1>2, <1>3, <1>4
<1>6. Weights(w, {i})
  BY <1>1, <1>2
<1>. QED
  BY <1>2, <1>5, <1>6

(* All of them add up to their sum. *)
LEMMA TotalOfAll ==
    ASSUME NEW w, NEW n \in Nat, \A k \in 1..n : w[k] \in Nat, NEW g, SumTo(g, n, w)
    PROVE  Weights(w, 1..n) /\ Total(w, 1..n, n) = g[n]
<1>. DEFINE S == 1..n
<1>1. Weights(w, S)
  BY DEF Weights
<1>2. \A k \in 1..n : Addend(w, S, k) = w[k]
  BY DEF Addend
<1>3. g \in [0..n -> Int] /\ g[0] = 0 /\ \A k \in 1..n : g[k] = g[k - 1] + w[k]
  BY DEF SumTo
<1>. HIDE DEF S
<1>4. PICK f : /\ Total(w, S, n) = f[n]
               /\ f \in [0..n -> Int] /\ f[0] = 0
               /\ \A k \in 1..n : f[k] = f[k - 1] + Addend(w, S, k)
  BY <1>1, TotalIsSum, ZenonT(60)
<1>. DEFINE Q == {k \in 0..n : f[k] = g[k]}
<1>5. 0 \in Q
  BY <1>3, <1>4
<1>6. \A k \in 0 + 1..n : k - 1 \in Q => k \in Q
  <2>. SUFFICES ASSUME NEW k \in 0 + 1..n, k - 1 \in Q PROVE k \in Q
    OBVIOUS
  <2>1. k \in 1..n /\ k \in 0..n
    OBVIOUS
  <2>2. f[k] = f[k - 1] + w[k] /\ g[k] = g[k - 1] + w[k] /\ f[k - 1] = g[k - 1]
    BY <1>2, <1>3, <1>4, <2>1
  <2>. QED
    BY <2>1, <2>2
<1>. HIDE DEF Q
<1>7. n \in Q
  <2>1. n \in Int /\ 0 \in Int /\ n \in 0..n
    OBVIOUS
  <2>2. \A k \in 0..n : k \in Q
    BY <1>5, <1>6, <2>1, EveryOne
  <2>. QED
    BY <2>1, <2>2
<1>8. Total(w, S, n) = g[n]
  BY <1>4, <1>7 DEF Q
<1>. QED
  BY <1>1, <1>8 DEF S

-----------------------------------------------------------------------------
(* Graphs *)

Edge == [u : Nodes, v : Nodes, w : Nat]

(* What two nodes are apart, if an edge joins them. *)
Adjacent(edges, a, b) == WeightsBetween(edges, a, b) # {}
Length(edges, a, b) == Min(WeightsBetween(edges, a, b))

(* An edge leads both ways, at no negative cost. *)
LEMMA EdgesLeadBack ==
    ASSUME NEW edges \in Seq(Edge), NEW a, NEW b
    PROVE  /\ Adjacent(edges, a, b) <=> Adjacent(edges, b, a)
           /\ Length(edges, a, b) = Length(edges, b, a)
           /\ Adjacent(edges, a, b) =>
                 /\ a \in Nodes /\ b \in Nodes
                 /\ Length(edges, a, b) \in Nat
                 /\ Length(edges, a, b) \in WeightsBetween(edges, a, b)
<1>1. WeightsBetween(edges, a, b) = WeightsBetween(edges, b, a)
  BY DEF WeightsBetween, IsBetween
<1>2. \A i \in DOMAIN edges : edges[i] \in Edge
  OBVIOUS
<1>3. WeightsBetween(edges, a, b) \subseteq Nat
  BY <1>2 DEF WeightsBetween, Edge
<1>4. WeightsBetween(edges, a, b) # {} => a \in Nodes /\ b \in Nodes
  BY <1>2 DEF WeightsBetween, Edge, IsBetween
<1>. QED
  BY <1>1, <1>3, <1>4, MinIsLeast DEF Adjacent, Length

(* The nodes are finitely many. *)
LEMMA NodesFinite ==
    ASSUME GraphAssumption
    PROVE  /\ NodeCount \in Nat /\ NodeCount >= 1
           /\ IsFiniteSet(Nodes) /\ Cardinality(Nodes) = NodeCount
<1>1. NodeCount \in Nat /\ NodeCount >= 1
  BY DEF GraphAssumption
<1>. QED
  BY <1>1, FS_Interval DEF Nodes

-----------------------------------------------------------------------------
(* Dijkstra *)

States ==
    [dist : [Nodes -> Nat \cup {Infinity}], prev : [Nodes -> Nodes \cup {-1}],
     heap : SUBSET [cost : Nat, node : Nodes]]

(* The heap has a first entry. *)
LEMMA PopIsFirst ==
    ASSUME NodeCount \in Nat, NEW heap \in SUBSET [cost : Nat, node : Nodes], heap # {}
    PROVE  /\ Pop(heap) \in heap
           /\ \A t \in heap : Pop(heap).cost <= t.cost
<1>. DEFINE costs == {t.cost : t \in heap}
<1>1. PICK c \in costs : \A d \in costs : c <= d
  <2>1. costs \subseteq Nat /\ costs # {}
    OBVIOUS
  <2>. HIDE DEF costs
  <2>. QED
    BY <2>1, LeastOf
<1>2. \A t \in heap : c <= t.cost
  BY <1>1
<1>. DEFINE rests == {NodeCount - t.node : t \in {x \in heap : x.cost = c}}
<1>3. PICK g \in rests : \A h \in rests : g <= h
  <2>1. rests \subseteq Nat /\ rests # {}
    <3>1. \A t \in heap : NodeCount - t.node \in Nat
      BY DEF Nodes
    <3>. QED
      BY <1>1, <3>1
  <2>. HIDE DEF rests
  <2>. QED
    BY <2>1, LeastOf
<1>4. PICK s \in heap : s.cost = c /\ g = NodeCount - s.node
  BY <1>3
<1>5. ASSUME NEW t \in heap PROVE s.cost < t.cost \/ (s.cost = t.cost /\ s.node >= t.node)
  <2>1. s.cost \in Nat /\ t.cost \in Nat /\ s.node \in Int /\ t.node \in Int /\ c <= t.cost
    BY <1>2 DEF Nodes
  <2>2. t.cost = c => g <= NodeCount - t.node
    BY <1>3
  <2>. QED
    BY <1>4, <2>1, <2>2
<1>6. /\ Pop(heap) \in heap
      /\ \A t \in heap : Pop(heap).cost < t.cost \/ (Pop(heap).cost = t.cost /\ Pop(heap).node >= t.node)
  BY <1>5 DEF Pop
<1>7. Pop(heap).cost \in Nat /\ \A t \in heap : t.cost \in Nat
  BY <1>6
<1>. QED
  BY <1>6, <1>7

(* The state of a search that has relaxed the nodes of done. *)
Searched(edges, source, st, done) ==
    /\ st \in States /\ IsFiniteSet(st.heap) /\ done \subseteq Nodes
    /\ st.dist[source] = 0
    /\ \A e \in st.heap :
          /\ st.dist[e.node] # Infinity /\ st.dist[e.node] <= e.cost
          /\ e.node \in done => st.dist[e.node] < e.cost
          /\ \A c \in done : st.dist[c] <= e.cost
    /\ \A v \in Nodes \ done : st.dist[v] # Infinity => [cost |-> st.dist[v], node |-> v] \in st.heap
    /\ \A c \in done :
          /\ st.dist[c] # Infinity
          /\ \A v \in Nodes : Adjacent(edges, c, v) =>
                st.dist[v] # Infinity /\ st.dist[v] <= st.dist[c] + Length(edges, c, v)

(* The nodes on the way to v were relaxed, each after the one before. *)
IsTrail(edges, source, st, done, v, p) ==
    \E m \in Nat \ {0} :
        /\ p \in [1..m -> Nodes] /\ p[1] = source /\ p[m] = v
        /\ \A i, j \in 1..m : p[i] = p[j] => i = j
        /\ \A i \in 1..m - 1 :
              /\ p[i] \in done /\ Adjacent(edges, p[i], p[i + 1])
              /\ st.prev[p[i + 1]] = p[i]
              /\ st.dist[p[i + 1]] = st.dist[p[i]] + Length(edges, p[i], p[i + 1])

Trailed(edges, source, st, done) ==
    \A v \in Nodes : st.dist[v] # Infinity => \E p : IsTrail(edges, source, st, done, v, p)

(* The heap grows by fewer entries than there are nodes, once per node. *)
Fueled(st, done, k) ==
    st.heap # {} =>
        Cardinality(st.heap) + NodeCount * (NodeCount - Cardinality(done)) + k
            <= NodeCount * NodeCount + 1

(* Nothing but the source has been reached. *)
LEMMA DijkstraStarts ==
    ASSUME GraphAssumption, NEW edges \in Seq(Edge), NEW source \in Nodes
    PROVE  /\ Searched(edges, source, Unreached(source), {})
           /\ Trailed(edges, source, Unreached(source), {})
           /\ Fueled(Unreached(source), {}, 0)
<1>. DEFINE st == Unreached(source)
            e == [cost |-> 0, node |-> source]
<1>1. /\ st.heap = {e} /\ \A v \in Nodes : st.dist[v] = IF v = source THEN 0 ELSE -1
      /\ st \in States
  BY DEF Unreached, States, Infinity
<1>2. IsFiniteSet(st.heap) /\ Cardinality(st.heap) = 1 /\ Cardinality({}) = 0
  <2>. HIDE DEF e, st
  <2>1. IsFiniteSet({e}) /\ Cardinality({e}) = 1
    BY FS_Singleton, Zenon
  <2>2. Cardinality({}) = 0
    BY FS_EmptySet, Zenon
  <2>. QED
    BY <1>1, <2>1, <2>2
<1>. HIDE DEF st
<1>3. Searched(edges, source, st, {})
  BY <1>1, <1>2 DEF Searched, Infinity
<1>4. ASSUME NEW v \in Nodes, st.dist[v] # Infinity PROVE \E p : IsTrail(edges, source, st, {}, v, p)
  <2>1. v = source
    BY <1>1, <1>4 DEF Infinity
  <2>. DEFINE p == [i \in 1..1 |-> source]
  <2>2. /\ 1 \in Nat \ {0} /\ p \in [1..1 -> Nodes] /\ p[1] = source /\ p[1] = v
        /\ \A i, j \in 1..1 : p[i] = p[j] => i = j
        /\ 1..1 - 1 = {}
    BY <2>1
  <2>. HIDE DEF p
  <2>3. IsTrail(edges, source, st, {}, v, p)
    BY <2>2 DEF IsTrail
  <2>. QED
    BY <2>3
<1>5. Fueled(st, {}, 0)
  BY <1>2, NodesFinite DEF Fueled
<1>6. Trailed(edges, source, st, {})
  BY <1>4 DEF Trailed
<1>. QED
  BY <1>3, <1>5, <1>6 DEF st

(* The nodes that the search reaches at less cost through u, and the cost. *)
Far(edges, st, u, v) == st.dist[u] + Length(edges, u, v)
Better(edges, st, done, u) ==
    {v \in Nodes : /\ u \notin done /\ Adjacent(edges, u, v)
                   /\ st.dist[v] = Infinity \/ Far(edges, st, u, v) < st.dist[v]}
Pushed(edges, st, done, u) ==
    {[cost |-> Far(edges, st, u, v), node |-> v] : v \in Better(edges, st, done, u)}

(* The entry s is stale, or its node is relaxed. *)
Relaxes(edges, st, done, s, next) ==
    LET u == s.node
        better == Better(edges, st, done, u)
    IN /\ s \in st.heap /\ u \in Nodes /\ s.cost \in Nat
       /\ \A t \in st.heap : s.cost <= t.cost
       /\ u \notin done => s.cost = st.dist[u]
       /\ next \in States
       /\ \A v \in Nodes :
             /\ next.dist[v] = IF v \in better THEN Far(edges, st, u, v) ELSE st.dist[v]
             /\ next.prev[v] = IF v \in better THEN u ELSE st.prev[v]
       /\ next.heap = (st.heap \ {s}) \cup Pushed(edges, st, done, u)

(* A round takes the first entry. *)
LEMMA RoundDoes ==
    ASSUME GraphAssumption, NEW edges \in Seq(Edge), NEW source \in Nodes,
           NEW st, NEW done, Searched(edges, source, st, done), st.heap # {}
    PROVE  Relaxes(edges, st, done, Pop(st.heap), Round(edges, st))
<1>. DEFINE s == Pop(st.heap)
            u == s.node
            better == Better(edges, st, done, u)
            chosen == {v \in Nodes : s.cost <= st.dist[u] /\ Improves(edges, st, s, v)}
            cost(v) == s.cost + Length(edges, u, v)
<1>1. st \in States /\ st.heap \in SUBSET [cost : Nat, node : Nodes] /\ NodeCount \in Nat
  BY NodesFinite DEF Searched, States
<1>2. s \in st.heap /\ \A t \in st.heap : s.cost <= t.cost
  BY <1>1, PopIsFirst
<1>3. s.cost \in Nat /\ u \in Nodes
  BY <1>1, <1>2
<1>. HIDE DEF s, u
<1>4. st.dist[u] \in Nat /\ st.dist[u] <= s.cost /\ (u \in done => st.dist[u] < s.cost)
  BY <1>1, <1>2, <1>3 DEF Searched, States, Infinity, u
<1>5. u \notin done => s.cost = st.dist[u]
  <2>. SUFFICES ASSUME u \notin done PROVE s.cost = st.dist[u]
    OBVIOUS
  <2>. DEFINE own == [cost |-> st.dist[u], node |-> u]
  <2>1. own \in st.heap
    BY <1>3, <1>4 DEF Searched, Infinity
  <2>2. own.cost = st.dist[u]
    OBVIOUS
  <2>3. s.cost <= st.dist[u]
    BY <1>2, <2>1, <2>2
  <2>. QED
    BY <1>3, <1>4, <2>3
<1>6. s.cost <= st.dist[u] <=> u \notin done
  BY <1>3, <1>4, <1>5
<1>7. \A v \in Nodes : Improves(edges, st, s, v) <=>
          /\ Adjacent(edges, u, v)
          /\ st.dist[v] = Infinity \/ s.cost + Length(edges, u, v) < st.dist[v]
  BY DEF Improves, Adjacent, Length, u
<1>8. chosen = better
  BY <1>5, <1>6, <1>7 DEF Better, Far
<1>9. Round(edges, st) =
        [dist |-> [v \in Nodes |-> IF v \in chosen THEN cost(v) ELSE st.dist[v]],
         prev |-> [v \in Nodes |-> IF v \in chosen THEN u ELSE st.prev[v]],
         heap |-> (st.heap \ {s}) \cup {[cost |-> cost(v), node |-> v] : v \in chosen}]
  BY DEF Round, Relax, Length, s, u
<1>10. \A v \in better : cost(v) = Far(edges, st, u, v) /\ cost(v) \in Nat
  BY <1>3, <1>5, EdgesLeadBack DEF Better, Far
<1>. HIDE DEF chosen, better, cost
<1>11. {[cost |-> cost(v), node |-> v] : v \in chosen}
         = Pushed(edges, st, done, u)
  BY <1>8, <1>10 DEF Pushed, better
<1>12. better \subseteq Nodes
  BY DEF better, Better
<1>13. Round(edges, st) \in States
  <2>1. [v \in Nodes |-> IF v \in chosen THEN cost(v) ELSE st.dist[v]] \in [Nodes -> Nat \cup {Infinity}]
    BY <1>1, <1>8, <1>10 DEF States
  <2>2. [v \in Nodes |-> IF v \in chosen THEN u ELSE st.prev[v]] \in [Nodes -> Nodes \cup {-1}]
    BY <1>1, <1>3 DEF States
  <2>3. (st.heap \ {s}) \cup {[cost |-> cost(v), node |-> v] : v \in chosen} \in SUBSET [cost : Nat, node : Nodes]
    BY <1>1, <1>8, <1>10, <1>12
  <2>. QED
    BY <1>9, <2>1, <2>2, <2>3 DEF States
<1>14. \A v \in Nodes :
          /\ Round(edges, st).dist[v] = IF v \in better THEN Far(edges, st, u, v) ELSE st.dist[v]
          /\ Round(edges, st).prev[v] = IF v \in better THEN u ELSE st.prev[v]
  BY <1>8, <1>9, <1>10
<1>15. Round(edges, st).heap = (st.heap \ {s}) \cup Pushed(edges, st, done, u)
  BY <1>9, <1>11
<1>. QED
  BY <1>2, <1>3, <1>5, <1>13, <1>14, <1>15 DEF Relaxes, better, u, s

(* A round relaxes the node it takes, and no other one is done by it. *)
LEMMA RoundSearches ==
    ASSUME GraphAssumption, NEW edges \in Seq(Edge), NEW source \in Nodes,
           NEW st, NEW done, Searched(edges, source, st, done), st.heap # {}
    PROVE  Searched(edges, source, Round(edges, st), done \cup {Pop(st.heap).node})
<1>. DEFINE s == Pop(st.heap)
            next == Round(edges, st)
            u == s.node
            better == Better(edges, st, done, u)
            far(v) == Far(edges, st, u, v)
            pushed == Pushed(edges, st, done, u)
<1>1. /\ s \in st.heap /\ u \in Nodes /\ s.cost \in Nat
      /\ \A t \in st.heap : s.cost <= t.cost
      /\ u \notin done => s.cost = st.dist[u]
      /\ next \in States
      /\ \A v \in Nodes : next.dist[v] = IF v \in better THEN far(v) ELSE st.dist[v]
      /\ next.heap = (st.heap \ {s}) \cup pushed
  <2>1. Relaxes(edges, st, done, s, next)
    BY RoundDoes
  <2>. QED
    BY <2>1 DEF Relaxes
<1>. HIDE DEF s, next, u
<1>2. /\ \A v \in Nodes : st.dist[v] # Infinity => st.dist[v] \in Nat
      /\ \A e \in st.heap : e.cost \in Nat /\ e.node \in Nodes
      /\ done \subseteq Nodes /\ IsFiniteSet(st.heap)
  BY DEF Searched, States
<1>3. st.dist[u] \in Nat
  <2>1. s \in st.heap
    BY <1>1
  <2>2. st.dist[u] # Infinity
    BY <2>1 DEF Searched, u
  <2>. QED
    BY <1>1, <1>2, <2>2
<1>4. \A v \in Nodes : Adjacent(edges, u, v) => far(v) \in Nat /\ far(v) >= st.dist[u]
  BY <1>3, EdgesLeadBack DEF Far
<1>5. \A v \in better : v \in Nodes /\ v \notin done /\ v # u /\ u \notin done
                         /\ far(v) \in Nat /\ far(v) >= s.cost
                         /\ (st.dist[v] # Infinity => far(v) < st.dist[v])
  <2>. SUFFICES ASSUME NEW v \in better
                PROVE  v \in Nodes /\ v \notin done /\ v # u /\ u \notin done
                         /\ far(v) \in Nat /\ far(v) >= s.cost
                         /\ (st.dist[v] # Infinity => far(v) < st.dist[v])
    OBVIOUS
  <2>1. /\ v \in Nodes /\ u \notin done /\ Adjacent(edges, u, v)
        /\ st.dist[v] # Infinity => far(v) < st.dist[v]
    BY DEF Better
  <2>2. far(v) \in Nat /\ far(v) >= s.cost
    BY <1>1, <1>4, <2>1
  <2>3. v # u
    BY <1>2, <1>3, <1>4, <2>1 DEF Infinity
  <2>4. v \notin done
    <3>. SUFFICES ASSUME v \in done PROVE FALSE
      OBVIOUS
    <3>1. st.dist[v] # Infinity /\ st.dist[v] <= s.cost
      BY <1>1 DEF Searched
    <3>. QED
      BY <1>1, <1>2, <2>1, <2>2, <3>1
  <2>. QED
    BY <2>1, <2>2, <2>3, <2>4
<1>6. \A v \in Nodes : v \notin better /\ Adjacent(edges, u, v) /\ u \notin done =>
          st.dist[v] # Infinity /\ st.dist[v] <= far(v)
  BY <1>2, <1>4 DEF Better
<1>. HIDE DEF better, far, pushed
<1>7. \A c \in done \cup {u} : c \notin better /\ next.dist[c] = st.dist[c] /\ c \in Nodes
  BY <1>1, <1>2, <1>5
<1>8. IsFiniteSet(next.heap)
  <2>1. IsFiniteSet(st.heap \ {s})
    BY <1>2, FS_RemoveElement
  <2>2. IsFiniteSet(better)
    BY <1>5, NodesFinite, FS_Subset
  <2>3. IsFiniteSet(pushed)
    <3>. DEFINE push == [v \in better |-> [cost |-> far(v), node |-> v]]
    <3>1. push \in Surjection(better, pushed)
      BY Fun_IsSurj, Zenon DEF pushed, Pushed, better, far
    <3>. HIDE DEF push
    <3>. QED
      BY <2>2, <3>1, FS_Surjection
  <2>4. IsFiniteSet((st.heap \ {s}) \cup pushed)
    BY <2>1, <2>3, FS_Union, Zenon
  <2>. QED
    BY <1>1, <2>4
<1>9. next.dist[source] = 0
  <2>1. source \notin better
    <3>1. st.dist[source] = 0
      BY DEF Searched
    <3>2. source \in better => far(source) < 0
      BY <1>5, <3>1 DEF Infinity
    <3>. QED
      BY <1>5, <3>2
  <2>. QED
    BY <1>1, <2>1 DEF Searched
<1>10. ASSUME NEW e \in next.heap
       PROVE  /\ next.dist[e.node] # Infinity /\ next.dist[e.node] <= e.cost
              /\ e.node \in done \cup {u} => next.dist[e.node] < e.cost
              /\ \A c \in done \cup {u} : next.dist[c] <= e.cost
  <2>1. CASE e \in pushed
    <3>1. PICK v \in better : e = [cost |-> far(v), node |-> v]
      BY <2>1 DEF pushed, Pushed, better, far
    <3>2. e.cost = far(v) /\ e.node = v /\ far(v) \in Nat /\ v \in Nodes /\ far(v) >= s.cost
      BY <1>5, <3>1
    <3>3. next.dist[v] = far(v) /\ v \notin done /\ v # u
      BY <1>1, <1>5, <3>2
    <3>4. \A c \in done : st.dist[c] <= s.cost
      BY <1>1 DEF Searched
    <3>5. \A c \in done \cup {u} : st.dist[c] \in Nat /\ st.dist[c] <= s.cost
      <4>1. \A c \in done : st.dist[c] \in Nat
        BY <1>2 DEF Searched
      <4>2. u \notin done => st.dist[u] = s.cost
        BY <1>1
      <4>. QED
        BY <1>1, <1>3, <3>4, <4>1, <4>2
    <3>6. \A c \in done \cup {u} : next.dist[c] <= e.cost
      BY <1>1, <1>7, <3>2, <3>5
    <3>. QED
      BY <3>2, <3>3, <3>6 DEF Infinity
  <2>2. CASE e \in st.heap \ {s}
    <3>1. /\ e \in st.heap /\ e # s /\ e.cost \in Nat /\ e.node \in Nodes
          /\ st.dist[e.node] # Infinity /\ st.dist[e.node] <= e.cost /\ st.dist[e.node] \in Nat
      BY <1>2, <2>2 DEF Searched
    <3>2. next.dist[e.node] \in Nat /\ next.dist[e.node] <= st.dist[e.node]
      BY <1>1, <1>5, <3>1
    <3>3. e.node \in done => st.dist[e.node] < e.cost
      BY <3>1 DEF Searched
    <3>4. e.node = u /\ u \notin done => st.dist[u] < e.cost
      <4>. SUFFICES ASSUME e.node = u, u \notin done, e.cost <= st.dist[u] PROVE FALSE
        BY <1>3, <3>1
      <4>1. e.cost = s.cost /\ e.node = s.node
        BY <1>1, <1>3, <3>1 DEF u
      <4>2. e \in [cost : Nat, node : Nodes] /\ s \in [cost : Nat, node : Nodes]
        BY <1>1, <3>1 DEF Searched, States
      <4>3. e = s
        BY <4>1, <4>2
      <4>. QED
        BY <3>1, <4>3
    <3>5. e.node \in done \cup {u} => next.dist[e.node] < e.cost
      BY <1>7, <3>1, <3>3, <3>4
    <3>6. \A c \in done : st.dist[c] <= e.cost
      BY <3>1 DEF Searched
    <3>7. st.dist[u] <= e.cost
      BY <1>1, <1>3, <3>1, <3>6
    <3>8. \A c \in done \cup {u} : next.dist[c] <= e.cost
      BY <1>7, <3>6, <3>7
    <3>. QED
      BY <3>1, <3>2, <3>5, <3>8 DEF Infinity
  <2>. QED
    BY <1>1, <2>1, <2>2
<1>11. ASSUME NEW v \in Nodes \ (done \cup {u}), next.dist[v] # Infinity
       PROVE  [cost |-> next.dist[v], node |-> v] \in next.heap
  <2>1. CASE v \in better
    BY <1>1, <2>1 DEF pushed, Pushed, better, far
  <2>2. CASE v \notin better
    <3>. DEFINE own == [cost |-> st.dist[v], node |-> v]
    <3>1. next.dist[v] = st.dist[v]
      BY <1>1, <2>2
    <3>2. own \in st.heap
      BY <1>11, <3>1 DEF Searched
    <3>3. own.node = v /\ v # u
      OBVIOUS
    <3>4. own # s
      BY <3>3 DEF u
    <3>. HIDE DEF own
    <3>5. own \in next.heap
      BY <1>1, <3>2, <3>4
    <3>. QED
      BY <3>1, <3>5 DEF own
  <2>. QED
    BY <2>1, <2>2
<1>12. ASSUME NEW c \in done \cup {u}
       PROVE  /\ next.dist[c] # Infinity
              /\ \A v \in Nodes : Adjacent(edges, c, v) =>
                    next.dist[v] # Infinity /\ next.dist[v] <= next.dist[c] + Length(edges, c, v)
  <2>1. st.dist[c] \in Nat /\ next.dist[c] = st.dist[c]
    BY <1>2, <1>3, <1>7 DEF Searched
  <2>. SUFFICES ASSUME NEW v \in Nodes, Adjacent(edges, c, v)
                PROVE  next.dist[v] # Infinity /\ next.dist[v] <= st.dist[c] + Length(edges, c, v)
    BY <2>1 DEF Infinity
  <2>2. Length(edges, c, v) \in Nat
    BY EdgesLeadBack
  <2>3. CASE c \in done
    <3>1. st.dist[v] # Infinity /\ st.dist[v] <= st.dist[c] + Length(edges, c, v) /\ st.dist[v] \in Nat
      BY <1>2, <2>3 DEF Searched
    <3>2. next.dist[v] \in Nat /\ next.dist[v] <= st.dist[v]
      BY <1>1, <1>5, <3>1
    <3>. QED
      BY <2>1, <2>2, <3>1, <3>2 DEF Infinity
  <2>4. CASE c = u /\ u \notin done
    <3>1. CASE v \in better
      BY <1>1, <1>5, <2>4, <3>1 DEF Infinity, far, Far
    <3>2. CASE v \notin better
      BY <1>1, <1>6, <2>4, <3>2 DEF far, Far
    <3>. QED
      BY <3>1, <3>2
  <2>. QED
    BY <2>3, <2>4
<1>13. done \cup {u} \subseteq Nodes
  BY <1>1, <1>2
<1>14. Searched(edges, source, next, done \cup {u})
  BY <1>1, <1>8, <1>9, <1>10, <1>11, <1>12, <1>13 DEF Searched
<1>. QED
  BY <1>14 DEF next, u, s

(* The nodes that a round reaches are reached through the one it relaxes. *)
LEMMA RoundTrails ==
    ASSUME GraphAssumption, NEW edges \in Seq(Edge), NEW source \in Nodes,
           NEW st, NEW done, Searched(edges, source, st, done), st.heap # {},
           Trailed(edges, source, st, done)
    PROVE  Trailed(edges, source, Round(edges, st), done \cup {Pop(st.heap).node})
<1>. DEFINE s == Pop(st.heap)
            next == Round(edges, st)
            u == s.node
            better == Better(edges, st, done, u)
<1>1. Relaxes(edges, st, done, s, next)
  BY RoundDoes
<1>2. Searched(edges, source, next, done \cup {u})
  BY RoundSearches
<1>. HIDE DEF s, next
<1>3. /\ s \in st.heap /\ u \in Nodes
      /\ \A v \in Nodes :
            /\ next.dist[v] = IF v \in better THEN Far(edges, st, u, v) ELSE st.dist[v]
            /\ next.prev[v] = IF v \in better THEN u ELSE st.prev[v]
  BY <1>1 DEF Relaxes
<1>4. st.dist[u] # Infinity
  BY <1>3 DEF Searched
<1>. HIDE DEF u
<1>5. done \subseteq Nodes /\ \A c \in done : st.dist[c] # Infinity
  BY DEF Searched
<1>6. \A v \in better : v \in Nodes /\ v \notin done /\ v # u /\ u \notin done /\ Adjacent(edges, u, v)
  <2>. SUFFICES ASSUME NEW v \in better
                PROVE  v \in Nodes /\ v \notin done /\ v # u /\ u \notin done /\ Adjacent(edges, u, v)
    OBVIOUS
  <2>1. /\ v \in Nodes /\ u \notin done /\ Adjacent(edges, u, v)
        /\ st.dist[v] # Infinity => Far(edges, st, u, v) < st.dist[v]
    BY DEF Better
  <2>2. Length(edges, u, v) \in Nat
    BY <2>1, EdgesLeadBack
  <2>3. st.dist[u] \in Nat /\ (st.dist[v] # Infinity => st.dist[v] \in Nat)
    BY <1>3, <1>4, <2>1 DEF Searched, States
  <2>4. v # u
    BY <1>4, <2>1, <2>2, <2>3 DEF Far
  <2>5. v \notin done
    <3>. SUFFICES ASSUME v \in done PROVE FALSE
      OBVIOUS
    <3>1. st.dist[v] # Infinity /\ st.dist[v] <= s.cost
      BY <1>3 DEF Searched
    <3>2. s.cost = st.dist[u]
      BY <1>1, <2>1 DEF Relaxes, u
    <3>. QED
      BY <2>1, <2>2, <2>3, <3>1, <3>2 DEF Far
  <2>. QED
    BY <2>1, <2>4, <2>5
<1>. HIDE DEF better
<1>7. ASSUME NEW v \in Nodes, v \notin better, st.dist[v] # Infinity
      PROVE  \E p : IsTrail(edges, source, next, done \cup {u}, v, p)
  <2>1. PICK p : IsTrail(edges, source, st, done, v, p)
    BY <1>7 DEF Trailed
  <2>2. PICK m \in Nat \ {0} :
          /\ p \in [1..m -> Nodes] /\ p[1] = source /\ p[m] = v
          /\ \A i, j \in 1..m : p[i] = p[j] => i = j
          /\ \A i \in 1..m - 1 :
                /\ p[i] \in done /\ Adjacent(edges, p[i], p[i + 1])
                /\ st.prev[p[i + 1]] = p[i]
                /\ st.dist[p[i + 1]] = st.dist[p[i]] + Length(edges, p[i], p[i + 1])
    BY <2>1 DEF IsTrail
  <2>3. \A i \in 1..m : p[i] \in Nodes /\ p[i] \notin better
    <3>. SUFFICES ASSUME NEW i \in 1..m PROVE p[i] \in Nodes /\ p[i] \notin better
      OBVIOUS
    <3>1. i = m \/ i \in 1..m - 1
      OBVIOUS
    <3>. QED
      BY <1>6, <1>7, <2>2, <3>1
  <2>4. \A i \in 1..m - 1 :
          /\ p[i] \in done \cup {u} /\ Adjacent(edges, p[i], p[i + 1])
          /\ next.prev[p[i + 1]] = p[i]
          /\ next.dist[p[i + 1]] = next.dist[p[i]] + Length(edges, p[i], p[i + 1])
    <3>. SUFFICES ASSUME NEW i \in 1..m - 1
                  PROVE  /\ p[i] \in done \cup {u} /\ Adjacent(edges, p[i], p[i + 1])
                         /\ next.prev[p[i + 1]] = p[i]
                         /\ next.dist[p[i + 1]] = next.dist[p[i]] + Length(edges, p[i], p[i + 1])
      OBVIOUS
    <3>1. i \in 1..m /\ i + 1 \in 1..m
      OBVIOUS
    <3>2. /\ next.prev[p[i + 1]] = st.prev[p[i + 1]]
          /\ next.dist[p[i + 1]] = st.dist[p[i + 1]] /\ next.dist[p[i]] = st.dist[p[i]]
      BY <1>3, <2>3, <3>1
    <3>. QED
      BY <2>2, <3>2
  <2>5. IsTrail(edges, source, next, done \cup {u}, v, p)
    BY <2>2, <2>4 DEF IsTrail
  <2>. QED
    BY <2>5
<1>8. ASSUME NEW v \in better
      PROVE  \E p : IsTrail(edges, source, next, done \cup {u}, v, p)
  <2>1. PICK p : IsTrail(edges, source, next, done \cup {u}, u, p)
    BY <1>3, <1>4, <1>6, <1>7
  <2>2. PICK m \in Nat \ {0} :
          /\ p \in [1..m -> Nodes] /\ p[1] = source /\ p[m] = u
          /\ \A i, j \in 1..m : p[i] = p[j] => i = j
          /\ \A i \in 1..m - 1 :
                /\ p[i] \in done \cup {u} /\ Adjacent(edges, p[i], p[i + 1])
                /\ next.prev[p[i + 1]] = p[i]
                /\ next.dist[p[i + 1]] = next.dist[p[i]] + Length(edges, p[i], p[i + 1])
    BY <2>1 DEF IsTrail
  <2>. DEFINE q == [i \in 1..m + 1 |-> IF i = m + 1 THEN v ELSE p[i]]
  <2>3. m + 1 \in Nat \ {0} /\ 1 \in 1..m /\ 1 \in 1..m + 1 /\ 1 # m + 1 /\ m + 1 \in 1..m + 1
    OBVIOUS
  <2>4. \A i \in 1..m + 1 : i # m + 1 => i \in 1..m
    OBVIOUS
  <2>5. v \in Nodes /\ v \notin done \cup {u} /\ Adjacent(edges, u, v)
    BY <1>6
  <2>6. q \in [1..m + 1 -> Nodes] /\ q[1] = source /\ q[m + 1] = v
    BY <2>2, <2>3, <2>4, <2>5
  <2>7. \A i \in 1..m : p[i] \in done \cup {u} /\ p[i] # v
    <3>. SUFFICES ASSUME NEW i \in 1..m PROVE p[i] \in done \cup {u}
      BY <2>5
    <3>1. i = m \/ i \in 1..m - 1
      OBVIOUS
    <3>. QED
      BY <2>2, <3>1
  <2>8. \A i, j \in 1..m + 1 : q[i] = q[j] => i = j
    BY <2>2, <2>4, <2>7
  <2>9. ASSUME NEW i \in 1..(m + 1) - 1
        PROVE  /\ q[i] \in done \cup {u} /\ Adjacent(edges, q[i], q[i + 1])
               /\ next.prev[q[i + 1]] = q[i]
               /\ next.dist[q[i + 1]] = next.dist[q[i]] + Length(edges, q[i], q[i + 1])
    <3>1. i \in 1..m /\ i \in 1..m + 1 /\ i # m + 1 /\ i + 1 \in 1..m + 1
      OBVIOUS
    <3>2. q[i] = p[i] /\ q[i] \in done \cup {u}
      BY <2>7, <3>1
    <3>3. CASE i = m
      <4>1. q[i] = u /\ q[i + 1] = v
        BY <2>2, <3>1, <3>3
      <4>2. next.prev[v] = u /\ next.dist[v] = st.dist[u] + Length(edges, u, v)
        BY <1>3, <1>8, <2>5 DEF Far
      <4>3. next.dist[u] = st.dist[u]
        BY <1>3, <1>6
      <4>. HIDE DEF q
      <4>. QED
        BY <2>5, <3>2, <4>1, <4>2, <4>3
    <3>4. CASE i # m
      <4>1. i \in 1..m - 1 /\ i + 1 # m + 1
        BY <3>1, <3>4
      <4>2. q[i + 1] = p[i + 1]
        BY <3>1, <4>1
      <4>. HIDE DEF q
      <4>. QED
        BY <2>2, <3>2, <4>1, <4>2
    <3>. QED
      BY <3>3, <3>4
  <2>. HIDE DEF q
  <2>10. IsTrail(edges, source, next, done \cup {u}, v, q)
    BY <2>3, <2>6, <2>8, <2>9 DEF IsTrail
  <2>. QED
    BY <2>10
<1>9. Trailed(edges, source, next, done \cup {u})
  BY <1>3, <1>7, <1>8 DEF Trailed
<1>. QED
  BY <1>9 DEF next, u, s

(* A round that relaxes a node adds at most one entry for every other. *)
LEMMA RoundFuels ==
    ASSUME GraphAssumption, NEW edges \in Seq(Edge), NEW source \in Nodes,
           NEW st, NEW done, Searched(edges, source, st, done), st.heap # {},
           NEW k \in Nat, Fueled(st, done, k)
    PROVE  Fueled(Round(edges, st), done \cup {Pop(st.heap).node}, k + 1)
<1>. DEFINE s == Pop(st.heap)
            next == Round(edges, st)
            u == s.node
            better == Better(edges, st, done, u)
            pushed == Pushed(edges, st, done, u)
<1>1. Relaxes(edges, st, done, s, next)
  BY RoundDoes
<1>. HIDE DEF s, next
<1>2. s \in st.heap /\ u \in Nodes /\ next.heap = (st.heap \ {s}) \cup pushed
  BY <1>1 DEF Relaxes
<1>3. done \subseteq Nodes /\ IsFiniteSet(st.heap) /\ st \in States
  BY DEF Searched
<1>. HIDE DEF u
<1>4. NodeCount \in Nat /\ IsFiniteSet(Nodes) /\ Cardinality(Nodes) = NodeCount
  BY NodesFinite
<1>5. IsFiniteSet(done) /\ Cardinality(done) \in Nat
  BY <1>3, <1>4, FS_Subset, FS_CardinalityType
<1>6. IsFiniteSet(st.heap \ {s}) /\ Cardinality(st.heap \ {s}) = Cardinality(st.heap) - 1
  BY <1>2, <1>3, FS_RemoveElement
<1>7. Cardinality(st.heap) \in Nat
  BY <1>3, FS_CardinalityType
<1>. DEFINE n == NodeCount
            c == Cardinality(done)
            h == Cardinality(st.heap)
            room == n * (n - c)
<1>8. h + room + k <= n * n + 1 /\ room \in Int
  BY <1>4, <1>5 DEF Fueled
<1>9. CASE u \in done
  <2>1. better = {}
    BY <1>9 DEF Better
  <2>2. pushed = {}
    BY <2>1 DEF Pushed
  <2>3. Cardinality(next.heap) = h - 1 /\ done \cup {u} = done
    BY <1>2, <1>6, <1>9, <2>2
  <2>. HIDE DEF room
  <2>4. (h - 1) + room + (k + 1) <= n * n + 1
    BY <1>7, <1>8
  <2>5. Fueled(next, done \cup {u}, k + 1)
    BY <2>3, <2>4 DEF Fueled, room
  <2>. QED
    BY <2>5 DEF next, u, s
<1>10. CASE u \notin done
  <2>1. Cardinality(done \cup {u}) = c + 1
    BY <1>5, <1>10, FS_AddElement
  <2>2. Searched(edges, source, next, done \cup {u})
    BY RoundSearches DEF next, u, s
  <2>3. u \notin better
    <3>. SUFFICES ASSUME u \in better PROVE FALSE
      OBVIOUS
    <3>1. /\ Adjacent(edges, u, u)
          /\ st.dist[u] # Infinity => st.dist[u] + Length(edges, u, u) < st.dist[u]
      BY DEF Better, Far
    <3>2. st.dist[u] # Infinity
      BY <1>2 DEF Searched, u
    <3>3. st.dist[u] \in Nat
      BY <1>2, <1>3, <3>2 DEF States, u
    <3>. QED
      BY <3>1, <3>2, <3>3, EdgesLeadBack
  <2>4. better \subseteq Nodes \ {u}
    BY <2>3 DEF Better
  <2>5. IsFiniteSet(Nodes \ {u}) /\ Cardinality(Nodes \ {u}) = n - 1
    BY <1>2, <1>4, FS_RemoveElement DEF u
  <2>6. IsFiniteSet(better) /\ Cardinality(better) <= n - 1 /\ Cardinality(better) \in Nat
    BY <2>4, <2>5, FS_Subset, FS_CardinalityType
  <2>7. IsFiniteSet(pushed) /\ Cardinality(pushed) <= Cardinality(better) /\ Cardinality(pushed) \in Nat
    <3>. DEFINE push == [v \in better |-> [cost |-> Far(edges, st, u, v), node |-> v]]
    <3>1. push \in Surjection(better, pushed)
      BY Fun_IsSurj, Zenon DEF Pushed
    <3>. HIDE DEF push, pushed, better
    <3>. QED
      BY <2>6, <3>1, FS_Surjection, FS_CardinalityType
  <2>. HIDE DEF pushed, better
  <2>8. Cardinality(next.heap) <= (h - 1) + (n - 1)
    <3>. DEFINE a == st.heap \ {s}
    <3>1. IsFiniteSet(a) /\ Cardinality(a) = h - 1
      BY <1>6
    <3>. HIDE DEF a
    <3>2. Cardinality(a \cup pushed) = Cardinality(a) + Cardinality(pushed) - Cardinality(a \cap pushed)
      BY <2>7, <3>1, FS_Union
    <3>3. Cardinality(a \cap pushed) \in Nat
      BY <3>1, FS_Intersection, FS_CardinalityType
    <3>4. Cardinality(a \cup pushed) <= (h - 1) + (n - 1)
      BY <1>4, <1>7, <2>6, <2>7, <3>1, <3>2, <3>3
    <3>. QED
      BY <1>2, <3>4 DEF a
  <2>9. n * (n - (c + 1)) = room - n
    BY <1>4, <1>5
  <2>10. Cardinality(next.heap) \in Nat
    BY <2>2, FS_CardinalityType DEF Searched
  <2>. DEFINE g == Cardinality(next.heap)
              r == n * (n - (c + 1))
              q == n * n
  <2>11. q \in Int /\ r \in Int
    BY <1>4, <1>5
  <2>. HIDE DEF room, g, r, q
  <2>12. g + r + (k + 1) <= q + 1
    BY <1>4, <1>7, <1>8, <2>8, <2>9, <2>10, <2>11, SMTT(60) DEF g, r, q
  <2>13. Fueled(next, done \cup {u}, k + 1)
    BY <2>1, <2>12 DEF Fueled, g, r, q
  <2>. QED
    BY <2>13 DEF next, u, s
<1>. QED
  BY <1>9, <1>10

(* The rounds of the search, one after the other. *)
LEMMA DijkstraRuns ==
    ASSUME GraphAssumption, NEW edges \in Seq(Edge), NEW source \in Nodes
    PROVE  \E g : /\ Dijkstra(edges, source) = g[Rounds]
                  /\ g[0] = Unreached(source)
                  /\ \A k \in 1..Rounds : g[k] = Round(edges, g[k - 1])
<1>. DEFINE St == {st \in States : \E done : Searched(edges, source, st, done)}
            step == [st \in St |-> Round(edges, st)]
            Rec(f) == f = [k \in 0..Rounds |->
                              IF k = 0 THEN Unreached(source) ELSE Round(edges, f[k - 1])]
            g == CHOOSE f : Rec(f)
<1>1. Rounds \in Nat
  BY NodesFinite, SMTT(60) DEF Rounds
<1>2. Unreached(source) \in St
  <2>1. Searched(edges, source, Unreached(source), {})
    BY DijkstraStarts
  <2>2. Unreached(source) \in States
    BY <2>1 DEF Searched
  <2>. QED
    BY <2>1, <2>2
<1>3. \A st \in St : Round(edges, st) \in St
  <2>. SUFFICES ASSUME NEW st \in St PROVE Round(edges, st) \in St
    OBVIOUS
  <2>1. CASE st.heap = {}
    BY <2>1 DEF Round
  <2>2. CASE st.heap # {}
    <3>1. PICK done : Searched(edges, source, st, done)
      OBVIOUS
    <3>2. Searched(edges, source, Round(edges, st), done \cup {Pop(st.heap).node})
      BY <2>2, <3>1, RoundSearches
    <3>3. Round(edges, st) \in States
      BY <3>2 DEF Searched
    <3>. QED
      BY <3>2, <3>3
  <2>. QED
    BY <2>1, <2>2
<1>4. step \in [St -> St] /\ \A st \in St : step[st] = Round(edges, st)
  BY <1>3
<1>. HIDE DEF St, step
<1>5. PICK f : Steps(f, St, Unreached(source), step, Rounds)
  BY <1>1, <1>2, <1>4, StepsRepeat
<1>6. \A k \in 0..Rounds :
         f[k] = IF k = 0 THEN Unreached(source) ELSE Round(edges, f[k - 1])
  <2>. SUFFICES ASSUME NEW k \in 0..Rounds, k # 0 PROVE f[k] = Round(edges, f[k - 1])
    BY <1>5 DEF Steps
  <2>1. k \in 1..Rounds /\ k - 1 \in 0..Rounds
    BY <1>1
  <2>2. f[k - 1] \in St
    BY <1>5, <2>1 DEF Steps
  <2>. QED
    BY <1>4, <1>5, <2>1, <2>2 DEF Steps
<1>7. Rec(f)
  BY <1>5, <1>6 DEF Steps
<1>8. Rec(g)
  <2>. HIDE DEF Rec
  <2>. QED
    BY <1>7
<1>. HIDE DEF g
<1>9. g[0] = Unreached(source) /\ \A k \in 1..Rounds : g[k] = Round(edges, g[k - 1])
  BY <1>1, <1>8
<1>10. Dijkstra(edges, source) = g[Rounds]
  BY DEF Dijkstra, g
<1>. HIDE DEF Rec
<1>. QED
  BY <1>9, <1>10

(* The search has relaxed every node it has reached. *)
Reached(edges, source, st, done) ==
    /\ Searched(edges, source, st, done) /\ Trailed(edges, source, st, done)
    /\ st.heap = {}

(* After the last round the heap is empty. *)
LEMMA DijkstraEnds ==
    ASSUME GraphAssumption, NEW edges \in Seq(Edge), NEW source \in Nodes
    PROVE  \E done : Reached(edges, source, Dijkstra(edges, source), done)
<1>1. PICK g : /\ Dijkstra(edges, source) = g[Rounds]
               /\ g[0] = Unreached(source)
               /\ \A k \in 1..Rounds : g[k] = Round(edges, g[k - 1])
  BY DijkstraRuns
<1>. DEFINE Good(k, done) == /\ Searched(edges, source, g[k], done)
                             /\ Trailed(edges, source, g[k], done)
                             /\ Fueled(g[k], done, k)
            S == {k \in 0..Rounds : \E done : Good(k, done)}
<1>2. Rounds \in Nat
  <2>1. NodeCount \in Nat
    BY NodesFinite
  <2>2. \A n \in Nat : n * n + 1 \in Nat
    OBVIOUS
  <2>. QED
    BY <2>1, <2>2 DEF Rounds
<1>3. 0 \in S
  <2>1. Good(0, {})
    BY <1>1, DijkstraStarts
  <2>2. 0 \in 0..Rounds
    BY <1>2
  <2>. HIDE DEF Good
  <2>. QED
    BY <2>1, <2>2
<1>4. ASSUME NEW k \in 0 + 1..Rounds, k - 1 \in S PROVE k \in S
  <2>1. k \in 1..Rounds /\ k \in 0..Rounds /\ k - 1 \in Nat /\ (k - 1) + 1 = k
    BY <1>2
  <2>2. PICK done : Good(k - 1, done)
    BY <1>4
  <2>3. g[k] = Round(edges, g[k - 1])
    BY <1>1, <2>1
  <2>4. CASE g[k - 1].heap = {}
    <3>1. g[k] = g[k - 1]
      BY <2>3, <2>4 DEF Round
    <3>2. Fueled(g[k], done, k)
      BY <2>4, <3>1 DEF Fueled
    <3>3. Good(k, done)
      BY <2>2, <3>1, <3>2
    <3>. QED
      BY <2>1, <3>3
  <2>5. CASE g[k - 1].heap # {}
    <3>. DEFINE more == done \cup {Pop(g[k - 1].heap).node}
    <3>. DEFINE st == g[k - 1]
    <3>1. /\ Searched(edges, source, st, done) /\ Trailed(edges, source, st, done)
          /\ Fueled(st, done, k - 1) /\ st.heap # {} /\ k - 1 \in Nat
          /\ g[k] = Round(edges, st) /\ more = done \cup {Pop(st.heap).node}
      BY <2>1, <2>2, <2>3, <2>5
    <3>. HIDE DEF st, more
    <3>2. Searched(edges, source, Round(edges, st), done \cup {Pop(st.heap).node})
      BY <3>1, RoundSearches
    <3>3. Trailed(edges, source, Round(edges, st), done \cup {Pop(st.heap).node})
      BY <3>1, RoundTrails
    <3>4. Fueled(Round(edges, st), done \cup {Pop(st.heap).node}, (k - 1) + 1)
      BY <3>1, RoundFuels
    <3>5. Good(k, more)
      BY <2>1, <3>1, <3>2, <3>3, <3>4
    <3>. QED
      BY <2>1, <3>5
  <2>. QED
    BY <2>4, <2>5
<1>. HIDE DEF S
<1>5. Rounds \in S
  BY <1>2, <1>3, <1>4, EveryOne, SMTT(60)
<1>6. PICK done : Good(Rounds, done)
  BY <1>5 DEF S
<1>. DEFINE st == g[Rounds]
<1>7. st.heap = {}
  <2>. SUFFICES ASSUME st.heap # {} PROVE FALSE
    OBVIOUS
  <2>1. /\ IsFiniteSet(st.heap) /\ done \subseteq Nodes
        /\ Cardinality(st.heap) + NodeCount * (NodeCount - Cardinality(done)) + Rounds
             <= NodeCount * NodeCount + 1
    BY <1>6 DEF Searched, Fueled
  <2>2. Cardinality(st.heap) \in Nat /\ Cardinality(st.heap) # 0
    BY <2>1, FS_CardinalityType, FS_EmptySet
  <2>3. Cardinality(done) \in Nat /\ Cardinality(done) <= NodeCount /\ NodeCount \in Nat
    BY <2>1, NodesFinite, FS_Subset, FS_CardinalityType
  <2>4. NodeCount * (NodeCount - Cardinality(done)) \in Nat
    BY <2>3
  <2>. DEFINE r == NodeCount * (NodeCount - Cardinality(done))
              q == NodeCount * NodeCount
  <2>5. q \in Nat /\ Rounds = q + 1
    BY <2>3 DEF Rounds
  <2>. HIDE DEF r, q, st
  <2>. QED
    BY <2>1, <2>2, <2>4, <2>5 DEF r, q
<1>. QED
  BY <1>1, <1>6, <1>7 DEF Reached

(* The cost of a path is the sum of the lengths on it. *)
Lengths(edges, p) == [i \in 1..Len(p) - 1 |-> Length(edges, p[i], p[i + 1])]

(* That is what PathCost computes. *)
LEMMA CostOfPath ==
    ASSUME NEW edges, NEW p, Len(p) \in Nat, Len(p) > 0,
           \A i \in 1..Len(p) - 1 : Length(edges, p[i], p[i + 1]) \in Int
    PROVE  \E f : /\ SumTo(f, Len(p) - 1, Lengths(edges, p))
                  /\ PathCost(edges, p) = f[Len(p) - 1]
<1>. DEFINE n == Len(p) - 1
            w == Lengths(edges, p)
            Rec(f) == f = [i \in 0..n |-> IF i = 0 THEN 0
                              ELSE f[i - 1] + Min(WeightsBetween(edges, p[i], p[i + 1]))]
            upTo == CHOOSE f : Rec(f)
<1>1. \A i \in 1..n : w[i] = Min(WeightsBetween(edges, p[i], p[i + 1])) /\ w[i] \in Int
  BY DEF Lengths, Length
<1>2. n \in Nat
  OBVIOUS
<1>3. \A f : Rec(f) <=> AddsUp(f, n, w)
  <2>. SUFFICES ASSUME NEW f PROVE Rec(f) <=> AddsUp(f, n, w)
    OBVIOUS
  <2>. HIDE DEF w
  <2>1. \A i \in 0..n : i # 0 => i \in 1..n
    BY <1>2
  <2>2. [i \in 0..n |-> IF i = 0 THEN 0 ELSE f[i - 1] + Min(WeightsBetween(edges, p[i], p[i + 1]))]
          = [i \in 0..n |-> IF i = 0 THEN 0 ELSE f[i - 1] + w[i]]
    <3>. HIDE DEF n
    <3>. QED
      BY <1>1, <2>1
  <2>. QED
    BY <2>2, Zenon DEF AddsUp
<1>. HIDE DEF Rec
<1>4. \E f : AddsUp(f, n, w)
  <2>. HIDE DEF n, w
  <2>. QED
    BY <1>1, <1>2, SumsAddUp
<1>5. AddsUp(upTo, n, w)
  BY <1>3, <1>4
<1>6. SumTo(upTo, n, w)
  <2>. HIDE DEF n, w, upTo
  <2>. QED
    BY <1>1, <1>2, <1>5, SumsAddUp
<1>7. PathCost(edges, p) = upTo[n]
  BY DEF PathCost, Rec
<1>. QED
  BY <1>6, <1>7

(* A function on 1..m is a sequence of length m. *)
LEMMA RowIsSequence ==
    ASSUME NEW T, NEW m \in Nat, NEW p \in [1..m -> T]
    PROVE  p \in Seq(T) /\ Len(p) = m /\ DOMAIN p = 1..m
OBVIOUS

(* It is no longer than there are values, if it has none twice. *)
LEMMA InjectiveIsShort ==
    ASSUME NEW T, IsFiniteSet(T), NEW m \in Nat, NEW p \in [1..m -> T],
           \A i, j \in 1..m : p[i] = p[j] => i = j
    PROVE  m <= Cardinality(T)
<1>1. p \in Injection(1..m, T)
  <2>1. DOMAIN p = 1..m
    OBVIOUS
  <2>2. IsInjective(p)
    BY <2>1 DEF IsInjective
  <2>. QED
    BY <2>2 DEF Injection
<1>2. Cardinality(1..m) <= Cardinality(T)
  BY <1>1, FS_Injection
<1>3. Cardinality(1..m) = m
  <2>1. 1 \in Int /\ m \in Int
    OBVIOUS
  <2>2. Cardinality(1..m) = IF 1 > m THEN 0 ELSE m - 1 + 1
    BY <2>1, FS_Interval
  <2>. QED
    BY <2>2
<1>. QED
  BY <1>2, <1>3

(* A path of that cost. *)
LeadsTo(edges, s, t, p, cost) ==
    p \in PathsBetween(edges, s, t) /\ PathCost(edges, p) = cost

(* A trail is a simple path, as expensive as the search says. *)
LEMMA TrailIsPath ==
    ASSUME GraphAssumption, NEW edges \in Seq(Edge), NEW source \in Nodes,
           NEW st, NEW done, Searched(edges, source, st, done),
           NEW v \in Nodes, st.dist[v] # Infinity, NEW p, IsTrail(edges, source, st, done, v, p)
    PROVE  LeadsTo(edges, source, v, p, st.dist[v])
<1>1. PICK m \in Nat \ {0} :
        /\ p \in [1..m -> Nodes] /\ p[1] = source /\ p[m] = v
        /\ \A i, j \in 1..m : p[i] = p[j] => i = j
        /\ \A i \in 1..m - 1 :
              /\ p[i] \in done /\ Adjacent(edges, p[i], p[i + 1])
              /\ st.dist[p[i + 1]] = st.dist[p[i]] + Length(edges, p[i], p[i + 1])
  BY DEF IsTrail
<1>2. Len(p) = m /\ DOMAIN p = 1..m
  BY <1>1, RowIsSequence
<1>3. m <= NodeCount
  <2>1. m \in Nat /\ p \in [1..m -> Nodes] /\ \A i, j \in 1..m : p[i] = p[j] => i = j
    BY <1>1
  <2>2. IsFiniteSet(Nodes) /\ Cardinality(Nodes) = NodeCount
    BY NodesFinite
  <2>3. m <= Cardinality(Nodes)
    BY <2>1, <2>2, InjectiveIsShort
  <2>. QED
    BY <2>2, <2>3
<1>4. p \in SimplePaths
  <2>1. m \in 1..NodeCount
    BY <1>1, <1>3, NodesFinite
  <2>2. p \in UNION {[1..k -> Nodes] : k \in 1..NodeCount}
    BY <1>1, <2>1
  <2>3. IsInjective(p)
    BY <1>1, <1>2 DEF IsInjective
  <2>. QED
    BY <2>2, <2>3 DEF SimplePaths
<1>5. p \in PathsBetween(edges, source, v)
  BY <1>1, <1>2, <1>4 DEF PathsBetween, Adjacent
<1>6. \A i \in 1..m - 1 : Length(edges, p[i], p[i + 1]) \in Nat
  BY <1>1, EdgesLeadBack
<1>7. PICK f : /\ SumTo(f, m - 1, Lengths(edges, p))
               /\ PathCost(edges, p) = f[m - 1]
  <2>1. Len(p) \in Nat /\ Len(p) > 0
    BY <1>1, <1>2
  <2>2. \A i \in 1..Len(p) - 1 : Length(edges, p[i], p[i + 1]) \in Int
    BY <1>2, <1>6
  <2>3. \E f : /\ SumTo(f, Len(p) - 1, Lengths(edges, p))
               /\ PathCost(edges, p) = f[Len(p) - 1]
    BY <2>1, <2>2, CostOfPath
  <2>. QED
    BY <1>2, <2>3
<1>8. /\ f \in [0..m - 1 -> Int] /\ f[0] = 0
      /\ \A i \in 1..m - 1 : f[i] = f[i - 1] + Length(edges, p[i], p[i + 1])
  BY <1>2, <1>7 DEF SumTo, Lengths
<1>. DEFINE S == {i \in 0..m - 1 : f[i] = st.dist[p[i + 1]]}
<1>9. 0 \in S
  BY <1>1, <1>8 DEF Searched
<1>10. ASSUME NEW i \in 0 + 1..m - 1, i - 1 \in S PROVE i \in S
  <2>1. i \in 1..m - 1 /\ i \in 0..m - 1 /\ (i - 1) + 1 = i
    BY <1>1
  <2>2. f[i - 1] = st.dist[p[i]]
    BY <1>10, <2>1
  <2>. QED
    BY <1>1, <1>8, <2>1, <2>2
<1>11. m - 1 \in S
  <2>. DEFINE last == m - 1
  <2>1. last \in Int /\ last \in 0..last
    BY <1>1
  <2>. HIDE DEF S, last
  <2>2. \A i \in 0 + 1..last : i - 1 \in S => i \in S
    BY <1>10 DEF last
  <2>3. \A i \in 0..last : i \in S
    BY <1>9, <2>1, <2>2, EveryOne, SMTT(60)
  <2>. QED
    BY <2>1, <2>3 DEF last
<1>12. (m - 1) + 1 = m
  BY <1>1
<1>. QED
  BY <1>1, <1>5, <1>7, <1>11, <1>12 DEF LeadsTo

(* The path is read back from the nodes that come before. *)
LEMMA TrailIsReconstructed ==
    ASSUME GraphAssumption, NEW edges \in Seq(Edge), NEW source \in Nodes,
           NEW st, NEW done, Searched(edges, source, st, done),
           NEW v \in Nodes, NEW p, IsTrail(edges, source, st, done, v, p)
    PROVE  ReconstructPath(source, v, st.prev) = p
<1>1. PICK m \in Nat \ {0} :
        /\ p \in [1..m -> Nodes] /\ p[1] = source /\ p[m] = v
        /\ \A i, j \in 1..m : p[i] = p[j] => i = j
        /\ \A i \in 1..m - 1 : st.prev[p[i + 1]] = p[i]
  BY DEF IsTrail
<1>2. m <= NodeCount
  <2>1. m \in Nat /\ p \in [1..m -> Nodes] /\ \A i, j \in 1..m : p[i] = p[j] => i = j
    BY <1>1
  <2>2. IsFiniteSet(Nodes) /\ Cardinality(Nodes) = NodeCount
    BY NodesFinite
  <2>3. m <= Cardinality(Nodes)
    BY <2>1, <2>2, InjectiveIsShort
  <2>. QED
    BY <2>2, <2>3
<1>. DEFINE last == NodeCount - 1
            Rec(f) == f = [k \in 0..last |->
                              IF k = 0 THEN v
                              ELSE IF f[k - 1] = source THEN source ELSE st.prev[f[k - 1]]]
            back == CHOOSE f : Rec(f)
            want == [k \in 0..last |-> IF k < m THEN p[m - k] ELSE source]
<1>3. last \in Nat /\ m - 1 \in 0..last
  BY <1>1, <1>2, NodesFinite
<1>4. \A k \in 1..last : k < m => st.prev[p[m - (k - 1)]] = p[m - k] /\ p[m - (k - 1)] # source
  <2>. SUFFICES ASSUME NEW k \in 1..last, k < m
                PROVE  st.prev[p[m - (k - 1)]] = p[m - k] /\ p[m - (k - 1)] # source
    OBVIOUS
  <2>1. m - k \in 1..m - 1 /\ (m - k) + 1 = m - (k - 1) /\ m - (k - 1) \in 1..m /\ m - (k - 1) # 1
        /\ 1 \in 1..m
    BY <1>1
  <2>. QED
    BY <1>1, <2>1
<1>5. \A k \in 1..last : want[k] = IF want[k - 1] = source THEN source ELSE st.prev[want[k - 1]]
  <2>. SUFFICES ASSUME NEW k \in 1..last
                PROVE  want[k] = IF want[k - 1] = source THEN source ELSE st.prev[want[k - 1]]
    OBVIOUS
  <2>1. k \in 0..last /\ k - 1 \in 0..last
    BY <1>3
  <2>2. CASE k < m
    <3>1. want[k] = p[m - k] /\ want[k - 1] = p[m - (k - 1)]
      BY <1>1, <2>1, <2>2
    <3>. HIDE DEF want
    <3>. QED
      BY <1>4, <2>2, <3>1
  <2>3. CASE ~(k < m)
    <3>1. want[k] = source
      BY <2>1, <2>3
    <3>2. want[k - 1] = source
      <4>1. CASE k - 1 < m
        <5>1. k = m /\ m - (k - 1) = 1
          BY <1>1, <2>1, <2>3, <4>1
        <5>. QED
          BY <1>1, <2>1, <4>1, <5>1
      <4>2. CASE ~(k - 1 < m)
        BY <2>1, <4>2
      <4>. QED
        BY <4>1, <4>2
    <3>. HIDE DEF want
    <3>. QED
      BY <3>1, <3>2
  <2>. QED
    BY <2>2, <2>3
<1>6. want[0] = v /\ DOMAIN want = 0..last
  BY <1>1, <1>3
<1>7. Rec(want)
  <2>1. want = [k \in 0..last |-> want[k]]
    OBVIOUS
  <2>. HIDE DEF want
  <2>2. \A k \in 0..last : k # 0 => k \in 1..last
    BY <1>3
  <2>3. \A k \in 0..last : want[k] = IF k = 0 THEN v
                             ELSE IF want[k - 1] = source THEN source ELSE st.prev[want[k - 1]]
    BY <1>5, <1>6, <2>2
  <2>. QED
    BY <2>1, <2>3
<1>8. Rec(back)
  <2>. HIDE DEF Rec, want
  <2>. QED
    BY <1>7
<1>. HIDE DEF back, want
<1>9. \A k \in 0..last : back[k] = want[k]
  <2>. DEFINE S == {k \in 0..last : back[k] = want[k]}
  <2>1. 0 \in S
    BY <1>3, <1>6, <1>8
  <2>2. ASSUME NEW k \in 0 + 1..last, k - 1 \in S PROVE k \in S
    <3>1. k \in 1..last /\ k \in 0..last /\ k # 0
      BY <1>3
    <3>2. back[k - 1] = want[k - 1]
      BY <2>2
    <3>3. back[k] = IF back[k - 1] = source THEN source ELSE st.prev[back[k - 1]]
      BY <1>8, <3>1
    <3>. QED
      BY <1>5, <3>1, <3>2, <3>3
  <2>. HIDE DEF S, last
  <2>3. last \in Int
    BY <1>3
  <2>4. \A k \in 0 + 1..last : k - 1 \in S => k \in S
    BY <2>2
  <2>5. \A k \in 0..last : k \in S
    BY <2>1, <2>3, <2>4, EveryOne
  <2>. QED
    BY <2>5 DEF S
<1>. DEFINE at == {k \in 0..last : back[k] = source}
<1>10. \A k \in 0..last : k < m => back[k] = p[m - k]
  BY <1>9 DEF want
<1>11. Min(at) = m - 1
  <2>1. m - 1 \in at
    <3>1. m - 1 < m /\ m - (m - 1) = 1
      BY <1>1
    <3>. QED
      BY <1>1, <1>3, <1>10, <3>1
  <2>2. \A k \in at : m - 1 <= k
    <3>. SUFFICES ASSUME NEW k \in at, k < m - 1 PROVE FALSE
      BY <1>1, <1>3
    <3>1. k \in 0..last /\ back[k] = source
      OBVIOUS
    <3>2. p[m - k] = source /\ m - k \in 1..m /\ m - k # 1 /\ 1 \in 1..m
      BY <1>1, <1>10, <3>1
    <3>. QED
      BY <1>1, <3>2
  <2>3. at \subseteq Nat
    BY <1>3
  <2>. HIDE DEF at
  <2>4. Min(at) \in at /\ \A x \in at : Min(at) <= x
    BY <2>1, <2>3, MinIsLeast
  <2>5. Min(at) <= m - 1 /\ m - 1 <= Min(at) /\ Min(at) \in Nat
    BY <2>1, <2>2, <2>3, <2>4
  <2>. QED
    BY <1>1, <2>5
<1>12. ReconstructPath(source, v, st.prev) = [i \in 1..Min(at) + 1 |-> back[Min(at) + 1 - i]]
  BY DEF ReconstructPath, back, Rec, at
<1>13. [i \in 1..(m - 1) + 1 |-> back[(m - 1) + 1 - i]] = p
  <2>1. (m - 1) + 1 = m
    BY <1>1
  <2>2. \A i \in 1..m : back[m - i] = p[i]
    <3>. SUFFICES ASSUME NEW i \in 1..m PROVE back[m - i] = p[i]
      OBVIOUS
    <3>1. m - i \in 0..last /\ m - i < m /\ m - (m - i) = i
      BY <1>1, <1>2, NodesFinite
    <3>. QED
      BY <1>10, <3>1
  <2>3. p = [i \in 1..m |-> p[i]]
    BY <1>1
  <2>. QED
    BY <2>1, <2>2, <2>3
<1>. HIDE DEF at
<1>. QED
  BY <1>11, <1>12, <1>13

(* What the answer for two nodes is: a path of the least cost, if any. *)
IsShortest(edges, s, t, answer) ==
    /\ IF answer.distance = Infinity THEN answer.path = <<>> /\ PathsBetween(edges, s, t) = {}
       ELSE LeadsTo(edges, s, t, answer.path, answer.distance)
    /\ \A p \in PathsBetween(edges, s, t) : answer.distance <= PathCost(edges, p)

(* No path leads on to what has not been reached, or costs less. *)
LEMMA NoPathIsShorter ==
    ASSUME GraphAssumption, NEW edges \in Seq(Edge), NEW source \in Nodes, NEW target \in Nodes,
           NEW st, NEW done, Reached(edges, source, st, done),
           NEW p \in PathsBetween(edges, source, target)
    PROVE  st.dist[target] # Infinity /\ st.dist[target] <= PathCost(edges, p)
<1>1. PICK m \in 1..NodeCount : p \in [1..m -> Nodes]
  BY DEF PathsBetween, SimplePaths
<1>2. m \in Nat /\ m > 0 /\ Len(p) = m
  <2>1. m \in Nat /\ m > 0
    BY NodesFinite
  <2>. QED
    BY <1>1, <2>1, RowIsSequence
<1>3. /\ p[1] = source /\ p[m] = target
      /\ \A i \in 1..m - 1 : Adjacent(edges, p[i], p[i + 1])
  BY <1>2 DEF PathsBetween, Adjacent
<1>4. \A i \in 1..m - 1 : Length(edges, p[i], p[i + 1]) \in Nat
  BY <1>3, EdgesLeadBack
<1>5. PICK f : SumTo(f, m - 1, Lengths(edges, p)) /\ PathCost(edges, p) = f[m - 1]
  <2>1. Len(p) \in Nat /\ Len(p) > 0
    BY <1>2
  <2>2. \A i \in 1..Len(p) - 1 : Length(edges, p[i], p[i + 1]) \in Int
    BY <1>2, <1>4
  <2>3. \E f : /\ SumTo(f, Len(p) - 1, Lengths(edges, p))
               /\ PathCost(edges, p) = f[Len(p) - 1]
    BY <2>1, <2>2, CostOfPath
  <2>. QED
    BY <1>2, <2>3
<1>6. /\ f \in [0..m - 1 -> Int] /\ f[0] = 0
      /\ \A i \in 1..m - 1 : f[i] = f[i - 1] + Length(edges, p[i], p[i + 1])
  BY <1>2, <1>5 DEF SumTo, Lengths
<1>7. /\ st.dist[source] = 0
      /\ \A v \in Nodes : st.dist[v] # Infinity => st.dist[v] \in Nat
      /\ \A u, v \in Nodes : st.dist[u] # Infinity /\ Adjacent(edges, u, v) =>
            st.dist[v] # Infinity /\ st.dist[v] <= st.dist[u] + Length(edges, u, v)
  <2>1. \A v \in Nodes : st.dist[v] # Infinity => v \in done
    BY DEF Reached, Searched
  <2>2. st \in States
    BY DEF Reached, Searched
  <2>. QED
    BY <2>1, <2>2 DEF Reached, Searched, States
<1>. DEFINE last == m - 1
            S == {i \in 0..last : st.dist[p[i + 1]] # Infinity /\ st.dist[p[i + 1]] <= f[i]}
<1>8. last \in Nat
  BY <1>2
<1>9. 0 \in S
  BY <1>3, <1>6, <1>7, <1>8 DEF Infinity
<1>10. ASSUME NEW i \in 0 + 1..last, i - 1 \in S PROVE i \in S
  <2>1. i \in 1..last /\ i \in 0..last /\ i - 1 \in 0..last /\ (i - 1) + 1 = i /\ i \in 1..m /\ i + 1 \in 1..m
    BY <1>2
  <2>2. st.dist[p[i]] # Infinity /\ st.dist[p[i]] <= f[i - 1] /\ p[i] \in Nodes /\ p[i + 1] \in Nodes
    BY <1>1, <1>10, <2>1
  <2>3. st.dist[p[i + 1]] # Infinity /\ st.dist[p[i + 1]] <= st.dist[p[i]] + Length(edges, p[i], p[i + 1])
    BY <1>3, <1>7, <2>1, <2>2
  <2>4. st.dist[p[i]] \in Nat /\ st.dist[p[i + 1]] \in Nat
    BY <1>7, <2>2, <2>3
  <2>5. f[i] = f[i - 1] + Length(edges, p[i], p[i + 1]) /\ f[i - 1] \in Int /\ f[i] \in Int
    BY <1>6, <2>1
  <2>6. Length(edges, p[i], p[i + 1]) \in Nat
    BY <1>4, <2>1
  <2>7. st.dist[p[i + 1]] <= f[i]
    BY <2>2, <2>3, <2>4, <2>5, <2>6, SMTT(60)
  <2>. QED
    BY <2>1, <2>3, <2>7
<1>. HIDE DEF S, last
<1>11. last \in S
  <2>1. \A i \in 0 + 1..last : i - 1 \in S => i \in S
    BY <1>10
  <2>2. last \in Int /\ last \in 0..last
    BY <1>8
  <2>3. \A i \in 0..last : i \in S
    BY <1>9, <2>1, <2>2, EveryOne, SMTT(60)
  <2>. QED
    BY <2>2, <2>3
<1>12. last + 1 = m
  BY <1>2 DEF last
<1>. QED
  BY <1>3, <1>5, <1>11, <1>12 DEF S, last

(* The answer of the search is a shortest path. *)
LEMMA PathIsShortest ==
    ASSUME GraphAssumption, NEW edges \in Seq(Edge), NEW source \in Nodes, NEW target \in Nodes
    PROVE  IsShortest(edges, source, target, ShortestPath(edges, source, target))
<1>. DEFINE st == Dijkstra(edges, source)
            answer == ShortestPath(edges, source, target)
<1>1. PICK done : Reached(edges, source, st, done)
  BY DijkstraEnds
<1>2. /\ answer.distance = st.dist[target]
      /\ answer.path = IF st.dist[target] = Infinity THEN <<>>
                       ELSE ReconstructPath(source, target, st.prev)
  BY DEF ShortestPath
<1>. HIDE DEF st, answer
<1>3. \A p \in PathsBetween(edges, source, target) :
         st.dist[target] # Infinity /\ st.dist[target] <= PathCost(edges, p)
  BY <1>1, NoPathIsShorter
<1>4. IsShortest(edges, source, target, answer)
  <2>1. CASE st.dist[target] = Infinity
    <3>1. PathsBetween(edges, source, target) = {}
      BY <1>3, <2>1
    <3>. QED
      BY <1>2, <2>1, <3>1 DEF IsShortest
  <2>2. CASE st.dist[target] # Infinity
    <3>1. PICK p : IsTrail(edges, source, st, done, target, p)
      BY <1>1, <2>2 DEF Reached, Trailed
    <3>2. Searched(edges, source, st, done)
      BY <1>1 DEF Reached
    <3>3. answer.path = p
      BY <1>2, <2>2, <3>1, <3>2, TrailIsReconstructed
    <3>4. LeadsTo(edges, source, target, p, st.dist[target])
      BY <2>2, <3>1, <3>2, TrailIsPath
    <3>. QED
      BY <1>2, <1>3, <2>2, <3>3, <3>4 DEF IsShortest
  <2>. QED
    BY <2>1, <2>2
<1>. QED
  BY <1>4 DEF answer

-----------------------------------------------------------------------------
(* Connectivity *)

(* The edges that lead out of a side lead back into it. *)
LEMMA CrossesBetween ==
    ASSUME NEW edges \in Seq(Edge), NEW side, NEW i \in DOMAIN edges, Crosses(edges, i, side)
    PROVE  \E a \in side \cap Nodes, b \in Nodes \ side : IsBetween(edges[i], a, b)
<1>1. edges[i].u \in Nodes /\ edges[i].v \in Nodes
  <2>1. edges[i] \in Edge
    OBVIOUS
  <2>. QED
    BY <2>1 DEF Edge
<1>2. CASE edges[i].u \in side
  BY <1>1, <1>2 DEF Crosses, IsBetween
<1>3. CASE edges[i].u \notin side
  BY <1>1, <1>3 DEF Crosses, IsBetween
<1>. QED
  BY <1>2, <1>3

(* An edge between the two sides leads out of it. *)
LEMMA BetweenCrosses ==
    ASSUME NEW edges, NEW side, NEW i, NEW a \in side, NEW b, b \notin side, IsBetween(edges[i], a, b)
    PROVE  Crosses(edges, i, side)
BY DEF Crosses, IsBetween

(* What the search has visited, step by step. *)
LEMMA SearchSpreads ==
    ASSUME GraphAssumption, NEW edges \in Seq(Edge)
    PROVE  \E g : /\ IsConnected(edges) <=> g[NodeCount] = Nodes
                  /\ g[0] = {0}
                  /\ \A k \in 0..NodeCount : g[k] \subseteq Nodes
                  /\ \A k \in 1..NodeCount : g[k] = Spread(edges, g[k - 1])
<1>. DEFINE St == SUBSET Nodes
            step == [seen \in St |-> Spread(edges, seen)]
            Rec(f) == f = [k \in 0..NodeCount |->
                              IF k = 0 THEN {0} ELSE Spread(edges, f[k - 1])]
            g == CHOOSE f : Rec(f)
<1>1. NodeCount \in Nat /\ {0} \in St
  BY NodesFinite DEF Nodes
<1>2. step \in [St -> St] /\ \A seen \in St : step[seen] = Spread(edges, seen)
  BY DEF Spread
<1>. HIDE DEF St, step
<1>3. PICK f : Steps(f, St, {0}, step, NodeCount)
  BY <1>1, <1>2, StepsRepeat
<1>4. f \in [0..NodeCount -> St] /\ f[0] = {0} /\ \A k \in 1..NodeCount : f[k] = step[f[k - 1]]
  BY <1>3 DEF Steps
<1>5. \A k \in 0..NodeCount : f[k] = IF k = 0 THEN {0} ELSE Spread(edges, f[k - 1])
  <2>. SUFFICES ASSUME NEW k \in 0..NodeCount, k # 0 PROVE f[k] = Spread(edges, f[k - 1])
    BY <1>4
  <2>1. k \in 1..NodeCount /\ k - 1 \in 0..NodeCount
    BY <1>1
  <2>2. f[k - 1] \in St
    BY <1>4, <2>1
  <2>. QED
    BY <1>2, <1>4, <2>1, <2>2
<1>6. Rec(f)
  BY <1>4, <1>5
<1>7. Rec(g)
  <2>. HIDE DEF Rec
  <2>. QED
    BY <1>6
<1>. HIDE DEF g
<1>8. g[0] = {0} /\ \A k \in 1..NodeCount : g[k] = Spread(edges, g[k - 1])
  BY <1>1, <1>7, SMTT(60)
<1>9. IsConnected(edges) <=> g[NodeCount] = Nodes
  BY DEF IsConnected, g
<1>. HIDE DEF Rec
<1>10. \A k \in 0..NodeCount : g[k] \subseteq Nodes
  <2>. DEFINE S == {k \in 0..NodeCount : g[k] \subseteq Nodes}
  <2>1. 0 \in S
    BY <1>1, <1>8 DEF St
  <2>2. \A k \in 0 + 1..NodeCount : k - 1 \in S => k \in S
    <3>. SUFFICES ASSUME NEW k \in 0 + 1..NodeCount, g[k - 1] \subseteq Nodes PROVE k \in S
      OBVIOUS
    <3>1. k \in 1..NodeCount /\ k \in 0..NodeCount
      BY <1>1
    <3>. QED
      BY <1>8, <3>1 DEF Spread
  <2>. HIDE DEF S
  <2>3. \A k \in 0..NodeCount : k \in S
    BY <1>1, <2>1, <2>2, EveryOne
  <2>. QED
    BY <2>3 DEF S
<1>. QED
  BY <1>8, <1>9, <1>10

(* All nodes are visited exactly if the edges connect them. *)
LEMMA ConnectedIsConnects ==
    ASSUME GraphAssumption, NEW edges \in Seq(Edge)
    PROVE  IsConnected(edges) <=> Connects(edges, DOMAIN edges, Nodes)
<1>1. PICK g : /\ IsConnected(edges) <=> g[NodeCount] = Nodes
               /\ g[0] = {0}
               /\ \A k \in 0..NodeCount : g[k] \subseteq Nodes
               /\ \A k \in 1..NodeCount : g[k] = Spread(edges, g[k - 1])
  BY SearchSpreads
<1>2. /\ NodeCount \in Nat /\ 0 \in Nodes /\ 0 \in 0..NodeCount /\ NodeCount \in 0..NodeCount
      /\ \A k \in 0 + 1..NodeCount : k \in 1..NodeCount /\ k \in 0..NodeCount /\ k - 1 \in 0..NodeCount
  BY NodesFinite DEF Nodes
<1>3. ASSUME Connects(edges, DOMAIN edges, Nodes) PROVE g[NodeCount] = Nodes
  <2>. DEFINE S == {k \in 0..NodeCount : 0 \in g[k] /\ (g[k] = Nodes \/ Cardinality(g[k]) >= k + 1)}
  <2>1. 0 \in S
    <3>1. Cardinality({0}) = 1
      BY FS_Singleton, Zenon
    <3>2. 0 \in g[0] /\ Cardinality(g[0]) = 1
      BY <1>1, <3>1
    <3>. QED
      BY <1>2, <3>2
  <2>2. \A k \in 0 + 1..NodeCount : k - 1 \in S => k \in S
    <3>. SUFFICES ASSUME NEW k \in 0 + 1..NodeCount, k - 1 \in S PROVE k \in S
      OBVIOUS
    <3>. DEFINE old == g[k - 1]
                new == g[k]
    <3>1. k \in 1..NodeCount /\ k \in 0..NodeCount /\ k - 1 \in 0..NodeCount
      BY <1>2
    <3>2. 0 \in old /\ (old = Nodes \/ Cardinality(old) >= (k - 1) + 1)
      OBVIOUS
    <3>3. new = Spread(edges, old) /\ old \subseteq Nodes /\ new \subseteq Nodes
      BY <1>1, <3>1
    <3>4. old \subseteq new
      BY <3>3 DEF Spread
    <3>. HIDE DEF old, new
    <3>5. CASE old = Nodes
      <4>1. 0 \in new /\ new = Nodes
        BY <3>2, <3>3, <3>4, <3>5
      <4>. QED
        BY <3>1, <4>1 DEF new
    <3>6. CASE old # Nodes
      <4>1. PICK i \in DOMAIN edges : Crosses(edges, i, old)
        <5>1. old \in SUBSET Nodes /\ old \cap Nodes # {} /\ Nodes \ old # {}
          BY <3>2, <3>3, <3>6
        <5>. QED
          BY <1>3, <5>1 DEF Connects
      <4>2. PICK a \in old, b \in Nodes \ old : IsBetween(edges[i], a, b)
        BY <4>1, CrossesBetween
      <4>3. b \in new
        BY <3>3, <4>2 DEF Spread, WeightsBetween
      <4>4. IsFiniteSet(old) /\ IsFiniteSet(new)
        BY <3>3, NodesFinite, FS_Subset
      <4>5. Cardinality(old \cup {b}) = Cardinality(old) + 1
        BY <4>2, <4>4, FS_AddElement
      <4>6. old \cup {b} \subseteq new
        BY <3>4, <4>3
      <4>7. Cardinality(old \cup {b}) <= Cardinality(new)
        BY <4>4, <4>6, FS_Subset
      <4>8. Cardinality(old) \in Nat /\ Cardinality(new) \in Nat
        BY <4>4, FS_CardinalityType
      <4>9. Cardinality(new) >= k + 1
        BY <1>2, <3>1, <3>2, <3>6, <4>5, <4>7, <4>8
      <4>. QED
        BY <3>1, <3>2, <3>4, <4>9 DEF new
    <3>. QED
      BY <3>5, <3>6
  <2>. HIDE DEF S
  <2>3. NodeCount \in S
    BY <1>2, <2>1, <2>2, EveryOne, SMTT(60)
  <2>4. g[NodeCount] = Nodes \/ Cardinality(g[NodeCount]) >= NodeCount + 1
    BY <2>3 DEF S
  <2>5. Cardinality(g[NodeCount]) <= NodeCount
    BY <1>1, <1>2, NodesFinite, FS_Subset, ZenonT(60)
  <2>6. Cardinality(g[NodeCount]) \in Nat
    BY <1>1, <1>2, NodesFinite, FS_Subset, FS_CardinalityType
  <2>. QED
    BY <1>2, <2>4, <2>5, <2>6
<1>4. ASSUME g[NodeCount] = Nodes, NEW side \in SUBSET Nodes, side \cap Nodes # {}, Nodes \ side # {},
             \A i \in DOMAIN edges : ~Crosses(edges, i, side)
      PROVE  FALSE
  <2>. DEFINE own == IF 0 \in side THEN side ELSE Nodes \ side
              S == {k \in 0..NodeCount : g[k] \subseteq own}
  <2>1. \A i \in DOMAIN edges : \A a, b \in Nodes : IsBetween(edges[i], a, b) => (a \in own <=> b \in own)
    <3>. SUFFICES ASSUME NEW i \in DOMAIN edges, NEW a \in Nodes, NEW b \in Nodes, IsBetween(edges[i], a, b)
                  PROVE  a \in side <=> b \in side
      OBVIOUS
    <3>. QED
      BY <1>4 DEF Crosses, IsBetween
  <2>2. 0 \in own /\ own # Nodes /\ own \subseteq Nodes
    BY <1>2, <1>4
  <2>. HIDE DEF own
  <2>3. 0 \in S
    BY <1>1, <1>2, <2>2
  <2>4. \A k \in 0 + 1..NodeCount : k - 1 \in S => k \in S
    <3>. SUFFICES ASSUME NEW k \in 0 + 1..NodeCount, g[k - 1] \subseteq own, NEW v \in g[k] PROVE v \in own
      BY <1>2
    <3>1. v \in Spread(edges, g[k - 1]) /\ v \in Nodes /\ g[k - 1] \subseteq Nodes
      BY <1>1, <1>2
    <3>2. CASE v \in g[k - 1]
      BY <3>2
    <3>3. CASE v \notin g[k - 1]
      <4>1. PICK u \in g[k - 1] : WeightsBetween(edges, u, v) # {}
        BY <3>1, <3>3 DEF Spread
      <4>2. PICK i \in DOMAIN edges : IsBetween(edges[i], u, v)
        BY <4>1 DEF WeightsBetween
      <4>. QED
        BY <2>1, <3>1, <4>2
    <3>. QED
      BY <3>2, <3>3
  <2>. HIDE DEF S
  <2>5. NodeCount \in S
    BY <1>2, <2>3, <2>4, EveryOne, SMTT(60)
  <2>. QED
    BY <1>4, <2>2, <2>5 DEF S
<1>5. g[NodeCount] = Nodes => Connects(edges, DOMAIN edges, Nodes)
  BY <1>4 DEF Connects
<1>. QED
  BY <1>1, <1>3, <1>5

-----------------------------------------------------------------------------
(* Spanning trees *)

(* The edges join the nodes of that graph, at no negative cost. *)
Weighted(nodes, edges) ==
    /\ IsFiniteSet(nodes) /\ nodes # {}
    /\ DOMAIN edges \subseteq Nat /\ IsFiniteSet(DOMAIN edges)
    /\ \A i \in DOMAIN edges : edges[i].u \in nodes /\ edges[i].v \in nodes /\ edges[i].w \in Nat

(* The state of Kruskal's algorithm. *)
Accs(nodes, edges) ==
    [rest : SUBSET DOMAIN edges, set : [nodes -> nodes], tree : SUBSET DOMAIN edges]

(* Some edge is the first. *)
LEMMA FirstIsFirst ==
    ASSUME NEW nodes, NEW edges, Weighted(nodes, edges),
           NEW rest \in SUBSET DOMAIN edges, rest # {}
    PROVE  /\ FirstOf(edges, rest) \in rest
           /\ \A j \in rest : Before(edges, FirstOf(edges, rest), j)
<1>1. rest \subseteq Nat /\ \A i \in rest : edges[i].w \in Nat
  BY DEF Weighted
<1>. DEFINE costs == {edges[i].w : i \in rest}
<1>2. PICK c \in costs : \A d \in costs : c <= d
  <2>1. costs \subseteq Nat /\ costs # {}
    BY <1>1
  <2>. HIDE DEF costs
  <2>. QED
    BY <2>1, LeastOf
<1>. DEFINE ones == {i \in rest : edges[i].w = c}
<1>3. PICK i \in ones : \A j \in ones : i <= j
  <2>1. ones \subseteq Nat /\ ones # {}
    BY <1>1, <1>2
  <2>. HIDE DEF ones
  <2>. QED
    BY <2>1, LeastOf
<1>4. i \in rest /\ edges[i].w = c /\ \A j \in rest : c <= edges[j].w
  BY <1>2, <1>3
<1>5. \A j \in rest : Before(edges, i, j)
  <2>. SUFFICES ASSUME NEW j \in rest PROVE Before(edges, i, j)
    OBVIOUS
  <2>1. c <= edges[j].w /\ edges[j].w \in Nat /\ c \in Nat
    BY <1>1, <1>4
  <2>2. edges[j].w = c => i <= j
    BY <1>3
  <2>. QED
    BY <1>4, <2>1, <2>2 DEF Before
<1>. QED
  BY <1>4, <1>5 DEF FirstOf

(* The edge i is the next; it is taken if it joins two sets. *)
Takes(edges, acc, i, next) ==
    LET e == edges[i] IN
    /\ i \in acc.rest /\ \A j \in acc.rest : Before(edges, i, j)
    /\ next.rest = acc.rest \ {i}
    /\ IF acc.set[e.u] = acc.set[e.v] THEN next.set = acc.set /\ next.tree = acc.tree
       ELSE next.set = Union(acc.set, e.u, e.v) /\ next.tree = acc.tree \cup {i}

(* An edge is looked at, and taken or not. *)
LEMMA TakeDoes ==
    ASSUME NEW nodes, NEW edges, Weighted(nodes, edges),
           NEW acc \in Accs(nodes, edges), acc.rest # {}
    PROVE  /\ Take(edges, acc) \in Accs(nodes, edges)
           /\ Takes(edges, acc, FirstOf(edges, acc.rest), Take(edges, acc))
<1>. DEFINE i == FirstOf(edges, acc.rest)
            e == edges[i]
            rest == acc.rest \ {i}
            joins == acc.set[e.u] # acc.set[e.v]
<1>1. acc.rest \in SUBSET DOMAIN edges /\ acc.set \in [nodes -> nodes] /\ acc.tree \in SUBSET DOMAIN edges
      /\ acc = [rest |-> acc.rest, set |-> acc.set, tree |-> acc.tree]
  BY DEF Accs
<1>2. i \in acc.rest /\ \A j \in acc.rest : Before(edges, i, j)
  BY <1>1, FirstIsFirst
<1>3. e.u \in nodes /\ e.v \in nodes
  BY <1>1, <1>2 DEF Weighted
<1>4. Take(edges, acc) = IF ~joins THEN [acc EXCEPT !.rest = rest]
        ELSE [rest |-> rest, set |-> Union(acc.set, e.u, e.v), tree |-> acc.tree \cup {i}]
  BY DEF Take
<1>. HIDE DEF i
<1>5. Union(acc.set, e.u, e.v) \in [nodes -> nodes]
  BY <1>1, <1>3 DEF Union
<1>6. CASE joins
  <2>1. Take(edges, acc) = [rest |-> rest, set |-> Union(acc.set, e.u, e.v), tree |-> acc.tree \cup {i}]
    BY <1>4, <1>6
  <2>2. Take(edges, acc) \in Accs(nodes, edges)
    BY <1>1, <1>2, <1>5, <2>1 DEF Accs
  <2>3. Takes(edges, acc, i, Take(edges, acc))
    BY <1>2, <1>6, <2>1 DEF Takes
  <2>. QED
    BY <2>2, <2>3 DEF i
<1>7. CASE ~joins
  <2>1. Take(edges, acc) = [rest |-> rest, set |-> acc.set, tree |-> acc.tree]
    BY <1>1, <1>4, <1>7
  <2>2. Take(edges, acc) \in Accs(nodes, edges)
    BY <1>1, <2>1 DEF Accs
  <2>3. Takes(edges, acc, i, Take(edges, acc))
    BY <1>2, <1>7, <2>1 DEF Takes
  <2>. QED
    BY <2>2, <2>3 DEF i
<1>. QED
  BY <1>6, <1>7

(* The representatives of the sets. *)
Labels(nodes, set) == {set[x] : x \in nodes}

(* The sets hold together the ends of the edges that were looked at, the   *)
(* tree holds together the sets, and every edge taken made one set of two. *)
Spanned(nodes, edges, acc) ==
    /\ acc \in Accs(nodes, edges) /\ acc.tree \cap acc.rest = {}
    /\ \A i \in DOMAIN edges \ acc.rest : acc.set[edges[i].u] = acc.set[edges[i].v]
    /\ \A side \in SUBSET nodes : (\A i \in acc.tree : ~Crosses(edges, i, side)) =>
          \A a, b \in nodes : acc.set[a] = acc.set[b] => (a \in side <=> b \in side)
    /\ Cardinality(Labels(nodes, acc.set)) = Cardinality(nodes) - Cardinality(acc.tree)

(* At first every node is a set of its own. *)
LEMMA SpanStarts ==
    ASSUME NEW nodes, NEW edges, Weighted(nodes, edges)
    PROVE  Spanned(nodes, edges, [rest |-> DOMAIN edges, set |-> [x \in nodes |-> x], tree |-> {}])
<1>. DEFINE acc == [rest |-> DOMAIN edges, set |-> [x \in nodes |-> x], tree |-> {}]
<1>1. /\ acc \in Accs(nodes, edges) /\ acc.tree = {} /\ acc.rest = DOMAIN edges
      /\ \A a \in nodes : acc.set[a] = a
  BY DEF Accs
<1>. HIDE DEF acc
<1>2. Labels(nodes, acc.set) = nodes
  BY <1>1 DEF Labels
<1>3. Cardinality({}) = 0
  BY FS_EmptySet, Zenon
<1>4. Cardinality(nodes) \in Nat
  BY FS_CardinalityType DEF Weighted
<1>5. Cardinality(Labels(nodes, acc.set)) = Cardinality(nodes) - Cardinality(acc.tree)
  BY <1>1, <1>2, <1>3, <1>4
<1>6. Spanned(nodes, edges, acc)
  BY <1>1, <1>5 DEF Spanned
<1>. QED
  BY <1>6 DEF acc

(* Taking an edge keeps this up. *)
LEMMA TakeSpans ==
    ASSUME NEW nodes, NEW edges, Weighted(nodes, edges),
           NEW acc, Spanned(nodes, edges, acc), acc.rest # {}
    PROVE  Spanned(nodes, edges, Take(edges, acc))
<1>. DEFINE i == FirstOf(edges, acc.rest)
            next == Take(edges, acc)
            a == edges[i].u
            b == edges[i].v
<1>1. acc \in Accs(nodes, edges)
  BY DEF Spanned
<1>2. next \in Accs(nodes, edges) /\ Takes(edges, acc, i, next)
  BY <1>1, TakeDoes
<1>. HIDE DEF i, next
<1>3. i \in acc.rest /\ i \in DOMAIN edges /\ next.rest = acc.rest \ {i} /\ a \in nodes /\ b \in nodes
  BY <1>1, <1>2 DEF Takes, Accs, Weighted
<1>4. acc.set \in [nodes -> nodes] /\ acc.tree \subseteq DOMAIN edges
  BY <1>1 DEF Accs
<1>5. CASE acc.set[a] = acc.set[b]
  <2>1. next.set = acc.set /\ next.tree = acc.tree
    BY <1>2, <1>5 DEF Takes
  <2>2. next.tree \cap next.rest = {}
    BY <1>3, <2>1 DEF Spanned
  <2>3. \A j \in DOMAIN edges \ next.rest : next.set[edges[j].u] = next.set[edges[j].v]
    BY <1>3, <1>5, <2>1 DEF Spanned
  <2>4. Spanned(nodes, edges, next)
    BY <1>2, <2>1, <2>2, <2>3 DEF Spanned
  <2>. QED
    BY <2>4 DEF next
<1>6. CASE acc.set[a] # acc.set[b]
  <2>1. next.set = Union(acc.set, a, b) /\ next.tree = acc.tree \cup {i}
    BY <1>2, <1>6 DEF Takes
  <2>2. \A x \in nodes : next.set[x] = IF acc.set[x] = acc.set[b] THEN acc.set[a] ELSE acc.set[x]
    BY <1>4, <2>1 DEF Union
  <2>3. next.tree \cap next.rest = {}
    BY <1>3, <2>1 DEF Spanned
  <2>4. \A j \in DOMAIN edges \ next.rest : next.set[edges[j].u] = next.set[edges[j].v]
    <3>. SUFFICES ASSUME NEW j \in DOMAIN edges \ next.rest
                  PROVE  next.set[edges[j].u] = next.set[edges[j].v]
      OBVIOUS
    <3>1. edges[j].u \in nodes /\ edges[j].v \in nodes
      BY DEF Weighted
    <3>2. CASE j = i
      BY <1>3, <2>2, <3>2
    <3>3. CASE j # i
      <4>1. acc.set[edges[j].u] = acc.set[edges[j].v]
        BY <1>3, <3>3 DEF Spanned
      <4>. QED
        BY <2>2, <3>1, <4>1
    <3>. QED
      BY <3>2, <3>3
  <2>5. ASSUME NEW side \in SUBSET nodes, \A j \in next.tree : ~Crosses(edges, j, side),
               NEW x \in nodes, NEW y \in nodes, next.set[x] = next.set[y]
        PROVE  x \in side <=> y \in side
    <3>1. \A p, q \in nodes : acc.set[p] = acc.set[q] => (p \in side <=> q \in side)
      BY <2>1, <2>5 DEF Spanned
    <3>2. a \in side <=> b \in side
      BY <2>1, <2>5 DEF Crosses
    <3>. QED
      BY <1>3, <2>2, <2>5, <3>1, <3>2
  <2>6. Labels(nodes, next.set) = Labels(nodes, acc.set) \ {acc.set[b]}
    <3>1. \A x \in nodes : next.set[x] \in Labels(nodes, acc.set) /\ next.set[x] # acc.set[b]
      BY <1>3, <1>6, <2>2 DEF Labels
    <3>2. \A x \in nodes : acc.set[x] # acc.set[b] => next.set[x] = acc.set[x]
      BY <2>2
    <3>3. Labels(nodes, next.set) \subseteq Labels(nodes, acc.set) \ {acc.set[b]}
      BY <3>1 DEF Labels
    <3>4. Labels(nodes, acc.set) \ {acc.set[b]} \subseteq Labels(nodes, next.set)
      BY <3>2 DEF Labels
    <3>. QED
      BY <3>3, <3>4
  <2>7. IsFiniteSet(Labels(nodes, acc.set)) /\ acc.set[b] \in Labels(nodes, acc.set)
    <3>1. Labels(nodes, acc.set) \subseteq nodes
      BY <1>4 DEF Labels
    <3>2. IsFiniteSet(nodes)
      BY DEF Weighted
    <3>. QED
      BY <1>3, <3>1, <3>2, FS_Subset DEF Labels
  <2>8. Cardinality(Labels(nodes, next.set)) = Cardinality(Labels(nodes, acc.set)) - 1
    BY <2>6, <2>7, FS_RemoveElement
  <2>9. IsFiniteSet(acc.tree) /\ Cardinality(acc.tree) \in Nat
    BY <1>4, FS_Subset, FS_CardinalityType DEF Weighted
  <2>10. Cardinality(next.tree) = Cardinality(acc.tree) + 1
    <3>1. i \notin acc.tree
      BY <1>3 DEF Spanned
    <3>. QED
      BY <2>1, <2>9, <3>1, FS_AddElement
  <2>11. Cardinality(nodes) \in Nat
    BY FS_CardinalityType DEF Weighted
  <2>12. Cardinality(Labels(nodes, next.set)) = Cardinality(nodes) - Cardinality(next.tree)
    <3>1. Cardinality(Labels(nodes, acc.set)) = Cardinality(nodes) - Cardinality(acc.tree)
      BY DEF Spanned
    <3>. QED
      BY <2>8, <2>9, <2>10, <2>11, <3>1
  <2>13. Spanned(nodes, edges, next)
    BY <1>2, <2>3, <2>4, <2>5, <2>12 DEF Spanned
  <2>. QED
    BY <2>13 DEF next
<1>. QED
  BY <1>5, <1>6

(* Kruskal's algorithm, edge by edge. *)
SpanRun(nodes, edges, g) ==
    LET n == Cardinality(DOMAIN edges) IN
    /\ n \in Nat
    /\ MinimumSpanningTree(nodes, edges) =
          [ok |-> Cardinality(g[n].tree) = Cardinality(nodes) - 1, tree |-> g[n].tree]
    /\ g[0] = [rest |-> DOMAIN edges, set |-> [x \in nodes |-> x], tree |-> {}]
    /\ \A k \in 1..n : g[k] = Take(edges, g[k - 1]) /\ g[k - 1].rest # {}
    /\ \A k \in 0..n : Spanned(nodes, edges, g[k])
    /\ g[n].rest = {}

(* The edges can be taken one after the other. *)
LEMMA SpanRuns ==
    ASSUME NEW nodes, NEW edges, Weighted(nodes, edges)
    PROVE  \E g : SpanRun(nodes, edges, g)
<1>. DEFINE n == Cardinality(DOMAIN edges)
            start == [rest |-> DOMAIN edges, set |-> [x \in nodes |-> x], tree |-> {}]
            St == Accs(nodes, edges)
            step == [acc \in St |-> IF acc.rest = {} THEN acc ELSE Take(edges, acc)]
            Rec(f) == f = [k \in 0..n |-> IF k = 0 THEN start ELSE Take(edges, f[k - 1])]
            g == CHOOSE f : Rec(f)
            Good(f, k) == /\ Spanned(nodes, edges, f[k]) /\ IsFiniteSet(f[k].rest)
                          /\ Cardinality(f[k].rest) = n - k
<1>1. IsFiniteSet(DOMAIN edges) /\ n \in Nat
  BY FS_CardinalityType DEF Weighted
<1>2. Spanned(nodes, edges, start) /\ start.rest = DOMAIN edges
  BY SpanStarts
<1>3. start \in St
  BY <1>2 DEF Spanned
<1>4. step \in [St -> St] /\ \A acc \in St : acc.rest # {} => step[acc] = Take(edges, acc)
  BY TakeDoes
<1>. HIDE DEF n, start, St, step
<1>5. PICK f : Steps(f, St, start, step, n)
  BY <1>1, <1>3, <1>4, StepsRepeat
<1>6. f \in [0..n -> St] /\ f[0] = start /\ \A k \in 1..n : f[k] = step[f[k - 1]]
  BY <1>5 DEF Steps
<1>7. ASSUME NEW h, NEW k \in 1..n, Good(h, k - 1), h[k] = Take(edges, h[k - 1])
      PROVE  Good(h, k)
  <2>1. h[k - 1].rest # {}
    <3>1. Cardinality(h[k - 1].rest) # 0
      BY <1>1, <1>7
    <3>. QED
      BY <3>1, FS_EmptySet
  <2>2. Spanned(nodes, edges, h[k])
    BY <1>7, <2>1, TakeSpans
  <2>3. h[k - 1] \in Accs(nodes, edges)
    BY <1>7 DEF Spanned
  <2>4. Takes(edges, h[k - 1], FirstOf(edges, h[k - 1].rest), h[k])
    BY <1>7, <2>1, <2>3, TakeDoes
  <2>. DEFINE i == FirstOf(edges, h[k - 1].rest)
              rest == h[k - 1].rest
  <2>5. i \in rest /\ h[k].rest = rest \ {i}
    BY <2>4 DEF Takes
  <2>. HIDE DEF i, rest
  <2>6. IsFiniteSet(rest) /\ Cardinality(rest) = n - (k - 1)
    BY <1>7 DEF rest
  <2>7. IsFiniteSet(rest \ {i}) /\ Cardinality(rest \ {i}) = Cardinality(rest) - 1
    BY <2>5, <2>6, FS_RemoveElement
  <2>. QED
    BY <1>1, <2>2, <2>5, <2>6, <2>7
<1>8. \A h : h[0] = start => Good(h, 0)
  BY <1>1, <1>2 DEF n
<1>9. ASSUME NEW h, h[0] = start, \A k \in 1..n : Good(h, k - 1) => h[k] = Take(edges, h[k - 1])
      PROVE  \A k \in 0..n : Good(h, k)
  <2>. DEFINE S == {k \in 0..n : Good(h, k)}
  <2>1. 0 \in S
    <3>1. Good(h, 0)
      BY <1>8, <1>9
    <3>. HIDE DEF Good
    <3>. QED
      BY <1>1, <3>1
  <2>2. \A k \in 0 + 1..n : k - 1 \in S => k \in S
    <3>. SUFFICES ASSUME NEW k \in 0 + 1..n, Good(h, k - 1) PROVE k \in S
      OBVIOUS
    <3>1. k \in 1..n /\ k \in 0..n
      BY <1>1
    <3>2. h[k] = Take(edges, h[k - 1])
      BY <1>9, <3>1
    <3>3. Good(h, k)
      BY <1>7, <3>1, <3>2
    <3>. HIDE DEF Good
    <3>. QED
      BY <3>1, <3>3
  <2>. HIDE DEF S
  <2>3. \A k \in 0..n : k \in S
    BY <1>1, <2>1, <2>2, EveryOne
  <2>. QED
    BY <2>3 DEF S
<1>10. ASSUME NEW h, NEW k \in 1..n, Good(h, k - 1) PROVE h[k - 1].rest # {} /\ h[k - 1] \in St
  <2>1. Cardinality(h[k - 1].rest) # 0
    BY <1>1, <1>10
  <2>. QED
    BY <1>10, <2>1, FS_EmptySet DEF Spanned, St
<1>. HIDE DEF Good
<1>11. \A k \in 1..n : Good(f, k - 1) => f[k] = Take(edges, f[k - 1])
  BY <1>4, <1>6, <1>10
<1>12. \A k \in 0..n : Good(f, k)
  BY <1>6, <1>9, <1>11
<1>13. \A k \in 1..n : f[k] = Take(edges, f[k - 1])
  <2>. SUFFICES ASSUME NEW k \in 1..n PROVE f[k] = Take(edges, f[k - 1])
    OBVIOUS
  <2>1. k - 1 \in 0..n
    BY <1>1
  <2>. QED
    BY <1>11, <1>12, <2>1
<1>14. Rec(f)
  <2>1. DOMAIN f = 0..n /\ f = [k \in 0..n |-> f[k]]
    BY <1>6
  <2>2. \A k \in 0..n : k # 0 => k \in 1..n
    BY <1>1
  <2>3. \A k \in 0..n : f[k] = IF k = 0 THEN start ELSE Take(edges, f[k - 1])
    BY <1>6, <1>13, <2>2
  <2>. QED
    BY <2>1, <2>3
<1>15. Rec(g)
  <2>. HIDE DEF Rec
  <2>. QED
    BY <1>14
<1>. HIDE DEF g
<1>16. g[0] = start /\ \A k \in 1..n : g[k] = Take(edges, g[k - 1])
  BY <1>1, <1>15
<1>17. \A k \in 0..n : Good(g, k)
  BY <1>9, <1>16
<1>18. MinimumSpanningTree(nodes, edges) =
          [ok |-> Cardinality(g[n].tree) = Cardinality(nodes) - 1, tree |-> g[n].tree]
  BY DEF MinimumSpanningTree, g, n, start
<1>. HIDE DEF Rec
<1>19. \A k \in 1..n : g[k - 1].rest # {}
  <2>. SUFFICES ASSUME NEW k \in 1..n PROVE g[k - 1].rest # {}
    OBVIOUS
  <2>1. k - 1 \in 0..n
    BY <1>1
  <2>. QED
    BY <1>10, <1>17, <2>1
<1>20. \A k \in 0..n : Spanned(nodes, edges, g[k])
  BY <1>17 DEF Good
<1>21. g[n].rest = {}
  <2>1. n \in 0..n
    BY <1>1
  <2>2. IsFiniteSet(g[n].rest) /\ Cardinality(g[n].rest) = n - n
    BY <1>17, <2>1 DEF Good
  <2>3. Cardinality(g[n].rest) = 0
    BY <1>1, <2>2
  <2>. QED
    BY <2>2, <2>3, FS_EmptySet
<1>. QED
  <2>1. SpanRun(nodes, edges, g)
    BY <1>1, <1>16, <1>18, <1>19, <1>20, <1>21 DEF n, start, SpanRun
  <2>. QED
    BY <2>1

(* The edges lead out of every part of the nodes. *)
Joined(nodes, edges, tree) ==
    \A side \in SUBSET nodes :
        side # {} /\ side # nodes => \E i \in tree : Crosses(edges, i, side)

(* The tree joins the nodes, if all edges do. *)
LEMMA SpanEnds ==
    ASSUME NEW nodes, NEW edges, Weighted(nodes, edges)
    PROVE  /\ MinimumSpanningTree(nodes, edges).tree \in SUBSET DOMAIN edges
           /\ MinimumSpanningTree(nodes, edges).ok <=> Joined(nodes, edges, DOMAIN edges)
           /\ MinimumSpanningTree(nodes, edges).ok =>
                 Joined(nodes, edges, MinimumSpanningTree(nodes, edges).tree)
<1>1. PICK g : SpanRun(nodes, edges, g)
  BY SpanRuns
<1>. DEFINE n == Cardinality(DOMAIN edges)
            acc == g[n]
<1>2. /\ MinimumSpanningTree(nodes, edges).ok <=> Cardinality(acc.tree) = Cardinality(nodes) - 1
      /\ MinimumSpanningTree(nodes, edges).tree = acc.tree
      /\ Spanned(nodes, edges, acc) /\ acc.rest = {}
  <2>1. n \in Nat /\ n \in 0..n
    BY <1>1 DEF SpanRun
  <2>2. Spanned(nodes, edges, acc) /\ acc.rest = {}
    BY <1>1, <2>1 DEF SpanRun
  <2>3. MinimumSpanningTree(nodes, edges) =
          [ok |-> Cardinality(acc.tree) = Cardinality(nodes) - 1, tree |-> acc.tree]
    BY <1>1, Zenon DEF SpanRun
  <2>. HIDE DEF acc, n
  <2>4. MinimumSpanningTree(nodes, edges).ok = (Cardinality(acc.tree) = Cardinality(nodes) - 1)
    BY <2>3
  <2>5. MinimumSpanningTree(nodes, edges).tree = acc.tree
    BY <2>3
  <2>. QED
    BY <2>2, <2>4, <2>5, Zenon
<1>. HIDE DEF acc
<1>3. acc.set \in [nodes -> nodes] /\ acc.tree \in SUBSET DOMAIN edges
  BY <1>2 DEF Spanned, Accs
<1>4. IsFiniteSet(nodes) /\ Cardinality(nodes) \in Nat /\ Cardinality(acc.tree) \in Nat
  BY <1>3, FS_CardinalityType, FS_Subset DEF Weighted
<1>5. Cardinality(Labels(nodes, acc.set)) = Cardinality(nodes) - Cardinality(acc.tree)
  BY <1>2 DEF Spanned
<1>6. IsFiniteSet(Labels(nodes, acc.set))
  <2>1. Labels(nodes, acc.set) \subseteq nodes
    BY <1>3 DEF Labels
  <2>. QED
    BY <1>4, <2>1, FS_Subset
<1>7. MinimumSpanningTree(nodes, edges).ok <=> Cardinality(Labels(nodes, acc.set)) = 1
  BY <1>2, <1>4, <1>5
<1>8. Cardinality(Labels(nodes, acc.set)) = 1 <=> \E l : Labels(nodes, acc.set) = {l}
  <2>. DEFINE ls == Labels(nodes, acc.set)
  <2>1. IsFiniteSet(ls)
    BY <1>6
  <2>. HIDE DEF ls
  <2>2. Cardinality(ls) = 1 <=> \E l : ls = {l}
    BY <2>1, FS_Singleton, Zenon
  <2>. QED
    BY <2>2 DEF ls
<1>9. ASSUME \E l : Labels(nodes, acc.set) = {l} PROVE Joined(nodes, edges, acc.tree)
  <2>1. \A a, b \in nodes : acc.set[a] = acc.set[b]
    BY <1>9 DEF Labels
  <2>2. ASSUME NEW side \in SUBSET nodes, side # {}, side # nodes,
               \A i \in acc.tree : ~Crosses(edges, i, side)
        PROVE  FALSE
    <3>1. PICK a \in side : TRUE
      BY <2>2
    <3>2. PICK b \in nodes : b \notin side
      BY <2>2
    <3>. QED
      BY <1>2, <2>1, <2>2, <3>1, <3>2 DEF Spanned
  <2>. QED
    BY <2>2 DEF Joined
<1>10. ASSUME Joined(nodes, edges, DOMAIN edges) PROVE \E l : Labels(nodes, acc.set) = {l}
  <2>1. PICK a \in nodes : TRUE
    BY DEF Weighted
  <2>2. \A b \in nodes : acc.set[b] = acc.set[a]
    <3>. SUFFICES ASSUME NEW b \in nodes, acc.set[b] # acc.set[a] PROVE FALSE
      OBVIOUS
    <3>. DEFINE side == {x \in nodes : acc.set[x] = acc.set[a]}
    <3>1. side \in SUBSET nodes /\ side # {} /\ side # nodes
      BY <2>1
    <3>2. PICK i \in DOMAIN edges : Crosses(edges, i, side)
      BY <1>10, <3>1 DEF Joined
    <3>3. acc.set[edges[i].u] = acc.set[edges[i].v]
      BY <1>2 DEF Spanned
    <3>4. edges[i].u \in nodes /\ edges[i].v \in nodes
      BY DEF Weighted
    <3>. QED
      BY <3>2, <3>3, <3>4 DEF Crosses
  <2>3. Labels(nodes, acc.set) = {acc.set[a]}
    BY <2>1, <2>2 DEF Labels
  <2>. QED
    BY <2>3
<1>11. Joined(nodes, edges, acc.tree) => Joined(nodes, edges, DOMAIN edges)
  BY <1>3 DEF Joined
<1>. QED
  BY <1>2, <1>3, <1>7, <1>8, <1>9, <1>10, <1>11

(* What edges cost whose numbers are up to n. *)
EdgeWeights(edges) == [i \in DOMAIN edges |-> edges[i].w]
Price(edges, n, tree) == Total(EdgeWeights(edges), tree, n)

(* The edges of a graph or of a metric closure, with numbers up to n. *)
Numbered(edges, n) ==
    n \in Nat /\ DOMAIN edges \subseteq 1..n /\ \A i \in DOMAIN edges : edges[i].w \in Nat

(* The edges have prices, and one more edge costs its weight. *)
LEMMA PriceType ==
    ASSUME NEW edges, NEW n, Numbered(edges, n), NEW tree \in SUBSET DOMAIN edges
    PROVE  /\ Weights(EdgeWeights(edges), tree) /\ Price(edges, n, tree) \in Nat
           /\ \A i \in DOMAIN edges \ tree :
                 Price(edges, n, tree \cup {i}) = Price(edges, n, tree) + edges[i].w
<1>. DEFINE w == EdgeWeights(edges)
<1>1. /\ n \in Nat /\ DOMAIN edges \subseteq 1..n
      /\ \A i \in DOMAIN edges : w[i] = edges[i].w /\ w[i] \in Nat
  BY DEF Numbered, EdgeWeights
<1>. HIDE DEF w
<1>2. Weights(w, tree)
  BY <1>1 DEF Weights
<1>3. Total(w, tree, n) \in Nat
  BY <1>1, <1>2, TotalType
<1>4. ASSUME NEW i \in DOMAIN edges \ tree
      PROVE  Total(w, tree \cup {i}, n) = Total(w, tree, n) + edges[i].w
  <2>1. Weights(w, tree \cup {i}) /\ i \in 1..n
    BY <1>1 DEF Weights
  <2>2. Total(w, tree \cup {i}, n) = Total(w, tree, n) + w[i]
    BY <1>1, <2>1, TotalOfMore
  <2>. QED
    BY <1>1, <2>2
<1>. QED
  BY <1>2, <1>3, <1>4 DEF Price, w

(* The cost of edges is their price. *)
LEMMA CostIsPrice ==
    ASSUME NEW edges \in Seq(Edge)
    PROVE  /\ Numbered(edges, Len(edges))
           /\ \A tree \in SUBSET DOMAIN edges : Cost(edges, tree) = Price(edges, Len(edges), tree)
<1>. DEFINE n == Len(edges)
            w == EdgeWeights(edges)
<1>1. n \in Nat /\ DOMAIN edges = 1..n /\ \A k \in 1..n : w[k] = edges[k].w /\ edges[k].w \in Nat
  <2>1. \A k \in 1..n : edges[k] \in Edge
    OBVIOUS
  <2>. QED
    BY <2>1 DEF EdgeWeights, Edge
<1>2. ASSUME NEW tree \in SUBSET DOMAIN edges PROVE Cost(edges, tree) = Price(edges, n, tree)
  <2>. DEFINE p == Addends(w, tree, n)
              Rec(f) == f = [k \in 0..n |-> IF k = 0 THEN 0
                                ELSE f[k - 1] + IF k \in tree THEN edges[k].w ELSE 0]
  <2>1. \A k \in 1..n : p[k] = IF k \in tree THEN edges[k].w ELSE 0
    BY <1>1 DEF Addends, Addend
  <2>2. \A f : Rec(f) <=> AddsUp(f, n, p)
    <3>. SUFFICES ASSUME NEW f PROVE Rec(f) <=> AddsUp(f, n, p)
      OBVIOUS
    <3>. HIDE DEF p
    <3>1. \A k \in 0..n : k # 0 => k \in 1..n
      BY <1>1
    <3>2. [k \in 0..n |-> IF k = 0 THEN 0 ELSE f[k - 1] + IF k \in tree THEN edges[k].w ELSE 0]
            = [k \in 0..n |-> IF k = 0 THEN 0 ELSE f[k - 1] + p[k]]
      <4>. HIDE DEF n
      <4>. QED
        BY <2>1, <3>1
    <3>. QED
      BY <3>2, Zenon DEF AddsUp
  <2>. HIDE DEF Rec
  <2>3. (CHOOSE f : Rec(f)) = (CHOOSE f : AddsUp(f, n, p))
    BY <2>2
  <2>4. Cost(edges, tree) = (CHOOSE f : Rec(f))[n]
    BY DEF Cost, Rec
  <2>5. Price(edges, n, tree) = (CHOOSE f : AddsUp(f, n, p))[n]
    BY DEF Price, Total
  <2>. QED
    BY <2>3, <2>4, <2>5
<1>3. Numbered(edges, n)
  BY <1>1 DEF Numbered
<1>. QED
  BY <1>2, <1>3

(* No edge of the set leads out of the side, and it parts a from b. *)
Separates(edges, tree, side, a, b) ==
    a \in side /\ b \notin side /\ \A j \in tree : ~Crosses(edges, j, side)

(* An edge between two parts of the tree takes the place of one of those   *)
(* that join them.                                                         *)
LEMMA ExchangeJoins ==
    ASSUME NEW nodes, NEW edges, Weighted(nodes, edges),
           NEW all \in SUBSET DOMAIN edges, Joined(nodes, edges, all),
           NEW tree \in SUBSET all, NEW i \in DOMAIN edges,
           NEW part \in SUBSET nodes, Separates(edges, tree, part, edges[i].u, edges[i].v)
    PROVE  \E f \in all \ tree : Joined(nodes, edges, (all \ {f}) \cup {i})
<1>. DEFINE a == edges[i].u
            b == edges[i].v
            Parted(t) == \E side \in SUBSET nodes : Separates(edges, t, side, a, b)
            Ds == {t \in SUBSET all : tree \subseteq t /\ Parted(t)}
            left == {Cardinality(all) - Cardinality(t) : t \in Ds}
<1>1. a \in nodes /\ b \in nodes /\ \A j \in DOMAIN edges : edges[j].u \in nodes /\ edges[j].v \in nodes
  BY DEF Weighted
<1>2. IsFiniteSet(all) /\ Cardinality(all) \in Nat
  BY FS_Subset, FS_CardinalityType DEF Weighted
<1>3. \A t \in SUBSET all : IsFiniteSet(t) /\ Cardinality(t) \in Nat /\ Cardinality(t) <= Cardinality(all)
  BY <1>2, FS_Subset, FS_CardinalityType
<1>4. PICK d \in Ds : \A t \in Ds : Cardinality(t) <= Cardinality(d)
  <2>1. tree \in Ds
    OBVIOUS
  <2>2. left \subseteq Nat
    <3>1. \A t \in Ds : Cardinality(all) - Cardinality(t) \in Nat
      BY <1>2, <1>3
    <3>. QED
      BY <3>1
  <2>3. left # {}
    BY <2>1
  <2>4. \E m \in left : \A x \in left : m <= x
    <3>. HIDE DEF left
    <3>. QED
      BY <2>2, <2>3, LeastOf
  <2>5. PICK m \in left : \A x \in left : m <= x
    BY <2>4
  <2>6. PICK t \in Ds : m = Cardinality(all) - Cardinality(t)
    BY <2>5
  <2>7. \A x \in Ds : Cardinality(all) - Cardinality(t) <= Cardinality(all) - Cardinality(x)
    BY <2>5, <2>6
  <2>8. \A x \in Ds : Cardinality(x) \in Nat
    BY <1>3
  <2>. HIDE DEF Ds
  <2>9. \A x \in Ds : Cardinality(x) <= Cardinality(t)
    BY <1>2, <2>6, <2>7, <2>8
  <2>. QED
    BY <2>6, <2>9
<1>5. d \in SUBSET all /\ tree \subseteq d
  BY <1>4
<1>6. PICK side \in SUBSET nodes : Separates(edges, d, side, a, b)
  BY <1>4
<1>7. PICK f \in all : f \notin d
  <2>1. PICK j \in all : Crosses(edges, j, side)
    <3>1. side # {} /\ side # nodes
      BY <1>1, <1>6 DEF Separates
    <3>. QED
      BY <3>1 DEF Joined
  <2>. QED
    BY <1>6, <2>1 DEF Separates
<1>8. \A s \in SUBSET nodes : Separates(edges, d, s, a, b) => Crosses(edges, f, s)
  <2>. SUFFICES ASSUME NEW s \in SUBSET nodes, Separates(edges, d, s, a, b), ~Crosses(edges, f, s) PROVE FALSE
    OBVIOUS
  <2>1. Separates(edges, d \cup {f}, s, a, b)
    BY DEF Separates
  <2>2. d \cup {f} \in Ds
    BY <1>5, <1>7, <2>1
  <2>3. Cardinality(d \cup {f}) = Cardinality(d) + 1
    BY <1>3, <1>5, <1>7, FS_AddElement
  <2>4. Cardinality(d \cup {f}) <= Cardinality(d) /\ Cardinality(d) \in Nat
    BY <1>3, <1>4, <1>5, <2>2
  <2>. QED
    BY <2>3, <2>4
<1>. HIDE DEF Ds, left, Parted
<1>. DEFINE new == (all \ {f}) \cup {i}
            x == edges[f].u
            y == edges[f].v
<1>9. x \in nodes /\ y \in nodes /\ d \subseteq DOMAIN edges
  BY <1>1, <1>5
<1>10. ASSUME NEW q \in SUBSET nodes, q # {}, q # nodes, \A j \in new : ~Crosses(edges, j, q),
              a \in q
       PROVE  FALSE
  <2>1. b \in q
    BY <1>10 DEF Crosses
  <2>2. \A j \in d : ~Crosses(edges, j, q) /\ ~Crosses(edges, j, side)
    BY <1>5, <1>6, <1>7, <1>10 DEF Separates
  <2>3. Crosses(edges, f, q)
    <3>1. PICK j \in all : Crosses(edges, j, q)
      BY <1>10 DEF Joined
    <3>. QED
      BY <1>10, <3>1
  <2>4. Crosses(edges, f, q \cap side)
    <3>1. \A j \in d : ~Crosses(edges, j, q \cap side)
      BY <2>2 DEF Crosses
    <3>2. Separates(edges, d, q \cap side, a, b)
      BY <1>6, <1>10, <3>1 DEF Separates
    <3>. QED
      BY <1>8, <3>2
  <2>5. Crosses(edges, f, side \cup (nodes \ q))
    <3>1. \A j \in d : ~Crosses(edges, j, side \cup (nodes \ q))
      BY <1>1, <1>9, <2>2 DEF Crosses
    <3>2. Separates(edges, d, side \cup (nodes \ q), a, b)
      BY <1>6, <2>1, <3>1 DEF Separates
    <3>. QED
      BY <1>8, <3>2
  <2>. QED
    BY <1>9, <2>3, <2>4, <2>5 DEF Crosses
<1>11. Joined(nodes, edges, new)
  <2>. SUFFICES ASSUME NEW q \in SUBSET nodes, q # {}, q # nodes, \A j \in new : ~Crosses(edges, j, q)
                PROVE  FALSE
    BY DEF Joined
  <2>1. CASE a \in q
    BY <1>10, <2>1
  <2>2. CASE a \notin q
    <3>. DEFINE r == nodes \ q
    <3>1. r \in SUBSET nodes /\ r # {} /\ r # nodes /\ a \in r
      BY <1>1, <2>2
    <3>2. \A j \in new : j \in DOMAIN edges
      OBVIOUS
    <3>3. \A j \in new : ~Crosses(edges, j, r)
      BY <1>1, <3>2 DEF Crosses
    <3>. HIDE DEF r, new
    <3>. QED
      BY <1>10, <3>1, <3>3
  <2>. QED
    BY <2>1, <2>2
<1>12. f \in all \ tree
  BY <1>5, <1>7
<1>. QED
  BY <1>11, <1>12

(* Whatever connects the nodes can be exchanged for the tree and some of   *)
(* the edges that are left, at no more cost.                               *)
Cheap(nodes, edges, n, acc) ==
    \A all \in SUBSET DOMAIN edges : Joined(nodes, edges, all) =>
        \E new \in SUBSET DOMAIN edges :
            /\ acc.tree \subseteq new /\ new \ acc.tree \subseteq acc.rest
            /\ Joined(nodes, edges, new) /\ Price(edges, n, new) <= Price(edges, n, all)

(* Taking an edge keeps this up: it is the lightest of those left. *)
LEMMA TakeIsCheap ==
    ASSUME NEW nodes, NEW edges, NEW n, Weighted(nodes, edges), Numbered(edges, n),
           NEW acc, Spanned(nodes, edges, acc), acc.rest # {}, Cheap(nodes, edges, n, acc)
    PROVE  Cheap(nodes, edges, n, Take(edges, acc))
<1>. DEFINE i == FirstOf(edges, acc.rest)
            next == Take(edges, acc)
            a == edges[i].u
            b == edges[i].v
<1>1. acc \in Accs(nodes, edges)
  BY DEF Spanned
<1>2. next \in Accs(nodes, edges) /\ Takes(edges, acc, i, next)
  BY <1>1, TakeDoes
<1>. HIDE DEF i, next
<1>3. /\ i \in acc.rest /\ i \in DOMAIN edges /\ next.rest = acc.rest \ {i}
      /\ a \in nodes /\ b \in nodes /\ acc.rest \subseteq DOMAIN edges
      /\ \A j \in acc.rest : Before(edges, i, j)
  BY <1>1, <1>2 DEF Takes, Accs, Weighted
<1>4. acc.set \in [nodes -> nodes] /\ acc.tree \subseteq DOMAIN edges /\ acc.tree \cap acc.rest = {}
  BY <1>1 DEF Accs, Spanned
<1>5. i \notin acc.tree
  BY <1>3, <1>4
<1>6. ASSUME NEW all \in SUBSET DOMAIN edges, Joined(nodes, edges, all),
             acc.tree \subseteq all, all \ acc.tree \subseteq acc.rest
      PROVE  \E new \in SUBSET DOMAIN edges :
                /\ next.tree \subseteq new /\ new \ next.tree \subseteq next.rest
                /\ Joined(nodes, edges, new) /\ Price(edges, n, new) <= Price(edges, n, all)
  <2>1. CASE acc.set[a] = acc.set[b]
    <3>. DEFINE new == all \ {i}
    <3>1. next.tree = acc.tree
      BY <1>2, <2>1 DEF Takes
    <3>2. Joined(nodes, edges, new)
      <4>. SUFFICES ASSUME NEW side \in SUBSET nodes, side # {}, side # nodes,
                           \A j \in new : ~Crosses(edges, j, side)
                    PROVE  FALSE
        BY DEF Joined
      <4>1. PICK j \in all : Crosses(edges, j, side)
        BY <1>6 DEF Joined
      <4>2. \A k \in acc.tree : ~Crosses(edges, k, side)
        BY <1>5, <1>6
      <4>3. a \in side <=> b \in side
        BY <1>3, <2>1, <4>2 DEF Spanned
      <4>. QED
        BY <4>1, <4>3 DEF Crosses
    <3>3. Price(edges, n, new) <= Price(edges, n, all)
      <4>1. CASE i \in all
        <5>1. i \notin new /\ new \cup {i} = all
          BY <4>1
        <5>2. /\ Price(edges, n, new) \in Nat /\ edges[i].w \in Nat
              /\ Price(edges, n, new \cup {i}) = Price(edges, n, new) + edges[i].w
          <6>1. new \in SUBSET DOMAIN edges /\ i \in DOMAIN edges \ new
            BY <1>3, <5>1
          <6>. HIDE DEF new
          <6>. QED
            BY <6>1, PriceType, ZenonT(60) DEF Numbered
        <5>. HIDE DEF new
        <5>3. Price(edges, n, all) = Price(edges, n, new) + edges[i].w
          BY <5>1, <5>2, Zenon
        <5>. QED
          BY <5>2, <5>3
      <4>2. CASE i \notin all
        <5>1. new = all
          BY <4>2
        <5>2. Price(edges, n, all) \in Nat
          BY PriceType
        <5>3. Price(edges, n, all) <= Price(edges, n, all)
          BY <5>2
        <5>. QED
          BY <5>1, <5>3, Zenon
      <4>. QED
        BY <4>1, <4>2
    <3>4. new \in SUBSET DOMAIN edges /\ next.tree \subseteq new /\ new \ next.tree \subseteq next.rest
      BY <1>3, <1>5, <1>6, <3>1
    <3>. HIDE DEF new
    <3>. QED
      BY <3>2, <3>3, <3>4
  <2>2. CASE acc.set[a] # acc.set[b] /\ i \in all
    <3>1. next.tree = acc.tree \cup {i}
      BY <1>2, <2>2 DEF Takes
    <3>2. next.tree \subseteq all /\ all \ next.tree \subseteq next.rest
      BY <1>3, <1>6, <2>2, <3>1
    <3>3. Price(edges, n, all) \in Nat
      BY PriceType
    <3>4. Price(edges, n, all) <= Price(edges, n, all)
      BY <3>3
    <3>. QED
      BY <1>6, <3>2, <3>4
  <2>3. CASE acc.set[a] # acc.set[b] /\ i \notin all
    <3>1. next.tree = acc.tree \cup {i}
      BY <1>2, <2>3 DEF Takes
    <3>. DEFINE part == {x \in nodes : acc.set[x] = acc.set[a]}
    <3>2. Separates(edges, acc.tree, part, a, b)
      <4>1. \A j \in acc.tree : acc.set[edges[j].u] = acc.set[edges[j].v]
        BY <1>4 DEF Spanned
      <4>2. \A j \in acc.tree : edges[j].u \in nodes /\ edges[j].v \in nodes
        BY <1>4 DEF Weighted
      <4>. QED
        BY <1>3, <2>3, <4>1, <4>2 DEF Separates, Crosses
    <3>3. part \in SUBSET nodes
      OBVIOUS
    <3>. HIDE DEF part
    <3>4. PICK f \in all \ acc.tree : Joined(nodes, edges, (all \ {f}) \cup {i})
      <4>. DEFINE tree == acc.tree
      <4>1. tree \in SUBSET all /\ i \in DOMAIN edges /\ part \in SUBSET nodes
        BY <1>3, <1>6, <3>3
      <4>2. Separates(edges, tree, part, edges[i].u, edges[i].v)
        BY <3>2
      <4>. HIDE DEF tree
      <4>3. \E f \in all \ tree : Joined(nodes, edges, (all \ {f}) \cup {i})
        BY <1>6, <4>1, <4>2, ExchangeJoins, ZenonT(60)
      <4>. QED
        BY <4>3 DEF tree
    <3>. DEFINE less == all \ {f}
                new == less \cup {i}
    <3>5. f \in acc.rest /\ f \in DOMAIN edges /\ f \notin less /\ less \cup {f} = all /\ i \notin less
          /\ less \in SUBSET DOMAIN edges
      BY <1>3, <1>6, <2>3, <3>4
    <3>. HIDE DEF less
    <3>6. /\ Price(edges, n, less) \in Nat /\ edges[f].w \in Nat
          /\ Price(edges, n, less \cup {f}) = Price(edges, n, less) + edges[f].w
      BY <3>5, PriceType, ZenonT(60) DEF Numbered
    <3>7. edges[i].w \in Nat /\ Price(edges, n, less \cup {i}) = Price(edges, n, less) + edges[i].w
      <4>1. i \in DOMAIN edges \ less /\ less \in SUBSET DOMAIN edges
        BY <1>3, <3>5
      <4>2. Price(edges, n, less \cup {i}) = Price(edges, n, less) + edges[i].w
        BY <4>1, PriceType
      <4>. QED
        BY <1>3, <4>2 DEF Numbered
    <3>8. edges[i].w <= edges[f].w
      BY <1>3, <3>5, <3>6, <3>7 DEF Before
    <3>9. Price(edges, n, new) <= Price(edges, n, all)
      <4>1. Price(edges, n, all) = Price(edges, n, less) + edges[f].w
        BY <3>5, <3>6, Zenon
      <4>2. Price(edges, n, new) = Price(edges, n, less) + edges[i].w
        BY <3>7, Zenon
      <4>. HIDE DEF new
      <4>. QED
        BY <3>6, <3>7, <3>8, <4>1, <4>2
    <3>10. new \in SUBSET DOMAIN edges /\ next.tree \subseteq new /\ new \ next.tree \subseteq next.rest
      BY <1>3, <1>6, <3>1, <3>4 DEF less
    <3>11. Joined(nodes, edges, new)
      BY <3>4 DEF less
    <3>. HIDE DEF new
    <3>. QED
      BY <3>9, <3>10, <3>11
  <2>. QED
    BY <2>1, <2>2, <2>3
<1>7. Cheap(nodes, edges, n, next)
  <2>. SUFFICES ASSUME NEW all \in SUBSET DOMAIN edges, Joined(nodes, edges, all)
                PROVE  \E new \in SUBSET DOMAIN edges :
                          /\ next.tree \subseteq new /\ new \ next.tree \subseteq next.rest
                          /\ Joined(nodes, edges, new) /\ Price(edges, n, new) <= Price(edges, n, all)
    BY DEF Cheap
  <2>1. PICK old \in SUBSET DOMAIN edges :
          /\ acc.tree \subseteq old /\ old \ acc.tree \subseteq acc.rest
          /\ Joined(nodes, edges, old) /\ Price(edges, n, old) <= Price(edges, n, all)
    BY DEF Cheap
  <2>2. PICK new \in SUBSET DOMAIN edges :
          /\ next.tree \subseteq new /\ new \ next.tree \subseteq next.rest
          /\ Joined(nodes, edges, new) /\ Price(edges, n, new) <= Price(edges, n, old)
    BY <1>6, <2>1
  <2>3. \A t \in SUBSET DOMAIN edges : Price(edges, n, t) \in Nat
    BY PriceType
  <2>4. Price(edges, n, new) <= Price(edges, n, all)
    BY <2>1, <2>2, <2>3
  <2>. QED
    BY <2>2, <2>4
<1>. QED
  BY <1>7 DEF next

(* A graph over the nodes is one that Kruskal's algorithm takes. *)
LEMMA GraphIsWeighted ==
    ASSUME GraphAssumption, NEW edges \in Seq(Edge)
    PROVE  Weighted(Nodes, edges)
<1>1. IsFiniteSet(Nodes) /\ 0 \in Nodes
  <2>1. IsFiniteSet(Nodes) /\ NodeCount \in Nat /\ NodeCount >= 1
    BY NodesFinite
  <2>. QED
    BY <2>1 DEF Nodes
<1>2. Len(edges) \in Nat /\ DOMAIN edges = 1..Len(edges) /\ \A i \in DOMAIN edges : edges[i] \in Edge
  OBVIOUS
<1>3. IsFiniteSet(DOMAIN edges)
  <2>1. IsFiniteSet(1..Len(edges))
    BY <1>2, FS_Interval
  <2>. QED
    BY <1>2, <2>1
<1>. QED
  BY <1>1, <1>2, <1>3 DEF Weighted, Edge

(* No other edges that connect the nodes cost less than the tree. *)
LEMMA SpanIsCheapest ==
    ASSUME NEW nodes, NEW edges, NEW n, Weighted(nodes, edges), Numbered(edges, n),
           NEW other \in SUBSET DOMAIN edges, Joined(nodes, edges, other)
    PROVE  Price(edges, n, MinimumSpanningTree(nodes, edges).tree) <= Price(edges, n, other)
<1>1. PICK g : SpanRun(nodes, edges, g)
  BY SpanRuns
<1>. DEFINE last == Cardinality(DOMAIN edges)
            S == {k \in 0..last : Cheap(nodes, edges, n, g[k])}
<1>2. last \in Nat /\ 0 \in 0..last
  BY <1>1 DEF SpanRun
<1>3. 0 \in S
  <2>1. g[0].tree = {} /\ g[0].rest = DOMAIN edges
    BY <1>1 DEF SpanRun
  <2>2. \A all \in SUBSET DOMAIN edges : Price(edges, n, all) \in Nat
    BY PriceType
  <2>3. \A all \in SUBSET DOMAIN edges : Price(edges, n, all) <= Price(edges, n, all)
    BY <2>2
  <2>4. Cheap(nodes, edges, n, g[0])
    BY <2>1, <2>3 DEF Cheap
  <2>. QED
    BY <1>2, <2>4
<1>4. \A k \in 0 + 1..last : k - 1 \in S => k \in S
  <2>. SUFFICES ASSUME NEW k \in 0 + 1..last, Cheap(nodes, edges, n, g[k - 1]) PROVE k \in S
    OBVIOUS
  <2>1. k \in 1..last /\ k \in 0..last /\ k - 1 \in 0..last
    BY <1>2
  <2>2. g[k] = Take(edges, g[k - 1]) /\ g[k - 1].rest # {} /\ Spanned(nodes, edges, g[k - 1])
    BY <1>1, <2>1 DEF SpanRun
  <2>3. Cheap(nodes, edges, n, g[k])
    BY <2>2, TakeIsCheap
  <2>. QED
    BY <2>1, <2>3
<1>. HIDE DEF S
<1>5. last \in S
  <2>1. last \in Int /\ 0 \in Int /\ last \in 0..last
    BY <1>2
  <2>2. \A k \in 0..last : k \in S
    BY <1>3, <1>4, <2>1, EveryOne
  <2>. QED
    BY <2>1, <2>2
<1>6. g[last].rest = {} /\ MinimumSpanningTree(nodes, edges).tree = g[last].tree
  <2>1. g[last].rest = {}
    BY <1>1 DEF SpanRun
  <2>2. MinimumSpanningTree(nodes, edges) =
          [ok |-> Cardinality(g[last].tree) = Cardinality(nodes) - 1, tree |-> g[last].tree]
    BY <1>1, Zenon DEF SpanRun
  <2>. HIDE DEF last
  <2>. QED
    BY <2>1, <2>2
<1>7. PICK new \in SUBSET DOMAIN edges :
        /\ g[last].tree \subseteq new /\ new \ g[last].tree \subseteq g[last].rest
        /\ Price(edges, n, new) <= Price(edges, n, other)
  BY <1>5 DEF S, Cheap
<1>8. new = MinimumSpanningTree(nodes, edges).tree
  BY <1>6, <1>7
<1>. QED
  BY <1>7, <1>8, Zenon

(* To connect all nodes is to lead out of every part of them. *)
LEMMA ConnectsIsJoined ==
    ASSUME NEW edges, NEW tree
    PROVE  Connects(edges, tree, Nodes) <=> Joined(Nodes, edges, tree)
BY DEF Connects, Joined

(* What the tree of a graph is. *)
LEMMA TreeIsMinimal ==
    ASSUME GraphAssumption, NEW edges \in Seq(Edge)
    PROVE  LET tree == MinimumSpanningTree(Nodes, edges) IN
           /\ tree.ok <=> Connects(edges, DOMAIN edges, Nodes)
           /\ IsConnected(edges) <=> tree.ok
           /\ tree.ok => /\ Connects(edges, tree.tree, Nodes)
                         /\ \A other \in SUBSET DOMAIN edges :
                               Cost(edges, other) < Cost(edges, tree.tree)
                                   => ~Connects(edges, other, Nodes)
<1>. DEFINE tree == MinimumSpanningTree(Nodes, edges)
<1>1. Weighted(Nodes, edges)
  BY GraphIsWeighted
<1>2. /\ tree.tree \in SUBSET DOMAIN edges
      /\ tree.ok <=> Joined(Nodes, edges, DOMAIN edges)
      /\ tree.ok => Joined(Nodes, edges, tree.tree)
  BY <1>1, SpanEnds
<1>3. \A other \in SUBSET DOMAIN edges :
         Joined(Nodes, edges, other) => Cost(edges, tree.tree) <= Cost(edges, other)
  <2>. SUFFICES ASSUME NEW other \in SUBSET DOMAIN edges, Joined(Nodes, edges, other)
                PROVE  Cost(edges, tree.tree) <= Cost(edges, other)
    OBVIOUS
  <2>1. Numbered(edges, Len(edges))
    BY CostIsPrice
  <2>2. Price(edges, Len(edges), tree.tree) <= Price(edges, Len(edges), other)
    BY <1>1, <2>1, SpanIsCheapest
  <2>. HIDE DEF tree
  <2>3. /\ Cost(edges, tree.tree) = Price(edges, Len(edges), tree.tree)
        /\ Cost(edges, other) = Price(edges, Len(edges), other)
    BY <1>2, CostIsPrice
  <2>. QED
    BY <2>2, <2>3, Zenon
<1>. HIDE DEF tree
<1>4. \A t \in SUBSET DOMAIN edges : Cost(edges, t) \in Int
  BY CostIsPrice, PriceType
<1>5. ASSUME NEW other \in SUBSET DOMAIN edges, Cost(edges, other) < Cost(edges, tree.tree)
      PROVE  ~Joined(Nodes, edges, other)
  <2>. DEFINE c == Cost(edges, other)
              d == Cost(edges, tree.tree)
  <2>1. c \in Int /\ d \in Int /\ c < d
    BY <1>2, <1>4, <1>5
  <2>2. Joined(Nodes, edges, other) => d <= c
    BY <1>3
  <2>. HIDE DEF c, d
  <2>. QED
    BY <2>1, <2>2
<1>6. /\ tree.ok <=> Connects(edges, DOMAIN edges, Nodes)
      /\ IsConnected(edges) <=> tree.ok
  BY <1>2, ConnectsIsJoined, ConnectedIsConnects
<1>7. tree.ok => /\ Connects(edges, tree.tree, Nodes)
                 /\ \A other \in SUBSET DOMAIN edges :
                       Cost(edges, other) < Cost(edges, tree.tree)
                           => ~Connects(edges, other, Nodes)
  BY <1>2, <1>5, ConnectsIsJoined
<1>. QED
  BY <1>6, <1>7 DEF tree

-----------------------------------------------------------------------------
(* The requests *)

(* What is asked about is a graph, and the results are the algorithms'. *)
GraphInv ==
    /\ asked \in {"no", "asked", "answered"}
    /\ asked # "no" => graph \in Graphs /\ terminals \in TerminalLists
    /\ asked = "answered" =>
          /\ paths = [s \in Nodes |-> [t \in Nodes |-> ShortestPath(graph, s, t)]]
          /\ connected = IsConnected(graph)
          /\ mst = MinimumSpanningTree(Nodes, graph)
          /\ steiner = ApproximateSteinerTree(graph, terminals)

(* Asking chooses them, answering runs the algorithms on them. *)
THEOREM GraphInvariant == GraphSpec => []GraphInv
<1>1. GraphInit => GraphInv
  BY DEF GraphInit, GraphInv
<1>2. GraphInv /\ [GraphNext]_graphVars => GraphInv'
  <2>. SUFFICES ASSUME GraphInv, [GraphNext]_graphVars PROVE GraphInv'
    OBVIOUS
  <2>1. CASE Ask
    BY <2>1 DEF Ask, GraphInv
  <2>2. CASE Answer
    BY <2>2 DEF Answer, GraphInv
  <2>3. CASE UNCHANGED graphVars
    BY <2>3 DEF graphVars, GraphInv
  <2>. QED
    BY <2>1, <2>2, <2>3 DEF GraphNext
<1>. QED
  BY <1>1, <1>2, PTL DEF GraphSpec

(* What is asked about is a graph. *)
LEMMA GraphAsked ==
    ASSUME GraphAssumption, GraphInv, asked = "answered"
    PROVE  graph \in Seq(Edge) /\ terminals \in TerminalLists
BY DEF GraphAssumption, GraphInv, Edge

(* PathsAreShortest for every graph: the distances of shortest_path are    *)
(* those of the cheapest paths, and the path it gives is one.              *)
THEOREM ShortestPaths == GraphSpec => []PathsAreShortest
<1>1. GraphInv => PathsAreShortest
  <2>. SUFFICES ASSUME GraphInv, asked = "answered", NEW s \in Nodes, NEW t \in Nodes
                PROVE  LET answer == paths[s][t]
                           between == PathsBetween(graph, s, t)
                       IN /\ IF answer.distance = Infinity THEN answer.path = <<>> /\ between = {}
                             ELSE answer.path \in between /\ PathCost(graph, answer.path) = answer.distance
                          /\ \A p \in between : answer.distance <= PathCost(graph, p)
    BY DEF PathsAreShortest
  <2>1. GraphAssumption
    BY GraphAssumption
  <2>2. graph \in Seq(Edge)
    BY <2>1, GraphAsked
  <2>3. IsShortest(graph, s, t, ShortestPath(graph, s, t))
    BY <2>1, <2>2, PathIsShortest
  <2>4. paths[s][t] = ShortestPath(graph, s, t)
    BY DEF GraphInv
  <2>5. IsShortest(graph, s, t, paths[s][t])
    BY <2>3, <2>4
  <2>. QED
    BY <2>5 DEF IsShortest, LeadsTo
<1>. QED
  BY <1>1, GraphInvariant, PTL

(* SpanningTreeIsMinimal for every graph: the tree of                      *)
(* minimum_spanning_tree connects all nodes at the least cost there is, it *)
(* is refused only for a disconnected graph, and is_connected agrees.      *)
THEOREM MinimalTrees == GraphSpec => []SpanningTreeIsMinimal
<1>1. GraphInv => SpanningTreeIsMinimal
  <2>. SUFFICES ASSUME GraphInv, asked = "answered" PROVE SpanningTreeIsMinimal
    BY DEF SpanningTreeIsMinimal
  <2>1. GraphAssumption
    BY GraphAssumption
  <2>2. graph \in Seq(Edge)
    BY <2>1, GraphAsked
  <2>. DEFINE tree == MinimumSpanningTree(Nodes, graph)
  <2>3. /\ tree.ok <=> Connects(graph, DOMAIN graph, Nodes)
        /\ IsConnected(graph) <=> tree.ok
        /\ tree.ok => /\ Connects(graph, tree.tree, Nodes)
                      /\ \A other \in SUBSET DOMAIN graph :
                            Cost(graph, other) < Cost(graph, tree.tree)
                                => ~Connects(graph, other, Nodes)
    BY <2>1, <2>2, TreeIsMinimal
  <2>4. tree.ok \in BOOLEAN /\ IsConnected(graph) \in BOOLEAN
        /\ Connects(graph, DOMAIN graph, Nodes) \in BOOLEAN
    BY DEF MinimumSpanningTree, IsConnected, Connects
  <2>5. mst = tree /\ connected = IsConnected(graph)
    BY DEF GraphInv
  <2>. HIDE DEF tree
  <2>6. mst.ok = Connects(graph, DOMAIN graph, Nodes) /\ connected = mst.ok
    BY <2>3, <2>4, <2>5
  <2>. QED
    BY <2>3, <2>5, <2>6 DEF SpanningTreeIsMinimal
<1>. QED
  BY <1>1, GraphInvariant, PTL

(* PathsAndTreesAreCheapest for every graph: both of them. *)
THEOREM PathsAndTrees == GraphSpec => []PathsAndTreesAreCheapest
<1>1. PathsAreShortest /\ SpanningTreeIsMinimal => PathsAndTreesAreCheapest
  BY DEF PathsAndTreesAreCheapest
<1>. QED
  BY <1>1, ShortestPaths, MinimalTrees, PTL

-----------------------------------------------------------------------------
(* The metric closure of the terminals *)

(* A number made of a row and a column gives them back. *)
LEMMA RowAndColumn ==
    ASSUME NEW k \in Nat, NEW a \in Nat, NEW b \in Nat, b < k
    PROVE  (a * k + b) \div k = a /\ (a * k + b) % k = b
<1>. DEFINE n == a * k + b
            q == n \div k
            r == n % k
<1>1. k > 0 /\ n \in Nat
  OBVIOUS
<1>2. n = k * q + r /\ r \in 0..k - 1 /\ q \in Int
  BY <1>1
<1>3. q = a
  <2>1. ASSUME NEW x \in Int, NEW y \in Int, x >= y + 1 PROVE x * k >= y * k + k
    <3>1. PICK d \in Nat : x = y + 1 + d
      <4>1. x - y - 1 \in Nat /\ x = y + 1 + (x - y - 1)
        BY <2>1
      <4>. QED
        BY <4>1
    <3>2. x * k = y * k + k + d * k
      BY <3>1
    <3>3. d * k \in Nat /\ y * k \in Int
      OBVIOUS
    <3>. QED
      BY <3>2, <3>3
  <2>2. q * k = k * q /\ q * k \in Int /\ a * k \in Int
    BY <1>2
  <2>3. ~(q >= a + 1)
    BY <1>2, <2>1, <2>2
  <2>4. ~(a >= q + 1)
    BY <1>2, <2>1, <2>2
  <2>. HIDE DEF q
  <2>. QED
    BY <1>2, <2>3, <2>4
<1>. QED
  BY <1>2, <1>3

(* Within k times k, row and column are within k. *)
LEMMA RowAndColumnIn ==
    ASSUME NEW k \in Nat, NEW n \in Nat, n < k * k
    PROVE  n \div k \in 0..k - 1 /\ n % k \in 0..k - 1
<1>. DEFINE q == n \div k
            r == n % k
<1>1. k > 0
  OBVIOUS
<1>2. n = k * q + r /\ r \in 0..k - 1 /\ q \in Int
  BY <1>1
<1>3. ~(q >= k)
  <2>. SUFFICES ASSUME q >= k PROVE FALSE
    OBVIOUS
  <2>1. PICK d \in Nat : q = k + d
    <3>1. q - k \in Nat /\ q = k + (q - k)
      BY <1>2
    <3>. QED
      BY <3>1
  <2>2. k * q = k * k + k * d /\ k * d \in Nat /\ k * k \in Nat
    BY <2>1
  <2>. HIDE DEF q, r
  <2>. QED
    BY <1>2, <2>2
<1>4. ~(q < 0)
  <2>. SUFFICES ASSUME q < 0 PROVE FALSE
    OBVIOUS
  <2>1. PICK d \in Nat : q = -1 - d
    <3>1. -1 - q \in Nat /\ q = -1 - (-1 - q)
      BY <1>2
    <3>. QED
      BY <3>1
  <2>2. k * q = -k - k * d /\ k * d \in Nat
    BY <2>1
  <2>. HIDE DEF q, r
  <2>. QED
    BY <1>2, <2>2
<1>. HIDE DEF q, r
<1>5. q \in 0..k - 1
  BY <1>2, <1>3, <1>4
<1>. QED
  BY <1>2, <1>5 DEF q, r

(* The searches from every terminal. *)
Searches(edges, terms) == [i \in DOMAIN terms |-> Dijkstra(edges, terms[i])]

Reachable(edges, terms) ==
    \A i, j \in DOMAIN terms : Searches(edges, terms)[i].dist[terms[j]] # Infinity

(* An edge for every two terminals, as long as the way between them. *)
IsClosure(edges, terms, closure) ==
    /\ Weighted(1..Len(terms), closure)
    /\ \A m \in DOMAIN closure :
          closure[m].w = Searches(edges, terms)[closure[m].u].dist[terms[closure[m].v]]
    /\ \A a, b \in 1..Len(terms) : a < b =>
          \E m \in DOMAIN closure : closure[m].u = a /\ closure[m].v = b

(* The edges made of the terminals are their closure. *)
LEMMA ClosureIsClosure ==
    ASSUME GraphAssumption, NEW edges \in Seq(Edge),
           NEW terms \in Seq(Nodes), Len(terms) > 1, Reachable(edges, terms)
    PROVE  IsClosure(edges, terms, ClosureEdges(terms, Searches(edges, terms)))
<1>. DEFINE k == Len(terms)
            run == Searches(edges, terms)
            row(m) == 1 + ((m - 1) \div k)
            col(m) == 1 + ((m - 1) % k)
            D == {p \in 1..k * k : row(p) < col(p)}
            closure == ClosureEdges(terms, run)
<1>1. k \in Nat /\ k > 1 /\ DOMAIN terms = 1..k /\ \A i \in 1..k : terms[i] \in Nodes
  OBVIOUS
<1>2. closure = [m \in D |-> [u |-> row(m), v |-> col(m), w |-> run[row(m)].dist[terms[col(m)]]]]
  BY DEF ClosureEdges
<1>. HIDE DEF k, closure
<1>3. \A m \in 1..k * k : row(m) \in 1..k /\ col(m) \in 1..k
  <2>. SUFFICES ASSUME NEW m \in 1..k * k PROVE row(m) \in 1..k /\ col(m) \in 1..k
    OBVIOUS
  <2>1. k * k \in Nat
    BY <1>1
  <2>2. m - 1 \in Nat /\ m - 1 < k * k
    BY <2>1
  <2>. DEFINE q == (m - 1) \div k
              r == (m - 1) % k
  <2>3. q \in 0..k - 1 /\ r \in 0..k - 1
    BY <1>1, <2>2, RowAndColumnIn
  <2>4. row(m) = 1 + q /\ col(m) = 1 + r
    OBVIOUS
  <2>. HIDE DEF q, r, row, col
  <2>. QED
    BY <1>1, <2>3, <2>4
<1>4. ASSUME NEW a \in 1..k, NEW b \in 1..k, a < b
      PROVE  \E m \in D : row(m) = a /\ col(m) = b
  <2>. DEFINE c == a - 1
              d == b - 1
              m == (c * k + d) + 1
  <2>1. c \in Nat /\ d \in Nat /\ d < k /\ c + 1 <= k
    BY <1>1
  <2>2. (c * k + d) \div k = c /\ (c * k + d) % k = d
    BY <1>1, <2>1, RowAndColumn
  <2>3. m \in 1..k * k
    <3>1. PICK x \in Nat : k = c + 1 + x
      <4>1. k - c - 1 \in Nat /\ k = c + 1 + (k - c - 1)
        BY <1>1, <2>1
      <4>. QED
        BY <4>1
    <3>2. k * k = c * k + k + x * k
      BY <1>1, <2>1, <3>1
    <3>3. x * k \in Nat /\ c * k \in Nat
      BY <1>1, <2>1
    <3>. DEFINE ck == c * k
                xk == x * k
                kk == k * k
    <3>4. kk = ck + k + xk /\ xk \in Nat /\ ck \in Nat /\ m = ck + d + 1
      BY <3>2, <3>3
    <3>. HIDE DEF ck, xk, kk, m, c, d
    <3>5. m \in 1..kk
      BY <1>1, <2>1, <3>4
    <3>. QED
      BY <3>5 DEF kk
  <2>4. m - 1 = c * k + d
    BY <1>1, <2>1
  <2>5. row(m) = 1 + c /\ col(m) = 1 + d
    <3>. HIDE DEF m, c, d
    <3>. QED
      BY <2>2, <2>4
  <2>6. row(m) = a /\ col(m) = b
    <3>1. 1 + c = a /\ 1 + d = b
      BY <1>1
    <3>. HIDE DEF m, c, d, row, col
    <3>. QED
      BY <2>5, <3>1
  <2>. HIDE DEF m, row, col, c, d
  <2>. QED
    BY <1>4, <2>3, <2>6
<1>. HIDE DEF row, col
<1>5. DOMAIN closure = D /\ \A m \in D : /\ closure[m].u = row(m) /\ closure[m].v = col(m)
                                         /\ closure[m].w = run[row(m)].dist[terms[col(m)]]
  BY <1>2
<1>6. \A i, j \in 1..k : run[i].dist[terms[j]] \in Nat
  <2>. SUFFICES ASSUME NEW i \in 1..k, NEW j \in 1..k PROVE run[i].dist[terms[j]] \in Nat
    OBVIOUS
  <2>1. run[i] = Dijkstra(edges, terms[i])
    BY <1>1 DEF Searches
  <2>2. run[i] \in States
    <3>1. PICK done : Reached(edges, terms[i], run[i], done)
      BY <1>1, <2>1, DijkstraEnds
    <3>. QED
      BY <3>1 DEF Reached, Searched
  <2>3. run[i].dist[terms[j]] # Infinity
    BY <1>1 DEF Reachable
  <2>. HIDE DEF run
  <2>. QED
    BY <1>1, <2>2, <2>3 DEF States
<1>. HIDE DEF run
<1>7. D \subseteq 1..k * k
  OBVIOUS
<1>8. IsFiniteSet(1..k) /\ 1..k # {} /\ D \subseteq Nat /\ IsFiniteSet(D)
  <2>1. k * k \in Nat
    BY <1>1
  <2>2. IsFiniteSet(1..k) /\ IsFiniteSet(1..k * k)
    BY <1>1, <2>1, FS_Interval
  <2>3. 1 \in 1..k
    BY <1>1
  <2>4. IsFiniteSet(D)
    BY <1>7, <2>2, FS_Subset
  <2>5. 1..k * k \subseteq Nat
    BY <2>1
  <2>. HIDE DEF D
  <2>. QED
    BY <1>7, <2>2, <2>3, <2>4, <2>5
<1>9. Weighted(1..k, closure)
  <2>1. \A m \in D : row(m) \in 1..k /\ col(m) \in 1..k
    BY <1>3, <1>7
  <2>. HIDE DEF D
  <2>. QED
    BY <1>5, <1>6, <1>8, <2>1, ZenonT(60) DEF Weighted
<1>. HIDE DEF D
<1>10. IsClosure(edges, terms, closure)
  BY <1>4, <1>5, <1>9 DEF IsClosure, k, run
<1>. QED
  BY <1>10 DEF closure, run

(* Any two terminals are joined in the closure, so its tree joins them. *)
LEMMA ClosureTreeJoins ==
    ASSUME NEW edges, NEW terms, Len(terms) \in Nat,
           IsClosure(edges, terms, ClosureEdges(terms, Searches(edges, terms)))
    PROVE  /\ ClosureTree(terms, Searches(edges, terms))
                 \in SUBSET DOMAIN ClosureEdges(terms, Searches(edges, terms))
           /\ Joined(1..Len(terms), ClosureEdges(terms, Searches(edges, terms)),
                     ClosureTree(terms, Searches(edges, terms)))
<1>. DEFINE k == Len(terms)
            closure == ClosureEdges(terms, Searches(edges, terms))
            nodes == 1..k
<1>1. ClosureTree(terms, Searches(edges, terms)) = MinimumSpanningTree(nodes, closure).tree
  BY DEF ClosureTree
<1>. HIDE DEF closure
<1>2. /\ Weighted(nodes, closure)
      /\ \A a, b \in nodes : a < b => \E m \in DOMAIN closure : closure[m].u = a /\ closure[m].v = b
  BY DEF IsClosure, closure
<1>3. \A a \in nodes, b \in nodes : a \in Int /\ b \in Int
  OBVIOUS
<1>. HIDE DEF nodes
<1>4. Joined(nodes, closure, DOMAIN closure)
  <2>. SUFFICES ASSUME NEW side \in SUBSET nodes, side # {}, side # nodes
                PROVE  \E m \in DOMAIN closure : Crosses(closure, m, side)
    BY DEF Joined
  <2>1. PICK a \in nodes, b \in nodes : a \in side /\ b \notin side
    OBVIOUS
  <2>2. a < b \/ b < a
    BY <1>3, <2>1
  <2>3. CASE a < b
    <3>1. PICK m \in DOMAIN closure : closure[m].u = a /\ closure[m].v = b
      BY <1>2, <2>3
    <3>. QED
      BY <2>1, <3>1 DEF Crosses
  <2>4. CASE b < a
    <3>1. PICK m \in DOMAIN closure : closure[m].u = b /\ closure[m].v = a
      BY <1>2, <2>4
    <3>. QED
      BY <2>1, <3>1 DEF Crosses
  <2>. QED
    BY <2>2, <2>3, <2>4
<1>5. /\ MinimumSpanningTree(nodes, closure).tree \in SUBSET DOMAIN closure
      /\ Joined(nodes, closure, MinimumSpanningTree(nodes, closure).tree)
  BY <1>2, <1>4, SpanEnds
<1>. QED
  BY <1>1, <1>5 DEF closure, nodes

(* The way between two terminals is a path as long as the closure says. *)
LEMMA ClosurePathLeads ==
    ASSUME GraphAssumption, NEW edges \in Seq(Edge), NEW terms \in Seq(Nodes),
           NEW a \in 1..Len(terms), NEW b \in 1..Len(terms), Reachable(edges, terms)
    PROVE  LeadsTo(edges, terms[a], terms[b],
                   ReconstructPath(terms[a], terms[b], Searches(edges, terms)[a].prev),
                   Searches(edges, terms)[a].dist[terms[b]])
<1>1. terms[a] \in Nodes /\ terms[b] \in Nodes /\ a \in DOMAIN terms /\ b \in DOMAIN terms
  OBVIOUS
<1>2. Searches(edges, terms)[a] = Dijkstra(edges, terms[a])
  BY <1>1 DEF Searches
<1>. DEFINE s == terms[a]
            t == terms[b]
            run == Dijkstra(edges, s)
<1>3. run.dist[t] # Infinity
  BY <1>1, <1>2 DEF Reachable
<1>4. IsShortest(edges, s, t, ShortestPath(edges, s, t))
  BY <1>1, PathIsShortest
<1>5. ShortestPath(edges, s, t) = [distance |-> run.dist[t], path |-> ReconstructPath(s, t, run.prev)]
  BY <1>3 DEF ShortestPath
<1>. HIDE DEF s, t, run
<1>6. LeadsTo(edges, s, t, ReconstructPath(s, t, run.prev), run.dist[t])
  BY <1>3, <1>4, <1>5 DEF IsShortest
<1>. QED
  BY <1>2, <1>6 DEF s, t, run

(* A path out of a side has a step out of it. *)
LEMMA PathCrosses ==
    ASSUME NodeCount \in Nat, NEW edges, NEW a, NEW b, NEW p \in PathsBetween(edges, a, b),
           NEW side, ~(a \in side <=> b \in side)
    PROVE  \E i \in 1..Len(p) - 1 : ~(p[i] \in side <=> p[i + 1] \in side)
<1>1. PICK n \in 1..NodeCount : p \in [1..n -> Nodes]
  BY DEF PathsBetween, SimplePaths
<1>2. n \in Nat /\ n > 0 /\ Len(p) = n
  <2>1. n \in Nat /\ n > 0
    OBVIOUS
  <2>. QED
    BY <1>1, <2>1, RowIsSequence
<1>3. p[1] = a /\ p[n] = b
  BY <1>2 DEF PathsBetween
<1>. SUFFICES ASSUME \A i \in 1..n - 1 : p[i] \in side <=> p[i + 1] \in side PROVE FALSE
  BY <1>2
<1>. DEFINE S == {i \in 1..n : p[i] \in side <=> a \in side}
<1>4. 1 \in S
  BY <1>2, <1>3
<1>5. \A i \in 1 + 1..n : i - 1 \in S => i \in S
  <2>. SUFFICES ASSUME NEW i \in 1 + 1..n, i - 1 \in S PROVE i \in S
    OBVIOUS
  <2>1. i \in 1..n /\ i - 1 \in 1..n - 1 /\ (i - 1) + 1 = i
    BY <1>2
  <2>2. p[i - 1] \in side <=> a \in side
    OBVIOUS
  <2>3. p[i - 1] \in side <=> p[i] \in side
    BY <2>1
  <2>. QED
    BY <2>1, <2>2, <2>3
<1>. HIDE DEF S
<1>6. n \in S
  <2>1. n \in Int /\ 1 \in Int /\ n \in 1..n
    BY <1>2
  <2>2. \A k \in 1..n : k \in S
    BY <1>4, <1>5, <2>1, EveryOne
  <2>. QED
    BY <2>1, <2>2
<1>. QED
  BY <1>3, <1>6 DEF S

(* The first edge between two nodes is one. *)
LEMMA FirstEdgeIsBetween ==
    ASSUME NEW edges \in Seq(Edge), NEW a, NEW b, WeightsBetween(edges, a, b) # {}
    PROVE  FirstEdge(edges, a, b) \in DOMAIN edges /\ IsBetween(edges[FirstEdge(edges, a, b)], a, b)
<1>. DEFINE all == {i \in DOMAIN edges : IsBetween(edges[i], a, b)}
<1>1. all # {}
  BY DEF WeightsBetween
<1>2. all \subseteq Nat
  OBVIOUS
<1>3. FirstEdge(edges, a, b) = Min(all)
  BY DEF FirstEdge
<1>4. Min(all) \in all
  <2>. HIDE DEF all
  <2>. QED
    BY <1>1, <1>2, MinIsLeast
<1>. QED
  BY <1>3, <1>4

(* The edges on the way between two terminals. *)
WayEdges(edges, path) == {FirstEdge(edges, path[i], path[i + 1]) : i \in 1..Len(path) - 1}

(* The edges on the ways of the closure's tree connect the terminals. *)
LEMMA PathEdgesConnect ==
    ASSUME GraphAssumption, NEW edges \in Seq(Edge),
           NEW terms \in Seq(Nodes), Len(terms) > 1, Reachable(edges, terms)
    PROVE  /\ PathEdges(edges, terms, Searches(edges, terms)) \in SUBSET DOMAIN edges
           /\ Connects(edges, PathEdges(edges, terms, Searches(edges, terms)), Range(terms))
<1>. DEFINE k == Len(terms)
            run == Searches(edges, terms)
            closure == ClosureEdges(terms, run)
            tree == ClosureTree(terms, run)
            way(m) == ClosurePath(terms, run, m)
            all == PathEdges(edges, terms, run)
<1>1. k \in Nat /\ k > 1 /\ DOMAIN terms = 1..k /\ \A i \in 1..k : terms[i] \in Nodes
  OBVIOUS
<1>2. IsClosure(edges, terms, closure)
  BY ClosureIsClosure
<1>3. tree \in SUBSET DOMAIN closure /\ Joined(1..k, closure, tree)
  BY <1>1, <1>2, ClosureTreeJoins
<1>4. \A m \in DOMAIN closure : closure[m].u \in 1..k /\ closure[m].v \in 1..k
  BY <1>2 DEF IsClosure, Weighted
<1>5. all = UNION {WayEdges(edges, way(m)) : m \in tree}
  BY DEF PathEdges, WayEdges
<1>6. ASSUME NEW m \in DOMAIN closure
      PROVE  way(m) \in PathsBetween(edges, terms[closure[m].u], terms[closure[m].v])
  <2>1. way(m) = ReconstructPath(terms[closure[m].u], terms[closure[m].v], run[closure[m].u].prev)
    BY DEF ClosurePath
  <2>. DEFINE a == closure[m].u
              b == closure[m].v
  <2>2. a \in 1..Len(terms) /\ b \in 1..Len(terms)
    BY <1>4
  <2>. HIDE DEF a, b
  <2>3. LeadsTo(edges, terms[a], terms[b], ReconstructPath(terms[a], terms[b], run[a].prev),
                run[a].dist[terms[b]])
    BY <2>2, ClosurePathLeads
  <2>. QED
    BY <2>1, <2>3 DEF LeadsTo, a, b
<1>. HIDE DEF run, closure, tree, way, all, k
<1>7. ASSUME NEW m \in DOMAIN closure, NEW i \in 1..Len(way(m)) - 1
      PROVE  LET f == FirstEdge(edges, way(m)[i], way(m)[i + 1]) IN
             f \in DOMAIN edges /\ IsBetween(edges[f], way(m)[i], way(m)[i + 1])
  <2>1. WeightsBetween(edges, way(m)[i], way(m)[i + 1]) # {}
    BY <1>6 DEF PathsBetween
  <2>. QED
    BY <2>1, FirstEdgeIsBetween
<1>8. all \in SUBSET DOMAIN edges
  BY <1>3, <1>5, <1>7 DEF WayEdges
<1>9. ASSUME NEW side \in SUBSET Nodes, side \cap Range(terms) # {}, Range(terms) \ side # {}
      PROVE  \E i \in all : Crosses(edges, i, side)
  <2>. DEFINE own == {x \in 1..k : terms[x] \in side}
  <2>1. own \in SUBSET (1..k) /\ own # {} /\ own # 1..k
    BY <1>1, <1>9 DEF Range
  <2>2. PICK m \in tree : Crosses(closure, m, own)
    <3>. HIDE DEF own
    <3>. QED
      BY <1>3, <2>1 DEF Joined
  <2>3. m \in DOMAIN closure
    BY <1>3
  <2>. DEFINE a == terms[closure[m].u]
              b == terms[closure[m].v]
              p == way(m)
  <2>4. ~(a \in side <=> b \in side)
    BY <1>4, <2>2, <2>3 DEF Crosses
  <2>5. p \in PathsBetween(edges, a, b)
    BY <1>6, <2>3
  <2>. HIDE DEF a, b, p
  <2>6. PICK i \in 1..Len(p) - 1 : ~(p[i] \in side <=> p[i + 1] \in side)
    <3>1. \E i \in 1..Len(p) - 1 : ~(p[i] \in side <=> p[i + 1] \in side)
      BY <2>4, <2>5, NodesFinite, PathCrosses
    <3>. QED
      BY <3>1
  <2>. DEFINE f == FirstEdge(edges, p[i], p[i + 1])
  <2>7. IsBetween(edges[f], p[i], p[i + 1])
    BY <1>7, <2>3, <2>6 DEF p
  <2>8. f \in WayEdges(edges, p)
    BY <2>6 DEF WayEdges
  <2>9. f \in all
    BY <1>5, <2>2, <2>8 DEF p
  <2>. HIDE DEF f
  <2>10. Crosses(edges, f, side)
    BY <2>6, <2>7 DEF Crosses, IsBetween
  <2>. QED
    BY <2>9, <2>10
<1>. QED
  BY <1>8, <1>9 DEF Connects, all, run

-----------------------------------------------------------------------------
(* Pruning *)

Ends(edges, i) == {edges[i].u, edges[i].v}

(* A leaf has one edge. *)
LEMMA LeafHasOne ==
    ASSUME NEW edges, NEW tree, IsFiniteSet(tree), NEW v \in Leaves(edges, tree)
    PROVE  \E i \in tree : v \in Ends(edges, i) /\ \A j \in tree : v \in Ends(edges, j) => j = i
<1>. DEFINE own == {i \in tree : v \in {edges[i].u, edges[i].v}}
<1>1. Cardinality(own) = 1
  BY DEF Leaves
<1>2. IsFiniteSet(own)
  <2>1. own \subseteq tree
    OBVIOUS
  <2>. HIDE DEF own
  <2>. QED
    BY <2>1, FS_Subset
<1>3. \E i : own = {i}
  <2>. HIDE DEF own
  <2>. QED
    BY <1>1, <1>2, FS_Singleton, Zenon
<1>4. PICK i : own = {i}
  BY <1>3
<1>. QED
  BY <1>4 DEF Ends

(* What connects the terminals does so without its other leaves. *)
LEMMA PruneConnects ==
    ASSUME NEW edges \in Seq(Edge), NEW terms \in Seq(Nodes),
           NEW tree \in SUBSET DOMAIN edges, IsFiniteSet(tree), Connects(edges, tree, Range(terms))
    PROVE  Prune(edges, terms, tree) \in SUBSET tree /\ Connects(edges, Prune(edges, terms, tree), Range(terms))
<1>. DEFINE bad == Leaves(edges, tree) \ Range(terms)
            kept == Prune(edges, terms, tree)
<1>1. \A i \in DOMAIN edges : edges[i].u \in Nodes /\ edges[i].v \in Nodes
  <2>1. \A i \in DOMAIN edges : edges[i] \in Edge
    OBVIOUS
  <2>. QED
    BY <2>1 DEF Edge
<1>2. kept = {i \in tree : edges[i].u \notin bad /\ edges[i].v \notin bad}
  BY DEF Prune
<1>3. \A v \in bad : \E i \in tree : v \in Ends(edges, i) /\ \A j \in tree : v \in Ends(edges, j) => j = i
  BY LeafHasOne
<1>4. Range(terms) \subseteq Nodes /\ Range(terms) \cap bad = {}
  BY DEF Range
<1>. HIDE DEF bad, kept
<1>5. ASSUME NEW side \in SUBSET Nodes, side \cap Range(terms) # {}, Range(terms) \ side # {}
      PROVE  \E i \in kept : Crosses(edges, i, side)
  <2>. DEFINE goes(x) == \E i \in tree : x \in Ends(edges, i) /\ \E y \in Ends(edges, i) : y \notin bad /\ y \in side
              new == {x \in Nodes : IF x \in bad THEN goes(x) ELSE x \in side}
  <2>1. \A x \in Nodes : x \notin bad => (x \in new <=> x \in side)
    OBVIOUS
  <2>2. new \in SUBSET Nodes /\ new \cap Range(terms) # {} /\ Range(terms) \ new # {}
    BY <1>4, <1>5, <2>1
  <2>3. PICK i \in tree : Crosses(edges, i, new)
    <3>. HIDE DEF new
    <3>. QED
      BY <2>2 DEF Connects
  <2>. DEFINE p == edges[i].u
              q == edges[i].v
  <2>4. p \in Nodes /\ q \in Nodes /\ Ends(edges, i) = {p, q}
    BY <1>1 DEF Ends
  <2>5. ASSUME NEW x \in Ends(edges, i), x \in bad
        PROVE  x \in new <=> \E y \in Ends(edges, i) : y \notin bad /\ y \in side
    <3>1. \A j \in tree : x \in Ends(edges, j) => j = i
      BY <1>3, <2>5
    <3>2. x \in Nodes
      BY <2>4
    <3>. QED
      BY <2>5, <3>1, <3>2
  <2>. HIDE DEF new
  <2>6. p \notin bad /\ q \notin bad
    <3>1. ~(p \in new <=> q \in new)
      BY <2>3 DEF Crosses
    <3>. HIDE DEF p, q
    <3>2. p \in Ends(edges, i) /\ q \in Ends(edges, i)
      BY <2>4
    <3>3. CASE p \in bad /\ q \in bad
      BY <2>5, <3>1, <3>2, <3>3
    <3>4. CASE p \in bad /\ q \notin bad
      <4>1. (\E y \in Ends(edges, i) : y \notin bad /\ y \in side) <=> q \in side
        BY <2>4, <3>4
      <4>. QED
        BY <2>1, <2>4, <2>5, <3>1, <3>2, <3>4, <4>1
    <3>5. CASE p \notin bad /\ q \in bad
      <4>1. (\E y \in Ends(edges, i) : y \notin bad /\ y \in side) <=> p \in side
        BY <2>4, <3>5
      <4>. QED
        BY <2>1, <2>4, <2>5, <3>1, <3>2, <3>5, <4>1
    <3>. QED
      BY <3>3, <3>4, <3>5
  <2>7. i \in kept
    BY <1>2, <2>6
  <2>8. Crosses(edges, i, side)
    BY <2>1, <2>3, <2>4, <2>6 DEF Crosses
  <2>. QED
    BY <2>7, <2>8
<1>6. kept \in SUBSET tree
  BY <1>2
<1>7. Connects(edges, kept, Range(terms))
  BY <1>5 DEF Connects
<1>. QED
  BY <1>6, <1>7 DEF kept

(* When no edge is pruned any more, every leaf is a terminal. *)
LEMMA PrunedHasTerminalLeaves ==
    ASSUME NEW edges, NEW terms, NEW tree, IsFiniteSet(tree), Prune(edges, terms, tree) = tree
    PROVE  Leaves(edges, tree) \subseteq Range(terms)
<1>. SUFFICES ASSUME NEW v \in Leaves(edges, tree) PROVE v \in Range(terms)
  OBVIOUS
<1>1. PICK i \in tree : v \in Ends(edges, i)
  BY LeafHasOne
<1>2. Ends(edges, i) \cap Leaves(edges, tree) \subseteq Range(terms)
  BY DEF Prune, Ends
<1>. QED
  BY <1>1, <1>2

(* Pruning keeps the terminals connected and ends with their leaves. *)
LEMMA PruneLeavesConnects ==
    ASSUME GraphAssumption, NEW edges \in Seq(Edge), NEW terms \in Seq(Nodes),
           NEW tree \in SUBSET DOMAIN edges, Connects(edges, tree, Range(terms))
    PROVE  /\ PruneLeaves(edges, terms, tree) \in SUBSET tree
           /\ Connects(edges, PruneLeaves(edges, terms, tree), Range(terms))
           /\ Leaves(edges, PruneLeaves(edges, terms, tree)) \subseteq Range(terms)
<1>. DEFINE n == Cardinality(tree)
            St == SUBSET tree
            step == [t \in St |-> Prune(edges, terms, t)]
            Rec(f) == f = [k \in 0..n |-> IF k = 0 THEN tree ELSE Prune(edges, terms, f[k - 1])]
            g == CHOOSE f : Rec(f)
<1>1. IsFiniteSet(tree) /\ n \in Nat
  <2>1. Weighted(Nodes, edges)
    BY GraphIsWeighted
  <2>2. IsFiniteSet(DOMAIN edges)
    BY <2>1 DEF Weighted
  <2>. QED
    BY <2>2, FS_Subset, FS_CardinalityType
<1>2. step \in [St -> St] /\ tree \in St /\ \A t \in St : step[t] = Prune(edges, terms, t)
  BY DEF Prune
<1>. HIDE DEF n, St, step
<1>3. PICK f : Steps(f, St, tree, step, n)
  BY <1>1, <1>2, StepsRepeat
<1>4. f \in [0..n -> St] /\ f[0] = tree /\ \A k \in 1..n : f[k] = step[f[k - 1]]
  BY <1>3 DEF Steps
<1>5. \A k \in 0..n : f[k] = IF k = 0 THEN tree ELSE Prune(edges, terms, f[k - 1])
  <2>. SUFFICES ASSUME NEW k \in 0..n, k # 0 PROVE f[k] = Prune(edges, terms, f[k - 1])
    BY <1>4
  <2>1. k \in 1..n /\ k - 1 \in 0..n
    BY <1>1
  <2>2. f[k - 1] \in St
    BY <1>4, <2>1
  <2>. QED
    BY <1>2, <1>4, <2>1, <2>2
<1>6. Rec(f)
  BY <1>4, <1>5
<1>7. Rec(g)
  <2>. HIDE DEF Rec
  <2>. QED
    BY <1>6
<1>. HIDE DEF g
<1>8. g[0] = tree /\ \A k \in 1..n : g[k] = Prune(edges, terms, g[k - 1])
  BY <1>1, <1>7
<1>9. PruneLeaves(edges, terms, tree) = g[n]
  BY DEF PruneLeaves, g, n
<1>. HIDE DEF Rec
<1>. DEFINE Done(t) == Prune(edges, terms, t) = t
            S == {k \in 0..n : /\ g[k] \subseteq tree /\ Connects(edges, g[k], Range(terms))
                               /\ Done(g[k]) \/ Cardinality(g[k]) <= n - k}
<1>10. 0 \in S
  BY <1>1, <1>8 DEF n
<1>11. \A k \in 0 + 1..n : k - 1 \in S => k \in S
  <2>. SUFFICES ASSUME NEW k \in 0 + 1..n, k - 1 \in S PROVE k \in S
    OBVIOUS
  <2>. DEFINE old == g[k - 1]
              new == g[k]
  <2>1. k \in 1..n /\ k \in 0..n
    BY <1>1
  <2>2. old \subseteq tree /\ Connects(edges, old, Range(terms)) /\ (Done(old) \/ Cardinality(old) <= n - (k - 1))
    OBVIOUS
  <2>3. new = Prune(edges, terms, old)
    BY <1>8, <2>1
  <2>4. IsFiniteSet(old) /\ Cardinality(old) \in Nat
    BY <1>1, <2>2, FS_Subset, FS_CardinalityType
  <2>. HIDE DEF old, new
  <2>5. new \subseteq old /\ Connects(edges, new, Range(terms))
    BY <2>2, <2>3, <2>4, PruneConnects
  <2>6. Done(new) \/ Cardinality(new) <= n - k
    <3>1. CASE new = old
      BY <2>3, <3>1
    <3>2. CASE new # old
      <4>1. ~Done(old)
        BY <2>3, <3>2
      <4>2. Cardinality(new) < Cardinality(old) /\ Cardinality(new) \in Nat
        <5>1. IsFiniteSet(new) /\ Cardinality(new) <= Cardinality(old)
              /\ (Cardinality(old) = Cardinality(new) => old = new)
          BY <2>4, <2>5, FS_Subset
        <5>2. Cardinality(new) \in Nat
          BY <5>1, FS_CardinalityType
        <5>. QED
          BY <2>4, <3>2, <5>1, <5>2
      <4>. QED
        BY <1>1, <2>1, <2>2, <2>4, <4>1, <4>2
    <3>. QED
      BY <3>1, <3>2
  <2>. QED
    BY <2>1, <2>2, <2>5, <2>6 DEF new
<1>. HIDE DEF S
<1>12. n \in S
  <2>1. n \in Int /\ 0 \in Int /\ n \in 0..n
    BY <1>1
  <2>2. \A k \in 0..n : k \in S
    BY <1>10, <1>11, <2>1, EveryOne
  <2>. QED
    BY <2>1, <2>2
<1>13. /\ g[n] \subseteq tree /\ Connects(edges, g[n], Range(terms))
       /\ Done(g[n]) \/ Cardinality(g[n]) <= n - n
  BY <1>12 DEF S
<1>14. IsFiniteSet(g[n]) /\ Cardinality(g[n]) \in Nat
  BY <1>1, <1>13, FS_Subset, FS_CardinalityType
<1>15. Done(g[n])
  <2>1. CASE Cardinality(g[n]) <= n - n
    <3>1. Cardinality(g[n]) = 0
      BY <1>1, <1>14, <2>1
    <3>2. g[n] = {}
      BY <1>14, <3>1, FS_EmptySet
    <3>. QED
      BY <3>2 DEF Prune
  <2>. QED
    BY <1>13, <2>1
<1>16. Leaves(edges, g[n]) \subseteq Range(terms)
  BY <1>14, <1>15, PrunedHasTerminalLeaves
<1>. QED
  BY <1>9, <1>13, <1>16


-----------------------------------------------------------------------------
(* The Steiner tree *)

(* What a search has not reached, no edge leads to. *)
LEMMA UnreachedIsApart ==
    ASSUME GraphAssumption, NEW edges \in Seq(Edge), NEW terms \in Seq(Nodes),
           ~Reachable(edges, terms)
    PROVE  ~Connects(edges, DOMAIN edges, Range(terms))
<1>1. PICK i \in DOMAIN terms, j \in DOMAIN terms : Searches(edges, terms)[i].dist[terms[j]] = Infinity
  BY DEF Reachable
<1>. DEFINE s == terms[i]
            t == terms[j]
            st == Dijkstra(edges, s)
            side == {v \in Nodes : st.dist[v] # Infinity}
<1>2. s \in Nodes /\ t \in Nodes /\ s \in Range(terms) /\ t \in Range(terms)
  BY DEF Range
<1>3. st.dist[t] = Infinity
  BY <1>1 DEF Searches
<1>. HIDE DEF s, t, st
<1>4. PICK done : Reached(edges, s, st, done)
  BY <1>2, DijkstraEnds DEF st
<1>5. /\ st.dist[s] = 0
      /\ \A a \in Nodes, b \in Nodes : st.dist[a] # Infinity /\ Adjacent(edges, a, b) => st.dist[b] # Infinity
  BY <1>4 DEF Reached, Searched
<1>6. side \in SUBSET Nodes /\ s \in side /\ t \notin side
  BY <1>2, <1>3, <1>5 DEF Infinity
<1>7. ASSUME NEW m \in DOMAIN edges, Crosses(edges, m, side) PROVE FALSE
  <2>1. PICK a \in side \cap Nodes, b \in Nodes \ side : IsBetween(edges[m], a, b)
    BY <1>7, CrossesBetween
  <2>2. Adjacent(edges, a, b)
    BY <2>1, ZenonT(60) DEF Adjacent, WeightsBetween
  <2>. QED
    BY <1>5, <2>2
<1>. HIDE DEF side
<1>. QED
  BY <1>2, <1>6, <1>7 DEF Connects

(* More edges connect no less. *)
LEMMA MoreConnects ==
    ASSUME NEW edges, NEW nodes, NEW more, NEW tree \in SUBSET more, Connects(edges, tree, nodes)
    PROVE  Connects(edges, more, nodes)
BY DEF Connects

(* The Steiner edges connect the terminals, if anything does. *)
LEMMA SteinerTreeConnects ==
    ASSUME GraphAssumption, NEW edges \in Seq(Edge), NEW terms \in Seq(Nodes), Len(terms) > 1
    PROVE  LET result == ApproximateSteinerTree(edges, terms) IN
           /\ result.ok = Connects(edges, DOMAIN edges, Range(terms))
           /\ result.ok => /\ result.tree \in SUBSET DOMAIN edges
                           /\ Connects(edges, result.tree, Range(terms))
                           /\ Leaves(edges, result.tree) \subseteq Range(terms)
<1>. DEFINE result == ApproximateSteinerTree(edges, terms)
            run == Searches(edges, terms)
            all == PathEdges(edges, terms, run)
<1>1. result = IF Reachable(edges, terms) THEN [ok |-> TRUE, tree |-> PruneLeaves(edges, terms, all)]
               ELSE NoTree
  BY DEF ApproximateSteinerTree, Reachable, Searches
<1>2. CASE Reachable(edges, terms)
  <2>1. all \in SUBSET DOMAIN edges /\ Connects(edges, all, Range(terms))
    BY <1>2, PathEdgesConnect
  <2>. HIDE DEF all
  <2>2. /\ PruneLeaves(edges, terms, all) \in SUBSET all
        /\ Connects(edges, PruneLeaves(edges, terms, all), Range(terms))
        /\ Leaves(edges, PruneLeaves(edges, terms, all)) \subseteq Range(terms)
    BY <2>1, PruneLeavesConnects
  <2>3. Connects(edges, DOMAIN edges, Range(terms))
    BY <2>1, MoreConnects
  <2>4. result.ok = TRUE /\ result.tree = PruneLeaves(edges, terms, all)
    BY <1>1, <1>2
  <2>5. result.ok = Connects(edges, DOMAIN edges, Range(terms))
    <3>1. Connects(edges, DOMAIN edges, Range(terms)) = TRUE
      BY <2>3 DEF Connects
    <3>. QED
      BY <2>4, <3>1
  <2>6. result.tree \in SUBSET DOMAIN edges
    BY <2>1, <2>2, <2>4
  <2>7. /\ Connects(edges, result.tree, Range(terms))
        /\ Leaves(edges, result.tree) \subseteq Range(terms)
    BY <2>2, <2>4, Zenon
  <2>. QED
    BY <2>5, <2>6, <2>7, Zenon
<1>3. CASE ~Reachable(edges, terms)
  <2>1. Connects(edges, DOMAIN edges, Range(terms)) = FALSE
    <3>1. ~Connects(edges, DOMAIN edges, Range(terms))
      BY <1>3, UnreachedIsApart
    <3>. QED
      BY <3>1 DEF Connects
  <2>2. result.ok = FALSE
    BY <1>1, <1>3 DEF NoTree
  <2>. QED
    BY <2>1, <2>2, Zenon
<1>. QED
  BY <1>2, <1>3

(* SteinerConnects for every graph and any terminals: the edges that       *)
(* approximate_steiner_tree returns connect the terminals, it refuses only *)
(* terminals that nothing connects, and no leaf is anything but a terminal.*)
THEOREM SteinerTrees == GraphSpec => []SteinerConnects
<1>1. GraphInv => SteinerConnects
  <2>. SUFFICES ASSUME GraphInv, asked = "answered" PROVE SteinerConnects
    BY DEF SteinerConnects
  <2>1. GraphAssumption
    BY GraphAssumption
  <2>2. graph \in Seq(Edge) /\ terminals \in TerminalLists
    BY <2>1, GraphAsked
  <2>3. terminals \in Seq(Nodes) /\ Len(terminals) > 1
    BY <2>1, <2>2 DEF GraphAssumption
  <2>4. steiner = ApproximateSteinerTree(graph, terminals)
    BY DEF GraphInv
  <2>5. LET result == ApproximateSteinerTree(graph, terminals) IN
        /\ result.ok = Connects(graph, DOMAIN graph, Range(terminals))
        /\ result.ok => /\ result.tree \in SUBSET DOMAIN graph
                        /\ Connects(graph, result.tree, Range(terminals))
                        /\ Leaves(graph, result.tree) \subseteq Range(terminals)
    BY <2>1, <2>2, <2>3, SteinerTreeConnects
  <2>. QED
    BY <2>4, <2>5 DEF SteinerConnects
<1>. QED
  BY <1>1, GraphInvariant, PTL

-----------------------------------------------------------------------------
(* Distances *)

Dist(edges, a, b) == Dijkstra(edges, a).dist[b]

(* A way from a to v that is as long as v is far, node after node. *)
IsWay(edges, a, v, p, m) ==
    /\ p \in [1..m -> Nodes] /\ p[1] = a /\ p[m] = v
    /\ \A i \in 1..m - 1 :
          /\ Adjacent(edges, p[i], p[i + 1])
          /\ Dist(edges, a, p[i + 1]) = Dist(edges, a, p[i]) + Length(edges, p[i], p[i + 1])

(* No edge leads further than it is long, and there is a way to every node *)
(* that is reached.                                                        *)
LEMMA DistIsShort ==
    ASSUME GraphAssumption, NEW edges \in Seq(Edge), NEW a \in Nodes
    PROVE  /\ Dist(edges, a, a) = 0
           /\ \A v \in Nodes : Dist(edges, a, v) # Infinity => Dist(edges, a, v) \in Nat
           /\ \A u, v \in Nodes : Dist(edges, a, u) # Infinity /\ Adjacent(edges, u, v) =>
                 /\ Dist(edges, a, v) # Infinity
                 /\ Dist(edges, a, v) <= Dist(edges, a, u) + Length(edges, u, v)
           /\ \A v \in Nodes : Dist(edges, a, v) # Infinity =>
                 \E m \in Nat \ {0} : \E p : IsWay(edges, a, v, p, m)
<1>. DEFINE st == Dijkstra(edges, a)
<1>1. PICK done : Reached(edges, a, st, done)
  BY DijkstraEnds
<1>2. \A v \in Nodes : Dist(edges, a, v) = st.dist[v]
  BY DEF Dist
<1>. HIDE DEF st
<1>3. \A v \in Nodes : st.dist[v] # Infinity => v \in done /\ st.dist[v] \in Nat
  BY <1>1 DEF Reached, Searched, States
<1>4. st.dist[a] = 0
  BY <1>1 DEF Reached, Searched
<1>5. \A u, v \in Nodes : st.dist[u] # Infinity /\ Adjacent(edges, u, v) =>
        st.dist[v] # Infinity /\ st.dist[v] <= st.dist[u] + Length(edges, u, v)
  BY <1>1, <1>3 DEF Reached, Searched
<1>6. ASSUME NEW v \in Nodes, st.dist[v] # Infinity
      PROVE  \E m \in Nat \ {0} : \E p : IsWay(edges, a, v, p, m)
  <2>1. PICK p : IsTrail(edges, a, st, done, v, p)
    BY <1>1, <1>6 DEF Reached, Trailed
  <2>2. PICK m \in Nat \ {0} :
          /\ p \in [1..m -> Nodes] /\ p[1] = a /\ p[m] = v
          /\ \A i \in 1..m - 1 :
                /\ Adjacent(edges, p[i], p[i + 1])
                /\ st.dist[p[i + 1]] = st.dist[p[i]] + Length(edges, p[i], p[i + 1])
    BY <2>1 DEF IsTrail
  <2>3. \A i \in 1..m - 1 : p[i] \in Nodes /\ p[i + 1] \in Nodes
    BY <2>2
  <2>4. IsWay(edges, a, v, p, m)
    BY <1>2, <2>2, <2>3 DEF IsWay
  <2>. QED
    BY <2>4
<1>7. \A v \in Nodes : st.dist[v] # Infinity => \E m \in Nat \ {0} : \E p : IsWay(edges, a, v, p, m)
  BY <1>6
<1>. QED
  BY <1>2, <1>3, <1>4, <1>5, <1>7

(* By way of b it is no shorter. *)
LEMMA DistByWayOf ==
    ASSUME GraphAssumption, NEW edges \in Seq(Edge), NEW a \in Nodes, NEW b \in Nodes, NEW c \in Nodes,
           Dist(edges, a, b) # Infinity, Dist(edges, b, c) # Infinity
    PROVE  /\ Dist(edges, a, c) # Infinity
           /\ Dist(edges, a, c) <= Dist(edges, a, b) + Dist(edges, b, c)
<1>1. PICK m \in Nat \ {0} : \E p : IsWay(edges, b, c, p, m)
  BY DistIsShort
<1>2. PICK p : IsWay(edges, b, c, p, m)
  BY <1>1
<1>. DEFINE da(v) == Dist(edges, a, v)
            db(v) == Dist(edges, b, v)
<1>3. /\ p \in [1..m -> Nodes] /\ p[1] = b /\ p[m] = c
      /\ \A i \in 1..m - 1 : /\ Adjacent(edges, p[i], p[i + 1])
                             /\ db(p[i + 1]) = db(p[i]) + Length(edges, p[i], p[i + 1])
  BY <1>2 DEF IsWay
<1>4. /\ \A v \in Nodes : da(v) # Infinity => da(v) \in Nat
      /\ \A u, v \in Nodes : da(u) # Infinity /\ Adjacent(edges, u, v) =>
            da(v) # Infinity /\ da(v) <= da(u) + Length(edges, u, v)
      /\ db(b) = 0
  BY DistIsShort
<1>5. da(b) # Infinity
  OBVIOUS
<1>. HIDE DEF da, db
<1>. DEFINE S == {i \in 1..m : db(p[i]) \in Nat /\ da(p[i]) # Infinity /\ da(p[i]) <= da(b) + db(p[i])}
<1>6. 1 \in S
  BY <1>3, <1>4, <1>5
<1>7. \A i \in 1 + 1..m : i - 1 \in S => i \in S
  <2>. SUFFICES ASSUME NEW i \in 1 + 1..m, i - 1 \in S PROVE i \in S
    OBVIOUS
  <2>. DEFINE j == i - 1
              x == p[j]
              y == p[i]
              l == Length(edges, x, y)
  <2>1. j \in 1..m - 1 /\ j + 1 = i /\ i \in 1..m /\ j \in 1..m
    OBVIOUS
  <2>2. x \in Nodes /\ y \in Nodes /\ Adjacent(edges, x, y) /\ db(y) = db(x) + l
    BY <1>3, <2>1
  <2>3. db(x) \in Nat /\ da(x) # Infinity /\ da(x) <= da(b) + db(x)
    OBVIOUS
  <2>4. l \in Nat
    BY <2>2, EdgesLeadBack
  <2>5. da(y) # Infinity /\ da(y) <= da(x) + l /\ da(x) \in Nat /\ da(y) \in Nat /\ da(b) \in Nat
    BY <1>4, <1>5, <2>2, <2>3
  <2>. HIDE DEF l, x
  <2>6. db(y) \in Nat /\ da(y) <= da(b) + db(y)
    BY <2>2, <2>3, <2>4, <2>5, SMTT(60)
  <2>. QED
    BY <2>1, <2>5, <2>6
<1>. HIDE DEF S
<1>8. m \in S
  <2>1. m \in Int /\ 1 \in Int /\ m \in 1..m
    OBVIOUS
  <2>2. \A i \in 1..m : i \in S
    BY <1>6, <1>7, <2>1, EveryOne
  <2>. QED
    BY <2>1, <2>2
<1>. QED
  BY <1>3, <1>8 DEF S, da, db

(* The way back is no longer. *)
LEMMA DistIsNoLongerBack ==
    ASSUME GraphAssumption, NEW edges \in Seq(Edge), NEW a \in Nodes, NEW b \in Nodes,
           Dist(edges, a, b) # Infinity
    PROVE  Dist(edges, b, a) # Infinity /\ Dist(edges, b, a) <= Dist(edges, a, b)
<1>1. PICK m \in Nat \ {0} : \E p : IsWay(edges, a, b, p, m)
  BY DistIsShort
<1>2. PICK p : IsWay(edges, a, b, p, m)
  BY <1>1
<1>. DEFINE da(v) == Dist(edges, a, v)
            db(v) == Dist(edges, b, v)
<1>3. /\ p \in [1..m -> Nodes] /\ p[1] = a /\ p[m] = b
      /\ \A i \in 1..m - 1 : /\ Adjacent(edges, p[i], p[i + 1])
                             /\ da(p[i + 1]) = da(p[i]) + Length(edges, p[i], p[i + 1])
  BY <1>2 DEF IsWay
<1>4. /\ \A v \in Nodes : db(v) # Infinity => db(v) \in Nat
      /\ \A u, v \in Nodes : db(u) # Infinity /\ Adjacent(edges, u, v) =>
            db(v) # Infinity /\ db(v) <= db(u) + Length(edges, u, v)
      /\ \A v \in Nodes : da(v) # Infinity => da(v) \in Nat
      /\ da(a) = 0 /\ db(b) = 0 /\ da(b) # Infinity
  BY DistIsShort
<1>5. \A i \in 1..m - 1 :
         /\ Length(edges, p[i], p[i + 1]) \in Nat
         /\ Adjacent(edges, p[i + 1], p[i])
         /\ Length(edges, p[i + 1], p[i]) = Length(edges, p[i], p[i + 1])
  BY <1>3, EdgesLeadBack
<1>. HIDE DEF da, db
<1>. DEFINE F == {i \in 1..m : da(p[i]) \in Nat}
<1>6. \A i \in 1..m : i \in F
  <2>1. 1 \in F
    BY <1>3, <1>4
  <2>2. \A i \in 1 + 1..m : i - 1 \in F => i \in F
    <3>. SUFFICES ASSUME NEW i \in 1 + 1..m, i - 1 \in F PROVE i \in F
      OBVIOUS
    <3>1. i - 1 \in 1..m - 1 /\ (i - 1) + 1 = i /\ i \in 1..m
      OBVIOUS
    <3>2. da(p[i - 1]) \in Nat /\ da(p[i]) = da(p[i - 1]) + Length(edges, p[i - 1], p[i])
      BY <1>3, <3>1
    <3>3. Length(edges, p[i - 1], p[i]) \in Nat
      BY <1>5, <3>1
    <3>. QED
      BY <3>1, <3>2, <3>3
  <2>3. 1 \in Int /\ m \in Int
    OBVIOUS
  <2>. HIDE DEF F
  <2>. QED
    BY <2>1, <2>2, <2>3, EveryOne
<1>. DEFINE last == m - 1
            S == {j \in 0..last : db(p[m - j]) # Infinity /\ db(p[m - j]) + da(p[m - j]) <= da(b)}
<1>7. last \in Nat
  OBVIOUS
<1>8. 0 \in S
  <2>1. m - 0 = m /\ 0 \in 0..last
    OBVIOUS
  <2>. QED
    BY <1>3, <1>4, <2>1 DEF Infinity
<1>9. \A j \in 0 + 1..last : j - 1 \in S => j \in S
  <2>. SUFFICES ASSUME NEW j \in 0 + 1..last, j - 1 \in S PROVE j \in S
    OBVIOUS
  <2>. DEFINE i == m - j
              x == p[i]
              y == p[i + 1]
              l == Length(edges, x, y)
  <2>1. i \in 1..m - 1 /\ m - (j - 1) = i + 1 /\ i \in 1..m /\ i + 1 \in 1..m /\ j \in 0..last
    OBVIOUS
  <2>2. x \in Nodes /\ y \in Nodes /\ Adjacent(edges, y, x) /\ da(y) = da(x) + l
        /\ l \in Nat /\ Length(edges, y, x) = l
    BY <1>3, <1>5, <2>1
  <2>3. db(y) # Infinity /\ db(y) + da(y) <= da(b)
    BY <2>1
  <2>4. da(x) \in Nat /\ da(b) \in Nat
    BY <1>4, <1>6, <2>1
  <2>5. db(x) # Infinity /\ db(x) <= db(y) + l /\ db(x) \in Nat /\ db(y) \in Nat
    BY <1>4, <2>2, <2>3
  <2>. HIDE DEF l, y
  <2>6. db(x) + da(x) <= da(b)
    BY <2>2, <2>3, <2>4, <2>5
  <2>. QED
    BY <2>1, <2>5, <2>6
<1>. HIDE DEF S, last
<1>10. last \in S
  <2>1. last \in Int /\ 0 \in Int /\ last \in 0..last
    BY <1>7
  <2>2. \A j \in 0..last : j \in S
    BY <1>8, <1>9, <2>1, EveryOne
  <2>. QED
    BY <2>1, <2>2
<1>11. m - last = 1
  BY DEF last
<1>12. db(a) # Infinity /\ db(a) + da(a) <= da(b)
  BY <1>3, <1>10, <1>11 DEF S
<1>13. db(a) <= da(b)
  <2>1. db(a) \in Nat /\ da(b) \in Nat
    BY <1>4, <1>12
  <2>. QED
    BY <1>4, <1>12, <2>1
<1>. QED
  BY <1>12, <1>13 DEF da, db

-----------------------------------------------------------------------------
(* Tours *)

(* From every node of V the tour goes on to the next, and comes to all of  *)
(* them: it leaves every part of V.                                        *)
IsTour(edges, V, next) ==
    /\ V \subseteq Nodes /\ V # {} /\ next \in [V -> V]
    /\ \A a, b \in V : Dist(edges, a, b) # Infinity
    /\ \A a, b \in V : next[a] = next[b] => a = b
    /\ \A side \in SUBSET V : side # {} /\ side # V => \E a \in side : next[a] \notin side

(* What the tour costs, the node v being counted at v + 1. *)
Slots(V) == {v + 1 : v \in V}
Hops(edges, V, next) == [k \in Slots(V) |-> Dist(edges, k - 1, next[k - 1])]
TourCost(edges, V, next) == Total(Hops(edges, V, next), Slots(V), NodeCount)
Hop(edges, V, next, v) == IF v \in V THEN Dist(edges, v, next[v]) ELSE 0

(* What every node of the tour counts for. *)
LEMMA HopsCost ==
    ASSUME GraphAssumption, NEW edges \in Seq(Edge), NEW V, NEW next, IsTour(edges, V, next)
    PROVE  /\ Weights(Hops(edges, V, next), Slots(V))
           /\ \A v \in Nodes :
                 /\ v + 1 \in 1..NodeCount
                 /\ Addend(Hops(edges, V, next), Slots(V), v + 1) = Hop(edges, V, next, v)
           /\ \A v \in V : Dist(edges, v, next[v]) \in Nat
<1>. DEFINE w == Hops(edges, V, next)
<1>1. V \subseteq Nodes /\ next \in [V -> V] /\ \A a, b \in V : Dist(edges, a, b) # Infinity
  BY DEF IsTour
<1>2. \A v \in V : Dist(edges, v, next[v]) \in Nat
  <2>. SUFFICES ASSUME NEW v \in V PROVE Dist(edges, v, next[v]) \in Nat
    OBVIOUS
  <2>1. v \in Nodes /\ next[v] \in Nodes /\ Dist(edges, v, next[v]) # Infinity
    BY <1>1
  <2>. QED
    BY <2>1, DistIsShort
<1>3. \A v \in Nodes : v \in Int /\ (v + 1) - 1 = v /\ v + 1 \in 1..NodeCount
  BY NodesFinite DEF Nodes
<1>4. \A v \in Nodes : v + 1 \in Slots(V) <=> v \in V
  BY <1>1, <1>3 DEF Slots
<1>5. \A v \in V : w[v + 1] = Dist(edges, v, next[v])
  BY <1>1, <1>3, <1>4 DEF Hops
<1>. HIDE DEF w
<1>6. Weights(w, Slots(V))
  <2>1. \A k \in Slots(V) : \E v \in V : k = v + 1
    BY DEF Slots
  <2>. QED
    BY <1>2, <1>5, <2>1 DEF Weights
<1>7. \A v \in Nodes : Addend(w, Slots(V), v + 1) = Hop(edges, V, next, v)
  BY <1>4, <1>5 DEF Addend, Hop
<1>. QED
  BY <1>2, <1>3, <1>6, <1>7 DEF w

(* The tours go on alike but from x and y. *)
Alike(V, next, U, other, x, y) ==
    \A v \in Nodes : v # x /\ v # y => (v \in U <=> v \in V) /\ (v \in V => other[v] = next[v])

(* They cost alike but for these. *)
CostAlike(edges, V, next, U, other, x, y) ==
    /\ TourCost(edges, V, next) \in Nat /\ TourCost(edges, U, other) \in Nat
    /\ TourCost(edges, U, other) + Hop(edges, V, next, x) + Hop(edges, V, next, y)
         = TourCost(edges, V, next) + Hop(edges, U, other, x) + Hop(edges, U, other, y)

(* Tours that go on alike cost alike. *)
LEMMA ToursDiffer ==
    ASSUME GraphAssumption, NEW edges \in Seq(Edge),
           NEW V, NEW next, IsTour(edges, V, next), NEW U, NEW other, IsTour(edges, U, other),
           NEW x \in Nodes, NEW y \in Nodes, x # y, Alike(V, next, U, other, x, y)
    PROVE  CostAlike(edges, V, next, U, other, x, y)
<1>. DEFINE a(v) == Hop(edges, V, next, v)
            b(v) == Hop(edges, U, other, v)
            n == NodeCount
            w == Hops(edges, V, next)
            z == Hops(edges, U, other)
            S == Slots(V)
            R == Slots(U)
<1>1. /\ Weights(w, S) /\ \A v \in Nodes : v + 1 \in 1..n /\ Addend(w, S, v + 1) = a(v)
      /\ Weights(z, R) /\ \A v \in Nodes : Addend(z, R, v + 1) = b(v)
  <2>1. Weights(w, S)
    BY HopsCost, Zenon
  <2>2. \A v \in Nodes : v + 1 \in 1..n
    BY NodesFinite DEF Nodes
  <2>3. ASSUME NEW v \in Nodes PROVE Addend(w, S, v + 1) = a(v)
    BY HopsCost, Zenon
  <2>4. Weights(z, R)
    BY HopsCost, Zenon
  <2>5. ASSUME NEW v \in Nodes PROVE Addend(z, R, v + 1) = b(v)
    BY HopsCost, Zenon
  <2>. HIDE DEF a, b, w, z, S, R, n
  <2>. QED
    BY <2>1, <2>2, <2>3, <2>4, <2>5
<1>2. \A v \in Nodes : v # x /\ v # y => a(v) = b(v)
  BY DEF Hop, Alike
<1>3. n \in Nat
  BY NodesFinite
<1>4. \A k \in 1..n : k - 1 \in Nodes /\ (k - 1) + 1 = k
  BY <1>3 DEF Nodes
<1>5. x + 1 # y + 1
  BY DEF Nodes
<1>. HIDE DEF a, b, w, z, S, R, n
<1>6. \A k \in 1..n : k # x + 1 /\ k # y + 1 => Addend(z, R, k) = Addend(w, S, k)
  <2>. SUFFICES ASSUME NEW k \in 1..n, k # x + 1, k # y + 1 PROVE Addend(z, R, k) = Addend(w, S, k)
    OBVIOUS
  <2>. DEFINE v == k - 1
  <2>1. v \in Nodes /\ v + 1 = k
    BY <1>4
  <2>2. v # x /\ v # y
    BY <2>1
  <2>. HIDE DEF v
  <2>3. Addend(z, R, v + 1) = b(v) /\ Addend(w, S, v + 1) = a(v) /\ a(v) = b(v)
    BY <1>1, <1>2, <2>1, <2>2
  <2>. QED
    BY <2>1, <2>3
<1>7. Total(z, R, n) + Addend(w, S, x + 1) + Addend(w, S, y + 1)
        = Total(w, S, n) + Addend(z, R, x + 1) + Addend(z, R, y + 1)
  <2>. DEFINE i == x + 1
              j == y + 1
  <2>1. i \in 1..n /\ j \in 1..n /\ i # j
    BY <1>1, <1>5
  <2>2. \A k \in 1..n : k # i /\ k # j => Addend(z, R, k) = Addend(w, S, k)
    BY <1>6
  <2>. HIDE DEF i, j
  <2>3. Total(z, R, n) + Addend(w, S, i) + Addend(w, S, j)
          = Total(w, S, n) + Addend(z, R, i) + Addend(z, R, j)
    BY <1>1, <1>3, <2>1, <2>2, TotalDiffersTwice
  <2>. QED
    BY <2>3 DEF i, j
<1>8. Total(z, R, n) + a(x) + a(y) = Total(w, S, n) + b(x) + b(y)
  BY <1>1, <1>7
<1>9. Total(z, R, n) \in Nat /\ Total(w, S, n) \in Nat
  BY <1>1, <1>3, TotalType
<1>10. TourCost(edges, V, next) = Total(w, S, n) /\ TourCost(edges, U, other) = Total(z, R, n)
  BY DEF TourCost, w, z, S, R, n
<1>. QED
  BY <1>8, <1>9, <1>10 DEF a, b, CostAlike

(* The tour of one node costs nothing. *)
LEMMA TourStarts ==
    ASSUME GraphAssumption, NEW edges \in Seq(Edge), NEW s \in Nodes
    PROVE  \E next : IsTour(edges, {s}, next) /\ TourCost(edges, {s}, next) = 0
<1>. DEFINE V == {s}
            next == [v \in V |-> s]
            w == Hops(edges, V, next)
            S == Slots(V)
            none == {}
            n == NodeCount
<1>1. Dist(edges, s, s) = 0
  BY DistIsShort
<1>2. IsTour(edges, V, next)
  BY <1>1 DEF IsTour, Infinity
<1>3. /\ Weights(w, S)
      /\ \A v \in Nodes : v + 1 \in 1..n /\ Addend(w, S, v + 1) = Hop(edges, V, next, v)
  <2>. HIDE DEF V, next
  <2>1. Weights(w, S)
    BY <1>2, HopsCost, Zenon
  <2>2. \A v \in Nodes : v + 1 \in 1..n /\ Addend(w, S, v + 1) = Hop(edges, V, next, v)
    BY <1>2, HopsCost, Zenon
  <2>. QED
    BY <2>1, <2>2
<1>4. \A v \in Nodes : Hop(edges, V, next, v) = 0
  BY <1>1 DEF Hop
<1>5. n \in Nat /\ \A k \in 1..n : k - 1 \in Nodes /\ (k - 1) + 1 = k
  BY NodesFinite DEF Nodes
<1>6. TourCost(edges, V, next) = Total(w, S, n)
  BY DEF TourCost
<1>. HIDE DEF V, next, w, S, none, n
<1>7. \A k \in 1..n : Addend(w, S, k) = 0 /\ Addend(w, none, k) = 0
  <2>1. \A k \in 1..n : Addend(w, S, k) = 0
    <3>. SUFFICES ASSUME NEW k \in 1..n PROVE Addend(w, S, k) = 0
      OBVIOUS
    <3>. DEFINE v == k - 1
    <3>1. v \in Nodes /\ v + 1 = k
      BY <1>5
    <3>. HIDE DEF v
    <3>2. Addend(w, S, v + 1) = 0
      BY <1>3, <1>4, <3>1
    <3>. QED
      BY <3>1, <3>2
  <2>. QED
    BY <2>1 DEF Addend, none
<1>8. Weights(w, none)
  BY DEF Weights, none
<1>9. Total(w, none, n) = 0 /\ Total(w, S, n) \in Nat
  <2>1. Total(w, {}, n) = 0 /\ Total(w, S, n) \in Nat
    BY <1>3, <1>5, TotalType
  <2>. QED
    BY <2>1 DEF none
<1>10. Total(w, S, n) <= Total(w, none, n) + Total(w, none, n)
  <2>1. \A k \in 1..n : Addend(w, S, k) <= Addend(w, none, k) + Addend(w, none, k)
    BY <1>7
  <2>. QED
    BY <1>3, <1>5, <1>8, <2>1, TotalWithin
<1>11. Total(w, S, n) = 0
  BY <1>9, <1>10
<1>. QED
  BY <1>2, <1>6, <1>11 DEF V

(* The tour takes in a neighbour of x, there and back. *)
LEMMA TourGrows ==
    ASSUME GraphAssumption, NEW edges \in Seq(Edge), NEW V, NEW next, IsTour(edges, V, next),
           NEW x \in V, NEW y \in Nodes \ V, Adjacent(edges, x, y)
    PROVE  \E more : /\ IsTour(edges, V \cup {y}, more)
                     /\ TourCost(edges, V, next) \in Nat
                     /\ TourCost(edges, V \cup {y}, more) \in Nat
                     /\ TourCost(edges, V \cup {y}, more)
                          <= TourCost(edges, V, next) + 2 * Length(edges, x, y)
<1>. DEFINE U == V \cup {y}
            more == [v \in U |-> IF v = y THEN next[x] ELSE IF v = x THEN y ELSE next[v]]
            D(a, b) == Dist(edges, a, b)
            l == Length(edges, x, y)
<1>1. /\ V \subseteq Nodes /\ V # {} /\ next \in [V -> V]
      /\ \A a, b \in V : D(a, b) # Infinity
      /\ \A a, b \in V : next[a] = next[b] => a = b
      /\ \A side \in SUBSET V : side # {} /\ side # V => \E a \in side : next[a] \notin side
  BY DEF IsTour
<1>2. x \in Nodes /\ y \in Nodes /\ x # y /\ next[x] \in V /\ next[x] \in Nodes
  BY <1>1
<1>3. \A a \in V : D(a, y) # Infinity /\ D(y, a) # Infinity
  <2>. SUFFICES ASSUME NEW a \in V PROVE D(a, y) # Infinity /\ D(y, a) # Infinity
    OBVIOUS
  <2>1. a \in Nodes /\ D(a, x) # Infinity
    BY <1>1
  <2>2. D(a, y) # Infinity
    BY <1>2, <2>1, DistIsShort
  <2>3. D(y, a) # Infinity
    BY <1>2, <2>1, <2>2, DistIsNoLongerBack
  <2>. QED
    BY <2>2, <2>3
<1>4. D(y, y) # Infinity
  <2>1. Dist(edges, y, y) = 0
    BY <1>2, DistIsShort
  <2>. QED
    BY <2>1 DEF Infinity
<1>5. l \in Nat /\ D(x, y) \in Nat /\ D(x, y) <= l
  <2>1. l \in Nat
    BY EdgesLeadBack
  <2>2. D(x, x) = 0 /\ D(x, x) # Infinity
    <3>1. Dist(edges, x, x) = 0
      BY <1>2, DistIsShort
    <3>. QED
      BY <3>1 DEF Infinity
  <2>3. D(x, y) # Infinity /\ D(x, y) <= D(x, x) + l
    BY <1>2, <2>2, DistIsShort
  <2>4. D(x, y) \in Nat
    BY <1>2, <2>3, DistIsShort
  <2>. QED
    BY <2>1, <2>2, <2>3, <2>4
<1>6. /\ D(y, x) \in Nat /\ D(y, x) <= D(x, y)
  <2>1. D(x, y) # Infinity /\ D(y, x) # Infinity
    BY <1>3
  <2>2. D(y, x) <= D(x, y)
    BY <1>2, <2>1, DistIsNoLongerBack
  <2>3. D(y, x) \in Nat
    BY <1>2, <2>1, DistIsShort
  <2>. QED
    BY <2>2, <2>3
<1>7. /\ D(y, next[x]) \in Nat /\ D(x, next[x]) \in Nat
      /\ D(y, next[x]) <= D(y, x) + D(x, next[x])
  <2>. DEFINE z == next[x]
  <2>1. z \in Nodes /\ z \in V
    BY <1>2
  <2>. HIDE DEF z
  <2>2. D(y, x) # Infinity /\ D(x, z) # Infinity /\ D(y, z) # Infinity
    BY <1>1, <1>3, <2>1
  <2>3. D(y, z) <= D(y, x) + D(x, z)
    BY <1>2, <2>1, <2>2, DistByWayOf
  <2>4. D(y, z) \in Nat /\ D(x, z) \in Nat
    BY <1>2, <2>1, <2>2, DistIsShort
  <2>. QED
    BY <2>3, <2>4 DEF z
<1>. HIDE DEF D, l
<1>8. /\ more \in [U -> U] /\ more[y] = next[x] /\ more[x] = y
      /\ \A v \in V : v # x => more[v] = next[v]
      /\ \A v \in V : next[v] \in V
  BY <1>1, <1>2
<1>9. \A a, b \in U : more[a] = more[b] => a = b
  <2>. HIDE DEF more
  <2>. QED
    BY <1>1, <1>2, <1>8
<1>10. ASSUME NEW side \in SUBSET U, side # {}, side # U
       PROVE  \E a \in side : more[a] \notin side
  <2>. HIDE DEF more
  <2>1. CASE y \notin side
    <3>1. side \in SUBSET V
      BY <2>1
    <3>2. CASE side = V
      BY <1>8, <2>1, <3>2
    <3>3. CASE side # V
      <4>1. PICK a \in side : next[a] \notin side
        BY <1>1, <1>10, <3>1, <3>3
      <4>2. more[a] \notin side
        BY <1>8, <2>1, <3>1, <4>1
      <4>. QED
        BY <4>2
    <3>. QED
      BY <3>2, <3>3
  <2>2. CASE y \in side
    <3>. DEFINE Q == side \ {y}
    <3>1. Q \in SUBSET V /\ Q # V
      BY <1>10, <2>2
    <3>2. CASE Q = {}
      <4>1. side = {y}
        BY <2>2, <3>2
      <4>. QED
        BY <1>2, <1>8, <4>1
    <3>3. CASE Q # {}
      <4>1. PICK a \in Q : next[a] \notin Q
        BY <1>1, <3>1, <3>3
      <4>2. a \in V /\ next[a] \notin side
        BY <1>8, <3>1, <4>1
      <4>3. CASE a = x
        BY <1>8, <2>2, <4>2, <4>3
      <4>4. CASE a # x
        BY <1>8, <4>1, <4>2, <4>4
      <4>. QED
        BY <4>3, <4>4
    <3>. QED
      BY <3>2, <3>3
  <2>. QED
    BY <2>1, <2>2
<1>11. IsTour(edges, U, more)
  <2>1. \A a, b \in U : Dist(edges, a, b) # Infinity
    BY <1>1, <1>3, <1>4 DEF D
  <2>2. U \subseteq Nodes /\ U # {}
    BY <1>1
  <2>3. \A side \in SUBSET U : side # {} /\ side # U => \E a \in side : more[a] \notin side
    BY <1>10
  <2>. HIDE DEF more, U
  <2>. QED
    BY <1>8, <1>9, <2>1, <2>2, <2>3 DEF IsTour
<1>12. /\ Hop(edges, V, next, x) = D(x, next[x]) /\ Hop(edges, V, next, y) = 0
       /\ Hop(edges, U, more, x) = D(x, y) /\ Hop(edges, U, more, y) = D(y, next[x])
  BY <1>2, <1>8 DEF Hop, D
<1>13. Alike(V, next, U, more, x, y)
  BY <1>8 DEF Alike
<1>. HIDE DEF U, more
<1>14. /\ TourCost(edges, V, next) \in Nat /\ TourCost(edges, U, more) \in Nat
       /\ TourCost(edges, U, more) + Hop(edges, V, next, x) + Hop(edges, V, next, y)
            = TourCost(edges, V, next) + Hop(edges, U, more, x) + Hop(edges, U, more, y)
  <2>1. CostAlike(edges, V, next, U, more, x, y)
    BY <1>2, <1>11, <1>13, ToursDiffer, Zenon
  <2>. QED
    BY <2>1 DEF CostAlike
<1>15. TourCost(edges, U, more) <= TourCost(edges, V, next) + 2 * l
  BY <1>5, <1>6, <1>7, <1>12, <1>14
<1>. QED
  BY <1>11, <1>14, <1>15 DEF U, l

(* The tour leaves out a node, at no more cost. *)
LEMMA TourShrinks ==
    ASSUME GraphAssumption, NEW edges \in Seq(Edge), NEW V, NEW next, IsTour(edges, V, next),
           NEW v \in V, V # {v}
    PROVE  \E less : /\ IsTour(edges, V \ {v}, less)
                     /\ TourCost(edges, V, next) \in Nat
                     /\ TourCost(edges, V \ {v}, less) \in Nat
                     /\ TourCost(edges, V \ {v}, less) <= TourCost(edges, V, next)
<1>. DEFINE U == V \ {v}
            D(a, b) == Dist(edges, a, b)
<1>1. /\ V \subseteq Nodes /\ V # {} /\ next \in [V -> V]
      /\ \A a, b \in V : D(a, b) # Infinity
      /\ \A a, b \in V : next[a] = next[b] => a = b
      /\ \A side \in SUBSET V : side # {} /\ side # V => \E a \in side : next[a] \notin side
  BY DEF IsTour
<1>2. PICK p \in U : next[p] \notin U
  <2>1. U \in SUBSET V /\ U # {} /\ U # V
    OBVIOUS
  <2>. QED
    BY <1>1, <2>1
<1>3. next[p] = v /\ p # v /\ p \in V /\ p \in Nodes /\ v \in Nodes
  BY <1>1, <1>2
<1>4. next[v] \in V /\ next[v] # v /\ next[v] \in Nodes
  <2>1. {v} \in SUBSET V /\ {v} # {} /\ {v} # V
    OBVIOUS
  <2>2. PICK a \in {v} : next[a] \notin {v}
    BY <1>1, <2>1
  <2>. QED
    BY <1>1, <2>2
<1>. DEFINE less == [u \in U |-> IF u = p THEN next[v] ELSE next[u]]
            q == next[v]
<1>5. /\ less \in [U -> U] /\ less[p] = q
      /\ \A u \in U : u # p => less[u] = next[u]
  <2>1. \A u \in U : u # p => next[u] \in U
    BY <1>1, <1>3
  <2>. QED
    BY <1>2, <1>4, <2>1
<1>6. /\ D(p, q) \in Nat /\ D(p, v) \in Nat /\ D(v, q) \in Nat
      /\ D(p, q) <= D(p, v) + D(v, q)
  <2>1. q \in Nodes /\ q \in V
    BY <1>4
  <2>. HIDE DEF q
  <2>2. D(p, v) # Infinity /\ D(v, q) # Infinity /\ D(p, q) # Infinity
    BY <1>1, <1>3, <2>1
  <2>3. D(p, q) <= D(p, v) + D(v, q)
    BY <1>3, <2>1, <2>2, DistByWayOf
  <2>4. D(p, q) \in Nat /\ D(p, v) \in Nat /\ D(v, q) \in Nat
    BY <1>3, <2>1, <2>2, DistIsShort
  <2>. QED
    BY <2>3, <2>4
<1>. HIDE DEF less, D
<1>7. \A a, b \in U : less[a] = less[b] => a = b
  BY <1>1, <1>3, <1>5
<1>8. ASSUME NEW side \in SUBSET U, side # {}, side # U
      PROVE  \E a \in side : less[a] \notin side
  <2>1. CASE p \in side
    <3>. DEFINE Q == side \cup {v}
    <3>1. Q \in SUBSET V /\ Q # V /\ Q # {}
      BY <1>8
    <3>2. PICK a \in Q : next[a] \notin Q
      BY <1>1, <3>1
    <3>3. CASE a = v
      BY <1>5, <2>1, <3>2, <3>3
    <3>4. CASE a # v
      <4>1. a \in side /\ a # p
        BY <1>3, <3>2, <3>4
      <4>2. less[a] = next[a]
        BY <1>5, <4>1
      <4>. QED
        BY <3>2, <4>1, <4>2
    <3>. QED
      BY <3>3, <3>4
  <2>2. CASE p \notin side
    <3>1. side \in SUBSET V /\ side # V
      BY <1>8
    <3>2. PICK a \in side : next[a] \notin side
      BY <1>1, <1>8, <3>1
    <3>3. less[a] = next[a]
      BY <1>5, <2>2, <3>2
    <3>. QED
      BY <3>2, <3>3
  <2>. QED
    BY <2>1, <2>2
<1>9. IsTour(edges, U, less)
  <2>1. \A a, b \in U : Dist(edges, a, b) # Infinity
    BY <1>1 DEF D
  <2>2. U \subseteq Nodes /\ U # {}
    BY <1>1
  <2>3. \A side \in SUBSET U : side # {} /\ side # U => \E a \in side : less[a] \notin side
    BY <1>8
  <2>. HIDE DEF U
  <2>. QED
    BY <1>5, <1>7, <2>1, <2>2, <2>3 DEF IsTour
<1>10. /\ Hop(edges, V, next, p) = D(p, v) /\ Hop(edges, V, next, v) = D(v, q)
       /\ Hop(edges, U, less, p) = D(p, q) /\ Hop(edges, U, less, v) = 0
  BY <1>2, <1>3, <1>5 DEF Hop, D
<1>11. Alike(V, next, U, less, p, v)
  BY <1>5 DEF Alike
<1>. HIDE DEF U
<1>12. /\ TourCost(edges, V, next) \in Nat /\ TourCost(edges, U, less) \in Nat
       /\ TourCost(edges, U, less) + Hop(edges, V, next, p) + Hop(edges, V, next, v)
            = TourCost(edges, V, next) + Hop(edges, U, less, p) + Hop(edges, U, less, v)
  <2>1. CostAlike(edges, V, next, U, less, p, v)
    BY <1>3, <1>9, <1>11, ToursDiffer, Zenon
  <2>. QED
    BY <2>1 DEF CostAlike
<1>13. TourCost(edges, U, less) <= TourCost(edges, V, next)
  BY <1>6, <1>10, <1>12
<1>. QED
  BY <1>9, <1>12, <1>13 DEF U

(* A tour by way of s, along the edges of D twice. *)
TourAlong(edges, other, s, V, next, D) ==
    /\ s \in V /\ IsTour(edges, V, next)
    /\ D \in SUBSET other /\ \A i \in D : Ends(edges, i) \subseteq V
    /\ TourCost(edges, V, next) \in Nat
    /\ TourCost(edges, V, next) <= 2 * Price(edges, Len(edges), D)

(* An edge that leads out of it is gone along as well. *)
LEMMA TourAlongMore ==
    ASSUME GraphAssumption, NEW edges \in Seq(Edge), NEW other \in SUBSET DOMAIN edges, NEW s,
           NEW V, NEW next, NEW D, TourAlong(edges, other, s, V, next, D),
           NEW i \in other, Crosses(edges, i, V)
    PROVE  \E b \in Nodes \ V : \E more : TourAlong(edges, other, s, V \cup {b}, more, D \cup {i})
<1>. DEFINE n == Len(edges)
            old == TourCost(edges, V, next)
<1>1. /\ s \in V /\ IsTour(edges, V, next)
      /\ D \in SUBSET other /\ \A j \in D : Ends(edges, j) \subseteq V
      /\ old \in Nat /\ old <= 2 * Price(edges, n, D)
  BY DEF TourAlong
<1>2. PICK a \in V \cap Nodes, b \in Nodes \ V : IsBetween(edges[i], a, b)
  BY CrossesBetween
<1>. DEFINE U == V \cup {b}
            E == D \cup {i}
            l == Length(edges, a, b)
<1>3. edges[i].w \in WeightsBetween(edges, a, b)
  BY <1>2 DEF WeightsBetween
<1>4. Adjacent(edges, a, b)
  BY <1>3 DEF Adjacent
<1>5. l \in Nat /\ l <= edges[i].w
  <2>1. WeightsBetween(edges, a, b) \subseteq Nat /\ WeightsBetween(edges, a, b) # {}
    <3>1. \A j \in DOMAIN edges : edges[j] \in Edge
      OBVIOUS
    <3>. QED
      BY <1>3, <3>1 DEF WeightsBetween, Edge
  <2>. QED
    BY <1>3, <2>1, MinIsLeast DEF Length
<1>6. PICK more : /\ IsTour(edges, U, more) /\ TourCost(edges, U, more) \in Nat
                  /\ TourCost(edges, U, more) <= old + 2 * l
  <2>1. a \in V
    BY <1>2
  <2>. QED
    BY <1>1, <1>2, <1>4, <2>1, TourGrows
<1>7. Ends(edges, i) \subseteq U /\ i \notin D
  BY <1>1, <1>2 DEF Ends, IsBetween
<1>8. Price(edges, n, E) = Price(edges, n, D) + edges[i].w /\ Price(edges, n, D) \in Nat
  <2>1. Numbered(edges, n)
    BY CostIsPrice
  <2>2. D \in SUBSET DOMAIN edges /\ i \in DOMAIN edges \ D
    BY <1>1, <1>7
  <2>. HIDE DEF n
  <2>. QED
    BY <2>1, <2>2, PriceType
<1>9. edges[i].w \in Nat
  <2>1. edges[i] \in Edge
    OBVIOUS
  <2>. QED
    BY <2>1 DEF Edge
<1>. HIDE DEF n, l, old
<1>10. TourCost(edges, U, more) <= 2 * Price(edges, n, E)
  <2>. DEFINE p == Price(edges, n, D)
              q == Price(edges, n, E)
              c == TourCost(edges, U, more)
              x == edges[i].w
  <2>1. q = p + x /\ p \in Nat /\ x \in Nat /\ l \in Nat /\ l <= x
        /\ c \in Nat /\ c <= old + 2 * l /\ old \in Nat /\ old <= 2 * p
    BY <1>1, <1>5, <1>6, <1>8, <1>9
  <2>. HIDE DEF p, q, c, x
  <2>2. c <= 2 * q
    BY <2>1
  <2>. QED
    BY <2>2 DEF c, q
<1>11. TourAlong(edges, other, s, U, more, E)
  BY <1>1, <1>6, <1>7, <1>10 DEF TourAlong, n
<1>. QED
  BY <1>2, <1>11

(* Going along every edge that can be reached from s twice is a tour. *)
LEMMA TourOfEdges ==
    ASSUME GraphAssumption, NEW edges \in Seq(Edge), NEW other \in SUBSET DOMAIN edges,
           NEW s \in Nodes
    PROVE  \E V : \E next : /\ s \in V /\ IsTour(edges, V, next)
                            /\ \A i \in other : ~Crosses(edges, i, V)
                            /\ TourCost(edges, V, next) \in Nat
                            /\ TourCost(edges, V, next) <= 2 * Cost(edges, other)
<1>. DEFINE n == Len(edges)
            left(V) == NodeCount - Cardinality(V)
            M == {m \in Nat : \E V : \E next : \E D : m = left(V) /\ TourAlong(edges, other, s, V, next, D)}
<1>1. Numbered(edges, n) /\ n \in Nat
  BY CostIsPrice
<1>2. \A V : V \subseteq Nodes => IsFiniteSet(V) /\ Cardinality(V) \in Nat /\ left(V) \in Nat
  <2>. SUFFICES ASSUME NEW V, V \subseteq Nodes
                PROVE  IsFiniteSet(V) /\ Cardinality(V) \in Nat /\ left(V) \in Nat
    OBVIOUS
  <2>1. IsFiniteSet(Nodes) /\ Cardinality(Nodes) = NodeCount /\ NodeCount \in Nat
    BY NodesFinite
  <2>2. IsFiniteSet(V) /\ Cardinality(V) <= Cardinality(Nodes)
    BY <2>1, FS_Subset
  <2>3. Cardinality(V) \in Nat
    BY <2>2, FS_CardinalityType
  <2>. QED
    BY <2>1, <2>2, <2>3
<1>3. M # {}
  <2>1. PICK next : IsTour(edges, {s}, next) /\ TourCost(edges, {s}, next) = 0
    BY TourStarts
  <2>2. Price(edges, n, {}) \in Nat
    <3>. DEFINE none == {}
    <3>1. none \in SUBSET DOMAIN edges
      OBVIOUS
    <3>. HIDE DEF none, n
    <3>2. Price(edges, n, none) \in Nat
      BY <1>1, <3>1, PriceType
    <3>. QED
      BY <3>2 DEF none
  <2>3. TourAlong(edges, other, s, {s}, next, {})
    <3>1. 0 <= 2 * Price(edges, n, {})
      <4>. DEFINE p == Price(edges, n, {})
      <4>. HIDE DEF p
      <4>1. p \in Nat => 0 <= 2 * p
        OBVIOUS
      <4>. QED
        BY <2>2, <4>1 DEF p
    <3>. QED
      BY <2>1, <3>1 DEF TourAlong
  <2>4. left({s}) \in Nat
    BY <1>2
  <2>. HIDE DEF left
  <2>. QED
    BY <2>3, <2>4
<1>4. M \subseteq Nat
  OBVIOUS
<1>5. PICK m \in M : \A x \in M : m <= x
  <2>. HIDE DEF M
  <2>. QED
    BY <1>3, <1>4, LeastOf
<1>6. PICK V, next, D : m = left(V) /\ TourAlong(edges, other, s, V, next, D)
  OBVIOUS
<1>7. ASSUME NEW i \in other, Crosses(edges, i, V) PROVE FALSE
  <2>1. PICK b \in Nodes \ V : \E more : TourAlong(edges, other, s, V \cup {b}, more, D \cup {i})
    BY <1>6, <1>7, TourAlongMore
  <2>2. PICK more : TourAlong(edges, other, s, V \cup {b}, more, D \cup {i})
    BY <2>1
  <2>3. V \cup {b} \subseteq Nodes /\ V \subseteq Nodes
    BY <1>6, <2>2 DEF TourAlong, IsTour
  <2>4. Cardinality(V \cup {b}) = Cardinality(V) + 1
    BY <1>2, <2>1, <2>3, FS_AddElement
  <2>5. left(V \cup {b}) \in Nat /\ left(V \cup {b}) < left(V)
    <3>1. NodeCount \in Nat /\ Cardinality(V) \in Nat
      BY <1>2, <2>3, NodesFinite
    <3>2. left(V \cup {b}) \in Nat
      BY <1>2, <2>3
    <3>3. left(V \cup {b}) < left(V)
      BY <2>4, <3>1
    <3>. QED
      BY <3>2, <3>3
  <2>6. left(V \cup {b}) \in M
    <3>. HIDE DEF left
    <3>. QED
      BY <2>2, <2>5
  <2>7. m \in Nat
    OBVIOUS
  <2>. HIDE DEF left, M
  <2>. QED
    BY <1>5, <1>6, <2>5, <2>6, <2>7
<1>8. s \in V /\ IsTour(edges, V, next) /\ D \in SUBSET other
      /\ TourCost(edges, V, next) \in Nat /\ TourCost(edges, V, next) <= 2 * Price(edges, n, D)
  BY <1>6 DEF TourAlong
<1>9. Price(edges, n, D) <= Price(edges, n, other) /\ Price(edges, n, D) \in Nat
      /\ Price(edges, n, other) \in Nat /\ Price(edges, n, other) = Cost(edges, other)
  <2>1. Cost(edges, other) = Price(edges, n, other)
    BY CostIsPrice
  <2>2. D \in SUBSET DOMAIN edges /\ D \subseteq other
    BY <1>8
  <2>. HIDE DEF n
  <2>3. Weights(EdgeWeights(edges), other) /\ Price(edges, n, other) \in Nat
    BY <1>1, PriceType
  <2>4. Price(edges, n, D) \in Nat
    BY <1>1, <2>2, PriceType
  <2>5. Price(edges, n, D) <= Price(edges, n, other)
    BY <1>1, <2>2, <2>3, TotalOfFewer DEF Price
  <2>. QED
    BY <2>1, <2>3, <2>4, <2>5
<1>10. TourCost(edges, V, next) <= 2 * Cost(edges, other)
  <2>. DEFINE p == Price(edges, n, D)
              q == Price(edges, n, other)
              c == TourCost(edges, V, next)
  <2>1. p \in Nat /\ q \in Nat /\ p <= q /\ c \in Nat /\ c <= 2 * p
    BY <1>8, <1>9
  <2>. HIDE DEF p, q, c
  <2>2. c <= 2 * q
    BY <2>1
  <2>. QED
    BY <1>9, <2>2 DEF c, q
<1>. QED
  BY <1>7, <1>8, <1>10

(* A tour can leave out all but some of its nodes, at no more cost. *)
LEMMA TourOfSome ==
    ASSUME GraphAssumption, NEW edges \in Seq(Edge), NEW V, NEW next, IsTour(edges, V, next),
           TourCost(edges, V, next) \in Nat, NEW T \in SUBSET V, T # {}
    PROVE  \E less : /\ IsTour(edges, T, less) /\ TourCost(edges, T, less) \in Nat
                     /\ TourCost(edges, T, less) <= TourCost(edges, V, next)
<1>. DEFINE c == TourCost(edges, V, next)
            Short(U, other) == /\ IsTour(edges, U, other) /\ TourCost(edges, U, other) \in Nat
                               /\ TourCost(edges, U, other) <= c
            M == {m \in Nat : \E U \in SUBSET V : T \subseteq U /\ m = Cardinality(U) /\ \E other : Short(U, other)}
<1>1. IsFiniteSet(V)
  <2>1. V \subseteq Nodes
    BY DEF IsTour
  <2>. QED
    BY <2>1, NodesFinite, FS_Subset
<1>2. \A U \in SUBSET V : IsFiniteSet(U) /\ Cardinality(U) \in Nat
  BY <1>1, FS_Subset, FS_CardinalityType
<1>3. M # {}
  <2>1. Short(V, next)
    OBVIOUS
  <2>2. Cardinality(V) \in Nat /\ V \in SUBSET V
    BY <1>2
  <2>. HIDE DEF Short
  <2>. QED
    BY <2>1, <2>2
<1>4. PICK m \in M : \A x \in M : m <= x
  <2>1. M \subseteq Nat
    OBVIOUS
  <2>. HIDE DEF M
  <2>. QED
    BY <1>3, <2>1, LeastOf
<1>. HIDE DEF Short
<1>5. PICK U \in SUBSET V : T \subseteq U /\ m = Cardinality(U) /\ \E other : Short(U, other)
  OBVIOUS
<1>6. PICK other : Short(U, other)
  BY <1>5
<1>7. ASSUME NEW v \in U, v \notin T PROVE FALSE
  <2>. DEFINE R == U \ {v}
  <2>1. IsTour(edges, U, other) /\ TourCost(edges, U, other) \in Nat /\ TourCost(edges, U, other) <= c
    BY <1>6 DEF Short
  <2>2. U # {v}
    BY <1>5, <1>7
  <2>3. PICK less : /\ IsTour(edges, R, less) /\ TourCost(edges, R, less) \in Nat
                    /\ TourCost(edges, R, less) <= TourCost(edges, U, other)
    BY <2>1, <2>2, TourShrinks
  <2>4. Short(R, less)
    <3>. HIDE DEF R, c
    <3>1. c \in Nat
      BY DEF c
    <3>2. TourCost(edges, R, less) <= c
      BY <2>1, <2>3, <3>1
    <3>. QED
      BY <2>3, <3>2 DEF Short
  <2>5. Cardinality(R) = Cardinality(U) - 1 /\ Cardinality(R) \in Nat /\ Cardinality(U) \in Nat
    BY <1>2, <1>5, <1>7, FS_RemoveElement
  <2>6. R \in SUBSET V /\ T \subseteq R
    BY <1>5, <1>7
  <2>7. Cardinality(R) \in M
    <3>. HIDE DEF R
    <3>. QED
      BY <2>4, <2>5, <2>6
  <2>. HIDE DEF M, R
  <2>. QED
    BY <1>4, <1>5, <2>5, <2>7
<1>8. U = T
  BY <1>5, <1>7
<1>. QED
  BY <1>6, <1>8 DEF Short

-----------------------------------------------------------------------------
(* The tour in the closure *)

(* An edge of the closure for every node of the tour and the next one. *)
IsHop(terms, closure, m, a, b, cost) ==
    /\ m \in DOMAIN closure /\ closure[m].w <= cost
    /\ \/ terms[closure[m].u] = a /\ terms[closure[m].v] = b
       \/ terms[closure[m].u] = b /\ terms[closure[m].v] = a

(* A way between two terminals is an edge of the closure. *)
LEMMA ClosureHasHops ==
    ASSUME GraphAssumption, NEW edges \in Seq(Edge), NEW terms \in Seq(Nodes), Len(terms) > 1,
           IsInjective(terms), NEW closure, IsClosure(edges, terms, closure),
           NEW next, IsTour(edges, Range(terms), next), NEW v \in Range(terms)
    PROVE  \E m : IsHop(terms, closure, m, v, next[v], Dist(edges, v, next[v]))
<1>. DEFINE k == Len(terms)
            T == Range(terms)
<1>1. k \in Nat /\ k > 1 /\ DOMAIN terms = 1..k /\ \A i \in 1..k : terms[i] \in Nodes
  OBVIOUS
<1>2. T = {terms[i] : i \in 1..k}
  BY <1>1 DEF Range
<1>3. /\ next[v] \in T
      /\ \A a, b \in T : Dist(edges, a, b) # Infinity
      /\ {v} # T => next[v] # v
  <2>1. /\ next \in [T -> T]
        /\ \A a, b \in T : Dist(edges, a, b) # Infinity
        /\ \A side \in SUBSET T : side # {} /\ side # T => \E a \in side : next[a] \notin side
    BY DEF IsTour
  <2>. HIDE DEF T
  <2>2. v \in T
    BY DEF T
  <2>3. {v} # T => next[v] # v
    <3>. SUFFICES ASSUME {v} # T PROVE next[v] # v
      OBVIOUS
    <3>1. {v} \in SUBSET T /\ {v} # {}
      BY <2>2
    <3>2. PICK a \in {v} : next[a] \notin {v}
      BY <2>1, <3>1
    <3>. QED
      BY <3>2
  <2>. QED
    BY <2>1, <2>2, <2>3
<1>4. {v} # T
  <2>1. terms[1] # terms[2] /\ terms[1] \in T /\ terms[2] \in T
    <3>1. 1 \in 1..k /\ 2 \in 1..k
      BY <1>1
    <3>2. terms[1] # terms[2]
      BY <1>1, <3>1 DEF IsInjective
    <3>. QED
      BY <1>2, <3>1, <3>2
  <2>. QED
    BY <2>1
<1>5. /\ \A m \in DOMAIN closure :
            closure[m].w = Searches(edges, terms)[closure[m].u].dist[terms[closure[m].v]]
      /\ \A a, b \in 1..k : a < b => \E m \in DOMAIN closure : closure[m].u = a /\ closure[m].v = b
  BY DEF IsClosure
<1>6. \A x \in 1..k : \A b : Searches(edges, terms)[x].dist[b] = Dist(edges, terms[x], b)
  BY <1>1 DEF Searches, Dist
<1>7. PICK x \in 1..k : terms[x] = v
  BY <1>2
<1>8. PICK y \in 1..k : terms[y] = next[v]
  BY <1>2, <1>3
<1>9. x # y /\ v \in Nodes /\ next[v] \in Nodes
  BY <1>1, <1>3, <1>4, <1>7, <1>8
<1>. DEFINE z == next[v]
            d == Dist(edges, v, z)
<1>10. d \in Nat /\ Dist(edges, z, v) <= d
  <2>1. z \in Nodes /\ z \in T
    BY <1>3, <1>9
  <2>. HIDE DEF z
  <2>2. Dist(edges, v, z) # Infinity
    BY <1>3, <2>1
  <2>3. Dist(edges, z, v) <= Dist(edges, v, z)
    BY <1>9, <2>1, <2>2, DistIsNoLongerBack
  <2>4. Dist(edges, v, z) \in Nat
    BY <1>9, <2>1, <2>2, DistIsShort
  <2>. QED
    BY <2>3, <2>4
<1>11. CASE x < y
  <2>1. PICK m \in DOMAIN closure : closure[m].u = x /\ closure[m].v = y
    BY <1>5, <1>11
  <2>2. closure[m].w = d
    BY <1>5, <1>6, <1>7, <1>8, <2>1, SMTT(60)
  <2>. HIDE DEF d
  <2>3. closure[m].w <= d
    BY <1>10, <2>2
  <2>4. IsHop(terms, closure, m, v, next[v], d)
    BY <1>7, <1>8, <2>1, <2>3 DEF IsHop
  <2>. QED
    BY <2>4 DEF d
<1>12. CASE y < x
  <2>1. PICK m \in DOMAIN closure : closure[m].u = y /\ closure[m].v = x
    BY <1>5, <1>12
  <2>2. closure[m].w = Dist(edges, z, v)
    BY <1>5, <1>6, <1>7, <1>8, <2>1
  <2>. HIDE DEF d
  <2>3. closure[m].w <= d
    BY <1>10, <2>2
  <2>4. IsHop(terms, closure, m, v, next[v], d)
    BY <1>7, <1>8, <2>1, <2>3 DEF IsHop
  <2>. QED
    BY <2>4 DEF d
<1>. QED
  BY <1>9, <1>11, <1>12

(* They join the terminals, at no more than the cost of the tour. *)
LEMMA ClosureOfTour ==
    ASSUME GraphAssumption, NEW edges \in Seq(Edge), NEW terms \in Seq(Nodes), Len(terms) > 1,
           IsInjective(terms), NEW closure, IsClosure(edges, terms, closure),
           NEW n, Numbered(closure, n), NEW next, IsTour(edges, Range(terms), next)
    PROVE  \E D \in SUBSET DOMAIN closure :
              /\ Joined(1..Len(terms), closure, D)
              /\ Price(closure, n, D) <= TourCost(edges, Range(terms), next)
<1>. DEFINE k == Len(terms)
            T == Range(terms)
            w == Hops(edges, T, next)
            S == Slots(T)
            c == EdgeWeights(closure)
            Chosen(v, m) == IsHop(terms, closure, m, v, next[v], Dist(edges, v, next[v]))
            hop == [v \in T |-> CHOOSE m : Chosen(v, m)]
            h == [s \in S |-> {hop[s - 1]}]
            D == Together(h, S)
<1>1. k \in Nat /\ DOMAIN terms = 1..k /\ T = {terms[i] : i \in 1..k}
      /\ \A i, j \in 1..k : terms[i] = terms[j] => i = j
  BY DEF Range, IsInjective
<1>2. \A v \in T : Chosen(v, hop[v])
  <2>. SUFFICES ASSUME NEW v \in T PROVE Chosen(v, hop[v])
    OBVIOUS
  <2>1. \E m : Chosen(v, m)
    BY ClosureHasHops
  <2>. HIDE DEF Chosen
  <2>2. hop[v] = CHOOSE m : Chosen(v, m)
    OBVIOUS
  <2>. QED
    BY <2>1, <2>2
<1>3. \A v \in T : hop[v] \in DOMAIN closure /\ closure[hop[v]].w <= Dist(edges, v, next[v])
  BY <1>2, Zenon DEF IsHop
<1>4. /\ T \subseteq Nodes /\ T # {} /\ next \in [T -> T]
      /\ \A side \in SUBSET T : side # {} /\ side # T => \E a \in side : next[a] \notin side
  BY DEF IsTour
<1>5. /\ Weights(w, S)
      /\ \A v \in Nodes : v + 1 \in 1..NodeCount /\ Addend(w, S, v + 1) = Hop(edges, T, next, v)
  <2>. HIDE DEF T
  <2>0. IsTour(edges, T, next)
    BY DEF T
  <2>1. Weights(w, S)
    BY <2>0, HopsCost, Zenon
  <2>2. \A v \in Nodes : v + 1 \in 1..NodeCount /\ Addend(w, S, v + 1) = Hop(edges, T, next, v)
    BY <2>0, HopsCost, Zenon
  <2>. QED
    BY <2>1, <2>2
<1>6. TourCost(edges, T, next) = Total(w, S, NodeCount)
  BY DEF TourCost
<1>7. \A s \in S : s - 1 \in T /\ (s - 1) + 1 = s
  <2>1. \A v \in Nodes : v \in Int /\ (v + 1) - 1 = v
    BY NodesFinite DEF Nodes
  <2>. HIDE DEF T
  <2>. QED
    BY <1>4, <2>1 DEF Slots
<1>8. \A v \in T : v + 1 \in S /\ (v + 1) - 1 = v
  <2>1. \A v \in Nodes : v \in Int /\ (v + 1) - 1 = v
    BY NodesFinite DEF Nodes
  <2>. HIDE DEF T
  <2>. QED
    BY <1>4, <2>1 DEF Slots
<1>9. /\ n \in Nat /\ DOMAIN closure \subseteq 1..n
      /\ \A m \in DOMAIN closure : c[m] = closure[m].w /\ c[m] \in Nat
  BY DEF Numbered, EdgeWeights
<1>10. NodeCount \in Nat
  BY NodesFinite
<1>11. \A m \in DOMAIN closure : closure[m].u \in 1..k /\ closure[m].v \in 1..k
  BY DEF IsClosure, Weighted
<1>. HIDE DEF hop, w, S, c, k, T, Chosen
<1>12. \A v \in T : w[v + 1] = Dist(edges, v, next[v])
  BY <1>4, <1>5, <1>8 DEF Addend, Hop
<1>13. \A s \in S : Weights(c, h[s]) /\ Total(c, h[s], n) <= w[s]
  <2>. SUFFICES ASSUME NEW s \in S PROVE Weights(c, h[s]) /\ Total(c, h[s], n) <= w[s]
    OBVIOUS
  <2>. DEFINE v == s - 1
              m == hop[v]
  <2>1. v \in T /\ v + 1 = s /\ h[s] = {m}
    BY <1>7
  <2>. HIDE DEF v, h
  <2>2. m \in 1..n /\ c[m] \in Nat /\ c[m] <= w[s]
    BY <1>3, <1>9, <1>12, <2>1
  <2>. HIDE DEF m
  <2>3. Weights(c, {m}) /\ Total(c, {m}, n) = c[m]
    BY <1>9, <2>2, TotalOfOne
  <2>. QED
    BY <2>1, <2>2, <2>3
<1>14. S \subseteq 1..NodeCount
  <2>1. \A s \in S : s - 1 \in Nodes
    BY <1>4, <1>7
  <2>. QED
    BY <1>5, <1>7, <2>1
<1>15. \A v \in T : hop[v] \in D
  <2>. SUFFICES ASSUME NEW v \in T PROVE hop[v] \in D
    OBVIOUS
  <2>1. v + 1 \in S /\ h[v + 1] = {hop[v]}
    BY <1>8
  <2>. QED
    BY <2>1 DEF Together
<1>16. D \in SUBSET DOMAIN closure
  <2>1. \A s \in S : h[s] \subseteq DOMAIN closure
    BY <1>3, <1>7
  <2>. HIDE DEF h
  <2>. QED
    BY <2>1 DEF Together
<1>. HIDE DEF h
<1>17. Total(c, D, n) <= Total(w, S, NodeCount)
  BY <1>5, <1>9, <1>10, <1>13, <1>14, TotalOfUnion
<1>. HIDE DEF D
<1>18. Price(closure, n, D) <= TourCost(edges, T, next)
  BY <1>6, <1>17 DEF Price, c
<1>19. ASSUME NEW side \in SUBSET (1..k), side # {}, side # 1..k
       PROVE  \E m \in D : Crosses(closure, m, side)
  <2>. DEFINE own == {terms[x] : x \in side}
  <2>1. \A x \in 1..k : terms[x] \in own <=> x \in side
    BY <1>1, <1>19
  <2>2. own \in SUBSET T /\ own # {} /\ own # T
    BY <1>1, <1>19, <2>1
  <2>. HIDE DEF own
  <2>3. PICK a \in own : next[a] \notin own
    BY <1>4, <2>2
  <2>. DEFINE m == hop[a]
  <2>4. a \in T /\ m \in D /\ m \in DOMAIN closure
    BY <1>3, <1>15, <2>2, <2>3
  <2>5. \/ terms[closure[m].u] = a /\ terms[closure[m].v] = next[a]
        \/ terms[closure[m].u] = next[a] /\ terms[closure[m].v] = a
    BY <1>2, <2>4 DEF Chosen, IsHop
  <2>. HIDE DEF m
  <2>6. closure[m].u \in 1..k /\ closure[m].v \in 1..k
    BY <1>11, <2>4
  <2>7. ~(closure[m].u \in side <=> closure[m].v \in side)
    BY <2>1, <2>3, <2>5, <2>6
  <2>8. Crosses(closure, m, side)
    BY <2>7 DEF Crosses
  <2>. QED
    BY <2>4, <2>8
<1>20. Joined(1..k, closure, D)
  BY <1>19 DEF Joined
<1>. QED
  BY <1>16, <1>18, <1>20 DEF k, T

-----------------------------------------------------------------------------
(* What the Steiner tree costs *)

(* The edges on a path cost no more than the path, if the first edge      *)
(* between two nodes is the lightest.                                      *)
LEMMA WayCost ==
    ASSUME GraphAssumption, NEW edges \in Seq(Edge), FirstIsLightest(edges),
           NEW a, NEW b, NEW p \in PathsBetween(edges, a, b)
    PROVE  /\ WayEdges(edges, p) \in SUBSET DOMAIN edges
           /\ Price(edges, Len(edges), WayEdges(edges, p)) <= PathCost(edges, p)
<1>. DEFINE n == Len(p) - 1
            w == Lengths(edges, p)
            S == 1..n
            c == EdgeWeights(edges)
            N == Len(edges)
            step(i) == FirstEdge(edges, p[i], p[i + 1])
            h == [i \in S |-> {step(i)}]
<1>1. PICK m \in 1..NodeCount : p \in [1..m -> Nodes]
  BY DEF PathsBetween, SimplePaths
<1>2. m \in Nat /\ Len(p) = m /\ m > 0
  <2>1. NodeCount \in Nat
    BY NodesFinite
  <2>. QED
    BY <1>1, <2>1
<1>3. n \in Nat /\ Len(p) \in Nat /\ Len(p) > 0
  BY <1>2
<1>4. \A i \in S : /\ p[i] \in Nodes /\ p[i + 1] \in Nodes
                   /\ Adjacent(edges, p[i], p[i + 1])
  <2>1. \A i \in S : i \in 1..m /\ i + 1 \in 1..m
    BY <1>2
  <2>2. \A i \in S : p[i] \in Nodes /\ p[i + 1] \in Nodes
    BY <1>1, <2>1
  <2>. QED
    BY <2>2 DEF PathsBetween, Adjacent
<1>5. /\ N \in Nat /\ DOMAIN edges = 1..N
      /\ \A i \in DOMAIN edges : c[i] = edges[i].w /\ c[i] \in Nat
  <2>1. \A i \in DOMAIN edges : edges[i] \in Edge
    OBVIOUS
  <2>. QED
    BY <2>1 DEF EdgeWeights, Edge
<1>6. \A i \in S : /\ step(i) \in DOMAIN edges /\ c[step(i)] = w[i] /\ w[i] \in Nat
                   /\ w[i] = Length(edges, p[i], p[i + 1])
  <2>. SUFFICES ASSUME NEW i \in S
                PROVE  /\ step(i) \in DOMAIN edges /\ c[step(i)] = w[i] /\ w[i] \in Nat
                       /\ w[i] = Length(edges, p[i], p[i + 1])
    OBVIOUS
  <2>. DEFINE x == p[i]
              y == p[i + 1]
  <2>1. x \in Nodes /\ y \in Nodes /\ Adjacent(edges, x, y)
    BY <1>4
  <2>2. w[i] = Length(edges, x, y)
    BY DEF Lengths
  <2>3. step(i) = FirstEdge(edges, x, y)
    OBVIOUS
  <2>. HIDE DEF x, y, step, w
  <2>4. FirstEdge(edges, x, y) \in DOMAIN edges
    BY <2>1, FirstEdgeIsBetween DEF Adjacent
  <2>5. edges[FirstEdge(edges, x, y)].w = Length(edges, x, y)
    BY <2>1 DEF FirstIsLightest, Adjacent, Length
  <2>6. Length(edges, x, y) \in Nat
    BY <2>1, EdgesLeadBack
  <2>. QED
    BY <1>5, <2>2, <2>3, <2>4, <2>5, <2>6 DEF x, y
<1>7. WayEdges(edges, p) = Together(h, S)
  <2>1. WayEdges(edges, p) = {step(i) : i \in S}
    BY DEF WayEdges
  <2>. HIDE DEF step, S
  <2>2. \A i \in S : h[i] = {step(i)}
    OBVIOUS
  <2>3. Together(h, S) = {step(i) : i \in S}
    BY <2>2 DEF Together
  <2>. QED
    BY <2>1, <2>3
<1>. HIDE DEF n, w, S, c, N, step
<1>8. \A i \in S : h[i] = {step(i)}
  OBVIOUS
<1>9. Together(h, S) \in SUBSET DOMAIN edges
  <2>1. \A i \in S : h[i] \subseteq DOMAIN edges
    BY <1>6, <1>8
  <2>. HIDE DEF h
  <2>. QED
    BY <2>1 DEF Together
<1>. HIDE DEF h
<1>10. \A i \in S : Weights(c, h[i]) /\ Total(c, h[i], N) <= w[i]
  <2>. SUFFICES ASSUME NEW i \in S PROVE Weights(c, h[i]) /\ Total(c, h[i], N) <= w[i]
    OBVIOUS
  <2>. DEFINE f == step(i)
  <2>1. f \in 1..N /\ c[f] \in Nat /\ c[f] = w[i] /\ h[i] = {f} /\ w[i] \in Nat
    BY <1>5, <1>6, <1>8
  <2>. HIDE DEF f
  <2>2. Weights(c, {f}) /\ Total(c, {f}, N) = c[f]
    BY <1>5, <2>1, TotalOfOne
  <2>3. Total(c, {f}, N) <= w[i]
    BY <2>1, <2>2
  <2>. QED
    BY <2>1, <2>2, <2>3
<1>11. Weights(w, S)
  BY <1>6 DEF Weights
<1>12. S \subseteq 1..n
  BY DEF S
<1>13. Total(c, Together(h, S), N) <= Total(w, S, n)
  BY <1>3, <1>5, <1>10, <1>11, <1>12, TotalOfUnion
<1>14. PICK f : SumTo(f, n, w) /\ PathCost(edges, p) = f[n]
  <2>1. \A i \in 1..Len(p) - 1 : Length(edges, p[i], p[i + 1]) \in Int
    BY <1>6 DEF S, n
  <2>2. \E f : /\ SumTo(f, Len(p) - 1, Lengths(edges, p))
               /\ PathCost(edges, p) = f[Len(p) - 1]
    BY <1>3, <2>1, CostOfPath
  <2>. QED
    BY <2>2 DEF n, w
<1>15. Total(w, S, n) = f[n]
  <2>1. \A i \in 1..n : w[i] \in Nat
    BY <1>6 DEF S
  <2>2. Total(w, 1..n, n) = f[n]
    BY <1>3, <1>14, <2>1, TotalOfAll
  <2>. QED
    BY <2>2 DEF S
<1>. QED
  BY <1>7, <1>9, <1>13, <1>14, <1>15 DEF Price, c, N

(* The closure's edges have numbers up to k times k. *)
LEMMA ClosureIsNumbered ==
    ASSUME NEW edges, NEW terms, Len(terms) \in Nat,
           IsClosure(edges, terms, ClosureEdges(terms, Searches(edges, terms)))
    PROVE  Numbered(ClosureEdges(terms, Searches(edges, terms)), Len(terms) * Len(terms))
<1>. DEFINE run == Searches(edges, terms)
            closure == ClosureEdges(terms, run)
            n == Len(terms) * Len(terms)
<1>1. n \in Nat
  OBVIOUS
<1>2. DOMAIN closure \subseteq 1..n
  <2>. HIDE DEF run
  <2>. QED
    BY DEF ClosureEdges
<1>3. \A m \in DOMAIN closure : closure[m].w \in Nat
  <2>. HIDE DEF closure
  <2>1. IsClosure(edges, terms, closure)
    BY DEF closure
  <2>. QED
    BY <2>1 DEF IsClosure, Weighted
<1>. HIDE DEF closure, n
<1>4. Numbered(closure, n)
  BY <1>1, <1>2, <1>3 DEF Numbered
<1>. QED
  BY <1>4 DEF closure, n, run

(* The edges on the ways of the closure's tree cost no more than the tree. *)
LEMMA PathEdgesCost ==
    ASSUME GraphAssumption, NEW edges \in Seq(Edge), FirstIsLightest(edges),
           NEW terms \in Seq(Nodes), Len(terms) > 1, Reachable(edges, terms)
    PROVE  Price(edges, Len(edges), PathEdges(edges, terms, Searches(edges, terms)))
             <= Price(ClosureEdges(terms, Searches(edges, terms)), Len(terms) * Len(terms),
                      ClosureTree(terms, Searches(edges, terms)))
<1>. DEFINE k == Len(terms)
            n == k * k
            run == Searches(edges, terms)
            closure == ClosureEdges(terms, run)
            tree == ClosureTree(terms, run)
            way(m) == ClosurePath(terms, run, m)
            all == PathEdges(edges, terms, run)
            w == EdgeWeights(closure)
            c == EdgeWeights(edges)
            N == Len(edges)
            h == [m \in tree |-> WayEdges(edges, way(m))]
<1>1. k \in Nat
  OBVIOUS
<1>2. IsClosure(edges, terms, closure)
  BY ClosureIsClosure
<1>3. Numbered(closure, n)
  BY <1>1, <1>2, ClosureIsNumbered
<1>4. tree \in SUBSET DOMAIN closure
  BY <1>1, <1>2, ClosureTreeJoins
<1>5. all = Together(h, tree)
  BY DEF PathEdges, WayEdges, Together
<1>6. \A m \in DOMAIN closure : closure[m].u \in 1..k /\ closure[m].v \in 1..k
                                /\ closure[m].w = run[closure[m].u].dist[terms[closure[m].v]]
  BY <1>2 DEF IsClosure, Weighted
<1>7. ASSUME NEW m \in tree
      PROVE  /\ WayEdges(edges, way(m)) \in SUBSET DOMAIN edges
             /\ Price(edges, N, WayEdges(edges, way(m))) <= closure[m].w
  <2>1. way(m) = ReconstructPath(terms[closure[m].u], terms[closure[m].v], run[closure[m].u].prev)
    BY DEF ClosurePath
  <2>. DEFINE a == closure[m].u
              b == closure[m].v
              s == terms[a]
              t == terms[b]
  <2>2. a \in 1..Len(terms) /\ b \in 1..Len(terms)
    BY <1>4, <1>6
  <2>. HIDE DEF a, b
  <2>3. LeadsTo(edges, terms[a], terms[b], ReconstructPath(terms[a], terms[b], run[a].prev),
                run[a].dist[terms[b]])
    BY <2>2, ClosurePathLeads
  <2>4. way(m) \in PathsBetween(edges, s, t) /\ PathCost(edges, way(m)) = closure[m].w
    BY <1>4, <1>6, <2>1, <2>3 DEF LeadsTo, a, b
  <2>. HIDE DEF way, s, t, closure
  <2>. QED
    BY <2>4, WayCost
<1>8. \A m \in tree : h[m] = WayEdges(edges, way(m))
  OBVIOUS
<1>9. /\ N \in Nat /\ n \in Nat /\ DOMAIN closure \subseteq 1..n
      /\ \A m \in DOMAIN closure : w[m] = closure[m].w /\ w[m] \in Nat
  BY <1>3 DEF Numbered, EdgeWeights
<1>10. Numbered(edges, N)
  BY CostIsPrice
<1>. HIDE DEF h, w, c, N, n, k, run, closure, tree, way, all
<1>11. \A m \in tree : Weights(c, h[m]) /\ Total(c, h[m], N) <= w[m]
  <2>. SUFFICES ASSUME NEW m \in tree PROVE Weights(c, h[m]) /\ Total(c, h[m], N) <= w[m]
    OBVIOUS
  <2>1. h[m] \in SUBSET DOMAIN edges /\ Price(edges, N, h[m]) <= w[m]
    BY <1>4, <1>7, <1>8, <1>9
  <2>2. Weights(EdgeWeights(edges), h[m])
    BY <1>10, <2>1, PriceType
  <2>. QED
    BY <2>1, <2>2 DEF Price, c
<1>12. Weights(w, tree) /\ tree \subseteq 1..n
  BY <1>4, <1>9 DEF Weights
<1>13. Total(c, Together(h, tree), N) <= Total(w, tree, n)
  BY <1>9, <1>11, <1>12, TotalOfUnion
<1>. QED
  BY <1>5, <1>13 DEF Price, c, w, N, n, k, all, tree, closure, run

(* A tour of what connects the terminals costs twice that at most, the     *)
(* closure's tree no more than the tour, and the Steiner edges no more     *)
(* than that.                                                              *)
LEMMA SteinerCost ==
    ASSUME GraphAssumption, NEW edges \in Seq(Edge), FirstIsLightest(edges),
           NEW terms \in Seq(Nodes), Len(terms) > 1, IsInjective(terms), Reachable(edges, terms),
           NEW other \in SUBSET DOMAIN edges, Connects(edges, other, Range(terms))
    PROVE  Cost(edges, PruneLeaves(edges, terms, PathEdges(edges, terms, Searches(edges, terms))))
             <= 2 * Cost(edges, other)
<1>. DEFINE k == Len(terms)
            n == k * k
            N == Len(edges)
            run == Searches(edges, terms)
            closure == ClosureEdges(terms, run)
            tree == ClosureTree(terms, run)
            all == PathEdges(edges, terms, run)
            kept == PruneLeaves(edges, terms, all)
            T == Range(terms)
            s == terms[1]
<1>1. k \in Nat /\ T \subseteq Nodes /\ T # {} /\ s \in T /\ s \in Nodes
  BY DEF Range
<1>2. IsClosure(edges, terms, closure)
  BY ClosureIsClosure
<1>3. Numbered(closure, n)
  BY <1>1, <1>2, ClosureIsNumbered
<1>4. Weighted(1..k, closure)
  BY <1>2 DEF IsClosure
<1>5. all \in SUBSET DOMAIN edges /\ Connects(edges, all, T)
  BY PathEdgesConnect
<1>6. kept \in SUBSET all
  <2>. HIDE DEF all
  <2>. QED
    BY <1>5, PruneLeavesConnects
<1>7. Price(edges, N, all) <= Price(closure, n, tree)
  BY PathEdgesCost
<1>8. tree = MinimumSpanningTree(1..k, closure).tree /\ tree \in SUBSET DOMAIN closure
  <2>1. tree \in SUBSET DOMAIN closure
    BY <1>1, <1>2, ClosureTreeJoins
  <2>. QED
    BY <2>1 DEF ClosureTree
<1>. HIDE DEF run, closure, tree, all, kept, s
<1>9. PICK V : \E next : /\ s \in V /\ IsTour(edges, V, next)
                         /\ \A i \in other : ~Crosses(edges, i, V)
                         /\ TourCost(edges, V, next) \in Nat
                         /\ TourCost(edges, V, next) <= 2 * Cost(edges, other)
  BY <1>1, TourOfEdges
<1>10. PICK next : /\ s \in V /\ IsTour(edges, V, next)
                   /\ \A i \in other : ~Crosses(edges, i, V)
                   /\ TourCost(edges, V, next) \in Nat
                   /\ TourCost(edges, V, next) <= 2 * Cost(edges, other)
  BY <1>9
<1>11. T \in SUBSET V
  <2>1. V \in SUBSET Nodes
    BY <1>10 DEF IsTour
  <2>2. V \cap T # {}
    BY <1>1, <1>10
  <2>. HIDE DEF T
  <2>3. ~(T \ V # {})
    BY <1>10, <2>1, <2>2 DEF Connects, T
  <2>. QED
    BY <2>3
<1>12. PICK less : /\ IsTour(edges, T, less) /\ TourCost(edges, T, less) \in Nat
                   /\ TourCost(edges, T, less) <= TourCost(edges, V, next)
  <2>. HIDE DEF T
  <2>. QED
    BY <1>1, <1>10, <1>11, TourOfSome
<1>13. PICK D \in SUBSET DOMAIN closure :
          Joined(1..k, closure, D) /\ Price(closure, n, D) <= TourCost(edges, T, less)
  <2>. HIDE DEF n
  <2>. QED
    BY <1>2, <1>3, <1>12, ClosureOfTour
<1>. HIDE DEF T, n, N
<1>14. Price(closure, n, tree) <= Price(closure, n, D)
  <2>. DEFINE nodes == 1..k
  <2>1. /\ Weighted(nodes, closure) /\ Joined(nodes, closure, D)
        /\ tree = MinimumSpanningTree(nodes, closure).tree
    BY <1>4, <1>8, <1>13
  <2>. HIDE DEF nodes
  <2>2. Price(closure, n, MinimumSpanningTree(nodes, closure).tree) <= Price(closure, n, D)
    BY <1>3, <1>13, <2>1, SpanIsCheapest
  <2>. QED
    BY <2>1, <2>2
<1>15. /\ Price(closure, n, D) \in Nat /\ Price(closure, n, tree) \in Nat
  BY <1>3, <1>8, <1>13, PriceType
<1>16. Numbered(edges, N) /\ Cost(edges, kept) = Price(edges, N, kept) /\ Cost(edges, other) = Price(edges, N, other)
  <2>1. kept \in SUBSET DOMAIN edges
    BY <1>5, <1>6
  <2>. QED
    BY <2>1, CostIsPrice DEF N
<1>17. Price(edges, N, kept) <= Price(edges, N, all)
       /\ Price(edges, N, kept) \in Nat /\ Price(edges, N, all) \in Nat /\ Price(edges, N, other) \in Nat
  <2>1. kept \in SUBSET DOMAIN edges /\ kept \subseteq all
    BY <1>5, <1>6
  <2>2. Weights(EdgeWeights(edges), all) /\ Price(edges, N, all) \in Nat
    BY <1>5, <1>16, PriceType
  <2>3. Price(edges, N, kept) \in Nat /\ Price(edges, N, other) \in Nat
    BY <1>16, <2>1, PriceType
  <2>4. N \in Nat
    BY <1>16 DEF Numbered
  <2>5. Price(edges, N, kept) <= Price(edges, N, all)
    BY <2>1, <2>2, <2>4, TotalOfFewer DEF Price
  <2>. QED
    BY <2>2, <2>3, <2>5
<1>18. Cost(edges, kept) <= 2 * Cost(edges, other)
  <2>. DEFINE o == Price(edges, N, other)
              x == Price(edges, N, kept)
              y == Price(edges, N, all)
              z == Price(closure, n, tree)
              d == Price(closure, n, D)
              f == TourCost(edges, T, less)
              g == TourCost(edges, V, next)
  <2>1. /\ x \in Nat /\ y \in Nat /\ z \in Nat /\ d \in Nat /\ f \in Nat /\ g \in Nat /\ o \in Nat
        /\ x <= y /\ y <= z /\ z <= d /\ d <= f /\ f <= g
    BY <1>7, <1>10, <1>12, <1>13, <1>14, <1>15, <1>17
  <2>2. g <= 2 * o
    BY <1>10, <1>16
  <2>. HIDE DEF o, x, y, z, d, f, g
  <2>3. x <= 2 * o
    BY <2>1, <2>2
  <2>. QED
    BY <1>16, <2>3 DEF x, o
<1>. QED
  BY <1>18 DEF kept, all, run

(* SteinerIsWithinTwice for every graph and any terminals: when the first  *)
(* of parallel edges is the lightest, approximate_steiner_tree costs no    *)
(* more than twice what it costs to connect the terminals.                 *)
THEOREM SteinerWithinTwice == GraphSpec => []SteinerIsWithinTwice
<1>1. GraphInv => SteinerIsWithinTwice
  <2>. SUFFICES ASSUME GraphInv, asked = "answered", steiner.ok, FirstIsLightest(graph),
                       NEW other \in SUBSET DOMAIN graph, Connects(graph, other, Range(terminals))
                PROVE  ~(2 * Cost(graph, other) < Cost(graph, steiner.tree))
    BY DEF SteinerIsWithinTwice
  <2>1. GraphAssumption
    BY GraphAssumption
  <2>2. graph \in Seq(Edge) /\ terminals \in TerminalLists
    BY <2>1, GraphAsked
  <2>3. terminals \in Seq(Nodes) /\ Len(terminals) > 1 /\ IsInjective(terminals)
    BY <2>1, <2>2 DEF GraphAssumption
  <2>. DEFINE all == PathEdges(graph, terminals, Searches(graph, terminals))
              kept == PruneLeaves(graph, terminals, all)
  <2>4. steiner = ApproximateSteinerTree(graph, terminals)
    BY DEF GraphInv
  <2>5. ApproximateSteinerTree(graph, terminals)
          = IF Reachable(graph, terminals) THEN [ok |-> TRUE, tree |-> kept] ELSE NoTree
    BY DEF ApproximateSteinerTree, Reachable, Searches
  <2>6. Reachable(graph, terminals) /\ steiner.tree = kept
    BY <2>4, <2>5 DEF NoTree
  <2>7. Cost(graph, kept) <= 2 * Cost(graph, other)
    BY <2>1, <2>2, <2>3, <2>6, SteinerCost
  <2>8. kept \in SUBSET DOMAIN graph
    <3>1. all \in SUBSET DOMAIN graph /\ Connects(graph, all, Range(terminals))
      BY <2>1, <2>2, <2>3, <2>6, PathEdgesConnect
    <3>. HIDE DEF all
    <3>2. PruneLeaves(graph, terminals, all) \in SUBSET all
      BY <2>1, <2>2, <2>3, <3>1, PruneLeavesConnects
    <3>. QED
      BY <3>1, <3>2
  <2>9. Cost(graph, kept) \in Nat /\ Cost(graph, other) \in Nat
    <3>. HIDE DEF kept
    <3>. DEFINE n == Len(graph)
    <3>1. Numbered(graph, n) /\ Cost(graph, kept) = Price(graph, n, kept)
          /\ Cost(graph, other) = Price(graph, n, other)
      BY <2>2, <2>8, CostIsPrice
    <3>. HIDE DEF n
    <3>2. Price(graph, n, kept) \in Nat /\ Price(graph, n, other) \in Nat
      BY <2>8, <3>1, PriceType
    <3>. QED
      BY <3>1, <3>2
  <2>. HIDE DEF kept
  <2>. QED
    BY <2>6, <2>7, <2>9
<1>. QED
  BY <1>1, GraphInvariant, PTL

(* SteinerIsGood for every graph and any terminals: both of them. *)
THEOREM SteinerGood == GraphSpec => []SteinerIsGood
<1>1. SteinerConnects /\ SteinerIsWithinTwice => SteinerIsGood
  BY DEF SteinerIsGood
<1>. QED
  BY <1>1, SteinerTrees, SteinerWithinTwice, PTL
=============================================================================
