----------------------------- MODULE RouteOrder -----------------------------
(***************************************************************************)
(* The order in which the routing service lists the routes of one type: a  *)
(* tour by nearest neighbours, improved by 2-opt exchanges.  The exchanges *)
(* shorten the closed tour, the way back to the first route included.      *)
(***************************************************************************)
EXTENDS Integers, Sequences

CONSTANT Layings   \* the sequences of centroids asked about, each a pair of integers

ASSUME OrderAssumption == Layings \subseteq Seq(Int \X Int) /\ << >> \notin Layings

VARIABLES
    centroids,  \* of the routes, in the order they were stored
    order,      \* the routes ordered so far
    pair,       \* the exchange looked at next
    improved,   \* whether this pass has made one
    ordering    \* "idle", "nearest", "twoOpt" or "done"

orderVars == <<centroids, order, pair, improved, ordering>>

Routes == 1..Len(centroids)

(* haversineApprox: in hundredths, rounded down. *)
Apart(r, s) ==
    LET p == centroids[r]
        q == centroids[s]
        square == (p[1] - q[1]) * (p[1] - q[1]) + (p[2] - q[2]) * (p[2] - q[2])
    IN CHOOSE n \in 0..100 * square :
          n * n <= 10000 * square /\ 10000 * square < (n + 1) * (n + 1)

(* The route after the one at place i of the tour t, which is closed. *)
After(t, i) == t[(i % Len(t)) + 1]

OrderInit ==
    /\ centroids = << >> /\ order = << >>
    /\ pair = <<1, 3>> /\ improved = FALSE
    /\ ordering = "idle"

OptimizeRoutes ==
    /\ ordering = "idle"
    /\ centroids' \in Layings
    /\ order' = <<1>>
    /\ ordering' = "nearest"
    /\ UNCHANGED <<pair, improved>>

(* Of several routes equally near the first is taken. *)
NearestNeighbour ==
    /\ ordering = "nearest" /\ Len(order) < Len(centroids)
    /\ \E r \in Routes :
          LET left == {s \in Routes : \A i \in 1..Len(order) : order[i] # s}
              here == order[Len(order)]
          IN  /\ r \in left
              /\ \A s \in left : \/ Apart(here, r) < Apart(here, s)
                                 \/ Apart(here, r) = Apart(here, s) /\ r <= s
              /\ order' = Append(order, r)
    /\ UNCHANGED <<centroids, pair, improved, ordering>>

StartTwoOpt ==
    /\ ordering = "nearest" /\ Len(order) = Len(centroids)
    /\ ordering' = IF Len(centroids) < 3 THEN "done" ELSE "twoOpt"
    /\ pair' = <<1, 3>> /\ improved' = FALSE
    /\ UNCHANGED <<centroids, order>>

(* Mutant: the way back from the last route is not counted. *)
ShorterOneWay(i, j) ==
    Apart(order[i], order[j])
        + (IF j = Len(order) THEN 0 ELSE Apart(order[i + 1], After(order, j)))
      < Apart(order[i], order[i + 1])
        + (IF j = Len(order) THEN 0 ELSE Apart(order[j], After(order, j)))

(* Whether the tour is shorter with the routes from i + 1 to j reversed. *)
Shorter(i, j) ==
    Apart(order[i], order[j]) + Apart(order[i + 1], After(order, j))
      < Apart(order[i], order[i + 1]) + Apart(order[j], After(order, j))

(* The order with the part from i to j reversed. *)
Reversed(i, j) == [k \in Routes |-> IF k \in i..j THEN order[i + j - k] ELSE order[k]]

(* One comparison of twoOpt; a pass that has improved the order is followed *)
(* by another.                                                              *)
Exchange ==
    /\ ordering = "twoOpt"
    /\ LET i == pair[1]
           j == pair[2]
           n == Len(order)
           lastOne == i + 2 = n
       IN  /\ order' = IF Shorter(i, j) THEN Reversed(i + 1, j) ELSE order
           /\ pair' = IF j < n THEN <<i, j + 1>> ELSE IF lastOne THEN <<1, 3>> ELSE <<i + 1, i + 3>>
           /\ improved' = ((improved \/ Shorter(i, j)) /\ ~(j = n /\ lastOne))
           /\ ordering' = IF j = n /\ lastOne /\ ~improved /\ ~Shorter(i, j) THEN "done" ELSE "twoOpt"
    /\ UNCHANGED centroids

OrderNext == OptimizeRoutes \/ NearestNeighbour \/ StartTwoOpt \/ Exchange

OrderSpec == OrderInit /\ [][OrderNext]_orderVars

-----------------------------------------------------------------------------
(* Properties *)

(* The length of the closed tour. *)
TourLength(t) ==
    LET upTo[i \in 0..Len(t)] == IF i = 0 THEN 0 ELSE upTo[i - 1] + Apart(t[i], After(t, i))
    IN upTo[Len(t)]

(* No route is lost or listed twice, the first stays first, and in the end *)
(* no reversal of a part makes the closed tour shorter, whatever exchanges *)
(* were made in the middle of a pass.  Each exchange shortens the tour as  *)
(* a whole, so that the passes come to an end.                             *)
RoutesAreOrdered ==
    /\ ordering \in {"twoOpt", "done"} =>
          /\ Len(order) = Len(centroids) /\ order[1] = 1
          /\ \A r \in Routes : \E i \in Routes : order[i] = r
    /\ ordering = "twoOpt" /\ Shorter(pair[1], pair[2]) =>
          TourLength(Reversed(pair[1] + 1, pair[2])) < TourLength(order)
    /\ ordering = "done" =>
          \A i, j \in Routes : i < j => TourLength(order) <= TourLength(Reversed(i, j))
=============================================================================
