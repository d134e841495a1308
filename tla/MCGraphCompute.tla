--------------------------- MODULE MCGraphCompute ---------------------------
(* The graphs of the instances of GraphCompute. *)
EXTENDS GraphCompute

(* The edges between the pairs, in that order, of the given weights; a pair *)
(* of weight -1 is not joined.                                             *)
GraphsOver(pairs, weights) ==
    {SelectSeq([i \in DOMAIN pairs |-> [u |-> pairs[i][1], v |-> pairs[i][2], w |-> weight[i]]],
               LAMBDA e : e.w # -1) : weight \in [DOMAIN pairs -> weights]}

(* All pairs of four nodes. *)
PairsOfFour == <<<<0, 1>>, <<0, 2>>, <<0, 3>>, <<1, 2>>, <<1, 3>>, <<2, 3>>>>

(* Parallel edges of one weight and of two, in any order, and a loop. *)
Multigraphs ==
    {<<[u |-> 0, v |-> 1, w |-> a], [u |-> 1, v |-> 0, w |-> b], [u |-> 1, v |-> 1, w |-> 1],
       [u |-> 1, v |-> 2, w |-> 2], [u |-> 3, v |-> 2, w |-> 1]>> : a \in 1..2, b \in 1..3}

GraphsOfFour ==
    GraphsOver(PairsOfFour, {-1, 1, 2}) \cup GraphsOver(PairsOfFour, {-1, 0, 1}) \cup Multigraphs

TerminalsOfFour == {<<0, 3>>, <<0, 1, 2>>, <<3, 1, 0>>, <<0, 1, 2, 3>>}

(* Node 1 is reached from 0 and 2 through 3, by way of 4 or of 5. *)
TwoWaysToOne ==
    GraphsOver(<<<<0, 3>>, <<2, 3>>, <<3, 4>>, <<1, 4>>, <<3, 5>>, <<1, 5>>>>, 1..4)

ThreeOfSix == {<<0, 1, 2>>}
=============================================================================
