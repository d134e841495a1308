--------------------------- MODULE CorridorRouter ---------------------------
(***************************************************************************)
(* The search for the corridor of a transmission line on a raster: A* over *)
(* eight directions with limits on slope and on bends, tried again with    *)
(* underground cable, and again with the limits given up.                  *)
(*                                                                         *)
(* Lengths are in hundredths of a cell.  A raised cell is one cell higher  *)
(* than the others: a step up or down is steeper (45 degrees, or 35 on a   *)
(* diagonal) than any limit but the last.  A bend is a number of eighths   *)
(* of a turn.                                                              *)
(***************************************************************************)
EXTENDS Integers, FiniteSets, Sequences

CONSTANTS Height, Width,  \* of the raster
          Corridors       \* the searches: start, goal, blocked, road, raised, maxDeflection

Cells == (0..Height - 1) \X (0..Width - 1)

ASSUME CorridorAssumption ==
    /\ Height \in Nat /\ Width \in Nat
    /\ \A c \in Corridors : c.start \in Cells /\ c.goal \in Cells /\ c.maxDeflection \in Nat \ {0}

(* buildFallbackRoute: overhead only, with cables, with cables everywhere. *)
Attempts == 1..3

VARIABLES
    corridor,  \* the search asked for
    attempt,
    open,      \* the entries of the heap: [pos, f]
    gScore,
    cameFrom,
    closed,
    searched   \* "idle", "searching", "found" or "failed"

corridorVars == <<corridor, attempt, open, gScore, cameFrom, closed, searched>>

Distance(a, b) == IF a >= b THEN a - b ELSE b - a

(* fallbackHeuristic: the root of dr^2 + dc^2, in hundredths. *)
Heuristic(a) ==
    LET dr == Distance(a[1], corridor.goal[1])
        dc == Distance(a[2], corridor.goal[2])
        square == 10000 * (dr * dr + dc * dc)
    IN CHOOSE n \in 0..100 * (dr + dc) : n * n <= square /\ (n + 1) * (n + 1) > square

Neighbours(a) == {b \in Cells \ {a} : Distance(a[1], b[1]) <= 1 /\ Distance(a[2], b[2]) <= 1}

IsDiagonal(a, b) == a[1] # b[1] /\ a[2] # b[2]

Climbs(a, b) == (a \in corridor.raised) # (b \in corridor.raised)

(* A step is refused onto a blocked cell, unless cables may be used, and   *)
(* up or down, unless the slope is unlimited.                              *)
Passable(n, a, b) ==
    /\ b \in corridor.blocked => n > 1
    /\ Climbs(a, b) => n = 3

(* fallbackMovementCost: length times multiplier and slope penalty.  Cells  *)
(* off the road cost more only where there is one.                          *)
MoveCost(a, b) ==
    LET multiplier == IF b \in corridor.blocked THEN 350
                      ELSE IF b \in corridor.road THEN 3
                      ELSE IF corridor.road # {} THEN 50 ELSE 10
        length == IF Climbs(a, b) THEN IF IsDiagonal(a, b) THEN 309 ELSE 283
                  ELSE IF IsDiagonal(a, b) THEN 141 ELSE 100
    IN (length * multiplier) \div 10

(* deflectionAngleDeg, in eighths: how far the direction turns at b. *)
Bend(a, b, c) ==
    LET compass == <<<<-1, 0>>, <<-1, 1>>, <<0, 1>>, <<1, 1>>, <<1, 0>>, <<1, -1>>, <<0, -1>>, <<-1, -1>>>>
        course(x, y) == CHOOSE i \in 1..8 : compass[i] = <<y[1] - x[1], y[2] - x[2]>>
        turn == Distance(course(a, b), course(b, c))
    IN IF turn > 4 THEN 8 - turn ELSE turn

MaxDeflection(n) == IF n = 3 THEN 180 ELSE corridor.maxDeflection

(* A limit below 45 degrees counts as 45.  The arc cosine of an eighth is  *)
(* 45.00000000000001 degrees, more than a limit of 45; those of the other  *)
(* bends are exact.                                                        *)
Exceeds(n, bend) ==
    LET limit == IF MaxDeflection(n) < 45 THEN 45 ELSE MaxDeflection(n)
    IN IF bend = 1 THEN limit = 45 ELSE 45 * bend > limit

(* turnPenaltyCost: the square of the bend in right angles, times 1.5 or,  *)
(* in the last attempt, 0.25.                                              *)
TurnPenalty(cost, bend) == (cost * bend * bend * (IF attempt = 3 THEN 1 ELSE 6)) \div 16

(* The cost of going on from a to b, given how the search came to a.       *)
StepTo(a, b) ==
    MoveCost(a, b) + IF a \notin DOMAIN cameFrom THEN 0
                     ELSE TurnPenalty(MoveCost(a, b), Bend(cameFrom[a], a, b))

Allowed(a, b) ==
    /\ Passable(attempt, a, b)
    /\ a \in DOMAIN cameFrom => ~Exceeds(attempt, Bend(cameFrom[a], a, b))

(* The neighbours of a that are reached more cheaply through a. *)
Improved(a) ==
    {b \in Neighbours(a) \ (closed \cup {a}) :
        /\ Allowed(a, b)
        /\ b \in DOMAIN gScore => gScore[a] + StepTo(a, b) < gScore[b]}

-----------------------------------------------------------------------------

CorridorInit ==
    /\ corridor \in {CHOOSE c \in Corridors : TRUE}
    /\ attempt = 1
    /\ open = {} /\ closed = {}
    /\ gScore = << >> /\ cameFrom = << >>
    /\ searched = "idle"

(* A search starts with the farm's cell alone, so its f does not matter. *)
StartSearch(c, n) ==
    /\ attempt' = n
    /\ open' = {[pos |-> c.start, f |-> 0]}
    /\ gScore' = [a \in {c.start} |-> 0]
    /\ cameFrom' = << >>
    /\ closed' = {}
    /\ searched' = "searching"

CalculateFallback ==
    /\ searched = "idle"
    /\ \E c \in Corridors : corridor' = c /\ StartSearch(c, 1)

(* The entry with the least cost; any one of those with the same.  *)
Cheapest == {e \in open : \A other \in open : e.f <= other.f}

ReachGoal ==
    /\ searched = "searching"
    /\ \E e \in Cheapest : e.pos = corridor.goal
    /\ searched' = "found"
    /\ UNCHANGED <<corridor, attempt, open, gScore, cameFrom, closed>>

(* A cell that was closed by an earlier entry is passed over. *)
PassOver(e) ==
    /\ searched = "searching"
    /\ e \in Cheapest /\ e.pos # corridor.goal /\ e.pos \in closed
    /\ open' = open \ {e}
    /\ UNCHANGED <<corridor, attempt, gScore, cameFrom, closed, searched>>

Expand(e) ==
    /\ searched = "searching"
    /\ e \in Cheapest /\ e.pos # corridor.goal /\ e.pos \notin closed
    /\ closed' = closed \cup {e.pos}
    /\ LET a == e.pos
           g(b) == gScore[a] + StepTo(a, b)
       IN  /\ gScore' = [b \in DOMAIN gScore \cup Improved(a) |->
                            IF b \in Improved(a) THEN g(b) ELSE gScore[b]]
           /\ cameFrom' = [b \in DOMAIN cameFrom \cup Improved(a) |->
                              IF b \in Improved(a) THEN a ELSE cameFrom[b]]
           /\ open' = (open \ {e}) \cup {[pos |-> b, f |-> g(b) + Heuristic(b)] : b \in Improved(a)}
    /\ UNCHANGED <<corridor, attempt, searched>>

(* Mutant: the last attempt is made with the second one's limits. *)
TryAgainAsBefore ==
    /\ searched = "searching" /\ open = {}
    /\ IF attempt < 2 THEN StartSearch(corridor, attempt + 1)
       ELSE searched' = "failed" /\ UNCHANGED <<attempt, open, gScore, cameFrom, closed>>
    /\ UNCHANGED corridor

(* No path: the next attempt starts afresh. *)
TryAgain ==
    /\ searched = "searching" /\ open = {}
    /\ IF attempt < 3 THEN StartSearch(corridor, attempt + 1)
       ELSE searched' = "failed" /\ UNCHANGED <<attempt, open, gScore, cameFrom, closed>>
    /\ UNCHANGED corridor

CorridorNext ==
    \/ CalculateFallback
    \/ ReachGoal
    \/ \E e \in open : PassOver(e) \/ Expand(e)
    \/ TryAgain

CorridorSpec == CorridorInit /\ [][CorridorNext]_corridorVars

-----------------------------------------------------------------------------
(* Properties *)

(* reconstructFallbackPath: from the goal back to the start. *)
Route ==
    LET back[k \in 1..Cardinality(Cells)] ==
            IF k = 1 THEN <<corridor.goal>>
            ELSE LET tail == back[k - 1] IN
                 IF Head(tail) \in DOMAIN cameFrom THEN <<cameFrom[Head(tail)]>> \o tail ELSE tail
    IN back[Cardinality(Cells)]

(* A route that is found leads from the farm to the grid; no bend of it,   *)
(* whatever cheaper ways to its cells turned up later, and no step exceeds *)
(* the limits of the attempt that found it, and its cost is the one the    *)
(* search compared.  And one is always found, with cables at the latest.   *)
RouteIsSound ==
    /\ searched = "found" =>
          LET r == Route
              limit == IF MaxDeflection(attempt) < 45 THEN 45 ELSE MaxDeflection(attempt)
          IN  /\ r[1] = corridor.start
              /\ \A i \in 1..Len(r) - 1 :
                    /\ Passable(attempt, r[i], r[i + 1])
                    /\ gScore[r[i + 1]] = gScore[r[i]] + StepTo(r[i], r[i + 1])
              /\ \A i \in 2..Len(r) - 1 : 45 * Bend(r[i - 1], r[i], r[i + 1]) <= limit
    /\ searched # "failed"

(* The cells and courses that can be reached overhead within the limit.    *)
OverheadReach ==
    LET limit == IF corridor.maxDeflection < 45 THEN 45 ELSE corridor.maxDeflection
        legal == {t \in Cells \X Cells \X Cells :
            /\ t[2] \in Neighbours(t[1]) /\ t[3] \in Neighbours(t[2]) /\ t[1] # t[3]
            /\ Passable(1, t[2], t[3]) /\ 45 * Bend(t[1], t[2], t[3]) <= limit}
        next(moves) == {<<t[2], t[3]>> : t \in {u \in legal : <<u[1], u[2]>> \in moves}}
        first == {<<corridor.start, b>> : b \in {c \in Neighbours(corridor.start) :
                                                    Passable(1, corridor.start, c)}}
        reach[k \in 0..Cardinality(Cells)] ==
            IF k = 0 THEN first ELSE LET moves == reach[k - 1] IN moves \cup next(moves)
    IN {m[2] : m \in reach[Cardinality(Cells)]}

(* Cables are laid only where no overhead route keeps the limits ("Route   *)
(* required underground cable segments to traverse hard-blocked zones").   *)
UndergroundIsRequired ==
    searched = "found" /\ attempt > 1 => corridor.goal \notin OverheadReach
=============================================================================
