--------------------------- MODULE TowerPlacement ---------------------------
(***************************************************************************)
(* Where the towers of a transmission line stand: long legs of the route   *)
(* are divided, towers are placed from the farm on, each as far as span    *)
(* and ground clearance allow, and bends get towers afterwards.            *)
(*                                                                         *)
(* Distances are in metres, bends in degrees.  Points of the divided route *)
(* are numbered from 1.  The clearance of a span over the terrain is an    *)
(* oracle that may answer either way.  Pole heights and the shift of all   *)
(* towers to one side of the line, 8 m, are left out.                      *)
(***************************************************************************)
EXTENDS Integers, Sequences, SequencesExt, FiniteSetsExt

CONSTANT Lines   \* legs, bends between them, relief, minSpan, maxSpan, maxDeflection

ASSUME TowerAssumption ==
    \A l \in Lines :
        /\ l.legs \in Seq(Nat) /\ l.legs # << >>
        /\ l.relief \in Nat /\ l.minSpan \in Nat /\ l.maxSpan \in Nat
        /\ l.maxSpan > 0 \/ l.minSpan > 0

VARIABLES
    line,    \* the route and the constraints asked for
    gaps,    \* the distances between neighbouring points of the divided route
    towers,  \* the points that have a tower
    clear,   \* the spans found to have clearance
    placing  \* "idle", "placing" or "done"

towerVars == <<line, gaps, towers, clear, placing>>

LongestSpan(l) == Max({l.maxSpan, l.minSpan})

(* densifyWaypointsForTowerPlacement: the points put into a leg divide it  *)
(* evenly, but each is as high as the ground there, which makes the gaps   *)
(* longer than the parts of the leg.                                       *)
Divided(l, leg) ==
    LET steps == Max({1, (leg + LongestSpan(l) - 1) \div LongestSpan(l)})
    IN [i \in 1..steps |-> leg \div steps + IF steps > 1 THEN l.relief ELSE 0]

Densified(l) == FlattenSeq([k \in 1..Len(l.legs) |-> Divided(l, l.legs[k])])

Points == 1..Len(gaps) + 1

(* cumulativeDistances *)
Along ==
    LET cum[i \in 0..Len(gaps)] == IF i = 0 THEN 0 ELSE cum[i - 1] + gaps[i]
    IN cum

(* distBetween *)
Span(a, b) == Along[b - 1] - Along[a - 1]

(* The point between the legs k and k + 1. *)
Corner(k) == 1 + Len(FlattenSeq([i \in 1..k |-> Divided(line, line.legs[i])]))

(* mandatoryTurnTowerIndices: bends of 0.35 times the largest deflection,  *)
(* within 5 and 28 degrees. *)
Turns ==
    LET threshold == Max({500, Min({2800, 35 * line.maxDeflection})})
    IN {Corner(k) : k \in {i \in 1..Len(line.legs) - 1 : 100 * line.bends[i] >= threshold}}

(* In tenths of a metre. *)
TargetSpan == Min({9 * LongestSpan(line), Max({10 * line.minSpan, 6 * LongestSpan(line)})})

-----------------------------------------------------------------------------

TowerInit ==
    /\ line \in {CHOOSE l \in Lines : TRUE}
    /\ gaps = << >> /\ towers = {} /\ clear = {}
    /\ placing = "idle"

PlaceTowers ==
    /\ placing = "idle"
    /\ \E l \in Lines : line' = l /\ gaps' = Densified(l)
    /\ towers' = {1}
    /\ placing' = "placing"
    /\ UNCHANGED clear

LastTower == Max(towers)

(* Mutant: the limit is tested on the point before. *)
WithinReachOfPrevious == {p \in Points : p > LastTower /\ Span(LastTower, p - 1) <= LongestSpan(line)}

WithinReach == {p \in Points : p > LastTower /\ Span(LastTower, p) <= LongestSpan(line)}

(* The first point at the target span, or else the last one that is not    *)
(* too near, or else the first one; seen are those with clearance.  If     *)
(* there is none the next point is taken, whatever its clearance.          *)
NextTower(seen) ==
    LET longEnough == {p \in seen : Span(LastTower, p) >= line.minSpan \/ p = Len(gaps) + 1}
        onTarget == {p \in longEnough : 10 * Span(LastTower, p) >= TargetSpan}
    IN IF onTarget # {} THEN Min(onTarget)
       ELSE IF longEnough # {} THEN Max(longEnough)
       ELSE IF seen # {} THEN Min(seen)
       ELSE LastTower + 1

PlaceNext ==
    /\ placing = "placing" /\ LastTower <= Len(gaps)
    /\ \E seen \in SUBSET WithinReach :
          /\ towers' = towers \cup {NextTower(seen)}
          /\ clear' = clear \cup {<<LastTower, p>> : p \in seen}
    /\ UNCHANGED <<line, gaps, placing>>

(* mergeTowerIndices *)
MergeTurns ==
    /\ placing = "placing" /\ LastTower = Len(gaps) + 1
    /\ towers' = towers \cup Turns
    /\ placing' = "done"
    /\ UNCHANGED <<line, gaps, clear>>

TowerNext == PlaceTowers \/ PlaceNext \/ MergeTurns

TowerSpec == TowerInit /\ [][TowerNext]_towerVars

-----------------------------------------------------------------------------
(* Properties *)

(* The line has towers at its ends and its bends.  Before the towers are   *)
(* shifted aside, a span is longer than the limit only between neighbouring *)
(* points of the divided route, has no clearance only where nothing within *)
(* reach had, or next to the tower of a bend, and is shorter than the      *)
(* least one only there, at the end, or where every point farther off      *)
(* lacked clearance.                                                       *)
SpansHold ==
    placing = "done" =>
        /\ {1, Len(gaps) + 1} \cup Turns \subseteq towers
        /\ \A a \in towers \ {Len(gaps) + 1} :
              LET b == Min({t \in towers : t > a})
                  atBend == {a, b} \cap Turns # {}
              IN  /\ Span(a, b) <= LongestSpan(line) \/ b = a + 1
                  /\ \/ <<a, b>> \in clear \/ atBend
                     \/ b = a + 1 /\ \A p \in Points : <<a, p>> \notin clear
                  /\ Span(a, b) < line.minSpan =>
                        \/ b = Len(gaps) + 1 \/ atBend
                        \/ \A p \in Points : <<a, p>> \in clear => Span(a, p) < line.minSpan
=============================================================================
