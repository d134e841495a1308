---------------------------- MODULE MCJobService ----------------------------
(* Instances of JobService for TLC. *)
EXTENDS JobService, TLC

(* The sets below are model values of the configurations; clients, workers *)
(* and timers are interchangeable, and so are the job ids.                 *)
Symmetry == Permutations(Clients) \cup Permutations(Workers) \cup Permutations(Timers)
              \cup Permutations(Jobs)
=============================================================================
