-------------------------- MODULE MCDrawingRevision --------------------------
(* Instances of DrawingRevision for TLC: the goroutines and the command ids *)
(* are interchangeable.                                                     *)
EXTENDS DrawingRevision, TLC

Symmetry == Permutations(Callers) \cup Permutations(Commands)
=============================================================================
