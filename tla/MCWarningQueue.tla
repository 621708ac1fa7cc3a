--------------------------- MODULE MCWarningQueue ---------------------------
(* Instances of WarningQueue for TLC.                                      *)
EXTENDS WarningQueue, TLC

(* The first two warnings are repeats of one alert. *)
MCWarnings2 == 1..2
MCWarnings3 == 1..3
MCKeyOf2 == [w \in MCWarnings2 |-> "a"]
MCKeyOf3 == [w \in MCWarnings3 |-> IF w <= 2 THEN "a" ELSE "b"]

(* Workers are alike; used with invariants only. *)
MCWorkerSymmetry == Permutations(Workers)
=============================================================================
