----------------------- MODULE MCInvestigationRuntime -----------------------
(* Instances of InvestigationRuntime for TLC.                              *)
EXTENDS InvestigationRuntime

(* The worker's call, and a readiness probe. *)
MCWorker == {"worker"}
MCProbes == {"readiness"}
=============================================================================
