--------------------------- MODULE MCAdmissionIds ---------------------------
(* Instances of AdmissionIds for TLC: requests of one base, since those of *)
(* two share neither a directory nor a row.                                *)
EXTENDS AdmissionIds, TLC

MCBaseOf == [r \in Requests |-> "x"]

(* The requests are alike. *)
MCSymmetry == Permutations(Requests)
=============================================================================
