--------------------------- MODULE MCRuntimeSpine ---------------------------
(* Instances of RuntimeSpine for TLC.                                      *)
EXTENDS RuntimeSpine, TLC

(* A page, with and without an investigation, and one that failed closed.  *)
MCPage   == [first |-> "page_owner", stage |-> "none", class |-> "page_owner"]
MCClosed == [first |-> "page_owner", stage |-> "closed", class |-> "send_to_human_review"]
MCRaised == [first |-> "open_ticket", stage |-> "answered", class |-> "page_owner"]

MCAnalyses2 == {MCPage, MCClosed}
MCAnalyses3 == {MCPage, MCClosed, MCRaised}

(* Ids are alike; used with invariants only. *)
MCIdSymmetry == Permutations(Ids)
=============================================================================
