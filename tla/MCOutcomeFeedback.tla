--------------------------- MODULE MCOutcomeFeedback ---------------------------
(* Instance of OutcomeFeedback for TLC: an outcome, its correction within  *)
(* the same second, which names another packet, a second outcome of that   *)
(* packet, and an invalid request.                                         *)
EXTENDS OutcomeFeedback

MCRequests == {"first", "correction", "second", "invalid"}

MCContent == [r \in MCRequests |->
  [id    |-> IF r = "second" THEN "out_b" ELSE "out_a",
   case  |-> IF r \in {"second", "correction"} THEN "packet_b" ELSE "packet_a",
   label |-> IF r = "first" THEN "severe" ELSE "benign",
   valid |-> r # "invalid"]]

MCRuntimeDocs == {"doc1", "doc2", "doc3", "doc4", "doc5", "doc6", "doc7", "doc8"}

(* The outcomes before, between and behind the runtime's documents: in the *)
(* last two rankings one, then both, are beyond 4 * Limit.                 *)
MCRankings == {
  <<"out_a", "out_b", "doc1", "doc2", "doc3", "doc4", "doc5", "doc6", "doc7", "doc8">>,
  <<"out_b", "doc1", "out_a", "doc2", "doc3", "doc4", "doc5", "doc6", "doc7", "doc8">>,
  <<"doc1", "doc2", "doc3", "out_a", "doc4", "doc5", "doc6", "doc7", "doc8", "out_b">>,
  <<"doc1", "doc2", "doc3", "doc4", "doc5", "doc6", "doc7", "doc8", "out_b", "out_a">>}
================================================================================
