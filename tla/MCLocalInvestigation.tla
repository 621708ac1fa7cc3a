------------------------- MODULE MCLocalInvestigation -------------------------
(* Instances of LocalInvestigation for TLC.                                *)
EXTENDS LocalInvestigation

MCActions == {"observe", "open_ticket", "page_owner", "send_to_human_review"}

(* Alertmanager alerts without references, with SigNoz ones, and with live *)
(* metrics; SigNoz alerts with three traces, and with hints and a template *)
(* too long for a handoff.                                                 *)
Bare == [signoz_first |-> FALSE, traces |-> <<>>, logs |-> <<>>, hints |-> FALSE, promql |-> FALSE,
         queries |-> FALSE, prior |-> FALSE, deploy |-> FALSE, repos |-> FALSE, long |-> FALSE]
MCPackets ==
  {Bare, [Bare EXCEPT !.traces = <<"t1", "t2">>, !.queries = TRUE],
   [Bare EXCEPT !.signoz_first = TRUE, !.traces = <<"t1", "t2", "t3">>, !.logs = <<<<"row", "l0">>>>,
                !.promql = TRUE, !.queries = TRUE, !.repos = TRUE],
   [Bare EXCEPT !.signoz_first = TRUE, !.traces = <<"t1">>, !.hints = TRUE, !.prior = TRUE, !.long = TRUE],
   [Bare EXCEPT !.traces = <<"t1">>, !.promql = TRUE, !.queries = TRUE, !.prior = TRUE, !.deploy = TRUE,
                !.repos = TRUE]}

MCDecisions == {[confidence |-> 67, action |-> "page_owner"], [confidence |-> 52, action |-> "open_ticket"]}

(* Budgets that run out, that just suffice, and the configured one.        *)
MCBudgets == {[max_tool_calls |-> 2, max_trace_refs |-> 1, max_log_refs |-> 1],
              [max_tool_calls |-> 7, max_trace_refs |-> 3, max_log_refs |-> 2],
              [max_tool_calls |-> 16, max_trace_refs |-> 8, max_log_refs |-> 8]}

Row(id, long) == [id |-> id, long |-> long]
MCLogRows == {<<>>, <<Row("l1", FALSE), Row(None, FALSE)>>, <<Row("l2", TRUE)>>}

(* A model that adds nothing; one sure of two causes, which pages; one     *)
(* with an action of its own making, and one with empty lists.             *)
Mute == [action |-> None, confidence |-> None, hypotheses |-> <<>>, unknowns |-> TRUE, changed |-> FALSE,
         bare |-> FALSE, long |-> None]
MCResponses ==
  {Mute,
   [Mute EXCEPT !.action = "page_owner", !.confidence = 90, !.hypotheses = <<90, 85>>, !.changed = TRUE,
                 !.long = FALSE],
   [Mute EXCEPT !.action = "undeclared", !.confidence = 80, !.unknowns = FALSE, !.long = FALSE],
   [Mute EXCEPT !.confidence = 40, !.bare = TRUE, !.long = TRUE]}
=============================================================================
