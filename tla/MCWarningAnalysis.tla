---------------------------- MODULE MCWarningAnalysis ----------------------------
(* Instance of WarningAnalysis for TLC.  The worlds: a service that fails, *)
(* with logs of its own; one whose logs are only found by trace, with a    *)
(* repeated and an unnamed trace; one that is calm, and novel; one that    *)
(* shows nothing.                                                          *)
EXTENDS WarningAnalysis

MCTraces == {"t1", "t2"}

Metrics(e, eb, l, lb, q, qb, s) ==
  [error_rate |-> e, error_rate_baseline |-> eb, latency_p95_ms |-> l, latency_p95_baseline_ms |-> lb,
   qps |-> q, qps_baseline |-> qb, saturation |-> s]

Failing ==
  [traces     |-> <<[id |-> "t1", error_ratio |-> None], [id |-> "t2", error_ratio |-> None]>>,
   operations |-> <<[p95_ms |-> 2400, error_ratio |-> 80]>>,
   logs       |-> <<[id |-> 7, novelty_score |-> 90], [id |-> None, novelty_score |-> 20]>>,
   details    |-> [t \in MCTraces |-> <<"downstream">>],
   trace_logs |-> [t \in MCTraces |-> <<>>],
   metrics    |-> Metrics(30, 2, 2600, 400, 20, 100, 90)]

Traced ==
  [traces     |-> <<[id |-> "t1", error_ratio |-> 40], [id |-> None, error_ratio |-> None],
                    [id |-> "t1", error_ratio |-> 60], [id |-> "t2", error_ratio |-> None]>>,
   operations |-> <<[p95_ms |-> 600, error_ratio |-> None]>>,
   logs       |-> <<>>,
   details    |-> [t \in MCTraces |-> IF t = "t1" THEN <<None>> ELSE <<None, "downstream">>],
   trace_logs |-> [t \in MCTraces |-> <<[id |-> None, novelty_score |-> IF t = "t1" THEN None ELSE 30]>>],
   metrics    |-> Metrics(5, None, 300, 300, 100, 100, None)]

Calm ==
  [traces     |-> <<>>,
   operations |-> <<[p95_ms |-> 90, error_ratio |-> 0]>>,
   logs       |-> <<[id |-> 8, novelty_score |-> 10]>>,
   details    |-> [t \in MCTraces |-> <<>>],
   trace_logs |-> [t \in MCTraces |-> <<>>],
   metrics    |-> Metrics(4, 3, 210, 200, 100, 100, 20)]

Silent ==
  [traces     |-> <<>>,
   operations |-> <<>>,
   logs       |-> <<>>,
   details    |-> [t \in MCTraces |-> <<>>],
   trace_logs |-> [t \in MCTraces |-> <<>>],
   metrics    |-> [q \in Queries |-> None]]

MCWorlds == {Failing, Traced, Calm, Silent}

(* One query, a pair's both, or all of them: what a proxy, a metric or the *)
(* endpoint takes away.                                                    *)
MCLosses == {{}, {"error_rate"}, {"error_rate_baseline"}, {"saturation"},
             {"error_rate", "error_rate_baseline"}, {"qps"}, {"qps", "qps_baseline"},
             {"latency_p95_baseline_ms", "qps_baseline"}, Queries}

MCAlerts == {[severity |-> "critical", blast_radius_score |-> 88],
             [severity |-> "warning", blast_radius_score |-> 82],
             [severity |-> "none", blast_radius_score |-> 30]}

MCHits == {[severe |-> 0, benign |-> 0], [severe |-> 90, benign |-> 0], [severe |-> 0, benign |-> 90],
           [severe |-> 80, benign |-> 90]}

(* The sigmoid of 2.148 * raw - 0.077. *)
MCSigmoid == {<<-15000, 4>>, <<-10000, 10>>, <<-5000, 24>>, <<-2500, 35>>, <<0, 48>>, <<2500, 61>>,
              <<5000, 73>>, <<7500, 82>>, <<10000, 89>>, <<14000, 95>>, <<15000, 96>>, <<20000, 99>>}
================================================================================
