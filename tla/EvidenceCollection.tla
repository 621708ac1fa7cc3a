--------------------------- MODULE EvidenceCollection ---------------------------
(***************************************************************************)
(* Collection of the evidence for an alert, call by call: SigNoz over one  *)
(* MCP session per collector, Prometheus query by query.  Every call that  *)
(* raises is read as no rows, or no value, and the collection goes on with *)
(* what it has.  A signoz_first bundle looks into the traces it found, and *)
(* for their logs if the service shows none; a live bundle does not.       *)
(*                                                                         *)
(* What SigNoz and Prometheus would answer is a world, which does not      *)
(* change while a bundle is built.  Values are in hundredths.              *)
(***************************************************************************)
EXTENDS Integers, Sequences, FiniteSets

CONSTANTS
  Traces,             \* trace ids
  Hints,              \* what a span may tell: name, service, target, status
  Worlds,             \* records of the type World below
  Losses,             \* sets of Prometheus queries that may fail in one collection
  LogsLimit,          \* signoz_logs_limit, signoz_trace_logs_limit
  TracesLimit,        \* signoz_traces_limit
  TraceDetailsLimit,  \* signoz_trace_details_limit
  FallbackNovelty,    \* fallback_novelty_score
  None

Queries == {"error_rate", "error_rate_baseline", "latency_p95_ms", "latency_p95_baseline_ms",
            "qps", "qps_baseline", "saturation"}

OrNone(S) == S \cup {None}
OrZero(v) == IF v = None THEN 0 ELSE v

TraceRow     == [id : OrNone(Traces), error_ratio : OrNone(0..100)]
OperationRow == [p95_ms : Nat, error_ratio : OrNone(0..100)]
LogRow       == [id : OrNone(Nat), novelty_score : OrNone(0..100)]

World == [traces     : Seq(TraceRow),
          operations : Seq(OperationRow),
          logs       : Seq(LogRow),
          details    : [Traces -> Seq(OrNone(Hints))],
          trace_logs : [Traces -> Seq(LogRow)],
          metrics    : [Queries -> OrNone(Nat)]]

ASSUME NoneAssumption == None \notin Int
ASSUME WorldsAssumption == Worlds \subseteq World
ASSUME LossesAssumption == Losses \subseteq SUBSET Queries
ASSUME LimitsAssumption == {LogsLimit, TracesLimit, TraceDetailsLimit} \subseteq Nat \ {0}
ASSUME NoveltyAssumption == FallbackNovelty \in 0..100

VARIABLES
  kind,     \* of the bundle being built
  world,
  session,  \* _session_id of the SigNoz collector, and whether the server knows it
  step,     \* the call to come
  place,    \* the sampled trace it is for
  got,      \* what the calls returned
  failed,   \* history: the calls that raised
  faulted   \* history: whether SigNoz or Prometheus failed since the collector was made

collection == <<kind, world, session, step, place, got, failed, faulted>>

Nothing == [traces     |-> <<>>,
            operations |-> <<>>,
            logs       |-> <<>>,
            details    |-> <<>>,  \* ids of the traces whose details were returned
            trace_logs |-> <<>>,
            logs_of    |-> None,  \* the trace whose logs these are
            metrics    |-> [q \in Queries |-> None]]

AtMost(s, n) == SubSeq(s, 1, IF Len(s) < n THEN Len(s) ELSE n)

-----------------------------------------------------------------------------
(* Calls *)

(* SignozCollector.call_tool: the first call opens the session.            *)
Answered ==
  /\ session # "lost"
  /\ session' = IF session = "none" THEN "open" ELSE session
  /\ UNCHANGED <<failed, faulted>>

(* It raises: at initialize, at the notification behind it, when the id is *)
(* already kept, or later.  A server that has forgotten the session never  *)
(* answers it, and nothing forgets the id.                                 *)
Unanswered(call) ==
  /\ session' \in IF session = "none" THEN {"none", "half", "open"} ELSE {session}
  /\ failed' = failed \cup {call}
  /\ faulted' = (faulted \/ session # "lost")

(* What follows each call of a bundle. *)
SignozFirstOrder == [traces     |-> "operations",
                     operations |-> "logs",
                     logs       |-> "details",
                     details    |-> "trace_logs",
                     trace_logs |-> "metrics",
                     metrics    |-> "build"]

LiveOrder == [metrics    |-> "logs",
              logs       |-> "traces",
              traces     |-> "operations",
              operations |-> "build"]

After(call) == IF kind = "signoz_first" THEN SignozFirstOrder[call] ELSE LiveOrder[call]

Proceed(call) == step' = After(call) /\ place' = 1

Rank(n, places) == Cardinality({m \in places : m <= n})
Nth(k, places)  == CHOOSE n \in places : Rank(n, places) = k

(* _sample_trace_ids: of the rows with an id, each id once. *)
SampleTraceIds(rows) ==
  LET first == {n \in 1..Len(rows) : /\ rows[n].id # None
                                     /\ \A m \in 1..(n - 1) : rows[m].id # rows[n].id}
  IN  [k \in 1..Cardinality(first) |-> rows[Nth(k, first)].id]

(* The traces whose details, and logs, are asked for. *)
AskedTraces == AtMost(SampleTraceIds(got.traces), TraceDetailsLimit)

(* Mutant: the collector of the last bundle is used again.                 *)
BeginShared ==
  /\ step \in {"idle", "built"}
  /\ kind' \in {"signoz_first", "live"} /\ world' \in Worlds
  /\ step' = (IF kind' = "signoz_first" THEN "traces" ELSE "metrics") /\ place' = 1
  /\ got' = Nothing /\ failed' = {} /\ faulted' = FALSE
  /\ UNCHANGED session

(* build_signoz_first_evidence_bundle and build_live_evidence_bundle read  *)
(* both configurations and make their own collectors.                      *)
Begin ==
  /\ step \in {"idle", "built"}
  /\ kind' \in {"signoz_first", "live"} /\ world' \in Worlds
  /\ step' = (IF kind' = "signoz_first" THEN "traces" ELSE "metrics") /\ place' = 1
  /\ got' = Nothing /\ failed' = {} /\ faulted' = FALSE
  /\ session' = "none"

CollectTraces ==
  /\ step = "traces" /\ Proceed(step)
  /\ \/ Answered /\ got' = [got EXCEPT !.traces = AtMost(world.traces, TracesLimit)]
     \/ Unanswered("traces") /\ UNCHANGED got
  /\ UNCHANGED <<kind, world>>

CollectOperations ==
  /\ step = "operations" /\ Proceed(step)
  /\ \/ Answered /\ got' = [got EXCEPT !.operations = world.operations]
     \/ Unanswered("operations") /\ UNCHANGED got
  /\ UNCHANGED <<kind, world>>

CollectLogs ==
  /\ step = "logs" /\ Proceed(step)
  /\ \/ Answered /\ got' = [got EXCEPT !.logs = AtMost(world.logs, LogsLimit)]
     \/ Unanswered("logs") /\ UNCHANGED got
  /\ UNCHANGED <<kind, world>>

CollectDetails ==
  /\ step = "details"
  /\ \/ /\ place > Len(AskedTraces)
        /\ Proceed(step)
        /\ UNCHANGED <<got, session, failed, faulted>>
     \/ /\ place <= Len(AskedTraces)
        /\ \/ Answered /\ got' = [got EXCEPT !.details = Append(@, AskedTraces[place])]
           \/ Unanswered("details") /\ UNCHANGED got
        /\ place' = place + 1
        /\ UNCHANGED step
  /\ UNCHANGED <<kind, world>>

(* Mutant: the loop goes on after a trace with logs.                       *)
CollectAllTraceLogs ==
  /\ step = "trace_logs"
  /\ \/ /\ got.logs # <<>> \/ place > Len(AskedTraces)
        /\ Proceed(step)
        /\ UNCHANGED <<got, session, failed, faulted>>
     \/ /\ got.logs = <<>> /\ place <= Len(AskedTraces)
        /\ Answered
        /\ got' = [got EXCEPT !.trace_logs = @ \o world.trace_logs[AskedTraces[place]],
                              !.logs_of = AskedTraces[place]]
        /\ place' = place + 1
        /\ UNCHANGED step
  /\ UNCHANGED <<kind, world>>

(* Only for want of service logs, and up to the first trace that has some. *)
CollectTraceLogs ==
  /\ step = "trace_logs"
  /\ LET over == got.logs # <<>> \/ got.trace_logs # <<>> \/ place > Len(AskedTraces)
     IN  \/ /\ over
            /\ Proceed(step)
            /\ UNCHANGED <<got, session, failed, faulted>>
         \/ /\ ~over
            /\ LET rows == AtMost(world.trace_logs[AskedTraces[place]], LogsLimit)
               IN  \/ /\ Answered
                      /\ got' = [got EXCEPT !.trace_logs = rows,
                                            !.logs_of = IF rows = <<>> THEN @ ELSE AskedTraces[place]]
                   \/ Unanswered("trace_logs") /\ UNCHANGED got
            /\ place' = place + 1
            /\ UNCHANGED step
  /\ UNCHANGED <<kind, world>>

(* _safe_prometheus_value of instant_scalar_query: no value if it raises,  *)
(* or if the result is of another type or empty, as that of the world is.  *)
PrometheusValue(query, lost) == IF query \in lost THEN None ELSE world.metrics[query]

(* build_prometheus_corroboration: a live bundle makes its collector, a    *)
(* signoz_first one asks only if it is given one, which the worker does    *)
(* not.  Each query fails alone.                                           *)
Corroborate ==
  /\ step = "metrics" /\ Proceed(step)
  /\ \/ /\ kind = "signoz_first"
        /\ UNCHANGED <<got, failed, faulted>>
     \/ \E lost \in Losses :
          /\ got' = [got EXCEPT !.metrics = [q \in Queries |-> PrometheusValue(q, lost)]]
          /\ failed' = failed \cup lost
          /\ faulted' = (faulted \/ lost # {})
  /\ UNCHANGED <<kind, world, session>>

Build ==
  /\ step = "build"
  /\ step' = "built"
  /\ UNCHANGED <<kind, world, session, place, got, failed, faulted>>

(* The SigNoz server is restarted and forgets its sessions. *)
RestartServer ==
  /\ session \in {"half", "open"}
  /\ session' = "lost"
  /\ faulted' = TRUE
  /\ UNCHANGED <<kind, world, step, place, got, failed>>

-----------------------------------------------------------------------------
(* The bundle *)

Logs(g) == IF g.logs # <<>> THEN g.logs ELSE g.trace_logs

(* _top_error_templates: the first row; a score of zero counts as none.    *)
NoveltyScore(g) ==
  IF Logs(g) # <<>> /\ Logs(g)[1].novelty_score \notin {None, 0}
  THEN Logs(g)[1].novelty_score ELSE FallbackNovelty

(* _top_slow_operations: the first row, with its duration in one of the    *)
(* units of _duration_to_ms.                                               *)
TopOperation(g) == IF g.operations = <<>> THEN [p95_ms |-> 0, error_ratio |-> None] ELSE g.operations[1]

(* The traces that have an error ratio, and the sums of the ratios of the  *)
(* first n rows.                                                           *)
Rated(rows) == {n \in 1..Len(rows) : rows[n].error_ratio # None}

RatioSums(rows) ==
  LET sum[n \in 0..Len(rows)] == IF n = 0 THEN 0 ELSE sum[n - 1] + OrZero(rows[n].error_ratio)
  IN  sum

(* round(..., 2): to the nearest hundredth.                                *)
MeanRatio(rows) ==
  (2 * RatioSums(rows)[Len(rows)] + Cardinality(Rated(rows))) \div (2 * Cardinality(Rated(rows)))

(* Mutant: the absence of traces is asked for last.                        *)
TraceErrorRatioLate(g) == IF Rated(g.traces) # {} THEN MeanRatio(g.traces) ELSE 100

(* _trace_error_ratio: the mean of those that have one, else all are       *)
(* errors, as the search asked for errors.                                 *)
TraceErrorRatio(g) ==
  IF Rated(g.traces) # {} THEN MeanRatio(g.traces)
  ELSE IF g.traces = <<>> THEN None ELSE 100

(* sample_log_refs: a row without an id goes by its place. *)
LogRefs(g) == [n \in 1..Len(AtMost(Logs(g), LogsLimit)) |->
                 IF Logs(g)[n].id = None THEN n ELSE Logs(g)[n].id]

(* _trace_detail_hints: of the details returned, wherever their spans are, *)
(* the spans with an attribute that tells something, each once.            *)
TraceDetailHints(g) ==
  UNION {{[trace_id |-> g.details[n], hint |-> world.details[g.details[n]][k]] :
            k \in {i \in 1..Len(world.details[g.details[n]]) : world.details[g.details[n]][i] # None}} :
         n \in 1..Len(g.details)}

(* Mutant: a missing baseline counts as zero.                              *)
DeltaFromZero(g, query, baseline) ==
  IF g.metrics[query] = None THEN None
  ELSE g.metrics[query] - (IF g.metrics[baseline] = None THEN 0 ELSE g.metrics[baseline])

(* A difference needs both of its values. *)
Delta(g, query, baseline) ==
  IF None \in {g.metrics[query], g.metrics[baseline]} THEN None
  ELSE g.metrics[query] - g.metrics[baseline]

(* _signoz_primary_refs: the traces a signoz_first bundle refers to.       *)
ReferredTraces(g) == LET ids == AtMost(SampleTraceIds(g.traces), TraceDetailsLimit)
                     IN  {ids[n] : n \in 1..Len(ids)}

(* classify_signoz_evidence_state *)
EvidenceState(g) ==
  IF TraceErrorRatio(g) # None /\ (SampleTraceIds(g.traces) # <<>> \/ LogRefs(g) # <<>>)
  THEN "complete" ELSE "partial"

-----------------------------------------------------------------------------
CollectionInit ==
  /\ kind \in {"signoz_first", "live"} /\ world \in Worlds
  /\ session = "none" /\ step = "idle" /\ place = 1
  /\ got = Nothing /\ failed = {} /\ faulted = FALSE

Collect == \/ CollectTraces \/ CollectOperations \/ CollectLogs
           \/ CollectDetails \/ CollectTraceLogs \/ Corroborate
           \/ Build \/ RestartServer

-----------------------------------------------------------------------------
(* Properties *)

Steps == {"idle", "traces", "operations", "logs", "details", "trace_logs", "metrics", "build", "built"}

(* Every variable keeps its type. *)
CollectionTypeOK ==
  /\ kind \in {"signoz_first", "live"} /\ world \in Worlds
  /\ session \in {"none", "half", "open", "lost"}
  /\ step \in Steps /\ place \in 1..(TraceDetailsLimit + 1)
  /\ DOMAIN got = DOMAIN Nothing
  /\ got.details \in Seq(Traces) /\ got.logs_of \in OrNone(Traces)
  /\ failed \subseteq Queries \cup {"traces", "operations", "logs", "details", "trace_logs"}
  /\ faulted \in BOOLEAN

(* A collection loses evidence only to a fault of its own time: the        *)
(* session that a restart of SigNoz killed under an earlier bundle does    *)
(* not come back, although within a bundle nothing opens another.          *)
NoLossWithoutFault == failed # {} => faulted

(* The logs of a bundle are of one origin: the service's, or those of one  *)
(* trace that the bundle refers to; and it shows some trace's logs unless  *)
(* the service has its own, the two asked traces have none, or a call      *)
(* failed.                                                                 *)
LogsAreOfOneOrigin ==
  step = "built" /\ kind = "signoz_first" =>
    /\ got.logs # <<>> => got.trace_logs = <<>>
    /\ got.trace_logs # <<>> =>
         /\ got.logs_of \in ReferredTraces(got)
         /\ got.trace_logs = AtMost(world.trace_logs[got.logs_of], LogsLimit)
    /\ Logs(got) = <<>> => \A t \in ReferredTraces(got) :
         world.trace_logs[t] = <<>> \/ {"logs", "trace_logs"} \cap failed # {}

(* Evidence counts as complete only when the traces were read, and an      *)
(* empty answer is never taken for a failed one: without a failure, it is  *)
(* complete whenever SigNoz has a trace and an id or a log of it.          *)
CompleteIsWitnessed ==
  step = "built" =>
    /\ EvidenceState(got) = "complete" => "traces" \notin failed /\ world.traces # <<>>
    /\ /\ failed = {} /\ world.traces # <<>>
       /\ SampleTraceIds(AtMost(world.traces, TracesLimit)) # <<>> \/ world.logs # <<>>
       => EvidenceState(got) = "complete"

================================================================================
