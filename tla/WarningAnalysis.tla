----------------------------- MODULE WarningAnalysis -----------------------------
(***************************************************************************)
(* From the evidence bundle of an alert to the decision about it: the      *)
(* features, the fast scorer, the trained scorer on top of it, whether the *)
(* decision asks for an investigation, and whether the router makes one.   *)
(*                                                                         *)
(* Scores are in hundredths.  The weights are those of the code; a sum of  *)
(* weighted features is in ten-thousandths and rounded as round_score      *)
(* does.  The sigmoid of the trained scorer is the step function Sigmoid.  *)
(***************************************************************************)
EXTENDS EvidenceCollection

CONSTANTS
  Alerts,     \* what a packet has besides its evidence, of the type Alert below
  Artifacts,  \* states of local-analyzer-trained-scorer.v1.json met
  Hits,       \* best similarities of retrieved severe and benign cases
  Sigmoid     \* pairs of a raw score, in ten-thousandths, and the probability from there on

(* severity of the alert, as SigNoz labels it, or "none"; and the blast    *)
(* radius of its service.                                                  *)
Alert == [severity : {"critical", "warning", "other", "none"},
          blast_radius_score : 0..100]

ASSUME AlertsAssumption == Alerts \subseteq Alert /\ None \notin Alerts
ASSUME ArtifactsAssumption == Artifacts \subseteq {"absent", "ready", "unfit", "incomplete"}
ASSUME HitsAssumption == Hits \subseteq [severe : 0..100, benign : 0..100]
ASSUME SigmoidAssumption ==
  /\ Sigmoid \subseteq Int \X (0..100)
  /\ \A s, t \in Sigmoid : s[1] <= t[1] => s[2] <= t[2]

VARIABLES
  alert, hits,  \* of the packet scored
  decision,     \* the decision of its scorer, or None
  plan          \* the reasons to investigate it, or None

vars == <<collection, alert, hits, decision, plan>>

Larger(a, b) == IF a > b THEN a ELSE b
Largest(S)   == CHOOSE n \in S : \A m \in S : m <= n

(* Mutant: a score is only kept from being negative.                       *)
ClipScoreBelow(n) == Larger(0, n)

ClipScore(n) == Largest({0, IF n > 100 THEN 100 ELSE n})
RoundScore(n) == ClipScore((n + 50) \div 100)

-----------------------------------------------------------------------------
(* extract_features *)

(* _signoz_alert_signal: a live bundle has no alert context.               *)
SignozAlertSignal(k, a) ==
  IF k = "live" THEN 0
  ELSE CASE a.severity = "critical" -> 100
         [] a.severity = "none"     -> 90
         [] a.severity = "warning"  -> 70
         [] a.severity = "other"    -> 50

(* What is there of what may be there.  The fallbacks of templates and     *)
(* operations count as there; an alert context and hints only lengthen     *)
(* the list when there are any.                                            *)
EvidenceCoverage(k, g) ==
  LET Has(v)   == IF v = None THEN 0 ELSE 1
      present  == Has(Delta(g, "error_rate", "error_rate_baseline"))
                  + Has(Delta(g, "latency_p95_ms", "latency_p95_baseline_ms"))
                  + Has(Delta(g, "qps", "qps_baseline"))
                  + Has(g.metrics["saturation"]) + Has(TraceErrorRatio(g)) + 2
      extra    == (IF k = "signoz_first" THEN 1 ELSE 0) + (IF TraceDetailHints(g) # {} THEN 1 ELSE 0)
  IN  (100 * (present + extra)) \div (7 + extra)

(* An error rate of 0.2 over its baseline, 2 seconds over the baseline, or *)
(* an operation of 3 seconds, is a full spike.  Each bundle shows one      *)
(* source of alerts of two.                                                *)
Features(k, g, a, h) ==
  LET signal == SignozAlertSignal(k, a)
      ratio  == Larger(OrZero(TraceErrorRatio(g)), OrZero(TopOperation(g).error_ratio))
  IN [error_rate_spike    |-> ClipScore(Largest({5 * OrZero(Delta(g, "error_rate", "error_rate_baseline")),
                                                 ratio, signal})),
      latency_spike       |-> ClipScore(Larger(OrZero(Delta(g, "latency_p95_ms", "latency_p95_baseline_ms")) \div 20,
                                               TopOperation(g).p95_ms \div 30)),
      trace_error_ratio   |-> ClipScore(ratio),
      blast_radius_score  |-> a.blast_radius_score,
      novelty_signal      |-> NoveltyScore(g),
      severe_similarity   |-> h.severe,
      alert_density       |-> 50,
      evidence_coverage   |-> EvidenceCoverage(k, g),
      retrieval_conflict  |-> h.severe >= 60 /\ h.benign >= 60,
      signoz_alert_signal |-> signal]

-----------------------------------------------------------------------------
(* FastScorer *)

FastSeverity(f) ==
  RoundScore(28 * f.error_rate_spike + 19 * f.latency_spike + 8 * f.trace_error_ratio
             + 19 * f.blast_radius_score + 11 * f.novelty_signal + 12 * f.severe_similarity
             + 5 * f.alert_density)

Novelty(f) == RoundScore(100 * f.novelty_signal - 5 * f.severe_similarity)

(* Mutant: the base is tuned up.                                           *)
ConfidenceTuned(f) ==
  RoundScore(3500 + 18 * f.evidence_coverage + 8 * f.alert_density + 7 * f.severe_similarity
             - 5 * Novelty(f))

Confidence(f) ==
  RoundScore(3200 + 18 * f.evidence_coverage + 8 * f.alert_density + 7 * f.severe_similarity
             - 5 * Novelty(f))

SeverityBand(score) ==
  CASE score >= 90 -> "P1" [] score \in 75..89 -> "P2" [] score \in 50..74 -> "P3" [] OTHER -> "P4"

RecommendedAction(band, f) ==
  CASE band = "P1" -> "page_owner"
    [] band = "P2" -> IF f.blast_radius_score >= 80 THEN "page_owner" ELSE "open_ticket"
    [] band = "P3" -> "open_ticket"
    [] band = "P4" -> "observe"

(* decide_investigation: the reasons; severity only for want of others. *)
Triggers(f, severity, action) ==
  LET reasons == {r \in {"novelty_high", "blast_radius_high", "confidence_low", "retrieval_conflict"} :
                    CASE r = "novelty_high"       -> Novelty(f) >= 75
                      [] r = "blast_radius_high"  -> f.blast_radius_score >= 70
                      [] r = "confidence_low"     -> Confidence(f) < 55
                      [] r = "retrieval_conflict" -> f.retrieval_conflict}
  IN  IF reasons = {} /\ (severity >= 80 \/ action = "page_owner") THEN {"severity_high"} ELSE reasons

Decision(family, severity, f) ==
  LET action == RecommendedAction(SeverityBand(severity), f)
  IN  [family       |-> family,
       severity     |-> severity,
       novelty      |-> Novelty(f),
       confidence   |-> Confidence(f),
       action       |-> action,
       alert_firing |-> f.signoz_alert_signal >= 90,
       triggers     |-> Triggers(f, severity, action)]

-----------------------------------------------------------------------------
(* TrainedScorer *)

(* extract_temporal_features over the context made of the packet: an       *)
(* absent value is zero, a present one without its baseline a total        *)
(* regression.                                                             *)
ErrorRateRegression(m) ==
  LET now  == OrZero(m["error_rate"])
      base == OrZero(m["error_rate_baseline"])
      p95  == IF {m["error_rate"], m["error_rate_baseline"]} = {None} THEN 0
              ELSE Largest({15 * base, 3 * now, 10})
  IN  ClipScore(((1000 * Larger(0, now - base)) \div Largest({10 * base, p95, 10})) \div 4)

LatencyRegression(m) ==
  LET now  == OrZero(m["latency_p95_ms"])
      base == OrZero(m["latency_p95_baseline_ms"])
  IN  ClipScore(((100 * Larger(0, now - base)) \div Larger(base, 1)) \div 8)

QpsShift(m) ==
  LET now  == OrZero(m["qps"])
      base == OrZero(m["qps_baseline"])
  IN  ClipScore((200 * Larger(now - base, base - now)) \div Larger(base, 1))

(* A window of 300 seconds is 0.08 of an hour; a bundle has no deploy. *)
RawScore(g) ==
  191 * ErrorRateRegression(g.metrics) + 124 * LatencyRegression(g.metrics)
  - 20 * QpsShift(g.metrics) + 18 * 8 + 167 * NoveltyScore(g) - 23536

(* predict_probability *)
Probability(g) == Largest({0} \cup {s[2] : s \in {t \in Sigmoid : t[1] <= RawScore(g)}})

(* resolve_runtime_scorer: an artifact that is not JSON, not ready, or of  *)
(* another version is passed over; one without a field raises.             *)
ScorerOf(artifact) == IF artifact = "ready" THEN "hybrid" ELSE "fast_scorer"

(* score_packet of the one or the other. *)
ScorePacket(family, k, g, a, h) ==
  LET f    == Features(k, g, a, h)
      fast == FastSeverity(f)
  IN  Decision(family, IF family = "hybrid" THEN Larger(Probability(g), fast) ELSE fast, f)

-----------------------------------------------------------------------------
(* The router *)

(* Mutant: a conflict is left to the analyzer.                             *)
RouteWithoutConflict(d, a) ==
  IF d.family = "hybrid"
  THEN {r \in {"calibrated_severity_high"} : d.severity >= 95 /\ a.blast_radius_score >= 84}
  ELSE {r \in {"confidence_below"} : d.confidence < 55}

(* _local_primary_route_reasons: of a hybrid decision other gates open.    *)
LocalPrimaryRouteReasons(d, a) ==
  IF d.family = "hybrid"
  THEN {r \in {"calibrated_severity_high", "signoz_primary", "signoz_low_confidence", "retrieval_conflict"} :
          CASE r = "calibrated_severity_high" -> d.severity >= 95 /\ a.blast_radius_score >= 84
            [] r = "signoz_primary"           -> d.alert_firing /\ d.severity >= 50 /\ a.blast_radius_score >= 84
            [] r = "signoz_low_confidence"    -> d.alert_firing /\ d.severity >= 50 /\ d.confidence < 55
            [] r = "retrieval_conflict"       -> "retrieval_conflict" \in d.triggers}
  ELSE {r \in {"confidence_below", "novelty_at_or_above", "blast_radius_at_or_above",
               "retrieval_conflict", "page_owner_low_confidence"} :
          CASE r = "confidence_below"          -> d.confidence < 55
            [] r = "novelty_at_or_above"       -> "novelty_high" \in d.triggers /\ d.novelty >= 79
            [] r = "blast_radius_at_or_above"  -> "blast_radius_high" \in d.triggers /\ a.blast_radius_score >= 84
            [] r = "retrieval_conflict"        -> "retrieval_conflict" \in d.triggers
            [] r = "page_owner_low_confidence" -> d.action = "page_owner" /\ d.confidence <= 61}

(* plan_investigation, which run_investigation_runtime asks only of a      *)
(* decision that needs_investigation.                                      *)
PlanInvestigation(d, a) == IF d.triggers = {} THEN {} ELSE LocalPrimaryRouteReasons(d, a)

-----------------------------------------------------------------------------
Init ==
  /\ CollectionInit
  /\ alert = None /\ hits = None /\ decision = None /\ plan = None

Start == Begin /\ alert' = None /\ hits' = None /\ decision' = None /\ plan' = None

Gather == Collect /\ UNCHANGED <<alert, hits, decision, plan>>

(* execute_runtime_inputs: retrieval, the scorer, its decision. *)
Score ==
  /\ step = "built" /\ alert = None
  /\ alert' \in Alerts /\ hits' \in Hits
  /\ \E artifact \in Artifacts \ {"incomplete"} :
       decision' = ScorePacket(ScorerOf(artifact), kind, got, alert', hits')
  /\ UNCHANGED <<collection, plan>>

(* An artifact without a field raises, and so does the execution. *)
ScoreRaises ==
  /\ step = "built" /\ alert = None /\ "incomplete" \in Artifacts
  /\ step' = "idle"
  /\ UNCHANGED <<kind, world, session, place, got, failed, faulted, alert, hits, decision, plan>>

Route ==
  /\ decision # None /\ plan = None
  /\ plan' = PlanInvestigation(decision, alert)
  /\ UNCHANGED <<collection, alert, hits, decision>>

Next == Start \/ Gather \/ Score \/ ScoreRaises \/ Route

Spec == Init /\ [][Next]_vars

-----------------------------------------------------------------------------
(* Properties *)

(* Every variable keeps its type, and every score its range.               *)
TypeOK ==
  /\ CollectionTypeOK
  /\ alert \in OrNone(Alerts) /\ hits \in OrNone(Hits)
  /\ decision # None =>
       /\ {decision.severity, decision.novelty, decision.confidence} \subseteq 0..100
       /\ decision.action \in {"page_owner", "open_ticket", "observe"}
  /\ plan # None => decision # None

(* The evidence as it would have been had no call failed.                  *)
Unfailed ==
  LET ids == AtMost(SampleTraceIds(AtMost(world.traces, TracesLimit)), TraceDetailsLimit)
  IN  [got EXCEPT
         !.traces = AtMost(world.traces, TracesLimit),
         !.operations = world.operations,
         !.logs = AtMost(world.logs, LogsLimit),
         !.details = IF kind = "live" THEN <<>> ELSE ids,
         !.metrics = IF Queries \cap failed = {} THEN got.metrics ELSE world.metrics]

(* The baselines of error rate and latency that were not read, of values   *)
(* that were.                                                              *)
UnreadBaselines ==
  {p[2] : p \in {p \in {<<"error_rate", "error_rate_baseline">>, <<"latency_p95_ms", "latency_p95_baseline_ms">>} :
                   got.metrics[p[1]] # None /\ got.metrics[p[2]] = None}}

(* The two values of a shift of traffic that was lost, and with it the     *)
(* only feature that lowers the trained score.                             *)
UnreadShift ==
  IF QpsShift(got.metrics) < QpsShift(Unfailed.metrics) THEN {"qps", "qps_baseline"} ELSE {}

(* The whole evidence with the two mistakes of the trained scorer: an      *)
(* unread baseline is zero, and a lost shift none.                         *)
MistakenForTrained ==
  [Unfailed EXCEPT !.metrics = [q \in Queries |-> CASE q \in UnreadBaselines -> 0
                                                   [] q \in UnreadShift     -> None
                                                   [] OTHER                 -> Unfailed.metrics[q]]]

(* Evidence that was not read raises no alarm, except by lost logs, which  *)
(* are taken for half a novelty.  Otherwise the severity is at most what   *)
(* the fast scorer makes of the whole evidence or, with the trained one,   *)
(* at most the probability of the whole with those two mistakes: whatever  *)
(* else was lost, a value alone or with its baseline too, raises neither.  *)
LossRaisesNoAlarm ==
  decision # None =>
    \/ NoveltyScore(got) > NoveltyScore(Unfailed)
    \/ decision.severity <= FastSeverity(Features(kind, Unfailed, alert, hits))
    \/ decision.family = "hybrid" /\ decision.severity <= Probability(MistakenForTrained)

(* A warning without a severe precedent asks for an investigation, however *)
(* complete its evidence: confidence stays below its threshold without     *)
(* one, as a bundle never shows more than one of two sources of alerts.    *)
UnprecedentedIsTriggered ==
  decision # None /\ hits.severe = 0 => decision.triggers # {}

(* Precedents that contradict each other are investigated, whichever       *)
(* scorer decides and whatever evidence was lost.                          *)
ConflictIsInvestigated ==
  plan # None /\ hits.severe >= 60 /\ hits.benign >= 60 => plan # {}

================================================================================
