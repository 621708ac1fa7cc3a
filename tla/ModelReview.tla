------------------------------ MODULE ModelReview ------------------------------
(***************************************************************************)
(* From landed outcomes to a promotion decision: three scripts an operator *)
(* runs by hand while the service goes on storing executions and landing   *)
(* outcomes.                                                               *)
(*                                                                         *)
(*   assemble_feedback_compare_corpus   outcomes, packets -> corpus        *)
(*   run_feedback_retrain_compare       corpus -> candidate, summary       *)
(*   run_feedback_promotion_review      summary -> decision, report        *)
(*                                                                         *)
(* A script may raise or be stopped between any two of its reads and       *)
(* writes; it leaves what it has written.  Outcomes land as OutcomeLog     *)
(* says.                                                                   *)
(*                                                                         *)
(* outcomes.jsonl only grows, so that what a corpus was assembled from,    *)
(* and a candidate trained on, is a number of its lines.                   *)
(***************************************************************************)
EXTENDS OutcomeLog, Integers, FiniteSets

CONSTANTS
  Minimum,  \* promotion.minimum_landed_outcome_cases
  MaxRuns,  \* bound on the scripts run
  None

ASSUME ReviewAssumption == Minimum \in Nat /\ MaxRuns \in Nat /\ None \notin Nat

VARIABLES
  packets, decisions,  \* cases whose packet, and decision, is stored
  auto,                \* promotion.auto_promote
  pc,                  \* where the running script is, or idle
  held,                \* cases whose packets, then packets and decisions, the assembly read
  lines,               \* the lines it read, and that the compare loaded
  began,               \* history: the lines there were when the assembly began
  corpus,              \* feedback-compare-corpus.json
  candidate,           \* local-analyzer-trained-scorer.candidate.json
  summary,             \* local-analyzer-feedback-compare-summary.json
  decision,            \* local-analyzer-promotion-decision.json
  reported,            \* whether local-analyzer-promotion-report.md shows that decision
  halted,              \* history: the points between two writes at which a script stopped
  runs

artifacts == <<corpus, candidate, summary, decision, reported>>
runtime   == <<logVars, packets, decisions, auto>>
script    == <<pc, held, lines, began>>
vars      == <<runtime, script, artifacts, halted, runs>>

-----------------------------------------------------------------------------
(* The service *)

(* An execution appends its packet before its decision. *)
StorePacket(c) ==
  /\ c \notin packets
  /\ packets' = packets \cup {c}
  /\ UNCHANGED <<logVars, decisions, auto, script, artifacts, halted, runs>>

StoreDecision(c) ==
  /\ c \in packets \ decisions
  /\ decisions' = decisions \cup {c}
  /\ UNCHANGED <<logVars, packets, auto, script, artifacts, halted, runs>>

(* Nothing verifies that the packet an outcome names is stored. *)
LandOutcome(r) ==
  /\ Land(r)
  /\ UNCHANGED <<packets, decisions, auto, script, artifacts, halted, runs>>

-----------------------------------------------------------------------------
(* assemble_feedback_compare_corpus *)

(* A script that has ended keeps nothing. *)
End == pc' = "idle" /\ held' = {} /\ lines' = 0 /\ began' = 0

Begin(point) ==
  /\ pc = "idle" /\ runs < MaxRuns
  /\ pc' = point
  /\ runs' = runs + 1

BeginAssembly ==
  /\ Begin("packets")
  /\ began' = Len(log)
  /\ UNCHANGED <<runtime, held, lines, artifacts, halted>>

ReadPackets ==
  /\ pc = "packets"
  /\ held' = packets
  /\ pc' = "decisions"
  /\ UNCHANGED <<runtime, lines, began, artifacts, halted, runs>>

ReadDecisions ==
  /\ pc = "decisions"
  /\ held' = held \cap decisions
  /\ pc' = "outcomes"
  /\ UNCHANGED <<runtime, lines, began, artifacts, halted, runs>>

Labelled(n) == {k \in 1..n : Content[log[k]].label # "unknown"}

(* Mutant: an outcome whose packet or decision was not read is kept.       *)
ReadUnjoined ==
  /\ pc = "outcomes"
  /\ lines' = Len(log)
  /\ pc' = "corpus"
  /\ UNCHANGED <<runtime, held, began, artifacts, halted, runs>>

(* A labelled outcome whose packet or decision was not read raises, and    *)
(* nothing is written.                                                     *)
ReadOutcomes ==
  /\ pc = "outcomes"
  /\ IF \A k \in Labelled(Len(log)) : Content[log[k]].case \in held
     THEN lines' = Len(log) /\ pc' = "corpus" /\ UNCHANGED <<held, began>>
     ELSE End
  /\ UNCHANGED <<runtime, artifacts, halted, runs>>

WriteCorpus ==
  /\ pc = "corpus"
  /\ corpus' = lines
  /\ End
  /\ UNCHANGED <<runtime, candidate, summary, decision, reported, halted, runs>>

-----------------------------------------------------------------------------
(* run_feedback_retrain_compare *)

LoadCorpus ==
  /\ corpus # None
  /\ Begin("train")
  /\ lines' = corpus
  /\ UNCHANGED <<runtime, held, began, artifacts, halted>>

(* What _evaluate_scorer measures, as the candidate's rank less the        *)
(* current scorer's: as good, or worse by one.                             *)
Gains == [severe_recall : {-1, 0}, brier_score : {0, 1}, investigation_precision : {-1, 0}]

(* Mutant: the higher Brier score, which is the worse, is taken.           *)
HigherBrierPreferred(gain) ==
  IF gain.severe_recall >= 0 /\ gain.brier_score >= 0 /\ gain.investigation_precision >= 0
  THEN "candidate_ready_for_review" ELSE "candidate_hold"

(* _provisional_decision *)
ProvisionalDecision(gain) ==
  IF gain.severe_recall >= 0 /\ gain.brier_score <= 0 /\ gain.investigation_precision >= 0
  THEN "candidate_ready_for_review" ELSE "candidate_hold"

(* Mutant: a candidate that is there is not trained again.                 *)
TrainOnce ==
  /\ pc = "train"
  /\ candidate' = IF candidate = None THEN lines ELSE candidate
  /\ pc' = "evaluate"
  /\ UNCHANGED <<runtime, held, lines, began, corpus, summary, decision, reported, halted, runs>>

(* train_candidate_from_compare_corpus *)
TrainCandidate ==
  /\ pc = "train"
  /\ candidate' = lines
  /\ pc' = "evaluate"
  /\ UNCHANGED <<runtime, held, lines, began, corpus, summary, decision, reported, halted, runs>>

(* The candidate is read back from its file and evaluated beside the       *)
(* current scorer.                                                         *)
WriteSummary ==
  /\ pc = "evaluate"
  /\ \E gain \in Gains :
       summary' = [lines |-> lines, gain |-> gain, preferred |-> ProvisionalDecision(gain)]
  /\ halted' = halted \ {"evaluate"}
  /\ End
  /\ UNCHANGED <<runtime, corpus, candidate, decision, reported, runs>>

-----------------------------------------------------------------------------
(* run_feedback_promotion_review *)

(* landed_outcome_case_count: the lines with a label; those without are    *)
(* skipped.                                                                *)
LandedCases(n) == Cardinality(Labelled(n))

(* load_feedback_governance_config: what of it a review looks at.          *)
Governance == [minimum_landed_outcome_cases |-> Minimum, auto_promote |-> auto]

(* _decision_from_summary: promoted if nothing but                         *)
(* config_auto_promote_disabled speaks; config_auto_promote_enabled holds  *)
(* it too.                                                                 *)
DecisionFromSummary(s) ==
  IF /\ LandedCases(s.lines) >= Governance.minimum_landed_outcome_cases
     /\ s.preferred = "candidate_ready_for_review"
     /\ ~Governance.auto_promote
  THEN "promote_candidate" ELSE "hold_current"

WriteDecision ==
  /\ summary # None
  /\ Begin("report")
  /\ decision' = [summary |-> summary, final |-> DecisionFromSummary(summary)]
  /\ reported' = FALSE
  /\ UNCHANGED <<runtime, held, lines, began, corpus, candidate, summary, halted>>

WriteReport ==
  /\ pc = "report"
  /\ reported' = TRUE
  /\ halted' = halted \ {"report"}
  /\ End
  /\ UNCHANGED <<runtime, corpus, candidate, summary, decision, runs>>

-----------------------------------------------------------------------------
(* The script raises or is stopped. *)
Stop ==
  /\ pc # "idle"
  /\ halted' = halted \cup ({pc} \cap {"evaluate", "report"})
  /\ End
  /\ UNCHANGED <<runtime, artifacts, runs>>

Init ==
  /\ LogInit
  /\ packets = {} /\ decisions = {}
  /\ auto \in BOOLEAN
  /\ pc = "idle" /\ held = {} /\ lines = 0 /\ began = 0
  /\ corpus = None /\ candidate = None /\ summary = None /\ decision = None /\ reported = FALSE
  /\ halted = {}
  /\ runs = 0

Service == \/ \E c \in Cases : StorePacket(c) \/ StoreDecision(c)
           \/ \E r \in Requests : LandOutcome(r)

Script == \/ BeginAssembly \/ ReadPackets \/ ReadDecisions \/ ReadOutcomes \/ WriteCorpus
          \/ LoadCorpus \/ TrainCandidate \/ WriteSummary
          \/ WriteDecision \/ WriteReport
          \/ Stop

Next == Service \/ Script

Spec == Init /\ [][Next]_vars

-----------------------------------------------------------------------------
(* Properties *)

Summaries == [lines : 0..Len(log), gain : Gains,
              preferred : {"candidate_ready_for_review", "candidate_hold"}]

Decisions == [summary : Summaries, final : {"promote_candidate", "hold_current"}]

Points == {"idle", "packets", "decisions", "outcomes", "corpus", "train", "evaluate", "report"}

(* Every variable keeps its type; what was read or trained on are lines of *)
(* the file.                                                               *)
TypeOK ==
  /\ log \in Seq(Requests) /\ answer \in [Requests -> Answers]
  /\ packets \subseteq Cases /\ decisions \subseteq packets
  /\ auto \in BOOLEAN /\ halted \subseteq {"evaluate", "report"}
  /\ pc \in Points /\ held \subseteq Cases
  /\ lines \in 0..Len(log) /\ began \in 0..Len(log)
  /\ corpus \in 0..Len(log) \cup {None} /\ candidate \in 0..Len(log) \cup {None}
  /\ summary \in Summaries \cup {None}
  /\ decision \in Decisions \cup {None} /\ reported \in BOOLEAN
  /\ runs \in 0..MaxRuns

Promoted == decision # None /\ decision.final = "promote_candidate"

(* However scripts, executions and admissions interleave, a candidate is   *)
(* promoted only on Minimum labelled lines whose packet and decision are   *)
(* stored, when it was no worse on any of the three metrics, and never     *)
(* with auto_promote set.                                                  *)
PromotionIsEarned ==
  Promoted =>
    LET n    == decision.summary.lines
        gain == decision.summary.gain
    IN  /\ Cardinality({k \in 1..n : /\ Content[log[k]].label # "unknown"
                                     /\ Content[log[k]].case \in packets \cap decisions}) >= Minimum
        /\ gain.severe_recall >= 0 /\ gain.brier_score <= 0 /\ gain.investigation_precision >= 0
        /\ ~auto

(* An assembled corpus has every labelled line there was when its assembly *)
(* began, each with a stored packet and decision, although the three files *)
(* are read one after another.                                             *)
CorpusIsWhole ==
  /\ pc = "corpus" => began <= lines
  /\ corpus # None => \A k \in Labelled(corpus) : Content[log[k]].case \in packets \cap decisions

(* A decision names the candidate by its path: the file there is the one   *)
(* the summary evaluated, unless a compare has trained another since and   *)
(* stopped before its summary.                                             *)
DecisionIsOfCandidate ==
  [][decision' # decision => candidate = summary.lines \/ "evaluate" \in halted]_vars

================================================================================
