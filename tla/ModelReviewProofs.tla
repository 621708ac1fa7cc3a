--------------------------- MODULE ModelReviewProofs ---------------------------
(***************************************************************************)
(* Proofs about ModelReview, for any outcomes and executions, any minimum, *)
(* and any number of script runs, stopped anywhere.                        *)
(*                                                                         *)
(* outcomes.jsonl only grows, so that what holds of its first n lines goes *)
(* on holding of them.  ReviewInv carries that from the assembly through   *)
(* the corpus, the summary and the decision.                               *)
(***************************************************************************)
EXTENDS ModelReview, TLAPS

(* The labelled of the first n lines name stored executions.               *)
Joined(n) == \A k \in Labelled(n) : Content[log[k]].case \in packets \cap decisions

(* What the assembly has read.                                             *)
AssemblyInv ==
  /\ pc = "decisions" => held \subseteq packets
  /\ pc = "outcomes" => held \subseteq packets \cap decisions
  /\ pc \in {"corpus", "train", "evaluate"} => Joined(lines)
  /\ pc = "corpus" => began <= lines
  /\ corpus # None => Joined(corpus)

(* What the decision rests on.                                             *)
ChainInv ==
  /\ pc = "evaluate" => candidate = lines
  /\ summary # None =>
       /\ Joined(summary.lines)
       /\ summary.preferred = ProvisionalDecision(summary.gain)
       /\ candidate = summary.lines \/ "evaluate" \in halted \cup {pc}
  /\ decision # None =>
       /\ Joined(decision.summary.lines)
       /\ decision.summary.preferred = ProvisionalDecision(decision.summary.gain)
       /\ decision.final = DecisionFromSummary(decision.summary)

ReviewInv == TypeOK /\ AssemblyInv /\ ChainInv

-----------------------------------------------------------------------------
(* The file only grows *)

LEMMA LogGrows ==
  ASSUME TypeOK, [Next]_vars
  PROVE  /\ log' \in Seq(Requests) /\ Len(log) \in Nat /\ Len(log') \in Nat /\ Len(log) <= Len(log')
         /\ \A k \in 1..Len(log) : log'[k] = log[k]
         /\ packets \subseteq packets' /\ decisions \subseteq decisions'
<1> USE DEF vars, runtime, script, artifacts, logVars
<1>1. log \in Seq(Requests)
  BY DEF TypeOK
<1>2. UNCHANGED log \/ \E r \in Requests : log' = Append(log, r)
  BY DEF Next, Service, Script, StorePacket, StoreDecision, LandOutcome, Land, BeginAssembly, ReadPackets,
         ReadDecisions, ReadOutcomes, WriteCorpus, LoadCorpus, TrainCandidate, WriteSummary,
         WriteDecision, WriteReport, Stop
<1>3. packets \subseteq packets' /\ decisions \subseteq decisions'
  BY DEF Next, Service, Script, StorePacket, StoreDecision, LandOutcome, BeginAssembly, ReadPackets,
         ReadDecisions, ReadOutcomes, WriteCorpus, LoadCorpus, TrainCandidate, WriteSummary,
         WriteDecision, WriteReport, Stop
<1> QED
  BY <1>1, <1>2, <1>3

LEMMA JoinedStays ==
  ASSUME TypeOK, [Next]_vars, NEW n \in 0..Len(log)
  PROVE  /\ Labelled(n)' = Labelled(n)
         /\ Joined(n) => Joined(n)'
<1>1. \A k \in 1..n : log'[k] = log[k]
  BY LogGrows
<1>2. Labelled(n)' = Labelled(n)
  BY <1>1 DEF Labelled
<1>3. \A k \in Labelled(n) : log'[k] = log[k]
  BY <1>1 DEF Labelled
<1> QED
  BY <1>2, <1>3, LogGrows DEF Joined

-----------------------------------------------------------------------------
(* Types *)

LEMMA ProvisionalType ==
  \A gain \in Gains : ProvisionalDecision(gain) \in {"candidate_ready_for_review", "candidate_hold"}
BY DEF ProvisionalDecision

LEMMA FinalType == \A s : DecisionFromSummary(s) \in {"promote_candidate", "hold_current"}
BY DEF DecisionFromSummary

LEMMA ReviewInit == Init => ReviewInv
<1> SUFFICES ASSUME Init PROVE ReviewInv
  OBVIOUS
<1>1. {auto, reported} \subseteq BOOLEAN
  BY Zenon DEF Init
<1>2. log \in Seq(Requests) /\ Len(log) = 0 /\ answer \in [Requests -> Answers]
  BY DEF Init, LogInit, Answers
<1>3. TypeOK
  BY <1>1, <1>2, ReviewAssumption DEF Init, TypeOK, Points
<1> QED
  BY <1>3 DEF Init, ReviewInv, AssemblyInv, ChainInv

(* What the scripts hold and write.                                        *)
Held == pc \in Points /\ held \subseteq Cases /\ lines \in 0..Len(log) /\ began \in 0..Len(log)

Written ==
  /\ corpus \in 0..Len(log) \cup {None} /\ candidate \in 0..Len(log) \cup {None}
  /\ summary \in Summaries \cup {None} /\ decision \in Decisions \cup {None}
  /\ reported \in BOOLEAN

LEMMA StepTypes == TypeOK /\ [Next]_vars => TypeOK'
<1> SUFFICES ASSUME TypeOK, [Next]_vars PROVE TypeOK'
  OBVIOUS
<1> USE DEF runtime, script, artifacts, logVars
<1>0. /\ log' \in Seq(Requests) /\ Len(log) \in Nat /\ Len(log') \in Nat /\ Len(log) <= Len(log')
      /\ \A n \in 0..Len(log) : n \in 0..Len(log')
  BY LogGrows
<1>1. answer' \in [Requests -> Answers] /\ packets' \subseteq Cases /\ decisions' \subseteq packets'
  BY DEF TypeOK, Next, vars, Service, Script, StorePacket, StoreDecision, LandOutcome, Land, BeginAssembly,
         ReadPackets, ReadDecisions, ReadOutcomes, WriteCorpus, LoadCorpus, TrainCandidate, WriteSummary,
         WriteDecision, WriteReport, Stop
<1>2. auto' \in BOOLEAN
  <2>1. auto' = auto
    BY DEF Next, vars, Service, Script, StorePacket, StoreDecision, LandOutcome, BeginAssembly,
           ReadPackets, ReadDecisions, ReadOutcomes, WriteCorpus, LoadCorpus, TrainCandidate, WriteSummary,
           WriteDecision, WriteReport, Stop
  <2> QED
    BY <2>1 DEF TypeOK
<1>3. halted' \subseteq {"evaluate", "report"}
  BY DEF TypeOK, Next, vars, Service, Script, StorePacket, StoreDecision, LandOutcome, BeginAssembly,
         ReadPackets, ReadDecisions, ReadOutcomes, WriteCorpus, LoadCorpus, TrainCandidate, WriteSummary,
         WriteDecision, WriteReport, Stop
<1>4. runs' \in 0..MaxRuns
  <2>1. runs' = runs \/ (runs < MaxRuns /\ runs' = runs + 1)
    BY DEF Next, vars, Service, Script, StorePacket, StoreDecision, LandOutcome, Begin, BeginAssembly,
           ReadPackets, ReadDecisions, ReadOutcomes, WriteCorpus, LoadCorpus, TrainCandidate, WriteSummary,
           WriteDecision, WriteReport, Stop
  <2> QED
    BY <2>1, ReviewAssumption DEF TypeOK
<1>5. Held'
  <2>1. CASE UNCHANGED script
    BY <1>0, <2>1 DEF TypeOK, Held
  <2>2. CASE End
    BY <1>0, <2>2 DEF End, Held, Points
  <2>3. CASE BeginAssembly \/ ReadPackets \/ ReadDecisions \/ ReadOutcomes
    BY <1>0, <2>2, <2>3 DEF BeginAssembly, Begin, ReadPackets, ReadDecisions, ReadOutcomes, TypeOK, Held, Points
  <2>4. CASE LoadCorpus \/ TrainCandidate \/ WriteDecision
    BY <1>0, <2>4 DEF LoadCorpus, TrainCandidate, WriteDecision, Begin, TypeOK, Held, Points
  <2> QED
    BY <2>1, <2>2, <2>3, <2>4 DEF Next, vars, Service, Script, StorePacket, StoreDecision, LandOutcome,
       WriteCorpus, WriteSummary, WriteReport, Stop
<1>6. Written'
  <2>1. Summaries \subseteq Summaries' /\ Decisions \subseteq Decisions'
    BY <1>0 DEF Summaries, Decisions
  <2>2. CASE UNCHANGED artifacts
    BY <1>0, <2>1, <2>2 DEF TypeOK, Written
  <2>3. CASE WriteCorpus \/ TrainCandidate
    BY <1>0, <2>1, <2>3 DEF WriteCorpus, TrainCandidate, TypeOK, Written
  <2>4. CASE WriteSummary
    <3>1. PICK gain \in Gains :
            summary' = [lines |-> lines, gain |-> gain, preferred |-> ProvisionalDecision(gain)]
      BY <2>4 DEF WriteSummary
    <3>2. summary' \in Summaries'
      BY <1>0, <3>1, ProvisionalType DEF Summaries, TypeOK
    <3> QED
      BY <1>0, <2>1, <2>4, <3>2 DEF WriteSummary, TypeOK, Written
  <2>5. CASE WriteDecision
    <3>1. summary \in Summaries /\ log' = log
      BY <2>5 DEF WriteDecision, TypeOK
    <3>2. decision' \in Decisions
      BY <2>5, <3>1, FinalType DEF WriteDecision, Decisions
    <3> QED
      BY <2>1, <2>5, <3>1, <3>2 DEF WriteDecision, TypeOK, Written
  <2>6. CASE WriteReport
    BY <1>0, <2>1, <2>6 DEF WriteReport, TypeOK, Written
  <2> QED
    BY <2>2, <2>3, <2>4, <2>5, <2>6 DEF Next, vars, Service, Script, StorePacket, StoreDecision, LandOutcome,
       BeginAssembly, ReadPackets, ReadDecisions, ReadOutcomes, LoadCorpus, Stop
<1> QED
  BY <1>0, <1>1, <1>2, <1>3, <1>4, <1>5, <1>6 DEF TypeOK, Held, Written

-----------------------------------------------------------------------------
(* The assembly *)

LEMMA StepAssembly == ReviewInv /\ [Next]_vars => AssemblyInv'
<1> SUFFICES ASSUME ReviewInv, [Next]_vars PROVE AssemblyInv'
  OBVIOUS
<1> USE DEF runtime, script, artifacts, logVars
<1>0. /\ TypeOK /\ AssemblyInv
      /\ packets \subseteq packets' /\ decisions \subseteq decisions'
  BY LogGrows DEF ReviewInv
<1>1. ASSUME NEW n \in 0..Len(log), Joined(n) PROVE Joined(n)'
  BY <1>0, <1>1, JoinedStays
<1>2. ASSUME corpus' = corpus PROVE corpus' # None => Joined(corpus)'
  <2>1. ASSUME corpus # None PROVE Joined(corpus)'
    <3>1. PICK n \in 0..Len(log) : n = corpus
      BY <1>0, <2>1 DEF TypeOK
    <3>2. Joined(n)'
      BY <1>0, <1>1, <2>1, <3>1 DEF AssemblyInv
    <3> QED
      BY <1>2, <3>1, <3>2 DEF Joined, Labelled
  <2> QED
    BY <1>2, <2>1
<1>3. ASSUME lines' = lines, pc \in {"corpus", "train", "evaluate"} PROVE Joined(lines)'
  <2>1. PICK n \in 0..Len(log) : n = lines
    BY <1>0 DEF TypeOK
  <2>2. Joined(n)'
    BY <1>0, <1>1, <1>3, <2>1 DEF AssemblyInv
  <2> QED
    BY <1>3, <2>1, <2>2 DEF Joined, Labelled
<1>4. CASE UNCHANGED <<script, corpus>>
  BY <1>0, <1>2, <1>3, <1>4 DEF AssemblyInv
<1>5. CASE End /\ UNCHANGED corpus
  BY <1>2, <1>5 DEF End, AssemblyInv
<1>6. CASE BeginAssembly \/ WriteDecision
  BY <1>2, <1>6 DEF BeginAssembly, WriteDecision, Begin, AssemblyInv
<1>7. CASE ReadPackets
  BY <1>0, <1>2, <1>7 DEF ReadPackets, AssemblyInv
<1>8. CASE ReadDecisions
  BY <1>0, <1>2, <1>8 DEF ReadDecisions, AssemblyInv
<1>9. CASE ReadOutcomes /\ pc' = "corpus"
  <2>1. /\ lines' = Len(log) /\ began' = began /\ UNCHANGED <<log, packets, decisions, corpus>>
        /\ pc = "outcomes" /\ \A k \in Labelled(Len(log)) : Content[log[k]].case \in held
    BY <1>9 DEF ReadOutcomes, End
  <2>2. held \subseteq packets \cap decisions /\ began <= Len(log)
    BY <1>0, <2>1 DEF AssemblyInv, TypeOK
  <2>3. Joined(lines)'
    BY <2>1, <2>2 DEF Joined, Labelled
  <2> QED
    BY <1>2, <1>9, <2>1, <2>2, <2>3 DEF AssemblyInv
<1>10. CASE ReadOutcomes /\ pc' # "corpus"
  BY <1>5, <1>10 DEF ReadOutcomes
<1>11. CASE WriteCorpus
  <2>1. pc = "corpus" /\ corpus' = lines /\ pc' = "idle" /\ UNCHANGED <<log, packets, decisions>>
    BY <1>11 DEF WriteCorpus, End
  <2>2. Joined(lines)
    BY <1>0, <2>1 DEF AssemblyInv
  <2>3. Joined(corpus)'
    BY <2>1, <2>2 DEF Joined, Labelled
  <2> QED
    BY <2>1, <2>3 DEF AssemblyInv
<1>12. CASE LoadCorpus
  <2>1. /\ corpus # None /\ lines' = corpus /\ pc' = "train"
        /\ UNCHANGED <<log, packets, decisions, corpus>>
    BY <1>12 DEF LoadCorpus, Begin
  <2>2. Joined(lines)'
    BY <1>0, <2>1 DEF AssemblyInv, Joined, Labelled
  <2> QED
    BY <1>2, <2>1, <2>2 DEF AssemblyInv
<1>13. CASE TrainCandidate
  BY <1>0, <1>2, <1>3, <1>13 DEF TrainCandidate, AssemblyInv
<1> QED
  BY <1>4, <1>5, <1>6, <1>7, <1>8, <1>9, <1>10, <1>11, <1>12, <1>13
     DEF Next, vars, Service, Script, StorePacket, StoreDecision, LandOutcome, WriteSummary, WriteReport, Stop

-----------------------------------------------------------------------------
(* From the candidate to the decision *)

LEMMA StepChain == ReviewInv /\ [Next]_vars => ChainInv'
<1> SUFFICES ASSUME ReviewInv, [Next]_vars PROVE ChainInv'
  OBVIOUS
<1> USE DEF runtime, script, artifacts, logVars
<1>0. TypeOK /\ AssemblyInv /\ ChainInv
  BY DEF ReviewInv
<1>1. \A n \in 0..Len(log) : /\ Labelled(n)' = Labelled(n)
                             /\ Joined(n) => Joined(n)'
  BY <1>0, JoinedStays
<1>2. auto' = auto
  BY DEF Next, vars, Service, Script, StorePacket, StoreDecision, LandOutcome, BeginAssembly, ReadPackets,
         ReadDecisions, ReadOutcomes, WriteCorpus, LoadCorpus, TrainCandidate, WriteSummary,
         WriteDecision, WriteReport, Stop
<1>3. ASSUME NEW s \in Summaries, Joined(s.lines)
      PROVE  Joined(s.lines)' /\ DecisionFromSummary(s)' = DecisionFromSummary(s)
  <2>1. PICK n \in 0..Len(log) : n = s.lines
    BY DEF Summaries
  <2>2. Labelled(n)' = Labelled(n) /\ Joined(n)'
    BY <1>1, <1>3, <2>1
  <2>3. LandedCases(s.lines)' = LandedCases(s.lines)
    BY <2>1, <2>2 DEF LandedCases
  <2> QED
    BY <1>2, <2>1, <2>2, <2>3 DEF DecisionFromSummary, Governance
<1>4. ASSUME decision' = decision, decision # None
      PROVE  /\ Joined(decision.summary.lines)'
             /\ decision'.summary.preferred = ProvisionalDecision(decision'.summary.gain)
             /\ decision'.final = DecisionFromSummary(decision.summary)'
  <2>1. PICK d \in Decisions : d = decision
    BY <1>0, <1>4 DEF TypeOK
  <2>2. d.summary \in Summaries /\ Joined(d.summary.lines)
    BY <1>0, <1>4, <2>1 DEF Decisions, ChainInv
  <2>3. Joined(d.summary.lines)' /\ DecisionFromSummary(d.summary)' = DecisionFromSummary(d.summary)
    BY <1>3, <2>2
  <2>4. d = decision'
    BY <1>4, <2>1
  <2>5. Joined(decision.summary.lines)'
    BY <2>3, <2>4
  <2>6. DecisionFromSummary(decision.summary)' = DecisionFromSummary(d.summary)
    BY <2>3, <2>4
  <2> QED
    BY <1>0, <1>4, <2>1, <2>4, <2>5, <2>6 DEF ChainInv
<1>5. ASSUME summary' = summary, summary # None
      PROVE  Joined(summary.lines)' /\ summary'.preferred = ProvisionalDecision(summary'.gain)
  <2>1. PICK s \in Summaries : s = summary
    BY <1>0, <1>5 DEF TypeOK
  <2>2. Joined(s.lines)'
    BY <1>0, <1>3, <1>5, <2>1 DEF ChainInv
  <2>3. s = summary'
    BY <1>5, <2>1
  <2>4. Joined(summary.lines)'
    BY <2>2, <2>3
  <2> QED
    BY <1>0, <1>5, <2>4 DEF ChainInv
<1>6. CASE UNCHANGED <<pc, lines, candidate, summary, decision, halted>>
  BY <1>0, <1>4, <1>5, <1>6 DEF ChainInv
<1>7. CASE /\ UNCHANGED <<candidate, summary, decision>> /\ pc' # "evaluate"
           /\ "evaluate" \in halted \cup {pc} => "evaluate" \in halted'
  BY <1>0, <1>4, <1>5, <1>7 DEF ChainInv
<1>8. CASE TrainCandidate
  BY <1>0, <1>4, <1>5, <1>8 DEF TrainCandidate, ChainInv
<1>9. CASE WriteSummary
  <2>1. /\ pc = "evaluate" /\ pc' = "idle" /\ candidate' = candidate /\ decision' = decision
        /\ UNCHANGED <<log, packets, decisions>>
    BY <1>9 DEF WriteSummary, End
  <2>2. PICK gain \in Gains :
          summary' = [lines |-> lines, gain |-> gain, preferred |-> ProvisionalDecision(gain)]
    BY <1>9 DEF WriteSummary
  <2>3. candidate = lines /\ Joined(lines)
    BY <1>0, <2>1 DEF ChainInv, AssemblyInv
  <2>4. Joined(summary.lines)'
    BY <2>1, <2>2, <2>3 DEF Joined, Labelled
  <2>5. /\ summary'.preferred = ProvisionalDecision(summary'.gain)
        /\ candidate' = summary'.lines
    BY <2>1, <2>2, <2>3
  <2> QED
    BY <1>4, <2>1, <2>4, <2>5 DEF ChainInv
<1>10. CASE WriteDecision
  <2>1. /\ summary # None /\ decision' = [summary |-> summary, final |-> DecisionFromSummary(summary)]
        /\ UNCHANGED <<log, packets, decisions, auto, candidate, summary, halted>>
        /\ pc = "idle" /\ pc' = "report"
    BY <1>10 DEF WriteDecision, Begin
  <2>2. summary \in Summaries
    BY <1>0, <2>1 DEF TypeOK
  <2>3. /\ decision'.summary = summary /\ decision'.final = DecisionFromSummary(summary)
    BY <2>1
  <2>4. /\ Joined(summary.lines) /\ summary.preferred = ProvisionalDecision(summary.gain)
        /\ candidate = summary.lines \/ "evaluate" \in halted
    BY <1>0, <2>1 DEF ChainInv
  <2>5. DecisionFromSummary(decision.summary)' = DecisionFromSummary(summary)
    BY <2>1, <2>3 DEF DecisionFromSummary, LandedCases, Labelled, Governance
  <2>6. Joined(decision.summary.lines)' /\ Joined(summary.lines)'
    BY <2>1, <2>3, <2>4 DEF Joined, Labelled
  <2> QED
    BY <2>1, <2>3, <2>4, <2>5, <2>6 DEF ChainInv
<1>11. CASE Stop
  BY <1>7, <1>11 DEF Stop, End
<1>12. CASE WriteReport
  BY <1>0, <1>7, <1>12 DEF WriteReport, End
<1>13. CASE BeginAssembly \/ ReadPackets \/ ReadDecisions \/ ReadOutcomes \/ WriteCorpus \/ LoadCorpus
  BY <1>7, <1>13 DEF BeginAssembly, ReadPackets, ReadDecisions, ReadOutcomes, WriteCorpus, LoadCorpus, Begin, End
<1> QED
  BY <1>6, <1>8, <1>9, <1>10, <1>11, <1>12, <1>13
     DEF Next, vars, Service, Script, StorePacket, StoreDecision, LandOutcome

-----------------------------------------------------------------------------
(* Theorems *)

LEMMA ReviewInvariant == Spec => []ReviewInv
<1>1. ReviewInv /\ [Next]_vars => ReviewInv'
  BY StepTypes, StepAssembly, StepChain DEF ReviewInv
<1> QED
  BY ReviewInit, <1>1, PTL DEF Spec

(* The variables keep their types; what was read, trained on or decided    *)
(* upon are lines of the file.                                             *)
THEOREM ReviewTypes == Spec => []TypeOK
<1>1. ReviewInv => TypeOK
  BY DEF ReviewInv
<1> QED
  BY ReviewInvariant, <1>1, PTL

(* For any minimum, outcomes and interruptions: a promotion rests on that  *)
(* many labelled lines of stored executions, and on metrics no worse       *)
(* (_decision_from_summary, _provisional_decision).                        *)
THEOREM ReviewPromotionIsEarned == Spec => []PromotionIsEarned
<1>1. ReviewInv => PromotionIsEarned
  <2> SUFFICES ASSUME ReviewInv, Promoted PROVE PromotionIsEarned
    BY DEF PromotionIsEarned
  <2> DEFINE n == decision.summary.lines
             gain == decision.summary.gain
  <2>1. /\ Joined(n) /\ decision.summary.preferred = ProvisionalDecision(gain)
        /\ DecisionFromSummary(decision.summary) = "promote_candidate"
    BY DEF ReviewInv, ChainInv, Promoted
  <2>2. LandedCases(n) >= Minimum /\ ~auto /\ ProvisionalDecision(gain) = "candidate_ready_for_review"
    BY <2>1 DEF DecisionFromSummary, Governance
  <2>3. gain.severe_recall >= 0 /\ gain.brier_score <= 0 /\ gain.investigation_precision >= 0
    BY <2>2 DEF ProvisionalDecision
  <2>4. {k \in 1..n : /\ Content[log[k]].label # "unknown"
                      /\ Content[log[k]].case \in packets \cap decisions} = Labelled(n)
    BY <2>1 DEF Joined, Labelled
  <2> QED
    BY <2>2, <2>3, <2>4 DEF PromotionIsEarned, LandedCases
<1> QED
  BY ReviewInvariant, <1>1, PTL

(* A corpus lacks no labelled line there was when its assembly began, and  *)
(* each of its lines has a stored packet and decision                      *)
(* (assemble_feedback_compare_corpus).                                     *)
THEOREM ReviewCorpusIsWhole == Spec => []CorpusIsWhole
<1>1. ReviewInv => CorpusIsWhole
  BY DEF ReviewInv, AssemblyInv, CorpusIsWhole, Joined
<1> QED
  BY ReviewInvariant, <1>1, PTL

(* The file a decision names is the candidate its summary evaluated,       *)
(* unless a compare stopped between the two (run_feedback_promotion_review)*)
THEOREM ReviewDecisionIsOfCandidate == Spec => DecisionIsOfCandidate
<1>1. ReviewInv /\ [Next]_vars => [decision' # decision => candidate = summary.lines \/ "evaluate" \in halted]_vars
  <2> SUFFICES ASSUME ReviewInv, [Next]_vars, decision' # decision
               PROVE  candidate = summary.lines \/ "evaluate" \in halted
    OBVIOUS
  <2>1. WriteDecision
    BY DEF Next, vars, runtime, script, artifacts, Service, Script, StorePacket, StoreDecision, LandOutcome,
           BeginAssembly, ReadPackets, ReadDecisions, ReadOutcomes, WriteCorpus, LoadCorpus, TrainCandidate,
           WriteSummary, WriteReport, Stop
  <2>2. summary # None /\ pc = "idle"
    BY <2>1 DEF WriteDecision, Begin
  <2> QED
    BY <2>2 DEF ReviewInv, ChainInv
<1> QED
  BY ReviewInvariant, <1>1, PTL DEF Spec, DecisionIsOfCandidate
================================================================================
