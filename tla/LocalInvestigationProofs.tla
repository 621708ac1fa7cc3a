------------------------ MODULE LocalInvestigationProofs ------------------------
(* Theorems about LocalInvestigation, for any packets, decisions, budgets  *)
(* and answers of backends and models, and any number of investigations.   *)
EXTENDS LocalInvestigation, SequenceTheorems, TLAPS

-----------------------------------------------------------------------------
(* The budget *)

(* The session counts what was asked of the backends. *)
BudgetInv ==
  /\ budget \in Budgets
  /\ spent \in Nat /\ asked = spent
  /\ BudgetIsOwn

LEMMA InitBudget == Init => BudgetInv
BY BudgetsAssumption DEF Init, BudgetInv, BudgetIsOwn

(* What Fail leaves alone matters here, not what it answers. *)
LEMMA StepBudget == BudgetInv /\ [Next]_vars => BudgetInv'
<1> SUFFICES ASSUME BudgetInv, [Next]_vars PROVE BudgetInv'
  OBVIOUS
<1> USE BudgetsAssumption DEF BudgetInv, BudgetIsOwn, given, session
<1>1. CASE UNCHANGED vars
  BY <1>1 DEF vars
<1>2. CASE Start
  BY <1>2 DEF Start, StartWith
<1>3. CASE Refuse
  BY <1>3 DEF Refuse
<1>4. CASE CallFails \/ CallAnswers
  BY <1>4 DEF CallFails, CallAnswers, Ask
<1>5. ASSUME UNCHANGED <<given, session>> PROVE BudgetInv'
  BY <1>5
<1>6. CASE Conclude \/ AskAdapter \/ NotReady \/ PlanCloud \/ Handoff \/ AskCloud
  <2>1. UNCHANGED <<given, session>>
    BY <1>6, Zenon DEF Conclude, AskAdapter, NotReady, PlanCloud, Handoff, AskCloud
  <2> QED
    BY <1>5, <2>1
<1> QED
  BY <1>1, <1>2, <1>3, <1>4, <1>6 DEF Next

(* No investigation asks for more than its budget, and none is refused a   *)
(* call another one used up.                                               *)
THEOREM LocalBudgetIsOwn == Spec => []BudgetIsOwn
<1>1. BudgetInv => BudgetIsOwn
  BY DEF BudgetInv
<1> QED
  BY <1>1, InitBudget, StepBudget, PTL DEF Spec

-----------------------------------------------------------------------------
(* Types *)

(* What is found and read so far, and the rest of an investigation, are as *)
(* the results need them.                                                  *)
FoundOK ==
  /\ found \in [traces : SUBSET LiveTraces, logs : SUBSET LogIds, long : BOOLEAN \cup {None}]
  /\ place = "local" => local = None /\ final = None /\ ~raised
  /\ final # None \/ raised => place = "idle"

TypeInv == TypeOK /\ FoundOK

LEMMA SmallerFacts ==
  ASSUME NEW a \in Nat, NEW b \in Nat
  PROVE  Smaller(a, b) \in Nat /\ Smaller(a, b) <= a /\ Smaller(a, b) <= b
BY DEF Smaller

LEMMA CutFacts ==
  ASSUME NEW S, NEW s \in Seq(S), NEW n \in Nat
  PROVE  /\ Cut(s, n) \in Seq(S)
         /\ Len(Cut(s, n)) = Smaller(n, Len(s))
         /\ \A k \in 1..Len(Cut(s, n)) : k \in 1..Len(s) /\ Cut(s, n)[k] = s[k]
         /\ Range(Cut(s, n)) \subseteq Range(s)
<1> DEFINE m == Smaller(n, Len(s))
<1>1. m \in 0..Len(s)
  BY DEF Smaller
<1>2. /\ Cut(s, n) \in Seq(S) /\ Len(Cut(s, n)) = m
      /\ \A k \in 1..m : Cut(s, n)[k] = s[k]
  BY <1>1 DEF Cut
<1>3. DOMAIN Cut(s, n) = 1..m /\ DOMAIN s = 1..Len(s) /\ 1..m \subseteq 1..Len(s)
  BY <1>1, <1>2
<1>4. Range(Cut(s, n)) \subseteq Range(s)
  BY <1>2, <1>3 DEF Range
<1> QED
  BY <1>2, <1>3, <1>4

(* Rows are identified by themselves or by their place among the first two.*)
LEMMA LogRefsType ==
  ASSUME NEW rows \in LogRows, NEW n \in Nat
  PROVE  LogRefs(Cut(rows, Smaller(2, n))) \subseteq LogIds
<1> DEFINE kept == Cut(rows, Smaller(2, n))
<1>1. rows \in Seq(Range(rows)) /\ Smaller(2, n) \in 0..2
  BY LogRowsAssumption DEF AreRows, Smaller
<1>2. /\ kept \in Seq(Range(rows)) /\ Len(kept) \in 0..2
      /\ \A k \in 1..Len(kept) : k \in 1..Len(rows) /\ kept[k] = rows[k]
  <2>1. /\ kept \in Seq(Range(rows)) /\ Len(kept) = Smaller(Smaller(2, n), Len(rows))
        /\ \A k \in 1..Len(kept) : k \in 1..Len(rows) /\ kept[k] = rows[k]
    BY <1>1, CutFacts
  <2>2. Smaller(Smaller(2, n), Len(rows)) \in 0..2
    <3>1. Len(rows) \in Nat /\ Smaller(2, n) \in Nat /\ Smaller(2, n) <= 2
      BY <1>1
    <3>2. /\ Smaller(Smaller(2, n), Len(rows)) \in Nat
          /\ Smaller(Smaller(2, n), Len(rows)) <= Smaller(2, n)
      BY <3>1, SmallerFacts
    <3> QED
      BY <3>1, <3>2
  <2> QED
    BY <2>1, <2>2
<1> HIDE DEF kept
<1>3. ASSUME NEW k \in DOMAIN kept PROVE LogRef(kept, k) \in LogIds
  <2>0. DOMAIN kept = 1..Len(kept)
    BY <1>2
  <2>1. k \in {1, 2} /\ kept[k] \in Range(rows)
    BY <1>2, <1>3, <2>0, ElementOfSeq
  <2>2. CASE kept[k].id = None
    <3>1. LogRef(kept, k) = <<"index", k>>
      BY <2>2 DEF LogRef
    <3>2. <<"index", k>> \in PlaceIds
      BY <2>1 DEF PlaceIds
    <3> QED
      BY <3>1, <3>2 DEF LogIds
  <2>3. CASE kept[k].id # None
    <3>1. LogRef(kept, k) = <<"row", kept[k].id>>
      BY <2>3 DEF LogRef
    <3>2. Range(rows) \in {Range(answer) : answer \in LogRows}
      OBVIOUS
    <3>3. kept[k] \in Rows
      BY <2>1, <3>2 DEF Rows
    <3>4. <<"row", kept[k].id>> \in RowIds
      BY <3>3 DEF RowIds
    <3> QED
      BY <3>1, <3>4 DEF LogIds
  <2> QED
    BY <2>2, <2>3
<1>4. LogRefs(kept) \subseteq LogIds
  BY <1>3 DEF LogRefs
<1> QED
  BY <1>4 DEF kept

LEMMA GivenTypes ==
  ASSUME TypeOK
  PROVE  /\ packet.traces \in Seq(Range(packet.traces)) /\ packet.logs \in Seq(Range(packet.logs))
         /\ packet.repos \in BOOLEAN /\ packet.long \in BOOLEAN
         /\ decision.confidence \in 0..67 /\ decision.action \in Actions
         /\ budget.max_tool_calls \in Nat /\ budget.max_trace_refs \in Nat /\ budget.max_log_refs \in Nat
<1>1. packet \in Packets /\ decision \in Decisions /\ budget \in Budgets
  BY DEF TypeOK
<1>2. IsPacket(packet)
  BY <1>1, PacketsAssumption
<1>3. decision \in [confidence : 0..67, action : Actions]
  BY <1>1, DecisionsAssumption
<1>4. budget \in [max_tool_calls : Nat \ {0}, max_trace_refs : Nat, max_log_refs : Nat]
  BY <1>1, BudgetsAssumption
<1> QED
  BY <1>2, <1>3, <1>4 DEF IsPacket

LEMMA RequestTypes ==
  ASSUME TypeOK
  PROVE  /\ Range(packet.traces) \subseteq TraceIds
         /\ Range(RequestTraces) \subseteq Range(packet.traces)
         /\ Range(RequestLogs) \subseteq LogIds
<1>1. packet \in Packets
  BY DEF TypeOK
<1>2. Range(packet.traces) \in {Range(p.traces) : p \in Packets} /\ Range(packet.logs) \in {Range(p.logs) : p \in Packets}
  BY <1>1
<1>3. Range(packet.traces) \subseteq TraceIds /\ Range(packet.logs) \subseteq LogIds
  BY <1>2 DEF TraceIds, LogIds
<1>4. Range(RequestTraces) \subseteq Range(packet.traces) /\ Range(RequestLogs) \subseteq Range(packet.logs)
  BY GivenTypes, CutFacts DEF RequestTraces, RequestLogs
<1> QED
  BY <1>3, <1>4

LEMMA ReviewIsAction == Review \in Actions
BY ActionsAssumption DEF Review

LEMMA DegradedType == ASSUME TypeOK, NEW long \in BOOLEAN PROVE Degraded(long) \in Result
<1>1. <<decision.confidence>> \in Seq(0..100) /\ decision.confidence \in 0..100
  BY GivenTypes
<1> QED
  BY <1>1, GivenTypes, RequestTypes, ReviewIsAction DEF Degraded, Result

(* The confidence of the local follow-up, and that of its other causes.    *)
LEMMA ConfidenceType ==
  ASSUME TypeOK, NEW bonus \in Nat
  PROVE  Confidence(bonus) \in 0..100
<1>1. decision.confidence \in 0..67
  BY GivenTypes
<1>2. decision.confidence + bonus \in Nat
  BY <1>1
<1> QED
  BY <1>2 DEF Confidence, Smaller

LEMMA PriorType ==
  ASSUME NEW floor \in 0..100, NEW confidence \in 0..100, NEW gap \in Nat
  PROVE  Prior(floor, confidence, gap) \in Seq(0..100)
<1>1. Larger(floor, confidence - gap) \in 0..100
  BY DEF Larger
<1> QED
  BY <1>1 DEF Prior

LEMMA CauseType == ASSUME TypeInv PROVE Cause \in BOOLEAN
<1>1. found.long \in BOOLEAN \cup {None}
  BY DEF TypeInv, FoundOK
<1> QED
  BY <1>1, GivenTypes DEF TypeInv, Cause

LEMMA LegacyType == ASSUME TypeInv PROVE LegacyResult \in Result
<1> DEFINE c == Confidence(14)
           causes == <<Smaller(95, c)>>
                     \o (IF packet.deploy THEN Prior(40, c, 18) ELSE <<>>)
                     \o (IF packet.prior THEN Prior(35, c, 22) ELSE <<>>)
<1>1. c \in 0..100
  BY ConfidenceType DEF TypeInv
<1>2. causes \in Seq(0..100)
  <2>1. Smaller(95, c) \in 0..100
    BY <1>1 DEF Smaller
  <2>2. Prior(40, c, 18) \in Seq(0..100) /\ Prior(35, c, 22) \in Seq(0..100)
    <3>1. {40, 35} \subseteq 0..100 /\ {18, 22} \subseteq Nat
      OBVIOUS
    <3> QED
      BY <1>1, <3>1, PriorType
  <2> QED
    BY <2>1, <2>2
<1>3. found.traces \subseteq TraceIds /\ found.logs \subseteq LogIds
  BY DEF TypeInv, FoundOK, TraceIds
<1>4. Cause \in BOOLEAN /\ packet.repos \in BOOLEAN /\ decision.action \in Actions
      /\ Range(RequestTraces) \subseteq TraceIds
  BY CauseType, GivenTypes, RequestTypes DEF TypeInv
<1>5. LegacyResult =
        [tier |-> "local", action |-> decision.action, changed |-> FALSE, confidence |-> c,
         hypotheses |-> causes, unknowns |-> TRUE, traces |-> Range(RequestTraces) \cup found.traces,
         logs |-> found.logs, code |-> TRUE, repos |-> packet.repos, long |-> Cause, degraded |-> FALSE,
         handoff |-> FALSE]
  BY DEF LegacyResult
<1> HIDE DEF c, causes
<1> QED
  BY <1>1, <1>2, <1>3, <1>4, <1>5 DEF Result

LEMMA SignozFirstType == ASSUME TypeInv PROVE SignozFirstResult \in Result
<1> DEFINE c == Confidence(18 + (IF packet.hints THEN 12 ELSE 0) + (IF RequestTraces # <<>> THEN 5 ELSE 0))
           causes == <<Smaller(95, c + 6)>> \o (IF packet.prior THEN Prior(35, c, 22) ELSE <<>>)
<1>1. c \in 0..100
  <2>1. 18 + (IF packet.hints THEN 12 ELSE 0) + (IF RequestTraces # <<>> THEN 5 ELSE 0) \in Nat
    OBVIOUS
  <2> QED
    BY <2>1, ConfidenceType DEF TypeInv
<1> HIDE DEF c
<1>2. causes \in Seq(0..100)
  <2>1. Smaller(95, c + 6) \in 0..100
    BY <1>1 DEF Smaller
  <2>2. Prior(35, c, 22) \in Seq(0..100)
    <3>1. {40, 35} \subseteq 0..100 /\ {18, 22} \subseteq Nat
      OBVIOUS
    <3> QED
      BY <1>1, <3>1, PriorType
  <2> QED
    BY <2>1, <2>2
<1>3. found.logs \subseteq LogIds
  BY DEF TypeInv, FoundOK
<1>4. Cause \in BOOLEAN /\ packet.repos \in BOOLEAN /\ decision.action \in Actions
      /\ Range(RequestTraces) \subseteq TraceIds /\ Range(RequestLogs) \subseteq LogIds
  BY CauseType, GivenTypes, RequestTypes DEF TypeInv
<1> USE DEF c
<1>5. SignozFirstResult =
        [tier |-> "local", action |-> decision.action, changed |-> FALSE, confidence |-> c,
         hypotheses |-> causes, unknowns |-> TRUE, traces |-> Range(RequestTraces),
         logs |-> Range(RequestLogs) \cup found.logs, code |-> TRUE, repos |-> packet.repos, long |-> Cause,
         degraded |-> FALSE, handoff |-> FALSE]
  BY DEF SignozFirstResult
<1> HIDE DEF c, causes
<1> QED
  BY <1>1, <1>2, <1>3, <1>4, <1>5 DEF Result

LEMMA AdapterType == ASSUME TypeInv, NEW r \in Responses PROVE AdapterResult(r) \in Result
<1>1. IsResponse(r)
  BY ResponsesAssumption
<1>2. /\ (IF r.action = None THEN decision.action ELSE r.action) \in Actions \cup {"undeclared"}
      /\ (IF r.confidence = None THEN decision.confidence ELSE r.confidence) \in 0..100
      /\ (IF r.hypotheses = <<>> THEN <<50>> ELSE r.hypotheses) \in Seq(0..100)
  <2>1. decision.action \in Actions /\ decision.confidence \in 0..100 /\ <<50>> \in Seq(0..100)
    BY GivenTypes DEF TypeInv
  <2> QED
    BY <1>1, <2>1 DEF IsResponse
<1>3. /\ r.unknowns \in BOOLEAN /\ r.changed \in BOOLEAN /\ r.bare \in BOOLEAN
      /\ (IF r.long = None THEN packet.long ELSE r.long) \in BOOLEAN
  BY <1>1, GivenTypes DEF IsResponse, TypeInv
<1>4. packet.repos \in BOOLEAN /\ Range(RequestTraces) \subseteq TraceIds /\ Range(RequestLogs) \subseteq LogIds
  BY GivenTypes, RequestTypes DEF TypeInv
<1> QED
  BY <1>2, <1>3, <1>4 DEF AdapterResult, Result

LEMMA CloudType ==
  ASSUME local \in Result, NEW action \in Actions \cup {"undeclared"}, NEW confidence \in 0..100,
         NEW unknowns \in BOOLEAN
  PROVE  CloudResult(action, confidence, unknowns) \in Result
<1> DEFINE half == [local EXCEPT !.tier = "cloud", !.action = action, !.confidence = confidence]
<1>1. half \in Result
  BY DEF Result
<1>2. CloudResult(action, confidence, unknowns) =
        [half EXCEPT !.unknowns = unknowns, !.changed = action # decision.action, !.handoff = TRUE]
  BY DEF CloudResult
<1> HIDE DEF half
<1> QED
  BY <1>1, <1>2 DEF Result

LEMMA UnavailableType == ASSUME local \in Result PROVE Unavailable \in Result
<1> DEFINE half == [local EXCEPT !.action = Review, !.changed = local.action # Review]
<1>1. half \in Result
  BY ReviewIsAction DEF Result
<1>2. Unavailable = [half EXCEPT !.unknowns = TRUE, !.handoff = TRUE]
  BY DEF Unavailable
<1> HIDE DEF half
<1> QED
  BY <1>1, <1>2 DEF Result

LEMMA NothingType == Nothing \in [traces : SUBSET LiveTraces, logs : SUBSET LogIds, long : BOOLEAN \cup {None}]
BY DEF Nothing

LEMMA InitTypeInv == Init => TypeInv
<1> SUFFICES ASSUME Init PROVE TypeInv
  OBVIOUS
<1>1. TypeOK
  <2>1. {refused, raised} \subseteq BOOLEAN
    BY Zenon DEF Init
  <2> QED
    BY <2>1 DEF Init, TypeOK
<1>2. FoundOK
  BY NothingType DEF Init, FoundOK
<1> QED
  BY <1>1, <1>2 DEF TypeInv

(* A call that fails is skipped, or degrades the investigation.            *)
LEMMA FailFacts ==
  ASSUME NEW long, Fail(long), place = "local"
  PROVE  /\ raised' = raised
         /\ \/ place' = "local" /\ local' = local
            \/ place' = "plan" /\ local' = Degraded(long)
<1>1. CASE Tolerated(Head(rest))
  <2>1. UNCHANGED <<place, local, raised>>
    BY <1>1 DEF Fail
  <2> QED
    BY <2>1
<1>2. CASE ~Tolerated(Head(rest))
  BY <1>2 DEF Fail, Answer
<1> QED
  BY <1>1, <1>2

(* What an answered call adds to what was found. *)
LEMMA FoundType ==
  ASSUME TypeInv, CallAnswers
  PROVE  found' \in [traces : SUBSET LiveTraces, logs : SUBSET LogIds, long : BOOLEAN \cup {None}]
<1>0. found \in [traces : SUBSET LiveTraces, logs : SUBSET LogIds, long : BOOLEAN \cup {None}]
  BY DEF TypeInv, FoundOK
<1>1. ASSUME NEW rows \in LogRows, found' = TakeLogs(Cut(rows, Smaller(2, budget.max_log_refs)))
      PROVE  found' \in [traces : SUBSET LiveTraces, logs : SUBSET LogIds, long : BOOLEAN \cup {None}]
  <2> DEFINE kept == Cut(rows, Smaller(2, budget.max_log_refs))
  <2>1. budget.max_log_refs \in Nat
    BY GivenTypes DEF TypeInv
  <2>2. LogRefs(kept) \subseteq LogIds
    BY <2>1, LogRefsType
  <2>3. rows \in Seq(Range(rows)) /\ \A r \in Range(rows) : r.long \in BOOLEAN
    BY LogRowsAssumption DEF AreRows
  <2>4. Smaller(2, budget.max_log_refs) \in Nat
    BY <2>1, SmallerFacts
  <2>5. kept \in Seq(Range(rows))
    BY <2>3, <2>4, CutFacts
  <2> HIDE DEF kept
  <2>6. kept # <<>> => kept[1].long \in BOOLEAN
    BY <2>3, <2>5
  <2>7. found' = TakeLogs(kept)
    BY <1>1 DEF kept
  <2> QED
    BY <1>0, <2>2, <2>6, <2>7 DEF TakeLogs
<1>2. ASSUME NEW ids \in SUBSET LiveTraces, found' = [found EXCEPT !.traces = ids]
      PROVE  found' \in [traces : SUBSET LiveTraces, logs : SUBSET LogIds, long : BOOLEAN \cup {None}]
  BY <1>0, <1>2
<1> QED
  BY <1>0, <1>1, <1>2 DEF CallAnswers

LEMMA StepTypeInv == TypeInv /\ [Next]_vars => TypeInv'
<1> SUFFICES ASSUME TypeInv, [Next]_vars PROVE TypeInv'
  OBVIOUS
<1> USE DEF TypeOK, FoundOK, given, session
<1>0. TypeOK /\ FoundOK
  BY DEF TypeInv
<1>1. CASE UNCHANGED vars
  BY <1>0, <1>1 DEF vars, TypeInv
<1>2. CASE Start
  <2>1. /\ place' = "local" /\ spent' = 0 /\ asked' = 0 /\ refused' = FALSE /\ found' = Nothing
        /\ local' = None /\ final' = None /\ raised' = FALSE /\ budget' = budget
        /\ packet' \in Packets /\ decision' \in Decisions /\ providers' \in Providers
    BY <1>2 DEF Start, StartWith
  <2>2. {refused', raised'} \subseteq BOOLEAN
    BY <2>1, Zenon
  <2> QED
    BY <1>0, <2>1, <2>2, NothingType DEF TypeInv
<1>3. CASE Refuse
  <2>1. /\ raised' = raised
        /\ \/ place' = "local" /\ local' = local
           \/ place' = "plan" /\ local' = Degraded(FALSE)
    BY <1>3, FailFacts DEF Refuse
  <2> QED
    BY <1>0, <1>3, <2>1, DegradedType, LocalNoneAssumption DEF Refuse, TypeInv
<1>4. CASE CallFails
  <2>1. PICK long \in BOOLEAN :
          /\ raised' = raised
          /\ \/ place' = "local" /\ local' = local
             \/ place' = "plan" /\ local' = Degraded(long)
    BY <1>4, FailFacts DEF CallFails, Ask
  <2>2. asked' \in Nat /\ spent' \in Nat
    BY <1>0, <1>4 DEF CallFails, Ask
  <2> QED
    BY <1>0, <1>4, <2>1, <2>2, DegradedType, LocalNoneAssumption DEF CallFails, Ask, TypeInv
<1>5. CASE CallAnswers
  <2>1. asked' \in Nat /\ spent' \in Nat
    BY <1>0, <1>5 DEF CallAnswers, Ask
  <2>2. UNCHANGED <<given, refused, final, place, local, raised>>
    BY <1>5 DEF CallAnswers, Ask
  <2> QED
    BY <1>0, <1>5, <2>1, <2>2, FoundType DEF TypeInv
<1>6. CASE Conclude
  <2>1. local' \in Result
    BY <1>6, LegacyType, SignozFirstType DEF Conclude, Answer
  <2> QED
    BY <1>0, <1>6, <2>1, LocalNoneAssumption DEF Conclude, Answer, TypeInv
<1>7. CASE AskAdapter
  <2>1. local' \in Result /\ place' = "plan"
    BY <1>0, <1>7, DegradedType, AdapterType DEF AskAdapter, Answer
  <2> QED
    BY <1>0, <1>7, <2>1, LocalNoneAssumption DEF AskAdapter, TypeInv
<1>8. CASE NotReady
  BY <1>0, <1>8, DegradedType, LocalNoneAssumption DEF NotReady, TypeInv
<1>9. CASE PlanCloud
  <2>1. local \in Result /\ final = None /\ ~raised
    BY <1>0, <1>9 DEF PlanCloud
  <2>2. \/ place' = "handoff" /\ final' = final
        \/ place' = "idle" /\ final' = local
    BY <1>9 DEF PlanCloud, Finish
  <2> QED
    BY <1>0, <1>9, <2>1, <2>2 DEF PlanCloud, TypeInv
<1>10. CASE Handoff
  <2>1. \/ place' = "cloud" /\ raised' = raised
        \/ place' = "idle" /\ raised' = TRUE
    BY <1>10 DEF Handoff, Raise
  <2>2. refused' = refused
    BY <1>10 DEF Handoff
  <2>3. {refused', raised'} \subseteq BOOLEAN
    BY <1>0, <2>1, <2>2, Zenon
  <2> QED
    BY <1>0, <1>10, <2>1, <2>3 DEF Handoff, TypeInv
<1>11. CASE AskCloud
  <2>1. local \in Result /\ local.action \in Actions \cup {"undeclared"} /\ local.confidence \in 0..100
    BY <1>0, <1>11 DEF AskCloud, Result
  <2>2. SmokeAnswer \in Result
    <3>1. Smaller(92, local.confidence + 8) \in 0..100
      BY <2>1 DEF Smaller
    <3> QED
      BY <2>1, <3>1, CloudType, UnavailableType DEF SmokeAnswer
  <2>3. \A r \in Responses : RealAnswer(r) \in Result
    <3> TAKE r \in Responses
    <3>1. IsResponse(r)
      BY ResponsesAssumption
    <3>2. /\ (IF r.action = None THEN local.action ELSE r.action) \in Actions \cup {"undeclared"}
          /\ (IF r.confidence = None THEN local.confidence ELSE r.confidence) \in 0..100
          /\ r.unknowns \in BOOLEAN
      BY <2>1, <3>1 DEF IsResponse
    <3> QED
      BY <2>1, <3>2, CloudType DEF RealAnswer
  <2>4. final' \in Result /\ place' = "idle"
    BY <1>11, <2>1, <2>2, <2>3, UnavailableType DEF AskCloud, Finish
  <2> QED
    BY <1>0, <1>11, <2>4 DEF AskCloud, TypeInv
<1> QED
  BY <1>1, <1>2, <1>3, <1>4, <1>5, <1>6, <1>7, <1>8, <1>9, <1>10, <1>11 DEF Next

(* Results and sessions keep their types. *)
THEOREM LocalTypes == Spec => []TypeOK
<1>1. TypeInv => TypeOK
  BY DEF TypeInv
<1> QED
  BY <1>1, InitTypeInv, StepTypeInv, PTL DEF Spec

-----------------------------------------------------------------------------
(* What a result says, and what becomes of it *)

(* A result of the follow-up and a degraded one tell a change of action    *)
(* truly, and only a degraded one changes it.                              *)
OwnWord(r) ==
  /\ r.tier = "local"
  /\ r.changed <=> r.action # decision.action
  /\ ~r.degraded => r.action = decision.action

(* A degraded result meets the rules for asking the cloud.                 *)
WordInv ==
  local # None =>
    /\ local.tier = "local"
    /\ local.degraded => ShouldEscalate(local)
    /\ providers.primary # "real" => OwnWord(local)

(* Once a call was refused none is asked any more, and a follow-up that is *)
(* degraded then is so for its budget.  Other providers make no calls.     *)
RefusedInv ==
  /\ providers.primary # "smoke" => rest = <<>> /\ ~refused
  /\ refused /\ local # None /\ local.degraded => ~local.long

AnswerInv ==
  /\ TypeInv
  /\ BudgetInv
  /\ WordInv
  /\ RefusedInv
  /\ place \in {"handoff", "cloud"} => local.degraded \/ ShouldEscalate(local)
  /\ RaisesOnlyAtHandoff
  /\ OverBudgetIsEscalated
  /\ ChangedIsTold

LEMMA DegradedFacts ==
  ASSUME TypeOK, NEW long
  PROVE  OwnWord(Degraded(long)) /\ ShouldEscalate(Degraded(long)) /\ Degraded(long).long = long
<1>1. decision.confidence \in 0..67
  BY GivenTypes
<1>2. Degraded(long).confidence <= 70 /\ Degraded(long).unknowns /\ Degraded(long).long = long
  BY <1>1 DEF Degraded
<1>3. OwnWord(Degraded(long))
  BY DEF OwnWord, Degraded
<1> QED
  BY <1>2, <1>3 DEF ShouldEscalate

LEMMA FollowUpFacts ==
  /\ OwnWord(LegacyResult) /\ ~LegacyResult.degraded
  /\ OwnWord(SignozFirstResult) /\ ~SignozFirstResult.degraded
BY DEF OwnWord, LegacyResult, SignozFirstResult

LEMMA CloudFacts ==
  ASSUME local \in Result, NEW action, NEW confidence, NEW unknowns
  PROVE  LET r == CloudResult(action, confidence, unknowns)
         IN  r.tier = "cloud" /\ r.handoff /\ r.action = action /\ (r.changed <=> action # decision.action)
BY DEF CloudResult, Result

LEMMA UnavailableFacts ==
  ASSUME local \in Result
  PROVE  /\ Unavailable.tier = local.tier /\ Unavailable.handoff
         /\ Unavailable.action = Review /\ (Unavailable.changed <=> local.action # Review)
BY DEF Unavailable, Result

LEMMA InitAnswer == Init => AnswerInv
BY InitTypeInv, InitBudget
   DEF Init, AnswerInv, WordInv, RefusedInv, RaisesOnlyAtHandoff, OverBudgetIsEscalated, ChangedIsTold

LEMMA StepAnswer == AnswerInv /\ [Next]_vars => AnswerInv'
<1> SUFFICES ASSUME AnswerInv, [Next]_vars PROVE AnswerInv'
  OBVIOUS
<1> USE DEF WordInv, RaisesOnlyAtHandoff, OverBudgetIsEscalated, ChangedIsTold, given, session
<1>0. TypeInv /\ TypeOK /\ FoundOK /\ TypeInv' /\ TypeOK' /\ FoundOK' /\ BudgetInv /\ BudgetInv'
  BY StepTypeInv, StepBudget DEF AnswerInv, TypeInv
<1> DEFINE Settled == final' = None /\ ~raised' /\ UNCHANGED <<decision, providers>>
<1>1. CASE UNCHANGED vars
  BY <1>0, <1>1 DEF vars, AnswerInv, RefusedInv, ShouldEscalate, Conflicting, OwnWord
<1>2. CASE Start
  <2>1. RefusedInv'
    BY <1>2 DEF Start, StartWith, RefusedInv
  <2> QED
    BY <1>0, <1>2, <2>1 DEF Start, StartWith, AnswerInv
<1>3. ASSUME place' \in {"local", "plan", "handoff"}, Settled,
             \/ local' = None
             \/ /\ local'.tier = "local"
                /\ local'.degraded => ShouldEscalate(local')
                /\ providers.primary # "real" => OwnWord(local'),
             place' = "handoff" => ShouldEscalate(local'),
             RefusedInv'
      PROVE  AnswerInv'
  BY <1>0, <1>3 DEF AnswerInv, OwnWord
<1>4. ASSUME NEW long, Fail(long), place = "local", rest # <<>>, UNCHANGED <<given, final>>,
             refused' => refused \/ ~long, refused => ~long
      PROVE  AnswerInv'
  <2>1. /\ raised' = raised /\ local = None /\ final = None /\ ~raised
        /\ \/ place' = "local" /\ local' = local
           \/ place' = "plan" /\ local' = Degraded(long)
    BY <1>0, <1>4, FailFacts DEF FoundOK
  <2>2. providers.primary = "smoke"
    BY <1>4 DEF AnswerInv, RefusedInv
  <2>3. RefusedInv'
    BY <1>0, <1>4, <2>1, <2>2, DegradedFacts DEF RefusedInv
  <2> QED
    BY <1>0, <1>3, <1>4, <2>1, <2>3, DegradedFacts DEF OwnWord
<1>5. CASE Refuse
  BY <1>4, <1>5 DEF Refuse
<1>6. CASE CallFails
  <2>1. PICK long \in BOOLEAN : Fail(long)
    BY <1>6 DEF CallFails
  <2>2. ~refused /\ refused' = refused
    BY <1>0, <1>6, BudgetsAssumption DEF CallFails, Ask, BudgetInv, BudgetIsOwn
  <2>3. place = "local" /\ rest # <<>> /\ UNCHANGED <<given, final>>
    BY <1>6 DEF CallFails, Ask
  <2> QED
    BY <1>4, <2>1, <2>2, <2>3
<1>7. CASE CallAnswers
  <2>1. /\ place' = "local" /\ UNCHANGED <<given, final, local, raised, refused>> /\ local = None
        /\ final = None /\ ~raised /\ rest # <<>>
    BY <1>0, <1>7 DEF CallAnswers, Ask, FoundOK
  <2>2. RefusedInv'
    BY <2>1 DEF AnswerInv, RefusedInv
  <2> QED
    BY <1>0, <1>3, <2>1, <2>2
<1>8. CASE Conclude
  <2>1. /\ place' = "plan" /\ UNCHANGED <<given, session, final, raised>>
        /\ local' = LegacyResult \/ local' = SignozFirstResult
        /\ final = None /\ ~raised
    BY <1>0, <1>8 DEF Conclude, Answer, FoundOK
  <2>2. RefusedInv'
    BY <2>1, FollowUpFacts DEF AnswerInv, RefusedInv
  <2> QED
    BY <1>0, <1>3, <2>1, <2>2, FollowUpFacts DEF OwnWord
<1>9. CASE AskAdapter
  <2>1. /\ place' = "plan" /\ UNCHANGED <<given, session, final, raised>> /\ providers.primary = "real"
        /\ \/ \E long \in BOOLEAN : local' = Degraded(long)
           \/ ~local'.degraded /\ local'.tier = "local"
        /\ final = None /\ ~raised
    BY <1>0, <1>9 DEF AskAdapter, Answer, AdapterResult, FoundOK
  <2>2. RefusedInv'
    BY <2>1 DEF AnswerInv, RefusedInv
  <2> QED
    BY <1>0, <1>3, <2>1, <2>2, DegradedFacts DEF OwnWord
<1>10. CASE NotReady
  <2>1. /\ place' = "handoff" /\ UNCHANGED <<given, session, final, raised>> /\ local' = Degraded(FALSE)
        /\ providers.primary = "not_ready" /\ ~raised /\ final = None
    BY <1>0, <1>10 DEF NotReady, FoundOK
  <2>2. RefusedInv'
    BY <2>1 DEF AnswerInv, RefusedInv
  <2> QED
    BY <1>0, <1>3, <2>1, <2>2, DegradedFacts DEF OwnWord
<1>11. CASE PlanCloud
  <2>1. /\ UNCHANGED <<given, session, local, raised>> /\ local \in Result /\ local # None /\ ~raised
        /\ final = None
        /\ \/ place' = "handoff" /\ final' = final /\ ShouldEscalate(local)
           \/ place' = "idle" /\ final' = local /\ ~ShouldEscalate(local)
    BY <1>0, <1>11 DEF PlanCloud, Finish, TypeOK
  <2>2. RefusedInv'
    BY <2>1 DEF AnswerInv, RefusedInv
  <2> QED
    BY <1>0, <2>1, <2>2 DEF AnswerInv, OwnWord
<1>12. CASE Handoff
  <2>1. /\ UNCHANGED <<given, session, local, final>> /\ local # None /\ final = None
        /\ local.degraded \/ ShouldEscalate(local)
        /\ \/ place' = "cloud" /\ raised' = raised
           \/ /\ place' = "idle"
              /\ local.long \/ providers.cloud = "unbuildable"
    BY <1>0, <1>12 DEF Handoff, Raise, AnswerInv, TypeOK
  <2>2. RefusedInv'
    BY <2>1 DEF AnswerInv, RefusedInv
  <2>3. refused /\ local.degraded => ~local.long
    BY <2>1 DEF AnswerInv, RefusedInv
  <2> QED
    BY <1>0, <2>1, <2>2, <2>3 DEF AnswerInv, OwnWord
<1>13. CASE AskCloud
  <2>1. /\ UNCHANGED <<given, session, local, raised>> /\ local \in Result /\ ~raised /\ place' = "idle"
        /\ local # None
    BY <1>0, <1>13 DEF AskCloud, Finish, TypeOK
  <2>2. RefusedInv'
    BY <2>1 DEF AnswerInv, RefusedInv
  <2>3. \/ final' = Unavailable
        \/ \E action, confidence, unknowns : final' = CloudResult(action, confidence, unknowns)
    BY <1>13 DEF AskCloud, Finish, SmokeAnswer, RealAnswer
  <2>4. CASE final' = Unavailable
    <3>1. final'.tier = local.tier /\ final'.handoff /\ final'.action = Review
          /\ (final'.changed <=> local.action # Review)
      BY <2>1, <2>4, UnavailableFacts
    <3> QED
      BY <1>0, <2>1, <2>2, <3>1 DEF AnswerInv, OwnWord
  <2>5. ASSUME NEW action, NEW confidence, NEW unknowns, final' = CloudResult(action, confidence, unknowns)
        PROVE  AnswerInv'
    <3>1. final'.tier = "cloud" /\ final'.handoff /\ (final'.changed <=> final'.action # decision.action)
      BY <2>1, <2>5, CloudFacts
    <3> QED
      BY <1>0, <2>1, <2>2, <3>1 DEF AnswerInv, OwnWord
  <2> QED
    BY <2>3, <2>4, <2>5
<1> QED
  BY <1>1, <1>2, <1>5, <1>6, <1>7, <1>8, <1>9, <1>10, <1>11, <1>12, <1>13 DEF Next

LEMMA LocalAnswerInv == Spec => []AnswerInv
BY InitAnswer, StepAnswer, PTL DEF Spec

(* An investigation raises only where it asks the cloud for help, and      *)
(* never for the length of what it says of a budget used up.               *)
THEOREM LocalRaisesOnlyAtHandoff == Spec => []RaisesOnlyAtHandoff
<1>1. AnswerInv => RaisesOnlyAtHandoff
  BY DEF AnswerInv
<1> QED
  BY <1>1, LocalAnswerInv, PTL

(* A degraded result is never final without the cloud having been asked.   *)
THEOREM LocalOverBudgetIsEscalated == Spec => []OverBudgetIsEscalated
<1>1. AnswerInv => OverBudgetIsEscalated
  BY DEF AnswerInv
<1> QED
  BY <1>1, LocalAnswerInv, PTL

(* A final result of the cloud, or of a completed follow-up of the         *)
(* service's own, says whether it changed the action of the first pass.    *)
THEOREM LocalChangedIsTold == Spec => []ChangedIsTold
<1>1. AnswerInv => ChangedIsTold
  BY DEF AnswerInv
<1> QED
  BY <1>1, LocalAnswerInv, PTL

-----------------------------------------------------------------------------
(* The calls of an investigation, and what they read *)

SignozTools == {"trace_details", "trace_logs", "operations", "repo_search", "prometheus"}
LegacyTools == {"repo_search", "prometheus", "logs", "traces", "operations"}

CallsWith(tools) == tools \X (TraceIds \cup {None})

(* A SigNoz alert asks for no traces of its own; at most seven calls are   *)
(* made or left to make.                                                   *)
CallsInv ==
  /\ TypeInv
  /\ rest \in Seq(CallsWith(IF packet.signoz_first THEN SignozTools ELSE LegacyTools))
  /\ spent + Len(rest) <= 7
  /\ SevenCallsSuffice

LEMMA FollowedFacts ==
  ASSUME NEW p \in Packets, NEW b \in Budgets
  PROVE  Followed(p, b) \in Seq(TraceIds) /\ Len(Followed(p, b)) <= 2
<1>1. p.traces \in Seq(Range(p.traces)) /\ b.max_trace_refs \in Nat
  <2>1. IsPacket(p)
    BY PacketsAssumption
  <2>2. b \in [max_tool_calls : Nat \ {0}, max_trace_refs : Nat, max_log_refs : Nat]
    BY BudgetsAssumption
  <2> QED
    BY <2>1, <2>2 DEF IsPacket
<1>2. Range(p.traces) \subseteq TraceIds
  <2>1. Range(p.traces) \in {Range(q.traces) : q \in Packets}
    OBVIOUS
  <2> QED
    BY <2>1 DEF TraceIds
<1>3. p.traces \in Seq(TraceIds)
  BY <1>1, <1>2
<1>4. Cut(p.traces, b.max_trace_refs) \in Seq(TraceIds)
  BY <1>1, <1>3, CutFacts
<1>5. /\ Followed(p, b) \in Seq(TraceIds)
      /\ Len(Followed(p, b)) = Smaller(2, Len(Cut(p.traces, b.max_trace_refs)))
  BY <1>4, CutFacts DEF Followed
<1>6. Len(Cut(p.traces, b.max_trace_refs)) \in Nat
  BY <1>4
<1> QED
  BY <1>5, <1>6, SmallerFacts

LEMMA ConcatFacts ==
  ASSUME NEW S, NEW s \in Seq(S), NEW t \in Seq(S)
  PROVE  /\ s \o t \in Seq(S) /\ Len(s \o t) = Len(s) + Len(t)
         /\ Len(s) \in Nat /\ Len(t) \in Nat
OBVIOUS

LEMMA CallsOfStart ==
  ASSUME NEW p \in Packets, NEW b \in Budgets
  PROVE  /\ SignozFirstCalls(p, b) \in Seq(CallsWith(SignozTools)) /\ Len(SignozFirstCalls(p, b)) <= 7
         /\ LegacyCalls(p) \in Seq(CallsWith(LegacyTools)) /\ Len(LegacyCalls(p)) <= 7
<1>1. /\ Prometheus(p) \in Seq(CallsWith(SignozTools)) /\ Prometheus(p) \in Seq(CallsWith(LegacyTools))
      /\ Len(Prometheus(p)) <= 1
  <2>1. <<"prometheus", None>> \in CallsWith(SignozTools) /\ <<"prometheus", None>> \in CallsWith(LegacyTools)
    BY DEF CallsWith, SignozTools, LegacyTools
  <2>2. CASE p.promql
    <3>1. Prometheus(p) = <<<<"prometheus", None>>>>
      BY <2>2 DEF Prometheus
    <3> QED
      BY <2>1, <3>1
  <2>3. CASE ~p.promql
    BY <2>3 DEF Prometheus
  <2> QED
    BY <2>2, <2>3
<1>2. LegacyCalls(p) \in Seq(CallsWith(LegacyTools)) /\ Len(LegacyCalls(p)) <= 7
  <2> DEFINE repo == <<<<"repo_search", None>>>>
             live == <<<<"logs", None>>, <<"traces", None>>, <<"operations", None>>>>
  <2>1. repo \in Seq(CallsWith(LegacyTools)) /\ Len(repo) = 1
    BY DEF CallsWith, LegacyTools
  <2>2. live \in Seq(CallsWith(LegacyTools)) /\ Len(live) = 3
    BY DEF CallsWith, LegacyTools
  <2>3. LegacyCalls(p) = repo \o (IF Live(p) THEN Prometheus(p) \o live ELSE <<>>)
    BY DEF LegacyCalls
  <2> HIDE DEF repo, live
  <2>4. CASE Live(p)
    <3>1. Prometheus(p) \o live \in Seq(CallsWith(LegacyTools)) /\ Len(Prometheus(p) \o live) <= 4
      <4>1. /\ Prometheus(p) \o live \in Seq(CallsWith(LegacyTools))
            /\ Len(Prometheus(p) \o live) = Len(Prometheus(p)) + Len(live)
            /\ Len(Prometheus(p)) \in Nat /\ Len(live) \in Nat
        BY <1>1, <2>2, ConcatFacts
      <4> QED
        BY <1>1, <2>2, <4>1
    <3>2. LegacyCalls(p) = repo \o (Prometheus(p) \o live)
      BY <2>3, <2>4
    <3> QED
      <4>1. /\ repo \o (Prometheus(p) \o live) \in Seq(CallsWith(LegacyTools))
            /\ Len(repo \o (Prometheus(p) \o live)) = Len(repo) + Len((Prometheus(p) \o live))
            /\ Len(repo) \in Nat /\ Len((Prometheus(p) \o live)) \in Nat
        BY <2>1, <3>1, ConcatFacts
      <4> QED
        BY <2>1, <3>1, <3>2, <4>1
  <2>5. CASE ~Live(p)
    <3>1. LegacyCalls(p) = repo
      BY <2>1, <2>3, <2>5
    <3> QED
      BY <2>1, <3>1
  <2> QED
    BY <2>4, <2>5
<1>3. SignozFirstCalls(p, b) \in Seq(CallsWith(SignozTools)) /\ Len(SignozFirstCalls(p, b)) <= 7
  <2> DEFINE F == Followed(p, b)
             details == [k \in DOMAIN F |-> <<"trace_details", F[k]>>]
             logs == [k \in DOMAIN F |-> <<"trace_logs", F[k]>>]
             own == <<<<"operations", None>>, <<"repo_search", None>>>>
  <2>1. F \in Seq(TraceIds) /\ Len(F) <= 2
    BY FollowedFacts
  <2>2. SignozFirstCalls(p, b) = details \o logs \o own \o Prometheus(p)
    BY DEF SignozFirstCalls
  <2> HIDE DEF F
  <2>3. details \in Seq(CallsWith(SignozTools)) /\ Len(details) = Len(F)
    BY <2>1 DEF CallsWith, SignozTools
  <2>4. logs \in Seq(CallsWith(SignozTools)) /\ Len(logs) = Len(F)
    BY <2>1 DEF CallsWith, SignozTools
  <2>5. own \in Seq(CallsWith(SignozTools)) /\ Len(own) = 2
    BY DEF CallsWith, SignozTools
  <2> HIDE DEF details, logs, own
  <2>6. details \o logs \in Seq(CallsWith(SignozTools)) /\ Len(details \o logs) <= 4
    BY <2>1, <2>3, <2>4, ConcatFacts
  <2>7. details \o logs \o own \in Seq(CallsWith(SignozTools)) /\ Len(details \o logs \o own) <= 6
    <3>1. /\ details \o logs \o own \in Seq(CallsWith(SignozTools))
          /\ Len(details \o logs \o own) = Len(details \o logs) + Len(own)
          /\ Len(details \o logs) \in Nat /\ Len(own) \in Nat
      BY <2>5, <2>6, ConcatFacts
    <3> QED
      BY <2>5, <2>6, <3>1
  <2> QED
    BY <1>1, <2>2, <2>7, ConcatFacts
<1> QED
  BY <1>2, <1>3

LEMMA TailFacts ==
  ASSUME NEW S, NEW s \in Seq(S), s # <<>>
  PROVE  /\ Tail(s) \in Seq(S) /\ Len(Tail(s)) = Len(s) - 1
         /\ Head(s) \in S /\ Len(s) \in Nat \ {0}
OBVIOUS

LEMMA StepCalls == CallsInv /\ [Next]_vars => CallsInv'
<1> SUFFICES ASSUME CallsInv, [Next]_vars PROVE CallsInv'
  OBVIOUS
<1> USE DEF given, session
<1> DEFINE S == CallsWith(IF packet.signoz_first THEN SignozTools ELSE LegacyTools)
<1>0. /\ TypeInv /\ TypeInv' /\ spent \in Nat /\ budget.max_tool_calls \in Nat
      /\ rest \in Seq(S) /\ Len(rest) \in Nat /\ spent + Len(rest) <= 7 /\ SevenCallsSuffice
  BY StepTypeInv, GivenTypes DEF CallsInv, TypeInv, TypeOK
<1>1. ASSUME UNCHANGED <<packet, budget, rest, spent, refused>> PROVE CallsInv'
  <2>1. SevenCallsSuffice'
    BY <1>0, <1>1 DEF SevenCallsSuffice
  <2>2. rest' \in Seq(CallsWith(IF packet'.signoz_first THEN SignozTools ELSE LegacyTools))
    BY <1>0, <1>1
  <2>3. spent' + Len(rest') <= 7
    BY <1>0, <1>1
  <2> QED
    BY <1>0, <2>1, <2>2, <2>3 DEF CallsInv
<1>2. CASE Start
  <2>1. PICK p \in Packets, s \in Providers :
          /\ packet' = p /\ spent' = 0 /\ refused' = FALSE
          /\ rest' = IF s.primary # "smoke" THEN <<>>
                     ELSE IF p.signoz_first THEN SignozFirstCalls(p, budget) ELSE LegacyCalls(p)
    BY <1>2 DEF Start, StartWith
  <2>2. budget \in Budgets
    BY <1>0 DEF TypeInv, TypeOK
  <2>3. /\ SignozFirstCalls(p, budget) \in Seq(CallsWith(SignozTools)) /\ Len(SignozFirstCalls(p, budget)) <= 7
        /\ LegacyCalls(p) \in Seq(CallsWith(LegacyTools)) /\ Len(LegacyCalls(p)) <= 7
    BY <2>2, CallsOfStart
  <2>4. rest' \in Seq(CallsWith(IF p.signoz_first THEN SignozTools ELSE LegacyTools)) /\ Len(rest') <= 7
    <3>1. CASE s.primary # "smoke"
      BY <2>1, <3>1
    <3>2. CASE s.primary = "smoke" /\ p.signoz_first
      BY <2>1, <2>3, <3>2
    <3>3. CASE s.primary = "smoke" /\ ~p.signoz_first
      BY <2>1, <2>3, <3>3
    <3> QED
      BY <3>1, <3>2, <3>3
  <2>5. Len(rest') \in Nat
    BY <2>4
  <2> QED
    BY <1>0, <2>1, <2>4, <2>5 DEF CallsInv, SevenCallsSuffice
<1>3. ASSUME NEW long, Fail(long), rest # <<>> PROVE rest' = Tail(rest) \/ rest' = <<>>
  BY <1>3 DEF Fail
<1>4. ASSUME rest # <<>>, rest' = Tail(rest) \/ rest' = <<>>
      PROVE  rest' \in Seq(S) /\ Len(rest') \in Nat /\ Len(rest') <= Len(rest) - 1 /\ Len(rest) >= 1
  <2>1. rest \in Seq(S) /\ Len(rest) \in Nat
    BY <1>0
  <2>2. Tail(rest) \in Seq(S) /\ Len(Tail(rest)) = Len(rest) - 1 /\ Len(rest) >= 1
    BY <1>4, <2>1, TailFacts
  <2>3. <<>> \in Seq(S) /\ Len(<<>>) = 0
    OBVIOUS
  <2>4. CASE rest' = Tail(rest)
    BY <2>1, <2>2, <2>4
  <2>5. CASE rest' = <<>>
    BY <2>1, <2>2, <2>3, <2>5
  <2> QED
    BY <1>4, <2>4, <2>5
<1>5. CASE Refuse
  <2>1. UNCHANGED <<packet, budget, spent>> /\ spent >= budget.max_tool_calls /\ rest # <<>>
    BY <1>5 DEF Refuse
  <2>2. rest' \in Seq(S) /\ Len(rest') \in Nat /\ Len(rest') <= Len(rest) - 1 /\ Len(rest) >= 1
    BY <1>3, <1>4, <1>5, <2>1 DEF Refuse
  <2>3. ~(budget.max_tool_calls >= 7)
    BY <1>0, <2>1, <2>2
  <2> QED
    BY <1>0, <2>1, <2>2, <2>3 DEF CallsInv, SevenCallsSuffice
<1>6. CASE CallFails \/ CallAnswers
  <2>1. /\ UNCHANGED <<packet, budget, refused>> /\ spent' = spent + 1 /\ rest # <<>>
        /\ (\E long \in BOOLEAN : Fail(long)) \/ rest' = Tail(rest)
    BY <1>6 DEF CallFails, CallAnswers, Ask
  <2>2. rest' \in Seq(S) /\ Len(rest') \in Nat /\ Len(rest') <= Len(rest) - 1
    BY <1>3, <1>4, <2>1
  <2> QED
    BY <1>0, <2>1, <2>2 DEF CallsInv, SevenCallsSuffice
<1> QED
  BY <1>1, <1>2, <1>5, <1>6
     DEF Next, vars, Conclude, AskAdapter, NotReady, PlanCloud, Handoff, AskCloud

LEMMA LocalCallsInv == Spec => []CallsInv
<1>1. Init => CallsInv
  <2> SUFFICES ASSUME Init PROVE CallsInv
    OBVIOUS
  <2>1. rest = <<>> /\ spent = 0 /\ ~refused
    BY DEF Init
  <2> QED
    BY <2>1, InitTypeInv DEF CallsInv, SevenCallsSuffice
<1> QED
  BY <1>1, StepCalls, PTL DEF Spec

(* Seven calls are enough for any packet.                                  *)
THEOREM LocalSevenCallsSuffice == Spec => []SevenCallsSuffice
<1>1. CallsInv => SevenCallsSuffice
  BY DEF CallsInv
<1> QED
  BY <1>1, LocalCallsInv, PTL

-----------------------------------------------------------------------------
(* What was read is in the result. *)

KeptIn(r) ==
  /\ Range(RequestTraces) \subseteq r.traces
  /\ packet.signoz_first /\ ~r.degraded => Range(RequestLogs) \subseteq r.logs
  /\ ~r.degraded => read.logs \subseteq r.logs /\ read.traces \subseteq r.traces

(* All that was read is among what was found, and of a SigNoz alert's      *)
(* traces nothing is read.                                                 *)
ReadInv ==
  /\ read \in [traces : SUBSET LiveTraces, logs : SUBSET LogIds, long : BOOLEAN \cup {None}]
  /\ read.logs \subseteq found.logs /\ read.traces \subseteq found.traces
  /\ packet.signoz_first => read.traces = {}

EvidenceInv ==
  /\ ReadInv
  /\ local # None /\ providers.primary # "real" => KeptIn(local)
  /\ EvidenceIsKept

LEMMA StepRead == ReadInv /\ CallsInv /\ [Next]_vars => ReadInv'
<1> SUFFICES ASSUME ReadInv, CallsInv, [Next]_vars PROVE ReadInv'
  OBVIOUS
<1> USE DEF given, session, ReadInv
<1>0. /\ TypeInv
      /\ found \in [traces : SUBSET LiveTraces, logs : SUBSET LogIds, long : BOOLEAN \cup {None}]
  BY DEF CallsInv, TypeInv, FoundOK
<1>1. ASSUME UNCHANGED <<packet, read, found>> PROVE ReadInv'
  BY <1>1
<1>2. CASE Start
  <2>1. read' = Nothing /\ found' = Nothing
    BY <1>2 DEF Start, StartWith
  <2> QED
    BY <2>1, NothingType DEF Nothing
<1>3. CASE CallAnswers
  <2>1. ASSUME NEW rows \in LogRows,
               found' = TakeLogs(Cut(rows, Smaller(2, budget.max_log_refs))),
               read' = [read EXCEPT !.logs = @ \cup Identified(LogRefs(Cut(rows, Smaller(2, budget.max_log_refs))))]
        PROVE  ReadInv'
    <3> DEFINE kept == Cut(rows, Smaller(2, budget.max_log_refs))
    <3>1. budget.max_log_refs \in Nat
      BY <1>0, GivenTypes DEF TypeInv
    <3>2. LogRefs(kept) \subseteq LogIds
      BY <3>1, LogRefsType
    <3>3. Identified(LogRefs(kept)) \subseteq LogRefs(kept)
      BY DEF Identified
    <3>4. LogRefs(kept) = {} \/ kept # <<>>
      <4>1. CASE kept = <<>>
        BY <4>1 DEF LogRefs
      <4> QED
        BY <4>1
    <3>5. found' = TakeLogs(kept) /\ read' = [read EXCEPT !.logs = @ \cup Identified(LogRefs(kept))]
          /\ packet' = packet
      BY <1>3, <2>1 DEF CallAnswers, Ask
    <3> HIDE DEF kept
    <3>6. found'.logs = found.logs \cup LogRefs(kept) /\ found'.traces = found.traces
      BY <1>0, <3>4, <3>5 DEF TakeLogs
    <3>7. read' \in [traces : SUBSET LiveTraces, logs : SUBSET LogIds, long : BOOLEAN \cup {None}]
          /\ read'.logs = read.logs \cup Identified(LogRefs(kept)) /\ read'.traces = read.traces
      BY <3>2, <3>3, <3>5
    <3> QED
      BY <3>3, <3>5, <3>6, <3>7
  <2>2. ASSUME Head(rest)[1] = "traces", NEW ids \in SUBSET LiveTraces,
               found' = [found EXCEPT !.traces = ids], read' = [read EXCEPT !.traces = ids]
        PROVE  ReadInv'
    <3>1. packet' = packet /\ rest # <<>>
      BY <1>3 DEF CallAnswers, Ask
    <3>2. ~packet.signoz_first
      <4>1. Head(rest) \in CallsWith(IF packet.signoz_first THEN SignozTools ELSE LegacyTools)
        BY <3>1, TailFacts DEF CallsInv
      <4> QED
        BY <2>2, <4>1 DEF CallsWith, SignozTools
    <3> QED
      BY <1>0, <2>2, <3>1, <3>2
  <2> QED
    BY <1>1, <1>3, <2>1, <2>2 DEF CallAnswers, Ask
<1> QED
  BY <1>1, <1>2, <1>3 DEF Next, vars, Refuse, CallFails, Ask, Conclude, AskAdapter, NotReady, PlanCloud, Handoff, AskCloud

LEMMA FollowUpKeeps ==
  ASSUME TypeInv, ReadInv
  PROVE  /\ \A long : KeptIn(Degraded(long))
         /\ ~packet.signoz_first => KeptIn(LegacyResult)
         /\ packet.signoz_first => KeptIn(SignozFirstResult)
<1>1. \A long : KeptIn(Degraded(long))
  BY RequestTypes DEF TypeInv, KeptIn, Degraded
<1>2. ~packet.signoz_first => KeptIn(LegacyResult)
  BY DEF ReadInv, KeptIn, LegacyResult
<1>3. packet.signoz_first => KeptIn(SignozFirstResult)
  BY DEF ReadInv, KeptIn, SignozFirstResult
<1> QED
  BY <1>1, <1>2, <1>3

LEMMA CloudKeeps ==
  ASSUME local \in Result, NEW action, NEW confidence, NEW unknowns
  PROVE  /\ CloudResult(action, confidence, unknowns).traces = local.traces
         /\ CloudResult(action, confidence, unknowns).logs = local.logs
         /\ Unavailable.traces = local.traces /\ Unavailable.logs = local.logs
BY DEF CloudResult, Unavailable, Result

LEMMA StepEvidence == EvidenceInv /\ CallsInv /\ [Next]_vars => EvidenceInv'
<1> SUFFICES ASSUME EvidenceInv, CallsInv, [Next]_vars PROVE EvidenceInv'
  OBVIOUS
<1> USE DEF given, session
<1>0. TypeInv /\ TypeOK /\ FoundOK /\ ReadInv /\ ReadInv'
  BY StepRead DEF EvidenceInv, CallsInv, TypeInv
<1> DEFINE Kept == (local # None /\ providers.primary # "real" => KeptIn(local))
(* Where nothing is answered the evidence stays what it was. *)
<1>1. ASSUME UNCHANGED <<given, read>>, local' = local, final' = final PROVE EvidenceInv'
  <2>1. Kept'
    BY <1>1 DEF EvidenceInv, KeptIn, RequestTraces, RequestLogs
  <2>2. EvidenceIsKept'
    BY <1>1 DEF EvidenceInv, EvidenceIsKept, RequestTraces, RequestLogs
  <2> QED
    BY <1>0, <2>1, <2>2 DEF EvidenceInv
<1>2. ASSUME UNCHANGED <<given, read>>, final' = None,
             local' = None \/ providers.primary = "real" \/ KeptIn(local')
      PROVE  EvidenceInv'
  <2>1. Kept'
    BY <1>2 DEF KeptIn, RequestTraces, RequestLogs
  <2>2. EvidenceIsKept'
    BY <1>2 DEF EvidenceIsKept
  <2> QED
    BY <1>0, <2>1, <2>2 DEF EvidenceInv
<1>3. ASSUME UNCHANGED <<given, read>>, local' = local, local # None,
             final'.traces = local.traces, final'.logs = local.logs
      PROVE  EvidenceInv'
  <2>1. Kept'
    BY <1>3 DEF EvidenceInv, KeptIn, RequestTraces, RequestLogs
  <2>2. EvidenceIsKept'
    <3>1. providers.primary # "real" => KeptIn(local)
      BY <1>3 DEF EvidenceInv
    <3> QED
      BY <1>3, <3>1 DEF EvidenceIsKept, KeptIn, RequestTraces, RequestLogs
  <2> QED
    BY <1>0, <2>1, <2>2 DEF EvidenceInv
<1>4. CASE Start
  <2>1. local' = None /\ final' = None
    BY <1>4 DEF Start, StartWith
  <2> QED
    BY <1>0, <2>1 DEF EvidenceInv, EvidenceIsKept
<1>5. CASE Refuse \/ CallFails
  <2>1. PICK long \in BOOLEAN : place = "local" /\ Fail(long) /\ UNCHANGED <<given, read, final>>
    BY <1>5 DEF Refuse, CallFails, Ask
  <2>2. local = None /\ final = None
    BY <1>0, <2>1 DEF FoundOK
  <2>3. local' = local \/ local' = Degraded(long)
    BY <2>1, FailFacts
  <2> QED
    BY <1>0, <1>2, <2>1, <2>2, <2>3, FollowUpKeeps
<1>6. CASE CallAnswers
  <2>1. place = "local" /\ local' = local /\ final' = final
    BY <1>6 DEF CallAnswers, Ask
  <2>2. local' = None /\ final' = None
    BY <1>0, <2>1 DEF FoundOK
  <2> QED
    BY <1>0, <2>2 DEF EvidenceInv, EvidenceIsKept
<1>7. CASE Conclude
  <2>1. /\ UNCHANGED <<given, read, final>> /\ final = None
        /\ local' = IF packet.signoz_first THEN SignozFirstResult ELSE LegacyResult
    BY <1>0, <1>7 DEF Conclude, Answer, FoundOK
  <2> QED
    BY <1>0, <1>2, <2>1, FollowUpKeeps
<1>8. CASE AskAdapter \/ NotReady
  <2>1. /\ UNCHANGED <<given, read, final>> /\ final = None
        /\ local' = Degraded(FALSE) \/ providers.primary = "real"
    BY <1>0, <1>8 DEF AskAdapter, NotReady, FoundOK
  <2> QED
    BY <1>0, <1>2, <2>1, FollowUpKeeps
<1>9. CASE PlanCloud
  <2>1. /\ UNCHANGED <<given, read, local>> /\ local # None
        /\ final' = final \/ final' = local
    BY <1>0, <1>9 DEF PlanCloud, Finish, TypeOK
  <2> QED
    BY <1>1, <1>3, <2>1
<1>10. CASE Handoff
  BY <1>1, <1>10 DEF Handoff
<1>11. CASE AskCloud
  <2>1. UNCHANGED <<given, read, local>> /\ local # None /\ local \in Result
    BY <1>0, <1>11 DEF AskCloud, TypeOK
  <2>2. \/ final' = Unavailable
        \/ \E action, confidence, unknowns : final' = CloudResult(action, confidence, unknowns)
    BY <1>11 DEF AskCloud, Finish, SmokeAnswer, RealAnswer
  <2>3. final'.traces = local.traces /\ final'.logs = local.logs
    BY <2>1, <2>2, CloudKeeps
  <2> QED
    BY <1>3, <2>1, <2>3
<1>12. CASE UNCHANGED vars
  BY <1>1, <1>12 DEF vars
<1> QED
  BY <1>4, <1>5, <1>6, <1>7, <1>8, <1>9, <1>10, <1>11, <1>12 DEF Next

(* What was asked about, and what the follow-up read, reaches the final    *)
(* result through all providers.                                           *)
THEOREM LocalEvidenceIsKept == Spec => []EvidenceIsKept
<1>1. Init => EvidenceInv
  BY NothingType DEF Init, EvidenceInv, ReadInv, EvidenceIsKept, Nothing
<1>2. EvidenceInv => EvidenceIsKept
  BY DEF EvidenceInv
<1> QED
  BY <1>1, <1>2, LocalCallsInv, StepEvidence, PTL DEF Spec
=============================================================================
