--------------------------- MODULE LocalInvestigation ---------------------------
(***************************************************************************)
(* What one investigation reads and answers: the tool calls of the local   *)
(* primary against its budget, the result each provider makes of the       *)
(* packet and of what was read, and what of a result the next provider     *)
(* takes over.  InvestigationRuntime has which provider is asked and when; *)
(* here the providers of an investigation are given when it starts, and    *)
(* the data they pass on is followed.                                      *)
(*                                                                         *)
(* An investigator makes one investigation after another with the same     *)
(* BoundedInvestigatorTools.  Confidences are in hundredths.               *)
(***************************************************************************)
EXTENDS Integers, FiniteSets, SequencesExt

CONSTANTS
  Packets,     \* the packets met, of the type Packet below
  Decisions,   \* the decisions met about them
  Budgets,     \* budgets of the local primary, in escalation.yaml
  LogRows,     \* what a log search answers: sequences of rows
  LiveTraces,  \* ids a trace search answers
  Responses,   \* what a model answers, of the type Response below
  Actions,     \* recommended actions of the schema
  None

(* Of a packet: whether it came from a SigNoz alert, its sample traces and *)
(* logs, trace hints, whether its first Prometheus reference is a promql   *)
(* one and whether it has references to SigNoz queries, similar severe     *)
(* cases, a recent deploy, repository candidates, and whether its error    *)
(* template is too long for a handoff.                                     *)
IsPacket(p) ==
  /\ p.traces \in Seq(Range(p.traces)) /\ IsInjective(p.traces)
  /\ p.logs \in Seq(Range(p.logs))
  /\ {p.signoz_first, p.hints, p.promql, p.queries, p.prior, p.deploy, p.repos, p.long} \subseteq BOOLEAN

(* The rows of a log search; long is said of a body.                       *)
AreRows(rows) == rows \in Seq(Range(rows)) /\ \A r \in Range(rows) : r.long \in BOOLEAN

(* A model's JSON object: None where it has nothing of the kind.  bare: it *)
(* has evidence_refs and routing, with empty lists; long: the cause and    *)
(* the unknowns it names are too long for a handoff.                       *)
IsResponse(r) ==
  /\ r.action \in Actions \cup {"undeclared", None}
  /\ r.confidence \in 0..100 \cup {None}
  /\ r.hypotheses \in Seq(0..100)
  /\ r.long \in BOOLEAN \cup {None}
  /\ {r.unknowns, r.changed, r.bare} \subseteq BOOLEAN

ASSUME PacketsAssumption   == \A p \in Packets : IsPacket(p)
(* FastScorer's confidence is at most 0.67; TrainedScorer takes it over.   *)
ASSUME DecisionsAssumption == Decisions \subseteq [confidence : 0..67, action : Actions]
ASSUME BudgetsAssumption   == Budgets \subseteq [max_tool_calls : Nat \ {0}, max_trace_refs : Nat, max_log_refs : Nat]
ASSUME LogRowsAssumption   == \A rows \in LogRows : AreRows(rows)
ASSUME ResponsesAssumption == \A r \in Responses : IsResponse(r)
ASSUME ActionsAssumption   == "send_to_human_review" \in Actions

Review == "send_to_human_review"

(* Providers: of the local primary its smoke provider, its real adapter,   *)
(* or a resident service that is not ready; of the cloud fallback its      *)
(* smoke client, its real client, one whose environment is missing, or one *)
(* that cannot be built.                                                   *)
Providers == [primary : {"smoke", "real", "not_ready"}, cloud : {"smoke", "real", "missing_env", "unbuildable"}]

VARIABLES
  packet, decision, budget, providers,
  place,    \* idle, local, plan, handoff, cloud
  rest,     \* tool calls the smoke provider has still to make
  spent,    \* _calls_used of the session
  asked,    \* history: calls of this investigation that reached a backend
  refused,  \* history: the session refused it a call
  found,    \* live traces and log references so far, and how long the first body is
  read,     \* history: identified log rows and traces the backends answered
  local,    \* the local result, or None
  final,    \* the final result, or None
  raised    \* an exception left run_investigation_runtime

given   == <<packet, decision, budget, providers>>
session == <<rest, spent, asked, refused, found, read>>
vars    == <<given, place, session, local, final, raised>>

Smaller(a, b) == IF a < b THEN a ELSE b
Larger(a, b)  == IF a > b THEN a ELSE b
Cut(s, n)     == SubSeq(s, 1, Smaller(n, Len(s)))

-----------------------------------------------------------------------------
(* The request *)

(* build_investigation_request *)
RequestTraces == Cut(packet.traces, budget.max_trace_refs)
RequestLogs   == Cut(packet.logs, budget.max_log_refs)

(* _is_live_evidence_request *)
Live(p) == p.promql \/ p.queries

(* Mutant: every sample trace is followed.                                 *)
FollowAllTraces(p, b) == Cut(p.traces, b.max_trace_refs)

Followed(p, b) == Cut(Cut(p.traces, b.max_trace_refs), 2)

Prometheus(p) == IF p.promql THEN <<<<"prometheus", None>>>> ELSE <<>>

LegacyCalls(p) ==
  <<<<"repo_search", None>>>>
  \o IF Live(p) THEN Prometheus(p) \o <<<<"logs", None>>, <<"traces", None>>, <<"operations", None>>>> ELSE <<>>

SignozFirstCalls(p, b) ==
  LET For(tool) == [k \in DOMAIN Followed(p, b) |-> <<tool, Followed(p, b)[k]>>]
  IN  For("trace_details") \o For("trace_logs")
      \o <<<<"operations", None>>, <<"repo_search", None>>>> \o Prometheus(p)

Nothing == [traces |-> {}, logs |-> {}, long |-> None]

(* An investigation is asked for; the tools are cloned for it.             *)
StartWith(used) ==
  /\ place = "idle"
  /\ \E p \in Packets, d \in Decisions, s \in Providers :
       /\ packet' = p /\ decision' = d /\ providers' = s
       /\ rest' = IF s.primary # "smoke" THEN <<>>
                  ELSE IF p.signoz_first THEN SignozFirstCalls(p, budget) ELSE LegacyCalls(p)
  /\ spent' = used
  /\ asked' = 0 /\ refused' = FALSE /\ found' = Nothing /\ read' = Nothing
  /\ local' = None /\ final' = None /\ raised' = FALSE
  /\ place' = "local"
  /\ UNCHANGED budget

(* Mutant: the investigator's own tools are used.                          *)
StartShared == StartWith(IF place = "idle" THEN spent ELSE 0)

Start == StartWith(0)

-----------------------------------------------------------------------------
(* Results.  logs and traces are sets of references; code says whether it  *)
(* has code references, handoff whether it has a compressed handoff.       *)

Rows     == UNION {Range(rows) : rows \in LogRows}
RowIds   == {<<"row", r.id>> : r \in Rows}
PlaceIds == {<<"index", 1>>, <<"index", 2>>}
LogIds   == (UNION {Range(p.logs) : p \in Packets}) \cup RowIds \cup PlaceIds
TraceIds == LiveTraces \cup (UNION {Range(p.traces) : p \in Packets})

Result == [tier : {"local", "cloud"}, action : Actions \cup {"undeclared"}, changed : BOOLEAN,
           confidence : 0..100, hypotheses : Seq(0..100), unknowns : BOOLEAN,
           traces : SUBSET TraceIds, logs : SUBSET LogIds,
           code : BOOLEAN, repos : BOOLEAN, long : BOOLEAN, degraded : BOOLEAN, handoff : BOOLEAN]

ASSUME LocalNoneAssumption == None \notin Result

Cause == IF found.long = None THEN packet.long ELSE found.long

(* Mutant: the local follow-up's bonus is given to a degraded result too.  *)
DegradedWithBonus(long) ==
  [tier |-> "local", action |-> Review, changed |-> decision.action # Review,
   confidence |-> decision.confidence + 14, hypotheses |-> <<decision.confidence>>, unknowns |-> TRUE,
   traces |-> Range(packet.traces), logs |-> {}, code |-> FALSE, repos |-> packet.repos, long |-> long,
   degraded |-> TRUE, handoff |-> FALSE]

(* build_degraded_local_fallback: of the packet, the decision, and the     *)
(* reason of the failure, which is its first unknown.  The text of an      *)
(* exception may quote a whole answer, long says so.                       *)
Degraded(long) ==
  [tier |-> "local", action |-> Review, changed |-> decision.action # Review,
   confidence |-> decision.confidence, hypotheses |-> <<decision.confidence>>, unknowns |-> TRUE,
   traces |-> Range(packet.traces), logs |-> {}, code |-> FALSE, repos |-> packet.repos, long |-> long,
   degraded |-> TRUE, handoff |-> FALSE]

Confidence(bonus) == Smaller(100, decision.confidence + bonus)

Prior(floor, confidence, gap) == <<Larger(floor, confidence - gap)>>

(* _investigate_legacy *)
LegacyResult ==
  LET confidence == Confidence(14)
  IN [tier |-> "local", action |-> decision.action, changed |-> FALSE, confidence |-> confidence,
      hypotheses |-> <<Smaller(95, confidence)>>
                     \o (IF packet.deploy THEN Prior(40, confidence, 18) ELSE <<>>)
                     \o (IF packet.prior THEN Prior(35, confidence, 22) ELSE <<>>),
      unknowns |-> TRUE, traces |-> Range(RequestTraces) \cup found.traces, logs |-> found.logs,
      code |-> TRUE, repos |-> packet.repos, long |-> Cause, degraded |-> FALSE, handoff |-> FALSE]

(* _investigate_signoz_first *)
SignozFirstResult ==
  LET confidence == Confidence(18 + (IF packet.hints THEN 12 ELSE 0)
                               + (IF RequestTraces # <<>> THEN 5 ELSE 0))
  IN [tier |-> "local", action |-> decision.action, changed |-> FALSE, confidence |-> confidence,
      hypotheses |-> <<Smaller(95, confidence + 6)>>
                     \o (IF packet.prior THEN Prior(35, confidence, 22) ELSE <<>>),
      unknowns |-> TRUE, traces |-> Range(RequestTraces), logs |-> Range(RequestLogs) \cup found.logs,
      code |-> TRUE, repos |-> packet.repos, long |-> Cause, degraded |-> FALSE, handoff |-> FALSE]

(* _map_response_to_result of the real adapter: the model's word, or what  *)
(* the request has.                                                        *)
AdapterResult(r) ==
  [tier |-> "local", action |-> IF r.action = None THEN decision.action ELSE r.action,
   changed |-> r.changed,
   confidence |-> IF r.confidence = None THEN decision.confidence ELSE r.confidence,
   hypotheses |-> IF r.hypotheses = <<>> THEN <<50>> ELSE r.hypotheses,
   unknowns |-> r.unknowns,
   traces |-> IF r.bare THEN {} ELSE Range(RequestTraces),
   logs |-> IF r.bare THEN {} ELSE Range(RequestLogs),
   code |-> ~r.bare, repos |-> packet.repos /\ ~r.bare, long |-> IF r.long = None THEN packet.long ELSE r.long,
   degraded |-> FALSE, handoff |-> FALSE]

-----------------------------------------------------------------------------
(* The local primary *)

Answer(result) ==
  /\ local' = result
  /\ place' = "plan"

Raise ==
  /\ raised' = TRUE
  /\ place' = "idle"

(* Calls tried on their own.                                               *)
Tolerated(call) == packet.signoz_first /\ call[1] \in {"trace_details", "trace_logs", "prometheus"}

(* Mutant: the provider is called outside the try.                         *)
FailRaises(long) ==
  IF Tolerated(Head(rest))
  THEN /\ rest' = Tail(rest)
       /\ UNCHANGED <<place, local, raised>>
  ELSE /\ Raise
       /\ rest' = <<>>
       /\ UNCHANGED local

(* A call that fails is skipped where the code tries it on its own;        *)
(* elsewhere the investigation fails, and run_local_primary_with_fallback  *)
(* degrades it, for a reason that may be long.                             *)
Fail(long) ==
  IF Tolerated(Head(rest))
  THEN /\ rest' = Tail(rest)
       /\ UNCHANGED <<place, local, raised>>
  ELSE /\ Answer(Degraded(long))
       /\ rest' = <<>>
       /\ UNCHANGED raised

(* A row without an id is known by its place in the answer.                *)
LogRef(rows, k) == IF rows[k].id = None THEN <<"index", k>> ELSE <<"row", rows[k].id>>

LogRefs(rows) == {LogRef(rows, k) : k \in DOMAIN rows}

(* Mutant: only the first trace that has logs contributes them.            *)
TakeFirstLogs(rows) ==
  IF found.long # None \/ rows = <<>> THEN found
  ELSE [found EXCEPT !.logs = @ \cup LogRefs(rows), !.long = rows[1].long]

(* The logs of all followed traces are kept, the body of the first         *)
(* becomes the cause.                                                      *)
TakeLogs(rows) ==
  IF rows = <<>> THEN found
  ELSE [found EXCEPT !.logs = @ \cup LogRefs(rows), !.long = IF @ = None THEN rows[1].long ELSE @]

(* _consume_call: the session has no calls left, and says so briefly.      *)
Refuse ==
  /\ place = "local" /\ rest # <<>>
  /\ spent >= budget.max_tool_calls
  /\ refused' = TRUE
  /\ Fail(FALSE)
  /\ UNCHANGED <<given, spent, asked, found, read, final>>

Ask ==
  /\ place = "local" /\ rest # <<>>
  /\ spent < budget.max_tool_calls
  /\ spent' = spent + 1
  /\ asked' = asked + 1
  /\ UNCHANGED <<given, refused, final>>

(* The backend cannot be reached or answers an error, which the collectors *)
(* quote; the call was counted.                                            *)
CallFails ==
  /\ Ask
  /\ \E long \in BOOLEAN : Fail(long)
  /\ UNCHANGED <<found, read>>

Identified(refs) == {ref \in refs : ref[1] = "row"}

CallAnswers ==
  /\ Ask
  /\ rest' = Tail(rest)
  /\ \/ /\ Head(rest)[1] \in {"logs", "trace_logs"}
        /\ \E rows \in LogRows :
             LET kept == Cut(rows, Smaller(2, budget.max_log_refs))
             IN  /\ found' = TakeLogs(kept)
                 /\ read' = [read EXCEPT !.logs = @ \cup Identified(LogRefs(kept))]
     \/ /\ Head(rest)[1] = "traces"
        /\ \E ids \in SUBSET LiveTraces :
             /\ Cardinality(ids) <= Smaller(2, budget.max_trace_refs)
             /\ found' = [found EXCEPT !.traces = ids]
             /\ read' = [read EXCEPT !.traces = ids]
     \/ /\ Head(rest)[1] \notin {"logs", "trace_logs", "traces"}
        /\ UNCHANGED <<found, read>>
  /\ UNCHANGED <<place, local, raised>>

Conclude ==
  /\ place = "local" /\ providers.primary = "smoke" /\ rest = <<>>
  /\ Answer(IF packet.signoz_first THEN SignozFirstResult ELSE LegacyResult)
  /\ UNCHANGED <<given, session, final, raised>>

(* The real adapter answers; or it cannot be reached, or its answer cannot *)
(* be decoded.                                                             *)
AskAdapter ==
  /\ place = "local" /\ providers.primary = "real"
  /\ \/ \E long \in BOOLEAN : Answer(Degraded(long))
     \/ \E r \in Responses : Answer(AdapterResult(r))
  /\ UNCHANGED <<given, session, final, raised>>

(* The resident service of a direct run is not ready; the reason names the *)
(* variables that are missing.                                             *)
NotReady ==
  /\ place = "local" /\ providers.primary = "not_ready"
  /\ local' = Degraded(FALSE)
  /\ place' = "handoff"
  /\ UNCHANGED <<given, session, final, raised>>

-----------------------------------------------------------------------------
(* The cloud fallback *)

(* _has_conflicting_hypotheses *)
Conflicting(result) ==
  /\ Len(result.hypotheses) >= 2
  /\ LET top == result.hypotheses[1]
         runner_up == result.hypotheses[2]
     IN  top >= 65 /\ runner_up >= 65 /\ top - runner_up \in -10..10

(* plan_cloud_fallback, under the configured rules *)
ShouldEscalate(result) == result.unknowns /\ (result.confidence <= 70 \/ Conflicting(result))

Finish(result) ==
  /\ final' = result
  /\ place' = "idle"

PlanCloud ==
  /\ place = "plan"
  /\ IF ShouldEscalate(local) THEN place' = "handoff" /\ UNCHANGED final ELSE Finish(local)
  /\ UNCHANGED <<given, session, local, raised>>

(* The client is built and the handoff written, neither in a try.  A       *)
(* handoff holds the cause, which may be a whole log body, and two         *)
(* unknowns, one of which may be the reason of a failure.                  *)
Handoff ==
  /\ place = "handoff"
  /\ IF providers.cloud = "unbuildable" \/ local.long
     THEN Raise
     ELSE place' = "cloud" /\ UNCHANGED raised
  /\ UNCHANGED <<given, session, local, final>>

(* Mutant: a change is told against the result handed over.                *)
CloudResultOfParent(action, confidence, unknowns) ==
  [local EXCEPT !.tier = "cloud", !.action = action, !.confidence = confidence, !.unknowns = unknowns,
                !.changed = action # local.action, !.handoff = TRUE]

(* CloudFallbackInvestigator.investigate: the client's word, with the      *)
(* references and the routing of the result handed over.                   *)
CloudResult(action, confidence, unknowns) ==
  [local EXCEPT !.tier = "cloud", !.action = action, !.confidence = confidence, !.unknowns = unknowns,
                !.changed = action # decision.action, !.handoff = TRUE]

(* build_cloud_unavailable_local_fallback *)
Unavailable ==
  [local EXCEPT !.action = Review, !.changed = local.action # Review, !.unknowns = TRUE, !.handoff = TRUE]

(* The smoke client repeats the handoff, a little surer, and wants something  *)
(* to review, a code reference or a repository.                            *)
SmokeAnswer ==
  IF local.code \/ local.repos THEN CloudResult(local.action, Smaller(92, local.confidence + 8), TRUE)
  ELSE Unavailable

(* What a model's answer lacks is taken from the handoff.                  *)
RealAnswer(r) ==
  CloudResult(IF r.action = None THEN local.action ELSE r.action,
              IF r.confidence = None THEN local.confidence ELSE r.confidence, r.unknowns)

AskCloud ==
  /\ place = "cloud"
  /\ \/ providers.cloud = "smoke" /\ Finish(SmokeAnswer)
     \/ providers.cloud \in {"real", "missing_env"} /\ Finish(Unavailable)
     \/ providers.cloud = "real" /\ \E r \in Responses : Finish(RealAnswer(r))
  /\ UNCHANGED <<given, session, local, raised>>

-----------------------------------------------------------------------------
Init ==
  /\ packet \in Packets /\ decision \in Decisions /\ budget \in Budgets /\ providers \in Providers
  /\ place = "idle" /\ rest = <<>> /\ spent = 0 /\ asked = 0 /\ refused = FALSE
  /\ found = Nothing /\ read = Nothing /\ local = None /\ final = None /\ raised = FALSE

Next == Start \/ Refuse \/ CallFails \/ CallAnswers \/ Conclude \/ AskAdapter \/ NotReady
        \/ PlanCloud \/ Handoff \/ AskCloud

Spec == Init /\ [][Next]_vars

-----------------------------------------------------------------------------
(* Properties *)

(* Results and sessions have their types; a mapped result keeps its        *)
(* confidence within 0 and 1 and a place has what it works on.             *)
TypeOK ==
  /\ packet \in Packets /\ decision \in Decisions /\ budget \in Budgets /\ providers \in Providers
  /\ place \in {"idle", "local", "plan", "handoff", "cloud"}
  /\ {spent, asked} \subseteq Nat /\ {refused, raised} \subseteq BOOLEAN
  /\ local \in Result \cup {None} /\ final \in Result \cup {None}
  /\ place \in {"plan", "handoff", "cloud"} => local # None /\ final = None /\ ~raised

(* A budget is one investigation's: what it asks of the backends, failed   *)
(* calls included, stays within max_tool_calls, and a call is refused only *)
(* to an investigation that has used all of its own.                       *)
BudgetIsOwn ==
  /\ asked <= budget.max_tool_calls
  /\ refused => asked = budget.max_tool_calls

(* Seven calls, of the sixteen configured, are enough whatever a packet    *)
(* refers to: two traces with their logs, operations, code, and Prometheus.*)
SevenCallsSuffice == budget.max_tool_calls >= 7 => ~refused

(* Unless a model replaced the references by its own: a final result has   *)
(* the sample traces asked about, and, where the local follow-up was       *)
(* completed, every trace and identified log row it read, and the sample   *)
(* logs of a SigNoz alert, through all providers.                          *)
EvidenceIsKept ==
  final # None /\ providers.primary # "real" =>
    /\ Range(RequestTraces) \subseteq final.traces
    /\ packet.signoz_first /\ ~local.degraded => Range(RequestLogs) \subseteq final.logs
    /\ ~local.degraded => read.logs \subseteq final.logs /\ read.traces \subseteq final.traces

(* recommended_action_changed says whether the final action differs from   *)
(* the decision's, if the cloud answered, whatever the local primary had   *)
(* made of the action, or if the service's own follow-up was completed.    *)
ChangedIsTold ==
  final # None /\ (final.tier = "cloud" \/ (providers.primary # "real" /\ ~local.degraded)) =>
    (final.changed <=> final.action # decision.action)

(* An investigation raises out of run_investigation_runtime only where it  *)
(* asks for help: its local result stands, and the cloud client cannot be  *)
(* built or what it hands over is too long.  A follow-up that ended because *)
(* its budget was used up is never too long, whatever it had read.         *)
RaisesOnlyAtHandoff ==
  raised => /\ local # None
            /\ local.degraded \/ ShouldEscalate(local)
            /\ \/ providers.cloud = "unbuildable"
               \/ local.long /\ ~(refused /\ local.degraded)

(* A local follow-up that failed or went over its budget is never the last *)
(* word: the cloud fallback is asked, whatever the first pass was          *)
(* confident of (docs/warning-agent-architecture.md:134).                  *)
OverBudgetIsEscalated == final # None /\ local.degraded => final.handoff

===============================================================================
