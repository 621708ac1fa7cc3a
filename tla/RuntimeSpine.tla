----------------------------- MODULE RuntimeSpine -----------------------------
(***************************************************************************)
(* What one execution of the runtime leaves behind: the JSONL artifacts,   *)
(* the delivery of the report, the rollout evidence, the metadata rows and *)
(* the retrieval documents (execute_runtime_inputs,                        *)
(* persist_runtime_execution, persist_report_delivery), and the result the *)
(* worker reads back from them (build_completed_processing_result).        *)
(*                                                                         *)
(* There is no transaction: an exception between any two writes leaves the *)
(* first, and the worker runs the warning again from the start.  A job is  *)
(* a warning of the worker, run one at a time and tried again, or a direct *)
(* run (the Alertmanager webhook, the command line), tried once and beside *)
(* the others in the same data root.                                       *)
(*                                                                         *)
(* All identifiers of an execution derive from its packet_id: service,     *)
(* operation and the second at which its evidence was collected.           *)
(* Executions that agree in these share every identifier.                  *)
(***************************************************************************)
EXTENDS Naturals, Sequences, FiniteSets

CONSTANTS
  Jobs,       \* the alerts that are run
  Direct,     \* those run without the queue
  Ids,        \* packet ids of one service and operation
  MaxTries,   \* how often the worker runs a warning
  Analyses,   \* what an analysis may conclude: see AllAnalyses
  MaxCuts,    \* bound on the executions of a behaviour that are cut short
  None

(* The delivery classes; observe is routed as open_ticket is. *)
Classes == {"open_ticket", "page_owner", "send_to_human_review"}

(* The action of the first pass, which no scorer sets to review; whether   *)
(* an investigation answered, or failed closed to review; the class of the *)
(* report: the investigation's action where there is one.                  *)
AllAnalyses ==
  {a \in [first : {"open_ticket", "page_owner"},
          stage : {"none", "answered", "closed"}, class : Classes] :
     /\ a.stage = "none" => a.class = a.first
     /\ a.stage = "closed" => a.class = "send_to_human_review"}

ASSUME JobsAssumption     == IsFiniteSet(Jobs) /\ Direct \subseteq Jobs
ASSUME TriesAssumption    == MaxTries \in Nat \ {0} /\ MaxCuts \in Nat
ASSUME AnalysesAssumption == Analyses \subseteq AllAnalyses

VARIABLES
  lines,       \* the executions with a line in each JSONL file
  dispatches,  \* the lines of deliveries.jsonl, in order
  payload,     \* the execution whose report each payload file holds
  rollout,     \* the packet ids with a rollout evidence file
  rows,        \* the metadata rows: kinds and ids
  docs,        \* the retrieval documents: kinds and ids
  requested,   \* the executions that posted to the bridge
  shown,       \* those whose page the bridge showed its owner
  pc,          \* where each job is
  at,          \* the artifact it is appending, recording or indexing
  tries,       \* its executions so far
  id,          \* the packet id of the current one
  found,       \* what its analysis concluded
  status,      \* the delivery status of the current execution
  result,      \* what build_completed_processing_result returned
  cuts         \* executions cut short so far

stores  == <<lines, dispatches, payload, rollout, rows, docs>>
bridge  == <<requested, shown>>
locals  == <<at, tries, id, found, status, result>>
vars    == <<stores, bridge, pc, locals, cuts>>

Kinds == {"packets", "decisions", "investigations", "reports"}

(* An execution: the packet id it derives the others from, its job, its try. *)
Execs == [id : Ids, job : Jobs, try : 1..MaxTries]

ASSUME SpineNoneAssumption == None \notin Ids /\ None \notin AllAnalyses /\ None \notin Execs

Exec(j) == [id |-> id[j], job |-> j, try |-> tries[j]]

Investigated(j) == found[j].stage # "none"

KindsOf(j) == IF Investigated(j) THEN Kinds ELSE Kinds \ {"investigations"}

NextKind(j) ==
  CASE at[j] = "packets"                        -> "decisions"
    [] at[j] = "decisions" /\ Investigated(j)   -> "investigations"
    [] at[j] = "decisions" /\ ~Investigated(j)  -> "reports"
    [] at[j] = "investigations"                 -> "reports"

(* One artifact after the other, the report last, then on to next. *)
Advance(j, next) ==
  \/ /\ at[j] # "reports"
     /\ at' = [at EXCEPT ![j] = NextKind(j)]
     /\ UNCHANGED pc
  \/ /\ at[j] = "reports"
     /\ at' = [at EXCEPT ![j] = "packets"]
     /\ pc' = [pc EXCEPT ![j] = next]

Ended == {"completed", "given_up"}

Busy(j) == pc[j] \notin Ended \cup {"waiting"}

TriesOf(j) == IF j \in Direct THEN 1 ELSE MaxTries

-----------------------------------------------------------------------------
(* The worker is serial; direct runs are not.  The evidence is collected   *)
(* and the packet gets its id, which may be one that was used: a second    *)
(* execution in the same second, of another warning or, when               *)
(* retry_backoff_sec is 0, of this one.                                    *)
Begin(j) ==
  /\ pc[j] = "waiting"
  /\ j \in Direct \/ \A i \in Jobs \ Direct : ~Busy(i)
  /\ \E i \in Ids : id' = [id EXCEPT ![j] = i]
  /\ tries' = [tries EXCEPT ![j] = @ + 1]
  /\ pc' = [pc EXCEPT ![j] = "analysing"]
  /\ UNCHANGED <<stores, bridge, at, found, status, result, cuts>>

(* Mutant: the report is delivered before anything is stored.              *)
AnalyseDeliverFirst(j) ==
  /\ pc[j] = "analysing"
  /\ \E a \in Analyses : found' = [found EXCEPT ![j] = a]
  /\ pc' = [pc EXCEPT ![j] = "delivering"]
  /\ UNCHANGED <<stores, bridge, at, tries, id, status, result, cuts>>

(* Scoring, the investigation if there is one, and the report. *)
Analyse(j) ==
  /\ pc[j] = "analysing"
  /\ \E a \in Analyses : found' = [found EXCEPT ![j] = a]
  /\ pc' = [pc EXCEPT ![j] = "appending"]
  /\ UNCHANGED <<stores, bridge, at, tries, id, status, result, cuts>>

AppendArtifact(j) ==
  /\ pc[j] = "appending"
  /\ lines' = [lines EXCEPT ![at[j]] = @ \cup {Exec(j)}]
  /\ Advance(j, "delivering")
  /\ UNCHANGED <<dispatches, payload, rollout, rows, docs, bridge,
                 tries, id, found, status, result, cuts>>

(* Delivery: the report is written to a file named after its report_id and *)
(* class.  Every class but page_owner has a local durable route, which     *)
(* ends there.                                                             *)
WritePayload(j) ==
  /\ pc[j] = "delivering"
  /\ payload' = [payload EXCEPT ![<<id[j], found[j].class>>] = Exec(j)]
  /\ \/ /\ found[j].class = "page_owner"
        /\ pc' = [pc EXCEPT ![j] = "gating"]
        /\ UNCHANGED status
     \/ /\ found[j].class # "page_owner"
        /\ status' = [status EXCEPT ![j] = "queued"]
        /\ pc' = [pc EXCEPT ![j] = "dispatching"]
  /\ UNCHANGED <<lines, dispatches, rollout, rows, docs, bridge,
                 at, tries, id, found, result, cuts>>

(* resolve_adapter_feishu_env_gate: without an endpoint or a target the    *)
(* page is deferred.                                                       *)
ResolveGate(j) ==
  /\ pc[j] = "gating"
  /\ \/ /\ status' = [status EXCEPT ![j] = "deferred"]
        /\ pc' = [pc EXCEPT ![j] = "dispatching"]
     \/ /\ pc' = [pc EXCEPT ![j] = "posting"]
        /\ UNCHANGED status
  /\ UNCHANGED <<stores, bridge, at, tries, id, found, result, cuts>>

(* Mutant: a request that timed out is recorded as deferred.               *)
PostTimeoutDeferred(j) ==
  /\ pc[j] = "posting"
  /\ requested' = requested \cup {Exec(j)}
  /\ status' = [status EXCEPT ![j] = "deferred"]
  /\ pc' = [pc EXCEPT ![j] = "dispatching"]
  /\ UNCHANGED <<stores, shown, at, tries, id, found, result, cuts>>

(* Pages the bridge took for repeats: it knows a page by its reportId.     *)
Known(j) == \E x \in shown : x.id = id[j]

(* post_adapter_feishu_notification: the bridge accepts the page and shows *)
(* it, or ignores it as a duplicate; or it is rejected; or the request     *)
(* fails, before or after the page was shown.                              *)
Post(j) ==
  /\ pc[j] = "posting"
  /\ requested' = requested \cup {Exec(j)}
  /\ \E s \in {"delivered", "failed"} : status' = [status EXCEPT ![j] = s]
  /\ \/ /\ ~Known(j)
        /\ shown' = shown \cup {Exec(j)}
     \/ /\ Known(j) \/ status'[j] = "failed"
        /\ UNCHANGED shown
  /\ pc' = [pc EXCEPT ![j] = "dispatching"]
  /\ UNCHANGED <<stores, at, tries, id, found, result, cuts>>

(* The line of deliveries.jsonl comes after the request.                   *)
AppendDispatch(j) ==
  /\ pc[j] = "dispatching"
  /\ dispatches' = Append(dispatches, [exec |-> Exec(j), status |-> status[j]])
  /\ pc' = [pc EXCEPT ![j] = "evidencing"]
  /\ UNCHANGED <<lines, payload, rollout, rows, docs, bridge, locals, cuts>>

WriteRollout(j) ==
  /\ pc[j] = "evidencing"
  /\ rollout' = rollout \cup {id[j]}
  /\ pc' = [pc EXCEPT ![j] = "recording"]
  /\ UNCHANGED <<lines, dispatches, payload, rows, docs, bridge, locals, cuts>>

(* Mutant: no row for the investigation.                                   *)
RecordRowSparse(j) ==
  /\ pc[j] = "recording"
  /\ rows' = IF at[j] = "investigations" THEN rows ELSE rows \cup {<<at[j], id[j]>>}
  /\ Advance(j, "indexing")
  /\ UNCHANGED <<lines, dispatches, payload, rollout, docs, bridge,
                 tries, id, found, status, result, cuts>>

RecordRow(j) ==
  /\ pc[j] = "recording"
  /\ rows' = rows \cup {<<at[j], id[j]>>}
  /\ Advance(j, "indexing")
  /\ UNCHANGED <<lines, dispatches, payload, rollout, docs, bridge,
                 tries, id, found, status, result, cuts>>

UpsertDoc(j) ==
  /\ pc[j] = "indexing"
  /\ docs' = docs \cup {<<at[j], id[j]>>}
  /\ Advance(j, "closing")
  /\ UNCHANGED <<lines, dispatches, payload, rollout, rows, bridge,
                 tries, id, found, status, result, cuts>>

(* The dispatches of a report, and the status of the latest.               *)
DispatchesOf(i) == {n \in 1..Len(dispatches) : dispatches[n].exec.id = i}

(* Mutant: the first line of the report is taken.                          *)
FirstStatus(i) ==
  LET n == CHOOSE n \in DispatchesOf(i) : \A m \in DispatchesOf(i) : n <= m
  IN  dispatches[n].status

LatestStatus(i) ==
  LET n == CHOOSE n \in DispatchesOf(i) : \A m \in DispatchesOf(i) : m <= n
  IN  dispatches[n].status

(* build_completed_processing_result: review is required when the first    *)
(* pass asks for it or the delivery is deferred.                           *)
ReviewRequired(j) == \/ found[j].first = "send_to_human_review"
                     \/ LatestStatus(id[j]) = "deferred"

Complete(j) ==
  /\ pc[j] = "closing"
  /\ result' = [result EXCEPT ![j] =
       IF j \in Direct THEN @
       ELSE [status |-> LatestStatus(id[j]), review |-> ReviewRequired(j)]]
  /\ pc' = [pc EXCEPT ![j] = "completed"]
  /\ UNCHANGED <<stores, bridge, at, tries, id, found, status, cuts>>

(* Any step may raise, or the process may end.  What was written stays;    *)
(* the worker runs the warning again while it has tries left, a claimed    *)
(* warning of a dead worker and a direct run are not run again.            *)
Cut(j) ==
  /\ Busy(j)
  /\ cuts < MaxCuts
  /\ cuts' = cuts + 1
  /\ \/ tries[j] < TriesOf(j) /\ pc' = [pc EXCEPT ![j] = "waiting"]
     \/ pc' = [pc EXCEPT ![j] = "given_up"]
  /\ at' = [at EXCEPT ![j] = "packets"]
  /\ UNCHANGED <<stores, bridge, tries, id, found, status, result>>

-----------------------------------------------------------------------------
Init ==
  /\ lines = [k \in Kinds |-> {}]
  /\ dispatches = <<>>
  /\ payload = [i \in Ids \X Classes |-> None]
  /\ rollout = {} /\ rows = {} /\ docs = {}
  /\ requested = {} /\ shown = {}
  /\ pc = [j \in Jobs |-> "waiting"]
  /\ at = [j \in Jobs |-> "packets"]
  /\ tries = [j \in Jobs |-> 0]
  /\ id = [j \in Jobs |-> None]
  /\ found = [j \in Jobs |-> None]
  /\ status = [j \in Jobs |-> "none"]
  /\ result = [j \in Jobs |-> [status |-> "none", review |-> FALSE]]
  /\ cuts = 0

Delivery(j) == WritePayload(j) \/ ResolveGate(j) \/ Post(j) \/ AppendDispatch(j)

Next == \E j \in Jobs :
  \/ Begin(j) \/ Analyse(j) \/ AppendArtifact(j) \/ Delivery(j) \/ WriteRollout(j)
  \/ RecordRow(j) \/ UpsertDoc(j) \/ Complete(j) \/ Cut(j)

Spec == Init /\ [][Next]_vars

-----------------------------------------------------------------------------
(* Properties *)

Points == {"waiting", "analysing", "appending", "delivering", "gating", "posting",
           "dispatching", "evidencing", "recording", "indexing", "closing",
           "completed", "given_up"}

Statuses == {"none", "queued", "deferred", "delivered", "failed"}

(* Every variable keeps its type; past its analysis a job has a conclusion *)
(* and past its start an id.                                               *)
TypeOK ==
  /\ lines \in [Kinds -> SUBSET Execs]
  /\ dispatches \in Seq([exec : Execs, status : Statuses \ {"none"}])
  /\ payload \in [Ids \X Classes -> Execs \cup {None}]
  /\ rollout \subseteq Ids
  /\ rows \subseteq Kinds \X Ids
  /\ docs \subseteq Kinds \X Ids
  /\ requested \subseteq Execs
  /\ shown \subseteq Execs
  /\ pc \in [Jobs -> Points]
  /\ at \in [Jobs -> Kinds]
  /\ tries \in [Jobs -> 0..MaxTries]
  /\ id \in [Jobs -> Ids \cup {None}]
  /\ found \in [Jobs -> AllAnalyses \cup {None}]
  /\ status \in [Jobs -> Statuses]
  /\ result \in [Jobs -> [status : Statuses, review : BOOLEAN]]
  /\ cuts \in 0..MaxCuts

(* Nothing leaves the agent, or is queued for a person, before packet,     *)
(* decision, report and any investigation are stored: a page can always be *)
(* traced, wherever its execution was cut (persist_runtime_execution).     *)
DeliveredIsStored ==
  \A j \in Jobs :
    Exec(j) \in requested \/ (\E n \in 1..Len(dispatches) : dispatches[n].exec = Exec(j))
      => \A k \in KindsOf(j) : Exec(j) \in lines[k]

Indexed == rows \cup docs

(* A metadata row or a retrieval document stands for a stored artifact with *)
(* that id and a dispatched report: the indexes never run ahead of the     *)
(* files, also when executions share ids or were cut in the middle of them *)
(* (persist_runtime_execution).                                            *)
IndexedIsStored ==
  \A r \in Indexed :
    /\ \E x \in lines[r[1]] : x.id = r[2]
    /\ DispatchesOf(r[2]) # {}

(* A completed execution has left everything: its lines, its dispatch, its *)
(* payload and evidence files, a row and a document for each artifact.     *)
CompletedIsWhole ==
  \A j \in Jobs : pc[j] = "completed" =>
    /\ \A k \in KindsOf(j) : /\ Exec(j) \in lines[k]
                             /\ <<k, id[j]>> \in rows
                             /\ <<k, id[j]>> \in docs
    /\ \E n \in 1..Len(dispatches) : dispatches[n].exec = Exec(j)
    /\ payload[<<id[j], found[j].class>>] # None
    /\ id[j] \in rollout

(* The dispatch record says whether the vendor was asked: delivered and    *)
(* failed only after a request, queued and deferred only without one.      *)
StatusTellsRequest ==
  \A n \in 1..Len(dispatches) :
    dispatches[n].exec \in requested <=> dispatches[n].status \in {"delivered", "failed"}

(* The worker reports the fate of its own delivery, although it looks it   *)
(* up by an id that its earlier tries, and other warnings, may share, and  *)
(* a deferred page is handed to a person                                   *)
(* (build_completed_processing_result).  A direct run of the same id may   *)
(* have dispatched in between, and is then what the worker reports.        *)
ResultIsOwn ==
  \A j \in Jobs \ Direct :
    pc[j] = "completed" /\ (\A d \in Direct : \A n \in DispatchesOf(id[j]) : dispatches[n].exec.job # d)
      => /\ \E n \in 1..Len(dispatches) : /\ dispatches[n].exec = Exec(j)
                                          /\ dispatches[n].status = result[j].status
         /\ result[j].status = "deferred" => result[j].review

(* The owner is not paged twice for one warning.                           *)
OnePagePerWarning ==
  \A j \in Jobs : Cardinality({x \in shown : x.job = j}) <= 1

=============================================================================
