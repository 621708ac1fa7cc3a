------------------------------ MODULE OutcomeLog ------------------------------
(***************************************************************************)
(* What the feedback loop promises of landed outcomes: a log that only     *)
(* grows, on which a request lands at most once and only if it is valid,   *)
(* and an answer that calls an outcome admitted only after it landed.      *)
(*                                                                         *)
(* It does not promise the converse: a request may be answered as failed,  *)
(* or never, although its outcome landed.                                  *)
(***************************************************************************)
EXTENDS Naturals, Sequences

CONSTANTS
  Requests,  \* requests to /outcome/admit
  Content,   \* what each asks to admit, a function from Requests to Outcome
  Ids,       \* outcome ids: source, service, operation and second
  Cases      \* executions, by packet_id and decision_id, an outcome may name

Labels == {"severe", "benign", "unknown"}

(* build_outcome_record: what tells two outcomes apart here.  An invalid   *)
(* request does not pass the schema.                                       *)
Outcome == [id : Ids, case : Cases, label : Labels, valid : BOOLEAN]

ASSUME ContentAssumption == Content \in [Requests -> Outcome]

VARIABLES
  log,    \* the requests whose outcomes landed, in order
  answer  \* what each request was answered

logVars == <<log, answer>>

Answers == {"none", "admitted", "rejected", "failed"}

Landed == {log[n] : n \in 1..Len(log)}

Land(r) ==
  /\ answer[r] = "none" /\ Content[r].valid /\ r \notin Landed
  /\ log' = Append(log, r)
  /\ UNCHANGED answer

Conclude(r, a) ==
  /\ answer[r] = "none"
  /\ a = "admitted" => r \in Landed
  /\ answer' = [answer EXCEPT ![r] = a]
  /\ UNCHANGED log

LogInit == log = <<>> /\ answer = [r \in Requests |-> "none"]

LogNext == \E r \in Requests : Land(r) \/ (\E a \in Answers \ {"none"} : Conclude(r, a))

LogSpec == LogInit /\ [][LogNext]_logVars
===============================================================================
