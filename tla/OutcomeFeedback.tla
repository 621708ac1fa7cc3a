---------------------------- MODULE OutcomeFeedback ----------------------------
(***************************************************************************)
(* Admission of operator outcomes: POST /outcome/admit appends a line to   *)
(* outcomes.jsonl, records a row in metadata.sqlite3, reads the whole file *)
(* again and upserts a retrieval document for every line of it.  Later     *)
(* executions search these documents for labelled cases.                   *)
(*                                                                         *)
(* The handler is a plain function: the server runs it in a thread pool,   *)
(* so that admissions interleave between any two of their reads and        *)
(* writes.  Nothing is rolled back when a step raises or the process ends. *)
(*                                                                         *)
(* The log of OutcomeLog is the file, up to its first damaged line: a      *)
(* write that fails half-way (a full disk) leaves part of a line, and the  *)
(* next record is glued to it.                                             *)
(***************************************************************************)
EXTENDS OutcomeLog, FiniteSets

CONSTANTS
  RuntimeDocs,  \* the documents of an execution of the runtime
  Rankings,     \* orders bm25 may put all documents in
  Limit,        \* RUNTIME_RETRIEVAL_LIMIT
  MaxFaults,    \* bound on exceptions and ends of the process
  None

ASSUME LimitAssumption == Limit \in Nat \ {0} /\ MaxFaults \in Nat
ASSUME FeedbackNoneAssumption == None \notin Requests
ASSUME DocsAssumption == RuntimeDocs \cap Ids = {}
ASSUME RankingsAssumption == Rankings \subseteq Seq(Ids \cup RuntimeDocs)

VARIABLES
  torn,     \* whether a damaged line follows the log
  rows,     \* ids with a row in the outcomes table
  docs,     \* the line each outcome document was rendered from
  others,   \* the runtime's documents in the index
  pc,       \* where each request's handler is
  read,     \* the lines its refresh read
  next,     \* the line its refresh upserts next
  faults

store == <<log, torn, rows, docs>>
calls == <<answer, pc, read, next>>
vars  == <<store, calls, others, faults>>

IdOf(r) == Content[r].id

Goto(r, point) == pc' = [pc EXCEPT ![r] = point]

(* Every exception but a ValueError is answered 500, internal_error. *)
Fails(r) == /\ faults < MaxFaults
            /\ faults' = faults + 1
            /\ answer' = [answer EXCEPT ![r] = "failed"]
            /\ Goto(r, "done")

(* A ValueError is answered 422, schema_validation_error. *)
Rejects(r) == /\ answer' = [answer EXCEPT ![r] = "rejected"]
              /\ Goto(r, "done")

-----------------------------------------------------------------------------
(* Mutant: the schema is not applied.                                      *)
ReceiveUnvalidated(r) ==
  /\ pc[r] = "start"
  /\ Goto(r, "append")
  /\ UNCHANGED <<store, answer, read, next, others, faults>>

(* build_outcome_record and validate_outcome_record: nothing is stored of  *)
(* an outcome that does not pass.                                          *)
Receive(r) ==
  /\ pc[r] = "start"
  /\ \/ /\ Content[r].valid
        /\ Goto(r, "append")
        /\ UNCHANGED answer
     \/ /\ ~Content[r].valid
        /\ Rejects(r)
  /\ UNCHANGED <<store, read, next, others, faults>>

(* Mutant: the row is recorded although the append raised.                 *)
AppendSwallowed(r) ==
  /\ pc[r] = "append"
  /\ log' \in {log, Append(log, r)}
  /\ Goto(r, "metadata")
  /\ UNCHANGED <<torn, answer, faults, rows, docs, read, next, others>>

(* JSONLArtifactStore.append.  Behind a damaged line the record is not a   *)
(* line of its own.                                                        *)
AppendLine(r) ==
  /\ pc[r] = "append"
  /\ \/ /\ log' = IF torn THEN log ELSE Append(log, r)
        /\ Goto(r, "metadata")
        /\ UNCHANGED <<torn, answer, faults>>
     \/ /\ torn' \in {torn, TRUE}
        /\ Fails(r)
        /\ UNCHANGED log
  /\ UNCHANGED <<rows, docs, read, next, others>>

(* record_artifact: INSERT OR REPLACE. *)
RecordRow(r) ==
  /\ pc[r] = "metadata"
  /\ \/ /\ rows' = rows \cup {IdOf(r)}
        /\ Goto(r, "refresh")
        /\ UNCHANGED <<answer, faults>>
     \/ /\ Fails(r)
        /\ UNCHANGED rows
  /\ UNCHANGED <<log, torn, docs, read, next, others>>

(* refresh_outcome_retrieval_docs: read_all parses every line, and raises  *)
(* JSONDecodeError, a ValueError, at a damaged one.                        *)
ReadLines(r) ==
  /\ pc[r] = "refresh"
  /\ \/ /\ ~torn
        /\ read' = [read EXCEPT ![r] = log]
        /\ next' = [next EXCEPT ![r] = 1]
        /\ Goto(r, "upsert")
        /\ UNCHANGED <<answer, faults>>
     \/ /\ torn
        /\ Rejects(r)
        /\ UNCHANGED <<read, next, faults>>
     \/ /\ Fails(r)
        /\ UNCHANGED <<read, next>>
  /\ UNCHANGED <<store, others>>

(* Mutant: a line is indexed only if its id is not.                        *)
UpsertMissing(r) ==
  /\ pc[r] = "upsert" /\ next[r] <= Len(read[r])
  /\ docs' = IF docs[IdOf(read[r][next[r]])] # None THEN docs
             ELSE [docs EXCEPT ![IdOf(read[r][next[r]])] = read[r][next[r]]]
  /\ next' = [next EXCEPT ![r] = @ + 1]
  /\ UNCHANGED <<log, torn, rows, answer, pc, read, others, faults>>

(* upsert_document: DELETE and INSERT in one transaction, whatever another *)
(* refresh has put there.                                                  *)
UpsertDoc(r) ==
  /\ pc[r] = "upsert" /\ next[r] <= Len(read[r])
  /\ \/ /\ docs' = [docs EXCEPT ![IdOf(read[r][next[r]])] = read[r][next[r]]]
        /\ next' = [next EXCEPT ![r] = @ + 1]
        /\ UNCHANGED <<answer, pc, faults>>
     \/ /\ Fails(r)
        /\ UNCHANGED <<docs, next>>
  /\ UNCHANGED <<log, torn, rows, read, others>>

(* Mutant: the answer comes before the last document.                      *)
AnswerEarly(r) ==
  /\ pc[r] = "upsert" /\ next[r] >= Len(read[r])
  /\ answer' = [answer EXCEPT ![r] = "admitted"]
  /\ Goto(r, "done")
  /\ UNCHANGED <<store, read, next, others, faults>>

Answer(r) ==
  /\ pc[r] = "upsert" /\ next[r] > Len(read[r])
  /\ answer' = [answer EXCEPT ![r] = "admitted"]
  /\ Goto(r, "done")
  /\ UNCHANGED <<store, read, next, others, faults>>

(* persist_runtime_execution indexes its packet, decision, report...: the  *)
(* documents of an execution, at once.                                     *)
IndexRuntimeDocs ==
  /\ others # RuntimeDocs
  /\ others' = RuntimeDocs
  /\ UNCHANGED <<store, calls, faults>>

Running(r) == pc[r] \notin {"start", "done"}

(* The process ends: its handlers are gone, unanswered. *)
Crash ==
  /\ faults < MaxFaults
  /\ faults' = faults + 1
  /\ pc' = [r \in Requests |-> IF Running(r) THEN "done" ELSE pc[r]]
  /\ UNCHANGED <<store, answer, read, next, others>>

-----------------------------------------------------------------------------
(* Search. *)

(* The places of a ranking whose documents are in the index. *)
Matches(ranking) ==
  {n \in 1..Len(ranking) : IF ranking[n] \in Ids THEN docs[ranking[n]] # None ELSE ranking[n] \in others}

Rank(n, places)    == Cardinality({m \in places : m <= n})
Best(places, most) == {n \in places : Rank(n, places) <= most}

(* _rank_similarity, in tenths. *)
RankSimilarity(rank) == IF rank < 9 THEN 10 - rank ELSE 1

CaseAt(ranking, n) == Content[docs[ranking[n]]].case

(* The places at which a packet is seen first. *)
FirstPlaces(ranking, outcomes) ==
  {n \in outcomes : \A m \in outcomes : m < n => CaseAt(ranking, m) # CaseAt(ranking, n)}

(* Mutant: no more documents are asked of the index than hits are wanted.  *)
LabelledOfLimit(ranking) ==
  LET outcomes == {n \in Best(Matches(ranking), Limit) : ranking[n] \notin RuntimeDocs}
      first    == FirstPlaces(ranking, outcomes)
  IN  [n \in Best(first, Limit) |-> [case       |-> CaseAt(ranking, n),
                                     label      |-> Content[docs[ranking[n]]].label,
                                     similarity |-> RankSimilarity(Rank(n, first))]]

(* search_labeled_outcomes: among the best 4 * Limit documents of any      *)
(* kind, the outcomes, and of each packet the best; by its place.          *)
LabeledOutcomes(ranking) ==
  LET outcomes == {n \in Best(Matches(ranking), 4 * Limit) : ranking[n] \notin RuntimeDocs}
      first    == FirstPlaces(ranking, outcomes)
  IN  [n \in Best(first, Limit) |-> [case       |-> CaseAt(ranking, n),
                                     label      |-> Content[docs[ranking[n]]].label,
                                     similarity |-> RankSimilarity(Rank(n, first))]]

-----------------------------------------------------------------------------
Init ==
  /\ LogInit
  /\ torn = FALSE
  /\ rows = {}
  /\ docs = [i \in Ids |-> None]
  /\ others = {}
  /\ pc = [r \in Requests |-> "start"]
  /\ read = [r \in Requests |-> <<>>]
  /\ next = [r \in Requests |-> 1]
  /\ faults = 0

Step(r) == AppendLine(r) \/ RecordRow(r) \/ ReadLines(r) \/ UpsertDoc(r) \/ Answer(r)

Next == \/ \E r \in Requests : Receive(r) \/ Step(r)
        \/ IndexRuntimeDocs
        \/ Crash

Spec == Init /\ [][Next]_vars

-----------------------------------------------------------------------------
(* Properties *)

Points == {"start", "append", "metadata", "refresh", "upsert", "done"}

(* Every variable keeps its type, and a refresh its place in its lines.    *)
TypeOK ==
  /\ log \in Seq(Requests) /\ torn \in BOOLEAN
  /\ rows \subseteq Ids
  /\ docs \in [Ids -> Requests \cup {None}]
  /\ others \subseteq RuntimeDocs
  /\ answer \in [Requests -> Answers]
  /\ pc \in [Requests -> Points]
  /\ read \in [Requests -> Seq(Requests)]
  /\ next \in [Requests -> Nat \ {0}]
  /\ \A r \in Requests : next[r] <= Len(read[r]) + 1
  /\ faults \in 0..MaxFaults

(* The file leads: a document shows a line of the file with its id, and a  *)
(* row stands for one, whatever raised, ended or overlapped.  Only behind  *)
(* a damaged line can a row be left without its line.                      *)
IndexesFollowFile ==
  /\ \A i \in Ids : docs[i] # None => docs[i] \in Landed /\ IdOf(docs[i]) = i
  /\ rows \subseteq {IdOf(r) : r \in Landed} \/ torn

(* An admitted outcome is in the file, the table and the index, and so is  *)
(* every outcome its refresh read: those whose own admission failed or     *)
(* died after the append come into the index with the next that succeeds.  *)
AdmittedIsWhole ==
  \A r \in Requests : answer[r] = "admitted" =>
    /\ r \in Landed /\ IdOf(r) \in rows
    /\ \A n \in 1..Len(read[r]) : docs[IdOf(read[r][n])] # None
    /\ \E n \in 1..Len(read[r]) : read[r][n] = r

NewestLine(i) == LET places == {n \in 1..Len(log) : IdOf(log[n]) = i}
                 IN  log[CHOOSE n \in places : \A m \in places : m <= n]

(* When a refresh is through, each document shows the newest line of its   *)
(* id, so that a corrected label replaces the one it corrects, as long as  *)
(* admissions come one at a time: an overlapping refresh puts older lines  *)
(* back.                                                                   *)
RefreshIsCurrent ==
  \A r \in Requests : pc[r] = "upsert" /\ next[r] > Len(read[r]) =>
    \A i \in {IdOf(l) : l \in Landed} : docs[i] = NewestLine(i)

NoOverlap == \A r, s \in Requests : Running(r) /\ Running(s) => r = s

CurrentOneAtATime == []NoOverlap => []RefreshIsCurrent

(* However the index ranks its documents, a search returns at most Limit   *)
(* hits, each with a label that some landed outcome gave its packet, no    *)
(* packet twice, and, up to the nine that similarity tells apart, the      *)
(* earlier ones as more similar; and each packet that an outcome among the *)
(* best 4 * Limit matches labels is a hit, unless Limit others are.  So    *)
(* the documents of the runtime crowd a labelled case out only by 4 *      *)
(* Limit of them coming before it.                                         *)
HitsAreLabelled ==
  \A ranking \in Rankings :
    LET hits    == LabeledOutcomes(ranking)
        places  == DOMAIN hits
        matches == Matches(ranking)
    IN  /\ Cardinality(places) <= Limit
        /\ \A m, n \in places : m < n =>
             /\ hits[m].case # hits[n].case
             /\ Limit <= 9 => hits[m].similarity > hits[n].similarity
        /\ \A n \in places : \E r \in Landed :
             Content[r].case = hits[n].case /\ Content[r].label = hits[n].label
        /\ Cardinality(places) < Limit =>
             \A m \in matches : ranking[m] \in Ids /\ Rank(m, matches) <= 4 * Limit =>
               \E n \in places : hits[n].case = CaseAt(ranking, m)

(* The loop keeps the promise of OutcomeLog. *)
ImplementsLog == LogSpec

================================================================================
