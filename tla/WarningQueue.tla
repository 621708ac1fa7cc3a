---------------------------- MODULE WarningQueue ----------------------------
(***************************************************************************)
(* The durable queue of admitted SigNoz warnings: the SQLite index and the *)
(* queue_entry.json files of SignozWarningStore, the ingress handlers that *)
(* put warnings in it (receive_signoz_warning, enqueue_admitted_warning)   *)
(* and the workers that take them out (run_signoz_worker_once).            *)
(*                                                                         *)
(* The store takes no lock and no statement of it tests the state it       *)
(* overwrites: a SELECT, the rewrite of a file and an UPDATE are separate  *)
(* steps, and everything carried from one to the next may be stale.  Each  *)
(* of those steps is an action here.                                       *)
(*                                                                         *)
(* A warning is its warning_id, a number that orders the warnings as       *)
(* ORDER BY received_at, warning_id does.  Ids are taken to be distinct;   *)
(* how the store allots them, and when they collide, is AdmissionIds.      *)
(***************************************************************************)
EXTENDS Integers, FiniteSets

CONSTANTS
  Warnings,      \* the warnings that may be admitted, in the store's order
  Keys,          \* dedupe keys
  KeyOf,         \* the dedupe key of each warning
  Workers,       \* the processes that call run_signoz_worker_once
  MaxAttempts,   \* max_attempts of the worker
  AttemptCap,    \* where the model stops counting attempts
  HandlerLimit,  \* ingress requests handled at the same time
  MaxCrashes,    \* bound on the worker crashes of a behaviour
  Outcomes,      \* how the processor may end: see Settle
  None

ASSUME WarningsAssumption == Warnings \subseteq Nat /\ IsFiniteSet(Warnings)
ASSUME KeyAssumption      == KeyOf \in [Warnings -> Keys]
ASSUME AttemptAssumption  == /\ MaxAttempts \in Nat \ {0}
                             /\ AttemptCap \in Nat
                             /\ AttemptCap > MaxAttempts
ASSUME LimitAssumption    == HandlerLimit \in Nat \ {0} /\ MaxCrashes \in Nat
ASSUME OutcomeAssumption  == Outcomes \subseteq {"ok", "fail", "recover"}
ASSUME NoneAssumption     == None \notin Warnings /\ None \notin Workers

VARIABLES
  queue,     \* the queue columns of each row of the index
  entry,     \* the content of each queue_entry.json
  results,   \* the warnings whose processing_result.json exists
  recorded,  \* the warnings whose row holds the columns of a result
  cooling,   \* the warnings whose next_attempt_after is in the future
  adm,       \* where the ingress handler of each warning is
  seen,      \* the row its find_duplicate returned
  pc,        \* where each worker is in run_signoz_worker_once
  held,      \* the warning it works on
  cols,      \* the columns its next record_queue_state writes
  crashes,   \* worker crashes so far
  failures   \* history: processor exceptions per warning

ingressVars == <<adm, seen>>
workerVars  == <<pc, held, cols>>
storeVars   == <<queue, entry, results, recorded, cooling>>
vars == <<storeVars, ingressVars, workerVars, crashes, failures>>

-----------------------------------------------------------------------------
(* The rows and the entries *)

WAITING == "waiting_local_primary_recovery"

QueueState == {"pending", "processing", WAITING, "completed", "failed",
               "dead_letter", "deduped"}

ActiveDedupeStates == {"pending", "processing", WAITING, "completed", "failed"}

(* Mutant: claim_next_warning selects interrupted warnings too.            *)
ClaimableOrProcessing == {"pending", "failed", WAITING, "processing"}

ClaimableStates    == {"pending", "failed", WAITING}
BackoffStates      == {"failed", WAITING}
TerminalStates     == {"completed", "dead_letter", "deduped"}

(* State "null" is a NULL queue_state in a row, and no file for an entry.  *)
Columns == [state    : QueueState \cup {"null"},
            dupOf    : Warnings \cup {None},
            attempts : 0..AttemptCap,
            leasedBy : Workers \cup {None}]

Blank == [state |-> "null", dupOf |-> None, attempts |-> 0, leasedBy |-> None]

(* The code counts without limit and only compares with max_attempts, so   *)
(* the count may stop above it.                                            *)
Bump(n) == IF n < AttemptCap THEN n + 1 ELSE n

IsLeast(w, S) == w \in S /\ \A v \in S : w <= v

-----------------------------------------------------------------------------
(* Ingress: one handler per warning, HandlerLimit of them at a time *)

InFlight == {w \in Warnings : adm[w] \in {"persisted", "checked", "written"}}

(* persist_admission: the artifacts, then a row whose queue columns are    *)
(* NULL.                                                                   *)
PersistAdmission(w) ==
  /\ adm[w] = "new"
  /\ Cardinality(InFlight) < HandlerLimit
  /\ adm' = [adm EXCEPT ![w] = "persisted"]
  /\ queue' = [queue EXCEPT ![w] = Blank]
  /\ UNCHANGED <<entry, results, recorded, cooling, seen, workerVars, crashes, failures>>

(* Mutants: find_duplicate without its dedupe_key or with too few states.  *)
ActiveWithAnyKey(k) == {d \in Warnings : queue[d].state \in ActiveDedupeStates}
OpenWithKey(k) ==
  {d \in Warnings : KeyOf[d] = k /\ queue[d].state \in {"pending", "processing"}}

ActiveWithKey(k) ==
  {d \in Warnings : KeyOf[d] = k /\ queue[d].state \in ActiveDedupeStates}

(* enqueue_admitted_warning up to find_duplicate: what is found is kept    *)
(* while other handlers and the workers go on.  A row that has an entry is *)
(* returned as it is.                                                      *)
FindDuplicate(w) ==
  /\ adm[w] = "persisted"
  /\ queue[w].state = "null"
  /\ \/ \E d \in ActiveWithKey(KeyOf[w]) :
          /\ IsLeast(d, ActiveWithKey(KeyOf[w]))
          /\ seen' = [seen EXCEPT ![w] = d]
     \/ /\ ActiveWithKey(KeyOf[w]) = {}
        /\ seen' = [seen EXCEPT ![w] = None]
  /\ adm' = [adm EXCEPT ![w] = "checked"]
  /\ UNCHANGED <<storeVars, workerVars, crashes, failures>>

EnqueueColumns(w) ==
  IF seen[w] \notin {None, w}
  THEN [state |-> "deduped", dupOf |-> seen[w], attempts |-> 0, leasedBy |-> None]
  ELSE [state |-> "pending", dupOf |-> None, attempts |-> 0, leasedBy |-> None]

(* record_queue_state for the new warning: the file, then the row.         *)
EnqueueEntry(w) ==
  /\ adm[w] = "checked"
  /\ entry' = [entry EXCEPT ![w] = EnqueueColumns(w)]
  /\ adm' = [adm EXCEPT ![w] = "written"]
  /\ UNCHANGED <<queue, results, recorded, cooling, seen, workerVars, crashes, failures>>

EnqueueRow(w) ==
  /\ adm[w] = "written"
  /\ queue' = [queue EXCEPT ![w] = EnqueueColumns(w)]
  /\ adm' = [adm EXCEPT ![w] = "returned"]
  /\ UNCHANGED <<entry, results, recorded, cooling, seen, workerVars, crashes, failures>>

(* An exception or the end of the process: the caller gets a deferred      *)
(* receipt or nothing, and what was written stays.                         *)
IngressFails(w) ==
  /\ w \in InFlight
  /\ adm' = [adm EXCEPT ![w] = "failed"]
  /\ UNCHANGED <<storeVars, seen, workerVars, crashes, failures>>

-----------------------------------------------------------------------------
(* The workers *)

(* The rows claim_next_warning may take; an unset next_attempt_after never *)
(* holds a row back.                                                       *)
Eligible == {w \in Warnings : /\ queue[w].state \in ClaimableStates
                              /\ ~(queue[w].state \in BackoffStates /\ w \in cooling)}

(* The SELECT of claim_next_warning: the first eligible row, as it is now. *)
ClaimSelect(k) ==
  /\ pc[k] = "idle"
  /\ \E w \in Eligible :
       /\ IsLeast(w, Eligible)
       /\ held' = [held EXCEPT ![k] = w]
       /\ cols' = [cols EXCEPT ![k] =
                     [state |-> "processing", dupOf |-> queue[w].dupOf,
                      attempts |-> Bump(queue[w].attempts), leasedBy |-> k]]
  /\ pc' = [pc EXCEPT ![k] = "selected"]
  /\ UNCHANGED <<storeVars, ingressVars, crashes, failures>>

(* Its UPDATE, with the attempt count of the row it had read.              *)
ClaimUpdate(k) ==
  /\ pc[k] = "selected"
  /\ queue' = [queue EXCEPT ![held[k]] =
                 [state |-> "processing", dupOf |-> @.dupOf,
                  attempts |-> cols[k].attempts, leasedBy |-> k]]
  /\ cooling' = cooling \ {held[k]}
  /\ pc' = [pc EXCEPT ![k] = "recording"]
  /\ UNCHANGED <<entry, results, recorded, ingressVars, held, cols, crashes, failures>>

(* Mutant: an entry that exists is kept.                                   *)
RecordEntryOnce(k) ==
  /\ pc[k] = "recording"
  /\ entry' = IF entry[held[k]].state = "pending" THEN entry
              ELSE [entry EXCEPT ![held[k]] = cols[k]]
  /\ pc' = [pc EXCEPT ![k] = "written"]
  /\ UNCHANGED <<queue, results, recorded, cooling, ingressVars, held, cols, crashes, failures>>

(* record_queue_state: the rewrite of the entry ...                        *)
RecordEntry(k) ==
  /\ pc[k] = "recording"
  /\ entry' = [entry EXCEPT ![held[k]] = cols[k]]
  /\ pc' = [pc EXCEPT ![k] = "written"]
  /\ UNCHANGED <<queue, results, recorded, cooling, ingressVars, held, cols, crashes, failures>>

(* ... and the UPDATE of the row, after which the worker runs the warning, *)
(* stores the result columns or returns.                                   *)
RecordRow(k) ==
  /\ pc[k] = "written"
  /\ queue' = [queue EXCEPT ![held[k]] = cols[k]]
  /\ cooling' = IF cols[k].state \in BackoffStates
                THEN cooling \cup {held[k]} ELSE cooling \ {held[k]}
  /\ \/ /\ cols[k].state = "processing"
        /\ pc' = [pc EXCEPT ![k] = "running"]
        /\ UNCHANGED <<held, cols>>
     \/ /\ cols[k].state = "completed"
        /\ pc' = [pc EXCEPT ![k] = "closing"]
        /\ UNCHANGED <<held, cols>>
     \/ /\ cols[k].state \in {"failed", "dead_letter", WAITING}
        /\ pc' = [pc EXCEPT ![k] = "idle"]
        /\ held' = [held EXCEPT ![k] = None]
        /\ cols' = [cols EXCEPT ![k] = Blank]
  /\ UNCHANGED <<entry, results, recorded, ingressVars, crashes, failures>>

(* What record_queue_state will write once the processor has ended: both   *)
(* mark_* functions and record_processing_result keep the attempt count of *)
(* the row they read then and drop the lease.                              *)
SettledColumns(w, state) ==
  [state |-> state, dupOf |-> queue[w].dupOf,
   attempts |-> queue[w].attempts, leasedBy |-> None]

(* Mutants of the state mark_warning_failed chooses.                       *)
FailureStateOneMore(w)  == IF queue[w].attempts > MaxAttempts THEN "dead_letter" ELSE "failed"
FailureStateForever(w)  == "failed"

FailureState(w) == IF queue[w].attempts >= MaxAttempts THEN "dead_letter" ELSE "failed"

(* Mutants: the state completed is recorded before the result file is      *)
(* written; the worker drops an exception and returns.                     *)
SettleOkEarly(k) ==
  /\ "ok" \in Outcomes
  /\ pc[k] = "running"
  /\ cols' = [cols EXCEPT ![k] = SettledColumns(held[k], "completed")]
  /\ pc' = [pc EXCEPT ![k] = "recording"]
  /\ UNCHANGED <<storeVars, ingressVars, held, crashes, failures>>

SettleFailureSilent(k) ==
  /\ "fail" \in Outcomes
  /\ pc[k] = "running"
  /\ pc' = [pc EXCEPT ![k] = "idle"]
  /\ held' = [held EXCEPT ![k] = None]
  /\ cols' = [cols EXCEPT ![k] = Blank]
  /\ UNCHANGED <<storeVars, ingressVars, crashes, failures>>

(* The processor returns a result, raises LocalPrimaryRecoveryRequired, or *)
(* raises anything else; the row is read back.                             *)
SettleOk(k) ==
  /\ "ok" \in Outcomes
  /\ pc[k] = "running"
  /\ cols' = [cols EXCEPT ![k] = SettledColumns(held[k], "completed")]
  /\ pc' = [pc EXCEPT ![k] = "resulting"]
  /\ UNCHANGED <<storeVars, ingressVars, held, crashes, failures>>

SettleRecovery(k) ==
  /\ "recover" \in Outcomes
  /\ pc[k] = "running"
  /\ cols' = [cols EXCEPT ![k] = SettledColumns(held[k], WAITING)]
  /\ pc' = [pc EXCEPT ![k] = "recording"]
  /\ UNCHANGED <<storeVars, ingressVars, held, crashes, failures>>

SettleFailure(k) ==
  /\ "fail" \in Outcomes
  /\ pc[k] = "running"
  /\ cols' = [cols EXCEPT ![k] = SettledColumns(held[k], FailureState(held[k]))]
  /\ failures' = [failures EXCEPT ![held[k]] = Bump(@)]
  /\ pc' = [pc EXCEPT ![k] = "recording"]
  /\ UNCHANGED <<storeVars, ingressVars, held, crashes>>

(* record_processing_result: the result file before record_queue_state ... *)
WriteResult(k) ==
  /\ pc[k] = "resulting"
  /\ results' = results \cup {held[k]}
  /\ pc' = [pc EXCEPT ![k] = "recording"]
  /\ UNCHANGED <<queue, entry, recorded, cooling, ingressVars, held, cols, crashes, failures>>

(* ... and the result columns after it.                                    *)
RecordResult(k) ==
  /\ pc[k] = "closing"
  /\ recorded' = recorded \cup {held[k]}
  /\ queue' = [queue EXCEPT ![held[k]].leasedBy = None]
  /\ pc' = [pc EXCEPT ![k] = "idle"]
  /\ held' = [held EXCEPT ![k] = None]
  /\ cols' = [cols EXCEPT ![k] = Blank]
  /\ UNCHANGED <<entry, results, cooling, ingressVars, crashes, failures>>

(* The worker process ends, or a store call raises, between any two steps; *)
(* the next call of run_signoz_worker_once starts afresh.                  *)
WorkerCrash(k) ==
  /\ pc[k] # "idle"
  /\ crashes < MaxCrashes
  /\ crashes' = crashes + 1
  /\ pc' = [pc EXCEPT ![k] = "idle"]
  /\ held' = [held EXCEPT ![k] = None]
  /\ cols' = [cols EXCEPT ![k] = Blank]
  /\ UNCHANGED <<storeVars, ingressVars, failures>>

(* Time passes next_attempt_after.                                         *)
BackoffElapses(w) ==
  /\ w \in cooling
  /\ cooling' = cooling \ {w}
  /\ UNCHANGED <<queue, entry, results, recorded, ingressVars, workerVars, crashes, failures>>

-----------------------------------------------------------------------------
Init ==
  /\ queue = [w \in Warnings |-> Blank]
  /\ entry = [w \in Warnings |-> Blank]
  /\ results = {} /\ recorded = {} /\ cooling = {}
  /\ adm = [w \in Warnings |-> "new"]
  /\ seen = [w \in Warnings |-> None]
  /\ pc = [k \in Workers |-> "idle"]
  /\ held = [k \in Workers |-> None]
  /\ cols = [k \in Workers |-> Blank]
  /\ crashes = 0
  /\ failures = [w \in Warnings |-> 0]

Handler(w) == \/ FindDuplicate(w) \/ EnqueueEntry(w) \/ EnqueueRow(w)

Settle(k) == SettleOk(k) \/ SettleRecovery(k) \/ SettleFailure(k)

Worker(k) == \/ ClaimSelect(k) \/ ClaimUpdate(k) \/ RecordEntry(k) \/ RecordRow(k)
             \/ Settle(k) \/ WriteResult(k) \/ RecordResult(k)

Next ==
  \/ \E w \in Warnings : \/ PersistAdmission(w) \/ Handler(w)
                         \/ IngressFails(w) \/ BackoffElapses(w)
  \/ \E k \in Workers : Worker(k) \/ WorkerCrash(k)

Spec == Init /\ [][Next]_vars

(* Handlers run in the web server's thread pool until they return, the     *)
(* operator keeps calling the worker, and time passes.  Nothing has to be  *)
(* admitted, to fail or to crash.                                          *)
Fairness ==
  /\ \A w \in Warnings : WF_vars(Handler(w)) /\ WF_vars(BackoffElapses(w))
  /\ \A k \in Workers : WF_vars(Worker(k))

FairSpec == Spec /\ Fairness

-----------------------------------------------------------------------------
(* Properties *)

WorkerPoints == {"idle", "selected", "recording", "written", "running",
                 "resulting", "closing"}

(* Every variable keeps its type; a worker holds a warning and columns     *)
(* exactly while it is in run_signoz_worker_once.                          *)
TypeOK ==
  /\ queue \in [Warnings -> Columns]
  /\ entry \in [Warnings -> Columns]
  /\ results \subseteq Warnings
  /\ recorded \subseteq Warnings
  /\ cooling \subseteq Warnings
  /\ adm \in [Warnings -> {"new", "persisted", "checked", "written", "returned", "failed"}]
  /\ seen \in [Warnings -> Warnings \cup {None}]
  /\ pc \in [Workers -> WorkerPoints]
  /\ held \in [Workers -> Warnings \cup {None}]
  /\ cols \in [Workers -> Columns]
  /\ \A k \in Workers : held[k] = None <=> pc[k] = "idle"
  /\ crashes \in 0..MaxCrashes
  /\ failures \in [Warnings -> 0..AttemptCap]

(* A suppressed warning is never lost in a chain or a cycle: the row that  *)
(* stands in for it has its key and is, for good, in the processing path.  *)
(* find_duplicate is read long before the suppression is stored, and other *)
(* handlers and workers run in between (enqueue_admitted_warning).         *)
SuppressedByQueued ==
  \A w \in Warnings : queue[w].state = "deduped" =>
    LET d == queue[w].dupOf
    IN  /\ d \in Warnings \ {w}
        /\ KeyOf[d] = KeyOf[w]
        /\ queue[d].state \notin {"null", "deduped"}

(* queue_entry.json is rewritten before the row, and a crash may fall in   *)
(* between.  The entry still tells the truth about every row that can be   *)
(* claimed or is finished: only a row without a state or one left in       *)
(* processing may disagree with its file (record_queue_state).             *)
EntryIsTrue ==
  \A w \in Warnings :
    queue[w].state \notin {"null", "processing"} => entry[w] = queue[w]

(* A completed row has its processing_result.json: the file is written     *)
(* before the state, and nothing completes a row by another path.          *)
ResultBeforeCompletion ==
  \A w \in Warnings : queue[w].state = "completed" => w \in results

(* The columns of a result are found in completed rows only: a row that    *)
(* counts as analysed is not going to be analysed again                    *)
(* (record_processing_result stores them last).                            *)
ResultOnlyWhenCompleted == \A w \in recorded : queue[w].state = "completed"

(* A warning makes the processor fail at most max_attempts times, however  *)
(* its failures, recovery waits and crashes are mixed (mark_warning_failed *)
(* reads the count that claim_next_warning wrote).                         *)
FailuresBounded == \A w \in Warnings : failures[w] <= MaxAttempts

(* A row in processing that no worker is executing was left by a crash,    *)
(* and each crash leaves at most one.                                      *)
Stranded == {w \in Warnings : /\ queue[w].state = "processing"
                              /\ \A k \in Workers : held[k] # w}

StrandedByCrash == Cardinality(Stranded) <= crashes

(* completed, dead_letter and deduped are final: no late write of a worker *)
(* or a handler takes a row out of them.                                   *)
TerminalIsFinal ==
  [][\A w \in Warnings :
       queue[w].state \in TerminalStates => queue'[w].state = queue[w].state]_vars

(* A failed or waiting row is not taken again before next_attempt_after.   *)
BackoffRespected ==
  [][\A w \in Warnings :
       queue[w].state \in BackoffStates /\ queue'[w].state = "processing"
         => w \notin cooling]_vars

(* Two warnings with one dedupe key are never both in an active state:     *)
(* the duplicate of a firing alert is not analysed a second time.          *)
OneActivePerKey ==
  \A v, w \in Warnings :
    KeyOf[v] = KeyOf[w] /\ {queue[v].state, queue[w].state} \subseteq ActiveDedupeStates
      => v = w

(* While ingress requests do not overlap, which the code does not ensure,  *)
(* the two steps of enqueue_admitted_warning keep that promise.            *)
NoOverlap == \A v, w \in InFlight : v = w

SerialIngressDedupes == []NoOverlap => []OneActivePerKey

(* The queue implements the ledger its governance describes: one warning   *)
(* at a time, no step out of a final state, no suppression without a       *)
(* stand-in (see WarningLedger).                                           *)
Ledger == INSTANCE WarningLedger WITH
  ledger  <- [w \in Warnings |-> queue[w].state],
  running <- {held[k] : k \in {j \in Workers : pc[j] \notin {"idle", "selected", "closing"}}}

ImplementsLedger == Ledger!Spec

(* Every warning whose handler returned ends completed, suppressed or dead *)
(* lettered, also behind older warnings that keep failing.                 *)
AdmittedSettles ==
  \A w \in Warnings : adm[w] = "returned" ~> queue[w].state \in TerminalStates

(* A row in processing does not stay there.                                *)
WorkIsResumed ==
  \A w \in Warnings : queue[w].state = "processing" ~> queue[w].state # "processing"

-----------------------------------------------------------------------------
(* Inductive invariants, for WarningQueueProofs *)

(* Row d stands in for the suppressed warning w. *)
StandsIn(d, w) ==
  /\ d \in Warnings \ {w}
  /\ KeyOf[d] = KeyOf[w]
  /\ queue[d].state \notin {"null", "deduped"}

(* Whatever the number of workers: a row without a handler's answer has no *)
(* state, what a handler has seen can still stand in for its warning, and  *)
(* workers only ever touch rows in the processing path.                    *)
QueueInv ==
  /\ \A w \in Warnings : adm[w] # "returned" => queue[w].state = "null"
  /\ \A w \in Warnings :
       adm[w] \in {"checked", "written"} /\ seen[w] # None => StandsIn(seen[w], w)
  /\ \A w \in Warnings : queue[w].state = "deduped" => StandsIn(queue[w].dupOf, w)
  /\ \A k \in Workers : pc[k] # "idle" =>
       /\ queue[held[k]].state \notin {"null", "deduped"}
       /\ cols[k].state \in {"processing", "completed", "failed", "dead_letter", WAITING}

(* A worker about to record or store a result has written its file.        *)
ResultInv ==
  \A k \in Workers :
    /\ pc[k] = "selected" => cols[k].state = "processing"
    /\ pc[k] = "closing" => held[k] \in results
    /\ pc[k] \in {"recording", "written"} /\ cols[k].state = "completed"
         => held[k] \in results

(* Rows in processing that no worker will write again, except perhaps to   *)
(* drop the lease.                                                         *)
Abandoned == {w \in Warnings : /\ queue[w].state = "processing"
                               /\ \A k \in Workers : held[k] = w => pc[k] = "closing"}

(* With one worker, what it carries agrees with the row it works on.       *)
HoldInv(k) ==
  /\ pc[k] = "selected" =>
       /\ queue[held[k]].state \in ClaimableStates
       /\ queue[held[k]].state \in BackoffStates => held[k] \notin cooling
  /\ pc[k] \in {"selected", "running"} => cols[k].state = "processing"
  /\ pc[k] \in {"recording", "written", "running", "resulting"} =>
       queue[held[k]].state = "processing"
  /\ pc[k] \in {"recording", "written", "running", "resulting"} =>
       queue[held[k]].attempts = cols[k].attempts
  /\ pc[k] = "written" => entry[held[k]] = cols[k]
  /\ pc[k] \in {"resulting", "closing"} => cols[k].state = "completed"
  /\ pc[k] \in {"recording", "written", "resulting"} /\ cols[k].state # "processing" =>
       cols[k].leasedBy = None
  /\ pc[k] = "closing" => /\ queue[held[k]].state = "completed"
                          /\ queue[held[k]].leasedBy = None

(* Failures stay below the attempts, and leave room for one more wherever  *)
(* another run may follow.                                                 *)
RetryInv ==
  /\ \A w \in Warnings :
       /\ failures[w] <= MaxAttempts
       /\ failures[w] <= queue[w].attempts
       /\ queue[w].state = "null" => failures[w] = 0
       /\ queue[w].state \in ClaimableStates => failures[w] < MaxAttempts
  /\ \A k \in Workers :
       /\ pc[k] # "idle" /\ cols[k].state = "processing" =>
            failures[held[k]] < MaxAttempts /\ failures[held[k]] < cols[k].attempts
       /\ pc[k] \in {"recording", "written"} /\ cols[k].state \in BackoffStates =>
            failures[held[k]] < MaxAttempts

SoloInv ==
  /\ EntryIsTrue
  /\ \A w \in Warnings : adm[w] = "written" => entry[w] = EnqueueColumns(w)
  /\ ResultOnlyWhenCompleted
  /\ \A k \in Workers : HoldInv(k)

(* With one handler at a time, none of its key is active while it decides. *)
SerialInv ==
  /\ \A w \in Warnings : adm[w] \in {"checked", "written"} /\ seen[w] = None =>
       ActiveWithKey(KeyOf[w]) = {}
  /\ OneActivePerKey

=============================================================================
