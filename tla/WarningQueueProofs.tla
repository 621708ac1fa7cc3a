------------------------- MODULE WarningQueueProofs -------------------------
(***************************************************************************)
(* Theorems about WarningQueue, for every set of warnings and workers and  *)
(* every bound.  The first part holds for any number of workers, the       *)
(* second for the one worker the governance of the queue assumes, for      *)
(* which the third shows that the queue refines WarningLedger.             *)
(***************************************************************************)
EXTENDS WarningQueue, FiniteSetTheorems, TLAPS

-----------------------------------------------------------------------------
(* Any number of workers *)

LEMMA BumpType == \A n \in 0..AttemptCap : Bump(n) \in 0..AttemptCap /\ n <= Bump(n)
BY AttemptAssumption DEF Bump

LEMMA BlankType == Blank \in Columns
BY AttemptAssumption DEF Blank, Columns

LEMMA EnqueueColumnsType ==
  ASSUME TypeOK, NEW w \in Warnings
  PROVE  EnqueueColumns(w) \in Columns
BY AttemptAssumption DEF TypeOK, EnqueueColumns, Columns, QueueState

LEMMA SettledColumnsType ==
  ASSUME TypeOK, NEW w \in Warnings, NEW s \in QueueState
  PROVE  SettledColumns(w, s) \in Columns
BY DEF TypeOK, SettledColumns, Columns

(* Every step keeps the types. *)
LEMMA TypeStep == TypeOK /\ [Next]_vars => TypeOK'
<1> SUFFICES ASSUME TypeOK, [Next]_vars PROVE TypeOK'
  OBVIOUS
<1> USE DEF TypeOK, storeVars, ingressVars, workerVars
<1>1. ASSUME NEW w \in Warnings, PersistAdmission(w) PROVE TypeOK'
  BY <1>1, BlankType DEF PersistAdmission
<1>2. ASSUME NEW w \in Warnings, FindDuplicate(w) PROVE TypeOK'
  BY <1>2 DEF FindDuplicate, ActiveWithKey
<1>3. ASSUME NEW w \in Warnings, EnqueueEntry(w) PROVE TypeOK'
  BY <1>3, EnqueueColumnsType DEF EnqueueEntry
<1>4. ASSUME NEW w \in Warnings, EnqueueRow(w) PROVE TypeOK'
  BY <1>4, EnqueueColumnsType DEF EnqueueRow
<1>5. ASSUME NEW w \in Warnings, IngressFails(w) PROVE TypeOK'
  BY <1>5 DEF IngressFails
<1>6. ASSUME NEW w \in Warnings, BackoffElapses(w) PROVE TypeOK'
  BY <1>6 DEF BackoffElapses
<1>7. ASSUME NEW k \in Workers, ClaimSelect(k) PROVE TypeOK'
  <2>1. PICK w \in Eligible :
          /\ held' = [held EXCEPT ![k] = w]
          /\ cols' = [cols EXCEPT ![k] =
                        [state |-> "processing", dupOf |-> queue[w].dupOf,
                         attempts |-> Bump(queue[w].attempts), leasedBy |-> k]]
    BY <1>7 DEF ClaimSelect
  <2>2. w \in Warnings /\ queue[w] \in Columns /\ w # None
    BY <2>1, NoneAssumption DEF Eligible
  <2>3. [state |-> "processing", dupOf |-> queue[w].dupOf,
         attempts |-> Bump(queue[w].attempts), leasedBy |-> k] \in Columns
    BY <2>2, BumpType DEF Columns, QueueState
  <2> QED
    BY <1>7, <2>1, <2>2, <2>3 DEF ClaimSelect, WorkerPoints
<1>8. ASSUME NEW k \in Workers, ClaimUpdate(k) PROVE TypeOK'
  <2>1. held[k] \in Warnings
    BY <1>8 DEF ClaimUpdate
  <2>2. [state |-> "processing", dupOf |-> queue[held[k]].dupOf,
         attempts |-> cols[k].attempts, leasedBy |-> k] \in Columns
    BY <2>1 DEF Columns, QueueState
  <2> QED
    BY <1>8, <2>1, <2>2 DEF ClaimUpdate, WorkerPoints
<1>9. ASSUME NEW k \in Workers, RecordEntry(k) PROVE TypeOK'
  BY <1>9 DEF RecordEntry, WorkerPoints
<1>10. ASSUME NEW k \in Workers, RecordRow(k) PROVE TypeOK'
  <2>1. held[k] \in Warnings
    BY <1>10 DEF RecordRow
  <2>2. queue' \in [Warnings -> Columns] /\ cooling' \subseteq Warnings
    BY <1>10, <2>1 DEF RecordRow
  <2>3. CASE pc' = [pc EXCEPT ![k] = "idle"] /\ held' = [held EXCEPT ![k] = None]
             /\ cols' = [cols EXCEPT ![k] = Blank]
    BY <1>10, <2>2, <2>3, BlankType DEF RecordRow, WorkerPoints
  <2>4. CASE UNCHANGED <<held, cols>> /\ \E p \in {"running", "closing"} : pc' = [pc EXCEPT ![k] = p]
    BY <1>10, <2>1, <2>2, <2>4, NoneAssumption DEF RecordRow, WorkerPoints
  <2> QED
    BY <1>10, <2>3, <2>4 DEF RecordRow
<1>11. ASSUME NEW k \in Workers, Settle(k) PROVE TypeOK'
  <2>1. held[k] \in Warnings
    BY <1>11 DEF Settle, SettleOk, SettleRecovery, SettleFailure
  <2>2. /\ SettledColumns(held[k], "completed") \in Columns
        /\ SettledColumns(held[k], WAITING) \in Columns
        /\ SettledColumns(held[k], FailureState(held[k])) \in Columns
    BY <2>1, SettledColumnsType DEF FailureState, QueueState
  <2>3. CASE SettleOk(k)
    BY <2>1, <2>2, <2>3 DEF SettleOk, WorkerPoints
  <2>4. CASE SettleRecovery(k)
    BY <2>1, <2>2, <2>4 DEF SettleRecovery, WorkerPoints
  <2>5. CASE SettleFailure(k)
    BY <2>1, <2>2, <2>5, BumpType DEF SettleFailure, WorkerPoints
  <2> QED
    BY <1>11, <2>3, <2>4, <2>5 DEF Settle
<1>12. ASSUME NEW k \in Workers, WriteResult(k) PROVE TypeOK'
  BY <1>12 DEF WriteResult, WorkerPoints
<1>13. ASSUME NEW k \in Workers, RecordResult(k) PROVE TypeOK'
  <2>1. held[k] \in Warnings
    BY <1>13 DEF RecordResult
  <2>2. [queue[held[k]] EXCEPT !.leasedBy = None] \in Columns
    BY <2>1 DEF Columns
  <2> QED
    BY <1>13, <2>1, <2>2, BlankType DEF RecordResult, WorkerPoints
<1>14. ASSUME NEW k \in Workers, WorkerCrash(k) PROVE TypeOK'
  BY <1>14, BlankType, LimitAssumption DEF WorkerCrash, WorkerPoints
<1>15. CASE UNCHANGED vars
  BY <1>15 DEF vars
<1> QED
  BY <1>1, <1>2, <1>3, <1>4, <1>5, <1>6, <1>7, <1>8, <1>9, <1>10, <1>11,
     <1>12, <1>13, <1>14, <1>15 DEF Next, Handler, Worker

(* Every reachable state of the store, the handlers and the workers is     *)
(* well typed (SignozWarningStore, run_signoz_worker_once).                *)
THEOREM TypeCorrect == Spec => []TypeOK
<1>1. Init => TypeOK
  BY BlankType, AttemptAssumption, LimitAssumption DEF Init, TypeOK, WorkerPoints
<1> QED
  BY <1>1, TypeStep, PTL DEF Spec

-----------------------------------------------------------------------------
(* Suppression *)

(* Rows in the processing path stay there, and no row loses its state.     *)
LEMMA StandInStays ==
  ASSUME NEW d, NEW w \in Warnings, StandsIn(d, w),
         NEW v \in Warnings, NEW c \in Columns, TypeOK,
         queue' = [queue EXCEPT ![v] = c],
         v # d \/ c.state \notin {"null", "deduped"}
  PROVE  StandsIn(d, w)'
BY DEF StandsIn, TypeOK

(* The part of QueueInv about rows and handlers, after a worker's write.   *)
StandInsKept ==
  /\ \A w \in Warnings : adm'[w] # "returned" => queue'[w].state = "null"
  /\ \A w \in Warnings :
       adm'[w] \in {"checked", "written"} /\ seen'[w] # None => StandsIn(seen[w], w)'
  /\ \A w \in Warnings : queue'[w].state = "deduped" => StandsIn(queue[w].dupOf, w)'
  /\ \A w \in Warnings : queue[w].state \notin {"null", "deduped"} =>
       queue'[w].state \notin {"null", "deduped"}

LEMMA WorkerWrite ==
  ASSUME TypeOK, QueueInv, NEW k \in Workers, pc[k] # "idle",
         NEW c \in Columns, c.state \notin {"null", "deduped"},
         queue' = [queue EXCEPT ![held[k]] = c],
         UNCHANGED ingressVars
  PROVE  StandInsKept
<1>1. held[k] \in Warnings /\ queue[held[k]].state \notin {"null", "deduped"}
  BY DEF TypeOK, QueueInv
<1>2. \A w \in Warnings : queue'[w] = IF w = held[k] THEN c ELSE queue[w]
  BY <1>1 DEF TypeOK
<1>3. \A d, w \in Warnings : StandsIn(d, w) => StandsIn(d, w)'
  BY <1>1, StandInStays
<1> QED
  BY <1>1, <1>2, <1>3 DEF QueueInv, TypeOK, ingressVars, StandsIn, StandInsKept

LEMMA QueueInvStep == TypeOK /\ QueueInv /\ [Next]_vars => QueueInv'
<1> SUFFICES ASSUME TypeOK, QueueInv, [Next]_vars PROVE QueueInv'
  OBVIOUS
<1>t. TypeOK'
  BY TypeStep
<1> USE DEF storeVars, ingressVars, workerVars
<1>1. ASSUME NEW w \in Warnings, PersistAdmission(w) PROVE QueueInv'
  <2>1. queue[w].state = "null" /\ queue'[w].state = "null"
    BY <1>1 DEF PersistAdmission, QueueInv, TypeOK, Blank
  <2>2. \A v \in Warnings : queue'[v] = queue[v] \/ v = w
    BY <1>1 DEF PersistAdmission, TypeOK
  <2>3. \A d, v \in Warnings : StandsIn(d, v) => StandsIn(d, v)'
    BY <2>1, <2>2 DEF StandsIn
  <2>4. \A v \in Warnings : queue'[v].state = "deduped" => StandsIn(queue[v].dupOf, v)'
    BY <2>1, <2>2, <2>3 DEF QueueInv, TypeOK, StandsIn
  <2>5. /\ \A v \in Warnings : adm'[v] # "returned" => queue'[v].state = "null"
        /\ \A v \in Warnings :
             adm'[v] \in {"checked", "written"} /\ seen'[v] # None => StandsIn(seen[v], v)'
    BY <1>1, <2>1, <2>2, <2>3 DEF PersistAdmission, QueueInv, TypeOK, StandsIn
  <2>6. \A k \in Workers : pc[k] # "idle" => queue'[held[k]].state \notin {"null", "deduped"}
    BY <2>1, <2>2 DEF QueueInv, TypeOK
  <2> QED
    BY <1>1, <2>4, <2>5, <2>6 DEF PersistAdmission, QueueInv
<1>2. ASSUME NEW w \in Warnings, FindDuplicate(w) PROVE QueueInv'
  <2>1. seen'[w] # None => StandsIn(seen'[w], w)
    BY <1>2 DEF FindDuplicate, ActiveWithKey, ActiveDedupeStates, WAITING, StandsIn, TypeOK, IsLeast
  <2> QED
    BY <1>2, <2>1 DEF FindDuplicate, QueueInv, TypeOK, StandsIn
<1>3. ASSUME NEW w \in Warnings, EnqueueEntry(w) PROVE QueueInv'
  BY <1>3 DEF EnqueueEntry, QueueInv, TypeOK, StandsIn
<1>4. ASSUME NEW w \in Warnings, EnqueueRow(w) PROVE QueueInv'
  <2>1. queue[w].state = "null" /\ EnqueueColumns(w) \in Columns
    BY <1>4, EnqueueColumnsType DEF EnqueueRow, QueueInv
  <2>2. \A d, v \in Warnings : StandsIn(d, v) => StandsIn(d, v)'
    BY <1>4, <2>1 DEF EnqueueRow, StandsIn, TypeOK
  <2>3. /\ queue'[w].state \in {"pending", "deduped"}
        /\ queue'[w].state = "deduped" => StandsIn(seen[w], w) /\ queue'[w].dupOf = seen[w]
    BY <1>4 DEF EnqueueRow, EnqueueColumns, QueueInv, TypeOK
  <2>4. \A v \in Warnings : queue'[v].state = "deduped" => StandsIn(queue[v].dupOf, v)'
    BY <1>4, <2>2, <2>3 DEF EnqueueRow, QueueInv, TypeOK, StandsIn
  <2>5. /\ \A v \in Warnings : adm'[v] # "returned" => queue'[v].state = "null"
        /\ \A v \in Warnings :
             adm'[v] \in {"checked", "written"} /\ seen'[v] # None => StandsIn(seen[v], v)'
    BY <1>4, <2>2 DEF EnqueueRow, QueueInv, TypeOK, StandsIn
  <2>6. \A k \in Workers : pc'[k] # "idle" => queue'[held'[k]].state \notin {"null", "deduped"}
    BY <1>4, <2>1 DEF EnqueueRow, QueueInv, TypeOK
  <2> QED
    BY <1>4, <2>4, <2>5, <2>6 DEF EnqueueRow, QueueInv
<1>5. ASSUME NEW w \in Warnings, IngressFails(w) PROVE QueueInv'
  BY <1>5 DEF IngressFails, InFlight, QueueInv, TypeOK, StandsIn
<1>6. ASSUME NEW w \in Warnings, BackoffElapses(w) PROVE QueueInv'
  BY <1>6 DEF BackoffElapses, QueueInv, StandsIn
<1>7. ASSUME NEW k \in Workers, ClaimSelect(k) PROVE QueueInv'
  <2>1. /\ held'[k] \in Eligible
        /\ cols'[k].state = "processing"
        /\ \A j \in Workers \ {k} : held'[j] = held[j] /\ cols'[j] = cols[j] /\ pc'[j] = pc[j]
    BY <1>7 DEF ClaimSelect, IsLeast, TypeOK
  <2>2. queue[held'[k]].state \notin {"null", "deduped"}
    BY <2>1 DEF Eligible, ClaimableStates, WAITING
  <2> QED
    BY <1>7, <2>1, <2>2 DEF ClaimSelect, QueueInv, StandsIn
<1>8. ASSUME NEW k \in Workers, ClaimUpdate(k) PROVE QueueInv'
  <2> DEFINE c == [state |-> "processing", dupOf |-> queue[held[k]].dupOf,
                   attempts |-> cols[k].attempts, leasedBy |-> k]
  <2>1. held[k] \in Warnings /\ queue' = [queue EXCEPT ![held[k]] = c]
    BY <1>8 DEF ClaimUpdate, TypeOK
  <2>2. c \in Columns /\ c.state \notin {"null", "deduped"}
    BY <2>1 DEF TypeOK, Columns, QueueState
  <2>3. UNCHANGED <<ingressVars, held, cols>> /\ pc[k] # "idle" /\ pc' = [pc EXCEPT ![k] = "recording"]
    BY <1>8 DEF ClaimUpdate
  <2> HIDE DEF c
  <2>4. StandInsKept
    BY <2>1, <2>2, <2>3, WorkerWrite
  <2> QED
    BY <2>1, <2>3, <2>4 DEF StandInsKept, QueueInv, TypeOK
<1>9. ASSUME NEW k \in Workers, RecordEntry(k) PROVE QueueInv'
  BY <1>9 DEF RecordEntry, QueueInv, StandsIn, TypeOK
<1>10. ASSUME NEW k \in Workers, RecordRow(k) PROVE QueueInv'
  <2>1. /\ pc[k] # "idle" /\ cols[k] \in Columns
        /\ cols[k].state \notin {"null", "deduped"}
        /\ queue' = [queue EXCEPT ![held[k]] = cols[k]]
        /\ UNCHANGED ingressVars
    BY <1>10 DEF RecordRow, QueueInv, TypeOK, WAITING
  <2>2. \A j \in Workers : \/ pc'[j] = "idle"
                           \/ held'[j] = held[j] /\ cols'[j] = cols[j] /\ pc[j] # "idle"
    BY <1>10 DEF RecordRow, TypeOK
  <2>3. StandInsKept
    BY <2>1, WorkerWrite
  <2> QED
    BY <2>1, <2>2, <2>3 DEF StandInsKept, QueueInv, TypeOK
<1>11. ASSUME NEW k \in Workers, Settle(k) PROVE QueueInv'
  <2>1. /\ UNCHANGED <<queue, ingressVars, held>>
        /\ pc[k] # "idle"
        /\ \A j \in Workers \ {k} : cols'[j] = cols[j] /\ pc'[j] = pc[j]
        /\ cols'[k].state \in {"completed", "failed", "dead_letter", WAITING}
    BY <1>11 DEF Settle, SettleOk, SettleRecovery, SettleFailure, SettledColumns,
                 FailureState, TypeOK
  <2> QED
    BY <2>1 DEF QueueInv, StandsIn
<1>12. ASSUME NEW k \in Workers, WriteResult(k) PROVE QueueInv'
  BY <1>12 DEF WriteResult, QueueInv, StandsIn, TypeOK
<1>13. ASSUME NEW k \in Workers, RecordResult(k) PROVE QueueInv'
  <2> DEFINE c == [queue[held[k]] EXCEPT !.leasedBy = None]
  <2>1. held[k] \in Warnings /\ pc[k] # "idle" /\ queue' = [queue EXCEPT ![held[k]] = c]
    BY <1>13 DEF RecordResult, TypeOK
  <2>2. c \in Columns /\ c.state = queue[held[k]].state
    BY <2>1 DEF TypeOK, Columns
  <2>3. queue[held[k]].state \notin {"null", "deduped"}
    BY <2>1 DEF QueueInv
  <2>4. \A j \in Workers : \/ pc'[j] = "idle"
                           \/ held'[j] = held[j] /\ cols'[j] = cols[j] /\ pc[j] # "idle"
    BY <1>13 DEF RecordResult, TypeOK
  <2>5. UNCHANGED ingressVars
    BY <1>13 DEF RecordResult
  <2> HIDE DEF c
  <2>6. StandInsKept
    BY <2>1, <2>2, <2>3, <2>5, WorkerWrite
  <2> QED
    BY <2>4, <2>6 DEF StandInsKept, QueueInv, TypeOK
<1>14. ASSUME NEW k \in Workers, WorkerCrash(k) PROVE QueueInv'
  BY <1>14 DEF WorkerCrash, QueueInv, StandsIn, TypeOK
<1>15. CASE UNCHANGED vars
  BY <1>15 DEF vars, QueueInv, StandsIn
<1> QED
  BY <1>1, <1>2, <1>3, <1>4, <1>5, <1>6, <1>7, <1>8, <1>9, <1>10, <1>11,
     <1>12, <1>13, <1>14, <1>15 DEF Next, Handler, Worker

LEMMA QueueInvHolds == Spec => [](TypeOK /\ QueueInv)
<1>1. Init => QueueInv
  BY NoneAssumption DEF Init, QueueInv, Blank
<1> QED
  BY <1>1, QueueInvStep, TypeCorrect, PTL DEF Spec

(* However many handlers and workers race, a suppressed warning has a      *)
(* stand-in that is not itself suppressed: no alert is lost in a chain or  *)
(* a cycle of duplicates (enqueue_admitted_warning).                       *)
THEOREM SuppressionSafe == Spec => []SuppressedByQueued
<1>1. QueueInv => SuppressedByQueued
  BY DEF QueueInv, SuppressedByQueued, StandsIn
<1> QED
  BY <1>1, QueueInvHolds, PTL

-----------------------------------------------------------------------------
(* Results *)

LEMMA ResultInvStep ==
  TypeOK /\ QueueInv /\ ResultInv /\ ResultBeforeCompletion /\ [Next]_vars
    => ResultInv' /\ ResultBeforeCompletion'
<1> SUFFICES ASSUME TypeOK, QueueInv, ResultInv, ResultBeforeCompletion, [Next]_vars
             PROVE  ResultInv' /\ ResultBeforeCompletion'
  OBVIOUS
<1> USE DEF TypeOK, ResultInv, ResultBeforeCompletion, storeVars, ingressVars, workerVars
<1>1. ASSUME NEW w \in Warnings, PersistAdmission(w) \/ Handler(w) \/ IngressFails(w) \/ BackoffElapses(w)
      PROVE  ResultInv' /\ ResultBeforeCompletion'
  <2>1. /\ UNCHANGED <<results, pc, held, cols>>
        /\ \A v \in Warnings : queue'[v].state = "completed" => queue[v].state = "completed"
    BY <1>1 DEF PersistAdmission, Handler, FindDuplicate, EnqueueEntry, EnqueueRow,
                IngressFails, BackoffElapses, Blank, EnqueueColumns
  <2> QED
    BY <2>1
<1>2. ASSUME NEW k \in Workers, ClaimSelect(k) \/ ClaimUpdate(k)
      PROVE  ResultInv' /\ ResultBeforeCompletion'
  <2>1. CASE ClaimSelect(k)
    <3>1. cols'[k].state = "processing"
      BY <2>1 DEF ClaimSelect
    <3> QED
      BY <2>1, <3>1 DEF ClaimSelect
  <2>2. CASE ClaimUpdate(k)
    <3>1. held[k] \in Warnings
      BY <2>2 DEF ClaimUpdate
    <3>2. queue'[held[k]].state = "processing"
      BY <2>2, <3>1 DEF ClaimUpdate
    <3>3. \A v \in Warnings : queue'[v].state = "completed" => queue[v].state = "completed"
      BY <2>2, <3>1, <3>2 DEF ClaimUpdate
    <3>4. ResultBeforeCompletion'
      BY <2>2, <3>3 DEF ClaimUpdate
    <3> QED
      BY <2>2, <3>4 DEF ClaimUpdate
  <2> QED
    BY <1>2, <2>1, <2>2
<1>3. ASSUME NEW k \in Workers, RecordEntry(k)
      PROVE  ResultInv' /\ ResultBeforeCompletion'
  BY <1>3 DEF RecordEntry
<1>4. ASSUME NEW k \in Workers, RecordRow(k)
      PROVE  ResultInv' /\ ResultBeforeCompletion'
  BY <1>4 DEF RecordRow
<1>5. ASSUME NEW k \in Workers, Settle(k)
      PROVE  ResultInv' /\ ResultBeforeCompletion'
  BY <1>5 DEF Settle, SettleOk, SettleRecovery, SettleFailure, SettledColumns, FailureState, WAITING
<1>6. ASSUME NEW k \in Workers, WriteResult(k) \/ RecordResult(k) \/ WorkerCrash(k)
      PROVE  ResultInv' /\ ResultBeforeCompletion'
  BY <1>6 DEF WriteResult, RecordResult, WorkerCrash, Blank, Columns
<1>7. CASE UNCHANGED vars
  BY <1>7 DEF vars
<1> QED
  BY <1>1, <1>2, <1>3, <1>4, <1>5, <1>6, <1>7 DEF Next, Handler, Worker

(* A row is never completed without its result file, whatever two workers  *)
(* do to each other's rows (record_processing_result).                     *)
THEOREM ResultsPrecedeCompletion == Spec => []ResultBeforeCompletion
<1>1. Init => ResultInv /\ ResultBeforeCompletion
  BY DEF Init, ResultInv, ResultBeforeCompletion, Blank
<1> QED
  BY <1>1, ResultInvStep, QueueInvHolds, PTL DEF Spec

-----------------------------------------------------------------------------
(* Crashes *)

LEMMA AbandonedStep ==
  ASSUME TypeOK, QueueInv, ResultInv, [Next]_vars
  PROVE  \/ Abandoned' \subseteq Abandoned /\ crashes' = crashes
         \/ \E w \in Warnings : Abandoned' \subseteq Abandoned \cup {w} /\ crashes' = crashes + 1
<1> USE DEF TypeOK, Abandoned, storeVars, ingressVars, workerVars
<1>1. ASSUME NEW w \in Warnings, PersistAdmission(w) \/ Handler(w) \/ IngressFails(w) \/ BackoffElapses(w)
      PROVE  Abandoned' \subseteq Abandoned /\ crashes' = crashes
  <2>1. /\ UNCHANGED <<pc, held, crashes>>
        /\ \A v \in Warnings : queue'[v].state = "processing" => queue[v].state = "processing"
    BY <1>1 DEF PersistAdmission, Handler, FindDuplicate, EnqueueEntry, EnqueueRow,
                IngressFails, BackoffElapses, Blank, EnqueueColumns
  <2> QED
    BY <2>1
<1>2. ASSUME NEW k \in Workers, ClaimSelect(k)
      PROVE  Abandoned' \subseteq Abandoned /\ crashes' = crashes
  BY <1>2, NoneAssumption DEF ClaimSelect
<1>3. ASSUME NEW k \in Workers, ClaimUpdate(k)
      PROVE  Abandoned' \subseteq Abandoned /\ crashes' = crashes
  BY <1>3 DEF ClaimUpdate
<1>4. ASSUME NEW k \in Workers, RecordRow(k)
      PROVE  Abandoned' \subseteq Abandoned /\ crashes' = crashes
  <2>1. /\ held[k] \in Warnings /\ crashes' = crashes
        /\ \A v \in Warnings : queue'[v] = IF v = held[k] THEN cols[k] ELSE queue[v]
    BY <1>4 DEF RecordRow
  <2>2. CASE cols[k].state = "processing"
    BY <1>4, <2>1, <2>2 DEF RecordRow, WAITING
  <2>3. CASE cols[k].state # "processing"
    <3>1. \A j \in Workers \ {k} : pc'[j] = pc[j] /\ held'[j] = held[j]
      BY <1>4 DEF RecordRow
    <3> QED
      BY <2>1, <2>3, <3>1
  <2> QED
    BY <2>2, <2>3
<1>5. ASSUME NEW k \in Workers, RecordEntry(k) \/ Settle(k) \/ WriteResult(k)
      PROVE  Abandoned' \subseteq Abandoned /\ crashes' = crashes
  BY <1>5 DEF RecordEntry, Settle, SettleOk, SettleRecovery, SettleFailure, WriteResult
<1>6. ASSUME NEW k \in Workers, RecordResult(k)
      PROVE  Abandoned' \subseteq Abandoned /\ crashes' = crashes
  <2>1. \A v \in Warnings : queue'[v].state = queue[v].state
    BY <1>6 DEF RecordResult, Columns
  <2>2. \A j \in Workers \ {k} : pc'[j] = pc[j] /\ held'[j] = held[j]
    BY <1>6 DEF RecordResult
  <2> QED
    BY <1>6, <2>1, <2>2 DEF RecordResult
<1>7. ASSUME NEW k \in Workers, WorkerCrash(k)
      PROVE  \E w \in Warnings : Abandoned' \subseteq Abandoned \cup {w} /\ crashes' = crashes + 1
  BY <1>7 DEF WorkerCrash
<1>8. CASE UNCHANGED vars
  BY <1>8 DEF vars
<1> QED
  BY <1>1, <1>2, <1>3, <1>4, <1>5, <1>6, <1>7, <1>8 DEF Next, Handler, Worker

LEMMA SubsetCardinality ==
  ASSUME NEW S, NEW T, IsFiniteSet(S), T \subseteq S
  PROVE  /\ IsFiniteSet(T)
         /\ Cardinality(T) \in Nat /\ Cardinality(S) \in Nat
         /\ Cardinality(T) <= Cardinality(S)
<1>1. IsFiniteSet(T) /\ Cardinality(T) <= Cardinality(S)
  BY FS_Subset
<1> QED
  BY <1>1, FS_CardinalityType

LEMMA AbandonedBounded == Spec => [](Cardinality(Abandoned) <= crashes)
<1> DEFINE Bounded == Cardinality(Abandoned) <= crashes
<1>1. IsFiniteSet(Abandoned) /\ Cardinality(Abandoned) \in Nat
  <2>1. Abandoned \subseteq Warnings
    BY DEF Abandoned
  <2> QED
    BY <2>1, WarningsAssumption, FS_Subset, FS_CardinalityType
<1>2. Init => Bounded
  <2> SUFFICES ASSUME Init PROVE Bounded
    OBVIOUS
  <2>1. Abandoned = {}
    BY DEF Init, Abandoned, Blank
  <2>2. crashes = 0
    BY DEF Init
  <2> QED
    BY <2>1, <2>2, FS_EmptySet
<1>3. TypeOK /\ QueueInv /\ ResultInv /\ Bounded /\ [Next]_vars => Bounded'
  <2> SUFFICES ASSUME TypeOK, QueueInv, ResultInv, Bounded, [Next]_vars PROVE Bounded'
    OBVIOUS
  <2>1. crashes \in Nat
    BY LimitAssumption DEF TypeOK
  <2>2. CASE Abandoned' \subseteq Abandoned /\ crashes' = crashes
    <3>1. Cardinality(Abandoned') <= Cardinality(Abandoned) /\ Cardinality(Abandoned') \in Nat
      BY <1>1, <2>2, SubsetCardinality
    <3> QED
      BY <1>1, <2>1, <2>2, <3>1
  <2>3. ASSUME NEW w \in Warnings, Abandoned' \subseteq Abandoned \cup {w}, crashes' = crashes + 1
        PROVE  Bounded'
    <3>1. /\ IsFiniteSet(Abandoned \cup {w})
          /\ Cardinality(Abandoned \cup {w}) \in Nat
          /\ Cardinality(Abandoned \cup {w}) <= Cardinality(Abandoned) + 1
      <4>1. /\ IsFiniteSet(Abandoned \cup {w})
            /\ Cardinality(Abandoned \cup {w}) =
                 IF w \in Abandoned THEN Cardinality(Abandoned) ELSE Cardinality(Abandoned) + 1
        BY <1>1, FS_AddElement
      <4> QED
        BY <1>1, <4>1
    <3>2. Cardinality(Abandoned') <= Cardinality(Abandoned \cup {w}) /\ Cardinality(Abandoned') \in Nat
      BY <2>3, <3>1, SubsetCardinality
    <3> QED
      BY <1>1, <2>1, <2>3, <3>1, <3>2
  <2> QED
    BY <2>2, <2>3, AbandonedStep
<1>4. Spec => [](ResultInv)
  <2>1. Init => ResultInv /\ ResultBeforeCompletion
    BY DEF Init, ResultInv, ResultBeforeCompletion, Blank
  <2> QED
    BY <2>1, ResultInvStep, QueueInvHolds, PTL DEF Spec
<1> HIDE DEF Bounded
<1>5. Spec => []Bounded
  BY <1>2, <1>3, <1>4, QueueInvHolds, PTL DEF Spec
<1> QED
  BY <1>5 DEF Bounded

(* A row left in processing by nobody is the trace of a crash, one row per *)
(* crash: without crashes no warning is ever stuck (claim_next_warning     *)
(* never takes a row in processing again).                                 *)
THEOREM StrandedOnlyByCrash == Spec => []StrandedByCrash
<1>1. Stranded \subseteq Abandoned
  BY DEF Stranded, Abandoned
<1>2. IsFiniteSet(Abandoned)
  <2>1. Abandoned \subseteq Warnings
    BY DEF Abandoned
  <2> QED
    BY <2>1, WarningsAssumption, FS_Subset
<1>3. /\ Cardinality(Stranded) <= Cardinality(Abandoned)
      /\ Cardinality(Stranded) \in Nat /\ Cardinality(Abandoned) \in Nat
  BY <1>1, <1>2, FS_Subset, FS_CardinalityType
<1>4. TypeOK /\ Cardinality(Abandoned) <= crashes => StrandedByCrash
  BY <1>3, LimitAssumption DEF StrandedByCrash, TypeOK
<1> QED
  BY <1>4, AbandonedBounded, TypeCorrect, PTL

-----------------------------------------------------------------------------
(* One worker *)

SingleWorker == \A j, k \in Workers : j = k

(* The rows the worker does not hold are only written by handlers, which   *)
(* write rows without a state.                                             *)
LEMMA HandlerWrites ==
  ASSUME TypeOK, QueueInv, NEW w \in Warnings,
         PersistAdmission(w) \/ Handler(w) \/ IngressFails(w) \/ BackoffElapses(w)
  PROVE  /\ UNCHANGED <<recorded, pc, held, cols, failures>>
         /\ \A v \in Warnings : queue[v].state # "null" =>
              queue'[v] = queue[v] /\ entry'[v] = entry[v]
         /\ \A v \in Warnings : queue[v].state = "null" =>
              queue'[v].state \in {"null", "pending", "deduped"}
         /\ cooling' \subseteq cooling
<1> USE DEF TypeOK, QueueInv, storeVars, ingressVars, workerVars
<1>1. CASE PersistAdmission(w)
  BY <1>1 DEF PersistAdmission, Blank
<1>2. CASE FindDuplicate(w)
  BY <1>2 DEF FindDuplicate
<1>3. CASE EnqueueEntry(w)
  BY <1>3 DEF EnqueueEntry
<1>4. CASE EnqueueRow(w)
  BY <1>4 DEF EnqueueRow, EnqueueColumns
<1>5. CASE IngressFails(w) \/ BackoffElapses(w)
  BY <1>5 DEF IngressFails, BackoffElapses
<1> QED
  BY <1>1, <1>2, <1>3, <1>4, <1>5 DEF Handler

LEMMA HandlerKeepsSolo ==
  ASSUME TypeOK, QueueInv, SoloInv, NEW w \in Warnings,
         PersistAdmission(w) \/ Handler(w) \/ IngressFails(w) \/ BackoffElapses(w)
  PROVE  SoloInv'
<1>1. /\ UNCHANGED <<recorded, pc, held, cols, failures>>
      /\ \A v \in Warnings : queue[v].state # "null" =>
           queue'[v] = queue[v] /\ entry'[v] = entry[v]
      /\ \A v \in Warnings : queue[v].state = "null" =>
           queue'[v].state \in {"null", "pending", "deduped"}
      /\ cooling' \subseteq cooling
  BY HandlerWrites
<1>2. \A k \in Workers : HoldInv(k)'
  <2> SUFFICES ASSUME NEW k \in Workers, pc[k] # "idle" PROVE HoldInv(k)'
    BY <1>1 DEF HoldInv, TypeOK
  <2>1. held[k] \in Warnings /\ queue[held[k]].state # "null" /\ HoldInv(k)
    BY DEF TypeOK, QueueInv, SoloInv
  <2> QED
    BY <1>1, <2>1 DEF HoldInv
<1>3. ResultOnlyWhenCompleted'
  BY <1>1 DEF SoloInv, ResultOnlyWhenCompleted, TypeOK
<1>4. EntryIsTrue' /\ \A v \in Warnings : adm'[v] = "written" => entry'[v] = EnqueueColumns(v)'
  <2> USE DEF TypeOK, QueueInv, SoloInv, EntryIsTrue, storeVars, ingressVars, workerVars
  <2>1. CASE PersistAdmission(w)
    BY <2>1 DEF PersistAdmission, Blank, EnqueueColumns
  <2>2. CASE FindDuplicate(w)
    BY <2>2 DEF FindDuplicate, EnqueueColumns
  <2>3. CASE EnqueueEntry(w)
    BY <2>3, EnqueueColumnsType DEF EnqueueEntry, EnqueueColumns
  <2>4. CASE EnqueueRow(w)
    BY <2>4, EnqueueColumnsType DEF EnqueueRow, EnqueueColumns
  <2>5. CASE IngressFails(w) \/ BackoffElapses(w)
    BY <2>5 DEF IngressFails, BackoffElapses, EnqueueColumns
  <2> QED
    BY <2>1, <2>2, <2>3, <2>4, <2>5 DEF Handler
<1> QED
  BY <1>2, <1>3, <1>4 DEF SoloInv

LEMMA WorkerKeepsSolo ==
  ASSUME SingleWorker, TypeOK, QueueInv, SoloInv, NEW k \in Workers,
         Worker(k) \/ WorkerCrash(k)
  PROVE  SoloInv'
<1> SUFFICES /\ EntryIsTrue'
             /\ \A w \in Warnings : adm'[w] = "written" => entry'[w] = EnqueueColumns(w)'
             /\ ResultOnlyWhenCompleted'
             /\ HoldInv(k)'
  BY DEF SoloInv, SingleWorker
<1> DEFINE w == held[k]
<1>1. pc[k] # "idle" => w \in Warnings /\ queue[w] \in Columns /\ queue[w].state \notin {"null", "deduped"}
  BY DEF TypeOK, QueueInv
<1>2. HoldInv(k) /\ cols[k] \in Columns /\ (pc[k] # "idle" => adm[w] = "returned")
  BY <1>1 DEF SoloInv, QueueInv, TypeOK
<1>3. UNCHANGED ingressVars
  BY DEF Worker, WorkerCrash, ClaimSelect, ClaimUpdate, RecordEntry, RecordRow, Settle,
         SettleOk, SettleRecovery, SettleFailure, WriteResult, RecordResult
<1> USE DEF storeVars, workerVars, ingressVars
<1>4. CASE ClaimSelect(k)
  <2>1. /\ UNCHANGED storeVars /\ pc'[k] = "selected" /\ held'[k] \in Eligible
        /\ cols'[k].state = "processing"
    BY <1>4 DEF ClaimSelect, TypeOK, IsLeast
  <2>2. HoldInv(k)'
    BY <2>1 DEF HoldInv, Eligible
  <2> QED
    BY <1>3, <2>1, <2>2 DEF SoloInv, EntryIsTrue, ResultOnlyWhenCompleted, EnqueueColumns
<1>5. CASE ClaimUpdate(k)
  <2>1. /\ UNCHANGED <<entry, recorded, held, cols>> /\ pc[k] = "selected" /\ pc'[k] = "recording"
        /\ queue'[w].state = "processing" /\ queue'[w].attempts = cols[k].attempts
        /\ \A v \in Warnings \ {w} : queue'[v] = queue[v]
    BY <1>1, <1>5 DEF ClaimUpdate, TypeOK
  <2>2. HoldInv(k)'
    BY <1>2, <2>1 DEF HoldInv
  <2>3. ResultOnlyWhenCompleted'
    BY <1>2, <2>1 DEF ResultOnlyWhenCompleted, SoloInv, HoldInv, TypeOK, ClaimableStates, WAITING
  <2> QED
    BY <1>1, <1>3, <2>1, <2>2, <2>3 DEF SoloInv, EntryIsTrue, EnqueueColumns
<1>6. CASE RecordEntry(k)
  <2>1. /\ UNCHANGED <<queue, recorded, held, cols>> /\ pc[k] = "recording" /\ pc'[k] = "written"
        /\ entry'[w] = cols[k]
        /\ \A v \in Warnings \ {w} : entry'[v] = entry[v]
    BY <1>1, <1>6 DEF RecordEntry, TypeOK
  <2>2. HoldInv(k)'
    BY <1>2, <2>1 DEF HoldInv
  <2>3. queue[w].state = "processing"
    BY <1>2, <2>1 DEF HoldInv
  <2> QED
    BY <1>1, <1>2, <1>3, <2>1, <2>2, <2>3
       DEF SoloInv, EntryIsTrue, ResultOnlyWhenCompleted, EnqueueColumns
<1>7. CASE RecordRow(k)
  <2>1. /\ UNCHANGED <<entry, recorded>> /\ pc[k] = "written"
        /\ queue' = [queue EXCEPT ![w] = cols[k]]
        /\ \/ pc'[k] = "running" /\ cols[k].state = "processing" /\ UNCHANGED <<held, cols>>
           \/ pc'[k] = "closing" /\ cols[k].state = "completed" /\ UNCHANGED <<held, cols>>
           \/ pc'[k] = "idle"
    BY <1>7 DEF RecordRow, TypeOK
  <2>2. queue[w].state = "processing" /\ entry[w] = cols[k]
    BY <1>2, <2>1 DEF HoldInv
  <2>3. \A v \in Warnings : queue'[v] = IF v = w THEN cols[k] ELSE queue[v]
    BY <2>1 DEF TypeOK
  <2>4. HoldInv(k)'
    BY <1>1, <1>2, <2>1, <2>3 DEF HoldInv
  <2>5. EntryIsTrue' /\ ResultOnlyWhenCompleted'
    BY <1>1, <2>1, <2>2, <2>3 DEF SoloInv, EntryIsTrue, ResultOnlyWhenCompleted, TypeOK
  <2> QED
    BY <1>3, <2>1, <2>4, <2>5 DEF SoloInv, EnqueueColumns
<1>8. CASE Settle(k)
  <2>1. /\ UNCHANGED <<storeVars, held>> /\ pc[k] = "running"
        /\ \/ pc'[k] = "resulting" /\ cols'[k] = SettledColumns(w, "completed")
           \/ /\ pc'[k] = "recording"
              /\ cols'[k] = SettledColumns(w, WAITING) \/ cols'[k] = SettledColumns(w, FailureState(w))
    BY <1>8 DEF Settle, SettleOk, SettleRecovery, SettleFailure, TypeOK
  <2>2. HoldInv(k)'
    BY <1>2, <2>1 DEF HoldInv, SettledColumns
  <2> QED
    BY <1>3, <2>1, <2>2 DEF SoloInv, EntryIsTrue, ResultOnlyWhenCompleted, EnqueueColumns
<1>9. CASE WriteResult(k)
  <2>1. UNCHANGED <<queue, entry, recorded, held, cols>> /\ pc[k] = "resulting" /\ pc'[k] = "recording"
    BY <1>9 DEF WriteResult, TypeOK
  <2>2. HoldInv(k)'
    BY <1>2, <2>1 DEF HoldInv
  <2> QED
    BY <1>3, <2>1, <2>2 DEF SoloInv, EntryIsTrue, ResultOnlyWhenCompleted, EnqueueColumns
<1>10. CASE RecordResult(k)
  <2>1. /\ UNCHANGED entry /\ recorded' = recorded \cup {w} /\ pc[k] = "closing" /\ pc'[k] = "idle"
        /\ queue' = [queue EXCEPT ![w].leasedBy = None]
    BY <1>10 DEF RecordResult, TypeOK
  <2>2. queue[w].state = "completed" /\ queue[w].leasedBy = None
    BY <1>2, <2>1 DEF HoldInv
  <2>3. queue' = queue
    BY <1>1, <2>1, <2>2 DEF TypeOK, Columns
  <2> QED
    BY <1>3, <2>1, <2>2, <2>3
       DEF SoloInv, HoldInv, EntryIsTrue, ResultOnlyWhenCompleted, EnqueueColumns
<1>11. CASE WorkerCrash(k)
  <2>1. UNCHANGED storeVars /\ pc'[k] = "idle"
    BY <1>11 DEF WorkerCrash, TypeOK
  <2> QED
    BY <1>3, <2>1 DEF SoloInv, HoldInv, EntryIsTrue, ResultOnlyWhenCompleted, EnqueueColumns
<1> QED
  BY <1>4, <1>5, <1>6, <1>7, <1>8, <1>9, <1>10, <1>11 DEF Worker

LEMMA SoloInvHolds == ASSUME SingleWorker PROVE Spec => []SoloInv
<1>1. Init => SoloInv
  BY DEF Init, SoloInv, EntryIsTrue, ResultOnlyWhenCompleted, HoldInv, Blank
<1>2. TypeOK /\ QueueInv /\ SoloInv /\ [Next]_vars => SoloInv'
  <2> SUFFICES ASSUME TypeOK, QueueInv, SoloInv, [Next]_vars PROVE SoloInv'
    OBVIOUS
  <2>1. CASE UNCHANGED vars
    BY <2>1 DEF vars, storeVars, ingressVars, workerVars, SoloInv, HoldInv, EntryIsTrue,
                ResultOnlyWhenCompleted, EnqueueColumns
  <2> QED
    BY <2>1, HandlerKeepsSolo, WorkerKeepsSolo DEF Next
<1> QED
  BY <1>1, <1>2, QueueInvHolds, PTL DEF Spec

(* With one worker, crashes included, queue_entry.json agrees with every   *)
(* row that can be claimed or is finished: the file an operator reads      *)
(* differs from the index only where a step was cut short                  *)
(* (record_queue_state writes the file first).                             *)
THEOREM EntriesAreTrue == ASSUME SingleWorker PROVE Spec => []EntryIsTrue
<1>1. SoloInv => EntryIsTrue
  BY DEF SoloInv
<1> QED
  BY <1>1, SoloInvHolds, PTL

(* With one worker, a row that carries a result is completed for good: no  *)
(* write of a later run takes it back (record_processing_result).          *)
THEOREM ResultsAreFinal == ASSUME SingleWorker PROVE Spec => []ResultOnlyWhenCompleted
<1>1. SoloInv => ResultOnlyWhenCompleted
  BY DEF SoloInv
<1> QED
  BY <1>1, SoloInvHolds, PTL

(* How the one worker may change the state of a row: it claims a row that  *)
(* is claimable now, or settles one in processing.                         *)
LEMMA WorkerMoves ==
  ASSUME SingleWorker, TypeOK, QueueInv, SoloInv, NEW k \in Workers,
         Worker(k) \/ WorkerCrash(k), NEW v \in Warnings
  PROVE  \/ queue'[v].state = queue[v].state
         \/ /\ queue[v].state \in ClaimableStates /\ queue'[v].state = "processing"
            /\ queue[v].state \in BackoffStates => v \notin cooling
         \/ /\ queue[v].state = "processing"
            /\ queue'[v].state \in {"completed", "failed", "dead_letter", WAITING}
<1>1. HoldInv(k) /\ (pc[k] # "idle" => held[k] \in Warnings)
  BY DEF SoloInv, TypeOK
<1>2. CASE ClaimUpdate(k)
  <2>1. pc[k] = "selected" /\ queue' = [queue EXCEPT ![held[k]] =
                 [state |-> "processing", dupOf |-> @.dupOf,
                  attempts |-> cols[k].attempts, leasedBy |-> k]]
    BY <1>2 DEF ClaimUpdate
  <2> QED
    BY <1>1, <2>1 DEF HoldInv, TypeOK
<1>3. CASE RecordRow(k)
  <2>1. /\ pc[k] = "written" /\ queue' = [queue EXCEPT ![held[k]] = cols[k]]
        /\ cols[k].state \in {"processing", "completed", "failed", "dead_letter", WAITING}
    BY <1>3 DEF RecordRow
  <2> QED
    BY <1>1, <2>1 DEF HoldInv, TypeOK
<1>4. CASE RecordResult(k)
  BY <1>1, <1>4 DEF RecordResult, TypeOK, Columns
<1>5. CASE ClaimSelect(k) \/ RecordEntry(k) \/ Settle(k) \/ WriteResult(k) \/ WorkerCrash(k)
  BY <1>5 DEF ClaimSelect, RecordEntry, Settle, SettleOk, SettleRecovery, SettleFailure,
              WriteResult, WorkerCrash, storeVars
<1> QED
  BY <1>2, <1>3, <1>4, <1>5 DEF Worker

LEMMA SoloTypesHold == ASSUME SingleWorker PROVE Spec => [](TypeOK /\ QueueInv /\ SoloInv)
BY QueueInvHolds, SoloInvHolds, PTL

(* With one worker no final state is ever left: neither a stale column set *)
(* nor a late handler takes a warning out of completed, dead_letter or     *)
(* deduped (claim_next_warning, record_queue_state).                       *)
THEOREM FinalStatesAreFinal == ASSUME SingleWorker PROVE Spec => TerminalIsFinal
<1> DEFINE Stays == \A w \in Warnings :
              queue[w].state \in TerminalStates => queue'[w].state = queue[w].state
<1>1. TypeOK /\ QueueInv /\ SoloInv /\ [Next]_vars => [Stays]_vars
  <2> SUFFICES ASSUME TypeOK, QueueInv, SoloInv, Next,
                      NEW v \in Warnings, queue[v].state \in TerminalStates
               PROVE  queue'[v].state = queue[v].state
    OBVIOUS
  <2>1. ASSUME NEW w \in Warnings,
               PersistAdmission(w) \/ Handler(w) \/ IngressFails(w) \/ BackoffElapses(w)
        PROVE  queue'[v].state = queue[v].state
    BY <2>1, HandlerWrites DEF TerminalStates
  <2>2. ASSUME NEW k \in Workers, Worker(k) \/ WorkerCrash(k)
        PROVE  queue'[v].state = queue[v].state
    BY <2>2, WorkerMoves DEF TerminalStates, ClaimableStates, WAITING
  <2> QED
    BY <2>1, <2>2 DEF Next
<1> QED
  BY <1>1, SoloTypesHold, PTL DEF Spec, TerminalIsFinal

(* With one worker no failed or waiting row is taken while                 *)
(* next_attempt_after lies ahead, although the SELECT that looked at it    *)
(* and the UPDATE are separate (claim_next_warning).                       *)
THEOREM BackoffIsKept == ASSUME SingleWorker PROVE Spec => BackoffRespected
<1> DEFINE Kept == \A w \in Warnings :
              queue[w].state \in BackoffStates /\ queue'[w].state = "processing"
                => w \notin cooling
<1>1. TypeOK /\ QueueInv /\ SoloInv /\ [Next]_vars => [Kept]_vars
  <2> SUFFICES ASSUME TypeOK, QueueInv, SoloInv, Next, NEW v \in Warnings,
                      queue[v].state \in BackoffStates, queue'[v].state = "processing"
               PROVE  v \notin cooling
    OBVIOUS
  <2>1. ASSUME NEW w \in Warnings,
               PersistAdmission(w) \/ Handler(w) \/ IngressFails(w) \/ BackoffElapses(w)
        PROVE  FALSE
    BY <2>1, HandlerWrites DEF BackoffStates, WAITING
  <2>2. ASSUME NEW k \in Workers, Worker(k) \/ WorkerCrash(k)
        PROVE  v \notin cooling
    BY <2>2, WorkerMoves DEF BackoffStates, WAITING
  <2> QED
    BY <2>1, <2>2 DEF Next
<1> QED
  BY <1>1, SoloTypesHold, PTL DEF Spec, BackoffRespected

LEMMA HandlerKeepsRetry ==
  ASSUME TypeOK, QueueInv, RetryInv, NEW w \in Warnings,
         PersistAdmission(w) \/ Handler(w) \/ IngressFails(w) \/ BackoffElapses(w)
  PROVE  RetryInv'
<1>1. /\ UNCHANGED <<pc, held, cols, failures>>
      /\ \A v \in Warnings : queue[v].state # "null" => queue'[v] = queue[v]
      /\ \A v \in Warnings : queue[v].state = "null" =>
           queue'[v].state \in {"null", "pending", "deduped"}
  BY HandlerWrites
<1>2. queue' \in [Warnings -> Columns]
  BY TypeStep DEF Next, TypeOK
<1>3. \A v \in Warnings : queue[v].state = "null" => failures[v] = 0
  BY DEF RetryInv
<1>4. \A v \in Warnings : queue'[v].attempts \in Nat
  BY <1>2 DEF Columns
<1> QED
  BY <1>1, <1>3, <1>4, AttemptAssumption DEF RetryInv, TypeOK

LEMMA WorkerKeepsRetry ==
  ASSUME SingleWorker, TypeOK, QueueInv, SoloInv, RetryInv, NEW k \in Workers,
         Worker(k) \/ WorkerCrash(k)
  PROVE  RetryInv'
<1> DEFINE w == held[k]
           Room(n) == failures[w] < MaxAttempts /\ failures[w] < n
<1>1. pc[k] # "idle" => w \in Warnings /\ queue[w].state # "null"
  BY DEF TypeOK, QueueInv
<1>2. HoldInv(k) /\ \A j \in Workers : j = k
  BY DEF SoloInv, SingleWorker
<1>3. /\ failures \in [Warnings -> 0..AttemptCap] /\ queue \in [Warnings -> Columns]
      /\ \A v \in Warnings : failures[v] \in Nat /\ queue[v].attempts \in 0..AttemptCap
  BY AttemptAssumption DEF TypeOK, Columns
<1>4. MaxAttempts \in Nat /\ AttemptCap \in Nat /\ MaxAttempts < AttemptCap
  BY AttemptAssumption
<1> USE DEF storeVars, workerVars, ingressVars
<1>5. CASE ClaimSelect(k)
  <2>1. PICK x \in Eligible :
          /\ held' = [held EXCEPT ![k] = x]
          /\ cols' = [cols EXCEPT ![k] =
                        [state |-> "processing", dupOf |-> queue[x].dupOf,
                         attempts |-> Bump(queue[x].attempts), leasedBy |-> k]]
          /\ pc' = [pc EXCEPT ![k] = "selected"] /\ UNCHANGED <<queue, failures>>
    BY <1>5 DEF ClaimSelect
  <2>2. /\ x \in Warnings /\ failures[x] < MaxAttempts /\ failures[x] <= queue[x].attempts
    BY <2>1 DEF Eligible, RetryInv
  <2>3. failures[x] < Bump(queue[x].attempts)
    BY <1>3, <1>4, <2>2 DEF Bump
  <2>4. held'[k] = x /\ cols'[k].attempts = Bump(queue[x].attempts) /\ pc'[k] = "selected"
    BY <2>1 DEF TypeOK
  <2> QED
    BY <1>2, <2>1, <2>2, <2>3, <2>4 DEF RetryInv
<1>6. CASE ClaimUpdate(k)
  <2>1. /\ UNCHANGED <<held, cols, failures>> /\ pc[k] = "selected" /\ pc'[k] = "recording"
        /\ queue'[w].state = "processing" /\ queue'[w].attempts = cols[k].attempts
        /\ \A v \in Warnings \ {w} : queue'[v] = queue[v]
    BY <1>1, <1>6 DEF ClaimUpdate, TypeOK
  <2>2. cols[k].state = "processing"
    BY <1>2, <2>1 DEF HoldInv
  <2>3. Room(cols[k].attempts)
    BY <2>1, <2>2 DEF RetryInv
  <2>4. cols[k].attempts \in Nat
    BY <1>4 DEF TypeOK, Columns
  <2> QED
    BY <1>1, <1>2, <1>3, <1>4, <2>1, <2>2, <2>3, <2>4
       DEF RetryInv, ClaimableStates, BackoffStates, WAITING
<1>7. CASE RecordEntry(k)
  <2>1. UNCHANGED <<queue, held, cols, failures>> /\ pc[k] = "recording" /\ pc'[k] = "written"
    BY <1>7 DEF RecordEntry, TypeOK
  <2> QED
    BY <1>2, <2>1 DEF RetryInv
<1>8. CASE RecordRow(k)
  <2>1. /\ UNCHANGED failures /\ pc[k] = "written"
        /\ \A v \in Warnings : queue'[v] = IF v = w THEN cols[k] ELSE queue[v]
        /\ \/ /\ pc'[k] \in {"running", "closing"} /\ UNCHANGED <<held, cols>>
              /\ cols[k].state \in {"processing", "completed"}
           \/ /\ pc'[k] = "idle"
              /\ cols[k].state \in {"failed", "dead_letter", WAITING}
    BY <1>8 DEF RecordRow, TypeOK
  <2>2. cols[k].attempts = queue[w].attempts
    BY <1>2, <2>1 DEF HoldInv
  <2>3. cols[k].state \in BackoffStates => failures[w] < MaxAttempts
    BY <2>1 DEF RetryInv
  <2> QED
    BY <1>1, <1>2, <1>3, <2>1, <2>2, <2>3 DEF RetryInv, ClaimableStates, BackoffStates, WAITING
<1>9. CASE SettleFailure(k)
  <2>1. /\ UNCHANGED <<queue, held>> /\ pc[k] = "running" /\ pc'[k] = "recording"
        /\ cols'[k] = SettledColumns(w, FailureState(w))
        /\ failures' = [failures EXCEPT ![w] = Bump(@)]
    BY <1>9 DEF SettleFailure, TypeOK
  <2>2. Room(queue[w].attempts)
    <3>1. cols[k].state = "processing" /\ cols[k].attempts = queue[w].attempts
      BY <1>2, <2>1 DEF HoldInv
    <3> QED
      BY <2>1, <3>1 DEF RetryInv
  <2>3. queue[w].state = "processing"
    BY <1>2, <2>1 DEF HoldInv
  <2>4. failures'[w] = failures[w] + 1
    BY <1>1, <1>3, <1>4, <2>1, <2>2 DEF Bump
  <2>5. cols'[k].state = FailureState(w)
    BY <2>1 DEF SettledColumns
  <2>6. \A v \in Warnings \ {w} : failures'[v] = failures[v]
    BY <1>3, <2>1
  <2>7. failures[w] \in Nat /\ queue[w].attempts \in Nat
    BY <1>1, <1>3, <1>4, <2>1
  <2>8. /\ failures'[w] <= MaxAttempts /\ failures'[w] <= queue[w].attempts
        /\ cols'[k].state \in {"failed", "dead_letter"}
        /\ cols'[k].state = "failed" => failures'[w] < MaxAttempts
    BY <1>4, <2>2, <2>4, <2>5, <2>7 DEF FailureState
  <2> QED
    BY <1>2, <2>1, <2>3, <2>6, <2>8 DEF RetryInv, ClaimableStates, BackoffStates, WAITING
<1>10. CASE SettleOk(k) \/ SettleRecovery(k)
  <2>1. /\ UNCHANGED <<queue, held, failures>> /\ pc[k] = "running"
        /\ pc'[k] \in {"resulting", "recording"}
        /\ \/ cols'[k] = SettledColumns(w, "completed")
           \/ cols'[k] = SettledColumns(w, WAITING)
    BY <1>10 DEF SettleOk, SettleRecovery, TypeOK
  <2>2. cols[k].state = "processing"
    BY <1>2, <2>1 DEF HoldInv
  <2>3. failures[w] < MaxAttempts
    BY <2>1, <2>2 DEF RetryInv
  <2> QED
    BY <1>2, <2>1, <2>3 DEF RetryInv, SettledColumns, BackoffStates, WAITING
<1>11. CASE WriteResult(k)
  <2>1. UNCHANGED <<queue, held, cols, failures>> /\ pc[k] = "resulting" /\ pc'[k] = "recording"
    BY <1>11 DEF WriteResult, TypeOK
  <2>2. cols[k].state = "completed"
    BY <1>2, <2>1 DEF HoldInv
  <2> QED
    BY <1>2, <2>1, <2>2 DEF RetryInv, BackoffStates, WAITING
<1>12. CASE RecordResult(k) \/ WorkerCrash(k)
  <2>1. /\ UNCHANGED failures /\ pc'[k] = "idle"
        /\ \A v \in Warnings : queue'[v].state = queue[v].state /\ queue'[v].attempts = queue[v].attempts
    BY <1>1, <1>12 DEF RecordResult, WorkerCrash, TypeOK, Columns
  <2> QED
    BY <1>2, <2>1 DEF RetryInv
<1> QED
  BY <1>5, <1>6, <1>7, <1>8, <1>9, <1>10, <1>11, <1>12 DEF Worker, Settle

(* With one worker, whatever the mix of failures, recovery waits and       *)
(* crashes, a warning makes the processor fail at most max_attempts times  *)
(* (claim_next_warning counts the attempt before the run,                  *)
(* mark_warning_failed compares it after).                                 *)
THEOREM FailuresStayBounded == ASSUME SingleWorker PROVE Spec => []FailuresBounded
<1>1. Init => RetryInv
  BY AttemptAssumption DEF Init, RetryInv, Blank, ClaimableStates, WAITING
<1>2. TypeOK /\ QueueInv /\ SoloInv /\ RetryInv /\ [Next]_vars => RetryInv'
  <2> SUFFICES ASSUME TypeOK, QueueInv, SoloInv, RetryInv, [Next]_vars PROVE RetryInv'
    OBVIOUS
  <2>1. CASE UNCHANGED vars
    BY <2>1 DEF vars, storeVars, ingressVars, workerVars, RetryInv
  <2> QED
    BY <2>1, HandlerKeepsRetry, WorkerKeepsRetry DEF Next
<1>3. RetryInv => FailuresBounded
  BY DEF RetryInv, FailuresBounded
<1> QED
  BY <1>1, <1>2, <1>3, SoloTypesHold, PTL DEF Spec

-----------------------------------------------------------------------------
(* One worker and ingress requests that do not overlap *)

LEMMA SerialStep ==
  ASSUME SingleWorker, NoOverlap, NoOverlap', TypeOK, QueueInv, SoloInv, SerialInv, Next
  PROVE  SerialInv'
<1> USE DEF storeVars, workerVars, ingressVars
<1> DEFINE Active(v) == queue[v].state \in ActiveDedupeStates
<1>1. ASSUME NEW k \in Workers, Worker(k) \/ WorkerCrash(k) PROVE SerialInv'
  <2>1. UNCHANGED ingressVars
    BY <1>1 DEF Worker, WorkerCrash, ClaimSelect, ClaimUpdate, RecordEntry, RecordRow, Settle,
         SettleOk, SettleRecovery, SettleFailure, WriteResult, RecordResult
  <2>2. \A v \in Warnings : Active(v)' => Active(v)
    BY <1>1, WorkerMoves DEF ActiveDedupeStates, ClaimableStates, WAITING
  <2> QED
    BY <2>1, <2>2 DEF SerialInv, InFlight, ActiveWithKey, OneActivePerKey
<1>2. ASSUME NEW w \in Warnings,
             PersistAdmission(w) \/ Handler(w) \/ IngressFails(w) \/ BackoffElapses(w)
      PROVE  SerialInv'
  <2>1. CASE PersistAdmission(w)
    <3>1. /\ adm[w] = "new" /\ adm' = [adm EXCEPT ![w] = "persisted"] /\ seen' = seen
          /\ \A v \in Warnings \ {w} : adm[v] \notin {"checked", "written"}
      BY <2>1 DEF PersistAdmission, NoOverlap, InFlight, TypeOK
    <3>2. \A v \in Warnings : queue'[v].state = queue[v].state
      BY <2>1 DEF PersistAdmission, QueueInv, TypeOK, Blank
    <3> QED
      BY <3>1, <3>2 DEF SerialInv, OneActivePerKey, TypeOK
  <2>2. CASE FindDuplicate(w)
    <3>1. /\ adm[w] = "persisted" /\ adm' = [adm EXCEPT ![w] = "checked"] /\ queue' = queue
          /\ \A v \in Warnings \ {w} : seen'[v] = seen[v]
          /\ \/ seen'[w] # None
             \/ ActiveWithKey(KeyOf[w]) = {}
      <4>1. CASE ActiveWithKey(KeyOf[w]) = {}
        BY <2>2, <4>1 DEF FindDuplicate, TypeOK
      <4>2. ASSUME NEW d \in ActiveWithKey(KeyOf[w]), seen' = [seen EXCEPT ![w] = d]
            PROVE  seen'[w] # None
        BY <4>2, NoneAssumption DEF ActiveWithKey, TypeOK
      <4> QED
        BY <2>2, <4>1, <4>2 DEF FindDuplicate, TypeOK
    <3>2. \A v \in Warnings : v \in InFlight' <=> v \in InFlight
      BY <3>1 DEF InFlight, TypeOK
    <3> QED
      BY <3>1, <3>2 DEF SerialInv, InFlight, ActiveWithKey, OneActivePerKey, TypeOK
  <2>3. CASE EnqueueEntry(w)
    BY <2>3 DEF EnqueueEntry, SerialInv, InFlight, ActiveWithKey, OneActivePerKey, TypeOK
  <2>4. CASE EnqueueRow(w)
    <3>1. /\ adm[w] = "written" /\ adm' = [adm EXCEPT ![w] = "returned"] /\ seen' = seen
          /\ queue' = [queue EXCEPT ![w] = EnqueueColumns(w)]
      BY <2>4 DEF EnqueueRow
    <3>2. \A v \in Warnings : adm'[v] \notin {"checked", "written"}
      BY <3>1 DEF NoOverlap, InFlight, TypeOK
    <3>3. Active(w)' => seen[w] = None
      BY <3>1 DEF QueueInv, StandsIn, EnqueueColumns, ActiveDedupeStates, WAITING, TypeOK
    <3>4. \A v \in Warnings : Active(w)' /\ KeyOf[v] = KeyOf[w] => ~Active(v)
      BY <3>1, <3>3 DEF SerialInv, ActiveWithKey
    <3>5. \A v \in Warnings \ {w} : queue'[v] = queue[v]
      BY <3>1 DEF TypeOK
    <3>6. OneActivePerKey'
      BY <3>4, <3>5 DEF OneActivePerKey, SerialInv
    <3> QED
      BY <3>2, <3>6 DEF SerialInv
  <2>5. CASE IngressFails(w) \/ BackoffElapses(w)
    BY <2>5 DEF IngressFails, BackoffElapses, SerialInv, InFlight, ActiveWithKey, OneActivePerKey, TypeOK
  <2> QED
    BY <1>2, <2>1, <2>2, <2>3, <2>4, <2>5 DEF Handler
<1> QED
  BY <1>1, <1>2 DEF Next

(* With one worker, as long as ingress requests do not overlap, a dedupe   *)
(* key never has two active warnings: the check and the suppression of     *)
(* enqueue_admitted_warning are then as good as one step.                  *)
THEOREM SerialIngressIsDeduped ==
  ASSUME SingleWorker PROVE Spec => SerialIngressDedupes
<1>1. Init => SerialInv
  BY DEF Init, SerialInv, OneActivePerKey, Blank, ActiveDedupeStates, WAITING
<1>2. NoOverlap /\ NoOverlap' /\ TypeOK /\ QueueInv /\ SoloInv /\ SerialInv /\ [Next]_vars => SerialInv'
  <2> SUFFICES ASSUME NoOverlap, NoOverlap', TypeOK, QueueInv, SoloInv, SerialInv, [Next]_vars
               PROVE  SerialInv'
    OBVIOUS
  <2>1. CASE UNCHANGED vars
    BY <2>1 DEF vars, storeVars, ingressVars, workerVars, SerialInv, ActiveWithKey, OneActivePerKey
  <2> QED
    BY <2>1, SerialStep
<1>3. SerialInv => OneActivePerKey
  BY DEF SerialInv
<1> QED
  BY <1>1, <1>2, <1>3, SoloTypesHold, PTL DEF Spec, SerialIngressDedupes

-----------------------------------------------------------------------------
(* Refinement.  With one worker the store, its files and the ingress       *)
(* handlers implement WarningLedger: every step of the detailed queue is   *)
(* one step of the ledger or none.  The mapping is that of Ledger in       *)
(* WarningQueue.                                                           *)

Led == [w \in Warnings |-> queue[w].state]
Run == {held[k] : k \in {j \in Workers : pc[j] \notin {"idle", "selected", "closing"}}}

(* A step that leaves both variables of the ledger alone. *)
LEMMA RowsKept ==
  ASSUME \A v \in Warnings : queue'[v].state = queue[v].state
  PROVE  Led' = Led
BY DEF Led

LEMMA RunOfWorker ==
  ASSUME SingleWorker, NEW k \in Workers
  PROVE  Run = IF pc[k] \in {"idle", "selected", "closing"} THEN {} ELSE {held[k]}
<1>1. \A j \in Workers : j = k
  BY DEF SingleWorker
<1> QED
  BY <1>1 DEF Run

LEMMA RunOfWorkerNext ==
  ASSUME SingleWorker, NEW k \in Workers
  PROVE  Run' = IF pc'[k] \in {"idle", "selected", "closing"} THEN {} ELSE {held'[k]}
<1>1. \A j \in Workers : j = k
  BY DEF SingleWorker
<1> QED
  BY <1>1 DEF Run

(* The steps of the ledger that run or stop a warning, in terms of Led and *)
(* Run.                                                                    *)
LEMMA LedgerSteps ==
  ASSUME NEW w
  PROVE  /\ Ledger!Start(w) <=> /\ Run = {}
                                /\ Led[w] \in Ledger!Claimable
                                /\ Led' = [Led EXCEPT ![w] = "processing"]
                                /\ Run' = {w}
         /\ Ledger!Finish(w) <=> /\ Run = {w}
                                 /\ Led[w] = "processing"
                                 /\ \E s \in Ledger!Settled : Led' = [Led EXCEPT ![w] = s]
                                 /\ Run' = {}
         /\ Ledger!Abandon(w) <=> Run = {w} /\ Run' = {} /\ Led' = Led
BY DEF Ledger!Start, Ledger!Finish, Ledger!Abandon, Led, Run

LEMMA HandlerSimulates ==
  ASSUME TypeOK, QueueInv, NEW w \in Warnings,
         PersistAdmission(w) \/ Handler(w) \/ IngressFails(w) \/ BackoffElapses(w)
  PROVE  [Ledger!Next]_<<Led, Run>>
<1> USE DEF storeVars, ingressVars, workerVars
<1>1. Run' = Run
  BY HandlerWrites DEF Run
<1>2. CASE EnqueueRow(w)
  <2>1. queue[w].state = "null" /\ queue' = [queue EXCEPT ![w] = EnqueueColumns(w)]
    BY <1>2 DEF EnqueueRow, QueueInv
  <2>2. Led' = [Led EXCEPT ![w] = EnqueueColumns(w).state] /\ Led[w] = "null"
    BY <2>1 DEF Led, TypeOK
  <2>3. CASE EnqueueColumns(w).state = "pending"
    <3>1. Ledger!Queue(w)
      BY <1>1, <2>2, <2>3 DEF Ledger!Queue, Led, Run
    <3> QED
      BY <3>1 DEF Ledger!Next
  <2>4. CASE EnqueueColumns(w).state = "deduped"
    <3>1. seen[w] # None /\ adm[w] = "written"
      BY <1>2, <2>4 DEF EnqueueRow, EnqueueColumns
    <3>2. StandsIn(seen[w], w)
      BY <3>1 DEF QueueInv
    <3>3. Ledger!Suppress(w)
      BY <1>1, <2>2, <2>4, <3>2 DEF Ledger!Suppress, StandsIn, Led, Run
    <3> QED
      BY <3>3 DEF Ledger!Next
  <2> QED
    BY <2>3, <2>4 DEF EnqueueColumns
<1>3. CASE \/ PersistAdmission(w) \/ FindDuplicate(w) \/ EnqueueEntry(w)
           \/ IngressFails(w) \/ BackoffElapses(w)
  <2>1. \A v \in Warnings : queue'[v].state = queue[v].state
    BY <1>3 DEF PersistAdmission, FindDuplicate, EnqueueEntry, IngressFails, BackoffElapses,
                QueueInv, TypeOK, Blank
  <2> QED
    BY <1>1, <2>1, RowsKept
<1> QED
  BY <1>2, <1>3 DEF Handler

LEMMA WorkerSimulates ==
  ASSUME SingleWorker, TypeOK, QueueInv, SoloInv, NEW k \in Workers,
         Worker(k) \/ WorkerCrash(k)
  PROVE  [Ledger!Next]_<<Led, Run>>
<1> USE DEF storeVars, ingressVars, workerVars
<1>1. HoldInv(k) /\ (pc[k] # "idle" => held[k] \in Warnings)
  BY DEF SoloInv, TypeOK
<1>2. CASE ClaimUpdate(k)
  <2> PICK w \in Warnings : w = held[k]
    BY <1>1, <1>2 DEF ClaimUpdate
  <2>1. /\ pc[k] = "selected" /\ pc'[k] = "recording" /\ held' = held
        /\ \A v \in Warnings : queue'[v].state = IF v = w THEN "processing" ELSE queue[v].state
    BY <1>1, <1>2 DEF ClaimUpdate, TypeOK
  <2>2. queue[w].state \in ClaimableStates
    BY <1>1, <2>1 DEF HoldInv
  <2>3. Run = {} /\ Run' = {w}
    BY <2>1, RunOfWorker, RunOfWorkerNext
  <2>4. Led' = [Led EXCEPT ![w] = "processing"] /\ Led[w] \in Ledger!Claimable
    BY <1>1, <2>1, <2>2 DEF Led, Ledger!Claimable, ClaimableStates, WAITING
  <2>5. Ledger!Start(w)
    BY <2>3, <2>4, LedgerSteps
  <2> QED
    BY <1>1, <2>1, <2>5 DEF Ledger!Next
<1>3. CASE RecordRow(k)
  <2> PICK w \in Warnings : w = held[k]
    BY <1>1, <1>3 DEF RecordRow
  <2>1. /\ pc[k] = "written"
        /\ \A v \in Warnings : queue'[v].state = IF v = w THEN cols[k].state ELSE queue[v].state
        /\ \/ pc'[k] = "running" /\ cols[k].state = "processing" /\ held' = held
           \/ /\ pc'[k] \in {"closing", "idle"}
              /\ cols[k].state \in {"completed", "failed", "dead_letter", WAITING}
    BY <1>1, <1>3 DEF RecordRow, TypeOK
  <2>2. queue[w].state = "processing"
    BY <1>1, <2>1 DEF HoldInv
  <2>3. CASE pc'[k] = "running"
    <3>1. \A v \in Warnings : queue'[v].state = queue[v].state
      BY <2>1, <2>2, <2>3
    <3>2. Run = {w} /\ Run' = {w}
      BY <2>1, <2>3, RunOfWorker, RunOfWorkerNext
    <3> QED
      BY <3>1, <3>2, RowsKept
  <2>4. CASE pc'[k] # "running"
    <3>1. Run = {w} /\ Run' = {}
      BY <2>1, <2>4, RunOfWorker, RunOfWorkerNext
    <3>2. Led' = [Led EXCEPT ![w] = cols[k].state] /\ Led[w] = "processing"
      BY <1>1, <2>1, <2>2 DEF Led
    <3>3. cols[k].state \in Ledger!Settled
      BY <2>1, <2>4 DEF Ledger!Settled, WAITING
    <3>4. Ledger!Finish(w)
      BY <3>1, <3>2, <3>3, LedgerSteps
    <3> QED
      BY <1>1, <2>1, <3>4 DEF Ledger!Next
  <2> QED
    BY <2>3, <2>4
<1>4. CASE WorkerCrash(k)
  <2> PICK w \in Warnings : w = held[k]
    BY <1>1, <1>4 DEF WorkerCrash
  <2>1. pc[k] # "idle" /\ pc'[k] = "idle" /\ queue' = queue
    BY <1>4 DEF WorkerCrash, TypeOK
  <2>2. Run' = {} /\ Led' = Led
    BY <2>1, RunOfWorkerNext DEF Led
  <2>3. Run = {} \/ Run = {w}
    BY RunOfWorker
  <2>4. Run = {w} => Ledger!Abandon(w)
    BY <2>2, LedgerSteps
  <2> QED
    BY <1>1, <2>1, <2>2, <2>3, <2>4 DEF Ledger!Next
<1>5. CASE \/ ClaimSelect(k) \/ RecordEntry(k) \/ Settle(k) \/ WriteResult(k) \/ RecordResult(k)
  <2>1. \A v \in Warnings : queue'[v].state = queue[v].state
    BY <1>5 DEF ClaimSelect, RecordEntry, Settle, SettleOk, SettleRecovery, SettleFailure,
                WriteResult, RecordResult, TypeOK, Columns
  <2>2. \/ pc[k] \in {"idle", "closing"} /\ pc'[k] \in {"selected", "idle"}
        \/ /\ pc[k] \notin {"idle", "selected", "closing"} /\ held' = held
           /\ pc'[k] \notin {"idle", "selected", "closing"}
    BY <1>5 DEF ClaimSelect, RecordEntry, Settle, SettleOk, SettleRecovery, SettleFailure,
                WriteResult, RecordResult, TypeOK
  <2>3. Run' = Run
    BY <2>2, RunOfWorker, RunOfWorkerNext
  <2> QED
    BY <2>1, <2>3, RowsKept
<1> QED
  BY <1>2, <1>3, <1>4, <1>5 DEF Worker

(* Files, leases, stale columns and crashes included, the queue of one     *)
(* worker does nothing its governance does not describe: one warning at a  *)
(* time, no step out of a final state, no suppression without a stand-in   *)
(* (build_signoz_warning_queue_governance).                                *)
THEOREM QueueImplementsLedger == ASSUME SingleWorker PROVE Spec => ImplementsLedger
<1>1. Init => Ledger!Init
  BY DEF Init, Ledger!Init, Blank
<1>2. TypeOK /\ QueueInv /\ SoloInv /\ [Next]_vars => [Ledger!Next]_<<Led, Run>>
  <2> SUFFICES ASSUME TypeOK, QueueInv, SoloInv, [Next]_vars PROVE [Ledger!Next]_<<Led, Run>>
    OBVIOUS
  <2>1. CASE UNCHANGED vars
    BY <2>1 DEF vars, storeVars, workerVars, Led, Run
  <2> QED
    BY <2>1, HandlerSimulates, WorkerSimulates DEF Next
<1>3. [Ledger!Next]_<<Led, Run>> => [Ledger!Next]_(Ledger!ledgerVars)
  BY DEF Ledger!ledgerVars, Led, Run
<1> QED
  BY <1>1, <1>2, <1>3, SoloTypesHold, PTL DEF Spec, ImplementsLedger, Ledger!Spec

=============================================================================
