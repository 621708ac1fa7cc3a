-------------------------- MODULE RuntimeSpineProofs --------------------------
(* Theorems about RuntimeSpine, for any jobs, direct or not, any number of *)
(* tries and cuts, and ids shared in any way.                              *)
EXTENDS RuntimeSpine, SequenceTheorems, TLAPS

(* Where a job walks through the kinds of its artifacts.                   *)
Walking == {"appending", "recording", "indexing"}

(* Where its analysis has concluded, its artifacts are stored, and its     *)
(* report is dispatched.                                                   *)
SentPoints   == {"evidencing", "recording", "indexing", "closing", "completed"}
StoredPoints == SentPoints \cup {"delivering", "gating", "posting", "dispatching"}
Analysed     == StoredPoints \cup {"appending"}

(* A job has an id and a try of its own past its start, a conclusion past  *)
(* its analysis, walks through the kinds it has, and has a status when it  *)
(* is dispatched.                                                          *)
ProgressOf(j) ==
  /\ pc[j] # "waiting" => id[j] \in Ids /\ tries[j] \in 1..TriesOf(j)
  /\ pc[j] = "waiting" => tries[j] < TriesOf(j)
  /\ pc[j] \in Analysed => found[j] \in AllAnalyses
  /\ pc[j] \in Walking => at[j] \in KindsOf(j)
  /\ pc[j] \notin Walking => at[j] = "packets"
  /\ pc[j] = "dispatching" => status[j] # "none"

Progress == \A j \in Jobs : ProgressOf(j)

(* A report past its dispatch has its line of deliveries.jsonl. *)
Sent(j) == \E n \in 1..Len(dispatches) : dispatches[n].exec = Exec(j)

Dispatched == \A j \in Jobs : pc[j] \in SentPoints => Sent(j)

(* Dispatches of one id have a latest: what LatestStatus chooses exists.   *)
HasLatest == \A i \in Ids : DispatchesOf(i) # {} =>
               \E n \in DispatchesOf(i) : \A m \in DispatchesOf(i) : m <= n

TypeInv == TypeOK /\ Progress /\ Dispatched /\ HasLatest

(* One job takes a step. *)
Step(j) ==
  \/ Begin(j) \/ Analyse(j) \/ AppendArtifact(j) \/ Delivery(j) \/ WriteRollout(j)
  \/ RecordRow(j) \/ UpsertDoc(j) \/ Complete(j) \/ Cut(j)

(* The kinds a walk has behind it. *)
Before(k) ==
  CASE k = "packets" -> {}
    [] k = "decisions" -> {"packets"}
    [] k = "investigations" -> {"packets", "decisions"}
    [] k = "reports" -> {"packets", "decisions", "investigations"}

LEMMA TriesBound == ASSUME NEW j \in Jobs PROVE TriesOf(j) \in 1..MaxTries
BY TriesAssumption DEF TriesOf

LEMMA ExecType ==
  ASSUME TypeInv, NEW j \in Jobs, pc[j] # "waiting"
  PROVE  Exec(j) \in Execs /\ tries[j] \in 1..MaxTries /\ id[j] \in Ids
<1>1. id[j] \in Ids /\ tries[j] \in 1..TriesOf(j)
  BY DEF TypeInv, Progress, ProgressOf
<1>2. tries[j] \in 1..MaxTries
  BY <1>1, TriesBound, TriesAssumption
<1> QED
  BY <1>1, <1>2 DEF Exec, Execs

(* A walk goes on to a kind the job has, with nothing of its own skipped,  *)
(* or is over with everything behind it.                                   *)
LEMMA AdvanceFacts ==
  ASSUME TypeInv, NEW j \in Jobs, pc[j] \in Walking, NEW next, Advance(j, next)
  PROVE  \/ /\ at' = [at EXCEPT ![j] = NextKind(j)]
            /\ pc' = pc
            /\ NextKind(j) \in KindsOf(j)
            /\ Before(NextKind(j)) \cap KindsOf(j) \subseteq Before(at[j]) \cup {at[j]}
         \/ /\ at' = [at EXCEPT ![j] = "packets"]
            /\ pc' = [pc EXCEPT ![j] = next]
            /\ KindsOf(j) \subseteq Before(at[j]) \cup {at[j]}
<1>1. at[j] \in KindsOf(j)
  BY DEF TypeInv, Progress, ProgressOf
<1>2. CASE at[j] # "reports" /\ at' = [at EXCEPT ![j] = NextKind(j)] /\ pc' = pc
  BY <1>1, <1>2 DEF KindsOf, Kinds, NextKind, Before
<1>3. CASE at[j] = "reports" /\ at' = [at EXCEPT ![j] = "packets"] /\ pc' = [pc EXCEPT ![j] = next]
  BY <1>1, <1>3 DEF KindsOf, Kinds, Before
<1> QED
  BY <1>2, <1>3 DEF Advance

LEMMA AdvanceType ==
  ASSUME TypeOK, NEW j \in Jobs, NEW next \in Points, Advance(j, next)
  PROVE  pc' \in [Jobs -> Points] /\ at' \in [Jobs -> Kinds]
<1> USE DEF TypeOK, Kinds
<1>1. NextKind(j) \in Kinds \/ at[j] = "reports"
  BY DEF NextKind
<1>2. CASE at[j] # "reports" /\ at' = [at EXCEPT ![j] = NextKind(j)] /\ pc' = pc
  BY <1>1, <1>2
<1>3. CASE at[j] = "reports" /\ at' = [at EXCEPT ![j] = "packets"] /\ pc' = [pc EXCEPT ![j] = next]
  BY <1>3
<1> QED
  BY <1>2, <1>3 DEF Advance

LEMMA DispatchType ==
  ASSUME TypeOK, NEW i, NEW n \in DispatchesOf(i)
  PROVE  dispatches[n] \in [exec : Execs, status : Statuses \ {"none"}]
<1>1. n \in 1..Len(dispatches)
  BY DEF DispatchesOf
<1>2. dispatches \in Seq([exec : Execs, status : Statuses \ {"none"}])
  BY DEF TypeOK
<1> QED
  BY <1>1, <1>2, ElementOfSeq

(* What LatestStatus returns is the status of a dispatch of that id that no *)
(* other follows.                                                          *)
LEMMA LatestFacts ==
  ASSUME TypeInv, NEW j \in Jobs, pc[j] \in SentPoints
  PROVE  \E n \in DispatchesOf(id[j]) :
           /\ \A m \in DispatchesOf(id[j]) : m <= n
           /\ LatestStatus(id[j]) = dispatches[n].status
<1>1. id[j] \in Ids
  BY DEF TypeInv, Progress, ProgressOf, SentPoints
<1>2. PICK n \in 1..Len(dispatches) : dispatches[n].exec = Exec(j)
  BY DEF TypeInv, Dispatched, Sent
<1>3. n \in DispatchesOf(id[j])
  BY <1>2 DEF DispatchesOf, Exec
<1>4. \E m \in DispatchesOf(id[j]) : \A l \in DispatchesOf(id[j]) : l <= m
  BY <1>1, <1>3 DEF TypeInv, HasLatest
<1> QED
  BY <1>4 DEF LatestStatus

LEMMA InitTypeInv == Init => TypeInv
<1> SUFFICES ASSUME Init PROVE TypeInv
  OBVIOUS
<1>1. TypeOK
  BY TriesAssumption DEF Init, TypeOK, Kinds, Points, Statuses
<1>2. Progress
  BY TriesBound, TriesAssumption DEF Init, Progress, ProgressOf, Analysed, StoredPoints, SentPoints, Walking
<1>3. Dispatched
  BY DEF Init, Dispatched, SentPoints
<1>4. HasLatest
  BY DEF Init, HasLatest, DispatchesOf
<1> QED
  BY <1>1, <1>2, <1>3, <1>4 DEF TypeInv

(* Every step keeps the types; one step per action. *)
LEMMA StepTypeOK == TypeInv /\ [Next]_vars => TypeOK'
<1> SUFFICES ASSUME TypeInv, [Next]_vars PROVE TypeOK'
  OBVIOUS
<1> USE DEF TypeOK, stores, bridge, locals, Points, Statuses
<1>0. TypeOK
  BY DEF TypeInv
<1>1. CASE UNCHANGED vars
  BY <1>0, <1>1 DEF vars
<1>2. ASSUME NEW j \in Jobs, Begin(j) PROVE TypeOK'
  <2>1. tries[j] + 1 \in 0..MaxTries
    BY <1>0, <1>2, TriesBound, TriesAssumption DEF TypeInv, Progress, ProgressOf, Begin
  <2> QED
    BY <1>0, <1>2, <2>1 DEF Begin
<1>3. ASSUME NEW j \in Jobs, Analyse(j) PROVE TypeOK'
  BY <1>0, <1>3, AnalysesAssumption DEF Analyse
<1>4. ASSUME NEW j \in Jobs, AppendArtifact(j) PROVE TypeOK'
  <2>1. pc[j] = "appending" /\ Exec(j) \in Execs /\ at[j] \in Kinds
    BY <1>0, <1>4, ExecType DEF AppendArtifact
  <2>2. pc' \in [Jobs -> Points] /\ at' \in [Jobs -> Kinds]
    BY <1>0, <1>4, AdvanceType DEF AppendArtifact
  <2> QED
    BY <1>0, <1>4, <2>1, <2>2 DEF AppendArtifact
<1>5. ASSUME NEW j \in Jobs, WritePayload(j) PROVE TypeOK'
  <2>1. pc[j] = "delivering" /\ Exec(j) \in Execs /\ id[j] \in Ids /\ found[j].class \in Classes
    BY <1>0, <1>5, ExecType DEF WritePayload, TypeInv, Progress, ProgressOf, Analysed, StoredPoints, AllAnalyses
  <2> QED
    BY <1>0, <1>5, <2>1 DEF WritePayload
<1>6. ASSUME NEW j \in Jobs, ResolveGate(j) PROVE TypeOK'
  BY <1>0, <1>6 DEF ResolveGate
<1>7. ASSUME NEW j \in Jobs, Post(j) PROVE TypeOK'
  <2>1. pc[j] = "posting" /\ Exec(j) \in Execs
    BY <1>0, <1>7, ExecType DEF Post
  <2> QED
    BY <1>0, <1>7, <2>1 DEF Post
<1>8. ASSUME NEW j \in Jobs, AppendDispatch(j) PROVE TypeOK'
  <2>1. pc[j] = "dispatching" /\ Exec(j) \in Execs /\ status[j] \in Statuses \ {"none"}
    BY <1>0, <1>8, ExecType DEF AppendDispatch, TypeInv, Progress, ProgressOf
  <2> QED
    BY <1>0, <1>8, <2>1 DEF AppendDispatch
<1>9. ASSUME NEW j \in Jobs, WriteRollout(j) PROVE TypeOK'
  BY <1>0, <1>9, ExecType DEF WriteRollout
<1>10. ASSUME NEW j \in Jobs, RecordRow(j) PROVE TypeOK'
  <2>1. pc[j] = "recording" /\ id[j] \in Ids /\ at[j] \in Kinds
    BY <1>0, <1>10, ExecType DEF RecordRow
  <2>2. pc' \in [Jobs -> Points] /\ at' \in [Jobs -> Kinds]
    BY <1>0, <1>10, AdvanceType DEF RecordRow
  <2> QED
    BY <1>0, <1>10, <2>1, <2>2 DEF RecordRow
<1>11. ASSUME NEW j \in Jobs, UpsertDoc(j) PROVE TypeOK'
  <2>1. pc[j] = "indexing" /\ id[j] \in Ids /\ at[j] \in Kinds
    BY <1>0, <1>11, ExecType DEF UpsertDoc
  <2>2. pc' \in [Jobs -> Points] /\ at' \in [Jobs -> Kinds]
    BY <1>0, <1>11, AdvanceType DEF UpsertDoc
  <2> QED
    BY <1>0, <1>11, <2>1, <2>2 DEF UpsertDoc
<1>12. ASSUME NEW j \in Jobs, Complete(j) PROVE TypeOK'
  <2>1. pc[j] = "closing"
    BY <1>12 DEF Complete
  <2>2. LatestStatus(id[j]) \in Statuses
    <3>1. PICK n \in DispatchesOf(id[j]) : LatestStatus(id[j]) = dispatches[n].status
      BY <2>1, LatestFacts DEF SentPoints
    <3>2. dispatches[n] \in [exec : Execs, status : Statuses \ {"none"}]
      BY DispatchType, <1>0
    <3> QED
      BY <3>1, <3>2
  <2> QED
    BY <1>0, <1>12, <2>2 DEF Complete, ReviewRequired
<1>13. ASSUME NEW j \in Jobs, Cut(j) PROVE TypeOK'
  <2>1. at' \in [Jobs -> Kinds] /\ cuts' \in 0..MaxCuts
    BY <1>0, <1>13, TriesAssumption DEF Cut, Kinds
  <2>2. pc' \in [Jobs -> Points]
    BY <1>0, <1>13 DEF Cut
  <2> QED
    BY <1>0, <1>13, <2>1, <2>2 DEF Cut
<1> QED
  BY <1>1, <1>2, <1>3, <1>4, <1>5, <1>6, <1>7, <1>8, <1>9, <1>10, <1>11, <1>12, <1>13 DEF Next, Delivery

(* What a step of one job leaves the others.                               *)
Same(i) ==
  /\ pc'[i] = pc[i] /\ at'[i] = at[i] /\ tries'[i] = tries[i] /\ id'[i] = id[i]
  /\ found'[i] = found[i] /\ status'[i] = status[i] /\ result'[i] = result[i]

LEMMA OthersSame ==
  ASSUME TypeOK, NEW j \in Jobs, Step(j), NEW i \in Jobs, i # j
  PROVE  Same(i)
<1> USE DEF TypeOK, Same, stores, bridge, locals
<1>1. CASE Begin(j)
  BY <1>1 DEF Begin
<1>2. CASE Analyse(j)
  BY <1>2 DEF Analyse
<1>3. CASE AppendArtifact(j)
  BY <1>3 DEF AppendArtifact, Advance
<1>4. CASE Delivery(j)
  BY <1>4 DEF Delivery, WritePayload, ResolveGate, Post, AppendDispatch
<1>5. CASE WriteRollout(j)
  BY <1>5 DEF WriteRollout
<1>6. CASE RecordRow(j)
  BY <1>6 DEF RecordRow, Advance
<1>7. CASE UpsertDoc(j)
  BY <1>7 DEF UpsertDoc, Advance
<1>8. CASE Complete(j)
  BY <1>8 DEF Complete
<1>9. CASE Cut(j)
  BY <1>9 DEF Cut
<1> QED
  BY <1>1, <1>2, <1>3, <1>4, <1>5, <1>6, <1>7, <1>8, <1>9 DEF Step

(* Only a start changes ids and tries, only an analysis its conclusion.    *)
LEMMA StepKeeps ==
  ASSUME NEW j \in Jobs, Step(j)
  PROVE  /\ Begin(j) \/ (id' = id /\ tries' = tries)
         /\ Analyse(j) \/ found' = found
BY DEF Step, Analyse, AppendArtifact, Delivery, WritePayload, ResolveGate, Post, AppendDispatch,
       WriteRollout, RecordRow, UpsertDoc, Complete, Cut, Begin, locals

(* Nothing that was stored is lost. *)
Grown ==
  /\ \A k \in Kinds : lines[k] \subseteq lines'[k]
  /\ rows \subseteq rows' /\ docs \subseteq docs' /\ rollout \subseteq rollout'
  /\ \A p \in Ids \X Classes : payload[p] # None => payload'[p] # None
  /\ Len(dispatches) \in Nat /\ Len(dispatches') \in Nat
  /\ Len(dispatches) <= Len(dispatches')
  /\ \A n \in 1..Len(dispatches) : dispatches'[n] = dispatches[n]

LEMMA StepGrows == ASSUME TypeInv, NEW j \in Jobs, Step(j) PROVE Grown
<1> USE DEF Grown, stores, bridge, locals
<1>0. TypeOK
  BY DEF TypeInv
<1>1. Len(dispatches) \in Nat
  BY <1>0 DEF TypeOK
<1>2. CASE UNCHANGED stores
  BY <1>1, <1>2
<1>3. CASE AppendArtifact(j)
  BY <1>0, <1>1, <1>3 DEF AppendArtifact, TypeOK
<1>4. CASE WritePayload(j)
  <2>1. Exec(j) \in Execs
    BY <1>4, ExecType DEF WritePayload
  <2> QED
    BY <1>0, <1>1, <1>4, <2>1, SpineNoneAssumption DEF WritePayload, TypeOK
<1>5. CASE AppendDispatch(j)
  BY <1>0, <1>1, <1>5 DEF AppendDispatch, TypeOK
<1>6. CASE WriteRollout(j)
  BY <1>1, <1>6 DEF WriteRollout
<1>7. CASE RecordRow(j)
  BY <1>1, <1>7 DEF RecordRow
<1>8. CASE UpsertDoc(j)
  BY <1>1, <1>8 DEF UpsertDoc
<1> QED
  BY <1>2, <1>3, <1>4, <1>5, <1>6, <1>7, <1>8
     DEF Step, Delivery, Begin, Analyse, ResolveGate, Post, Complete, Cut

(* A dispatch stays with its execution. *)
LEMMA StaysSent ==
  ASSUME Grown, NEW i \in Jobs, Sent(i), id'[i] = id[i], tries'[i] = tries[i]
  PROVE  Sent(i)'
BY DEF Grown, Sent, Exec

LEMMA StepProgress == ASSUME TypeInv, NEW j \in Jobs, Step(j) PROVE Progress'
<1> USE DEF stores, bridge, locals, Walking, Analysed, StoredPoints, SentPoints
<1>0. TypeOK /\ ProgressOf(j)
  BY DEF TypeInv, Progress, ProgressOf
<1>1. ASSUME NEW i \in Jobs, i # j PROVE ProgressOf(i)'
  <2>1. Same(i)
    BY <1>0, <1>1, OthersSame
  <2>2. ProgressOf(i)
    BY DEF TypeInv, Progress, ProgressOf
  <2>3. KindsOf(i)' = KindsOf(i)
    BY <2>1 DEF Same, KindsOf, Investigated
  <2> QED
    BY <2>1, <2>2, <2>3 DEF Same, ProgressOf
<1>2. ProgressOf(j)'
  <2> USE <1>0 DEF TypeOK, ProgressOf
  <2>1. CASE Begin(j)
    <3>1. tries'[j] = tries[j] + 1 /\ tries[j] \in Nat /\ tries[j] < TriesOf(j) /\ TriesOf(j) \in Nat
      BY <2>1, TriesBound, TriesAssumption DEF Begin
    <3>2. tries'[j] \in 1..TriesOf(j)
      BY <3>1
    <3> QED
      BY <2>1, <3>2 DEF Begin
  <2>2. CASE Analyse(j)
    BY <2>2, AnalysesAssumption DEF Analyse, KindsOf, Kinds
  <2>3. ASSUME NEW next \in Points, pc[j] \in Walking, next \notin {"waiting", "dispatching"},
               next \in Walking => next = "indexing", Advance(j, next), UNCHANGED <<tries, id, found, status>>
        PROVE  ProgressOf(j)'
    <3>1. KindsOf(j)' = KindsOf(j) /\ "packets" \in KindsOf(j)
      BY <2>3 DEF KindsOf, Investigated, Kinds
    <3>2. \/ at' = [at EXCEPT ![j] = NextKind(j)] /\ pc' = pc /\ NextKind(j) \in KindsOf(j)
          \/ at' = [at EXCEPT ![j] = "packets"] /\ pc' = [pc EXCEPT ![j] = next]
      BY <2>3, AdvanceFacts
    <3> QED
      BY <2>3, <3>1, <3>2
  <2>4. CASE AppendArtifact(j)
    BY <2>3, <2>4 DEF AppendArtifact, Points
  <2>5. CASE RecordRow(j)
    BY <2>3, <2>5 DEF RecordRow, Points
  <2>6. CASE UpsertDoc(j)
    BY <2>3, <2>6 DEF UpsertDoc, Points
  <2>7. CASE Delivery(j)
    BY <2>7 DEF Delivery, WritePayload, ResolveGate, Post, AppendDispatch
  <2>8. CASE WriteRollout(j)
    BY <2>8 DEF WriteRollout, KindsOf, Kinds
  <2>9. CASE Complete(j)
    BY <2>9 DEF Complete
  <2>10. CASE Cut(j)
    BY <2>10 DEF Cut, Busy, Ended
  <2> QED
    BY <2>1, <2>2, <2>4, <2>5, <2>6, <2>7, <2>8, <2>9, <2>10 DEF Step
<1> QED
  BY <1>1, <1>2 DEF Progress, ProgressOf

(* Only AppendDispatch adds a dispatch, and adds its own. *)
LEMMA StepDispatches ==
  ASSUME NEW j \in Jobs, Step(j)
  PROVE  AppendDispatch(j) \/ dispatches' = dispatches
BY DEF Step, Begin, Analyse, AppendArtifact, Delivery, WritePayload, ResolveGate, Post,
       WriteRollout, RecordRow, UpsertDoc, Complete, Cut, stores

LEMMA AppendedIsLast ==
  ASSUME TypeInv, NEW j \in Jobs, AppendDispatch(j)
  PROVE  /\ Len(dispatches) \in Nat
         /\ Len(dispatches') = Len(dispatches) + 1
         /\ dispatches'[Len(dispatches) + 1] = [exec |-> Exec(j), status |-> status[j]]
         /\ \A n \in 1..Len(dispatches) : dispatches'[n] = dispatches[n]
<1>1. dispatches \in Seq([exec : Execs, status : Statuses \ {"none"}])
  BY DEF TypeInv, TypeOK
<1> QED
  BY <1>1 DEF AppendDispatch

LEMMA StepDispatched == ASSUME TypeInv, NEW j \in Jobs, Step(j) PROVE Dispatched'
<1>0. TypeOK /\ Grown
  BY StepGrows DEF TypeInv
<1>1. ASSUME NEW i \in Jobs, i # j, pc'[i] \in SentPoints PROVE Sent(i)'
  <2>1. Same(i)
    BY <1>0, <1>1, OthersSame
  <2>2. Sent(i)
    BY <1>1, <2>1 DEF TypeInv, Dispatched, Same
  <2> QED
    BY <1>0, <2>1, <2>2, StaysSent DEF Same
<1>2. ASSUME pc'[j] \in SentPoints PROVE Sent(j)'
  <2>1. CASE AppendDispatch(j)
    <3>1. Exec(j)' = Exec(j)
      BY <2>1 DEF AppendDispatch, Exec, locals
    <3>2. /\ Len(dispatches) + 1 \in 1..Len(dispatches')
          /\ dispatches'[Len(dispatches) + 1] = [exec |-> Exec(j), status |-> status[j]]
      BY <2>1, AppendedIsLast
    <3>3. dispatches'[Len(dispatches) + 1].exec = Exec(j)'
      BY <3>1, <3>2
    <3> QED
      BY <3>2, <3>3 DEF Sent
  <2>2. CASE pc[j] \in SentPoints
    <3>1. ~Begin(j)
      BY <2>2 DEF Begin, SentPoints
    <3> QED
      BY <1>0, <2>2, <3>1, StepKeeps, StaysSent DEF TypeInv, Dispatched
  <2>3. pc[j] \in SentPoints \/ AppendDispatch(j)
    BY <1>0, <1>2 DEF Step, Begin, Analyse, AppendArtifact, Delivery, WritePayload, ResolveGate, Post,
                 WriteRollout, RecordRow, UpsertDoc, Complete, Cut, Advance, SentPoints, TypeOK
  <2> QED
    BY <2>1, <2>2, <2>3
<1> QED
  BY <1>1, <1>2 DEF Dispatched

LEMMA StepHasLatest == ASSUME TypeInv, NEW j \in Jobs, Step(j) PROVE HasLatest'
<1>1. CASE dispatches' = dispatches
  BY <1>1 DEF TypeInv, HasLatest, DispatchesOf
<1>2. CASE AppendDispatch(j)
  <2> SUFFICES ASSUME NEW i \in Ids, DispatchesOf(i)' # {}
               PROVE  \E n \in DispatchesOf(i)' : \A m \in DispatchesOf(i)' : m <= n
    BY DEF HasLatest
  <2> DEFINE N == Len(dispatches)
  <2>1. N \in Nat /\ Len(dispatches') = N + 1
    BY <1>2, AppendedIsLast
  <2>2. CASE dispatches'[N + 1].exec.id = i
    BY <2>1, <2>2 DEF DispatchesOf
  <2>3. CASE dispatches'[N + 1].exec.id # i
    <3>1. \A n \in 1..N : dispatches'[n] = dispatches[n]
      BY <1>2, AppendedIsLast
    <3>2. \A n \in 1..(N + 1) : dispatches'[n].exec.id = i => n \in 1..N
      BY <2>1, <2>3
    <3>3. 1..N \subseteq 1..(N + 1)
      BY <2>1
    <3>4. DispatchesOf(i)' = DispatchesOf(i)
      BY <2>1, <3>1, <3>2, <3>3 DEF DispatchesOf
    <3> QED
      BY <3>4 DEF TypeInv, HasLatest
  <2> QED
    BY <2>2, <2>3
<1> QED
  BY <1>1, <1>2, StepDispatches

LEMMA StepTypeInv == TypeInv /\ [Next]_vars => TypeInv'
<1> SUFFICES ASSUME TypeInv, [Next]_vars PROVE TypeInv'
  OBVIOUS
<1>1. TypeOK'
  BY StepTypeOK
<1>2. CASE UNCHANGED vars
  BY <1>1, <1>2 DEF vars, stores, bridge, locals, TypeInv, Progress, ProgressOf, KindsOf, Investigated,
                    Dispatched, Sent, Exec, HasLatest, DispatchesOf
<1>3. ASSUME NEW j \in Jobs, Step(j) PROVE TypeInv'
  BY <1>1, <1>3, StepProgress, StepDispatched, StepHasLatest DEF TypeInv
<1> QED
  BY <1>2, <1>3 DEF Next, Step

(* In every behaviour of the runtime its state keeps its types.            *)
THEOREM SpineTypes == Spec => []TypeOK
<1>1. TypeInv => TypeOK
  BY DEF TypeInv
<1> QED
  BY <1>1, InitTypeInv, StepTypeInv, PTL DEF Spec

LEMMA SpineTypeInv == Spec => []TypeInv
BY InitTypeInv, StepTypeInv, PTL DEF Spec

-----------------------------------------------------------------------------
(* No trace of an execution without its artifacts.                         *)

(* No execution is of a try to come. *)
Tried ==
  /\ \A x \in requested : x.try <= tries[x.job]
  /\ \A n \in 1..Len(dispatches) : dispatches[n].exec.try <= tries[dispatches[n].exec.job]

Asking == {"analysing", "appending", "delivering", "gating", "posting"}

(* The running execution has left no trace before its time.                *)
FreshOf(j) ==
  /\ pc[j] \in Asking => Exec(j) \notin requested
  /\ pc[j] \in Asking \cup {"dispatching"} => ~Sent(j)

(* Its artifacts are stored as far as it walked, and all of them once the  *)
(* walk is over or a trace is left.                                        *)
AllStored(j) == \A k \in KindsOf(j) : Exec(j) \in lines[k]

StoredOf(j) ==
  /\ pc[j] \in StoredPoints => AllStored(j)
  /\ pc[j] = "appending" => \A k \in KindsOf(j) \cap Before(at[j]) : Exec(j) \in lines[k]
  /\ Exec(j) \in requested \/ Sent(j) => AllStored(j)

(* The status it is about to record is what it did. *)
TellsOf(j) ==
  pc[j] = "dispatching" => (Exec(j) \in requested <=> status[j] \in {"delivered", "failed"})

Traced == \A j \in Jobs : FreshOf(j) /\ StoredOf(j) /\ TellsOf(j)

TraceInv == TypeInv /\ Tried /\ Traced /\ StatusTellsRequest

LEMMA StepRequests ==
  ASSUME NEW j \in Jobs, Step(j)
  PROVE  Post(j) \/ requested' = requested
BY DEF Step, Begin, Analyse, AppendArtifact, Delivery, WritePayload, ResolveGate, AppendDispatch,
       WriteRollout, RecordRow, UpsertDoc, Complete, Cut, bridge

LEMMA StepTried == ASSUME TypeInv, Tried, NEW j \in Jobs, Step(j) PROVE Tried'
<1>0. TypeOK
  BY DEF TypeInv
<1>1. \A i \in Jobs : tries[i] \in Nat /\ tries'[i] \in Nat /\ tries[i] <= tries'[i]
  <2>1. CASE Begin(j)
    BY <1>0, <2>1, TriesAssumption DEF TypeOK, Begin
  <2>2. CASE tries' = tries
    BY <1>0, <2>2, TriesAssumption DEF TypeOK
  <2> QED
    BY <2>1, <2>2, StepKeeps
<1>2. \A x \in Execs : x.job \in Jobs /\ x.try \in Nat
  BY TriesAssumption DEF Execs
<1>3. \A x \in requested' : x.try <= tries'[x.job]
  <2>1. CASE requested' = requested
    BY <1>0, <1>1, <1>2, <2>1 DEF TypeOK, Tried
  <2>2. CASE Post(j)
    <3>1. requested' = requested \cup {Exec(j)} /\ tries' = tries
      BY <2>2 DEF Post
    <3> QED
      BY <1>0, <1>1, <1>2, <3>1 DEF TypeOK, Tried, Exec
  <2> QED
    BY <2>1, <2>2, StepRequests
<1>4. \A n \in 1..Len(dispatches) : dispatches[n].exec \in Execs
  <2>1. dispatches \in Seq([exec : Execs, status : Statuses \ {"none"}])
    BY <1>0 DEF TypeOK
  <2>2. \A n \in 1..Len(dispatches) : dispatches[n] \in [exec : Execs, status : Statuses \ {"none"}]
    BY <2>1, ElementOfSeq
  <2> QED
    BY <2>2
<1>5. \A n \in 1..Len(dispatches') : dispatches'[n].exec.try <= tries'[dispatches'[n].exec.job]
  <2>1. CASE dispatches' = dispatches
    <3> TAKE n \in 1..Len(dispatches')
    <3>1. n \in 1..Len(dispatches) /\ dispatches'[n] = dispatches[n]
      BY <2>1
    <3>2. dispatches[n].exec.job \in Jobs /\ dispatches[n].exec.try \in Nat
      BY <1>2, <1>4, <3>1
    <3> QED
      BY <1>1, <3>1, <3>2 DEF Tried
  <2>2. CASE AppendDispatch(j)
    <3> DEFINE N == Len(dispatches)
    <3>0. /\ N \in Nat /\ Len(dispatches') = N + 1
          /\ dispatches'[N + 1] = [exec |-> Exec(j), status |-> status[j]]
          /\ \A n \in 1..N : dispatches'[n] = dispatches[n]
      BY <2>2, AppendedIsLast
    <3> TAKE n \in 1..Len(dispatches')
    <3>1. n \in 1..N \/ n = N + 1
      BY <3>0
    <3>2. CASE n \in 1..N
      BY <1>1, <1>2, <1>4, <3>0, <3>2 DEF Tried
    <3>3. CASE n = N + 1
      BY <1>1, <2>2, <3>0, <3>3 DEF Exec, AppendDispatch, locals
    <3> QED
      BY <3>1, <3>2, <3>3
  <2> QED
    BY <2>1, <2>2, StepDispatches
<1> QED
  BY <1>3, <1>5 DEF Tried

(* A step leaves the traces of the other jobs alone. *)
LEMMA OthersTraces ==
  ASSUME TypeInv, NEW j \in Jobs, Step(j), NEW i \in Jobs, i # j
  PROVE  /\ Exec(i)' = Exec(i)
         /\ Exec(i) \in requested' <=> Exec(i) \in requested
         /\ Sent(i)' <=> Sent(i)
<1>0. TypeOK /\ Grown
  BY StepGrows DEF TypeInv
<1>1. Same(i)
  BY <1>0, OthersSame
<1>2. Exec(i)' = Exec(i) /\ Exec(i) # Exec(j)
  BY <1>1 DEF Same, Exec
<1>3. Exec(i) \in requested' <=> Exec(i) \in requested
  BY <1>2, StepRequests DEF Post
<1>4. Sent(i)' => Sent(i)
  <2>1. CASE dispatches' = dispatches
    BY <1>2, <2>1 DEF Sent
  <2>2. CASE AppendDispatch(j)
    <3> DEFINE N == Len(dispatches)
    <3>0. /\ N \in Nat /\ Len(dispatches') = N + 1
          /\ dispatches'[N + 1] = [exec |-> Exec(j), status |-> status[j]]
          /\ \A n \in 1..N : dispatches'[n] = dispatches[n]
      BY <2>2, AppendedIsLast
    <3> SUFFICES ASSUME NEW n \in 1..Len(dispatches'), dispatches'[n].exec = Exec(i)
                 PROVE  Sent(i)
      BY <1>2 DEF Sent
    <3>1. n # N + 1
      BY <1>2, <3>0
    <3>2. n \in 1..N
      BY <3>0, <3>1
    <3> QED
      BY <3>0, <3>2 DEF Sent
  <2> QED
    BY <2>1, <2>2, StepDispatches
<1>5. Sent(i) => Sent(i)'
  BY <1>0, <1>1, StaysSent DEF Same
<1> QED
  BY <1>2, <1>3, <1>4, <1>5

LEMMA OthersTraced ==
  ASSUME TraceInv, NEW j \in Jobs, Step(j), NEW i \in Jobs, i # j
  PROVE  FreshOf(i)' /\ StoredOf(i)' /\ TellsOf(i)'
<1>0. TypeOK /\ Grown /\ FreshOf(i) /\ StoredOf(i) /\ TellsOf(i)
  BY StepGrows DEF TraceInv, TypeInv, Traced
<1>1. Same(i)
  BY <1>0, OthersSame
<1>2. /\ Exec(i)' = Exec(i)
      /\ Exec(i)' \in requested' <=> Exec(i) \in requested
      /\ Sent(i)' <=> Sent(i)
  BY OthersTraces DEF TraceInv
<1>3. KindsOf(i)' = KindsOf(i) /\ KindsOf(i) \subseteq Kinds
  BY <1>1 DEF Same, KindsOf, Investigated, Kinds
<1>4. AllStored(i) => AllStored(i)'
  BY <1>0, <1>2, <1>3 DEF AllStored, Grown
<1>5. FreshOf(i)'
  BY <1>0, <1>1, <1>2 DEF FreshOf, Same
<1>6. StoredOf(i)'
  BY <1>0, <1>1, <1>2, <1>3, <1>4 DEF StoredOf, Same, Grown
<1>7. TellsOf(i)'
  BY <1>0, <1>1, <1>2 DEF TellsOf, Same
<1> QED
  BY <1>5, <1>6, <1>7

(* One step per action of the job itself. *)
LEMMA OwnTraced ==
  ASSUME TraceInv, NEW j \in Jobs, Step(j)
  PROVE  FreshOf(j)' /\ StoredOf(j)' /\ TellsOf(j)'
<1> DEFINE Goal == FreshOf(j) /\ StoredOf(j) /\ TellsOf(j)
<1> USE DEF FreshOf, StoredOf, TellsOf, Asking, StoredPoints, SentPoints, stores, bridge, locals
<1>0. TypeInv /\ TypeOK /\ Progress /\ Goal
  BY DEF TraceInv, TypeInv, Traced
<1>1. CASE Begin(j)
  <2>1. /\ Exec(j)' = [id |-> id'[j], job |-> j, try |-> tries'[j]]
        /\ tries'[j] = tries[j] + 1 /\ tries[j] \in Nat /\ pc'[j] = "analysing"
        /\ requested' = requested /\ dispatches' = dispatches
    BY <1>0, <1>1, TriesAssumption DEF Begin, TypeOK, Exec
  <2>2. Exec(j)' \notin requested'
    BY <2>1 DEF TraceInv, Tried
  <2>3. ~Sent(j)'
    BY <2>1 DEF TraceInv, Tried, Sent
  <2> QED
    BY <2>1, <2>2, <2>3
<1> SUFFICES ASSUME ~Begin(j) PROVE Goal'
  BY <1>1
<1>2. Exec(j)' = Exec(j)
  BY StepKeeps DEF Exec
<1>3. dispatches' = dispatches => (Sent(j)' <=> Sent(j))
  BY <1>2 DEF Sent
<1>4. CASE Analyse(j)
  <2>1. /\ pc[j] = "analysing" /\ pc'[j] = "appending" /\ at'[j] = "packets"
        /\ requested' = requested /\ dispatches' = dispatches
    BY <1>0, <1>4 DEF Analyse, TypeOK, Progress, ProgressOf, Walking
  <2> QED
    BY <1>0, <1>2, <1>3, <2>1 DEF Before
<1> SUFFICES ASSUME ~Analyse(j) PROVE Goal'
  BY <1>4
<1>5. KindsOf(j)' = KindsOf(j) /\ KindsOf(j) \subseteq Kinds
  BY StepKeeps DEF KindsOf, Investigated, Kinds
<1>6. AllStored(j) => AllStored(j)'
  BY <1>0, <1>2, <1>5, StepGrows DEF AllStored, Grown
<1>7. CASE AppendArtifact(j)
  <2>1. /\ pc[j] = "appending" /\ requested' = requested /\ dispatches' = dispatches
        /\ Exec(j) \notin requested /\ ~Sent(j) /\ at[j] \in Kinds
    BY <1>0, <1>7 DEF AppendArtifact, TypeOK
  <2>2. \A k \in KindsOf(j) \cap (Before(at[j]) \cup {at[j]}) : Exec(j) \in lines'[k]
    BY <1>0, <1>5, <1>7, <2>1 DEF AppendArtifact, TypeOK
  <2>3. \/ /\ at' = [at EXCEPT ![j] = NextKind(j)] /\ pc' = pc
           /\ Before(NextKind(j)) \cap KindsOf(j) \subseteq Before(at[j]) \cup {at[j]}
        \/ /\ pc' = [pc EXCEPT ![j] = "delivering"]
           /\ KindsOf(j) \subseteq Before(at[j]) \cup {at[j]}
    BY <1>0, <1>7, <2>1, AdvanceFacts DEF AppendArtifact, Walking
  <2>4. CASE /\ at' = [at EXCEPT ![j] = NextKind(j)] /\ pc' = pc
             /\ Before(NextKind(j)) \cap KindsOf(j) \subseteq Before(at[j]) \cup {at[j]}
    <3>1. at'[j] = NextKind(j) /\ pc'[j] = "appending"
      BY <1>0, <2>1, <2>4 DEF TypeOK
    <3>2. Before(at[j])' = Before(NextKind(j))
      BY <3>1 DEF Before
    <3>3. \A k \in (KindsOf(j) \cap Before(at[j]))' : (Exec(j) \in lines[k])'
      BY <1>2, <1>5, <2>2, <2>4, <3>2
    <3> QED
      BY <1>2, <1>3, <2>1, <3>1, <3>3
  <2>5. CASE /\ pc' = [pc EXCEPT ![j] = "delivering"]
             /\ KindsOf(j) \subseteq Before(at[j]) \cup {at[j]}
    <3>1. pc'[j] = "delivering"
      BY <1>0, <2>5 DEF TypeOK
    <3>2. AllStored(j)'
      BY <1>2, <1>5, <2>2, <2>5 DEF AllStored
    <3> QED
      BY <1>2, <1>3, <2>1, <3>1, <3>2
  <2> QED
    BY <2>3, <2>4, <2>5
<1>8. CASE WritePayload(j) \/ ResolveGate(j)
  BY <1>0, <1>2, <1>3, <1>6, <1>8 DEF WritePayload, ResolveGate, TypeOK
<1>9. CASE Post(j)
  BY <1>0, <1>2, <1>3, <1>6, <1>9 DEF Post, TypeOK
<1>10. CASE AppendDispatch(j)
  <2>1. pc[j] = "dispatching" /\ pc'[j] = "evidencing"
    BY <1>0, <1>10 DEF AppendDispatch, TypeOK
  <2> QED
    BY <1>0, <1>6, <2>1
<1>11. CASE WriteRollout(j) \/ RecordRow(j) \/ UpsertDoc(j) \/ Complete(j)
  <2>1. /\ pc[j] \in SentPoints /\ pc'[j] \in SentPoints
    BY <1>0, <1>11 DEF WriteRollout, RecordRow, UpsertDoc, Complete, Advance, TypeOK
  <2> QED
    BY <1>0, <1>6, <2>1
<1>12. CASE Cut(j)
  <2>1. pc'[j] \in {"waiting", "given_up"} /\ requested' = requested /\ dispatches' = dispatches
    BY <1>0, <1>12 DEF Cut, TypeOK
  <2> QED
    BY <1>0, <1>2, <1>3, <1>6, <2>1
<1> QED
  BY <1>7, <1>8, <1>9, <1>10, <1>11, <1>12 DEF Step, Delivery

LEMMA StepTells == ASSUME TraceInv, NEW j \in Jobs, Step(j) PROVE StatusTellsRequest'
<1>0. TypeInv /\ FreshOf(j) /\ TellsOf(j)
  BY DEF TraceInv, Traced
<1>1. CASE requested' = requested /\ dispatches' = dispatches
  BY <1>1 DEF TraceInv, StatusTellsRequest
<1>2. CASE Post(j)
  <2>1. ~Sent(j) /\ dispatches' = dispatches /\ requested' = requested \cup {Exec(j)}
    BY <1>0, <1>2 DEF Post, FreshOf, Asking, stores
  <2> QED
    BY <2>1 DEF TraceInv, StatusTellsRequest, Sent
<1>3. CASE AppendDispatch(j)
  <2> DEFINE N == Len(dispatches)
  <2>0. /\ N \in Nat /\ Len(dispatches') = N + 1
        /\ dispatches'[N + 1] = [exec |-> Exec(j), status |-> status[j]]
        /\ \A n \in 1..N : dispatches'[n] = dispatches[n]
    BY <1>0, <1>3, AppendedIsLast
  <2>1. requested' = requested /\ pc[j] = "dispatching"
    BY <1>3 DEF AppendDispatch, bridge
  <2> SUFFICES ASSUME NEW n \in 1..(N + 1)
               PROVE  dispatches'[n].exec \in requested <=> dispatches'[n].status \in {"delivered", "failed"}
    BY <2>0, <2>1 DEF StatusTellsRequest
  <2>2. CASE n \in 1..N
    BY <2>0, <2>2 DEF TraceInv, StatusTellsRequest
  <2>3. CASE n = N + 1
    BY <1>0, <2>0, <2>1, <2>3 DEF TellsOf
  <2> QED
    BY <2>0, <2>2, <2>3
<1> QED
  BY <1>1, <1>2, <1>3, StepRequests, StepDispatches DEF Post, AppendDispatch, stores, bridge

LEMMA InitTraceInv == Init => TraceInv
<1> SUFFICES ASSUME Init PROVE TraceInv
  OBVIOUS
<1>1. Tried /\ StatusTellsRequest
  BY DEF Init, Tried, StatusTellsRequest
<1>2. Traced
  BY DEF Init, Traced, FreshOf, StoredOf, TellsOf, Sent, Asking, StoredPoints, SentPoints
<1> QED
  BY <1>1, <1>2, InitTypeInv DEF TraceInv

LEMMA StepTraceInv == TraceInv /\ [Next]_vars => TraceInv'
<1> SUFFICES ASSUME TraceInv, [Next]_vars PROVE TraceInv'
  OBVIOUS
<1>0. TypeInv /\ Tried /\ TypeInv'
  BY StepTypeInv DEF TraceInv
<1>1. CASE UNCHANGED vars
  BY <1>0, <1>1 DEF vars, stores, bridge, locals, TraceInv, Tried, Traced, FreshOf, StoredOf, TellsOf,
                    AllStored, Sent, Exec, KindsOf, Investigated, Before, StatusTellsRequest
<1>2. ASSUME NEW j \in Jobs, Step(j) PROVE TraceInv'
  <2>1. Traced'
    BY <1>2, OthersTraced, OwnTraced DEF Traced
  <2> QED
    BY <1>0, <1>2, <2>1, StepTried, StepTells DEF TraceInv
<1> QED
  BY <1>1, <1>2 DEF Next, Step

LEMMA SpineTraceInv == Spec => []TraceInv
BY InitTraceInv, StepTraceInv, PTL DEF Spec

(* Whatever is cut, and whatever ids are shared: what was posted or        *)
(* dispatched is stored.                                                   *)
THEOREM SpineDeliveredIsStored == Spec => []DeliveredIsStored
<1>1. TraceInv => DeliveredIsStored
  BY DEF TraceInv, Traced, StoredOf, AllStored, Sent, DeliveredIsStored
<1> QED
  BY <1>1, SpineTraceInv, PTL

(* The dispatch record says whether the vendor was asked.                  *)
THEOREM SpineStatusTellsRequest == Spec => []StatusTellsRequest
<1>1. TraceInv => StatusTellsRequest
  BY DEF TraceInv
<1> QED
  BY <1>1, SpineTraceInv, PTL

-----------------------------------------------------------------------------
(* The indexes follow the files. *)

IndexInv == TraceInv /\ IndexedIsStored

LEMMA StepIndexed == ASSUME IndexInv, NEW j \in Jobs, Step(j) PROVE IndexedIsStored'
<1> USE DEF stores, bridge, locals
<1>0. TypeInv /\ TypeOK /\ Grown
  BY StepGrows DEF IndexInv, TraceInv, TypeInv
<1>1. \A r \in Indexed : r[1] \in Kinds
  BY <1>0 DEF TypeOK, Indexed
<1>2. \A i : DispatchesOf(i) \subseteq DispatchesOf(i)'
  BY <1>0 DEF Grown, DispatchesOf
<1>3. ASSUME NEW r \in Indexed
      PROVE  (\E x \in lines'[r[1]] : x.id = r[2]) /\ DispatchesOf(r[2])' # {}
  <2>1. (\E x \in lines[r[1]] : x.id = r[2]) /\ DispatchesOf(r[2]) # {}
    BY DEF IndexInv, IndexedIsStored
  <2> QED
    BY <1>0, <1>1, <1>2, <2>1 DEF Grown
<1>4. CASE Indexed' = Indexed
  BY <1>3, <1>4 DEF IndexedIsStored
<1>5. CASE RecordRow(j) \/ UpsertDoc(j)
  <2>1. /\ Indexed' = Indexed \cup {<<at[j], id[j]>>} /\ lines' = lines /\ dispatches' = dispatches
        /\ pc[j] \in {"recording", "indexing"}
    BY <1>5 DEF RecordRow, UpsertDoc, Indexed
  <2>2. AllStored(j) /\ Sent(j) /\ at[j] \in KindsOf(j)
    BY <1>0, <2>1 DEF IndexInv, TraceInv, Traced, StoredOf, StoredPoints, SentPoints, TypeInv, Dispatched,
                      Progress, ProgressOf, Walking
  <2>3. Exec(j) \in lines'[at[j]] /\ Exec(j).id = id[j]
    BY <2>1, <2>2 DEF AllStored, Exec
  <2>4. PICK i, k : i = id[j] /\ k = at[j]
    OBVIOUS
  <2>5. DispatchesOf(i)' # {}
    <3>1. PICK n \in 1..Len(dispatches) : dispatches[n].exec = Exec(j)
      BY <2>2 DEF Sent
    <3>2. DispatchesOf(i) # {}
      BY <2>3, <2>4, <3>1 DEF DispatchesOf
    <3> QED
      BY <1>2, <3>2
  <2>6. \E x \in lines'[k] : x.id = i
    BY <2>3, <2>4
  <2>7. ASSUME NEW r \in Indexed' PROVE (\E x \in lines'[r[1]] : x.id = r[2]) /\ DispatchesOf(r[2])' # {}
    BY <1>3, <2>1, <2>4, <2>5, <2>6
  <2> QED
    BY <2>7 DEF IndexedIsStored
<1> QED
  BY <1>4, <1>5 DEF Indexed, Step, Begin, Analyse, AppendArtifact, Delivery, WritePayload, ResolveGate,
                    Post, AppendDispatch, WriteRollout, Complete, Cut

(* A row or a document stands for a stored artifact and a dispatch.        *)
THEOREM SpineIndexedIsStored == Spec => []IndexedIsStored
<1>1. Init => IndexInv
  BY InitTraceInv DEF Init, IndexInv, IndexedIsStored, Indexed
<1>2. IndexInv /\ [Next]_vars => IndexInv'
  <2> SUFFICES ASSUME IndexInv, [Next]_vars PROVE IndexedIsStored'
    BY StepTraceInv DEF IndexInv
  <2>1. CASE UNCHANGED vars
    BY <2>1 DEF vars, stores, IndexInv, IndexedIsStored, Indexed, DispatchesOf
  <2> QED
    BY <2>1, StepIndexed DEF Next, Step
<1>3. IndexInv => IndexedIsStored
  BY DEF IndexInv
<1> QED
  BY <1>1, <1>2, <1>3, PTL DEF Spec

-----------------------------------------------------------------------------
(* A completed execution is whole. *)

Row(k, j) == <<k, id[j]>>

(* What a job has filed behind it at each of the last points of its run.   *)
FiledOf(j) ==
  /\ pc[j] \in StoredPoints \ {"delivering"} => payload[<<id[j], found[j].class>>] # None
  /\ pc[j] \in SentPoints \ {"evidencing"} => id[j] \in rollout
  /\ pc[j] = "recording" => \A k \in KindsOf(j) \cap Before(at[j]) : Row(k, j) \in rows
  /\ pc[j] \in {"indexing", "closing", "completed"} => \A k \in KindsOf(j) : Row(k, j) \in rows
  /\ pc[j] = "indexing" => \A k \in KindsOf(j) \cap Before(at[j]) : Row(k, j) \in docs
  /\ pc[j] \in {"closing", "completed"} => \A k \in KindsOf(j) : Row(k, j) \in docs

Filed == \A j \in Jobs : FiledOf(j)

FiledInv == TraceInv /\ Filed

LEMMA OthersFiled ==
  ASSUME FiledInv, NEW j \in Jobs, Step(j), NEW i \in Jobs, i # j
  PROVE  FiledOf(i)'
<1>0. TypeInv /\ TypeOK /\ Grown /\ FiledOf(i)
  BY StepGrows DEF FiledInv, TraceInv, TypeInv, Filed
<1>1. Same(i)
  BY <1>0, OthersSame
<1>2. KindsOf(i)' = KindsOf(i) /\ Before(at[i])' = Before(at[i])
  BY <1>1 DEF Same, KindsOf, Investigated, Before
<1>3. \A k : Row(k, i)' = Row(k, i)
  BY <1>1 DEF Same, Row
<1>4. pc[i] \in StoredPoints => <<id[i], found[i].class>> \in Ids \X Classes
  BY <1>0 DEF TypeInv, Progress, ProgressOf, StoredPoints, SentPoints, Analysed, AllAnalyses
<1> QED
  BY <1>0, <1>1, <1>2, <1>3, <1>4 DEF FiledOf, Same, Grown

LEMMA OwnFiled == ASSUME FiledInv, NEW j \in Jobs, Step(j) PROVE FiledOf(j)'
<1> USE DEF FiledOf, StoredPoints, SentPoints, stores, bridge, locals
<1>0. TypeInv /\ TypeOK /\ Progress /\ Grown /\ FiledOf(j)
  BY StepGrows DEF FiledInv, TraceInv, TypeInv, Filed
<1>1. CASE Begin(j) \/ Analyse(j) \/ AppendArtifact(j) \/ Cut(j)
  <2>1. pc'[j] \in {"analysing", "appending", "delivering", "waiting", "given_up"}
    BY <1>0, <1>1 DEF Begin, Analyse, AppendArtifact, Cut, Advance, TypeOK
  <2> QED
    BY <2>1
<1> SUFFICES ASSUME ~Begin(j), ~Analyse(j), ~AppendArtifact(j), ~Cut(j) PROVE FiledOf(j)'
  BY <1>1
<1>2. id' = id /\ found' = found /\ KindsOf(j)' = KindsOf(j) /\ \A k : Row(k, j)' = Row(k, j)
  BY StepKeeps DEF KindsOf, Investigated, Row
<1>3. pc[j] \in StoredPoints /\ <<id[j], found[j].class>> \in Ids \X Classes
  <2>1. pc[j] \in StoredPoints
    BY DEF Step, Delivery, WritePayload, ResolveGate, Post, AppendDispatch, WriteRollout, RecordRow,
           UpsertDoc, Complete
  <2> QED
    BY <1>0, <2>1 DEF Progress, ProgressOf, Analysed, AllAnalyses
<1>4. CASE WritePayload(j)
  <2>1. /\ payload'[<<id[j], found[j].class>>] = Exec(j) /\ pc'[j] \in {"gating", "dispatching"}
    BY <1>0, <1>3, <1>4 DEF WritePayload, TypeOK
  <2>2. Exec(j) \in Execs
    BY <1>0, <1>4, ExecType DEF WritePayload
  <2> QED
    BY <1>2, <2>1, <2>2, SpineNoneAssumption
<1> SUFFICES ASSUME ~WritePayload(j) PROVE FiledOf(j)'
  BY <1>4
<1>5. payload' = payload
  BY DEF Step, Delivery, ResolveGate, Post, AppendDispatch, WriteRollout, RecordRow, UpsertDoc, Complete
<1>6. CASE ResolveGate(j) \/ Post(j) \/ AppendDispatch(j)
  <2>1. pc[j] # "delivering" /\ pc'[j] \in {"posting", "dispatching", "evidencing"}
    BY <1>0, <1>6 DEF ResolveGate, Post, AppendDispatch, TypeOK
  <2> QED
    BY <1>0, <1>2, <1>3, <1>5, <2>1
<1>7. CASE WriteRollout(j)
  <2>1. pc[j] = "evidencing" /\ pc'[j] = "recording" /\ id[j] \in rollout' /\ at'[j] = "packets"
    BY <1>0, <1>7 DEF WriteRollout, Progress, ProgressOf, Walking, TypeOK
  <2> QED
    BY <1>0, <1>2, <1>5, <2>1 DEF Before
<1>8. CASE RecordRow(j)
  <2>1. pc[j] = "recording" /\ rows' = rows \cup {Row(at[j], j)} /\ rollout' = rollout /\ at[j] \in Kinds
    BY <1>0, <1>8 DEF RecordRow, Row, TypeOK
  <2>2. \A k \in KindsOf(j) \cap (Before(at[j]) \cup {at[j]}) : Row(k, j) \in rows'
    BY <1>0, <2>1
  <2>3. \/ /\ at' = [at EXCEPT ![j] = NextKind(j)] /\ pc' = pc
           /\ Before(NextKind(j)) \cap KindsOf(j) \subseteq Before(at[j]) \cup {at[j]}
        \/ /\ at' = [at EXCEPT ![j] = "packets"] /\ pc' = [pc EXCEPT ![j] = "indexing"]
           /\ KindsOf(j) \subseteq Before(at[j]) \cup {at[j]}
    BY <1>0, <1>8, <2>1, AdvanceFacts DEF RecordRow, Walking
  <2>4. CASE /\ at' = [at EXCEPT ![j] = NextKind(j)] /\ pc' = pc
             /\ Before(NextKind(j)) \cap KindsOf(j) \subseteq Before(at[j]) \cup {at[j]}
    <3>1. at'[j] = NextKind(j) /\ pc'[j] = "recording"
      BY <1>0, <2>1, <2>4 DEF TypeOK
    <3>2. Before(at[j])' = Before(NextKind(j))
      BY <3>1 DEF Before
    <3> QED
      BY <1>0, <1>2, <1>5, <2>1, <2>2, <2>4, <3>1, <3>2
  <2>5. CASE /\ at' = [at EXCEPT ![j] = "packets"] /\ pc' = [pc EXCEPT ![j] = "indexing"]
             /\ KindsOf(j) \subseteq Before(at[j]) \cup {at[j]}
    <3>1. at'[j] = "packets" /\ pc'[j] = "indexing"
      BY <1>0, <2>5 DEF TypeOK
    <3>2. Before(at[j])' = {}
      BY <3>1 DEF Before
    <3> QED
      BY <1>0, <1>2, <1>5, <2>1, <2>2, <2>5, <3>1, <3>2
  <2> QED
    BY <2>3, <2>4, <2>5
<1>9. CASE UpsertDoc(j)
  <2>1. /\ pc[j] = "indexing" /\ docs' = docs \cup {Row(at[j], j)} /\ rollout' = rollout /\ rows' = rows
        /\ at[j] \in Kinds
    BY <1>0, <1>9 DEF UpsertDoc, Row, TypeOK
  <2>2. \A k \in KindsOf(j) \cap (Before(at[j]) \cup {at[j]}) : Row(k, j) \in docs'
    BY <1>0, <2>1
  <2>3. \/ /\ at' = [at EXCEPT ![j] = NextKind(j)] /\ pc' = pc
           /\ Before(NextKind(j)) \cap KindsOf(j) \subseteq Before(at[j]) \cup {at[j]}
        \/ /\ pc' = [pc EXCEPT ![j] = "closing"]
           /\ KindsOf(j) \subseteq Before(at[j]) \cup {at[j]}
    BY <1>0, <1>9, <2>1, AdvanceFacts DEF UpsertDoc, Walking
  <2>4. CASE /\ at' = [at EXCEPT ![j] = NextKind(j)] /\ pc' = pc
             /\ Before(NextKind(j)) \cap KindsOf(j) \subseteq Before(at[j]) \cup {at[j]}
    <3>1. at'[j] = NextKind(j) /\ pc'[j] = "indexing"
      BY <1>0, <2>1, <2>4 DEF TypeOK
    <3>2. Before(at[j])' = Before(NextKind(j))
      BY <3>1 DEF Before
    <3> QED
      BY <1>0, <1>2, <1>5, <2>1, <2>2, <2>4, <3>1, <3>2
  <2>5. CASE /\ pc' = [pc EXCEPT ![j] = "closing"]
             /\ KindsOf(j) \subseteq Before(at[j]) \cup {at[j]}
    <3>1. pc'[j] = "closing"
      BY <1>0, <2>5 DEF TypeOK
    <3> QED
      BY <1>0, <1>2, <1>5, <2>1, <2>2, <2>5, <3>1
  <2> QED
    BY <2>3, <2>4, <2>5
<1>10. CASE Complete(j)
  <2>1. pc[j] = "closing" /\ pc'[j] = "completed" /\ rollout' = rollout /\ rows' = rows /\ docs' = docs
    BY <1>0, <1>10 DEF Complete, TypeOK
  <2> QED
    BY <1>0, <1>2, <1>5, <2>1
<1> QED
  BY <1>6, <1>7, <1>8, <1>9, <1>10 DEF Step, Delivery

(* A completed execution has left its lines, its dispatch, its payload and *)
(* evidence files, and a row and a document for each artifact.             *)
THEOREM SpineCompletedIsWhole == Spec => []CompletedIsWhole
<1>1. Init => FiledInv
  BY InitTraceInv DEF Init, FiledInv, Filed, FiledOf, StoredPoints, SentPoints
<1>2. FiledInv /\ [Next]_vars => FiledInv'
  <2> SUFFICES ASSUME FiledInv, [Next]_vars PROVE Filed'
    BY StepTraceInv DEF FiledInv
  <2>1. CASE UNCHANGED vars
    BY <2>1 DEF vars, stores, locals, FiledInv, Filed, FiledOf, Row, KindsOf, Investigated, Before
  <2>2. ASSUME NEW j \in Jobs, Step(j) PROVE Filed'
    BY <2>2, OthersFiled, OwnFiled DEF Filed
  <2> QED
    BY <2>1, <2>2 DEF Next, Step
<1>3. FiledInv => CompletedIsWhole
  BY DEF FiledInv, TraceInv, TypeInv, Traced, StoredOf, AllStored, Dispatched, Sent, Filed, FiledOf, Row,
         StoredPoints, SentPoints, CompletedIsWhole
<1> QED
  BY <1>1, <1>2, <1>3, PTL DEF Spec

-----------------------------------------------------------------------------
(* The worker reads back its own delivery. *)

(* The worker runs one warning at a time. *)
Serial == \A i, j \in Jobs \ Direct : Busy(i) /\ Busy(j) => i = j

(* From its dispatch to its end, only direct runs dispatch under the id of *)
(* a warning of the worker.                                                *)
OwnLatest(j) ==
  \E n \in 1..Len(dispatches) :
    /\ dispatches[n] = [exec |-> Exec(j), status |-> status[j]]
    /\ \A m \in 1..Len(dispatches) :
         m > n /\ dispatches[m].exec.id = id[j] => dispatches[m].exec.job \in Direct

NoDirect(j) == \A d \in Direct : \A n \in DispatchesOf(id[j]) : dispatches[n].exec.job # d

OwnResult(j) ==
  /\ \E n \in 1..Len(dispatches) : /\ dispatches[n].exec = Exec(j)
                                   /\ dispatches[n].status = result[j].status
  /\ result[j].status = "deferred" => result[j].review

Owned(j) ==
  /\ pc[j] \in SentPoints \ {"completed"} => OwnLatest(j)
  /\ pc[j] = "completed" /\ NoDirect(j) => OwnResult(j)

ResultInv == TypeInv /\ Serial /\ \A j \in Jobs \ Direct : Owned(j)

LEMMA StepSerial == ASSUME TypeInv, Serial, NEW j \in Jobs, Step(j) PROVE Serial'
<1>0. TypeOK
  BY DEF TypeInv
<1>1. \A i \in Jobs : i # j => pc'[i] = pc[i]
  BY <1>0, OthersSame DEF Same
<1>2. CASE Begin(j)
  BY <1>0, <1>1, <1>2 DEF Serial, Begin, Busy, Ended
<1>3. CASE Busy(j)
  BY <1>1, <1>3 DEF Serial, Busy
<1> QED
  BY <1>2, <1>3 DEF Step, Analyse, AppendArtifact, Delivery, WritePayload, ResolveGate, Post, AppendDispatch,
                    WriteRollout, RecordRow, UpsertDoc, Complete, Cut, Busy, Ended

LEMMA OthersOwned ==
  ASSUME ResultInv, NEW j \in Jobs, Step(j), NEW i \in Jobs \ Direct, i # j
  PROVE  Owned(i)'
<1>0. TypeInv /\ TypeOK /\ Grown /\ Owned(i)
  BY StepGrows DEF ResultInv, TypeInv
<1>1. Same(i) /\ Exec(i)' = Exec(i)
  BY <1>0, OthersSame, OthersTraces
<1>2. CASE pc[i] \in SentPoints \ {"completed"}
  <2>1. PICK n \in 1..Len(dispatches) :
          /\ dispatches[n] = [exec |-> Exec(i), status |-> status[i]]
          /\ \A m \in 1..Len(dispatches) :
               m > n /\ dispatches[m].exec.id = id[i] => dispatches[m].exec.job \in Direct
    BY <1>0, <1>2 DEF Owned, OwnLatest
  <2>2. n \in 1..Len(dispatches') /\ dispatches'[n] = [exec |-> Exec(i)', status |-> status'[i]]
    BY <1>0, <1>1, <2>1 DEF Grown, Same
  <2>3. ASSUME NEW m \in 1..Len(dispatches'), m > n, dispatches'[m].exec.id = id'[i]
        PROVE  dispatches'[m].exec.job \in Direct
    <3>1. CASE m \in 1..Len(dispatches)
      BY <1>0, <1>1, <2>1, <2>3, <3>1 DEF Grown, Same
    <3>2. CASE m \notin 1..Len(dispatches)
      <4>1. AppendDispatch(j)
        BY <2>3, <3>2, StepDispatches
      <4>2. m = Len(dispatches) + 1 /\ dispatches'[m].exec = Exec(j)
        <5>1. /\ Len(dispatches) \in Nat /\ Len(dispatches') = Len(dispatches) + 1
              /\ dispatches'[Len(dispatches) + 1] = [exec |-> Exec(j), status |-> status[j]]
          BY <1>0, <4>1, AppendedIsLast
        <5>2. m = Len(dispatches) + 1
          BY <3>2, <5>1
        <5> QED
          BY <5>1, <5>2
      <4>3. Busy(i) /\ Busy(j)
        BY <1>2, <4>1 DEF AppendDispatch, Busy, Ended, SentPoints
      <4>4. j \in Direct
        BY <4>3 DEF ResultInv, Serial
      <4> QED
        BY <4>2, <4>4 DEF Exec
    <3> QED
      BY <3>1, <3>2
  <2>4. OwnLatest(i)'
    BY <2>2, <2>3 DEF OwnLatest
  <2> QED
    BY <1>1, <1>2, <2>4 DEF Owned, Same
<1>3. CASE pc[i] = "completed"
  <2>1. NoDirect(i)' => NoDirect(i)
    <3>1. ASSUME NEW n \in DispatchesOf(id[i])
          PROVE  n \in DispatchesOf(id[i])' /\ dispatches'[n] = dispatches[n]
      <4>1. n \in 1..Len(dispatches) /\ dispatches[n].exec.id = id[i]
        BY DEF DispatchesOf
      <4>2. n \in 1..Len(dispatches') /\ dispatches'[n] = dispatches[n] /\ id'[i] = id[i]
        BY <1>0, <1>1, <4>1 DEF Grown, Same
      <4> QED
        BY <4>1, <4>2 DEF DispatchesOf
    <3> QED
      BY <3>1 DEF NoDirect
  <2>2. ASSUME OwnResult(i) PROVE OwnResult(i)'
    <3>1. PICK n \in 1..Len(dispatches) : /\ dispatches[n].exec = Exec(i)
                                         /\ dispatches[n].status = result[i].status
      BY <2>2 DEF OwnResult
    <3>2. /\ n \in 1..Len(dispatches') /\ dispatches'[n] = dispatches[n]
          /\ result'[i] = result[i] /\ Exec(i)' = Exec(i)
      BY <1>0, <1>1, <3>1 DEF Grown, Same
    <3> QED
      BY <2>2, <3>1, <3>2 DEF OwnResult
  <2> QED
    BY <1>0, <1>1, <1>3, <2>1, <2>2 DEF Owned, Same
<1> QED
  BY <1>1, <1>2, <1>3 DEF Owned, Same

LEMMA OwnOwned ==
  ASSUME ResultInv, NEW j \in Jobs \ Direct, Step(j)
  PROVE  Owned(j)'
<1> USE DEF SentPoints, stores, bridge, locals
<1>0. TypeInv /\ TypeOK /\ Owned(j)
  BY DEF ResultInv, TypeInv
<1>1. CASE AppendDispatch(j)
  <2> DEFINE N == Len(dispatches)
  <2>1. /\ N \in Nat /\ Len(dispatches') = N + 1
        /\ dispatches'[N + 1] = [exec |-> Exec(j), status |-> status[j]]
    BY <1>0, <1>1, AppendedIsLast
  <2>2. Exec(j)' = Exec(j) /\ status' = status /\ pc'[j] = "evidencing"
    BY <1>0, <1>1 DEF AppendDispatch, Exec, TypeOK
  <2>3. \A m \in 1..(N + 1) : ~(m > N + 1)
    BY <2>1
  <2>4. N + 1 \in 1..(N + 1)
    BY <2>1
  <2>5. OwnLatest(j)'
    BY <2>1, <2>2, <2>3, <2>4 DEF OwnLatest
  <2> QED
    BY <2>2, <2>5 DEF Owned
<1>2. CASE WriteRollout(j) \/ RecordRow(j) \/ UpsertDoc(j)
  <2>1. /\ pc[j] \in SentPoints \ {"completed"} /\ pc'[j] \in SentPoints \ {"completed"}
        /\ dispatches' = dispatches /\ id' = id /\ tries' = tries /\ status' = status
    BY <1>0, <1>2 DEF WriteRollout, RecordRow, UpsertDoc, Advance, TypeOK
  <2>2. OwnLatest(j)'
    BY <1>0, <2>1 DEF Owned, OwnLatest, Exec
  <2> QED
    BY <2>1, <2>2 DEF Owned
<1>3. CASE Complete(j)
  <2>1. /\ pc[j] = "closing" /\ pc'[j] = "completed" /\ dispatches' = dispatches
        /\ result'[j] = [status |-> LatestStatus(id[j]), review |-> ReviewRequired(j)]
        /\ Exec(j)' = Exec(j) /\ id' = id
    BY <1>0, <1>3 DEF Complete, TypeOK, Exec
  <2>2. NoDirect(j)' <=> NoDirect(j)
    BY <2>1 DEF NoDirect, DispatchesOf
  <2>3. ASSUME NoDirect(j) PROVE OwnResult(j)'
    <3>1. PICK n \in 1..Len(dispatches) :
            /\ dispatches[n] = [exec |-> Exec(j), status |-> status[j]]
            /\ \A m \in 1..Len(dispatches) :
                 m > n /\ dispatches[m].exec.id = id[j] => dispatches[m].exec.job \in Direct
      BY <1>0, <2>1 DEF Owned, OwnLatest
    <3>2. PICK l \in DispatchesOf(id[j]) :
            /\ \A m \in DispatchesOf(id[j]) : m <= l
            /\ LatestStatus(id[j]) = dispatches[l].status
      BY <1>0, <2>1, LatestFacts
    <3>3. n \in DispatchesOf(id[j])
      BY <3>1 DEF DispatchesOf, Exec
    <3>4. l \in 1..Len(dispatches) /\ dispatches[l].exec.id = id[j] /\ n <= l
      BY <3>2, <3>3 DEF DispatchesOf
    <3>5. dispatches[l].exec.job \notin Direct
      BY <2>3, <3>2 DEF NoDirect
    <3>6. Len(dispatches) \in Nat
      BY <1>0 DEF TypeOK
    <3>7. l = n
      BY <3>1, <3>4, <3>5, <3>6
    <3>8. LatestStatus(id[j]) = status[j]
      BY <3>1, <3>2, <3>7
    <3> QED
      BY <2>1, <3>1, <3>8 DEF OwnResult, ReviewRequired
  <2> QED
    BY <2>1, <2>2, <2>3 DEF Owned
<1>4. CASE Begin(j) \/ Analyse(j) \/ AppendArtifact(j) \/ WritePayload(j) \/ ResolveGate(j)
           \/ Post(j) \/ Cut(j)
  <2>1. pc'[j] \notin SentPoints
    BY <1>0, <1>4 DEF Begin, Analyse, AppendArtifact, WritePayload, ResolveGate, Post, Cut, Advance, TypeOK
  <2> QED
    BY <2>1 DEF Owned
<1> QED
  BY <1>1, <1>2, <1>3, <1>4 DEF Step, Delivery

(* The worker reports the fate of its own delivery, unless a direct run    *)
(* shares its id.                                                          *)
THEOREM SpineResultIsOwn == Spec => []ResultIsOwn
<1>1. Init => ResultInv
  BY InitTypeInv DEF Init, ResultInv, Serial, Busy, Owned, SentPoints
<1>2. ResultInv /\ [Next]_vars => ResultInv'
  <2> SUFFICES ASSUME ResultInv, [Next]_vars PROVE ResultInv'
    OBVIOUS
  <2>0. TypeInv'
    BY StepTypeInv DEF ResultInv
  <2>1. CASE UNCHANGED vars
    BY <2>0, <2>1 DEF vars, stores, locals, ResultInv, Serial, Busy, Owned, OwnLatest, NoDirect, OwnResult,
                      DispatchesOf, Exec
  <2>2. ASSUME NEW j \in Jobs, Step(j) PROVE ResultInv'
    <3>1. Serial'
      BY <2>2, StepSerial DEF ResultInv
    <3>2. \A i \in Jobs \ Direct : Owned(i)'
      BY <2>2, OthersOwned, OwnOwned
    <3> QED
      BY <2>0, <3>1, <3>2 DEF ResultInv
  <2> QED
    BY <2>1, <2>2 DEF Next, Step
<1>3. ResultInv => ResultIsOwn
  BY DEF ResultInv, Owned, NoDirect, OwnResult, ResultIsOwn
<1> QED
  BY <1>1, <1>2, <1>3, PTL DEF Spec
=============================================================================
