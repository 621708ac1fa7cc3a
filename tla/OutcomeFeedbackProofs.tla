------------------------- MODULE OutcomeFeedbackProofs -------------------------
(***************************************************************************)
(* Proofs about OutcomeFeedback, for any requests, overlapping in any way, *)
(* and any number of faults.                                               *)
(*                                                                         *)
(* FeedbackInv says what each point of a handler knows: before its append  *)
(* a request is not in the file, behind it it is, unless a damaged line    *)
(* came first, and what a refresh has read are lines of the file, which    *)
(* only grows.                                                             *)
(***************************************************************************)
EXTENDS OutcomeFeedback, FiniteSetTheorems, WellFoundedInduction, TLAPS

(* What the outcome stores hold follows the file.                          *)
StoresInv ==
  /\ \A i \in Ids : docs[i] # None => docs[i] \in Landed /\ IdOf(docs[i]) = i
  /\ torn \/ \A i \in rows : \E r \in Landed : IdOf(r) = i
  /\ \A r \in Requests : \A n \in 1..Len(read[r]) : read[r][n] \in Landed

(* A handler before its append, and between it and its refresh.            *)
HandlersInv ==
  \A r \in Requests :
    /\ pc[r] # "done" => answer[r] = "none"
    /\ pc[r] \in {"start", "append"} => r \notin Landed
    /\ pc[r] # "start" /\ answer[r] # "rejected" => Content[r].valid
    /\ pc[r] \in {"metadata", "refresh"} => r \in Landed \/ torn
    /\ pc[r] \in {"refresh", "upsert"} => IdOf(r) \in rows

(* A refresh has indexed the lines before its next.                        *)
Refreshed(r, n) == \A m \in 1..Len(read[r]) : m < n => docs[IdOf(read[r][m])] # None

ReadsItself(r) == \E n \in 1..Len(read[r]) : read[r][n] = r

RefreshInv ==
  \A r \in Requests :
    /\ pc[r] = "upsert" => Refreshed(r, next[r]) /\ ReadsItself(r)
    /\ answer[r] = "admitted" => /\ pc[r] = "done" /\ IdOf(r) \in rows
                                 /\ Refreshed(r, Len(read[r]) + 1) /\ ReadsItself(r)

FeedbackInv == TypeOK /\ StoresInv /\ HandlersInv /\ RefreshInv

(* Line k of the first n is the last with its id, and the document shows   *)
(* it.                                                                     *)
Shown(k, n) ==
  /\ docs[IdOf(log[k])] = log[k]
  /\ \A l \in 1..n : IdOf(log[l]) = IdOf(log[k]) => l <= k

(* One admission at a time: a refresh upserts the file as it is, and the   *)
(* documents show what it has upserted.                                    *)
SerialInv ==
  \A r \in Requests : pc[r] = "upsert" =>
    /\ read[r] = log
    /\ \A m \in 1..(next[r] - 1) :
         \E k \in 1..(next[r] - 1) : IdOf(log[k]) = IdOf(log[m]) /\ Shown(k, next[r] - 1)

-----------------------------------------------------------------------------
(* The file *)

LEMMA LandedFacts ==
  ASSUME log \in Seq(Requests)
  PROVE  Landed \subseteq Requests
BY DEF Landed

LEMMA AppendFacts ==
  ASSUME log \in Seq(Requests), NEW r \in Requests, log' = Append(log, r)
  PROVE  log' \in Seq(Requests) /\ Landed' = Landed \cup {r}
<1>1. log' \in Seq(Requests) /\ Len(log') = Len(log) + 1 /\ Len(log) \in Nat
  OBVIOUS
<1>2. \A n \in 1..Len(log') : log'[n] = IF n = Len(log') THEN r ELSE log[n]
  BY <1>1
<1>3. ASSUME NEW x PROVE x \in Landed' <=> x \in Landed \cup {r}
  <2>1. ASSUME x \in Landed' PROVE x \in Landed \cup {r}
    BY <1>1, <1>2, <2>1 DEF Landed
  <2>2. ASSUME x \in Landed PROVE x \in Landed'
    <3>1. PICK n \in 1..Len(log) : x = log[n]
      BY <2>2 DEF Landed
    <3>2. n \in 1..Len(log') /\ n # Len(log')
      BY <1>1
    <3>3. log'[n] = log[n]
      BY <1>2, <3>2
    <3> QED
      BY <3>1, <3>2, <3>3 DEF Landed
  <2>3. r \in Landed'
    <3>1. Len(log') \in 1..Len(log')
      BY <1>1
    <3> QED
      BY <1>2, <3>1 DEF Landed
  <2> QED
    BY <2>1, <2>2, <2>3
<1> QED
  BY <1>1, <1>3

(* The file changes by the append of a request alone.                      *)
LEMMA FileGrows ==
  ASSUME TypeOK, [Next]_vars
  PROVE  /\ log' \in Seq(Requests)
         /\ Landed \subseteq Landed'
         /\ \A r \in Landed' \ Landed : pc[r] = "append" /\ pc'[r] = "metadata" /\ log' = Append(log, r)
<1>0. log \in Seq(Requests)
  BY DEF TypeOK
<1>1. ASSUME log' = log PROVE Landed' = Landed
  BY <1>1 DEF Landed
<1>2. ASSUME NEW r \in Requests, AppendLine(r)
      PROVE  log' = log \/ (pc[r] = "append" /\ pc'[r] = "metadata" /\ log' = Append(log, r))
  <2>1. pc \in [Requests -> Points]
    BY DEF TypeOK
  <2> QED
    BY <1>2, <2>1 DEF AppendLine, Goto
<1>3. \/ log' = log
      \/ \E r \in Requests : pc[r] = "append" /\ pc'[r] = "metadata" /\ log' = Append(log, r)
  BY <1>2 DEF Next, vars, store, calls, Receive, Step, RecordRow, ReadLines, UpsertDoc, Answer,
              IndexRuntimeDocs, Crash
<1>4. CASE log' = log
  BY <1>0, <1>1, <1>4
<1>5. CASE \E r \in Requests : pc[r] = "append" /\ pc'[r] = "metadata" /\ log' = Append(log, r)
  <2>1. PICK r \in Requests : pc[r] = "append" /\ pc'[r] = "metadata" /\ log' = Append(log, r)
    BY <1>5
  <2>2. log' \in Seq(Requests) /\ Landed' = Landed \cup {r}
    BY <1>0, <2>1, AppendFacts
  <2> QED
    BY <2>1, <2>2
<1> QED
  BY <1>3, <1>4, <1>5

-----------------------------------------------------------------------------
(* Types *)

LEMMA InitTypes == Init => TypeOK
<1> SUFFICES ASSUME Init PROVE TypeOK
  OBVIOUS
<1>1. torn \in BOOLEAN
  BY Zenon DEF Init
<1>2. log \in Seq(Requests) /\ answer \in [Requests -> Answers] /\ pc \in [Requests -> Points]
  BY DEF Init, LogInit, Points, Answers
<1>3. /\ read \in [Requests -> Seq(Requests)] /\ next \in [Requests -> Nat \ {0}]
      /\ \A r \in Requests : next[r] <= Len(read[r]) + 1
  BY DEF Init
<1> QED
  BY <1>1, <1>2, <1>3, LimitAssumption DEF Init, TypeOK

LEMMA StepTypes == TypeOK /\ [Next]_vars => TypeOK'
<1> SUFFICES ASSUME TypeOK, [Next]_vars PROVE TypeOK'
  OBVIOUS
<1> USE DEF TypeOK, store, calls, Goto, Points, Answers
<1>0. log' \in Seq(Requests)
  BY FileGrows
<1>c. \A r \in Requests : IdOf(r) \in Ids
  BY ContentAssumption DEF IdOf, Outcome
<1>f. ASSUME NEW r \in Requests, Fails(r)
      PROVE  /\ answer' \in [Requests -> Answers] /\ pc' \in [Requests -> Points]
             /\ faults' \in 0..MaxFaults
  BY <1>f, LimitAssumption DEF Fails
<1>1. ASSUME NEW r \in Requests, Receive(r) PROVE TypeOK'
  BY <1>0, <1>1 DEF Receive, Rejects
<1>2. ASSUME NEW r \in Requests, AppendLine(r) PROVE TypeOK'
  <2>1. torn' \in BOOLEAN
    BY <1>2, Zenon DEF AppendLine
  <2>2. UNCHANGED <<rows, docs, read, next, others>>
    BY <1>2 DEF AppendLine
  <2>3. CASE Fails(r)
    BY <1>0, <1>f, <2>1, <2>2, <2>3
  <2>4. CASE Goto(r, "metadata") /\ UNCHANGED <<answer, faults>>
    BY <1>0, <2>1, <2>2, <2>4
  <2> QED
    BY <1>2, <2>3, <2>4 DEF AppendLine
<1>3. ASSUME NEW r \in Requests, RecordRow(r) PROVE TypeOK'
  <2>1. UNCHANGED <<torn, docs, read, next, others>>
    BY <1>3 DEF RecordRow
  <2>2. CASE Fails(r) /\ UNCHANGED rows
    BY <1>0, <1>f, <2>1, <2>2
  <2>3. CASE rows' = rows \cup {IdOf(r)} /\ Goto(r, "refresh") /\ UNCHANGED <<answer, faults>>
    BY <1>0, <1>c, <2>1, <2>3
  <2> QED
    BY <1>3, <2>2, <2>3 DEF RecordRow
<1>4. ASSUME NEW r \in Requests, ReadLines(r) PROVE TypeOK'
  <2>1. UNCHANGED <<torn, rows, docs, others>>
    BY <1>4 DEF ReadLines
  <2>2. CASE Fails(r) /\ UNCHANGED <<read, next>>
    BY <1>0, <1>f, <2>1, <2>2
  <2>3. CASE Rejects(r) /\ UNCHANGED <<read, next, faults>>
    BY <1>0, <2>1, <2>3 DEF Rejects
  <2>4. CASE /\ read' = [read EXCEPT ![r] = log] /\ next' = [next EXCEPT ![r] = 1]
             /\ Goto(r, "upsert") /\ UNCHANGED <<answer, faults>>
    BY <1>0, <2>1, <2>4
  <2> QED
    BY <1>4, <2>2, <2>3, <2>4 DEF ReadLines
<1>5. ASSUME NEW r \in Requests, UpsertDoc(r) PROVE TypeOK'
  <2>1. read[r] \in Seq(Requests) /\ next[r] \in 1..Len(read[r])
    BY <1>5 DEF UpsertDoc
  <2>2. read[r][next[r]] \in Requests /\ IdOf(read[r][next[r]]) \in Ids
    BY <1>c, <2>1
  <2>3. UNCHANGED <<torn, rows, read, others>>
    BY <1>5 DEF UpsertDoc
  <2>4. CASE Fails(r) /\ UNCHANGED <<docs, next>>
    BY <1>0, <1>f, <2>3, <2>4
  <2>5. CASE /\ docs' = [docs EXCEPT ![IdOf(read[r][next[r]])] = read[r][next[r]]]
             /\ next' = [next EXCEPT ![r] = @ + 1]
             /\ UNCHANGED <<answer, pc, faults>>
    <3>1. docs' \in [Ids -> Requests \cup {None}]
      BY <2>2, <2>5
    <3>2. next[r] + 1 \in Nat \ {0} /\ next[r] + 1 <= Len(read[r]) + 1
      BY <2>1
    <3>3. next' \in [Requests -> Nat \ {0}]
      BY <2>5, <3>2
    <3>4. \A q \in Requests : next'[q] = IF q = r THEN next[r] + 1 ELSE next[q]
      BY <2>5
    <3>5. \A q \in Requests : next'[q] <= Len(read'[q]) + 1
      BY <2>3, <3>2, <3>4
    <3> QED
      BY <1>0, <2>3, <2>5, <3>1, <3>3, <3>5
  <2> QED
    BY <1>5, <2>4, <2>5 DEF UpsertDoc
<1>6. ASSUME NEW r \in Requests, Answer(r) PROVE TypeOK'
  BY <1>0, <1>6 DEF Answer
<1>7. ASSUME IndexRuntimeDocs PROVE TypeOK'
  BY <1>0, <1>7 DEF IndexRuntimeDocs
<1>8. ASSUME Crash PROVE TypeOK'
  BY <1>0, <1>8, LimitAssumption DEF Crash
<1>9. ASSUME UNCHANGED vars PROVE TypeOK'
  BY <1>9 DEF vars
<1> QED
  BY <1>1, <1>2, <1>3, <1>4, <1>5, <1>6, <1>7, <1>8, <1>9 DEF Next, Step

-----------------------------------------------------------------------------
(* What is read, indexed and recorded is in the file *)

LEMMA TornStays == TypeOK /\ [Next]_vars => (torn => torn')
BY DEF Next, vars, store, calls, Receive, Step, AppendLine, RecordRow, ReadLines, UpsertDoc, Answer,
       IndexRuntimeDocs, Crash

LEMMA StepStores == FeedbackInv /\ [Next]_vars => StoresInv'
<1> SUFFICES ASSUME FeedbackInv, [Next]_vars PROVE StoresInv'
  OBVIOUS
<1> USE DEF store, calls
<1>0. /\ TypeOK /\ StoresInv /\ HandlersInv /\ Landed \subseteq Landed' /\ (torn => torn')
  BY FileGrows, TornStays DEF FeedbackInv
<1>1. ASSUME UNCHANGED docs \/ \E r \in Requests : UpsertDoc(r)
      PROVE  \A i \in Ids : docs'[i] # None => docs'[i] \in Landed' /\ IdOf(docs'[i]) = i
  <2>1. CASE UNCHANGED docs
    BY <1>0, <2>1 DEF StoresInv
  <2>2. CASE \E r \in Requests : UpsertDoc(r)
    <3>1. PICK r \in Requests : UpsertDoc(r)
      BY <2>2
    <3>2. read[r] \in Seq(Requests) /\ next[r] \in 1..Len(read[r])
      BY <1>0, <3>1 DEF UpsertDoc, TypeOK
    <3>3. read[r][next[r]] \in Landed
      BY <1>0, <3>2 DEF StoresInv
    <3> DEFINE line == read[r][next[r]]
    <3>4. UNCHANGED docs \/ docs' = [docs EXCEPT ![IdOf(line)] = line]
      BY <3>1 DEF UpsertDoc
    <3>5. docs \in [Ids -> Requests \cup {None}] /\ line \in Landed'
      BY <1>0, <3>3 DEF TypeOK
    <3> HIDE DEF line
    <3> QED
      BY <1>0, <3>4, <3>5 DEF StoresInv
  <2> QED
    BY <1>1, <2>1, <2>2
<1>2. ASSUME UNCHANGED rows \/ \E r \in Requests : RecordRow(r)
      PROVE  torn' \/ \A i \in rows' : \E r \in Landed' : IdOf(r) = i
  <2>1. CASE UNCHANGED rows
    BY <1>0, <2>1 DEF StoresInv
  <2>2. CASE \E r \in Requests : RecordRow(r)
    <3>1. PICK r \in Requests : RecordRow(r)
      BY <2>2
    <3>2. r \in Landed \/ torn
      BY <1>0, <3>1 DEF RecordRow, HandlersInv
    <3>3. rows' \subseteq rows \cup {IdOf(r)}
      BY <3>1 DEF RecordRow
    <3> QED
      BY <1>0, <3>2, <3>3 DEF StoresInv
  <2> QED
    BY <1>2, <2>1, <2>2
<1>3. ASSUME UNCHANGED read \/ \E r \in Requests : ReadLines(r)
      PROVE  \A r \in Requests : \A n \in 1..Len(read'[r]) : read'[r][n] \in Landed'
  <2>1. CASE UNCHANGED read
    BY <1>0, <2>1 DEF StoresInv
  <2>2. CASE \E r \in Requests : ReadLines(r)
    <3>1. PICK r \in Requests : ReadLines(r)
      BY <2>2
    <3>2. UNCHANGED read \/ read' = [read EXCEPT ![r] = log]
      BY <3>1 DEF ReadLines
    <3>3. \A n \in 1..Len(log) : log[n] \in Landed'
      BY <1>0 DEF Landed
    <3>4. \A q \in Requests : read'[q] = read[q] \/ read'[q] = log
      BY <1>0, <3>2 DEF TypeOK
    <3>5. TAKE q \in Requests
    <3>6. CASE read'[q] = read[q]
      BY <1>0, <3>6 DEF StoresInv
    <3>7. CASE read'[q] = log
      BY <3>3, <3>7
    <3> QED
      BY <3>4, <3>6, <3>7
  <2> QED
    BY <1>3, <2>1, <2>2
<1>4. /\ UNCHANGED docs \/ \E r \in Requests : UpsertDoc(r)
      /\ UNCHANGED rows \/ \E r \in Requests : RecordRow(r)
      /\ UNCHANGED read \/ \E r \in Requests : ReadLines(r)
  BY DEF Next, vars, Receive, Step, AppendLine, RecordRow, ReadLines, UpsertDoc, Answer,
         IndexRuntimeDocs, Crash
<1> QED
  BY <1>1, <1>2, <1>3, <1>4 DEF StoresInv

-----------------------------------------------------------------------------
(* What a handler knows *)

(* Whatever a handler does, it leaves the others where they were; a crash  *)
(* ends those that run.                                                    *)
LEMMA OthersStay ==
  ASSUME TypeOK, NEW r \in Requests, Receive(r) \/ Step(r), NEW q \in Requests, q # r
  PROVE  pc'[q] = pc[q] /\ answer'[q] = answer[q] /\ read'[q] = read[q] /\ next'[q] = next[q]
BY DEF TypeOK, calls, store, Receive, Step, AppendLine, RecordRow, ReadLines, UpsertDoc, Answer,
       Goto, Fails, Rejects

LEMMA StepHandlers == FeedbackInv /\ [Next]_vars => HandlersInv'
<1> SUFFICES ASSUME FeedbackInv, [Next]_vars, NEW q \in Requests
             PROVE  /\ pc'[q] # "done" => answer'[q] = "none"
                    /\ pc'[q] \in {"start", "append"} => q \notin Landed'
                    /\ pc'[q] # "start" /\ answer'[q] # "rejected" => Content[q].valid
                    /\ pc'[q] \in {"metadata", "refresh"} => q \in Landed' \/ torn'
                    /\ pc'[q] \in {"refresh", "upsert"} => IdOf(q) \in rows'
  BY DEF HandlersInv
<1> USE DEF store, calls
<1>0. /\ TypeOK /\ HandlersInv /\ Landed \subseteq Landed' /\ (torn => torn')
      /\ \A r \in Landed' \ Landed : pc[r] = "append" /\ pc'[r] = "metadata" /\ log' = Append(log, r)
  BY FileGrows, TornStays DEF FeedbackInv
<1>1. rows \subseteq rows'
  BY DEF Next, vars, Receive, Step, AppendLine, RecordRow, ReadLines, UpsertDoc, Answer,
         IndexRuntimeDocs, Crash
<1>2. CASE pc'[q] = pc[q] /\ answer'[q] = answer[q]
  BY <1>0, <1>1, <1>2 DEF HandlersInv
<1>3. CASE pc[q] # "start" /\ pc'[q] = "done" /\ answer'[q] = answer[q]
  BY <1>0, <1>3 DEF HandlersInv
<1>4. CASE Receive(q)
  BY <1>0, <1>1, <1>4 DEF HandlersInv, TypeOK, Receive, Rejects, Goto
<1>5. CASE AppendLine(q)
  <2>1. pc[q] = "append" /\ Content[q].valid
    BY <1>0, <1>5 DEF HandlersInv, AppendLine
  <2>2. CASE Fails(q)
    BY <1>0, <1>1, <2>1, <2>2 DEF Fails, Goto, TypeOK
  <2>3. CASE /\ log' = IF torn THEN log ELSE Append(log, q)
             /\ Goto(q, "metadata") /\ UNCHANGED <<torn, answer, faults>>
    <3>1. q \in Landed' \/ torn'
      BY <1>0, <2>3, AppendFacts DEF TypeOK
    <3>2. pc'[q] = "metadata" /\ answer'[q] = "none"
      BY <1>0, <2>1, <2>3 DEF Goto, TypeOK, HandlersInv
    <3> QED
      BY <2>1, <3>1, <3>2
  <2> QED
    BY <1>5, <2>2, <2>3 DEF AppendLine
<1>6. CASE RecordRow(q)
  BY <1>0, <1>1, <1>6 DEF HandlersInv, TypeOK, RecordRow, Fails, Goto
<1>7. CASE ReadLines(q)
  BY <1>0, <1>1, <1>7 DEF HandlersInv, TypeOK, ReadLines, Fails, Rejects, Goto
<1>8. CASE (UpsertDoc(q) /\ Fails(q)) \/ Answer(q)
  BY <1>0, <1>1, <1>8 DEF HandlersInv, TypeOK, UpsertDoc, Answer, Fails, Goto
<1>9. CASE \E r \in Requests \ {q} : Receive(r) \/ Step(r)
  BY <1>0, <1>2, <1>9, OthersStay
<1>10. CASE Crash
  <2>1. /\ answer'[q] = answer[q]
        /\ pc'[q] = pc[q] \/ (pc[q] # "start" /\ pc'[q] = "done")
    BY <1>10 DEF Crash, Running
  <2> QED
    BY <1>2, <1>3, <2>1
<1>11. CASE IndexRuntimeDocs \/ UNCHANGED vars \/ (UpsertDoc(q) /\ ~Fails(q))
  BY <1>2, <1>11 DEF IndexRuntimeDocs, vars, UpsertDoc
<1> QED
  BY <1>4, <1>5, <1>6, <1>7, <1>8, <1>9, <1>10, <1>11 DEF Next, Step

-----------------------------------------------------------------------------
(* What a refresh has indexed *)

LEMMA StepRefresh == FeedbackInv /\ [Next]_vars => RefreshInv'
<1> SUFFICES ASSUME FeedbackInv, [Next]_vars, NEW q \in Requests
             PROVE  /\ pc'[q] = "upsert" => Refreshed(q, next[q])' /\ ReadsItself(q)'
                    /\ answer'[q] = "admitted" =>
                         /\ pc'[q] = "done" /\ IdOf(q) \in rows'
                         /\ Refreshed(q, Len(read[q]) + 1)' /\ ReadsItself(q)'
  BY DEF RefreshInv
<1> USE DEF store, calls
<1>0. TypeOK /\ HandlersInv /\ RefreshInv /\ StoresInv
  BY DEF FeedbackInv
<1>c. \A r \in Requests : IdOf(r) \in Ids
  BY ContentAssumption DEF IdOf, Outcome
<1>1. rows \subseteq rows'
  BY DEF Next, vars, Receive, Step, AppendLine, RecordRow, ReadLines, UpsertDoc, Answer,
         IndexRuntimeDocs, Crash
<1>2. ASSUME NEW r \in Requests, UpsertDoc(r)
      PROVE  /\ read[r] \in Seq(Requests) /\ next[r] \in 1..Len(read[r])
             /\ read[r][next[r]] \in Requests
             /\ UNCHANGED docs \/ docs' = [docs EXCEPT ![IdOf(read[r][next[r]])] = read[r][next[r]]]
  <2>1. read[r] \in Seq(Requests) /\ next[r] \in 1..Len(read[r])
    BY <1>0, <1>2 DEF UpsertDoc, TypeOK
  <2>2. read[r][next[r]] \in Requests
    BY <2>1
  <2> QED
    BY <1>2, <2>1, <2>2 DEF UpsertDoc
<1>3. \A i \in Ids : docs[i] # None => docs'[i] # None
  <2>1. UNCHANGED docs \/ \E r \in Requests : UpsertDoc(r)
    BY DEF Next, vars, Receive, Step, AppendLine, RecordRow, ReadLines, Answer, IndexRuntimeDocs, Crash
  <2>2. ASSUME NEW r \in Requests, UpsertDoc(r) PROVE \A i \in Ids : docs[i] # None => docs'[i] # None
    <3> DEFINE line == read[r][next[r]]
    <3>1. line # None /\ (UNCHANGED docs \/ docs' = [docs EXCEPT ![IdOf(line)] = line])
      BY <1>2, <2>2, FeedbackNoneAssumption
    <3>2. docs \in [Ids -> Requests \cup {None}]
      BY <1>0 DEF TypeOK
    <3> HIDE DEF line
    <3> QED
      BY <3>1, <3>2
  <2> QED
    BY <2>1, <2>2
<1>4. ASSUME NEW n, Refreshed(q, n), read'[q] = read[q]
      PROVE  \A m \in 1..Len(read'[q]) : m < n => docs'[IdOf(read'[q][m])] # None
  <2>1. \A m \in 1..Len(read[q]) : IdOf(read[q][m]) \in Ids
    BY <1>0, <1>c DEF TypeOK
  <2> QED
    BY <1>3, <1>4, <2>1 DEF Refreshed
<1>5. ASSUME read'[q] = read[q], ReadsItself(q) PROVE ReadsItself(q)'
  BY <1>5 DEF ReadsItself
<1>6. ASSUME answer'[q] = answer[q], answer[q] = "admitted", read'[q] = read[q], pc'[q] = "done"
      PROVE  IdOf(q) \in rows' /\ Refreshed(q, Len(read[q]) + 1)' /\ ReadsItself(q)'
  <2>1. IdOf(q) \in rows /\ Refreshed(q, Len(read[q]) + 1) /\ ReadsItself(q)
    BY <1>0, <1>6 DEF RefreshInv
  <2>2. Refreshed(q, Len(read[q]) + 1)'
    BY <1>4, <1>6, <2>1 DEF Refreshed
  <2> QED
    BY <1>1, <1>5, <1>6, <2>1, <2>2
<1>7. CASE UNCHANGED <<pc[q], answer[q], read[q], next[q]>>
  <2>1. ASSUME pc[q] = "upsert" PROVE Refreshed(q, next[q])' /\ ReadsItself(q)'
    <3>1. Refreshed(q, next[q]) /\ ReadsItself(q)
      BY <1>0, <2>1 DEF RefreshInv
    <3>2. Refreshed(q, next[q])'
      BY <1>4, <1>7, <3>1 DEF Refreshed
    <3> QED
      BY <1>5, <1>7, <3>1, <3>2
  <2>2. answer[q] = "admitted" => pc[q] = "done"
    BY <1>0 DEF RefreshInv
  <2> QED
    BY <1>6, <1>7, <2>1, <2>2
<1>8. CASE pc'[q] = "done" /\ answer'[q] = answer[q] /\ read'[q] = read[q]
  BY <1>6, <1>8
<1>9. CASE pc'[q] # "upsert" /\ answer'[q] # "admitted"
  BY <1>9
<1>10. CASE Receive(q) \/ AppendLine(q) \/ RecordRow(q) \/ (ReadLines(q) /\ pc'[q] # "upsert")
  <2>1. pc[q] # "done" /\ answer[q] = "none" /\ pc'[q] # "upsert" /\ answer'[q] # "admitted"
    BY <1>0, <1>10 DEF HandlersInv, TypeOK, Receive, AppendLine, RecordRow, ReadLines, Fails, Rejects, Goto
  <2> QED
    BY <2>1
<1>11. CASE ReadLines(q) /\ pc'[q] = "upsert"
  <2>1. ~torn /\ read'[q] = log /\ next'[q] = 1 /\ answer'[q] = answer[q] /\ pc[q] = "refresh"
    BY <1>0, <1>11 DEF ReadLines, Fails, Rejects, Goto, TypeOK
  <2>2. answer[q] = "none" /\ q \in Landed
    BY <1>0, <2>1 DEF HandlersInv
  <2>3. Refreshed(q, next[q])'
    BY <2>1 DEF Refreshed
  <2>4. ReadsItself(q)'
    BY <2>1, <2>2 DEF ReadsItself, Landed
  <2> QED
    BY <2>1, <2>2, <2>3, <2>4
<1>12. CASE UpsertDoc(q)
  <2>1. CASE Fails(q)
    <3>1. pc'[q] = "done" /\ answer'[q] = "failed"
      BY <1>0, <2>1 DEF Fails, Goto, TypeOK
    <3> QED
      BY <3>1
  <2>2. CASE /\ docs' = [docs EXCEPT ![IdOf(read[q][next[q]])] = read[q][next[q]]]
             /\ next' = [next EXCEPT ![q] = @ + 1]
             /\ UNCHANGED <<answer, pc, faults>>
    <3> DEFINE line == read[q][next[q]]
    <3>1. /\ pc[q] = "upsert" /\ read' = read /\ next'[q] = next[q] + 1 /\ next[q] \in 1..Len(read[q])
          /\ Refreshed(q, next[q]) /\ ReadsItself(q) /\ answer[q] = "none"
      BY <1>0, <1>12, <2>2, <1>2 DEF UpsertDoc, TypeOK, RefreshInv, HandlersInv
    <3>2. docs'[IdOf(line)] = line /\ line # None
      BY <1>0, <1>2, <1>c, <1>12, <2>2, FeedbackNoneAssumption DEF TypeOK
    <3>3. \A m \in 1..Len(read'[q]) : m < next[q] => docs'[IdOf(read'[q][m])] # None
      BY <1>4, <3>1
    <3>4. \A m \in 1..Len(read'[q]) : m < next'[q] => m < next[q] \/ m = next[q]
      BY <3>1
    <3>5. docs'[IdOf(read'[q][next[q]])] # None
      BY <3>1, <3>2
    <3>6. Refreshed(q, next[q])'
      BY <3>3, <3>4, <3>5 DEF Refreshed
    <3> QED
      BY <1>5, <2>2, <3>1, <3>6
  <2> QED
    BY <1>12, <2>1, <2>2 DEF UpsertDoc
<1>13. CASE Answer(q)
  <2>1. /\ pc[q] = "upsert" /\ next[q] > Len(read[q]) /\ read' = read /\ rows' = rows
        /\ pc'[q] = "done"
    BY <1>0, <1>13 DEF Answer, Goto, TypeOK
  <2>2. Refreshed(q, next[q]) /\ ReadsItself(q) /\ IdOf(q) \in rows
    BY <1>0, <2>1 DEF RefreshInv, HandlersInv
  <2>3. \A m \in 1..Len(read'[q]) : m < next[q] => docs'[IdOf(read'[q][m])] # None
    BY <1>4, <2>1, <2>2
  <2>4. next[q] \in Nat /\ Len(read[q]) \in Nat
    BY <1>0 DEF TypeOK
  <2>5. Refreshed(q, Len(read[q]) + 1)'
    BY <2>1, <2>3, <2>4 DEF Refreshed
  <2> QED
    BY <1>5, <2>1, <2>2, <2>5
<1>14. CASE \E r \in Requests \ {q} : Receive(r) \/ Step(r)
  BY <1>0, <1>7, <1>14, OthersStay
<1>15. CASE Crash
  BY <1>7, <1>8, <1>15 DEF Crash
<1>16. CASE IndexRuntimeDocs \/ UNCHANGED vars
  BY <1>7, <1>16 DEF IndexRuntimeDocs, vars
<1> QED
  BY <1>10, <1>11, <1>12, <1>13, <1>14, <1>15, <1>16 DEF Next, Step

-----------------------------------------------------------------------------
(* Theorems *)

LEMMA InitFeedback == Init => FeedbackInv
<1> SUFFICES ASSUME Init PROVE FeedbackInv
  OBVIOUS
<1>1. Landed = {}
  BY DEF Init, LogInit, Landed
<1>2. StoresInv
  BY DEF Init, StoresInv
<1>3. HandlersInv
  BY <1>1 DEF Init, LogInit, HandlersInv
<1>4. RefreshInv
  BY DEF Init, LogInit, RefreshInv
<1> QED
  BY <1>2, <1>3, <1>4, InitTypes DEF FeedbackInv

LEMMA FeedbackInvariant == Spec => []FeedbackInv
<1>1. FeedbackInv /\ [Next]_vars => FeedbackInv'
  BY StepTypes, StepStores, StepHandlers, StepRefresh DEF FeedbackInv
<1> QED
  BY InitFeedback, <1>1, PTL DEF Spec

(* The variables keep their types, whatever raises or ends.                *)
THEOREM FeedbackTypes == Spec => []TypeOK
<1>1. FeedbackInv => TypeOK
  BY DEF FeedbackInv
<1> QED
  BY FeedbackInvariant, <1>1, PTL

(* For any requests and faults: documents show lines of the file, and rows *)
(* stand for lines unless one was damaged                                  *)
(* (ingest_incident_outcome, refresh_outcome_retrieval_docs).              *)
THEOREM FeedbackIndexesFollowFile == Spec => []IndexesFollowFile
<1>1. FeedbackInv => IndexesFollowFile
  <2> SUFFICES ASSUME FeedbackInv PROVE IndexesFollowFile
    OBVIOUS
  <2>1. rows \subseteq Ids /\ StoresInv
    BY DEF FeedbackInv, TypeOK
  <2> QED
    BY <2>1 DEF StoresInv, IndexesFollowFile
<1> QED
  BY FeedbackInvariant, <1>1, PTL

(* An admitted outcome, and every other its refresh read, is in the file,  *)
(* the table and the index, and stays there (admit_outcome).               *)
THEOREM FeedbackAdmittedIsWhole == Spec => []AdmittedIsWhole
<1>1. FeedbackInv => AdmittedIsWhole
  <2> SUFFICES ASSUME FeedbackInv, NEW r \in Requests, answer[r] = "admitted"
               PROVE  /\ r \in Landed /\ IdOf(r) \in rows
                      /\ \A n \in 1..Len(read[r]) : docs[IdOf(read[r][n])] # None
                      /\ \E n \in 1..Len(read[r]) : read[r][n] = r
    BY DEF AdmittedIsWhole
  <2>1. IdOf(r) \in rows /\ Refreshed(r, Len(read[r]) + 1) /\ ReadsItself(r)
    BY DEF FeedbackInv, RefreshInv
  <2>2. read[r] \in Seq(Requests) /\ \A n \in 1..Len(read[r]) : read[r][n] \in Landed
    BY DEF FeedbackInv, TypeOK, StoresInv
  <2>3. Len(read[r]) \in Nat
    BY <2>2
  <2> QED
    BY <2>1, <2>2, <2>3 DEF Refreshed, ReadsItself
<1> QED
  BY FeedbackInvariant, <1>1, PTL

(* Every step of an admission lands an outcome, answers a request, or does *)
(* nothing that OutcomeLog sees: an outcome lands once, and only when it   *)
(* passed the schema, and "admitted" is answered behind it.                *)
THEOREM FeedbackImplementsLog == Spec => ImplementsLog
<1>1. Init => LogInit
  BY DEF Init
<1>2. FeedbackInv /\ [Next]_vars => [LogNext]_logVars
  <2> SUFFICES ASSUME FeedbackInv, [Next]_vars PROVE [LogNext]_logVars
    OBVIOUS
  <2> USE DEF store, calls, logVars
  <2>0. TypeOK /\ HandlersInv /\ RefreshInv /\ StoresInv
    BY DEF FeedbackInv
  <2>1. ASSUME NEW r \in Requests, NEW a \in Answers \ {"none"}, answer[r] = "none",
               a = "admitted" => r \in Landed, answer' = [answer EXCEPT ![r] = a], log' = log
        PROVE  LogNext
    BY <2>1 DEF LogNext, Conclude
  <2>2. ASSUME NEW r \in Requests, pc[r] # "done", Fails(r) \/ Rejects(r), log' = log PROVE LogNext
    <3>1. answer[r] = "none"
      BY <2>0, <2>2 DEF HandlersInv
    <3>2. CASE Fails(r)
      BY <2>1, <2>2, <3>1, <3>2 DEF Fails, Answers
    <3>3. CASE Rejects(r)
      BY <2>1, <2>2, <3>1, <3>3 DEF Rejects, Answers
    <3> QED
      BY <2>2, <3>2, <3>3
  <2>3. ASSUME NEW r \in Requests, Receive(r) \/ RecordRow(r) \/ ReadLines(r) \/ UpsertDoc(r)
        PROVE  [LogNext]_logVars
    <3>1. /\ pc[r] # "done" /\ log' = log
          /\ Fails(r) \/ Rejects(r) \/ answer' = answer
      BY <2>3 DEF Receive, RecordRow, ReadLines, UpsertDoc
    <3> QED
      BY <2>2, <3>1
  <2>4. ASSUME NEW r \in Requests, AppendLine(r) PROVE [LogNext]_logVars
    <3>1. pc[r] = "append" /\ answer[r] = "none" /\ r \notin Landed /\ Content[r].valid
      BY <2>0, <2>4 DEF HandlersInv, AppendLine
    <3>2. CASE Fails(r) /\ log' = log
      BY <2>2, <3>1, <3>2
    <3>3. CASE log' = (IF torn THEN log ELSE Append(log, r)) /\ answer' = answer
      BY <3>1, <3>3 DEF LogNext, Land
    <3> QED
      BY <2>4, <3>2, <3>3 DEF AppendLine
  <2>5. ASSUME NEW r \in Requests, Answer(r) PROVE LogNext
    <3>1. pc[r] = "upsert" /\ answer[r] = "none" /\ ReadsItself(r) /\ log' = log
      BY <2>0, <2>5 DEF Answer, HandlersInv, RefreshInv
    <3>2. r \in Landed
      BY <2>0, <3>1 DEF ReadsItself, StoresInv
    <3> QED
      BY <2>1, <2>5, <3>1, <3>2 DEF Answer, Answers
  <2>6. CASE IndexRuntimeDocs \/ Crash \/ UNCHANGED vars
    BY <2>6 DEF IndexRuntimeDocs, Crash, vars
  <2> QED
    BY <2>3, <2>4, <2>5, <2>6 DEF Next, Step
<1> QED
  BY FeedbackInvariant, <1>1, <1>2, PTL DEF Spec, ImplementsLog, LogSpec

-----------------------------------------------------------------------------
(* One admission at a time *)

LEMMA ShownWhenUpserted ==
  ASSUME FeedbackInv, SerialInv, NEW q \in Requests, UpsertDoc(q), ~Fails(q), NEW n, n = next[q]
  PROVE  /\ pc[q] = "upsert" /\ UNCHANGED <<log, read>> /\ next'[q] = n + 1
         /\ \A m \in 1..n : \E k \in 1..n : IdOf(log[k]) = IdOf(log[m]) /\ Shown(k, n)'
<1> DEFINE line == log[n]
<1>0. TypeOK
  BY DEF FeedbackInv
<1>1. /\ pc[q] = "upsert" /\ UNCHANGED <<log, read>> /\ read[q] = log
      /\ next' = [next EXCEPT ![q] = @ + 1]
      /\ docs' = [docs EXCEPT ![IdOf(read[q][next[q]])] = read[q][next[q]]]
  BY DEF UpsertDoc, SerialInv
<1>2. n \in 1..Len(log) /\ log \in Seq(Requests) /\ n \in Nat \ {0} /\ next'[q] = next[q] + 1
  BY <1>0, <1>1 DEF UpsertDoc, TypeOK
<1>3. docs' = [docs EXCEPT ![IdOf(line)] = line]
  BY <1>1
<1>4. \A m \in 1..n : log[m] \in Requests /\ IdOf(log[m]) \in Ids
  BY <1>2, ContentAssumption DEF IdOf, Outcome
<1>5. docs \in [Ids -> Requests \cup {None}] /\ n \in 1..n
  BY <1>0, <1>2 DEF TypeOK
<1>6. \A m \in 1..(n - 1) : \E k \in 1..(n - 1) : IdOf(log[k]) = IdOf(log[m]) /\ Shown(k, n - 1)
  BY <1>1 DEF SerialInv
<1>7. ASSUME NEW m \in 1..n
      PROVE  \E k \in 1..n : IdOf(log[k]) = IdOf(log[m]) /\ Shown(k, n)'
  <2>1. CASE IdOf(log[m]) = IdOf(line)
    <3>1. docs'[IdOf(line)] = line
      BY <1>3, <1>4, <1>5
    <3>2. docs'[IdOf(log'[n])] = log'[n] /\ \A l \in 1..n : l <= n
      BY <1>1, <1>2, <3>1
    <3> QED
      BY <1>1, <1>2, <2>1, <3>2 DEF Shown
  <2>2. CASE IdOf(log[m]) # IdOf(line)
    <3>1. m \in 1..(n - 1)
      BY <1>2, <2>2
    <3>2. PICK k \in 1..(n - 1) : IdOf(log[k]) = IdOf(log[m]) /\ Shown(k, n - 1)
      BY <1>6, <3>1
    <3>3. k \in 1..n /\ docs[IdOf(log[k])] = log[k] /\ IdOf(log[k]) \in Ids
      BY <1>2, <1>4, <3>2 DEF Shown
    <3>4. docs'[IdOf(log[k])] = log[k]
      BY <1>3, <1>5, <2>2, <3>2, <3>3
    <3>5. ASSUME NEW l \in 1..n, IdOf(log[l]) = IdOf(log[k]) PROVE l <= k
      <4>1. l \in 1..(n - 1)
        BY <1>2, <2>2, <3>2, <3>5
      <4> QED
        BY <3>2, <3>5, <4>1 DEF Shown
    <3>6. Shown(k, n)'
      BY <1>1, <3>3, <3>4, <3>5 DEF Shown
    <3> QED
      BY <3>2, <3>3, <3>6
  <2> QED
    BY <2>1, <2>2
<1> QED
  BY <1>1, <1>2, <1>7

LEMMA StepSerial == FeedbackInv /\ SerialInv /\ NoOverlap /\ [Next]_vars => SerialInv'
<1> SUFFICES ASSUME FeedbackInv, SerialInv, NoOverlap, [Next]_vars, NEW q \in Requests, pc'[q] = "upsert"
             PROVE  /\ read'[q] = log'
                    /\ \A m \in 1..(next'[q] - 1) :
                         \E k \in 1..(next'[q] - 1) :
                           IdOf(log'[k]) = IdOf(log'[m]) /\ Shown(k, next[q] - 1)'
  BY DEF SerialInv, IdOf
<1> USE DEF store, calls
<1>0. TypeOK
  BY DEF FeedbackInv
<1>1. CASE UNCHANGED <<pc[q], read[q], next[q], log, docs>>
  BY <1>1 DEF SerialInv, Shown
<1>2. CASE Receive(q) \/ AppendLine(q) \/ RecordRow(q) \/ Answer(q)
  <2>1. pc'[q] # "upsert"
    BY <1>0, <1>2 DEF Receive, AppendLine, RecordRow, Answer, Fails, Rejects, Goto, TypeOK
  <2> QED
    BY <2>1
<1>3. CASE ReadLines(q)
  <2>1. read'[q] = log /\ log' = log /\ next'[q] = 1
    BY <1>0, <1>3 DEF ReadLines, Fails, Rejects, Goto, TypeOK
  <2> QED
    BY <2>1
<1>4. CASE UpsertDoc(q)
  <2>1. ~Fails(q)
    BY <1>0 DEF Fails, Goto, TypeOK
  <2>2. PICK n \in Nat : n = next[q]
    BY <1>0 DEF TypeOK
  <2>3. /\ pc[q] = "upsert" /\ UNCHANGED <<log, read>> /\ next'[q] = n + 1
        /\ \A m \in 1..n : \E k \in 1..n : IdOf(log[k]) = IdOf(log[m]) /\ Shown(k, n)'
    BY <1>4, <2>1, <2>2, ShownWhenUpserted
  <2>4. next'[q] - 1 = n /\ read[q] = log
    BY <2>2, <2>3 DEF SerialInv
  <2> QED
    BY <2>3, <2>4 DEF Shown
<1>5. CASE \E r \in Requests \ {q} : Receive(r) \/ Step(r)
  <2>1. PICK r \in Requests \ {q} : Receive(r) \/ Step(r)
    BY <1>5
  <2>2. UNCHANGED <<pc[q], read[q], next[q]>>
    BY <1>0, <2>1, OthersStay
  <2>3. ~Running(r)
    BY <2>1, <2>2 DEF NoOverlap, Running
  <2>4. Receive(r)
    BY <2>1, <2>3 DEF Step, AppendLine, RecordRow, ReadLines, UpsertDoc, Answer, Running
  <2> QED
    BY <1>1, <2>2, <2>4 DEF Receive
<1>6. CASE Crash
  BY <1>0, <1>6 DEF Crash, Running, TypeOK
<1>7. CASE IndexRuntimeDocs \/ UNCHANGED vars
  BY <1>1, <1>7 DEF IndexRuntimeDocs, vars
<1> QED
  BY <1>2, <1>3, <1>4, <1>5, <1>6, <1>7 DEF Next, Step

LEMMA SerialIsCurrent == FeedbackInv /\ SerialInv => RefreshIsCurrent
<1> SUFFICES ASSUME FeedbackInv, SerialInv, NEW r \in Requests, pc[r] = "upsert", next[r] > Len(read[r]),
                    NEW i \in {IdOf(l) : l \in Landed}
             PROVE  docs[i] = NewestLine(i)
  BY DEF RefreshIsCurrent
<1>1. read[r] = log /\ next[r] = Len(log) + 1 /\ Len(log) \in Nat
  BY DEF FeedbackInv, TypeOK, SerialInv
<1>2. PICK m \in 1..Len(log) : IdOf(log[m]) = i
  BY DEF Landed
<1>3. next[r] - 1 = Len(log)
  BY <1>1
<1>4. PICK k \in 1..Len(log) : IdOf(log[k]) = i /\ Shown(k, Len(log))
  BY <1>2, <1>3 DEF SerialInv
<1> DEFINE places == {n \in 1..Len(log) : IdOf(log[n]) = i}
           newest == CHOOSE n \in places : \A l \in places : l <= n
<1>5. k \in places /\ \A l \in places : l <= k
  BY <1>4 DEF Shown
<1>6. newest \in places /\ \A l \in places : l <= newest
  BY <1>5
<1>7. newest = k
  BY <1>1, <1>5, <1>6
<1>8. NewestLine(i) = log[newest]
  BY DEF NewestLine
<1> QED
  BY <1>4, <1>7, <1>8 DEF Shown

(* As long as admissions come one at a time, a finished refresh leaves     *)
(* every document showing the newest line of its id, whatever corrections  *)
(* the file holds and whatever was lost before                             *)
(* (refresh_outcome_retrieval_docs upserts the lines in their order).      *)
THEOREM FeedbackCurrentOneAtATime == Spec => CurrentOneAtATime
<1>1. Init => SerialInv
  BY DEF Init, SerialInv
<1>2. FeedbackInv /\ SerialInv => RefreshIsCurrent
  BY SerialIsCurrent
<1>3. Spec /\ []NoOverlap => []SerialInv
  BY <1>1, StepSerial, FeedbackInvariant, PTL DEF Spec
<1> QED
  BY <1>2, <1>3, FeedbackInvariant, PTL DEF CurrentOneAtATime

-----------------------------------------------------------------------------
(* Search *)

LEMMA LeastNatural ==
  ASSUME NEW S \in SUBSET Nat, S # {}
  PROVE  \E n \in S : \A m \in S : n <= m
<1> DEFINE Order == {p \in Nat \X Nat : p[1] < p[2]}
<1>1. IsWellFoundedOn(Order, Nat)
  BY NatLessThanWellFounded, Zenon DEF OpToRel
<1>2. \A m, n \in Nat : <<m, n>> \in Order <=> m < n
  OBVIOUS
<1> HIDE DEF Order
<1>3. \E n \in S : \A m \in S : ~(<<m, n>> \in Order)
  BY <1>1, WFMin
<1>4. \A m, n \in S : ~(m < n) => n <= m
  OBVIOUS
<1> QED
  BY <1>2, <1>3, <1>4

(* Ranks count from 1, and grow with the place.                            *)
LEMMA RankFacts ==
  ASSUME NEW N \in Nat, NEW places, places \subseteq 1..N, NEW n \in places
  PROVE  /\ Rank(n, places) \in 1..Cardinality(places)
         /\ \A m \in places : m < n => Rank(m, places) < Rank(n, places)
<1> DEFINE UpTo(k) == {m \in places : m <= k}
<1>0. IsFiniteSet(1..N) /\ places \subseteq Nat
  BY FS_Interval
<1>1. IsFiniteSet(places) /\ Cardinality(places) \in Nat
  BY <1>0, FS_Subset, FS_CardinalityType
<1>2. \A k \in places : IsFiniteSet(UpTo(k)) /\ Cardinality(UpTo(k)) \in Nat
  BY <1>1, FS_Subset, FS_CardinalityType
<1>3. Cardinality(UpTo(n)) <= Cardinality(places)
  BY <1>1, FS_Subset
<1>4. UpTo(n) # {}
  OBVIOUS
<1>5. Cardinality(UpTo(n)) # 0
  BY <1>2, <1>4, FS_EmptySet
<1>6. ASSUME NEW m \in places, m < n
      PROVE  Cardinality(UpTo(m)) < Cardinality(UpTo(n))
  <2>1. UpTo(m) \subseteq UpTo(n) /\ UpTo(m) # UpTo(n)
    <3>1. n \in UpTo(n) /\ n \notin UpTo(m)
      BY <1>6
    <3>2. ASSUME NEW k \in UpTo(m) PROVE k \in UpTo(n)
      BY <1>6, <3>2
    <3> QED
      BY <3>1, <3>2
  <2>2. Cardinality(UpTo(m)) <= Cardinality(UpTo(n)) /\ Cardinality(UpTo(m)) # Cardinality(UpTo(n))
    BY <1>2, <2>1, FS_Subset
  <2> QED
    BY <1>2, <2>2
<1> QED
  BY <1>1, <1>2, <1>3, <1>5, <1>6 DEF Rank

(* The best places are as many as asked for, or all there are.             *)
LEMMA BestFacts ==
  ASSUME NEW N \in Nat, NEW places, places \subseteq 1..N, NEW most \in Nat
  PROVE  /\ Best(places, most) \subseteq places
         /\ Cardinality(Best(places, most)) \in Nat
         /\ Cardinality(Best(places, most)) <= most
         /\ Cardinality(Best(places, most)) < most => Best(places, most) = places
         /\ Cardinality(places) <= most => Best(places, most) = places
<1> DEFINE B == Best(places, most)
<1>1. B \subseteq places
  BY DEF Best
<1>2. \A n \in places : n \in B <=> Rank(n, places) <= most
  BY DEF Best
<1> HIDE DEF B
<1>3. \A n \in places : n \in Nat
  OBVIOUS
<1>4. IsFiniteSet(1..N)
  BY FS_Interval
<1>5. IsFiniteSet(places) /\ IsFiniteSet(B) /\ Cardinality(places) \in Nat /\ Cardinality(B) \in Nat
  BY <1>1, <1>4, FS_Subset, FS_CardinalityType
<1>6. \A n \in places : Rank(n, places) \in 1..Cardinality(places)
  BY RankFacts
<1>7. Cardinality(B) <= most
  <2> DEFINE rank == [n \in B |-> Rank(n, places)]
  <2>1. rank \in [B -> 1..most]
    BY <1>1, <1>2, <1>5, <1>6
  <2>2. \A m, n \in B : m # n => rank[m] # rank[n]
    <3> SUFFICES ASSUME NEW m \in B, NEW n \in B, m # n PROVE rank[m] # rank[n]
      OBVIOUS
    <3>1. m < n \/ n < m
      BY <1>1, <1>3
    <3>2. Rank(m, places) \in Nat /\ Rank(n, places) \in Nat
      BY <1>1, <1>5, <1>6
    <3>3. m < n => Rank(m, places) < Rank(n, places)
      BY <1>1, RankFacts
    <3>4. n < m => Rank(n, places) < Rank(m, places)
      BY <1>1, RankFacts
    <3> QED
      BY <3>1, <3>2, <3>3, <3>4
  <2>3. rank \in Injection(B, 1..most)
    BY <2>1, <2>2 DEF Injection, IsInjective
  <2>4. IsFiniteSet(1..most) /\ Cardinality(1..most) = most
    BY FS_Interval
  <2> HIDE DEF rank
  <2> QED
    BY <2>3, <2>4, FS_Injection
<1>8. ASSUME Cardinality(B) < most PROVE B = places
  <2> SUFFICES ASSUME places \ B # {} PROVE FALSE
    BY <1>1
  <2>1. PICK n \in places \ B : \A m \in places \ B : n <= m
    BY <1>3, LeastNatural
  <2>2. {m \in places : m <= n} \subseteq B \cup {n}
    <3> SUFFICES ASSUME NEW m \in places, m <= n, m \notin B PROVE m = n
      OBVIOUS
    <3>1. m \in Nat /\ n \in Nat /\ n <= m
      BY <1>3, <2>1
    <3> QED
      BY <3>1
  <2>3. IsFiniteSet(B \cup {n}) /\ Cardinality(B \cup {n}) = Cardinality(B) + 1
    BY <1>5, <2>1, FS_AddElement
  <2>4. Rank(n, places) <= Cardinality(B) + 1
    BY <2>2, <2>3, FS_Subset DEF Rank
  <2>5. Rank(n, places) \in Nat
    BY <1>5, <1>6, <2>1
  <2>6. Rank(n, places) <= most
    BY <1>5, <1>8, <2>4, <2>5
  <2> QED
    BY <1>2, <2>1, <2>6
<1>9. ASSUME Cardinality(places) <= most PROVE B = places
  <2>1. \A n \in places : Rank(n, places) <= most
    BY <1>5, <1>6, <1>9
  <2> QED
    BY <1>1, <1>2, <2>1
<1> QED
  BY <1>1, <1>5, <1>7, <1>8, <1>9 DEF B

(* A matching outcome has a document, of a landed outcome.                 *)
LEMMA OutcomeMatch ==
  ASSUME TypeOK, StoresInv, NEW ranking \in Rankings, NEW n \in Matches(ranking),
         ranking[n] \notin RuntimeDocs
  PROVE  docs[ranking[n]] \in Landed
<1>1. n \in 1..Len(ranking) /\ ranking \in Seq(Ids \cup RuntimeDocs)
  BY RankingsAssumption DEF Matches
<1>2. ranking[n] \in Ids
  BY <1>1
<1>3. docs[ranking[n]] # None
  BY <1>2 DEF Matches
<1> QED
  BY <1>2, <1>3 DEF StoresInv

LEMMA SearchIsLabelled ==
  ASSUME TypeOK, StoresInv, NEW ranking \in Rankings
  PROVE  LET hits    == LabeledOutcomes(ranking)
             places  == DOMAIN hits
             matches == Matches(ranking)
         IN  /\ Cardinality(places) <= Limit
             /\ \A m, n \in places : m < n =>
                  /\ hits[m].case # hits[n].case
                  /\ Limit <= 9 => hits[m].similarity > hits[n].similarity
             /\ \A n \in places : \E r \in Landed :
                  Content[r].case = hits[n].case /\ Content[r].label = hits[n].label
             /\ Cardinality(places) < Limit =>
                  \A m \in matches : ranking[m] \in Ids /\ Rank(m, matches) <= 4 * Limit =>
                    \E n \in places : hits[n].case = CaseAt(ranking, m)
<1> DEFINE hits     == LabeledOutcomes(ranking)
           matches  == Matches(ranking)
           outcomes == {n \in Best(matches, 4 * Limit) : ranking[n] \notin RuntimeDocs}
           first    == FirstPlaces(ranking, outcomes)
           places   == Best(first, Limit)
           length   == Len(ranking)
<1>1. length \in Nat /\ ranking \in Seq(Ids \cup RuntimeDocs)
  BY RankingsAssumption
<1>2. matches \subseteq 1..length
  BY DEF Matches
<1>3. Limit \in Nat /\ 4 * Limit \in Nat
  BY LimitAssumption
<1>4. Best(matches, 4 * Limit) \subseteq matches
  BY DEF Best
<1>5. \A n \in outcomes : n \in matches /\ ranking[n] \notin RuntimeDocs
  BY <1>4
<1>6. first \subseteq outcomes
  BY DEF FirstPlaces
<1>7. /\ \A n \in first : n \in 1..length
      /\ first \subseteq 1..length
  BY <1>2, <1>5, <1>6
<1>8. /\ places \subseteq first
      /\ Cardinality(places) <= Limit
      /\ Cardinality(places) < Limit => places = first
  <2> HIDE DEF first, length
  <2> QED
    BY <1>1, <1>3, <1>7, BestFacts
<1>9. /\ DOMAIN hits = places
      /\ \A n \in places : /\ hits[n].case = CaseAt(ranking, n)
                           /\ hits[n].label = Content[docs[ranking[n]]].label
                           /\ hits[n].similarity = RankSimilarity(Rank(n, first))
  BY DEF LabeledOutcomes
<1>10. \A m, n \in first : m < n => CaseAt(ranking, m) # CaseAt(ranking, n)
  BY <1>6 DEF FirstPlaces
<1>11. \A n \in places : Rank(n, first) <= Limit
  BY DEF Best
<1>12. \A m \in matches : Rank(m, matches) <= 4 * Limit => m \in Best(matches, 4 * Limit)
  BY DEF Best
<1>13. ASSUME NEW m \in outcomes
       PROVE  \E n \in first : CaseAt(ranking, n) = CaseAt(ranking, m)
  <2> DEFINE same == {n \in outcomes : CaseAt(ranking, n) = CaseAt(ranking, m)}
  <2>1. \A n \in outcomes : n \in Nat
    BY <1>2, <1>5
  <2>2. same \in SUBSET Nat /\ same # {}
    BY <1>13, <2>1
  <2>3. PICK n \in same : \A k \in same : n <= k
    BY <2>2, LeastNatural
  <2>4. \A k \in outcomes : k < n => CaseAt(ranking, k) # CaseAt(ranking, n)
    BY <2>1, <2>3
  <2> QED
    BY <2>3, <2>4 DEF FirstPlaces
<1> HIDE DEF hits, matches, outcomes, first, places, length
<1>14. ASSUME NEW m \in places, NEW n \in places, m < n, Limit <= 9
       PROVE  hits[m].similarity > hits[n].similarity
  <2>1. m \in first /\ n \in first
    BY <1>8
  <2>2. Rank(m, first) < Rank(n, first)
    BY <1>1, <1>7, <1>14, <2>1, RankFacts
  <2>3. Rank(m, first) \in Nat /\ Rank(n, first) \in Nat
    <3>1. IsFiniteSet(1..length)
      BY <1>1, FS_Interval
    <3>2. Cardinality(first) \in Nat
      BY <1>7, <3>1, FS_Subset, FS_CardinalityType
    <3>3. Rank(m, first) \in 1..Cardinality(first) /\ Rank(n, first) \in 1..Cardinality(first)
      BY <1>1, <1>7, <2>1, RankFacts
    <3> QED
      BY <3>2, <3>3
  <2>4. Rank(n, first) <= Limit
    BY <1>11
  <2>5. RankSimilarity(Rank(m, first)) > RankSimilarity(Rank(n, first))
    BY <1>3, <1>14, <2>2, <2>3, <2>4 DEF RankSimilarity
  <2> QED
    BY <1>9, <2>5
<1>15. ASSUME NEW n \in places
       PROVE  \E r \in Landed : Content[r].case = hits[n].case /\ Content[r].label = hits[n].label
  <2>1. n \in Matches(ranking) /\ ranking[n] \notin RuntimeDocs
    BY <1>5, <1>6, <1>8 DEF matches
  <2>2. docs[ranking[n]] \in Landed
    BY <2>1, OutcomeMatch
  <2> QED
    BY <1>9, <2>2 DEF CaseAt
<1>16. ASSUME Cardinality(places) < Limit,
              NEW m \in matches, ranking[m] \in Ids, Rank(m, matches) <= 4 * Limit
       PROVE  \E n \in places : hits[n].case = CaseAt(ranking, m)
  <2>1. m \in outcomes
    BY <1>12, <1>16, DocsAssumption DEF outcomes
  <2>2. places = first
    BY <1>8, <1>16
  <2> QED
    BY <1>9, <1>13, <2>1, <2>2
<1>17. \A m, n \in places : m < n => hits[m].case # hits[n].case
  BY <1>8, <1>9, <1>10
<1> QED
  BY <1>8, <1>9, <1>14, <1>15, <1>16, <1>17 DEF hits, matches

(* Whatever order the index puts its documents in, a search gives at most  *)
(* Limit packets, each once and with the label of a landed outcome, and    *)
(* misses a packet labelled among the best 4 * Limit documents only behind *)
(* Limit others, however many documents match (search_labeled_outcomes).   *)
THEOREM FeedbackHitsAreLabelled == Spec => []HitsAreLabelled
<1>1. FeedbackInv => HitsAreLabelled
  BY SearchIsLabelled DEF FeedbackInv, HitsAreLabelled
<1> QED
  BY <1>1, FeedbackInvariant, PTL

===============================================================================
