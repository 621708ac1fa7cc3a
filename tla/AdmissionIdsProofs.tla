------------------------- MODULE AdmissionIdsProofs -------------------------
(***************************************************************************)
(* Theorems about AdmissionIds, for any requests, however they overlap and *)
(* fail: ids are owned, and what two requests may do to each other they do *)
(* only if both were handled at once and found the same id free.           *)
(***************************************************************************)
EXTENDS AdmissionIds, FiniteSetTheorems, TLAPS

-----------------------------------------------------------------------------
(* Owners of ids *)

(* A request that is past the check owns its id; every directory has an    *)
(* owner, and every suffix a request has passed over has a directory.      *)
Owns(r, i) == pc[r] \notin {"start", "checking"} /\ id[r] = i

DirsInv ==
  /\ \A i \in dirs : \E r \in Requests : Owns(r, i)
  /\ \A r \in Requests : pc[r] = "checking" =>
       \A n \in 1..(id[r][2] - 1) : <<id[r][1], n>> \in dirs

(* What a request has begun to write is in its directory. *)
WroteInv ==
  /\ \A r \in wrote : pc[r] \notin {"start", "checking"} /\ id[r] \in dirs
  /\ \A r \in opened : r \in wrote /\ pc[r] \in {"raw", "normalized", "receipt"}
  /\ \A r \in Requests : pc[r] \in {"normalized", "receipt", "inserting", "enqueuing"} => r \in wrote

(* A row is of a request that wrote there and is past the insertion, and   *)
(* so is an accepted request.                                              *)
RowInv ==
  /\ \A i \in Ids : row[i] # None =>
       row[i] \in wrote /\ id[row[i]] = i /\ pc[row[i]] \in {"enqueuing", "done"}
  /\ \A i \in Ids : queue[i] # "null" => row[i] # None
  /\ \A r \in Requests : pc[r] = "enqueuing" => row[id[r]] # None
  /\ \A r \in Requests : reply[r] = "accepted" => pc[r] = "done" /\ r \in wrote

OwnerInv == DirsInv /\ WroteInv /\ RowInv

(* The pigeonhole: the owners of the suffixes a request has found taken    *)
(* are different requests, and not itself.                                 *)
LEMMA SuffixIsFree ==
  ASSUME TypeOK, OwnerInv, NEW r \in Requests, pc[r] = "checking", Taken(id[r])
  PROVE  <<id[r][1], id[r][2] + 1>> \in Ids
<1> DEFINE b == id[r][1]  n == id[r][2]
<1>1. id[r] \in Ids /\ b \in Bases /\ n \in 1..Cardinality(Requests) /\ id[r] = <<b, n>>
  BY DEF TypeOK, Ids
<1>2. Cardinality(Requests) \in Nat
  BY RequestsAssumption, FS_CardinalityType
<1>3. n \in Nat \ {0}
  BY <1>1, <1>2
<1>4. \A k \in 1..n : <<b, k>> \in dirs
  <2> SUFFICES ASSUME NEW k \in 1..n PROVE <<b, k>> \in dirs
    OBVIOUS
  <2>1. CASE k = n
    BY <2>1, <1>1 DEF Taken, DirExists, OwnerInv, RowInv, WroteInv
  <2>2. CASE k # n
    BY <2>2, <1>3 DEF OwnerInv, DirsInv
  <2> QED
    BY <2>1, <2>2
<1>5. \A k \in 1..n : \E q \in Requests \ {r} : Owns(q, <<b, k>>)
  BY <1>4 DEF OwnerInv, DirsInv, Owns
<1> DEFINE f == [k \in 1..n |-> CHOOSE q \in Requests \ {r} : Owns(q, <<b, k>>)]
<1>6. \A k \in 1..n : f[k] \in Requests \ {r} /\ Owns(f[k], <<b, k>>)
  BY <1>5
<1>7. f \in Injection(1..n, Requests \ {r})
  <2>1. f \in [1..n -> Requests \ {r}]
    BY <1>6
  <2>2. ASSUME NEW k \in 1..n, NEW l \in 1..n, f[k] = f[l] PROVE k = l
    <3>1. <<b, k>> = <<b, l>>
      BY <2>2, <1>6 DEF Owns
    <3> QED
      BY <3>1
  <2> HIDE DEF f
  <2> QED
    BY <2>1, <2>2 DEF Injection, IsInjective
<1>8. Cardinality(Requests \ {r}) = Cardinality(Requests) - 1 /\ IsFiniteSet(Requests \ {r})
  BY RequestsAssumption, FS_RemoveElement
<1>9. Cardinality(1..n) = n
  BY <1>3, FS_Interval
<1>10. n <= Cardinality(Requests) - 1
  <2>1. Cardinality(1..n) <= Cardinality(Requests \ {r})
    <3> HIDE DEF f, n
    <3> QED
      BY <1>7, <1>8, FS_Injection
  <2> QED
    BY <2>1, <1>8, <1>9
<1> QED
  BY <1>1, <1>2, <1>3, <1>10 DEF Ids

LEMMA FirstIdType == \A r \in Requests : <<BaseOf[r], 1>> \in Ids
<1> SUFFICES ASSUME NEW r \in Requests PROVE 1 \in 1..Cardinality(Requests)
  BY BaseAssumption DEF Ids
<1>1. Cardinality(Requests) \in Nat /\ Cardinality(Requests) # 0
  BY RequestsAssumption, FS_CardinalityType, FS_EmptySet
<1> QED
  BY <1>1

LEMMA OwnerInit == Init => TypeOK /\ OwnerInv
<1> SUFFICES ASSUME Init PROVE TypeOK /\ OwnerInv
  OBVIOUS
<1>1. TypeOK
  BY FirstIdType DEF Init, TypeOK, Contents
<1> QED
  BY <1>1 DEF Init, OwnerInv, DirsInv, WroteInv, RowInv

(* Every step keeps the types; a request that counts up needs the          *)
(* pigeonhole.                                                             *)
LEMMA TypeStep == TypeOK /\ OwnerInv /\ [Next]_vars => TypeOK'
<1> SUFFICES ASSUME TypeOK, OwnerInv, [Next]_vars PROVE TypeOK'
  OBVIOUS
<1> USE DEF TypeOK, HandlerPoints, Contents, Goto, files, index
<1>1. ASSUME NEW r \in Requests, Receive(r) PROVE TypeOK'
  <2>1. \A q \in InFlight : {q, r} \in SUBSET Requests
    BY DEF InFlight
  <2>2. overlapped' \subseteq SUBSET Requests
    BY <1>1, <2>1 DEF Receive
  <2> QED
    BY <1>1, <2>2, FirstIdType, BaseAssumption DEF Receive
<1>2. ASSUME NEW r \in Requests, CheckId(r) PROVE TypeOK'
  <2>1. CASE Taken(id[r]) /\ id' = [id EXCEPT ![r] = <<@[1], @[2] + 1>>] /\ UNCHANGED pc
    <3>1. <<id[r][1], id[r][2] + 1>> \in Ids
      BY <1>2, <2>1, SuffixIsFree DEF CheckId
    <3> QED
      BY <1>2, <2>1, <3>1 DEF CheckId
  <2>2. CASE pc' = [pc EXCEPT ![r] = "raw"] /\ UNCHANGED id
    BY <1>2, <2>2 DEF CheckId
  <2> QED
    BY <1>2, <2>1, <2>2 DEF CheckId
<1>3. ASSUME NEW r \in Requests, OpenFile(r) \/ WriteFile(r) \/ InsertRow(r) PROVE TypeOK'
  BY <1>3 DEF OpenFile, WriteFile, InsertRow, SetFile, OwnerInv, WroteInv, FileNames, NextPoint
<1>4. ASSUME NEW r \in Requests, Enqueue(r) PROVE TypeOK'
  BY <1>4 DEF Enqueue
<1>5. ASSUME NEW r \in Requests, Fail(r) PROVE TypeOK'
  <2>1. stored' \in [FileNames -> [Ids -> Contents]] /\ dirs' \subseteq Ids
    BY <1>5 DEF Fail, SetFile, OwnerInv, WroteInv, FileNames
  <2> QED
    BY <1>5, <2>1 DEF Fail
<1>6. ASSUME NEW i \in Ids, Claim(i) \/ Finish(i) PROVE TypeOK'
  BY <1>6 DEF Claim, Finish
<1>7. CASE UNCHANGED vars
  BY <1>7 DEF vars
<1> QED
  BY <1>1, <1>2, <1>3, <1>4, <1>5, <1>6, <1>7 DEF Next, PersistAdmission

(* Owners keep their ids and directories stay. *)
LEMMA DirsStep == TypeOK /\ OwnerInv /\ [Next]_vars => DirsInv'
<1> SUFFICES ASSUME TypeOK, OwnerInv, [Next]_vars PROVE DirsInv'
  OBVIOUS
<1> USE DEF TypeOK, OwnerInv, DirsInv, Owns, HandlerPoints, Goto, files, index
<1>1. ASSUME NEW r \in Requests, Receive(r) PROVE DirsInv'
  BY <1>1 DEF Receive
<1>2. ASSUME NEW r \in Requests, CheckId(r) PROVE DirsInv'
  <2>1. CASE Taken(id[r]) /\ id' = [id EXCEPT ![r] = <<@[1], @[2] + 1>>] /\ UNCHANGED pc
    <3>1. id[r] \in Ids /\ id[r] = <<id[r][1], id[r][2]>> /\ id[r][2] \in Nat \ {0}
      BY RequestsAssumption, FS_CardinalityType DEF Ids
    <3>2. id[r] \in dirs
      BY <2>1, <3>1 DEF Taken, DirExists, RowInv, WroteInv
    <3>3. \A n \in 1..id[r][2] : <<id[r][1], n>> \in dirs
      <4> SUFFICES ASSUME NEW n \in 1..id[r][2], n # id[r][2] PROVE <<id[r][1], n>> \in dirs
        BY <3>1, <3>2
      <4>1. n \in 1..(id[r][2] - 1)
        <5> DEFINE k == id[r][2]
        <5>1. k \in Nat \ {0} /\ n \in 1..k /\ n # k
          BY <3>1
        <5> HIDE DEF k
        <5>2. n \in 1..(k - 1)
          BY <5>1
        <5> QED
          BY <5>2 DEF k
      <4> QED
        BY <1>2, <4>1 DEF CheckId
    <3>4. id'[r][1] = id[r][1] /\ id'[r][2] - 1 = id[r][2]
      BY <2>1, <3>1
    <3>5. \A q \in Requests : q # r => id'[q] = id[q]
      BY <2>1
    <3>6. UNCHANGED <<dirs, pc>> /\ pc[r] = "checking"
      BY <1>2, <2>1 DEF CheckId
    <3> QED
      BY <3>3, <3>4, <3>5, <3>6
  <2>2. CASE pc' = [pc EXCEPT ![r] = "raw"] /\ UNCHANGED id
    BY <1>2, <2>2 DEF CheckId
  <2> QED
    BY <1>2, <2>1, <2>2 DEF CheckId
<1>3. ASSUME NEW r \in Requests, OpenFile(r) PROVE DirsInv'
  BY <1>3 DEF OpenFile, FileNames
<1>4. ASSUME NEW r \in Requests, WriteFile(r) PROVE DirsInv'
  BY <1>4 DEF WriteFile, WroteInv, NextPoint
<1>5. ASSUME NEW r \in Requests, InsertRow(r) \/ Enqueue(r) PROVE DirsInv'
  BY <1>5 DEF InsertRow, Enqueue
<1>6. ASSUME NEW r \in Requests, Fail(r) PROVE DirsInv'
  BY <1>6 DEF Fail
<1>7. ASSUME NEW i \in Ids, Claim(i) \/ Finish(i) PROVE DirsInv'
  BY <1>7 DEF Claim, Finish
<1>8. CASE UNCHANGED vars
  BY <1>8 DEF vars
<1> QED
  BY <1>1, <1>2, <1>3, <1>4, <1>5, <1>6, <1>7, <1>8 DEF Next, PersistAdmission

LEMMA WroteStep == TypeOK /\ OwnerInv /\ [Next]_vars => WroteInv'
<1> SUFFICES ASSUME TypeOK, OwnerInv, [Next]_vars PROVE WroteInv'
  OBVIOUS
<1> USE DEF TypeOK, OwnerInv, WroteInv, HandlerPoints, Goto, files, index
<1>1. ASSUME NEW r \in Requests, Receive(r) \/ CheckId(r) PROVE WroteInv'
  BY <1>1 DEF Receive, CheckId
<1>2. ASSUME NEW r \in Requests, OpenFile(r) PROVE WroteInv'
  BY <1>2 DEF OpenFile, FileNames
<1>3. ASSUME NEW r \in Requests, WriteFile(r) PROVE WroteInv'
  BY <1>3 DEF WriteFile, NextPoint
<1>4. ASSUME NEW r \in Requests, InsertRow(r) \/ Enqueue(r) PROVE WroteInv'
  BY <1>4 DEF InsertRow, Enqueue
<1>5. ASSUME NEW r \in Requests, Fail(r) PROVE WroteInv'
  BY <1>5 DEF Fail
<1>6. ASSUME NEW i \in Ids, Claim(i) \/ Finish(i) PROVE WroteInv'
  BY <1>6 DEF Claim, Finish
<1>7. CASE UNCHANGED vars
  BY <1>7 DEF vars
<1> QED
  BY <1>1, <1>2, <1>3, <1>4, <1>5, <1>6, <1>7 DEF Next, PersistAdmission

LEMMA RowStep == TypeOK /\ OwnerInv /\ [Next]_vars => RowInv'
<1> SUFFICES ASSUME TypeOK, OwnerInv, [Next]_vars PROVE RowInv'
  OBVIOUS
<1> USE DEF TypeOK, OwnerInv, WroteInv, RowInv, HandlerPoints, Goto, files, index
<1>1. ASSUME NEW r \in Requests, Receive(r) \/ CheckId(r) PROVE RowInv'
  BY <1>1 DEF Receive, CheckId
<1>2. ASSUME NEW r \in Requests, OpenFile(r) PROVE RowInv'
  BY <1>2 DEF OpenFile
<1>3. ASSUME NEW r \in Requests, WriteFile(r) PROVE RowInv'
  BY <1>3 DEF WriteFile, NextPoint
<1>4. ASSUME NEW r \in Requests, InsertRow(r) PROVE RowInv'
  <2>1. r \in wrote /\ None # r /\ id[r] \in Ids
    BY <1>4, ContentsAssumption DEF InsertRow
  <2> QED
    BY <1>4, <2>1 DEF InsertRow
<1>5. ASSUME NEW r \in Requests, Enqueue(r) PROVE RowInv'
  BY <1>5 DEF Enqueue
<1>6. ASSUME NEW r \in Requests, Fail(r) PROVE RowInv'
  BY <1>6 DEF Fail
<1>7. ASSUME NEW i \in Ids, Claim(i) \/ Finish(i) PROVE RowInv'
  BY <1>7 DEF Claim, Finish
<1>8. CASE UNCHANGED vars
  BY <1>8 DEF vars
<1> QED
  BY <1>1, <1>2, <1>3, <1>4, <1>5, <1>6, <1>7, <1>8 DEF Next, PersistAdmission

LEMMA OwnerInvariant == Spec => [](TypeOK /\ OwnerInv)
<1>1. TypeOK /\ OwnerInv /\ [Next]_vars => TypeOK' /\ OwnerInv'
  BY TypeStep, DirsStep, WroteStep, RowStep DEF OwnerInv
<1> QED
  BY <1>1, OwnerInit, PTL DEF Spec

(* Suffixes never run past the number of requests, however many of them    *)
(* overlap, fail or leave directories behind.                              *)
THEOREM IdsTypeCorrect == Spec => []TypeOK
BY OwnerInvariant, PTL

-----------------------------------------------------------------------------
(* Requests that found the same id free *)

(* Requests of a base that are in flight together are paired; and so are   *)
(* two that work, or have worked, under one id: the later one found        *)
(* neither a row nor a directory, when the earlier one had begun.          *)
WorksOn(r) == r \in wrote \/ pc[r] \in HandlerPoints \ {"checking"}

PairInv ==
  /\ \A r \in Requests : id[r][1] = BaseOf[r]
  /\ \A q, r \in InFlight : q # r /\ BaseOf[q] = BaseOf[r] => {q, r} \in overlapped
  /\ \A q, r \in Requests : q # r /\ WorksOn(q) /\ WorksOn(r) /\ id[q] = id[r]
       => {q, r} \in overlapped

LEMMA PairInit == Init => PairInv
BY DEF Init, PairInv, WorksOn, InFlight, HandlerPoints

LEMMA PairStep == TypeOK /\ OwnerInv /\ PairInv /\ [Next]_vars => PairInv'
<1> SUFFICES ASSUME TypeOK, OwnerInv, PairInv, [Next]_vars PROVE PairInv'
  OBVIOUS
<1> USE DEF TypeOK, PairInv, WorksOn, InFlight, HandlerPoints, Goto, files, index
<1>1. ASSUME NEW r \in Requests, Receive(r) PROVE PairInv'
  <2>1. \A q \in InFlight : BaseOf[q] = BaseOf[r] => {q, r} \in overlapped' /\ {r, q} \in overlapped'
    <3>1. \A q : {q, r} = {r, q}
      OBVIOUS
    <3> QED
      BY <1>1, <3>1 DEF Receive
  <2>2. overlapped \subseteq overlapped'
    BY <1>1 DEF Receive
  <2>3. r \notin wrote
    BY <1>1 DEF Receive, OwnerInv, WroteInv
  <2> QED
    BY <1>1, <2>1, <2>2, <2>3 DEF Receive
<1>2. ASSUME NEW r \in Requests, CheckId(r) PROVE PairInv'
  <2>1. r \notin wrote /\ id[r] \in Ids
    BY <1>2 DEF CheckId, OwnerInv, WroteInv
  <2>2. CASE Taken(id[r]) /\ id' = [id EXCEPT ![r] = <<@[1], @[2] + 1>>] /\ UNCHANGED pc
    BY <1>2, <2>1, <2>2 DEF CheckId
  <2>3. CASE ~Taken(id[r]) /\ pc' = [pc EXCEPT ![r] = "raw"] /\ UNCHANGED id
    <3>1. \A q \in Requests : q # r /\ id[q] = id[r] => q \notin wrote
      BY <2>3 DEF Taken, DirExists, OwnerInv, WroteInv
    <3>2. \A q \in Requests : q # r /\ id[q] = id[r] /\ WorksOn(q)
            => {q, r} \in overlapped /\ {r, q} \in overlapped
      BY <1>2, <3>1 DEF CheckId
    <3> QED
      BY <1>2, <2>3, <3>2 DEF CheckId
  <2> QED
    BY <1>2, <2>2, <2>3 DEF CheckId
<1>3. ASSUME NEW r \in Requests, OpenFile(r) PROVE PairInv'
  BY <1>3 DEF OpenFile, FileNames
<1>4. ASSUME NEW r \in Requests, WriteFile(r) PROVE PairInv'
  BY <1>4 DEF WriteFile, NextPoint, OwnerInv, WroteInv
<1>5. ASSUME NEW r \in Requests, InsertRow(r) \/ Enqueue(r) PROVE PairInv'
  <2>1. CASE InsertRow(r)
    BY <2>1 DEF InsertRow
  <2>2. CASE Enqueue(r)
    BY <2>2 DEF Enqueue
  <2> QED
    BY <1>5, <2>1, <2>2
<1>6. ASSUME NEW r \in Requests, Fail(r) PROVE PairInv'
  BY <1>6 DEF Fail
<1>7. ASSUME NEW i \in Ids, Claim(i) \/ Finish(i) PROVE PairInv'
  BY <1>7 DEF Claim, Finish
<1>8. CASE UNCHANGED vars
  BY <1>8 DEF vars
<1> QED
  BY <1>1, <1>2, <1>3, <1>4, <1>5, <1>6, <1>7, <1>8 DEF Next, PersistAdmission

-----------------------------------------------------------------------------
(* Files *)

(* What a handler has written, whoever else writes there, exists; a row    *)
(* has all its files.                                                      *)
WrittenInv ==
  /\ \A r \in opened : stored[pc[r]][id[r]] # None
  /\ \A r \in Requests :
       /\ pc[r] \in {"normalized", "receipt", "inserting"} => stored["raw"][id[r]] # None
       /\ pc[r] \in {"receipt", "inserting"} => stored["normalized"][id[r]] # None
       /\ pc[r] = "inserting" => stored["receipt"][id[r]] # None
  /\ \A i \in Ids : row[i] # None => \A f \in FileNames : stored[f][i] # None

LEMMA WrittenInit == Init => WrittenInv
BY DEF Init, WrittenInv

LEMMA WrittenStep == TypeOK /\ OwnerInv /\ WrittenInv /\ [Next]_vars => WrittenInv'
<1> SUFFICES ASSUME TypeOK, OwnerInv, WrittenInv, [Next]_vars PROVE WrittenInv'
  OBVIOUS
<1> USE ContentsAssumption
    DEF TypeOK, WrittenInv, FileNames, HandlerPoints, Goto, files, index
<1>1. ASSUME NEW r \in Requests, Receive(r) \/ CheckId(r) PROVE WrittenInv'
  <2>1. r \notin wrote /\ r \notin opened
    BY <1>1 DEF Receive, CheckId, OwnerInv, WroteInv
  <2> QED
    BY <1>1, <2>1 DEF Receive, CheckId
<1>2. ASSUME NEW r \in Requests, NEW c \in Requests \cup {Empty, Torn}, pc[r] \in FileNames, SetFile(r, c)
      PROVE  /\ \A f \in FileNames, i \in Ids : stored[f][i] # None => stored'[f][i] # None
             /\ stored'[pc[r]][id[r]] # None
  BY <1>2 DEF SetFile
<1>3. ASSUME NEW r \in Requests, OpenFile(r) PROVE WrittenInv'
  <2>1. pc[r] \in FileNames /\ SetFile(r, Empty)
    BY <1>3 DEF OpenFile
  <2>2. /\ \A f \in FileNames, i \in Ids : stored[f][i] # None => stored'[f][i] # None
        /\ stored'[pc[r]][id[r]] # None
    BY <1>2, <2>1
  <2>3. \A q \in opened : pc[q] \in FileNames /\ q \in Requests
    BY DEF OwnerInv, WroteInv
  <2> QED
    BY <1>3, <2>2, <2>3 DEF OpenFile
<1>4. ASSUME NEW r \in Requests, WriteFile(r) PROVE WrittenInv'
  <2>1. pc[r] \in FileNames /\ (SetFile(r, r) \/ SetFile(r, Torn))
    BY <1>4 DEF WriteFile, OwnerInv, WroteInv
  <2>2. /\ \A f \in FileNames, i \in Ids : stored[f][i] # None => stored'[f][i] # None
        /\ stored'[pc[r]][id[r]] # None
    BY <1>2, <2>1
  <2>3. \A q \in opened : pc[q] \in FileNames /\ q \in Requests
    BY DEF OwnerInv, WroteInv
  <2> QED
    BY <1>4, <2>1, <2>2, <2>3 DEF WriteFile, NextPoint
<1>5. ASSUME NEW r \in Requests, InsertRow(r) PROVE WrittenInv'
  <2>1. r \notin opened
    BY <1>5 DEF InsertRow, OwnerInv, WroteInv
  <2> QED
    BY <1>5, <2>1 DEF InsertRow
<1>6. ASSUME NEW r \in Requests, Enqueue(r) PROVE WrittenInv'
  <2>1. r \notin opened
    BY <1>6 DEF Enqueue, OwnerInv, WroteInv
  <2> QED
    BY <1>6, <2>1 DEF Enqueue
<1>7. ASSUME NEW r \in Requests, Fail(r) PROVE WrittenInv'
  <2>1. \A f \in FileNames, i \in Ids : stored[f][i] # None => stored'[f][i] # None
    <3>1. CASE UNCHANGED stored
      BY <3>1
    <3>2. CASE r \in opened /\ SetFile(r, Torn)
      BY <3>2, <1>2 DEF OwnerInv, WroteInv
    <3> QED
      BY <1>7, <3>1, <3>2 DEF Fail
  <2>2. \A q \in opened : pc[q] \in FileNames /\ q \in Requests
    BY DEF OwnerInv, WroteInv
  <2> QED
    BY <1>7, <2>1, <2>2 DEF Fail
<1>8. ASSUME NEW i \in Ids, Claim(i) \/ Finish(i) PROVE WrittenInv'
  BY <1>8 DEF Claim, Finish
<1>9. CASE UNCHANGED vars
  BY <1>9 DEF vars
<1> QED
  BY <1>1, <1>3, <1>4, <1>5, <1>6, <1>7, <1>8, <1>9 DEF Next, PersistAdmission

-----------------------------------------------------------------------------
(* The files of a request that has its id to itself *)

Alone(r) == \A q \in wrote : id[q] = id[r] => q = r

(* They hold its text; the one it has open is empty. *)
OwnFiles(r) ==
  /\ r \in opened => stored[pc[r]][id[r]] = Empty
  /\ pc[r] \in {"normalized", "receipt", "inserting", "enqueuing"} => stored["raw"][id[r]] = r
  /\ pc[r] \in {"receipt", "inserting", "enqueuing"} => stored["normalized"][id[r]] = r
  /\ pc[r] \in {"inserting", "enqueuing"} => stored["receipt"][id[r]] = r
  /\ pc[r] = "enqueuing" \/ reply[r] = "accepted" => row[id[r]] = r
  /\ row[id[r]] = r => \A f \in FileNames : stored[f][id[r]] = r

OwnFilesInv == \A r \in Requests : Alone(r) => OwnFiles(r)

LEMMA OwnFilesInit == Init => OwnFilesInv
<1> SUFFICES ASSUME Init, NEW r \in Requests PROVE OwnFiles(r)
  BY DEF OwnFilesInv
<1> QED
  BY FirstIdType, ContentsAssumption DEF Init, OwnFiles

(* A step that changes nothing of a request, nor of what is stored under   *)
(* its id, leaves its files its own.                                       *)
LEMMA OthersFiles ==
  ASSUME OwnerInv, OwnFilesInv, NEW q \in Requests, Alone(q),
         (q \in opened)' => q \in opened,
         pc'[q] = pc[q], id'[q] = id[q], reply'[q] = reply[q], row'[id[q]] = row[id[q]],
         \A f \in FileNames : stored'[f][id[q]] = stored[f][id[q]]
  PROVE  OwnFiles(q)'
BY DEF OwnFilesInv, OwnFiles, FileNames, OwnerInv, WroteInv

(* A request that had its id to itself up to now. *)
LEMMA AloneBefore ==
  ASSUME TypeOK, OwnerInv, [Next]_vars, NEW q \in Requests, Alone(q)', id'[q] = id[q]
  PROVE  Alone(q)
<1>1. wrote \subseteq wrote'
  BY DEF Next, PersistAdmission, Receive, CheckId, OpenFile, WriteFile, InsertRow, Enqueue, Fail,
         Claim, Finish, vars, files
<1>2. \A r \in wrote : id'[r] = id[r]
  BY DEF Next, PersistAdmission, Receive, CheckId, OpenFile, WriteFile, InsertRow, Enqueue, Fail,
         Claim, Finish, vars, files, TypeOK, OwnerInv, WroteInv
<1> QED
  BY <1>1, <1>2 DEF Alone

LEMMA OwnFilesStep ==
  TypeOK /\ OwnerInv /\ OwnFilesInv /\ [Next]_vars => OwnFilesInv'
<1> SUFFICES ASSUME TypeOK, OwnerInv, OwnFilesInv, [Next]_vars,
                    NEW q \in Requests, Alone(q)'
             PROVE  OwnFiles(q)'
  BY DEF OwnFilesInv
<1> USE DEF TypeOK, Goto, files, index
<1>0. id'[q] = id[q] => Alone(q)
  BY AloneBefore
<1>1. ASSUME NEW r \in Requests, Receive(r) \/ CheckId(r) PROVE OwnFiles(q)'
  <2>1. CASE q = r
    <3>1. r \notin wrote /\ r \notin opened /\ reply[r] # "accepted"
      BY <1>1 DEF Receive, CheckId, OwnerInv, WroteInv, RowInv
    <3>2. \A i \in Ids : row[i] # r
      BY <3>1, ContentsAssumption DEF OwnerInv, RowInv
    <3>3. id'[r] \in Ids /\ pc'[r] \in {"checking", "raw"} /\ UNCHANGED <<files, index, reply>>
      BY <1>1, TypeStep DEF Receive, CheckId
    <3> QED
      BY <2>1, <3>1, <3>2, <3>3 DEF OwnFiles
  <2>2. CASE q # r
    <3>1. pc'[q] = pc[q] /\ id'[q] = id[q] /\ UNCHANGED <<files, index, reply>>
      BY <1>1, <2>2 DEF Receive, CheckId
    <3> QED
      BY <1>0, <3>1, OthersFiles
  <2> QED
    BY <2>1, <2>2
<1>2. ASSUME NEW r \in Requests, r \in wrote', id'[r] = id[r], q # r, id'[q] = id[q]
      PROVE  id[q] # id[r]
  BY <1>2 DEF Alone
<1>3. ASSUME NEW r \in Requests, OpenFile(r) PROVE OwnFiles(q)'
  <2>1. CASE q = r
    <3>1. row[id[r]] # r /\ reply[r] # "accepted" /\ pc[r] \in FileNames /\ id[r] \in Ids
      BY <1>3, ContentsAssumption DEF OpenFile, FileNames, OwnerInv, RowInv
    <3>2. OwnFiles(r)
      BY <1>0, <1>3, <2>1 DEF OpenFile, OwnFilesInv
    <3> QED
      BY <1>3, <2>1, <3>1, <3>2 DEF OpenFile, SetFile, OwnFiles, FileNames
  <2>2. CASE q # r
    <3>1. id[q] # id[r]
      BY <1>2, <1>3, <2>2 DEF OpenFile
    <3>2. \A f \in FileNames : stored'[f][id[q]] = stored[f][id[q]]
      BY <1>3, <3>1 DEF OpenFile, SetFile
    <3> QED
      BY <1>0, <1>3, <2>2, <3>2, OthersFiles DEF OpenFile
  <2> QED
    BY <2>1, <2>2
<1>4. ASSUME NEW r \in Requests, WriteFile(r) PROVE OwnFiles(q)'
  <2>0. r \in wrote /\ pc[r] \in FileNames /\ id[r] \in Ids /\ row[id[r]] # r /\ reply[r] # "accepted"
    BY <1>4, ContentsAssumption DEF WriteFile, FileNames, OwnerInv, WroteInv, RowInv
  <2>1. CASE q = r
    <3>1. OwnFiles(r) /\ Alone(r)
      BY <1>0, <1>4, <2>1 DEF WriteFile, OwnFilesInv
    <3>2. ~Disturbed(r)
      BY <1>4, <3>1 DEF WriteFile, Disturbed, OwnFiles, Alone, OwnerInv, WroteInv
    <3>3. SetFile(r, r)
      BY <1>4, <3>2 DEF WriteFile
    <3> QED
      BY <1>4, <2>0, <2>1, <3>1, <3>3 DEF WriteFile, SetFile, OwnFiles, FileNames, NextPoint
  <2>2. CASE q # r
    <3>1. id[q] # id[r]
      BY <1>2, <1>4, <2>0, <2>2 DEF WriteFile
    <3>2. \A f \in FileNames : stored'[f][id[q]] = stored[f][id[q]]
      BY <1>4, <3>1 DEF WriteFile, SetFile
    <3> QED
      BY <1>0, <1>4, <2>2, <3>2, OthersFiles DEF WriteFile
  <2> QED
    BY <2>1, <2>2
<1>5. ASSUME NEW r \in Requests, InsertRow(r) PROVE OwnFiles(q)'
  <2>0. r \in wrote /\ r \notin opened
    BY <1>5 DEF InsertRow, OwnerInv, WroteInv
  <2>1. CASE q = r
    <3>1. OwnFiles(r)
      BY <1>0, <1>5, <2>1 DEF InsertRow, OwnFilesInv
    <3> QED
      BY <1>5, <2>0, <2>1, <3>1 DEF InsertRow, OwnFiles, FileNames
  <2>2. CASE q # r
    <3>1. id[q] # id[r]
      BY <1>2, <1>5, <2>0, <2>2 DEF InsertRow
    <3> QED
      BY <1>0, <1>5, <2>2, <3>1, OthersFiles DEF InsertRow
  <2> QED
    BY <2>1, <2>2
<1>6. ASSUME NEW r \in Requests, Enqueue(r) PROVE OwnFiles(q)'
  <2>1. CASE q = r
    <3>1. OwnFiles(r) /\ r \notin opened
      BY <1>0, <1>6, <2>1 DEF Enqueue, OwnFilesInv, OwnerInv, WroteInv
    <3> QED
      BY <1>6, <2>1, <3>1 DEF Enqueue, OwnFiles, FileNames
  <2>2. CASE q # r
    BY <1>0, <1>6, <2>2, OthersFiles DEF Enqueue
  <2> QED
    BY <2>1, <2>2
<1>7. ASSUME NEW r \in Requests, Fail(r) PROVE OwnFiles(q)'
  <2>1. CASE q = r
    <3>1. OwnFiles(r) /\ r \notin opened' /\ pc'[r] = "done" /\ reply'[r] = "deferred"
      BY <1>0, <1>7, <2>1 DEF Fail, OwnFilesInv
    <3>2. row[id[r]] = r => UNCHANGED stored
      BY <1>7, ContentsAssumption DEF Fail, OwnerInv, WroteInv, RowInv
    <3> QED
      BY <1>7, <2>1, <3>1, <3>2 DEF Fail, OwnFiles
  <2>2. CASE q # r
    <3>1. r \in opened => id[q] # id[r]
      BY <1>2, <1>7, <2>2 DEF Fail, OwnerInv, WroteInv
    <3>2. \A f \in FileNames : stored'[f][id[q]] = stored[f][id[q]]
      BY <1>7, <3>1 DEF Fail, SetFile
    <3> QED
      BY <1>0, <1>7, <2>2, <3>2, OthersFiles DEF Fail
  <2> QED
    BY <2>1, <2>2
<1>8. ASSUME NEW i \in Ids, Claim(i) \/ Finish(i) PROVE OwnFiles(q)'
  BY <1>0, <1>8, OthersFiles DEF Claim, Finish
<1>9. CASE UNCHANGED vars
  BY <1>0, <1>9, OthersFiles DEF vars
<1> QED
  BY <1>1, <1>3, <1>4, <1>5, <1>6, <1>7, <1>8, <1>9 DEF Next, PersistAdmission

-----------------------------------------------------------------------------
(* Theorems *)

IdsInv == TypeOK /\ OwnerInv /\ PairInv /\ WrittenInv /\ OwnFilesInv

LEMMA IdsInvariant == Spec => []IdsInv
<1>1. Init => IdsInv
  BY OwnerInit, PairInit, WrittenInit, OwnFilesInit DEF IdsInv
<1>2. IdsInv /\ [Next]_vars => IdsInv'
  BY TypeStep, DirsStep, WroteStep, RowStep, PairStep, WrittenStep, OwnFilesStep
     DEF IdsInv, OwnerInv
<1> QED
  BY <1>1, <1>2, PTL DEF Spec

(* Two requests that have written under one id were handled at once. *)
LEMMA AloneOrCollided ==
  ASSUME PairInv, NEW r \in Requests, r \in wrote, wrote \subseteq Requests, ~Alone(r)
  PROVE  \E q \in Requests : Collided(q, r)
BY DEF Alone, PairInv, WorksOn, Collided

(* A row has all its files, and they are those of the request it is of,    *)
(* unless two handled at once found its id free.                           *)
THEOREM RowsAreLoadable == Spec => []RowIsLoadable
<1>1. IdsInv => RowIsLoadable
  <2> SUFFICES ASSUME IdsInv, NEW i \in Ids, row[i] # None
               PROVE  /\ \A f \in FileNames : stored[f][i] # None
                      /\ \/ \A f \in FileNames : stored[f][i] = row[i]
                         \/ \E q, r \in Requests : id[r] = i /\ Collided(q, r)
    BY DEF RowIsLoadable
  <2> DEFINE r == row[i]
  <2>1. r \in Requests /\ r \in wrote /\ id[r] = i /\ wrote \subseteq Requests
    BY DEF IdsInv, TypeOK, OwnerInv, RowInv
  <2>2. \A f \in FileNames : stored[f][i] # None
    BY DEF IdsInv, WrittenInv
  <2>3. CASE Alone(r)
    BY <2>1, <2>2, <2>3 DEF IdsInv, OwnFilesInv, OwnFiles
  <2>4. CASE ~Alone(r)
    <3> HIDE DEF r
    <3> QED
      BY <2>1, <2>2, <2>4, AloneOrCollided DEF IdsInv
  <2> QED
    BY <2>3, <2>4
<1> QED
  BY <1>1, IdsInvariant, PTL

(* Accepted requests keep their files and rows, unless another handled at  *)
(* the same time found the same id free.                                   *)
THEOREM AcceptedRequestsAreStored == Spec => []AcceptedIsStored
<1>1. IdsInv => AcceptedIsStored
  <2> SUFFICES ASSUME IdsInv, NEW r \in Requests, reply[r] = "accepted"
               PROVE  \/ \A f \in FileNames : stored[f][id[r]] = r /\ row[id[r]] = r
                      \/ \E q \in Requests : Collided(q, r)
    BY DEF AcceptedIsStored
  <2>1. r \in wrote /\ wrote \subseteq Requests
    BY DEF IdsInv, TypeOK, OwnerInv, RowInv
  <2>2. CASE Alone(r)
    BY <2>2 DEF IdsInv, OwnFilesInv, OwnFiles
  <2>3. CASE ~Alone(r)
    BY <2>1, <2>3, AloneOrCollided DEF IdsInv
  <2> QED
    BY <2>2, <2>3
<1> QED
  BY <1>1, IdsInvariant, PTL

(* No other request puts a warning back that a worker has taken. *)
THEOREM OnlyCollisionsReset == Spec => TakenIsNotReset
<1> DEFINE Kept == \A i \in Ids : queue[i] \in {"processing", "completed"} =>
                     \/ queue'[i] \in {"processing", "completed"}
                     \/ \E q, r \in Requests : id[r] = i /\ Collided(q, r)
<1>1. IdsInv /\ [Next]_vars => [Kept]_vars
  <2> SUFFICES ASSUME IdsInv, Next PROVE Kept
    OBVIOUS
  <2> USE DEF IdsInv, TypeOK, files, index
  <2>1. ASSUME NEW r \in Requests, Receive(r) \/ CheckId(r) \/ OpenFile(r) \/ WriteFile(r) PROVE Kept
    BY <2>1 DEF Receive, CheckId, OpenFile, WriteFile
  <2>2. ASSUME NEW r \in Requests, InsertRow(r) PROVE Kept
    <3> SUFFICES ASSUME NEW i \in Ids, queue[i] \in {"processing", "completed"}, id[r] = i
                 PROVE  \E q \in Requests : Collided(q, r)
      BY <2>2 DEF InsertRow
    <3>1. row[i] \in wrote /\ id[row[i]] = i /\ row[i] # r /\ r \in wrote
      BY <2>2 DEF InsertRow, OwnerInv, RowInv, WroteInv
    <3>2. ~Alone(r)
      BY <3>1 DEF Alone
    <3> QED
      BY <3>1, <3>2, AloneOrCollided
  <2>3. ASSUME NEW r \in Requests, Enqueue(r) \/ Fail(r) PROVE Kept
    BY <2>3 DEF Enqueue, Fail
  <2>4. ASSUME NEW i \in Ids, Claim(i) \/ Finish(i) PROVE Kept
    BY <2>4 DEF Claim, Finish
  <2> QED
    BY <2>1, <2>2, <2>3, <2>4 DEF Next, PersistAdmission
<1> QED
  BY <1>1, IdsInvariant, PTL DEF Spec, TakenIsNotReset

=============================================================================
