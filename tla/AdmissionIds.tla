----------------------------- MODULE AdmissionIds -----------------------------
(***************************************************************************)
(* How persist_admission allots the warning_id under which WarningQueue    *)
(* knows a warning, and what two requests that get the same one do to the  *)
(* warning's directory and row.                                            *)
(*                                                                         *)
(* An id is made of service, operation, rule and the second of arrival; a  *)
(* suffix counts up while the id is taken.  Nothing reserves a free id:    *)
(* the check and the first write are separate steps, a file is emptied     *)
(* before it is written, and the row is an INSERT OR REPLACE.              *)
(***************************************************************************)
EXTENDS Naturals, FiniteSets

CONSTANTS
  Requests,      \* the accepted requests
  Bases,         \* what build_warning_id makes of them
  BaseOf,        \* the base of each request: severity is not part of it
  HandlerLimit,  \* requests handled at the same time
  None,          \* no file, no row
  Empty,         \* a file that is open and not written
  Torn           \* a file with a part of a text, or parts of two

ASSUME RequestsAssumption == IsFiniteSet(Requests)
ASSUME ContentsAssumption ==
  /\ {None, Empty, Torn} \cap Requests = {}
  /\ None # Empty /\ None # Torn /\ Empty # Torn
ASSUME BaseAssumption     == BaseOf \in [Requests -> Bases]
ASSUME HandlerAssumption  == HandlerLimit \in Nat \ {0}

(* Every request takes one id at most, so these suffixes are enough.       *)
Ids == Bases \X (1..Cardinality(Requests))

(* Mutant: the row is inserted before the last file is written.            *)
InsertBeforeReceipt ==
  [raw |-> "normalized", normalized |-> "inserting", receipt |-> "inserting"]

(* The files of a warning in the order they are written, each with what    *)
(* comes after it.                                                         *)
NextPoint == [raw |-> "normalized", normalized |-> "receipt", receipt |-> "inserting"]

FileNames == {"raw", "normalized", "receipt"}

VARIABLES
  dirs,        \* the ids with a directory
  stored,      \* whose text each file of each id holds
  opened,      \* the requests that have their file open
  row,         \* the request each row of the index comes from
  queue,       \* the queue_state column
  pc,          \* where the handler of each request is
  id,          \* the id it tries or writes under
  reply,       \* what the caller was told
  wrote,       \* history: the requests that have opened a file
  overlapped   \* history: the pairs of a base that were handled at once

files == <<dirs, stored, opened, wrote>>
index == <<row, queue>>
vars  == <<files, index, pc, id, reply, overlapped>>

HandlerPoints == {"checking", "raw", "normalized", "receipt", "inserting", "enqueuing"}

InFlight == {r \in Requests : pc[r] \in HandlerPoints}

Goto(r, point) == pc' = [pc EXCEPT ![r] = point]

-----------------------------------------------------------------------------
(* build_warning_id *)
Receive(r) ==
  /\ pc[r] = "start"
  /\ Cardinality(InFlight) < HandlerLimit
  /\ id' = [id EXCEPT ![r] = <<BaseOf[r], 1>>]
  /\ Goto(r, "checking")
  /\ overlapped' = overlapped \cup {{q, r} : q \in {p \in InFlight : BaseOf[p] = BaseOf[r]}}
  /\ UNCHANGED <<files, index, reply>>

(* Nothing removes a directory. *)
DirExists(i) == i \in dirs

(* Mutant: the id is used as it was built.                                 *)
TakenNever(i) == FALSE

Taken(i) == row[i] # None \/ DirExists(i)

(* One round of _ensure_unique_warning_id.  A row has a directory, and     *)
(* directories stay, so that the round frees an id just when its last read *)
(* finds no directory.                                                     *)
CheckId(r) ==
  /\ pc[r] = "checking"
  /\ \/ /\ Taken(id[r])
        /\ id' = [id EXCEPT ![r] = <<@[1], @[2] + 1>>]
        /\ UNCHANGED pc
     \/ /\ ~Taken(id[r])
        /\ Goto(r, "raw")
        /\ UNCHANGED id
  /\ UNCHANGED <<files, index, reply, overlapped>>

SetFile(r, content) == stored' = [stored EXCEPT ![pc[r]][id[r]] = content]

(* _write_json makes the directory and opens the file, which empties it.   *)
OpenFile(r) ==
  /\ pc[r] \in FileNames /\ r \notin opened
  /\ dirs' = dirs \cup {id[r]}
  /\ SetFile(r, Empty)
  /\ opened' = opened \cup {r}
  /\ wrote' = wrote \cup {r}
  /\ UNCHANGED <<index, pc, id, reply, overlapped>>

(* Another request has written the file r has open, or has it open too.    *)
Disturbed(r) ==
  \/ stored[pc[r]][id[r]] # Empty
  \/ \E q \in opened \ {r} : id[q] = id[r] /\ pc[q] = pc[r]

(* Then it writes its text, over another's if there is one: the file is    *)
(* whole only if the parts fall together so.                               *)
WriteFile(r) ==
  /\ r \in opened
  /\ \/ SetFile(r, r)
     \/ Disturbed(r) /\ SetFile(r, Torn)
  /\ opened' = opened \ {r}
  /\ Goto(r, NextPoint[pc[r]])
  /\ UNCHANGED <<dirs, wrote, index, id, reply, overlapped>>

(* INSERT OR REPLACE: the queue columns of an existing row are lost. *)
InsertRow(r) ==
  /\ pc[r] = "inserting"
  /\ row' = [row EXCEPT ![id[r]] = r]
  /\ queue' = [queue EXCEPT ![id[r]] = "null"]
  /\ Goto(r, "enqueuing")
  /\ UNCHANGED <<files, id, reply, overlapped>>

(* enqueue_admitted_warning, in one step and without dedupe, which         *)
(* WarningQueue has: a row with an entry keeps it.  Then the answer 202.   *)
Enqueue(r) ==
  /\ pc[r] = "enqueuing"
  /\ queue' = [queue EXCEPT ![id[r]] = IF @ = "null" THEN "pending" ELSE @]
  /\ reply' = [reply EXCEPT ![r] = "accepted"]
  /\ Goto(r, "done")
  /\ UNCHANGED <<files, row, id, overlapped>>

(* An exception is answered 503; what was written stays: a directory       *)
(* without a file, a file without its text or with a part of it.           *)
Fail(r) ==
  /\ pc[r] \in HandlerPoints
  /\ \/ UNCHANGED <<dirs, stored>>
     \/ pc[r] = "raw" /\ dirs' = dirs \cup {id[r]} /\ UNCHANGED stored
     \/ r \in opened /\ SetFile(r, Torn) /\ UNCHANGED dirs
  /\ opened' = opened \ {r}
  /\ reply' = [reply EXCEPT ![r] = "deferred"]
  /\ Goto(r, "done")
  /\ UNCHANGED <<wrote, index, id, overlapped>>

(* The worker, in as much as it works on a row it has claimed. *)
Claim(i) ==
  /\ queue[i] = "pending"
  /\ queue' = [queue EXCEPT ![i] = "processing"]
  /\ UNCHANGED <<files, row, pc, id, reply, overlapped>>

Finish(i) ==
  /\ queue[i] = "processing"
  /\ queue' = [queue EXCEPT ![i] = "completed"]
  /\ UNCHANGED <<files, row, pc, id, reply, overlapped>>

-----------------------------------------------------------------------------
Init ==
  /\ dirs = {}
  /\ stored = [f \in FileNames |-> [i \in Ids |-> None]]
  /\ opened = {}
  /\ row = [i \in Ids |-> None]
  /\ queue = [i \in Ids |-> "null"]
  /\ pc = [r \in Requests |-> "start"]
  /\ id = [r \in Requests |-> <<BaseOf[r], 1>>]
  /\ reply = [r \in Requests |-> "none"]
  /\ wrote = {}
  /\ overlapped = {}

PersistAdmission(r) ==
  \/ Receive(r) \/ CheckId(r) \/ OpenFile(r) \/ WriteFile(r) \/ InsertRow(r)

Next == \/ \E r \in Requests : PersistAdmission(r) \/ Enqueue(r) \/ Fail(r)
        \/ \E i \in Ids : Claim(i) \/ Finish(i)

Spec == Init /\ [][Next]_vars

-----------------------------------------------------------------------------
(* Properties *)

Contents == Requests \cup {None, Empty, Torn}

(* Every variable keeps its type; in particular an id never runs past the  *)
(* suffixes that the requests before it can have taken.                    *)
TypeOK ==
  /\ dirs \subseteq Ids
  /\ stored \in [FileNames -> [Ids -> Contents]]
  /\ opened \subseteq Requests
  /\ row \in [Ids -> Requests \cup {None}]
  /\ queue \in [Ids -> {"null", "pending", "processing", "completed"}]
  /\ pc \in [Requests -> HandlerPoints \cup {"start", "done"}]
  /\ id \in [Requests -> Ids]
  /\ reply \in [Requests -> {"none", "accepted", "deferred"}]
  /\ wrote \subseteq Requests
  /\ overlapped \subseteq SUBSET Requests

(* Two requests handled at the same time that found the same id free.      *)
Collided(q, r) == q # r /\ {q, r} \subseteq wrote /\ id[q] = id[r] /\ {q, r} \in overlapped

(* The worker can load what a row points to at every moment, and it is all *)
(* of the one request the row is of, whatever requests fail: only between  *)
(* two requests that found the same id free can a row be there with files  *)
(* of both or a file empty or torn (which load_warning_artifacts cannot    *)
(* load, so that the warning is dead lettered), and even then no file is   *)
(* missing (persist_admission).                                            *)
RowIsLoadable ==
  \A i \in Ids : row[i] # None =>
    /\ \A f \in FileNames : stored[f][i] # None
    /\ \/ \A f \in FileNames : stored[f][i] = row[i]
       \/ \E q, r \in Requests : id[r] = i /\ Collided(q, r)

(* Accepted means stored: the caller's own payload, alert, receipt and row *)
(* are there under the id it was given, wherever other requests failed,    *)
(* unless another that was handled at the same time found the same id free *)
(* (persist_admission).                                                    *)
AcceptedIsStored ==
  \A r \in Requests : reply[r] = "accepted" =>
    \/ \A f \in FileNames : stored[f][id[r]] = r /\ row[id[r]] = r
    \/ \E q \in Requests : Collided(q, r)

(* Nothing puts a warning that a worker has taken, or finished, back but   *)
(* the second of two such requests.                                        *)
TakenIsNotReset ==
  [][\A i \in Ids : queue[i] \in {"processing", "completed"} =>
       \/ queue'[i] \in {"processing", "completed"}
       \/ \E q, r \in Requests : id[r] = i /\ Collided(q, r)]_vars

=============================================================================
