---------------------------- MODULE WarningLedger ----------------------------
(***************************************************************************)
(* What the warning queue promises to its operator, without files, rows or *)
(* leases: the queue states and their actions of                           *)
(* build_signoz_warning_queue_governance.  One warning is executed at a    *)
(* time (queue_mode strict_serial_warning_plane), failed and waiting       *)
(* warnings are taken again, finished ones never are, and a warning is     *)
(* suppressed only for another one of its key that has been queued.        *)
(***************************************************************************)
CONSTANTS Warnings, KeyOf

VARIABLES
  ledger,   \* the queue state of each warning, "null" before it has one
  running   \* the warnings a live worker is executing

ledgerVars == <<ledger, running>>

Claimable == {"pending", "failed", "waiting_local_primary_recovery"}
Settled   == {"completed", "failed", "dead_letter", "waiting_local_primary_recovery"}

Init == ledger = [w \in Warnings |-> "null"] /\ running = {}

Queue(w) ==
  /\ ledger[w] = "null"
  /\ ledger' = [ledger EXCEPT ![w] = "pending"]
  /\ UNCHANGED running

Suppress(w) ==
  /\ ledger[w] = "null"
  /\ \E d \in Warnings \ {w} : /\ KeyOf[d] = KeyOf[w]
                               /\ ledger[d] \notin {"null", "deduped"}
  /\ ledger' = [ledger EXCEPT ![w] = "deduped"]
  /\ UNCHANGED running

Start(w) ==
  /\ running = {}
  /\ ledger[w] \in Claimable
  /\ ledger' = [ledger EXCEPT ![w] = "processing"]
  /\ running' = {w}

Finish(w) ==
  /\ running = {w}
  /\ ledger[w] = "processing"
  /\ \E s \in Settled : ledger' = [ledger EXCEPT ![w] = s]
  /\ running' = {}

(* The worker dies; the warning stays in processing. *)
Abandon(w) ==
  /\ running = {w}
  /\ running' = {}
  /\ UNCHANGED ledger

Next == \E w \in Warnings :
          Queue(w) \/ Suppress(w) \/ Start(w) \/ Finish(w) \/ Abandon(w)

Spec == Init /\ [][Next]_ledgerVars
=============================================================================
