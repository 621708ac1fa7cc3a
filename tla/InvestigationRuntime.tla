------------------------- MODULE InvestigationRuntime -------------------------
(***************************************************************************)
(* Investigations of one process: run_investigation_runtime with the local *)
(* primary, its resident service, and the cloud fallback.                  *)
(*                                                                         *)
(* The calls of a process (the worker, direct runs, and the boot and       *)
(* readiness probes that only prewarm) share _LOCAL_PRIMARY_RESIDENT_CACHE *)
(* without a lock.  A call resolves the resident service twice, in         *)
(* from_config and in investigate, and loads the provider boundary anew    *)
(* each time it looks, so that the configuration may have been edited in   *)
(* between.  A restart of the process is a new behaviour.                  *)
(*                                                                         *)
(* Of a configuration the model keeps the gate, which is in the cache's    *)
(* signature, and whether a provider can be built, which is not: it        *)
(* depends on the transport.                                               *)
(***************************************************************************)
EXTENDS Naturals, FiniteSets

CONSTANTS
  Worker,    \* calls of the warning worker, which tries again
  Direct,    \* direct runs
  Probes,    \* calls of prewarm_local_primary_resident_service alone
  MaxEdits,  \* bound on the edits of provider-boundary.yaml
  None

Calls == Worker \cup Direct \cup Probes

ASSUME CallsAssumption == Worker \cap Direct = {} /\ Probes \cap (Worker \cup Direct) = {}
ASSUME EditsAssumption == MaxEdits \in Nat

Gates == {"smoke_default", "missing_env", "ready"}

Boundary == [gate : Gates, builds : BOOLEAN]

(* What the resident service resolved to: its lifecycle, and whether it    *)
(* holds a provider.                                                       *)
Resolution == [state : {"ready", "not_ready", "degraded"}, gate : Gates, provider : BOOLEAN]

(* _LocalPrimaryResidentCache *)
Entry == [signature : Gates, resolution : Resolution]

ASSUME InvestigationNoneAssumption == None \notin Resolution \cup Entry

(* Every recommendation but send_to_human_review is "act". *)
Actions == {"act", "review"}

VARIABLES
  local,   \* the boundary of local_primary, as configured now
  cloud,   \* the boundary of cloud_fallback
  cache,   \* the signature and the resolution of the resident cache
  pc,      \* where each call is
  stage,   \* init: in from_config; use: in investigate
  seen,    \* the local boundary it loaded
  res,     \* the resolution it got
  held,    \* the provider from_config left it with
  action,  \* the recommended action of its result
  last,    \* how the last provider it asked did
  client,  \* whether it has a real cloud client
  edits

config == <<local, cloud, edits>>
resident == <<seen, res, held>>
outcome  == <<action, last>>
vars     == <<config, cache, pc, stage, resident, outcome, client>>

Goto(c, point) == pc' = [pc EXCEPT ![c] = point]

-----------------------------------------------------------------------------
(* The resident service *)

Begin(c) ==
  /\ pc[c] = "start" \/ (c \in Worker /\ pc[c] \in {"waiting", "raised"})
  /\ Goto(c, "loading")
  /\ stage' = [stage EXCEPT ![c] = "init"]
  /\ held' = [held EXCEPT ![c] = FALSE]
  /\ client' = [client EXCEPT ![c] = FALSE]
  /\ UNCHANGED <<config, cache, seen, res, outcome>>

(* load_provider_boundary_config and resolve_real_adapter_gate. *)
LoadBoundary(c) ==
  /\ pc[c] = "loading"
  /\ seen' = [seen EXCEPT ![c] = local]
  /\ Goto(c, "looking")
  /\ UNCHANGED <<config, cache, stage, res, held, outcome, client>>

(* Where a resolved service leads: a probe is done, from_config goes on to *)
(* _resolve_local_abnormal_path, investigate to its provider.              *)
Resolved(c) == Goto(c, IF c \in Probes THEN "finished"
                       ELSE IF stage[c] = "init" THEN "routing" ELSE "asking")

(* Mutant: the signature is not compared. *)
HitAny(c) == cache # None

Hit(c) == cache # None /\ cache.signature = seen[c].gate

HitCache(c) ==
  /\ pc[c] = "looking"
  /\ Hit(c)
  /\ Goto(c, "taking")
  /\ UNCHANGED <<config, cache, stage, resident, outcome, client>>

(* The cached resolution is read after its signature was: another call may *)
(* have replaced both in between.  The caller lends its own provider to a  *)
(* resolution without one.                                                 *)
TakeCache(c) ==
  LET lends == held[c] /\ ~cache.resolution.provider /\ seen[c].gate = "ready"
      found == [cache.resolution EXCEPT !.provider = @ \/ lends]
  IN  /\ pc[c] = "taking"
      /\ cache' = IF lends THEN [signature |-> seen[c].gate, resolution |-> found] ELSE cache
      /\ res' = [res EXCEPT ![c] = found]
      /\ Resolved(c)
      /\ UNCHANGED <<config, stage, seen, held, outcome, client>>

(* Mutant: a provider that cannot be built leaves a ready service.         *)
BuildReady(b, lent) ==
  [state |-> IF b.gate = "missing_env" THEN "not_ready" ELSE "ready",
   gate |-> b.gate, provider |-> b.gate = "ready" /\ (lent \/ b.builds)]

(* _build_local_primary_resident_resolution *)
Build(b, lent) ==
  LET provides == b.gate = "ready" /\ (lent \/ b.builds)
  IN  [state    |-> CASE b.gate = "smoke_default" -> "ready"
                      [] b.gate = "missing_env"   -> "not_ready"
                      [] b.gate = "ready"         -> IF provides THEN "ready" ELSE "degraded",
       gate     |-> b.gate,
       provider |-> provides]

MissCache(c) ==
  /\ pc[c] = "looking"
  /\ ~Hit(c)
  /\ Goto(c, "building")
  /\ UNCHANGED <<config, cache, stage, resident, outcome, client>>

(* The resolution replaces whatever another call has cached meanwhile.     *)
StoreCache(c) ==
  LET built == Build(seen[c], held[c])
  IN  /\ pc[c] = "building"
      /\ cache' = [signature |-> seen[c].gate, resolution |-> built]
      /\ res' = [res EXCEPT ![c] = built]
      /\ Resolved(c)
      /\ UNCHANGED <<config, stage, seen, held, outcome, client>>

-----------------------------------------------------------------------------
(* The local primary *)

(* decide_local_primary_abnormal_path *)
Waits(c) == c \in Worker /\ res[c].state = "degraded" /\ res[c].gate = "ready"

(* build_degraded_local_fallback *)
Degrade(c) == /\ action' = [action EXCEPT ![c] = "review"]
              /\ last' = [last EXCEPT ![c] = "failed"]

(* Not ready: the worker waits (LocalPrimaryRecoveryRequired), or the      *)
(* degraded result goes to the cloud, whatever plan_cloud_fallback and its *)
(* switches say.                                                           *)
Route(c) ==
  /\ pc[c] = "routing"
  /\ held' = [held EXCEPT ![c] = res[c].provider]
  /\ \/ /\ res[c].state = "ready"
        /\ stage' = [stage EXCEPT ![c] = "use"]
        /\ Goto(c, "loading")
        /\ UNCHANGED outcome
     \/ /\ res[c].state # "ready" /\ Waits(c)
        /\ Goto(c, "waiting")
        /\ UNCHANGED <<stage, outcome>>
     \/ /\ res[c].state # "ready" /\ ~Waits(c)
        /\ Degrade(c)
        /\ Goto(c, "cloud_init")
        /\ UNCHANGED stage
  /\ UNCHANGED <<config, cache, seen, res, client>>

(* investigate: the service must be ready; the boundary is loaded once     *)
(* more.  The provider, real or smoke, answers or raises.                  *)
Ask(c) ==
  /\ pc[c] = "asking"
  /\ \/ Degrade(c)
     \/ /\ res[c].state = "ready"
        /\ local.gate = "ready" => res[c].provider \/ held[c] \/ local.builds
        /\ \E a \in Actions : action' = [action EXCEPT ![c] = a]
        /\ last' = [last EXCEPT ![c] = "answered"]
  /\ Goto(c, "planning")
  /\ UNCHANGED <<config, cache, stage, resident, client>>

(* plan_cloud_fallback, by confidence, unknowns and hypotheses. *)
PlanCloud(c) ==
  /\ pc[c] = "planning"
  /\ Goto(c, "cloud_init") \/ Goto(c, "finished")
  /\ UNCHANGED <<config, cache, stage, resident, outcome, client>>

-----------------------------------------------------------------------------
(* The cloud fallback *)

(* CloudFallbackInvestigator.from_config and build_cloud_fallback_request. *)
(* Neither is in a try: a client that cannot be built, or a handoff above  *)
(* its token budget, raises out of the investigation.                      *)
CloudInit(c) ==
  /\ pc[c] = "cloud_init"
  /\ \/ /\ cloud.gate = "ready" => cloud.builds
        /\ client' = [client EXCEPT ![c] = cloud.gate = "ready"]
        /\ Goto(c, "cloud_asking")
     \/ /\ Goto(c, "raised")
        /\ UNCHANGED client
  /\ UNCHANGED <<config, cache, stage, resident, outcome>>

(* Mutant: the unavailable cloud leaves the local recommendation. *)
CloudUnavailableKeepsAction(c) == /\ last' = [last EXCEPT ![c] = "failed"]
                                  /\ UNCHANGED action

(* build_cloud_unavailable_local_fallback *)
CloudUnavailable(c) == /\ last' = [last EXCEPT ![c] = "failed"]
                       /\ action' = [action EXCEPT ![c] = "review"]

(* run_cloud_fallback_with_local_fallback: the smoke client returns the    *)
(* action of the handoff, which is the local result's; it is no answer of  *)
(* its own.                                                                *)
AskCloud(c) ==
  /\ pc[c] = "cloud_asking"
  /\ \/ CloudUnavailable(c)
     \/ /\ cloud.gate = "smoke_default"
        /\ UNCHANGED outcome
     \/ /\ cloud.gate = "ready" /\ client[c]
        /\ \E a \in Actions : action' = [action EXCEPT ![c] = a]
        /\ last' = [last EXCEPT ![c] = "answered"]
  /\ Goto(c, "finished")
  /\ UNCHANGED <<config, cache, stage, resident, client>>

-----------------------------------------------------------------------------
(* An operator edits provider-boundary.yaml. *)
EditLocal ==
  /\ edits < MaxEdits
  /\ edits' = edits + 1
  /\ local' \in Boundary
  /\ UNCHANGED <<cloud, cache, pc, stage, resident, outcome, client>>

EditCloud ==
  /\ edits < MaxEdits
  /\ edits' = edits + 1
  /\ cloud' \in Boundary
  /\ UNCHANGED <<local, cache, pc, stage, resident, outcome, client>>

Init ==
  /\ local \in Boundary /\ cloud \in Boundary
  /\ cache = None
  /\ pc = [c \in Calls |-> "start"]
  /\ stage = [c \in Calls |-> "init"]
  /\ seen = [c \in Calls |-> local]
  /\ res = [c \in Calls |-> None]
  /\ held = [c \in Calls |-> FALSE]
  /\ action = [c \in Calls |-> "review"]
  /\ last = [c \in Calls |-> "none"]
  /\ client = [c \in Calls |-> FALSE]
  /\ edits = 0

Prewarm(c) == LoadBoundary(c) \/ HitCache(c) \/ TakeCache(c) \/ MissCache(c) \/ StoreCache(c)

Investigate(c) == Route(c) \/ Ask(c) \/ PlanCloud(c) \/ CloudInit(c) \/ AskCloud(c)

Next == \/ \E c \in Calls : Begin(c) \/ Prewarm(c) \/ Investigate(c)
        \/ EditLocal \/ EditCloud

Spec == Init /\ [][Next]_vars

Running(c) == pc[c] \notin {"start", "finished", "waiting", "raised"}

(* A call that has begun goes on, and a waiting warning is tried again     *)
(* after its backoff.                                                      *)
FairSpec ==
  /\ Spec
  /\ \A c \in Calls : WF_vars(Prewarm(c) \/ Investigate(c))
  /\ \A c \in Worker : WF_vars(pc[c] = "waiting" /\ Begin(c))

-----------------------------------------------------------------------------
(* Properties *)

Points == {"start", "loading", "looking", "taking", "building", "routing", "asking", "planning",
           "cloud_init", "cloud_asking", "finished", "waiting", "raised"}

(* Every variable keeps its type, and a call past its resolution has one.  *)
TypeOK ==
  /\ local \in Boundary /\ cloud \in Boundary
  /\ cache \in Entry \cup {None}
  /\ pc \in [Calls -> Points]
  /\ stage \in [Calls -> {"init", "use"}]
  /\ seen \in [Calls -> Boundary]
  /\ res \in [Calls -> Resolution \cup {None}]
  /\ \A c \in Calls : pc[c] \in {"routing", "asking", "waiting"} => res[c] # None
  /\ held \in [Calls -> BOOLEAN]
  /\ action \in [Calls -> Actions]
  /\ last \in [Calls -> {"none", "answered", "failed"}]
  /\ client \in [Calls -> BOOLEAN]
  /\ edits \in 0..MaxEdits

(* An investigation recommends anything but human review only on the word  *)
(* of the last provider it asked: a failure, of either provider and in     *)
(* whatever state of gates, cache and clients, ends in review.             *)
FailsClosed ==
  \A c \in Worker \cup Direct :
    pc[c] = "finished" /\ action[c] = "act" => last[c] = "answered"

(* The cached resolution was made for the gate of its signature, and no     *)
(* call is led by one made for another gate than it loaded, although the   *)
(* gate is edited at any point, as long as calls come one after another,   *)
(* as the worker's do: overlapping calls break it between HitCache and     *)
(* TakeCache.                                                              *)
ResolutionIsOwn ==
  /\ cache # None => cache.resolution.gate = cache.signature
  /\ \A c \in Calls : pc[c] \in {"routing", "asking", "waiting"} => res[c].gate = seen[c].gate

NoOverlap == \A c, d \in Calls : Running(c) /\ Running(d) => c = d

OwnOneAtATime == []NoOverlap => []ResolutionIsOwn

(* A service that calls itself ready behind a ready gate has its provider, *)
(* built, found or lent.                                                   *)
ReadyHasProvider ==
  \A r \in {res[c] : c \in Calls} \cup (IF cache = None THEN {} ELSE {cache.resolution}) :
    r # None /\ r.gate = "ready" /\ r.state = "ready" => r.provider

NobodyWaits == \A c \in Worker : pc[c] # "waiting"

(* Once the real adapter is disabled, waiting warnings go on without it.   *)
DisablingEndsWaits == <>[](local.gate # "ready") => <>[]NobodyWaits

(* Once the local primary can be built again, waiting warnings are run.    *)
RepairEndsWaits == <>[](local.gate = "ready" /\ local.builds) => <>[]NobodyWaits

=============================================================================
