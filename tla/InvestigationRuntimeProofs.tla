---------------------- MODULE InvestigationRuntimeProofs ----------------------
(* Theorems about InvestigationRuntime, for any calls and any number of    *)
(* edits: no bound of the runs is used.                                    *)
EXTENDS InvestigationRuntime, TLAPS

(* A call that is about to take the cached resolution has seen one: no     *)
(* code empties the cache.                                                 *)
CacheIsThere == \A c \in Calls : pc[c] = "taking" => cache # None

TypeInv == TypeOK /\ CacheIsThere

LEMMA BuildType ==
  ASSUME NEW b \in Boundary, NEW lent \in BOOLEAN
  PROVE  /\ Build(b, lent) \in Resolution
         /\ Build(b, lent).gate = b.gate
         /\ Build(b, lent).state = "ready" /\ b.gate = "ready" => Build(b, lent).provider
BY DEF Build, Resolution, Boundary, Gates

LEMMA ResolutionIsSomething == ASSUME NEW r \in Resolution PROVE r # None
BY InvestigationNoneAssumption

LEMMA EntryIsSomething == ASSUME NEW e \in Entry PROVE e # None
BY InvestigationNoneAssumption

(* What TakeCache finds, and what it leaves in the cache. *)
LEMMA TakeFacts ==
  ASSUME TypeInv, NEW c \in Calls, TakeCache(c)
  PROVE  /\ cache \in Entry
         /\ cache' \in Entry
         /\ \E r \in Resolution :
              /\ res' = [res EXCEPT ![c] = r]
              /\ r.state = cache.resolution.state /\ r.gate = cache.resolution.gate
              /\ cache.resolution.provider => r.provider
              /\ cache'.resolution \in {r, cache.resolution}
              /\ cache' # cache => cache'.signature = seen[c].gate /\ cache'.resolution = r
         /\ Resolved(c)
         /\ UNCHANGED <<config, stage, seen, held, outcome, client>>
<1> DEFINE lends == held[c] /\ ~cache.resolution.provider /\ seen[c].gate = "ready"
           found == [cache.resolution EXCEPT !.provider = @ \/ lends]
<1>1. cache \in Entry
  BY DEF TypeInv, TypeOK, CacheIsThere, TakeCache
<1>2. cache.resolution \in Resolution /\ seen[c].gate \in Gates /\ held[c] \in BOOLEAN
  BY <1>1 DEF Entry, Boundary, TypeInv, TypeOK
<1>3. /\ found \in Resolution
      /\ found.state = cache.resolution.state /\ found.gate = cache.resolution.gate
      /\ cache.resolution.provider => found.provider
  BY <1>2 DEF Resolution
<1>4. /\ cache' = IF lends THEN [signature |-> seen[c].gate, resolution |-> found] ELSE cache
      /\ res' = [res EXCEPT ![c] = found]
      /\ Resolved(c)
      /\ UNCHANGED <<config, stage, seen, held, outcome, client>>
  BY DEF TakeCache
<1> HIDE DEF found, lends
<1>5. cache' \in Entry /\ cache'.resolution \in {found, cache.resolution}
      /\ (cache' # cache => cache'.signature = seen[c].gate /\ cache'.resolution = found)
  BY <1>1, <1>2, <1>3, <1>4 DEF Entry
<1> QED
  BY <1>1, <1>3, <1>4, <1>5

LEMMA InitTypeInv == Init => TypeInv
BY EditsAssumption DEF Init, TypeInv, TypeOK, CacheIsThere, Boundary, Gates, Points, Actions

(* Every step keeps the types; one step per action. *)
LEMMA StepTypeInv == TypeInv /\ [Next]_vars => TypeInv'
<1> SUFFICES ASSUME TypeInv, [Next]_vars PROVE TypeInv'
  OBVIOUS
<1> USE DEF TypeInv, TypeOK, CacheIsThere, config, resident, outcome, Goto, Points
<1>1. CASE UNCHANGED vars
  BY <1>1 DEF vars
<1>2. ASSUME NEW c \in Calls, Begin(c) PROVE TypeInv'
  BY <1>2 DEF Begin
<1>3. ASSUME NEW c \in Calls, LoadBoundary(c) PROVE TypeInv'
  BY <1>3 DEF LoadBoundary
<1>4. ASSUME NEW c \in Calls, HitCache(c) PROVE TypeInv'
  BY <1>4 DEF HitCache, Hit
<1>5. ASSUME NEW c \in Calls, TakeCache(c) PROVE TypeInv'
  BY <1>5, TakeFacts, ResolutionIsSomething, EntryIsSomething DEF Resolved
<1>6. ASSUME NEW c \in Calls, MissCache(c) PROVE TypeInv'
  BY <1>6 DEF MissCache
<1>7. ASSUME NEW c \in Calls, StoreCache(c) PROVE TypeInv'
  <2> DEFINE built == Build(seen[c], held[c])
  <2>1. built \in Resolution /\ built # None
    BY BuildType, ResolutionIsSomething
  <2>2. [signature |-> seen[c].gate, resolution |-> built] \in Entry
    BY <2>1 DEF Entry, Boundary
  <2>3. /\ cache' = [signature |-> seen[c].gate, resolution |-> built]
        /\ res' = [res EXCEPT ![c] = built]
        /\ Resolved(c)
        /\ UNCHANGED <<config, stage, seen, held, outcome, client>>
    BY <1>7 DEF StoreCache
  <2> HIDE DEF built
  <2> QED
    BY <2>1, <2>2, <2>3, EntryIsSomething DEF Resolved
<1>8. ASSUME NEW c \in Calls, Route(c) PROVE TypeInv'
  <2>1. res[c] \in Resolution
    BY <1>8 DEF Route
  <2>2. res[c].provider \in BOOLEAN
    BY <2>1 DEF Resolution
  <2> QED
    BY <1>8, <2>2 DEF Route, Degrade, Actions
<1>9. ASSUME NEW c \in Calls, Ask(c) PROVE TypeInv'
  BY <1>9 DEF Ask, Degrade, Actions
<1>10. ASSUME NEW c \in Calls, PlanCloud(c) PROVE TypeInv'
  BY <1>10 DEF PlanCloud
<1>11. ASSUME NEW c \in Calls, CloudInit(c) PROVE TypeInv'
  BY <1>11 DEF CloudInit
<1>12. ASSUME NEW c \in Calls, AskCloud(c) PROVE TypeInv'
  BY <1>12 DEF AskCloud, CloudUnavailable, Actions
<1>13. CASE EditLocal
  BY <1>13, EditsAssumption DEF EditLocal
<1>14. CASE EditCloud
  BY <1>14, EditsAssumption DEF EditCloud
<1> QED
  BY <1>1, <1>2, <1>3, <1>4, <1>5, <1>6, <1>7, <1>8, <1>9, <1>10, <1>11, <1>12, <1>13, <1>14
  DEF Next, Prewarm, Investigate

(* Whatever the calls and the edits, every variable keeps its type, and a  *)
(* call past its resolution has one.                                       *)
THEOREM InvestigationTypeCorrect == Spec => []TypeOK
<1>1. TypeInv => TypeOK
  BY DEF TypeInv
<1> QED
  BY <1>1, InitTypeInv, StepTypeInv, PTL DEF Spec

-----------------------------------------------------------------------------
(* Failing closed: what the local primary leaves must hold all the way     *)
(* through the cloud fallback.                                             *)

Late == {"planning", "cloud_init", "cloud_asking", "finished"}

ActionInv == \A c \in Worker \cup Direct :
               pc[c] \in Late /\ action[c] = "act" => last[c] = "answered"

LEMMA InitActionInv == Init => ActionInv
BY DEF Init, ActionInv, Late, Calls

LEMMA StepActionInv == TypeInv /\ ActionInv /\ [Next]_vars => ActionInv'
<1> SUFFICES ASSUME TypeInv, ActionInv, [Next]_vars PROVE ActionInv'
  OBVIOUS
<1>0. /\ pc \in [Calls -> Points] /\ action \in [Calls -> Actions]
      /\ last \in [Calls -> {"none", "answered", "failed"}]
  BY DEF TypeInv, TypeOK
<1>a. Worker \cup Direct \subseteq Calls /\ Probes \cap (Worker \cup Direct) = {}
  BY CallsAssumption DEF Calls
<1> USE <1>0, <1>a DEF ActionInv, Late, config, resident, outcome, Goto
<1>1. CASE UNCHANGED vars
  BY <1>1 DEF vars
<1>2. ASSUME NEW c \in Calls, Begin(c) PROVE ActionInv'
  BY <1>2 DEF Begin
<1>3. ASSUME NEW c \in Calls, LoadBoundary(c) PROVE ActionInv'
  BY <1>3 DEF LoadBoundary
<1>4. ASSUME NEW c \in Calls, HitCache(c) PROVE ActionInv'
  BY <1>4 DEF HitCache
<1>5. ASSUME NEW c \in Calls, TakeCache(c) PROVE ActionInv'
  <2>1. Resolved(c) /\ UNCHANGED outcome
    BY <1>5 DEF TakeCache
  <2> QED
    BY <2>1 DEF Resolved
<1>6. ASSUME NEW c \in Calls, MissCache(c) PROVE ActionInv'
  BY <1>6 DEF MissCache
<1>7. ASSUME NEW c \in Calls, StoreCache(c) PROVE ActionInv'
  BY <1>7 DEF StoreCache, Resolved
<1>8. ASSUME NEW c \in Calls, Route(c) PROVE ActionInv'
  BY <1>8 DEF Route, Degrade
<1>9. ASSUME NEW c \in Calls, Ask(c) PROVE ActionInv'
  BY <1>9 DEF Ask, Degrade
<1>10. ASSUME NEW c \in Calls, PlanCloud(c) PROVE ActionInv'
  BY <1>10 DEF PlanCloud
<1>11. ASSUME NEW c \in Calls, CloudInit(c) PROVE ActionInv'
  BY <1>11 DEF CloudInit
<1>12. ASSUME NEW c \in Calls, AskCloud(c) PROVE ActionInv'
  BY <1>12 DEF AskCloud, CloudUnavailable
<1>13. CASE EditLocal
  BY <1>13 DEF EditLocal
<1>14. CASE EditCloud
  BY <1>14 DEF EditCloud
<1> QED
  BY <1>1, <1>2, <1>3, <1>4, <1>5, <1>6, <1>7, <1>8, <1>9, <1>10, <1>11, <1>12, <1>13, <1>14
  DEF Next, Prewarm, Investigate

(* Any number of workers, direct runs and probes, sharing the cache in any *)
(* order while gates and providers change: no investigation recommends     *)
(* anything but human review on the word of a provider that failed.        *)
THEOREM InvestigationsFailClosed == Spec => []FailsClosed
<1>1. ActionInv => FailsClosed
  BY DEF ActionInv, FailsClosed, Late
<1> QED
  BY <1>1, InitTypeInv, StepTypeInv, InitActionInv, StepActionInv, PTL DEF Spec

-----------------------------------------------------------------------------
(* Providers of ready services *)

Backed(r) == r.gate = "ready" /\ r.state = "ready" => r.provider

ProviderInv == /\ cache # None => Backed(cache.resolution)
               /\ \A c \in Calls : res[c] # None => Backed(res[c])

LEMMA InitProviderInv == Init => ProviderInv
BY DEF Init, ProviderInv

LEMMA StepProviderInv == TypeInv /\ ProviderInv /\ [Next]_vars => ProviderInv'
<1> SUFFICES ASSUME TypeInv, ProviderInv, [Next]_vars PROVE ProviderInv'
  OBVIOUS
<1>0. res \in [Calls -> Resolution \cup {None}]
  BY DEF TypeInv, TypeOK
<1>1. CASE UNCHANGED <<cache, res>>
  BY <1>1 DEF ProviderInv
<1>2. ASSUME NEW c \in Calls, TakeCache(c) PROVE ProviderInv'
  <2>1. PICK r \in Resolution :
              /\ res' = [res EXCEPT ![c] = r]
              /\ r.state = cache.resolution.state /\ r.gate = cache.resolution.gate
              /\ cache.resolution.provider => r.provider
              /\ cache'.resolution \in {r, cache.resolution}
    BY <1>2, TakeFacts
  <2>2. cache \in Entry
    BY <1>2, TakeFacts
  <2>3. Backed(cache.resolution)
    BY <2>2, EntryIsSomething DEF ProviderInv
  <2>4. Backed(r)
    BY <2>1, <2>3 DEF Backed
  <2>5. Backed(cache'.resolution)
    BY <2>1, <2>3, <2>4
  <2> QED
    BY <1>0, <2>1, <2>4, <2>5 DEF ProviderInv
<1>3. ASSUME NEW c \in Calls, StoreCache(c) PROVE ProviderInv'
  <2> DEFINE built == Build(seen[c], held[c])
  <2>1. seen[c] \in Boundary /\ held[c] \in BOOLEAN
    BY DEF TypeInv, TypeOK
  <2>2. Backed(built)
    BY <2>1, BuildType DEF Backed
  <2>3. /\ cache' = [signature |-> seen[c].gate, resolution |-> built]
        /\ res' = [res EXCEPT ![c] = built]
    BY <1>3 DEF StoreCache
  <2> HIDE DEF built
  <2>4. cache'.resolution = built
    BY <2>3
  <2> QED
    BY <1>0, <2>2, <2>3, <2>4 DEF ProviderInv
<1>4. ASSUME NEW c \in Calls,
             Begin(c) \/ LoadBoundary(c) \/ HitCache(c) \/ MissCache(c) \/ Investigate(c)
      PROVE  UNCHANGED <<cache, res>>
  BY <1>4 DEF Begin, LoadBoundary, HitCache, MissCache, Investigate, Route, Ask, PlanCloud,
              CloudInit, AskCloud, resident
<1>5. EditLocal \/ EditCloud \/ UNCHANGED vars => UNCHANGED <<cache, res>>
  BY DEF EditLocal, EditCloud, vars, resident
<1> QED
  BY <1>1, <1>2, <1>3, <1>4, <1>5 DEF Next, Prewarm

(* A resident service that is ready behind a ready gate has its provider,  *)
(* although any call may lend its own to what another has cached.          *)
THEOREM ReadyServicesAreBacked == Spec => []ReadyHasProvider
<1>1. ProviderInv => ReadyHasProvider
  BY DEF ProviderInv, ReadyHasProvider, Backed
<1> QED
  BY <1>1, InitTypeInv, StepTypeInv, InitProviderInv, StepProviderInv, PTL DEF Spec

-----------------------------------------------------------------------------
(* Resolutions for the gate that was loaded.  With one call at a time the  *)
(* cache cannot change between HitCache and TakeCache.                     *)

OwnInv == /\ ResolutionIsOwn
          /\ \A c \in Calls : pc[c] = "taking" => cache.signature = seen[c].gate

LEMMA InitOwnInv == Init => OwnInv
BY DEF Init, OwnInv, ResolutionIsOwn

LEMMA StepOwnInv == NoOverlap /\ TypeInv /\ OwnInv /\ [Next]_vars => OwnInv'
<1> SUFFICES ASSUME NoOverlap, TypeInv, OwnInv, [Next]_vars PROVE OwnInv'
  OBVIOUS
<1>0. /\ pc \in [Calls -> Points] /\ seen \in [Calls -> Boundary]
      /\ res \in [Calls -> Resolution \cup {None}]
  BY DEF TypeInv, TypeOK
<1> USE <1>0 DEF OwnInv, ResolutionIsOwn, Goto, resident
<1>1. ASSUME UNCHANGED <<cache, pc, seen, res>> PROVE OwnInv'
  BY <1>1
<1>2. ASSUME NEW c \in Calls, Begin(c) PROVE OwnInv'
  BY <1>2 DEF Begin
<1>3. ASSUME NEW c \in Calls, LoadBoundary(c) PROVE OwnInv'
  BY <1>3 DEF LoadBoundary
<1>4. ASSUME NEW c \in Calls, HitCache(c) PROVE OwnInv'
  BY <1>4 DEF HitCache, Hit
<1>5. ASSUME NEW c \in Calls, TakeCache(c) PROVE OwnInv'
  <2>1. PICK r \in Resolution :
              /\ res' = [res EXCEPT ![c] = r]
              /\ r.gate = cache.resolution.gate
              /\ cache'.resolution \in {r, cache.resolution}
              /\ cache' # cache => cache'.signature = seen[c].gate /\ cache'.resolution = r
    BY <1>5, TakeFacts
  <2>2. cache \in Entry /\ Resolved(c) /\ seen' = seen
    BY <1>5, TakeFacts
  <2>3. pc[c] = "taking" /\ cache # None
    BY <1>5, <2>2, EntryIsSomething DEF TakeCache
  <2>4. cache.resolution.gate = cache.signature /\ cache.signature = seen[c].gate
    BY <2>3
  <2>5. cache'.resolution.gate = cache'.signature
    BY <2>1, <2>4
  <2>6. r.gate = seen'[c].gate /\ res'[c] = r
    BY <1>0, <2>1, <2>2, <2>4
  <2>7. pc'[c] \in {"finished", "routing", "asking"}
    BY <1>0, <2>2 DEF Resolved
  <2>8. \A d \in Calls : pc[d] = "taking" => d = c
    BY <2>3 DEF NoOverlap, Running
  <2>9. \A d \in Calls : d # c => pc'[d] = pc[d] /\ seen'[d] = seen[d] /\ res'[d] = res[d]
    BY <1>0, <2>1, <2>2 DEF Resolved
  <2> QED
    BY <2>5, <2>6, <2>7, <2>8, <2>9
<1>6. ASSUME NEW c \in Calls, MissCache(c) PROVE OwnInv'
  BY <1>6 DEF MissCache
<1>7. ASSUME NEW c \in Calls, StoreCache(c) PROVE OwnInv'
  <2> DEFINE built == Build(seen[c], held[c])
  <2>1. seen[c] \in Boundary /\ held[c] \in BOOLEAN
    BY DEF TypeInv, TypeOK
  <2>2. built.gate = seen[c].gate
    BY <2>1, BuildType
  <2>3. /\ cache' = [signature |-> seen[c].gate, resolution |-> built]
        /\ res' = [res EXCEPT ![c] = built]
        /\ Resolved(c) /\ seen' = seen
    BY <1>7 DEF StoreCache
  <2> HIDE DEF built
  <2>4. pc'[c] \in {"finished", "routing", "asking"} /\ res'[c] = built
    BY <1>0, <2>3 DEF Resolved
  <2>5. \A d \in Calls : pc[d] = "taking" => d = c
    BY <1>7 DEF NoOverlap, Running, StoreCache
  <2>6. \A d \in Calls : d # c => pc'[d] = pc[d] /\ seen'[d] = seen[d] /\ res'[d] = res[d]
    BY <1>0, <2>3 DEF Resolved
  <2> QED
    BY <2>2, <2>3, <2>4, <2>5, <2>6
<1>8. ASSUME NEW c \in Calls, Route(c) PROVE OwnInv'
  BY <1>8 DEF Route
<1>9. ASSUME NEW c \in Calls, Ask(c) \/ PlanCloud(c) \/ CloudInit(c) \/ AskCloud(c) PROVE OwnInv'
  BY <1>9 DEF Ask, PlanCloud, CloudInit, AskCloud
<1>10. EditLocal \/ EditCloud \/ UNCHANGED vars => UNCHANGED <<cache, pc, seen, res>>
  BY DEF EditLocal, EditCloud, vars
<1> QED
  BY <1>1, <1>2, <1>3, <1>4, <1>5, <1>6, <1>7, <1>8, <1>9, <1>10 DEF Next, Prewarm, Investigate

(* Calls one after another, the gate edited at any point: what the cache   *)
(* holds and what a call goes by were made for the gate of its signature.  *)
THEOREM ResolutionsAreOwn == Spec => OwnOneAtATime
<1>1. OwnInv => ResolutionIsOwn
  BY DEF OwnInv
<1> QED
  BY <1>1, InitTypeInv, StepTypeInv, InitOwnInv, StepOwnInv, PTL DEF Spec, OwnOneAtATime
=============================================================================
