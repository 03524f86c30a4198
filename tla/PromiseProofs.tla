---------------------------- MODULE PromiseProofs ----------------------------
(***************************************************************************)
(* The phases of the resource against the cluster, for every value of the  *)
(* constants of Lifecycle: phases go forward and are written only when the *)
(* cloud has settled, Lifecycle implements ConfigPhases, and a worker that *)
(* rests is done.                                                          *)
(***************************************************************************)
EXTENDS CompletionProofs

\* The versions that have reached the informer or are on their way to it.
Stream == {cache} \cup {watch[i] : i \in DOMAIN watch}

\* They come in the order they were stored.
InOrder ==
  /\ cache.rv <= api.rv
  /\ \A i \in DOMAIN watch : cache.rv < watch[i].rv /\ watch[i].rv <= api.rv
  /\ \A i, j \in DOMAIN watch : i < j => watch[i].rv < watch[j].rv

RunningPhases == {"active", "updating"}

\* No version the operator holds is of a later phase than the stored one, and once
\* the phase tells of a created cluster, no reader will miss its id; so a
\* worker that creates a cluster, or writes a phase, is not late.
PhasesForward ==
  /\ \A o \in Held : /\ o.phase # NotCreated => api.phase # NotCreated
                     /\ o.phase \in RunningPhases => api.phase \in RunningPhases
  /\ ~api.imported /\ api.phase # NotCreated => \A o \in Stream : o.clusterID # NoID
  /\ pc = "create" => /\ cfg.phase = NotCreated
                      /\ ~cfg.imported /\ cfg.clusterID = NoID => api.phase = NotCreated
  /\ pc \in {"saveID", "savePhase"} => api.phase = NotCreated /\ ~api.imported
  /\ pc \in {"wait", "import"} \cup ImportPCs => api.phase # NotCreated
  /\ pc \in UpdatePCs => api.phase \in RunningPhases

-----------------------------------------------------------------------------
(* The informer.                                                           *)

\* Through the cache's pointer the worker changes no version and takes no id.
LEMMA CacheKept ==
  ASSUME TypeOK, IdsStay, Step
  PROVE  cache'.rv = cache.rv /\ (cache'.clusterID = NoID => cache.clusterID = NoID)
  <1>held. cfg \in Configs
    BY DEF TypeOK, HandlerTypeOK
  <1>1. CASE ImportRead
    BY <1>1, <1>held DEF ImportRead, Aligned, Configs
  <1>2. CASE CreateRows
    BY <1>2, <1>held DEF CreateRows, CreateNodePools, PoolsToCreate, IdsStay, UpdatePCs, Configs,
       TypeOK, StoreTypeOK
  <1>3. CASE ProvisionNext /\ ~ImportRead
    BY <1>3 DEF ProvisionNext, StartImport, CreateRefused, CreateSkipped, CreateFails,
       CreateSucceeds, SaveID, SavePhase, WaitFails, WaitAbnormal, CreationComplete, KeepWaiting,
       ImportRefused, ImportReadFails, ImportSave, ImportSecret, ImportActive, storeVars
  <1>4. CASE CheckUpdateNext /\ ~CreateRows
    BY <1>4 DEF CheckUpdateNext, UpdateRefused, UpdateReadFails, AwaitCluster, AwaitPools,
       GetCluster, GetNodePools, GetStatus, GetVirtualNodePools, SyncFails, SyncVersion,
       AwaitNodeUpgrade, NoNodeUpgrade, CheckNodes, TriggerNodeUpgrade, Proceed, SyncModify,
       EnqueueGet, EnqueuePut, FinishWithoutPools, SaveRows, SyncDone, EndpointMissing,
       EndpointCreating, EndpointCreated, EndpointFails, Finish, storeVars
  <1>5. CASE RemovalNext
    BY <1>5 DEF RemovalNext, RemoveNothing, RemoveReadFails, RemoveAlreadyGone, RemoveFound,
       CheckNodePools, CheckVirtualNodePools, ProtectionUnknown, ProtectionChecked,
       ReportProtection, NodePoolsDeleted, DeleteNodePools, VirtualNodePoolsDeleted,
       DeleteVirtualNodePools, RemoveCluster, RemoveClusterRefused, RemovalCallFails,
       DropFinalizer, storeVars
  <1>6. CASE Frame
    BY <1>6 DEF Frame, Begin, RecordError, AddFinalizer, End
  <1> QED BY <1>1, <1>2, <1>3, <1>4, <1>5, <1>6 DEF Step, Remove

LEMMA StepStore ==
  ASSUME TypeOK, Step
  PROVE  StoreStep
  BY ProvisionWorker, CheckUpdateWorker, RemovalWorker, FrameWorker DEF WorkerStep, Step, Remove

LEMMA UserStore ==
  ASSUME TypeOK, User
  PROVE  StoreStep /\ cache' = cache
  BY DEF User, UserEdit, UserDelete, Publish, StoreStep, TypeOK, StoreTypeOK, Configs

LEMMA StreamTypes ==
  ASSUME TypeOK
  PROVE  api.rv \in Nat /\ cache.rv \in Nat /\ \A i \in DOMAIN watch : watch[i].rv \in Nat
  <1>1. api \in Configs /\ cache \in Configs /\ \A i \in DOMAIN watch : watch[i] \in Configs
    BY DEF TypeOK, StoreTypeOK
  <1>2. \A o \in Configs : o.rv \in Nat
    BY DEF Configs
  <1> QED BY <1>1, <1>2

LEMMA NextOrder ==
  ASSUME TypeOK, IdsStay, InOrder, [Next]_vars
  PROVE  /\ InOrder'
         /\ \A o \in Stream' : o.clusterID = NoID =>
              api'.clusterID = NoID \/ \E h \in Stream : h.clusterID = NoID
  <1> DEFINE Good == /\ InOrder'
                     /\ \A o \in Stream' : o.clusterID = NoID =>
                          api'.clusterID = NoID \/ \E h \in Stream : h.clusterID = NoID
  <1>types. /\ watch \in Seq(Configs) /\ watch' \in Seq(Configs)
            /\ api.rv \in Nat /\ cache.rv \in Nat /\ \A i \in DOMAIN watch : watch[i].rv \in Nat
    BY NextTypes, StreamTypes DEF TypeOK, StoreTypeOK
  <1>1. ASSUME StoreStep, cache'.rv = cache.rv, cache'.clusterID = NoID => cache.clusterID = NoID
        PROVE  Good
    <2>1. CASE UNCHANGED <<api, watch>>
      BY <1>1, <2>1 DEF InOrder, Stream
    <2>2. CASE api'.rv = api.rv + 1 /\ watch' = Append(watch, api')
      <3>1. \A i \in DOMAIN watch' : \/ i \in DOMAIN watch /\ watch'[i] = watch[i]
                                     \/ watch'[i] = api' /\ \A j \in DOMAIN watch : j < i
        BY <1>types, <2>2
      <3>2. \A i, j \in DOMAIN watch' : i < j => i \in DOMAIN watch /\ watch'[i] = watch[i]
        BY <1>types, <2>2
      <3>3. InOrder'
        BY <1>types, <1>1, <2>2, <3>1, <3>2 DEF InOrder
      <3> QED BY <1>1, <3>1, <3>3 DEF Stream
    <2> QED BY <1>1, <2>1, <2>2 DEF StoreStep
  <1>2. CASE Restart
    BY <1>2, <1>types DEF Restart, Crash, InOrder, Stream
  <1>3. CASE Notify
    <2>1. /\ 1 \in DOMAIN watch /\ cache' = watch[1] /\ api' = api
          /\ \A i \in DOMAIN watch' :
               i + 1 \in DOMAIN watch /\ watch'[i] = watch[i + 1] /\ i \in Nat \ {0}
      BY <1>3, <1>types DEF Notify, Deliver
    <2>2. InOrder'
      BY <1>types, <2>1 DEF InOrder
    <2> QED BY <2>1, <2>2 DEF Stream
  <1>4. CASE Step
    BY <1>1, <1>4, StepStore, CacheKept
  <1>5. CASE User
    BY <1>1, <1>5, UserStore
  <1>6. CASE Cloud \/ UNCHANGED vars
    BY <1>6, <1>1 DEF Cloud, vars, storeVars, StoreStep
  <1> QED BY <1>2, <1>3, <1>4, <1>5, <1>6 DEF Next

-----------------------------------------------------------------------------
(* Phases.                                                                 *)

\* Every change of the phase is one that ConfigPhases allows.
PhaseMove ==
  \/ api.phase = NotCreated /\ api'.phase = "importing" /\ api.imported
  \/ /\ api.phase = NotCreated /\ api'.phase = "creating" /\ ~api.imported
     /\ api.clusterID # NoID /\ Current(cache)
  \/ /\ api.phase \in {"importing", "creating", "updating"} /\ api'.phase = "active"
     /\ api.clusterID # NoID
  \/ api.phase = "active" /\ api'.phase = "updating"

LEMMA StepPhases ==
  ASSUME TypeOK, VersionsAgree, IdsStay, PhasesForward, Step, api'.phase # api.phase
  PROVE  PhaseMove
  <1>phases. api.phase \in Phases
    BY DEF TypeOK, StoreTypeOK, Configs
  <1>current. Current(cfg) => Agree(cfg, api)
    BY HeldBehind, FieldsOf DEF Current, NotAhead, TypeOK, StoreTypeOK, HandlerTypeOK
  <1>1. CASE pc = "create" /\ cfg.imported /\ Current(cfg) /\ api'.phase = "importing"
    BY <1>1, <1>current DEF PhasesForward, Agree, PhaseMove
  <1>2. CASE pc = "savePhase" /\ Current(cache) /\ api'.phase = "creating"
    BY <1>2 DEF PhasesForward, IdsStay, PhaseMove
  <1>3. CASE pc = "record" /\ api.phase = "active" /\ api'.phase = "updating"
    BY <1>3 DEF PhaseMove
  <1>4. CASE pc = "wait" /\ Current(cfg) /\ cfg.clusterID # NoID /\ api'.phase = "active"
    BY <1>4, <1>phases, <1>current DEF PhasesForward, Agree, PhaseMove, Phases
  <1>5. CASE pc = "importActive" /\ Current(cfg) /\ api'.phase = "active"
    BY <1>5, <1>phases, <1>current
       DEF PhasesForward, IdsStay, ImportPCs, Agree, PhaseMove, Phases
  <1>6. CASE pc \in UpdatePCs /\ Current(cfg) /\ api'.phase \in RunningPhases
    <2>1. api.phase \in RunningPhases /\ api.clusterID # NoID
      BY <1>6, <1>current DEF PhasesForward, IdsStay, Agree
    <2> QED BY <1>6, <2>1 DEF PhaseMove, RunningPhases
  <1> QED BY <1>1, <1>2, <1>3, <1>4, <1>5, <1>6, StepWrites DEF PhaseKept, RunningPhases

\* So phases go forward.
LEMMA Forward ==
  ASSUME TypeOK, VersionsAgree, IdsStay, PhasesForward, [Next]_vars
  PROVE  /\ api.phase # NotCreated => api'.phase # NotCreated
         /\ api.phase \in RunningPhases => api'.phase \in RunningPhases
  BY StepPhases, EnvironmentKeeps DEF PhaseMove, RunningPhases, NotCreated

LEMMA NextForward ==
  ASSUME TypeOK, VersionsAgree, IdsStay, CreatingHasCluster, ForeignStays, GuardsStay, GuardsStay',
         InOrder, PhasesForward, [Next]_vars
  PROVE  PhasesForward'
  <1>imported. api'.imported = api.imported
    BY StepWrites, EnvironmentKeeps DEF SpecKept
  <1>id. api'.phase # NotCreated /\ ~api'.imported => api'.clusterID # NoID
    <2>1. CreatingHasCluster' /\ api' \in Configs
      BY NextIds, NextTypes DEF TypeOK, StoreTypeOK
    <2> QED BY <2>1 DEF CreatingHasCluster, GuardsStay, Configs, Phases, NotCreated
  <1>1. \A o \in Held' : /\ o.phase # NotCreated => api'.phase # NotCreated
                         /\ o.phase \in RunningPhases => api'.phase \in RunningPhases
    <2>1. \A h \in Held \cup {api', Empty} : /\ h.phase # NotCreated => api'.phase # NotCreated
                                             /\ h.phase \in RunningPhases => api'.phase \in RunningPhases
      <3>1. Empty.phase = NotCreated /\ NotCreated \notin RunningPhases
        BY DEF Empty, RunningPhases, NotCreated
      <3>2. /\ api.phase # NotCreated => api'.phase # NotCreated
            /\ api.phase \in RunningPhases => api'.phase \in RunningPhases
        BY Forward
      <3> QED BY <3>1, <3>2 DEF PhasesForward
    <2> QED BY <2>1, NextHeld DEF SameVersion, Agree
  <1>2. ~api'.imported /\ api'.phase # NotCreated => \A o \in Stream' : o.clusterID # NoID
    <2> SUFFICES ASSUME ~api'.imported, api'.phase # NotCreated
                 PROVE  \A h \in Stream : h.clusterID # NoID
      BY <1>id, NextOrder
    <2>1. CASE api.phase # NotCreated
      BY <1>imported, <2>1 DEF PhasesForward
    <2>2. CASE api.phase = NotCreated
      <3>1. Step
        BY <2>2, EnvironmentKeeps
      <3>2. Current(cache) /\ api.clusterID # NoID
        BY <1>imported, <2>2, <3>1, StepPhases DEF PhaseMove, NotCreated
      <3>3. Stream = {cache}
        <4>1. DOMAIN watch = {}
          <5>1. cache.rv = api.rv
            BY <3>2 DEF Current
          <5>2. \A i \in DOMAIN watch : FALSE
            BY <5>1, StreamTypes DEF InOrder
          <5> QED BY <5>2
        <4> QED BY <4>1 DEF Stream
      <3>4. cache.clusterID = api.clusterID
        BY <3>2, HeldBehind, FieldsOf DEF Current, NotAhead, Agree, TypeOK, StoreTypeOK
      <3> QED BY <3>2, <3>3, <3>4
    <2> QED BY <2>1, <2>2
  <1>3. CASE ~Step
    <2>1. /\ api'.phase = api.phase
          /\ pc' = "idle" \/ UNCHANGED <<pc, cfg, newID, read>>
      BY <1>3, EnvironmentKeeps
    <2> QED BY <1>1, <1>2, <1>imported, <2>1 DEF PhasesForward, ImportPCs, UpdatePCs
  <1>4. CASE Step
    <2>moves. WorkerMoves
      BY <1>4, StepMoves
    <2>same. pc \in {"idle", "saveID"} \/ (pc = "create" /\ ~cfg.imported) => api'.phase = api.phase
      BY <1>4, StepWrites DEF PhaseKept, UpdatePCs
    <2>new. /\ pc = "idle" /\ cache.there /\ ~cache.imported /\ cache.clusterID = NoID
                 => api.phase = NotCreated
            /\ pc = "create" => cfg.imported = api.imported
      BY DEF PhasesForward, ForeignStays, Held, Stream
    <2>1. pc' = "create" => /\ cfg'.phase = NotCreated
                            /\ ~cfg'.imported /\ cfg'.clusterID = NoID => api'.phase = NotCreated
      BY <2>moves, <2>same, <2>new DEF WorkerMoves
    <2>2. pc' \in {"saveID", "savePhase"} => api'.phase = NotCreated /\ ~api'.imported
      BY <1>imported, <2>moves, <2>same, <2>new DEF WorkerMoves, PhasesForward
    <2>3. pc' \in {"wait", "import"} \cup ImportPCs => api'.phase # NotCreated
      BY <2>moves, Forward DEF WorkerMoves, PhasesForward, Held
    <2>4. pc' \in UpdatePCs => api'.phase \in RunningPhases
      <3>1. api.phase \in RunningPhases \/ pc' \notin UpdatePCs
        BY <2>moves DEF WorkerMoves, PhasesForward, Held, RunningPhases
      <3> QED BY <3>1, Forward
    <2> QED BY <1>1, <1>2, <2>1, <2>2, <2>3, <2>4 DEF PhasesForward
  <1> QED BY <1>3, <1>4

LEMMA InitResource == Init => api.phase = NotCreated /\ api.there /\ api.rv = 1
  <1> SUFFICES ASSUME Init PROVE api.phase = NotCreated /\ api.there /\ api.rv = 1
    OBVIOUS
  <1>1. PICK kind \in Kinds : api \in NewResource(kind)
    BY DEF Init
  <1>2. PICK v \in BOOLEAN, r \in {"nil", "new"} : api = Resource(kind, v, r)
    BY <1>1 DEF NewResource
  <1> QED BY <1>2 DEF Resource, Empty

LEMMA InitForward == Init => InOrder /\ PhasesForward
  <1> SUFFICES ASSUME Init PROVE InOrder /\ PhasesForward
    OBVIOUS
  <1>1. DOMAIN watch = {} /\ cache = api /\ Held = {api, Empty}
    BY DEF Init, Held
  <1>2. pc = "idle" /\ Empty.phase = NotCreated
    BY DEF Init, Empty
  <1>3. InOrder
    BY <1>1, InitResource DEF InOrder
  <1>4. NotCreated \notin RunningPhases
    BY DEF RunningPhases, NotCreated
  <1> QED BY <1>1, <1>2, <1>3, <1>4, InitResource DEF PhasesForward, ImportPCs, UpdatePCs

-----------------------------------------------------------------------------
(* What the reconcile relies on.                                           *)

\* Once the phase is written, all versions name the cluster the stored one names.
IDFixed == \A o \in Held : o.phase # NotCreated => o.clusterID = api.clusterID

\* Before a resource settles nothing is at work on its cluster, once it has settled
\* its cluster was running, and a reconcile that found nothing under way can rely
\* on it: what begins afterwards is its own doing, and it begins anew.
WorkStays ==
  /\ api.imported => api.clusterID \in {NoID, Existing}
  /\ api.phase \notin RunningPhases => /\ \A id \in IDs : clusters[id] # "upgrading"
                                       /\ nodePools \in {"none", "normal"}
                                       /\ api.clusterID # Existing => nodePools = "none"
  /\ api.phase \in RunningPhases => clusters[api.clusterID] \notin {"none", "creating", "abnormal"}
  /\ pc = "wait" => cfg.phase = "creating"
  /\ pc \in {"import"} \cup ImportPCs => cfg.phase = "importing"
  /\ pc \in UpdatePCs => cfg.phase \in RunningPhases
  /\ pc = "readStatus" /\ "busy" \notin read => nodePools \notin {"busy", "deleting"}
  /\ pc \in SettledPCs => /\ clusters[cfg.clusterID] \notin {"upgrading", "abnormal"}
                          /\ nodePools \notin {"busy", "deleting"}

\* Only a creation, and only of a resource in its first phase, gives it an id.
LEMMA IDMoves ==
  ASSUME TypeOK, VersionsAgree, ForeignStays, PhasesForward, [Next]_vars
  PROVE  \/ api'.clusterID = api.clusterID
         \/ /\ Step /\ pc = "saveID" /\ api.phase = NotCreated /\ ~api.imported
            /\ api.clusterID # Existing
  BY StepWrites, EnvironmentKeeps DEF SpecKept, PhasesForward, ForeignStays

LEMMA NextIDFixed ==
  ASSUME TypeOK, VersionsAgree, ForeignStays, PhasesForward, IDFixed, [Next]_vars
  PROVE  IDFixed'
  <1>1. \A h \in Held \cup {api', Empty} : h.phase # NotCreated => h.clusterID = api'.clusterID
    <2>1. Empty.phase = NotCreated
      BY DEF Empty
    <2> QED BY <2>1, IDMoves DEF IDFixed, PhasesForward
  <1> QED BY <1>1, NextHeld DEF IDFixed, SameVersion, Agree

\* While a reconcile is going on, it means the cluster the resource names.
LEMMA ReconciledCluster ==
  ASSUME TypeOK, CreatingHasCluster, PhasesForward, IDFixed, WorkStays, pc \in UpdatePCs
  PROVE  api.phase \in RunningPhases /\ cfg.clusterID = api.clusterID /\ api.clusterID \in IDs
  <1>1. cfg.phase \in RunningPhases /\ api.phase \in RunningPhases /\ cfg \in Held
    BY DEF WorkStays, PhasesForward, Held
  <1>2. api.clusterID \in IDs
    BY <1>1, FieldsOf DEF CreatingHasCluster, RunningPhases, TypeOK, StoreTypeOK
  <1> QED BY <1>1, <1>2 DEF IDFixed, RunningPhases, NotCreated

LEMMA NextIdle ==
  ASSUME TypeOK, VersionsAgree, IdsStay, ForeignStays, GuardsStay, PhasesForward, IDFixed,
         WorkStays, [Next]_vars, api'.phase \notin RunningPhases
  PROVE  /\ \A id \in IDs : clusters'[id] # "upgrading"
         /\ nodePools' \in {"none", "normal"}
         /\ api'.clusterID # Existing => nodePools' = "none"
  <1>phase. api.phase \notin RunningPhases /\ pc \notin UpdatePCs
    BY Forward DEF PhasesForward
  <1>id. api'.clusterID # Existing => api.clusterID # Existing
    BY IDMoves
  <1>1. CASE ~Step
    BY <1>1, <1>phase, <1>id, EnvironmentCloud DEF CloudGoesOn, WorkStays
  <1>2. CASE Step
    <2>1. CloudMoves /\ pc \notin {"sync", "modify"}
      BY <1>2, <1>phase, StepCloud DEF UpdatePCs
    <2>2. nodePools' = nodePools
      <3> SUFFICES ASSUME pc = "removePools", nodePools # "none" PROVE FALSE
        BY <2>1 DEF CloudMoves
      <3>1. cfg.phase # NotCreated /\ cfg.clusterID # Existing
        BY DEF GuardsStay, DeletePCs, KeepsCluster, ForeignStays
      <3>2. api.clusterID # Existing
        BY <3>1 DEF IDFixed, Held
      <3> QED BY <3>2, <1>phase DEF WorkStays
    <2> QED BY <1>phase, <1>id, <2>1, <2>2 DEF CloudMoves, WorkStays
  <1> QED BY <1>1, <1>2

LEMMA NextRunning ==
  ASSUME TypeOK, VersionsAgree, IdsStay, CreatingHasCluster, ForeignStays, ForeignClusterUntouched,
         GuardsStay, PhasesForward, IDFixed, WorkStays, [Next]_vars, api'.phase \in RunningPhases
  PROVE  clusters'[api'.clusterID] \notin {"none", "creating", "abnormal"}
  <1>1. CASE api.phase \in RunningPhases
    <2>1. api.clusterID \in IDs
      BY <1>1, FieldsOf DEF CreatingHasCluster, RunningPhases, TypeOK, StoreTypeOK
    <2>2. api'.clusterID = api.clusterID
      BY <1>1, IDMoves DEF RunningPhases, NotCreated
    <2>3. clusters[api.clusterID] \notin {"none", "creating", "abnormal"}
      BY <1>1 DEF WorkStays
    <2>4. CASE Step
      BY <2>1, <2>2, <2>3, <2>4, StepCloud DEF CloudMoves
    <2>5. CASE ~Step
      BY <2>1, <2>2, <2>3, <2>5, EnvironmentCloud DEF CloudGoesOn
    <2> QED BY <2>4, <2>5
  <1>2. CASE api.phase \notin RunningPhases
    <2>1. Step
      BY <1>2, EnvironmentKeeps
    <2>2. Current(cfg) => Agree(cfg, api)
      BY HeldBehind, FieldsOf DEF Current, NotAhead, TypeOK, StoreTypeOK, HandlerTypeOK
    <2>3. pc \in {"wait", "importActive"} /\ PhaseKept /\ Agree(cfg, api)
      <3>1. pc \notin UpdatePCs
        BY <1>2 DEF PhasesForward
      <3> QED BY <1>2, <2>1, <2>2, <3>1, StepWrites DEF PhaseKept, RunningPhases
    <2>4. clusters' = clusters /\ api'.clusterID = api.clusterID
      BY <2>1, <2>3, StepCloud, IDMoves DEF CloudMoves
    <2>5. cfg.clusterID = api.clusterID
      BY <2>3 DEF Agree
    <2>6. CASE pc = "wait"
      BY <1>2, <2>3, <2>4, <2>5, <2>6 DEF PhaseKept, RunningPhases
    <2>7. CASE pc = "importActive"
      <3>1. api.phase = "importing" /\ api.clusterID # NoID
        BY <2>3, <2>5, <2>7 DEF WorkStays, ImportPCs, Agree, IdsStay
      <3>2. api.clusterID = Existing
        BY <3>1 DEF GuardsStay, WorkStays
      <3> QED BY <2>4, <3>2 DEF ForeignClusterUntouched
    <2> QED BY <2>3, <2>6, <2>7
  <1> QED BY <1>1, <1>2

LEMMA NextSettled ==
  ASSUME TypeOK, VersionsAgree, CreatingHasCluster, PhasesForward, IDFixed, WorkStays,
         [Next]_vars, pc' \in SettledPCs
  PROVE  /\ clusters'[cfg'.clusterID] \notin {"upgrading", "abnormal"}
         /\ nodePools' \notin {"busy", "deleting"}
  <1>1. CASE Step
    <2>1. CloudMoves /\ cfg' = cfg /\ pc \in SettledPCs \cup {"readStatus"}
      BY <1>1, StepCloud DEF CloudMoves
    <2>2. /\ clusters[cfg.clusterID] \notin {"upgrading", "abnormal"}
          /\ nodePools \notin {"busy", "deleting"}
      <3>1. CASE pc \in SettledPCs
        BY <3>1 DEF WorkStays
      <3>2. CASE pc = "readStatus"
        <4>1. "busy" \notin read /\ clusters[cfg.clusterID] # "upgrading"
          BY <2>1, <3>2 DEF CloudMoves, SettledPCs
        <4>2. clusters[cfg.clusterID] # "abnormal"
          BY <3>2, ReconciledCluster DEF UpdatePCs, WorkStays
        <4> QED BY <3>2, <4>1, <4>2 DEF WorkStays
      <3> QED BY <2>1, <3>1, <3>2
    <2>3. clusters' = clusters /\ nodePools' = nodePools
      BY <2>1 DEF CloudMoves, SettledPCs, NextPassPCs
    <2> QED BY <2>1, <2>2, <2>3
  <1>2. CASE ~Step
    <2>1. CloudGoesOn /\ UNCHANGED <<pc, cfg>>
      BY <1>2, EnvironmentCloud, EnvironmentKeeps DEF SettledPCs
    <2>2. /\ api.phase \in RunningPhases /\ cfg.clusterID = api.clusterID /\ api.clusterID \in IDs
      BY <2>1, ReconciledCluster DEF SettledPCs, UpdatePCs
    <2>3. /\ clusters[cfg.clusterID] \notin {"upgrading", "abnormal", "creating"}
          /\ nodePools \notin {"busy", "deleting"}
      BY <2>1, <2>2 DEF WorkStays
    <2> QED BY <2>1, <2>2, <2>3 DEF CloudGoesOn
  <1> QED BY <1>1, <1>2

LEMMA NextWork ==
  ASSUME TypeOK, VersionsAgree, IdsStay, CreatingHasCluster, ForeignStays, ForeignClusterUntouched,
         GuardsStay, PhasesForward, IDFixed, WorkStays, [Next]_vars
  PROVE  WorkStays'
  <1>1. api'.imported => api'.clusterID \in {NoID, Existing}
    <2>1. api'.imported = api.imported
      BY StepWrites, EnvironmentKeeps DEF SpecKept
    <2> QED BY <2>1, IDMoves DEF WorkStays
  <1>2. /\ pc' = "wait" => cfg'.phase = "creating"
        /\ pc' \in {"import"} \cup ImportPCs => cfg'.phase = "importing"
        /\ pc' \in UpdatePCs => cfg'.phase \in RunningPhases
    <2>1. CASE ~Step
      BY <2>1, EnvironmentKeeps DEF WorkStays, ImportPCs, UpdatePCs
    <2>2. CASE Step
      <3>1. WorkerMoves
        BY <2>2, StepMoves
      <3>2. pc' = "wait" => cfg'.phase = "creating"
        BY <3>1 DEF WorkerMoves
      <3>3. pc' \in {"import"} \cup ImportPCs => cfg'.phase = "importing"
        BY <3>1 DEF WorkerMoves, WorkStays
      <3>4. pc' \in UpdatePCs => cfg'.phase \in RunningPhases
        BY <3>1 DEF WorkerMoves, WorkStays, PhasesForward, RunningPhases
      <3> QED BY <3>2, <3>3, <3>4
    <2> QED BY <2>1, <2>2
  <1>3. pc' = "readStatus" /\ "busy" \notin read' => nodePools' \notin {"busy", "deleting"}
    <2>1. CASE ~Step
      BY <2>1, EnvironmentKeeps, EnvironmentCloud DEF WorkStays, CloudGoesOn
    <2>2. CASE Step /\ pc' = "readStatus"
      BY <2>2, StepCloud, StepMoves DEF CloudMoves, WorkerMoves, NextPassPCs, UpdatePCs
    <2> QED BY <2>1, <2>2
  <1> QED BY <1>1, <1>2, <1>3, NextIdle, NextRunning, NextSettled DEF WorkStays

LEMMA InitWork == Init => IDFixed /\ WorkStays
  <1> SUFFICES ASSUME Init PROVE IDFixed /\ WorkStays
    OBVIOUS
  <1>1. PICK kind \in Kinds : api \in NewResource(kind)
    BY DEF Init
  <1>2. PICK v \in BOOLEAN, r \in {"nil", "new"} : api = Resource(kind, v, r)
    BY <1>1 DEF NewResource
  <1>3. api.clusterID = IF kind \in {"create", "noID"} THEN NoID ELSE Existing
    BY <1>2 DEF Resource, Empty
  <1>4. Held = {api, Empty} /\ pc = "idle"
    BY DEF Init, Held
  <1>7. api.phase = NotCreated /\ Empty.phase = NotCreated /\ NotCreated \notin RunningPhases
    BY InitResource DEF Empty, RunningPhases, NotCreated
  <1>5. \A id \in IDs : clusters[id] # "upgrading"
    BY DEF Init
  <1>6. nodePools \in {"none", "normal"} /\ (api.clusterID # Existing => nodePools = "none")
    BY DEF Init
  <1> QED BY <1>3, <1>4, <1>5, <1>6, <1>7
          DEF IDFixed, WorkStays, ImportPCs, UpdatePCs, SettledPCs

\* All that is known of a reachable state besides its types and versions.
LifecycleInv ==
  /\ IdsStay /\ CreatingHasCluster /\ ForeignStays /\ ForeignClusterUntouched
  /\ IdsKnown /\ GuardsStay /\ InOrder /\ PhasesForward /\ IDFixed /\ WorkStays

LEMMA LifecycleInvariant == Spec => [](TypeOK /\ VersionsAgree /\ LifecycleInv)
  <1>1. Init => LifecycleInv
    BY InitIds, InitForeign, InitGuards, InitForward, InitWork DEF LifecycleInv
  <1>2. TypeOK /\ VersionsAgree /\ LifecycleInv /\ [Next]_vars => LifecycleInv'
    <2> SUFFICES ASSUME TypeOK, VersionsAgree, LifecycleInv, [Next]_vars PROVE LifecycleInv'
      OBVIOUS
    <2> USE DEF LifecycleInv
    <2>1. IdsStay' /\ CreatingHasCluster' /\ ForeignStays' /\ ForeignClusterUntouched'
      BY NextIds, NextForeign, NextForeignCluster
    <2>2. IdsKnown' /\ GuardsStay'
      BY NextKnown, NextGuards
    <2>3. InOrder' /\ PhasesForward'
      BY <2>2, NextOrder, NextForward
    <2>4. IDFixed' /\ WorkStays'
      BY NextIDFixed, NextWork
    <2> QED BY <2>1, <2>2, <2>3, <2>4
  <1> QED BY <1>1, <1>2, TypeCorrect, VersionsAlwaysAgree, PTL DEF Spec

\* The upgrade of the nodes is started only while no upgrade of the control plane
\* is going on, also by a worker that began from an old object or was overtaken by
\* edits: control plane first, nodes second (lines 581-583).
THEOREM NodesAlwaysUpgradeAfterControlPlane == Spec => NodesUpgradeAfterControlPlane
  <1>1. TypeOK /\ LifecycleInv /\ [Next]_vars =>
          [nodes # "upgrading" /\ nodes' = "upgrading" => clusters[api.clusterID] # "upgrading"]_vars
    <2> SUFFICES ASSUME TypeOK, LifecycleInv, [Next]_vars, nodes # "upgrading", nodes' = "upgrading"
                 PROVE  clusters[api.clusterID] # "upgrading"
      OBVIOUS
    <2>1. pc = "nodeTrigger"
      BY StepCloud, EnvironmentCloud DEF CloudMoves, CloudGoesOn
    <2>2. cfg.clusterID = api.clusterID
      BY <2>1, ReconciledCluster DEF LifecycleInv, UpdatePCs
    <2> QED BY <2>1, <2>2 DEF LifecycleInv, WorkStays, SettledPCs
  <1> QED BY <1>1, LifecycleInvariant, PTL DEF Spec, NodesUpgradeAfterControlPlane

\* A resource is called active only when its cluster is well and in no upgrade and
\* its node pools are in no change, whichever handler writes the phase and
\* whatever it knew of the cloud when it began (lines 437-451, 337-341, 483-562, 960-968).
THEOREM AlwaysSettledBeforeActive == Spec => SettledBeforeActive
  <1>1. TypeOK /\ VersionsAgree /\ LifecycleInv /\ [Next]_vars =>
          [api.phase # "active" /\ api'.phase = "active"
             => /\ clusters[api.clusterID] \notin {"upgrading", "abnormal"}
                /\ nodePools \notin {"busy", "deleting"}]_vars
    <2> SUFFICES ASSUME TypeOK, VersionsAgree, LifecycleInv, [Next]_vars,
                        api.phase # "active", api'.phase = "active"
                 PROVE  /\ clusters[api.clusterID] \notin {"upgrading", "abnormal"}
                        /\ nodePools \notin {"busy", "deleting"}
      OBVIOUS
    <2> USE DEF LifecycleInv
    <2>1. Step
      BY EnvironmentKeeps
    <2>2. Current(cfg) => Agree(cfg, api)
      BY HeldBehind, FieldsOf DEF Current, NotAhead, TypeOK, StoreTypeOK, HandlerTypeOK
    <2>3. /\ pc \in {"wait", "importActive"} \cup SettledPCs
          /\ pc = "wait" => clusters[cfg.clusterID] \in {"running", "upgrading"}
          /\ cfg.clusterID = api.clusterID /\ cfg.phase = api.phase
      BY <2>1, <2>2, StepWrites DEF PhaseKept, Agree
    <2>4. CASE pc \in SettledPCs
      BY <2>3, <2>4 DEF WorkStays
    <2>5. CASE pc \in {"wait", "importActive"}
      <3>1. api.phase \in {"creating", "importing"} /\ api.clusterID # NoID
        BY <2>3, <2>5 DEF WorkStays, ImportPCs, CreatingHasCluster, IdsStay
      <3>2. api.clusterID \in IDs
        BY <3>1, FieldsOf DEF TypeOK, StoreTypeOK
      <3>3. clusters[api.clusterID] # "upgrading" /\ nodePools \notin {"busy", "deleting"}
        BY <3>1, <3>2 DEF WorkStays, RunningPhases
      <3>4. clusters[api.clusterID] # "abnormal"
        <4>1. CASE pc = "wait"
          BY <2>3, <4>1
        <4>2. CASE pc = "importActive"
          <5>1. api.phase = "importing"
            BY <2>3, <4>2 DEF WorkStays, ImportPCs
          <5>2. api.clusterID = Existing
            BY <3>1, <5>1 DEF WorkStays, GuardsStay
          <5> QED BY <5>2 DEF ForeignClusterUntouched
        <4> QED BY <2>5, <4>1, <4>2
      <3> QED BY <3>3, <3>4
    <2> QED BY <2>3, <2>4, <2>5
  <1> QED BY <1>1, LifecycleInvariant, PTL DEF Spec, SettledBeforeActive

-----------------------------------------------------------------------------
(* The implementation.                                                     *)

LEMMA InitPromise == Init => Promise!Init
  <1> SUFFICES ASSUME Init PROVE Promise!Init
    OBVIOUS
  <1>1. api \in Configs
    BY InitTypes DEF TypeOK, StoreTypeOK
  <1>2. api.phase = "" /\ api.there
    BY InitResource DEF NotCreated
  <1> QED BY <1>1, <1>2 DEF Promise!Init, Configs

\* The resource is gone for good, goes with all else as it was, or stays.
LEMMA ThereMoves ==
  ASSUME TypeOK, VersionsAgree, GuardsStay, [Next]_vars
  PROVE  \/ api' = api
         \/ /\ api.there /\ ~api'.there
            /\ api'.phase = api.phase /\ api'.clusterID = api.clusterID
         \/ api.there /\ api'.there
  <1>guarded. Guarded
    BY DEF GuardsStay
  <1>1. CASE DropFinalizer
    BY <1>1, DropWrites DEF TypeOK, StoreTypeOK, Configs
  <1>2. CASE Step /\ ~DropFinalizer
    BY <1>2, <1>guarded, ProvisionFlags, CheckUpdateFlags, RemovalFlags, FrameFlags
       DEF Step, Remove, FlagsKept
  <1>3. CASE User
    <2>1. api.there
      BY <1>3 DEF User, UserEdit, UserDelete
    <2>2. ~Step => api'.phase = api.phase /\ api'.clusterID = api.clusterID
      BY EnvironmentKeeps
    <2> QED BY <1>2, <1>1, <2>1, <2>2
  <1>4. CASE Restart \/ Notify \/ Cloud \/ UNCHANGED vars
    BY <1>4 DEF Restart, Crash, Notify, Deliver, Cloud, vars, storeVars
  <1> QED BY <1>1, <1>2, <1>3, <1>4 DEF Next

LEMMA NextPromise ==
  ASSUME TypeOK, VersionsAgree, IdsStay, GuardsStay, PhasesForward, [Next]_vars
  PROVE  [Promise!Next]_(Promise!vars)
  <1> USE DEF Promise!Next, Promise!vars
  <1>imported. api'.imported = api.imported
    BY StepWrites, EnvironmentKeeps DEF SpecKept
  <1>there. api.there \in BOOLEAN /\ api'.there \in BOOLEAN
    BY NextTypes DEF TypeOK, StoreTypeOK, Configs
  <1>1. CASE api' = api
    BY <1>1
  <1>2. CASE /\ api.there /\ ~api'.there
             /\ api'.phase = api.phase /\ api'.clusterID = api.clusterID
    BY <1>2, <1>imported, <1>there DEF Promise!Disappear
  <1>3. CASE api.there /\ api'.there /\ api'.phase # api.phase
    <2>1. PhaseMove /\ api'.clusterID = api.clusterID
      <3>1. Step
        BY <1>3, EnvironmentKeeps
      <3>2. pc # "saveID"
        BY <1>3, <3>1, StepWrites DEF PhaseKept, UpdatePCs
      <3> QED BY <1>3, <3>1, <3>2, StepPhases, StepWrites DEF SpecKept
    <2> QED BY <1>3, <1>imported, <1>there, <2>1
            DEF PhaseMove, NotCreated, Promise!StartImport, Promise!StartCreation,
                Promise!Activate, Promise!StartUpdate, Promise!Leave
  <1>4. CASE api.there /\ api'.there /\ api'.phase = api.phase
    <2>1. CASE api'.clusterID = api.clusterID
      BY <1>4, <1>imported, <1>there, <2>1
    <2>2. CASE api'.clusterID # api.clusterID
      <3>1. Step /\ pc = "saveID" /\ api'.clusterID = newID
        BY <2>2, StepWrites, EnvironmentKeeps DEF SpecKept
      <3>2. newID \in IDs
        BY <3>1 DEF IdsStay, TypeOK, HandlerTypeOK, IDs
      <3> QED BY <1>4, <1>imported, <1>there, <3>1, <3>2
              DEF Promise!Assign, PhasesForward, NotCreated
    <2> QED BY <2>1, <2>2
  <1> QED BY <1>1, <1>2, <1>3, <1>4, ThereMoves

\* What the resource shows follows ConfigPhases: phases come in their order, an id
\* once told is never replaced, also when a worker began from an old object,
\* and an import never turns into a creation (lines 94-106 and every write of
\* status.phase).
THEOREM LifecycleKeepsPromise == Spec => PromiseKept
  <1>1. TypeOK /\ VersionsAgree /\ LifecycleInv /\ [Next]_vars => [Promise!Next]_(Promise!vars)
    BY NextPromise DEF LifecycleInv
  <1> QED BY <1>1, InitPromise, LifecycleInvariant, PTL DEF Spec, PromiseKept, Promise!Spec

-----------------------------------------------------------------------------
(* At rest.                                                                *)

RemovePCs == {"remove", "dropFinalizer"} \cup DeletePCs
LastPCs == {"record", "addFinalizer", "end"}
HandlerPCs == PCs \ ({"idle"} \cup LastPCs)

\* A handler has an object that is there, and the last version is in the cache or on
\* its way to it.
WorkerHas == pc \in HandlerPCs => cfg.there
Same(o) == o.there /\ o.rv = api.rv
Latest == api.there => Same(IF watch = <<>> THEN cache ELSE watch[Len(watch)])

\* The rows of an object of the stored version are the stored ones, or what a handler
\* put in their place.
RowsSeen ==
  \A o \in Held : Same(o) => o.rows \in {api.rows, "known"} \/ (api.imported /\ o.rows = "nil")

\* Only the resource's own cluster is upgraded.
OnlyOwn == \A id \in IDs : clusters[id] = "upgrading" => id = api.clusterID

\* No other pass over the resource is asked for.
Calm == ~queued /\ watch = <<>> /\ api.there

\* Then the worker has the stored version, what it found is so, and when it goes to
\* rest all is done.
SameObjects == pc # "idle" => Same(seen) /\ (cfg.there => Same(cfg))
RightHandler ==
  pc \in HandlerPCs \cup {"record", "addFinalizer"} => (api.deleting <=> pc \in RemovePCs)
CallsFollow ==
  /\ pc = "saveID" => cfg.clusterID = NoID
  /\ pc # "savePhase"
  /\ pc \in {"enqueueGet", "enqueuePut"} => cfg.phase = "active"
  /\ pc = "saveRows" => api.rows = "new" /\ cfg.rows = "known"
  /\ pc \in {"readPools", "readStatus"} \cup SettledPCs => cfg.valid
  /\ pc \in {"modify", "endpoint", "finish"} => nodes = "current"
  /\ pc = "finish" => cfg.imported \/ (endpoint = "Created" /\ secret)
EndsDone ==
  pc \in LastPCs /\ err = "none" =>
    /\ Done /\ ~api.deleting
    /\ pc = "record" => cfg.there
    /\ pc # "record" => api.msg = "none" \/ faults < MaxFaults
    /\ pc = "end" => api.finalizer
Rested == pc = "idle" => /\ Done /\ ~api.deleting /\ api.finalizer
                         /\ api.msg = "none" \/ faults < MaxFaults
Followed == SameObjects /\ RightHandler /\ CallsFollow /\ EndsDone /\ Rested

RestInv == WorkerHas /\ Latest /\ RowsSeen /\ OnlyOwn /\ (Calm => Followed)

\* The cached object changes in its rows only, in the hands of the worker.
LEMMA StepCache ==
  ASSUME Step
  PROVE  \/ cache' = cache
         \/ /\ pc = "import" /\ cache.rv = cfg.rv /\ cache' = Aligned /\ seen' = Aligned
            /\ cfg' = Aligned /\ UNCHANGED <<api, watch>>
         \/ /\ pc = "modify" /\ cache.rv = cfg.rv /\ cache' = [cfg EXCEPT !.rows = "known"]
            /\ seen' = cache' /\ cfg' = cache' /\ UNCHANGED <<api, watch>>
  <1>1. CASE ProvisionNext
    BY <1>1 DEF ProvisionNext, StartImport, CreateRefused, CreateSkipped, CreateFails,
       CreateSucceeds, SaveID, SavePhase, WaitFails, WaitAbnormal, CreationComplete, KeepWaiting,
       ImportRefused, ImportReadFails, ImportRead, ImportSave, ImportSecret, ImportActive,
       storeVars
  <1>2. CASE CheckUpdateNext
    BY <1>2, ModifyPCs
    DEF CheckUpdateNext, UpdateRefused, UpdateReadFails, AwaitCluster, AwaitPools, GetCluster,
        GetNodePools, GetStatus, GetVirtualNodePools, SyncFails, SyncVersion, AwaitNodeUpgrade,
        NoNodeUpgrade, CheckNodes, TriggerNodeUpgrade, Proceed, SyncModify, EnqueueGet,
        EnqueuePut, FinishWithoutPools, CreateRows, SaveRows, SyncDone, EndpointMissing,
        EndpointCreating, EndpointCreated, EndpointFails, Finish, storeVars
  <1>3. CASE RemovalNext
    BY <1>3 DEF RemovalNext, RemoveNothing, RemoveReadFails, RemoveAlreadyGone, RemoveFound,
       CheckNodePools, CheckVirtualNodePools, ProtectionUnknown, ProtectionChecked,
       ReportProtection, NodePoolsDeleted, DeleteNodePools, VirtualNodePoolsDeleted,
       DeleteVirtualNodePools, RemoveCluster, RemoveClusterRefused, RemovalCallFails,
       DropFinalizer, storeVars
  <1>4. CASE Frame
    BY <1>4 DEF Frame, Begin, RecordError, AddFinalizer, End
  <1> QED BY <1>1, <1>2, <1>3, <1>4 DEF Step, Remove

\* The worker's objects are those it had, the stored one, nothing, or those two.
LEMMA StepObjects ==
  ASSUME Step
  PROVE  \/ {seen', cfg'} \subseteq {cache, seen, cfg, api', Empty}
         \/ pc = "import" /\ {seen', cfg'} = {Aligned} /\ UNCHANGED api
         \/ pc = "modify" /\ {seen', cfg'} = {[cfg EXCEPT !.rows = "known"]} /\ UNCHANGED api
  <1> USE DEF Return, Continue, ReturnUpdateStatus, ReturnUpdateStatusAndRequeue
  <1>1. CASE ProvisionNext
    <2> USE DEF Again
    <2>1. CASE ImportRead
      BY <2>1 DEF ImportRead
    <2>2. CASE ImportSave \/ ImportSecret \/ ImportActive \/ ImportRefused \/ ImportReadFails
      BY <2>2 DEF ImportSave, ImportSecret, ImportActive, ImportRefused, ImportReadFails
    <2>3. CASE StartImport \/ CreateRefused \/ CreateSkipped \/ CreateFails \/ CreateSucceeds
      BY <2>3 DEF StartImport, CreateRefused, CreateSkipped, CreateFails, CreateSucceeds
    <2>4. CASE SaveID \/ SavePhase
      BY <2>4 DEF SaveID, SavePhase
    <2>5. CASE WaitFails \/ WaitAbnormal \/ CreationComplete \/ KeepWaiting
      BY <2>5 DEF WaitFails, WaitAbnormal, CreationComplete, KeepWaiting
    <2> QED BY <1>1, <2>1, <2>2, <2>3, <2>4, <2>5 DEF ProvisionNext
  <1>2. CASE CheckUpdateNext
    <2> USE DEF EnqueueUpdate
    <2>1. CASE UpdateRefused \/ UpdateReadFails \/ AwaitCluster \/ AwaitPools
      BY <2>1 DEF UpdateRefused, UpdateReadFails, AwaitCluster, AwaitPools
    <2>2. CASE SyncFails \/ SyncVersion \/ AwaitNodeUpgrade \/ SyncModify \/ SyncDone
      BY <2>2 DEF SyncFails, SyncVersion, AwaitNodeUpgrade, SyncModify, SyncDone
    <2>6. CASE \/ GetCluster \/ GetNodePools \/ GetStatus \/ GetVirtualNodePools
               \/ NoNodeUpgrade \/ CheckNodes \/ TriggerNodeUpgrade
      BY <2>6 DEF GetCluster, GetNodePools, GetStatus, GetVirtualNodePools, NoNodeUpgrade,
         CheckNodes, TriggerNodeUpgrade, Proceed
    <2>3. CASE EnqueueGet \/ EnqueuePut \/ FinishWithoutPools \/ SaveRows
      BY <2>3 DEF EnqueueGet, EnqueuePut, FinishWithoutPools, SaveRows, storeVars
    <2>4. CASE CreateRows
      BY <2>4, ModifyPCs DEF CreateRows
    <2>5. CASE EndpointMissing \/ EndpointCreating \/ EndpointCreated \/ EndpointFails \/ Finish
      BY <2>5 DEF EndpointMissing, EndpointCreating, EndpointCreated, EndpointFails, Finish
    <2> QED BY <1>2, <2>1, <2>2, <2>3, <2>4, <2>5, <2>6 DEF CheckUpdateNext
  <1>3. CASE RemovalNext
    BY <1>3 DEF RemovalNext, RemoveNothing, RemoveReadFails, RemoveAlreadyGone, RemoveFound,
       CheckNodePools, CheckVirtualNodePools, ProtectionUnknown, ProtectionChecked,
       ReportProtection, NodePoolsDeleted, DeleteNodePools, VirtualNodePoolsDeleted,
       DeleteVirtualNodePools, RemoveCluster, RemoveClusterRefused, RemovalCallFails,
       DropFinalizer, RemovalDone, RemovalFails, Proceed, Sleep
  <1>4. CASE Frame
    BY <1>4 DEF Frame, Begin, RecordError, AddFinalizer, End, Reset
  <1> QED BY <1>1, <1>2, <1>3, <1>4 DEF Step, Remove

LEMMA NextLatest ==
  ASSUME TypeOK, IdsStay, GuardsStay, VersionsAgree, WorkerHas, Latest, [Next]_vars
  PROVE  Latest'
  <1>types. watch \in Seq(Configs) /\ watch' \in Seq(Configs) /\ api' \in Configs
    BY NextTypes DEF TypeOK, StoreTypeOK
  <1> SUFFICES ASSUME api'.there
               PROVE  Same(IF watch = <<>> THEN cache ELSE watch[Len(watch)])'
    BY DEF Latest
  <1>there. api' = api \/ api.there
    BY ThereMoves
  <1>1. ASSUME StoreStep, cache'.rv = cache.rv, Same(cache) => cache'.there PROVE Latest'
    <2>1. CASE UNCHANGED <<api, watch>>
      BY <1>1, <2>1 DEF Latest, Same
    <2>2. CASE watch' = Append(watch, api')
      <3>1. watch' # <<>> /\ watch'[Len(watch')] = api'
        BY <1>types, <2>2
      <3> QED BY <3>1 DEF Latest, Same
    <2> QED BY <1>1, <2>1, <2>2 DEF StoreStep
  <1>2. CASE Step
    <2>1. Same(cache) => cache'.there
      BY <1>2, StepCache
         DEF WorkerHas, HandlerPCs, PCs, LastPCs, Aligned, Same, TypeOK, HandlerTypeOK, Configs
    <2> QED BY <1>1, <1>2, <2>1, StepStore, CacheKept DEF Latest
  <1>3. CASE Restart
    BY <1>3 DEF Restart, Crash, Same
  <1>4. CASE Notify
    <2>1. /\ watch # <<>> /\ cache' = Head(watch) /\ watch' = Tail(watch) /\ api' = api
      BY <1>4 DEF Notify, Deliver
    <2>2. CASE watch' = <<>>
      <3>1. Len(watch) = 1
        <4>1. Len(watch') = 0
          BY <2>2
        <4>2. Len(watch') = Len(watch) - 1 /\ Len(watch) \in Nat
          BY <1>types, <2>1
        <4> QED BY <4>1, <4>2
      <3>2. cache' = watch[Len(watch)]
        BY <1>types, <2>1, <3>1
      <3> QED BY <2>1, <2>2, <3>2 DEF Latest, Same
    <2>3. CASE watch' # <<>>
      <3>1. watch'[Len(watch')] = watch[Len(watch)]
        BY <1>types, <2>1, <2>3
      <3> QED BY <2>1, <2>3, <3>1 DEF Latest, Same
    <2> QED BY <2>2, <2>3
  <1>5. CASE User
    BY <1>1, <1>5, UserStore DEF Latest, Same
  <1>6. CASE Cloud \/ UNCHANGED vars
    BY <1>6 DEF Cloud, vars, storeVars, Latest, Same
  <1> QED BY <1>2, <1>3, <1>4, <1>5, <1>6 DEF Next

LEMMA NextHas ==
  ASSUME TypeOK, VersionsAgree, IdsStay, GuardsStay, WorkerHas, [Next]_vars
  PROVE  WorkerHas'
  <1> SUFFICES ASSUME pc' \in HandlerPCs PROVE cfg'.there
    BY DEF WorkerHas
  <1>guarded. Guarded
    BY DEF GuardsStay
  <1>types. cfg \in Configs /\ cache \in Configs /\ api \in Configs
    BY DEF TypeOK, StoreTypeOK, HandlerTypeOK
  <1> USE DEF HandlerPCs, LastPCs, PCs
  <1>1. CASE ~Step
    BY <1>1, EnvironmentKeeps DEF WorkerHas
  <1>2. CASE Frame
    BY <1>2 DEF Frame, Begin, RecordError, AddFinalizer, End, Reset
  <1>3. CASE RemovalNext
    <2>1. cfg' = cfg /\ pc \in {"remove", "dropFinalizer"} \cup DeletePCs
      BY <1>3 DEF RemovalNext, RemoveNothing, RemoveReadFails, RemoveAlreadyGone, RemoveFound,
         CheckNodePools, CheckVirtualNodePools, ProtectionUnknown, ProtectionChecked,
         ReportProtection, NodePoolsDeleted, DeleteNodePools, VirtualNodePoolsDeleted,
         DeleteVirtualNodePools, RemoveCluster, RemoveClusterRefused, RemovalCallFails,
         DropFinalizer, RemovalDone, RemovalFails, Proceed, Sleep, DeletePCs
    <2> QED BY <2>1 DEF WorkerHas, DeletePCs
  <1>4. CASE ProvisionNext
    <2>1. \/ cfg' \in {cfg, Aligned} /\ pc \in HandlerPCs
          \/ cfg' = cache /\ cache.there
          \/ cfg' = api' /\ api.there
      BY <1>4 DEF ProvisionNext, StartImport, CreateRefused, CreateSkipped, CreateFails,
         CreateSucceeds, SaveID, SavePhase, WaitFails, WaitAbnormal, CreationComplete,
         KeepWaiting,
         ImportRefused, ImportReadFails, ImportRead, ImportSave, ImportSecret, ImportActive,
         Return, Continue, ReturnUpdateStatus, Again, Update, UpdateStatus, Write, Current
    <2>2. api.there => api'.there
      BY <1>4, <1>guarded, ProvisionFlags DEF FlagsKept
    <2> QED BY <1>types, <2>1, <2>2 DEF WorkerHas, Aligned, Configs
  <1>5. CASE CheckUpdateNext
    <2>1. \/ cfg' \in {cfg, [cfg EXCEPT !.rows = "known"]} /\ pc \in HandlerPCs
          \/ cfg' = api' /\ api' = api /\ api.there
      <3>1. pc \in HandlerPCs
        BY <1>5, CheckUpdateFrom DEF UpdatePCs
      <3> QED
      BY <1>5, <3>1 DEF CheckUpdateNext, UpdateRefused, UpdateReadFails, AwaitCluster,
         AwaitPools,
         GetCluster, GetNodePools, GetStatus, GetVirtualNodePools, SyncFails, SyncVersion,
         AwaitNodeUpgrade, NoNodeUpgrade, CheckNodes, TriggerNodeUpgrade, Proceed, SyncModify,
         EnqueueGet, EnqueuePut, FinishWithoutPools, CreateRows, SaveRows, SyncDone,
         EndpointMissing, EndpointCreating, EndpointCreated, EndpointFails, Finish, Return,
         Continue, ReturnUpdateStatus, ReturnUpdateStatusAndRequeue, EnqueueUpdate, storeVars
    <2> QED BY <1>types, <2>1 DEF WorkerHas, Configs
  <1> QED BY <1>1, <1>2, <1>3, <1>4, <1>5 DEF Step, Remove

LEMMA NextRowsSeen ==
  ASSUME TypeOK, VersionsAgree, GuardsStay, WorkStays, WorkerHas, RowsSeen, [Next]_vars
  PROVE  RowsSeen'
  <1>types. /\ api \in Configs /\ api' \in Configs /\ cfg \in Configs /\ cache \in Configs
            /\ seen \in Configs /\ watch \in Seq(Configs) /\ watch' \in Seq(Configs)
    BY NextTypes DEF TypeOK, StoreTypeOK, HandlerTypeOK
  <1> DEFINE Filled == /\ UNCHANGED api
                       /\ \/ pc = "import" /\ Held' \subseteq Held \cup {api, Empty, Aligned}
                          \/ /\ pc = "modify"
                             /\ Held' \subseteq Held \cup {api, Empty, [cfg EXCEPT !.rows = "known"]}
  <1>1. Held' \subseteq Held \cup {api', Empty} \/ Filled
    <2>1. CASE Step
      <3>1. {watch'[i] : i \in DOMAIN watch'} \subseteq {watch[i] : i \in DOMAIN watch} \cup {api'}
        BY <1>types, <2>1, StepStore DEF StoreStep
      <3> QED BY <2>1, <3>1, StepObjects, StepCache DEF Held
    <2>2. CASE Restart
      BY <2>2 DEF Restart, Crash, Reset, Held
    <2>3. CASE Notify
      <3>1. /\ cache' = watch[1] /\ 1 \in DOMAIN watch
            /\ \A i \in DOMAIN watch' : i + 1 \in DOMAIN watch /\ watch'[i] = watch[i + 1]
        BY <1>types, <2>3 DEF Notify, Deliver
      <3>2. UNCHANGED <<seen, cfg>>
        BY <2>3 DEF Notify, handlerVars
      <3> QED BY <3>1, <3>2 DEF Held
    <2>4. CASE User
      <3>1. {watch'[i] : i \in DOMAIN watch'} \subseteq {watch[i] : i \in DOMAIN watch} \cup {api'}
        BY <1>types, <2>4, UserStore DEF StoreStep
      <3> QED BY <2>4, <3>1, UserStore DEF User, handlerVars, Held
    <2>5. CASE Cloud \/ UNCHANGED vars
      BY <2>5 DEF Cloud, vars, storeVars, handlerVars, Held
    <2> QED BY <2>1, <2>2, <2>3, <2>4, <2>5 DEF Next
  <1>2. api' = api \/ api'.rv = api.rv + 1
    BY NextHeld
  <1> SUFFICES ASSUME NEW o \in Held', o.there, o.rv = api'.rv
               PROVE  o.rows \in {api'.rows, "known"} \/ (api'.imported /\ o.rows = "nil")
    BY DEF RowsSeen, Same
  <1>3. CASE o \in Held
    <2>1. api' = api
      BY <1>2, <1>3, <1>types, FieldsOf DEF VersionsAgree
    <2> QED BY <1>3, <2>1 DEF RowsSeen, Same
  <1>4. CASE o \in {api', Empty}
    BY <1>4 DEF Empty
  <1>5. CASE Filled /\ pc = "import" /\ o = Aligned
    <2>1. o.rv = cfg.rv /\ o.rows \in {"nil", "known"} /\ cfg.there
      BY <1>5, <1>types DEF Aligned, Configs, WorkerHas, HandlerPCs, PCs, LastPCs
    <2>2. api.phase = "importing"
      BY <1>5, <2>1 DEF VersionsAgree, Held, Agree, WorkStays
    <2> QED BY <1>5, <2>1, <2>2 DEF GuardsStay
  <1>6. CASE o = [cfg EXCEPT !.rows = "known"]
    BY <1>6, <1>types DEF Configs
  <1> QED BY <1>1, <1>3, <1>4, <1>5, <1>6

LEMMA NextOnlyOwn ==
  ASSUME TypeOK, VersionsAgree, CreatingHasCluster, ForeignStays, PhasesForward, IDFixed, WorkStays,
         OnlyOwn, [Next]_vars
  PROVE  OnlyOwn'
  <1> SUFFICES ASSUME NEW id \in IDs, clusters'[id] = "upgrading" PROVE id = api'.clusterID
    BY DEF OnlyOwn
  <1>1. CASE clusters[id] = "upgrading"
    BY <1>1, IDMoves DEF OnlyOwn, WorkStays, RunningPhases, NotCreated
  <1>2. CASE clusters[id] # "upgrading"
    <2>1. Step
      BY <1>2, EnvironmentCloud DEF CloudGoesOn
    <2>2. pc = "sync"
      BY <1>2, <2>1, StepCloud DEF CloudMoves
    <2>3. CheckUpdateNext
      BY <2>1, <2>2 DEF Step, Remove, Frame, Begin, RecordError, AddFinalizer, End,
         ProvisionNext, StartImport, CreateRefused, CreateSkipped, CreateFails, CreateSucceeds,
         SaveID, SavePhase, WaitFails, WaitAbnormal, CreationComplete, KeepWaiting,
         ImportRefused, ImportReadFails, ImportRead, ImportSave, ImportSecret, ImportActive,
         RemovalNext, RemoveNothing, RemoveReadFails, RemoveAlreadyGone, RemoveFound,
         CheckNodePools, CheckVirtualNodePools, ProtectionUnknown, ProtectionChecked,
         ReportProtection, NodePoolsDeleted, DeleteNodePools, VirtualNodePoolsDeleted,
         DeleteVirtualNodePools, RemoveCluster, RemoveClusterRefused, RemovalCallFails,
         DropFinalizer
    <2>4. UpdateClusterVersion(cfg.clusterID)
      BY <1>2, <2>3, CheckUpdateClusters
    <2>5. id = cfg.clusterID /\ UNCHANGED api
      <3>1. id = cfg.clusterID
        BY <1>2, <2>4 DEF UpdateClusterVersion, Running, TypeOK, CloudTypeOK
      <3>2. UNCHANGED api
        BY <2>2, <2>3 DEF CheckUpdateNext, UpdateRefused, UpdateReadFails, AwaitCluster,
           AwaitPools, PoolsBusy, GetCluster, GetNodePools, GetStatus, GetVirtualNodePools,
           SyncFails, SyncVersion, AwaitNodeUpgrade, NoNodeUpgrade, CheckNodes,
           TriggerNodeUpgrade, SyncModify, EnqueueGet, EnqueuePut, FinishWithoutPools,
           CreateRows, SaveRows, SyncDone, EndpointMissing, EndpointCreating, EndpointCreated,
           EndpointFails, Finish, storeVars
      <3> QED BY <3>1, <3>2
    <2> QED BY <2>2, <2>5, ReconciledCluster DEF UpdatePCs
  <1> QED BY <1>1, <1>2

\* Only the worker that takes the key from the queue makes it calm.
LEMMA QueuedStays ==
  ASSUME Step, ~Begin, queued
  PROVE  queued'
  <1>1. CASE ProvisionNext
    BY <1>1 DEF ProvisionNext, StartImport, CreateRefused, CreateSkipped, CreateFails,
       CreateSucceeds, SaveID, SavePhase, WaitFails, WaitAbnormal, CreationComplete, KeepWaiting,
       ImportRefused, ImportReadFails, ImportRead, ImportSave, ImportSecret, ImportActive,
       storeVars
  <1>2. CASE CheckUpdateNext
    BY <1>2 DEF CheckUpdateNext, UpdateRefused, UpdateReadFails, AwaitCluster, AwaitPools,
       GetCluster, GetNodePools, GetStatus, GetVirtualNodePools, SyncFails, SyncVersion,
       AwaitNodeUpgrade, NoNodeUpgrade, CheckNodes, TriggerNodeUpgrade, Proceed, SyncModify,
       EnqueueGet, EnqueuePut, FinishWithoutPools, CreateRows, SaveRows, SyncDone,
       EndpointMissing, EndpointCreating, EndpointCreated, EndpointFails, Finish,
       EnqueueUpdate, ReturnUpdateStatusAndRequeue, storeVars
  <1>3. CASE RemovalNext
    BY <1>3 DEF RemovalNext, RemoveNothing, RemoveReadFails, RemoveAlreadyGone, RemoveFound,
       CheckNodePools, CheckVirtualNodePools, ProtectionUnknown, ProtectionChecked,
       ReportProtection, NodePoolsDeleted, DeleteNodePools, VirtualNodePoolsDeleted,
       DeleteVirtualNodePools, RemoveCluster, RemoveClusterRefused, RemovalCallFails,
       DropFinalizer, storeVars
  <1>4. CASE Frame
    BY <1>4 DEF Frame, RecordError, AddFinalizer, End
  <1> QED BY <1>1, <1>2, <1>3, <1>4 DEF Step, Remove

\* A step within a calm pass stores nothing.
Quiet == Calm /\ UNCHANGED <<api, watch>> /\ ~queued'

LEMMA CalmStep ==
  ASSUME TypeOK, Step, ~Begin, Calm'
  PROVE  Quiet
  <1>1. watch \in Seq(Configs) /\ watch' = <<>>
    BY DEF TypeOK, StoreTypeOK, Calm
  <1>2. UNCHANGED <<api, watch>>
    BY <1>1, StepStore DEF StoreStep
  <1> QED BY <1>1, <1>2, QueuedStays DEF Calm, Quiet

\* Its writes with the stored version fail, or store what is stored.
LEMMA QuietWrite ==
  ASSUME TypeOK, Quiet, NEW o, NEW new, NEW res, Same(o), Write(o, new, res)
  PROVE  /\ res = "ok" => new = api
         /\ res # "conflict"
         /\ res = "error" => faults' < MaxFaults
  <1>1. watch' = watch /\ watch = <<>> /\ api.there /\ faults \in 0..MaxFaults /\ MaxFaults \in Nat
    BY BoundsAssumption DEF Quiet, Calm, TypeOK, StoreTypeOK
  <1>2. Commit(new) => new = api
    BY <1>1 DEF Commit, Publish
  <1> QED BY <1>1, <1>2 DEF Write, Same

LEMMA QuietUpdates ==
  ASSUME TypeOK, Quiet, NEW o \in Configs, NEW res, Same(o)
  PROVE  /\ UpdateStatus(o, res) => /\ res = "ok" => o.phase = api.phase /\ o.msg = api.msg
                                    /\ res # "conflict"
                                    /\ res = "error" => faults' < MaxFaults
         /\ Update(o, res) => /\ res = "ok" => /\ o.finalizer = api.finalizer /\ o.rows = api.rows
                                               /\ o.clusterID = api.clusterID
                              /\ res # "conflict"
                              /\ res = "error" => faults' < MaxFaults
  <1>1. api \in Configs
    BY DEF TypeOK, StoreTypeOK
  <1>2. WithStatus(o) = api => o.phase = api.phase /\ o.msg = api.msg
    BY <1>1 DEF WithStatus, Configs
  <1>3. WithSpec(o) = api => /\ o.finalizer = api.finalizer /\ o.rows = api.rows
                             /\ o.clusterID = api.clusterID
    BY <1>1 DEF WithSpec, Configs
  <1> QED BY <1>2, <1>3, QuietWrite DEF Update, UpdateStatus

\* A handler ends its part; with an error the key will be queued again.
LEMMA ToRecord ==
  ASSUME Followed, Quiet, pc \in HandlerPCs \ RemovePCs, pc' = "record",
         Same(seen'), cfg'.there => Same(cfg'), err' = "none" => cfg'.there /\ Done'
  PROVE  Followed'
  <1>1. ~api.deleting /\ api' = api
    BY DEF Followed, RightHandler, Quiet
  <1>2. SameObjects' /\ RightHandler' /\ CallsFollow' /\ EndsDone' /\ Rested'
    BY <1>1 DEF SameObjects, RightHandler, CallsFollow, EndsDone, Rested, Same, HandlerPCs,
       LastPCs,
                RemovePCs, DeletePCs, SettledPCs
  <1> QED BY <1>2 DEF Followed

LEMMA Failed ==
  ASSUME Followed, Quiet, pc \in HandlerPCs \ RemovePCs, NEW o \in {cfg, seen, api, Empty},
         NEW e, e # "none", Return(o, e)
  PROVE  Followed'
  <1>1. Same(seen) /\ (cfg.there => Same(cfg)) /\ Same(api) /\ ~Empty.there
    BY DEF Followed, SameObjects, HandlerPCs, Quiet, Calm, Same, Empty
  <1> QED BY <1>1, ToRecord DEF Return

LEMMA PhaseReturned ==
  ASSUME TypeOK, Quiet, Followed, pc \in HandlerPCs \ RemovePCs, Same(cfg), NEW p \in Phases,
         \/ ReturnUpdateStatus([cfg EXCEPT !.phase = p])
         \/ ReturnUpdateStatusAndRequeue([cfg EXCEPT !.phase = p]),
         p = api.phase => Done'
  PROVE  Followed'
  <1> DEFINE o == [cfg EXCEPT !.phase = p]
  <1>1. o \in Configs /\ o.phase = p /\ Same(o)
    BY DEF TypeOK, HandlerTypeOK, Configs, Same
  <1>2. PICK res \in WriteResults :
          /\ UpdateStatus(o, res)
          /\ IF res = "ok" THEN Return(api', "none") ELSE Return(Empty, "store")
    BY DEF ReturnUpdateStatus, ReturnUpdateStatusAndRequeue
  <1>3. CASE res = "ok"
    <2>1. p = api.phase
      BY <1>1, <1>2, <1>3, QuietUpdates
    <2>2. api' = api /\ Same(api) /\ Same(seen)
      BY DEF Quiet, Calm, Same, Followed, SameObjects, HandlerPCs
    <2> QED BY <1>2, <1>3, <2>1, <2>2, ToRecord DEF Return, Same
  <1>4. CASE res # "ok"
    BY <1>2, <1>4, Failed
  <1> QED BY <1>3, <1>4

\* A handler goes on to its next call.
LEMMA GoesOn ==
  ASSUME Followed, Quiet, pc \in HandlerPCs \ RemovePCs, pc' \in HandlerPCs \ RemovePCs,
         Same(seen'), Same(cfg'), CallsFollow'
  PROVE  Followed'
  <1>1. ~api.deleting /\ api' = api
    BY DEF Followed, RightHandler, Quiet
  <1>2. SameObjects' /\ RightHandler' /\ EndsDone' /\ Rested'
    BY <1>1 DEF SameObjects, RightHandler, EndsDone, Rested, Same, HandlerPCs, LastPCs
  <1> QED BY <1>2 DEF Followed

\* What a handler of a calm pass has: the stored version, which agrees with what the
\* cache and the API server have.
LEMMA CalmObjects ==
  ASSUME TypeOK, VersionsAgree, WorkerHas, Latest, RowsSeen, Quiet, Followed, pc \in HandlerPCs
  PROVE  /\ Same(cfg) /\ Same(seen) /\ Same(cache) /\ Same(api)
         /\ Agree(cfg, api) /\ Agree(seen, api) /\ Agree(cache, api)
         /\ cfg.rows \in {api.rows, "known"} \/ (api.imported /\ cfg.rows = "nil")
  <1>1. Same(cfg) /\ Same(seen) /\ Same(cache) /\ Same(api)
    BY DEF WorkerHas, Latest, Quiet, Calm, Followed, SameObjects, HandlerPCs, Same
  <1>2. {cfg, seen, cache} \subseteq Held
    BY DEF Held
  <1> QED BY <1>1, <1>2 DEF VersionsAgree, RowsSeen, Same

LEMMA ProvisionCalm ==
  ASSUME TypeOK, VersionsAgree, LifecycleInv, WorkerHas, Latest, RowsSeen, Quiet, Followed,
         ProvisionNext
  PROVE  Followed'
  <1>pcs. pc \in {"create", "saveID", "wait", "import"} \cup ImportPCs
    BY DEF ProvisionNext, StartImport, CreateRefused, CreateSkipped, CreateFails,
       CreateSucceeds, SaveID, SavePhase, WaitFails, WaitAbnormal, CreationComplete, KeepWaiting,
       ImportRefused, ImportReadFails, ImportRead, ImportSave, ImportSecret, ImportActive,
       ImportPCs, Followed, CallsFollow
  <1>handler. pc \in HandlerPCs \ RemovePCs
    BY <1>pcs DEF HandlerPCs, PCs, LastPCs, RemovePCs, DeletePCs, ImportPCs
  <1>objects. /\ Same(cfg) /\ Same(seen) /\ Same(cache) /\ Same(api)
              /\ Agree(cfg, api) /\ Agree(cache, api)
    BY <1>handler, CalmObjects
  <1>types. cfg \in Configs /\ cache \in Configs /\ api \in Configs
    BY DEF TypeOK, StoreTypeOK, HandlerTypeOK
  <1>phases. /\ pc = "create" => api.phase = NotCreated
             /\ pc = "wait" => api.phase = "creating"
             /\ pc \in {"import"} \cup ImportPCs => api.phase = "importing"
    BY <1>objects DEF LifecycleInv, PhasesForward, WorkStays, Agree
  <1>quiet. UNCHANGED <<api, watch>> /\ ~queued'
    BY DEF Quiet
  <1>1. CASE StartImport \/ CreationComplete \/ ImportActive
    BY <1>1, <1>handler, <1>objects, <1>phases, PhaseReturned
       DEF StartImport, CreationComplete, ImportActive, ImportPCs, Phases, NotCreated
  <1>2. CASE CreateRefused \/ CreateFails \/ WaitFails \/ WaitAbnormal \/ ImportRefused \/ ImportReadFails
    BY <1>2, <1>handler, Failed
       DEF CreateRefused, CreateFails, WaitFails, WaitAbnormal, ImportRefused, ImportReadFails
  <1>3. CASE CreateSkipped
    <2>1. /\ api.phase = NotCreated /\ ~api.imported /\ api.valid /\ api.clusterID # NoID
      BY <1>3, <1>objects, <1>phases DEF CreateSkipped, Agree
    <2> QED BY <1>3, <1>handler, <1>objects, <1>quiet, <2>1, ToRecord
            DEF CreateSkipped, Return, Done, Same
  <1>4. CASE CreateSucceeds
    BY <1>4, <1>handler, <1>objects, <1>quiet, GoesOn
       DEF CreateSucceeds, HandlerPCs, PCs, LastPCs, RemovePCs, DeletePCs, CallsFollow,
           SettledPCs
  <1>5. CASE SaveID
    <2>1. cache.there /\ cache.clusterID # newID /\ api.clusterID # newID
      BY <1>5, <1>objects DEF SaveID, Followed, CallsFollow, Agree, Same, LifecycleInv, IdsStay
    <2>2. PICK res \in WriteResults :
            /\ Update([cache EXCEPT !.clusterID = newID], res)
            /\ \/ res = "ok" /\ Continue("savePhase", api')
               \/ Again(res)
               \/ GivesUp(res) /\ Return(cfg, "store")
      BY <1>5, <2>1 DEF SaveID
    <2>3. /\ [cache EXCEPT !.clusterID = newID] \in Configs /\ Same([cache EXCEPT !.clusterID = newID])
          /\ [cache EXCEPT !.clusterID = newID].clusterID = newID
      BY <1>types, <1>objects DEF Same, Configs, TypeOK, HandlerTypeOK, IDs
    <2>4. res \notin {"ok", "conflict"}
      BY <2>1, <2>2, <2>3, QuietUpdates
    <2> QED BY <1>handler, <2>2, <2>4, Failed DEF Again
  <1>6. CASE SavePhase \/ KeepWaiting
    BY <1>6, <1>quiet DEF SavePhase, KeepWaiting, Followed, CallsFollow
  <1>7. CASE ImportRead
    <2>1. Same(Aligned) /\ cfg' = Aligned /\ seen' = Aligned
      BY <1>7, <1>types, <1>objects DEF ImportRead, Same, Aligned, Configs
    <2>2. CASE pc' = "importSave"
      BY <1>handler, <2>1, <2>2, GoesOn
         DEF HandlerPCs, PCs, LastPCs, RemovePCs, DeletePCs, CallsFollow, SettledPCs
    <2>3. CASE pc' = "record" /\ err' = "cloud"
      BY <1>handler, <2>1, <2>3, ToRecord
    <2> QED BY <1>7, <2>2, <2>3 DEF ImportRead
  <1>8. CASE ImportSave
    BY <1>8, <1>handler, <1>objects, <1>quiet, GoesOn, Failed
       DEF ImportSave, Continue, HandlerPCs, PCs, LastPCs, RemovePCs, DeletePCs, CallsFollow,
           SettledPCs
  <1>9. CASE ImportSecret
    BY <1>9, <1>handler, <1>objects, <1>quiet, GoesOn, Failed
       DEF ImportSecret, Continue, HandlerPCs, PCs, LastPCs, RemovePCs, DeletePCs, CallsFollow,
           SettledPCs
  <1> QED BY <1>1, <1>2, <1>3, <1>4, <1>5, <1>6, <1>7, <1>8, <1>9 DEF ProvisionNext

LEMMA CheckUpdateCalm ==
  ASSUME TypeOK, VersionsAgree, LifecycleInv, WorkerHas, Latest, RowsSeen, Quiet, Followed,
         CheckUpdateNext
  PROVE  Followed'
  <1>pcs. pc \in UpdatePCs
    BY CheckUpdateFrom
  <1>handler. pc \in HandlerPCs \ RemovePCs
    BY <1>pcs DEF HandlerPCs, PCs, LastPCs, RemovePCs, DeletePCs, UpdatePCs
  <1>objects. /\ Same(cfg) /\ Same(seen) /\ Same(api)
              /\ Agree(cfg, api) /\ cfg.phase \in RunningPhases
              /\ cfg.rows \in {api.rows, "known"} \/ (api.imported /\ cfg.rows = "nil")
    BY <1>pcs, <1>handler, CalmObjects DEF LifecycleInv, WorkStays
  <1>types. cfg \in Configs /\ api \in Configs
    BY DEF TypeOK, StoreTypeOK, HandlerTypeOK
  <1>quiet. UNCHANGED <<api, watch>> /\ ~queued'
    BY DEF Quiet
  <1>cluster. pc \in SettledPCs => /\ clusters[api.clusterID] \notin {"upgrading", "abnormal"}
                                   /\ nodePools \notin {"busy", "deleting"}
    BY <1>pcs, ReconciledCluster DEF LifecycleInv, WorkStays
  <1> USE DEF Phases, NotCreated, RunningPhases, Agree
  <1>1. CASE UpdateRefused
    <2>1. ~api.valid
      BY <1>1, <1>objects DEF UpdateRefused
    <2> QED BY <1>1, <1>handler, <1>objects, <1>quiet, <2>1, PhaseReturned DEF UpdateRefused, Done
  <1>2. CASE UpdateReadFails \/ SyncFails \/ EndpointFails
    BY <1>2, <1>handler, Failed DEF UpdateReadFails, SyncFails, EndpointFails
  <1>3. CASE AwaitCluster \/ AwaitPools
    BY <1>3, <1>handler, <1>objects, <1>quiet, PhaseReturned DEF AwaitCluster, AwaitPools
  <1>4. CASE \/ GetCluster \/ GetNodePools \/ GetStatus \/ GetVirtualNodePools
             \/ NoNodeUpgrade \/ CheckNodes
    BY <1>4, <1>handler, <1>objects, <1>quiet, GoesOn
       DEF GetCluster, GetNodePools, GetStatus, GetVirtualNodePools, NoNodeUpgrade, CheckNodes,
           Proceed, cloudVars, Followed, HandlerPCs, PCs, LastPCs, RemovePCs, DeletePCs,
           CallsFollow, SettledPCs
  <1>5. CASE SyncVersion \/ SyncModify \/ TriggerNodeUpgrade
    <2>1. CASE cfg.phase # "updating" /\ Continue("enqueueGet", cfg)
      BY <1>handler, <1>objects, <2>1, GoesOn
         DEF Continue, HandlerPCs, PCs, LastPCs, RemovePCs, DeletePCs, CallsFollow, SettledPCs
    <2>2. CASE Return(cfg, "cloud")
      BY <1>handler, <2>2, Failed
    <2> QED BY <1>5, <1>quiet, <2>1, <2>2 DEF SyncVersion, SyncModify, TriggerNodeUpgrade, EnqueueUpdate
  <1>6. CASE AwaitNodeUpgrade \/ EndpointMissing \/ EndpointCreating
    BY <1>6, <1>quiet DEF AwaitNodeUpgrade, EndpointMissing, EndpointCreating
  <1>7. CASE EnqueueGet
    <2>1. CASE cfg' = api /\ pc' = "enqueuePut" /\ UNCHANGED seen
      BY <1>7, <1>handler, <1>objects, <2>1, GoesOn
         DEF EnqueueGet, Followed, HandlerPCs, PCs, LastPCs, RemovePCs, DeletePCs, CallsFollow,
             SettledPCs
    <2>2. CASE Return(Empty, "store")
      BY <1>handler, <2>2, Failed
    <2> QED BY <1>7, <2>1, <2>2 DEF EnqueueGet
  <1>8. CASE EnqueuePut
    <2> DEFINE o == [cfg EXCEPT !.phase = "updating"]
    <2>1. o \in Configs /\ Same(o) /\ o.phase = "updating"
      BY <1>types, <1>objects DEF Same, Configs
    <2>2. PICK res \in WriteResults :
            /\ UpdateStatus(o, res)
            /\ \/ res = "ok" /\ Return(api', "none")
               \/ res = "conflict"
               \/ GivesUp(res) /\ Return(Empty, "store")
      BY <1>8 DEF EnqueuePut
    <2>3. api.phase = "active"
      BY <1>8, <1>objects DEF EnqueuePut, Followed, CallsFollow
    <2>4. res \notin {"ok", "conflict"}
      BY <2>1, <2>2, <2>3, QuietUpdates
    <2> QED BY <1>handler, <2>2, <2>4, Failed
  <1>9. CASE FinishWithoutPools
    <2>1. api.phase = "active" => Done'
      <3>1. api.valid /\ (api.rows = "nil" \/ api.imported)
        BY <1>9, <1>objects DEF FinishWithoutPools, Followed, CallsFollow, SettledPCs
      <3>2. UNCHANGED <<clusters, nodePools, nodes>> /\ nodes = "current" /\ pc = "modify"
        BY <1>9 DEF FinishWithoutPools, Followed, CallsFollow, cloudVars, poolVars
      <3> QED BY <1>quiet, <1>cluster, <3>1, <3>2 DEF Done, Settled, SettledPCs
    <2> QED BY <1>9, <1>handler, <1>objects, <2>1, PhaseReturned DEF FinishWithoutPools
  <1>10. CASE CreateRows
    <2>1. /\ cfg' = [cfg EXCEPT !.rows = "known"] /\ seen' = cfg' /\ pc' = "saveRows" /\ cfg.rows = "new"
      BY <1>10 DEF CreateRows, CreateNodePools, PoolsToCreate
    <2>2. Same(cfg') /\ cfg'.rows = "known" /\ api.rows = "new"
      BY <1>types, <1>objects, <2>1 DEF Same, Configs
    <2> QED BY <1>handler, <1>quiet, <2>1, <2>2, GoesOn
            DEF HandlerPCs, PCs, LastPCs, RemovePCs, DeletePCs, CallsFollow, SettledPCs
  <1>11. CASE SaveRows
    <2>1. PICK res \in WriteResults :
            Update(cfg, res) /\ IF res = "ok" THEN Return(api', "none") ELSE Return(Empty, "store")
      BY <1>11 DEF SaveRows
    <2>2. res # "ok"
      BY <1>11, <1>types, <1>objects, <2>1, QuietUpdates DEF SaveRows, Followed, CallsFollow
    <2> QED BY <1>handler, <2>1, <2>2, Failed
  <1>12. CASE SyncDone
    BY <1>12, <1>handler, <1>objects, <1>quiet, GoesOn
       DEF SyncDone, PoolsToModify, Continue, cloudVars, Followed, HandlerPCs, PCs, LastPCs,
           RemovePCs, DeletePCs,
           CallsFollow, SettledPCs
  <1>13. CASE EndpointCreated
    BY <1>13, <1>handler, <1>objects, <1>quiet, GoesOn
       DEF EndpointCreated, CreateCASecret, Continue, cloudVars, Followed, HandlerPCs, PCs,
           LastPCs,
           RemovePCs, DeletePCs, CallsFollow, SettledPCs
  <1>14. CASE Finish
    <2>1. CASE cfg.phase # "active" /\ ReturnUpdateStatus([cfg EXCEPT !.phase = "active"])
      BY <1>handler, <1>objects, <2>1, PhaseReturned
    <2>2. CASE cfg.phase = "active" /\ Return(cfg, "none")
      <3>1. api.valid /\ api.phase = "active" /\ nodes = "current"
            /\ (api.imported \/ (endpoint = "Created" /\ secret))
        BY <1>14, <1>objects, <2>2 DEF Finish, Followed, CallsFollow, SettledPCs
      <3>2. UNCHANGED <<clusters, nodePools, nodes, endpoint, secret>> /\ pc = "finish"
        BY <1>14 DEF Finish, cloudVars, poolVars, provisionVars
      <3>3. Done'
        BY <1>quiet, <1>cluster, <3>1, <3>2 DEF Done, Settled, SettledPCs
      <3> QED BY <1>handler, <1>objects, <1>quiet, <2>2, <3>3, ToRecord DEF Return, Same
    <2> QED BY <1>14, <2>1, <2>2 DEF Finish
  <1> QED BY <1>1, <1>2, <1>3, <1>4, <1>5, <1>6, <1>7, <1>8, <1>9, <1>10, <1>11, <1>12, <1>13, <1>14
          DEF CheckUpdateNext

LEMMA RemovalCalm ==
  ASSUME TypeOK, VersionsAgree, LifecycleInv, WorkerHas, Latest, RowsSeen, Quiet, Followed, RemovalNext
  PROVE  Followed'
  <1>pcs. pc \in RemovePCs
    BY DEF RemovalNext, RemoveNothing, RemoveReadFails, RemoveAlreadyGone, RemoveFound,
       CheckNodePools, CheckVirtualNodePools, ProtectionUnknown, ProtectionChecked,
       ReportProtection, NodePoolsDeleted, DeleteNodePools, VirtualNodePoolsDeleted,
       DeleteVirtualNodePools, RemoveCluster, RemoveClusterRefused, RemovalCallFails,
       DropFinalizer, RemovePCs, DeletePCs
  <1>handler. pc \in HandlerPCs
    BY <1>pcs DEF HandlerPCs, PCs, LastPCs, RemovePCs, DeletePCs
  <1>objects. Same(cfg) /\ Same(seen) /\ Agree(cfg, api)
    BY <1>handler, CalmObjects
  <1>deleting. api.deleting /\ api.finalizer /\ api' = api
    BY <1>pcs, <1>handler DEF Quiet, Calm, Followed, RightHandler, LifecycleInv, GuardsStay,
       Guarded
  <1>moves. UNCHANGED <<seen, cfg>> /\ pc' \in RemovePCs \cup {"end"}
    BY <1>pcs DEF RemovalNext, RemoveNothing, RemoveReadFails, RemoveAlreadyGone, RemoveFound,
       CheckNodePools, CheckVirtualNodePools, ProtectionUnknown, ProtectionChecked,
       ReportProtection, NodePoolsDeleted, DeleteNodePools, VirtualNodePoolsDeleted,
       DeleteVirtualNodePools, RemoveCluster, RemoveClusterRefused, RemovalCallFails,
       DropFinalizer, RemovalDone, RemovalFails, Proceed, Sleep, RemovePCs, DeletePCs
  <1>1. pc' = "end" => err' # "none"
    <2>1. CASE DropFinalizer
      <3> DEFINE o == [cfg EXCEPT !.finalizer = FALSE]
      <3>1. o \in Configs /\ Same(o) /\ ~o.finalizer
        BY <1>objects DEF TypeOK, HandlerTypeOK, Configs, Same
      <3>2. PICK res \in WriteResults : Update(o, res) /\ err' = IF res = "ok" THEN "none" ELSE "store"
        BY <2>1 DEF DropFinalizer
      <3> QED BY <1>deleting, <3>1, <3>2, QuietUpdates
    <2>2. CASE ~DropFinalizer
      BY <2>2 DEF RemovalNext, RemoveNothing, RemoveReadFails, RemoveAlreadyGone, RemoveFound,
         CheckNodePools, CheckVirtualNodePools, ProtectionUnknown, ProtectionChecked,
         ReportProtection, NodePoolsDeleted, DeleteNodePools, VirtualNodePoolsDeleted,
         DeleteVirtualNodePools, RemoveCluster, RemoveClusterRefused, RemovalCallFails,
         RemovalDone, RemovalFails, Proceed, Sleep
    <2> QED BY <2>1, <2>2
  <1>2. SameObjects' /\ RightHandler' /\ CallsFollow' /\ EndsDone' /\ Rested'
    BY <1>objects, <1>deleting, <1>moves, <1>1
       DEF SameObjects, RightHandler, CallsFollow, EndsDone, Rested, Same, HandlerPCs, LastPCs,
           RemovePCs, DeletePCs, SettledPCs
  <1> QED BY <1>2 DEF Followed

LEMMA BeginCalm ==
  ASSUME TypeOK, VersionsAgree, LifecycleInv, Latest, Begin, Calm'
  PROVE  Followed'
  <1>1. UNCHANGED <<api, cache, watch>> /\ api.there /\ watch = <<>>
    BY DEF Begin, Calm
  <1>2. Same(cache) /\ Agree(cache, api)
    BY <1>1 DEF Latest, Same, VersionsAgree, Held
  <1>3. cache.deleting => cache.finalizer
    BY <1>1, <1>2 DEF LifecycleInv, GuardsStay, Guarded, Agree
  <1>4. /\ seen' = cache /\ cfg' = cache
        /\ pc' = IF cache.deleting THEN "remove" ELSE HandlerOf(cache.phase)
    BY <1>2, <1>3 DEF Begin, Same
  <1>5. cache.phase \in Phases
    BY FieldsOf DEF TypeOK, StoreTypeOK
  <1>6. IF cache.deleting THEN pc' = "remove" ELSE pc' \in {"create", "import", "wait", "update"}
    BY <1>4, <1>5 DEF HandlerOf, Phases
  <1>7. SameObjects' /\ RightHandler' /\ CallsFollow' /\ EndsDone' /\ Rested'
    BY <1>1, <1>2, <1>4, <1>6
       DEF SameObjects, RightHandler, CallsFollow, EndsDone, Rested, Same, Agree, HandlerPCs,
           LastPCs,
           RemovePCs, DeletePCs, SettledPCs
  <1> QED BY <1>7 DEF Followed

LEMMA FrameCalm ==
  ASSUME TypeOK, VersionsAgree, LifecycleInv, WorkerHas, Latest, RowsSeen, Quiet, Followed,
         RecordError \/ AddFinalizer \/ End, UNCHANGED provisionVars
  PROVE  Followed'
  <1>pcs. pc \in LastPCs
    BY DEF RecordError, AddFinalizer, End, LastPCs
  <1>objects. /\ Same(seen) /\ (cfg.there => Same(cfg)) /\ Same(api)
              /\ Agree(seen, api) /\ (cfg.there => Agree(cfg, api))
    <2>1. Same(seen) /\ (cfg.there => Same(cfg)) /\ Same(api)
      BY <1>pcs DEF Followed, SameObjects, LastPCs, Quiet, Calm, Same
    <2>2. {seen, cfg} \subseteq Held
      BY DEF Held
    <2> QED BY <2>1, <2>2 DEF VersionsAgree, Same
  <1>types. cfg \in Configs /\ seen \in Configs /\ api \in Configs
    BY DEF TypeOK, StoreTypeOK, HandlerTypeOK
  <1>quiet. api' = api /\ ~queued' /\ faults \in Nat /\ MaxFaults \in Nat
    BY BoundsAssumption DEF Quiet, TypeOK, StoreTypeOK
  <1>done. Done => Done'
    BY <1>quiet DEF RecordError, AddFinalizer, End, provisionVars, cloudVars, poolVars, Done,
       Settled
  <1>1. CASE RecordError
    <2>1. pc = "record" /\ pc' = "addFinalizer" /\ UNCHANGED <<seen, err>>
      BY <1>1 DEF RecordError
    <2>2. /\ cfg'.there => Same(cfg')
          /\ err = "none" => api.msg = "none" \/ faults' < MaxFaults
      <3>1. CASE (~cfg.there \/ cfg.msg = err) /\ cfg' = cfg
        BY <1>objects, <2>1, <3>1 DEF Followed, EndsDone, LastPCs, Agree
      <3>2. CASE cfg.there /\ cfg.msg # err
        <4>1. Recorded \in Configs /\ Same(Recorded) /\ Recorded.msg = err
          BY <1>types, <1>objects, <3>2
             DEF Recorded, Same, Configs, Phases, TypeOK, HandlerTypeOK
        <4>2. PICK res \in WriteResults :
                UpdateStatus(Recorded, res) /\ cfg' = IF res = "ok" THEN api' ELSE Empty
          BY <1>1, <3>2 DEF RecordError
        <4>3. res = "error" /\ faults' < MaxFaults
          BY <1>objects, <3>2, <4>1, <4>2, QuietUpdates DEF Agree, WriteResults
        <4> QED BY <4>2, <4>3 DEF Empty
      <3> QED BY <1>1, <3>1, <3>2 DEF RecordError
    <2>3. SameObjects' /\ RightHandler'
      BY <1>objects, <1>quiet, <2>1, <2>2
         DEF Followed, SameObjects, RightHandler, Same, HandlerPCs, LastPCs, RemovePCs, DeletePCs
    <2>4. EndsDone'
      BY <1>quiet, <1>done, <2>1, <2>2 DEF Followed, EndsDone, LastPCs
    <2>5. CallsFollow' /\ Rested'
      BY <2>1 DEF CallsFollow, Rested, SettledPCs
    <2> QED BY <2>3, <2>4, <2>5 DEF Followed
  <1>2. CASE AddFinalizer
    <2>1. pc = "addFinalizer" /\ pc' = "end" /\ UNCHANGED <<seen, cfg>>
          /\ faults' \in {faults, faults - 1}
      BY <1>2, <1>quiet DEF AddFinalizer, Update, Write
    <2>2. Same(Returned) /\ Agree(Returned, api) /\ Returned \in Configs
      BY <1>types, <1>objects DEF Returned
    <2>3. err' = "none" => err = "none" /\ api.finalizer
      <3>1. CASE Returned.finalizer /\ err' = err
        BY <2>2, <3>1 DEF Agree
      <3>2. CASE ~Returned.finalizer
        <4> DEFINE o == [Returned EXCEPT !.finalizer = TRUE]
        <4>1. o \in Configs /\ Same(o) /\ o.finalizer
          BY <2>2 DEF Same, Configs
        <4>2. PICK res \in WriteResults : Update(o, res) /\ err' = IF res = "ok" THEN err ELSE "store"
          BY <1>2, <3>2 DEF AddFinalizer
        <4>3. res # "ok"
          BY <2>2, <3>2, <4>1, <4>2, QuietUpdates DEF Agree
        <4> QED BY <4>2, <4>3
      <3> QED BY <1>2, <3>1, <3>2 DEF AddFinalizer
    <2>4. SameObjects' /\ RightHandler' /\ CallsFollow' /\ Rested'
      BY <1>objects, <1>quiet, <2>1
         DEF SameObjects, RightHandler, CallsFollow, Rested, Same, HandlerPCs, LastPCs,
             SettledPCs
    <2>5. EndsDone'
      BY <1>quiet, <1>done, <2>1, <2>3 DEF Followed, RightHandler, EndsDone, LastPCs
    <2> QED BY <2>4, <2>5 DEF Followed
  <1>3. CASE End
    <2>1. err = "none" /\ pc = "end" /\ pc' = "idle" /\ faults' = faults
      BY <1>3, <1>quiet DEF End, Reset
    <2>2. SameObjects' /\ RightHandler' /\ CallsFollow' /\ EndsDone' /\ Rested'
      BY <1>quiet, <1>done, <2>1
         DEF Followed, SameObjects, RightHandler, CallsFollow, EndsDone, Rested, HandlerPCs,
             LastPCs, SettledPCs
    <2> QED BY <2>2 DEF Followed
  <1> QED BY <1>1, <1>2, <1>3

\* What the cloud does meanwhile leaves what is done as it is.
LEMMA CloudCalm ==
  ASSUME TypeOK, LifecycleInv, OnlyOwn, Followed, Cloud \/ UNCHANGED vars, ~Step
  PROVE  Followed'
  <1>kept. UNCHANGED <<api, cache, watch, queued, pc, seen, cfg, err, secret>>
    BY DEF Cloud, vars, storeVars, handlerVars, provisionVars
  <1>faults. faults' \in {faults, faults - 1} /\ faults \in Nat /\ MaxFaults \in Nat
    BY BoundsAssumption DEF Cloud, NodeUpgradeFails, CallFails, vars, TypeOK, StoreTypeOK
  <1>cloud. CloudGoesOn
    BY EnvironmentCloud DEF Next
  <1>endpoint. endpoint = "Created" => endpoint' = "Created"
    BY DEF Cloud, CloudProgress, ClusterProgress, PoolProgress, NodeProgress,
       EndpointProgress, NodeUpgradeFails, Console, vars, cloudVars
  <1>nodes. nodes = "current" /\ clusters[api.clusterID] # "upgrading" => nodes' = "current"
    <2>1. ASSUME NEW id \in IDs, ClusterProgress(id), clusters[api.clusterID] # "upgrading",
                 nodes = "current"
          PROVE  nodes' = "current"
      BY <2>1 DEF ClusterProgress, OnlyOwn
    <2> QED BY <2>1 DEF Cloud, CloudProgress, PoolProgress, NodeProgress, EndpointProgress,
               NodeUpgradeFails, Console, vars, cloudVars
  <1>cluster. api.phase \in RunningPhases =>
                /\ api.clusterID \in IDs
                /\ clusters[api.clusterID] \notin {"none", "creating", "abnormal"}
    BY FieldsOf DEF TypeOK, StoreTypeOK, LifecycleInv, WorkStays, CreatingHasCluster,
       RunningPhases
  <1>done. Done => Done'
    BY <1>kept, <1>cloud, <1>endpoint, <1>nodes, <1>cluster
       DEF Done, Settled, RunningPhases, CloudGoesOn
  <1>1. SameObjects' /\ RightHandler'
    BY <1>kept DEF Followed, SameObjects, RightHandler, Same
  <1>2. CallsFollow'
    <2>1. pc \in {"modify", "endpoint", "finish"} => nodes' = "current"
      <3>1. pc \in {"modify", "endpoint", "finish"} => clusters[api.clusterID] # "upgrading" /\ nodes = "current"
        BY ReconciledCluster DEF LifecycleInv, WorkStays, SettledPCs, UpdatePCs, Followed,
           CallsFollow
      <3> QED BY <3>1, <1>nodes
    <2> QED BY <1>kept, <1>endpoint, <2>1 DEF Followed, CallsFollow
  <1>3. EndsDone' /\ Rested'
    BY <1>kept, <1>faults, <1>done DEF Followed, EndsDone, Rested
  <1> QED BY <1>1, <1>2, <1>3 DEF Followed

LEMMA NextCalm ==
  ASSUME TypeOK, VersionsAgree, LifecycleInv, RestInv, [Next]_vars, Calm'
  PROVE  Followed'
  <1> USE DEF RestInv
  <1>1. CASE Step
    <2>1. CASE Begin
      BY <2>1, BeginCalm
    <2>2. CASE ~Begin
      <3>1. Quiet /\ Followed
        BY <1>1, <2>2, CalmStep DEF Quiet
      <3> QED BY <1>1, <2>2, <3>1, ProvisionCalm, CheckUpdateCalm, RemovalCalm, FrameCalm
              DEF Step, Frame, Remove
    <2> QED BY <2>1, <2>2
  <1>2. CASE ~Step /\ (Cloud \/ UNCHANGED vars)
    <2>1. Followed
      BY <1>2 DEF Cloud, vars, storeVars, Calm
    <2> QED BY <1>2, <2>1, CloudCalm
  <1>3. CASE Restart \/ Notify
    BY <1>3 DEF Restart, Crash, Notify, Deliver, Calm
  <1>4. CASE User
    <2>1. watch \in Seq(Configs) /\ watch' = Append(watch, api')
      BY <1>4 DEF User, UserEdit, UserDelete, Publish, TypeOK, StoreTypeOK
    <2> QED BY <2>1 DEF Calm
  <1> QED BY <1>1, <1>2, <1>3, <1>4 DEF Next

LEMMA InitRest == Init => RestInv
  <1> SUFFICES ASSUME Init PROVE RestInv
    OBVIOUS
  <1>1. cache = api /\ seen = Empty /\ cfg = Empty /\ watch = <<>> /\ queued /\ pc = "idle"
    BY DEF Init
  <1>2. api.there
    BY InitResource
  <1>3. \A o \in Held : o = api \/ o = Empty
    BY <1>1 DEF Held
  <1>4. \A id \in IDs : clusters[id] # "upgrading"
    BY DEF Init
  <1> QED BY <1>1, <1>2, <1>3, <1>4
          DEF RestInv, WorkerHas, HandlerPCs, Latest, Same, RowsSeen, OnlyOwn, Calm, Empty

LEMMA RestInvariant == Spec => [](TypeOK /\ VersionsAgree /\ LifecycleInv /\ RestInv)
  <1>1. TypeOK /\ VersionsAgree /\ LifecycleInv /\ RestInv /\ [Next]_vars => RestInv'
    <2> SUFFICES ASSUME TypeOK, VersionsAgree, LifecycleInv, RestInv, [Next]_vars PROVE RestInv'
      OBVIOUS
    <2>1. WorkerHas' /\ Latest'
      BY NextHas, NextLatest DEF RestInv, LifecycleInv
    <2>2. RowsSeen' /\ OnlyOwn'
      BY NextRowsSeen, NextOnlyOwn DEF RestInv, LifecycleInv
    <2>3. Calm' => Followed'
      BY NextCalm
    <2> QED BY <2>1, <2>2, <2>3 DEF RestInv
  <1> QED BY <1>1, InitRest, LifecycleInvariant, PTL DEF Spec

\* No wakeup is lost in the whole life of a resource: a worker that rests has cleared
\* or reported all there was, whichever handler, crash, conflict or edit came before
\* (every return without an error and without tkeEnqueueAfter; lines 423-451,
\* 453-562, 914-968, 1286-1306).
THEOREM LifecycleRest == Spec => []RestMeansDone
  <1>1. RestInv => RestMeansDone
    BY DEF RestInv, Calm, Followed, Rested, RestMeansDone, AtRest
  <1> QED BY <1>1, RestInvariant, PTL

-----------------------------------------------------------------------------
(* Without the finalizer.                                                  *)

\* A resource with a cluster that nothing holds.
Unguarded == api.there /\ ~api.imported /\ api.phase # NotCreated /\ ~api.finalizer
Undisturbed == faults = MaxFaults /\ edits = MaxEdits

\* As long as nothing fails and nobody edits, that is the end of the pass which wrote
\* the phase: the framework has the stored version and is about to add the finalizer.
WindowCloses ==
  Unguarded /\ Undisturbed => pc \in {"record", "addFinalizer"} /\ cfg = api /\ err = "none"

\* Only an object that is being deleted is taken for removed.
RemovesDeleted == pc \in RemovePCs => cfg.deleting

\* Faults and edits are spent one by one.
Spent == faults' = faults \/ faults' = faults - 1
Edited == edits' = edits \/ edits' = edits - 1

LEMMA BudgetFalls ==
  ASSUME [Next]_vars
  PROVE  Spent /\ Edited
  <1>write. \A o, res : Update(o, res) \/ UpdateStatus(o, res) => Spent
    BY DEF Update, UpdateStatus, Write, Spent
  <1>return. \A o : ReturnUpdateStatus(o) \/ ReturnUpdateStatusAndRequeue(o) => Spent
    BY <1>write DEF ReturnUpdateStatus, ReturnUpdateStatusAndRequeue
  <1>call. CallFails => Spent
    BY DEF CallFails, Spent
  <1>same. faults' = faults => Spent
    BY DEF Spent
  <1>1. CASE ProvisionNext
    <2>1. edits' = edits
      BY <1>1 DEF ProvisionNext, StartImport, CreateRefused, CreateSkipped, CreateFails,
         CreateSucceeds, SaveID, SavePhase, WaitFails, WaitAbnormal, CreationComplete,
         KeepWaiting, ImportRefused, ImportReadFails, ImportRead, ImportSave, ImportSecret,
         ImportActive
    <2>2. Spent
      BY <1>1, <1>write, <1>return, <1>call, <1>same
      DEF ProvisionNext, StartImport, CreateRefused, CreateSkipped, CreateFails, CreateSucceeds,
          SaveID, SavePhase, WaitFails, WaitAbnormal, CreationComplete, KeepWaiting,
          ImportRefused, ImportReadFails, ImportRead, ImportSave, ImportSecret, ImportActive
    <2> QED BY <2>1, <2>2 DEF Edited
  <1>2. CASE CheckUpdateNext
    <2>1. edits' = edits
      BY <1>2 DEF CheckUpdateNext, UpdateRefused, UpdateReadFails, AwaitCluster, AwaitPools,
         GetCluster, GetNodePools, GetStatus, GetVirtualNodePools, SyncFails, SyncVersion,
         AwaitNodeUpgrade, NoNodeUpgrade, CheckNodes, TriggerNodeUpgrade, Proceed, SyncModify,
         EnqueueGet, EnqueuePut, FinishWithoutPools, CreateRows, SaveRows, SyncDone,
         EndpointMissing, EndpointCreating, EndpointCreated, EndpointFails, Finish
    <2>2. Spent
      BY <1>2, <1>write, <1>return, <1>call, <1>same
      DEF CheckUpdateNext, UpdateRefused, UpdateReadFails, AwaitCluster, AwaitPools,
          GetCluster, GetNodePools, GetStatus, GetVirtualNodePools, SyncFails, SyncVersion,
          AwaitNodeUpgrade, NoNodeUpgrade, CheckNodes, TriggerNodeUpgrade, Proceed, SyncModify,
          EnqueueGet, EnqueuePut, FinishWithoutPools, CreateRows, SaveRows, SyncDone,
          EndpointMissing, EndpointCreating, EndpointCreated, EndpointFails, Finish
    <2> QED BY <2>1, <2>2 DEF Edited
  <1>3. CASE RemovalNext
    <2>1. edits' = edits
      BY <1>3 DEF RemovalNext, RemoveNothing, RemoveReadFails, RemoveAlreadyGone, RemoveFound,
         CheckNodePools, CheckVirtualNodePools, ProtectionUnknown, ReportProtection,
         NodePoolsDeleted, DeleteNodePools, VirtualNodePoolsDeleted, DeleteVirtualNodePools,
         RemoveCluster, RemoveClusterRefused, RemovalCallFails, DropFinalizer
    <2>2. \A m : RecordRemoveError(m) => Spent
      BY <1>write, <1>same DEF RecordRemoveError
    <2>3. Spent
      BY <1>3, <1>write, <1>call, <1>same, <2>2
      DEF RemovalNext, RemoveNothing, RemoveReadFails, RemoveAlreadyGone, RemoveFound,
          CheckNodePools, CheckVirtualNodePools, ProtectionUnknown, ReportProtection,
          NodePoolsDeleted, DeleteNodePools, VirtualNodePoolsDeleted, DeleteVirtualNodePools,
          RemoveCluster, RemoveClusterRefused, RemovalCallFails, DropFinalizer
    <2> QED BY <2>1, <2>3 DEF Edited
  <1>4. CASE Frame
    BY <1>4, <1>write, <1>same DEF Frame, Begin, RecordError, AddFinalizer, End, Edited
  <1>5. CASE Restart \/ Notify \/ User \/ UNCHANGED vars
    BY <1>5 DEF Restart, Crash, Notify, Deliver, User, UserEdit, UserDelete, vars, Spent, Edited
  <1>6. CASE Cloud
    BY <1>6, <1>call, <1>same DEF Cloud, NodeUpgradeFails, Console, Edited
  <1> QED BY <1>1, <1>2, <1>3, <1>4, <1>5, <1>6 DEF Next, Step, Remove

\* So what was undisturbed after a step was before it.
LEMMA UndisturbedBefore ==
  ASSUME TypeOK, [Next]_vars, Undisturbed'
  PROVE  Undisturbed /\ faults' = faults /\ edits' = edits
  <1>1. /\ faults \in 0..MaxFaults /\ edits \in 0..MaxEdits
        /\ MaxFaults \in Nat /\ MaxEdits \in Nat
    BY BoundsAssumption DEF TypeOK, StoreTypeOK
  <1> QED BY <1>1, BudgetFalls DEF Undisturbed, Spent, Edited

LEMMA NextRemoves ==
  ASSUME TypeOK, RemovesDeleted, [Next]_vars
  PROVE  RemovesDeleted'
  <1> SUFFICES ASSUME pc' \in RemovePCs PROVE cfg'.deleting
    BY DEF RemovesDeleted
  <1> USE DEF RemovePCs, DeletePCs
  <1>1. CASE ~Step
    BY <1>1, EnvironmentKeeps DEF RemovesDeleted
  <1>2. CASE Frame
    BY <1>2, FieldsOf DEF Frame, Begin, HandlerOf, RecordError, AddFinalizer, End, Reset,
       TypeOK, StoreTypeOK, Phases, NotCreated
  <1>3. CASE RemovalNext
    BY <1>3 DEF RemovalNext, RemoveNothing, RemoveReadFails, RemoveAlreadyGone, RemoveFound,
       CheckNodePools, CheckVirtualNodePools, ProtectionUnknown, ProtectionChecked,
       ReportProtection, NodePoolsDeleted, DeleteNodePools, VirtualNodePoolsDeleted,
       DeleteVirtualNodePools, RemoveCluster, RemoveClusterRefused, RemovalCallFails,
       DropFinalizer, RemovalDone, RemovalFails, Proceed, Sleep, RemovesDeleted
  <1>4. ~ProvisionNext
    BY DEF ProvisionNext, StartImport, CreateRefused, CreateSkipped, CreateFails,
       CreateSucceeds, SaveID, SavePhase, WaitFails, WaitAbnormal, CreationComplete,
       KeepWaiting, ImportRefused, ImportReadFails, ImportRead, ImportSave, ImportSecret,
       ImportActive, ReturnUpdateStatus, Return, Continue, Again
  <1>5. ~CheckUpdateNext
    BY DEF CheckUpdateNext, UpdateRefused, UpdateReadFails, AwaitCluster, AwaitPools,
       GetCluster, GetNodePools, GetStatus, GetVirtualNodePools, SyncFails, SyncVersion,
       AwaitNodeUpgrade, NoNodeUpgrade, CheckNodes, TriggerNodeUpgrade, Proceed, SyncModify,
       EnqueueGet, EnqueuePut, FinishWithoutPools, CreateRows, SaveRows, SyncDone,
       EndpointMissing, EndpointCreating, EndpointCreated, EndpointFails, Finish,
       EnqueueUpdate, Continue, Return, ReturnUpdateStatus, ReturnUpdateStatusAndRequeue
  <1> QED BY <1>1, <1>2, <1>3, <1>4, <1>5 DEF Step, Remove

\* What the worker does next.
LEMMA LastSteps ==
  ASSUME Step, pc \in {"savePhase", "record", "addFinalizer"}
  PROVE  \/ pc = "savePhase" /\ SavePhase
         \/ pc = "record" /\ RecordError
         \/ pc = "addFinalizer" /\ AddFinalizer
  <1>1. ~CheckUpdateNext
    BY CheckUpdateFrom DEF UpdatePCs
  <1>2. ~RemovalNext
    BY DEF RemovalNext, RemoveNothing, RemoveReadFails, RemoveAlreadyGone, RemoveFound,
       CheckNodePools, CheckVirtualNodePools, ProtectionUnknown, ReportProtection,
       NodePoolsDeleted, DeleteNodePools, VirtualNodePoolsDeleted, DeleteVirtualNodePools,
       RemoveCluster, RemoveClusterRefused, RemovalCallFails, DropFinalizer
  <1>3. ProvisionNext => SavePhase /\ pc = "savePhase"
    BY DEF ProvisionNext, StartImport, CreateRefused, CreateSkipped, CreateFails,
       CreateSucceeds, SaveID, SavePhase, WaitFails, WaitAbnormal, CreationComplete,
       KeepWaiting, ImportRefused, ImportReadFails, ImportRead, ImportSave, ImportSecret,
       ImportActive
  <1>4. Frame => (pc = "record" /\ RecordError) \/ (pc = "addFinalizer" /\ AddFinalizer)
    BY DEF Frame, Begin, RecordError, AddFinalizer, End
  <1> QED BY <1>1, <1>2, <1>3, <1>4 DEF Step, Remove

\* The finalizer is given up only by the removal of what is being deleted.
LEMMA FinalizerStays ==
  ASSUME TypeOK, VersionsAgree, GuardsStay, RemovesDeleted, [Next]_vars,
         api.there, api'.there, api.finalizer
  PROVE  api'.finalizer
  <1>guarded. Guarded
    BY DEF GuardsStay
  <1>1. CASE DropFinalizer
    <2>1. cfg.deleting
      BY <1>1 DEF DropFinalizer, RemovesDeleted, RemovePCs
    <2> QED BY <1>1, <2>1, DropWrites DEF Agree
  <1>2. CASE Step /\ ~DropFinalizer
    BY <1>2, <1>guarded, ProvisionFlags, CheckUpdateFlags, RemovalFlags, FrameFlags
       DEF Step, Remove, FlagsKept
  <1>3. CASE User
    BY <1>3 DEF User, UserEdit, UserDelete, Publish, TypeOK, StoreTypeOK, Configs
  <1>4. CASE Restart \/ Notify \/ Cloud \/ UNCHANGED vars
    BY <1>4 DEF Restart, Crash, Notify, Deliver, Cloud, vars, storeVars
  <1> QED BY <1>1, <1>2, <1>3, <1>4 DEF Next

LEMMA NextWindow ==
  ASSUME TypeOK, VersionsAgree, LifecycleInv, RemovesDeleted, WindowCloses, [Next]_vars
  PROVE  WindowCloses'
  <1> USE DEF LifecycleInv
  <1> SUFFICES ASSUME Unguarded', Undisturbed'
               PROVE  pc' \in {"record", "addFinalizer"} /\ cfg' = api' /\ err' = "none"
    BY DEF WindowCloses
  <1>quiet. Undisturbed /\ faults' = faults /\ edits' = edits
    BY UndisturbedBefore
  <1>types. /\ StoreTypeOK /\ api \in Configs /\ faults \in Nat /\ edits \in Nat
            /\ api.there \in BOOLEAN /\ api.rv \in Nat
    BY BoundsAssumption DEF TypeOK, StoreTypeOK, Configs
  <1>write. ASSUME NEW o, NEW new, NEW res, Write(o, new, res) PROVE res = "ok" \/ api' = api
    BY <1>quiet, <1>types, <1>write DEF Write
  <1>before. api.there /\ ~api.imported /\ ~api.finalizer
    <2>1. api'.imported = api.imported
      BY StepWrites, EnvironmentKeeps DEF SpecKept
    <2>2. api.there
      BY <1>types, ThereMoves DEF Unguarded
    <2> QED BY <2>1, <2>2, FinalizerStays DEF Unguarded
  <1>1. CASE api.phase = NotCreated
    <2>1. Step /\ PhaseMove
      BY <1>1, EnvironmentKeeps, StepPhases DEF Unguarded
    <2>2. api'.phase = "creating" /\ Current(cache)
      BY <1>1, <1>before, <2>1 DEF PhaseMove, NotCreated
    <2>3. pc = "savePhase"
      BY <1>1, <2>1, <2>2, StepWrites DEF PhaseKept, NotCreated
    <2>4. SavePhase /\ api' # api
      BY <1>1, <2>1, <2>2, <2>3, LastSteps DEF NotCreated
    <2>5. \E res \in WriteResults :
             /\ UpdateStatus([cache EXCEPT !.phase = "creating", !.msg = "none"], res)
             /\ res = "ok" => Return(api', "none")
      BY <2>4 DEF SavePhase, GivesUp, Again
    <2> QED BY <1>write, <2>4, <2>5 DEF UpdateStatus, Return
  <1>2. CASE api.phase # NotCreated
    <2>1. pc \in {"record", "addFinalizer"} /\ cfg = api /\ err = "none"
      BY <1>2, <1>before, <1>quiet DEF WindowCloses, Unguarded
    <2>2. CASE ~Step
      <3>1. ~User
        <4>1. ~UserEdit
          BY <1>quiet, <1>types DEF UserEdit
        <4>2. UserDelete => ~api'.there
          BY <1>before, <1>types DEF UserDelete, Publish, Configs
        <4> QED BY <4>1, <4>2 DEF User, Unguarded
      <3>2. ~Restart
        BY <1>quiet, <1>types DEF Restart, Crash
      <3> QED BY <2>1, <2>2, <3>1, <3>2
              DEF Next, Notify, Deliver, Cloud, vars, storeVars, handlerVars
    <2>3. CASE pc = "record" /\ RecordError
      <3>1. err' = err /\ pc' = "addFinalizer"
        BY <2>3 DEF RecordError
      <3>2. CASE UNCHANGED <<api, cfg>>
        BY <2>1, <3>1, <3>2
      <3>3. CASE ~UNCHANGED <<api, cfg>>
        <4>1. PICK res \in WriteResults :
                /\ UpdateStatus(Recorded, res)
                /\ cfg' = IF res = "ok" THEN api' ELSE Empty
          BY <2>3, <3>3 DEF RecordError
        <4>2. Recorded.there /\ Recorded.rv = api.rv
          BY <1>types, <1>before, <2>1 DEF Recorded, Configs
        <4>3. res = "ok"
          BY <1>quiet, <1>types, <1>before, <4>1, <4>2 DEF UpdateStatus, Write, WriteResults
        <4> QED BY <2>1, <3>1, <4>1, <4>3
      <3> QED BY <3>2, <3>3
    <2>4. ~(pc = "addFinalizer" /\ AddFinalizer)
      <3> SUFFICES ASSUME AddFinalizer PROVE FALSE
        OBVIOUS
      <3> DEFINE o == [api EXCEPT !.finalizer = TRUE]
      <3>1. Returned = api
        BY <1>before, <2>1 DEF Returned
      <3>2. PICK res \in WriteResults : Update(o, res)
        BY <1>before, <3>1 DEF AddFinalizer
      <3>3. /\ o \in Configs /\ o.there /\ o.rv = api.rv /\ o.finalizer
            /\ WithSpec(o).finalizer /\ WithSpec(o) \in Configs
        BY <1>types, <1>before, WithType DEF Configs, WithSpec
      <3> HIDE DEF o
      <3>4. Commit(WithSpec(o))
        BY <1>quiet, <1>types, <1>before, <3>2, <3>3 DEF Update, Write, WriteResults
      <3>5. api'.finalizer
        BY <1>types, <3>3, <3>4 DEF Commit, Publish, Configs
      <3> QED BY <3>5 DEF Unguarded
    <2> QED BY <2>1, <2>2, <2>3, <2>4, LastSteps
  <1> QED BY <1>1, <1>2

\* A resource does not go before its cluster is being deleted, whichever handler, crash,
\* failed write or old object comes between, once the framework has added the
\* finalizer; and that a resource with a cluster has none yet ends with the pass
\* that wrote its phase, or is the doing of a fault or an edit, and never outlasts
\* the worker's coming to rest (lines 85-86, 148-246).
THEOREM FinalizerAlwaysGuardsCluster == Spec => FinalizerGuardsCluster
  <1> DEFINE Inv == TypeOK /\ VersionsAgree /\ LifecycleInv /\ RestInv
             Closed == RemovesDeleted /\ WindowCloses
  <1>1. Init => Closed
    <2> SUFFICES ASSUME Init PROVE Closed
      OBVIOUS
    <2>1. pc = "idle" /\ api.phase = NotCreated
      BY InitResource DEF Init
    <2> QED BY <2>1 DEF RemovesDeleted, RemovePCs, DeletePCs, WindowCloses, Unguarded
  <1>2. Inv /\ Closed /\ [Next]_vars => Closed'
    BY NextRemoves, NextWindow
  <1>3. Inv /\ Closed /\ [Next]_vars =>
          [api.there /\ ~api'.there /\ ~api.imported /\ api.phase # NotCreated
             => \/ clusters[api.clusterID] \in {"deleting", "gone"}
                \/ /\ ~api.finalizer /\ ~AtRest
                   /\ pc # "idle" \/ faults < MaxFaults \/ edits < MaxEdits]_vars
    <2> SUFFICES ASSUME TypeOK, VersionsAgree, LifecycleInv, RestInv, Closed, [Next]_vars,
                        api.there, ~api'.there, ~api.imported, api.phase # NotCreated
                 PROVE  \/ clusters[api.clusterID] \in {"deleting", "gone"}
                        \/ /\ ~api.finalizer /\ ~AtRest
                           /\ pc # "idle" \/ faults < MaxFaults \/ edits < MaxEdits
      OBVIOUS
    <2> USE DEF LifecycleInv
    <2>types. api \in Configs /\ StoreTypeOK
      BY DEF TypeOK, StoreTypeOK
    <2>1. CASE DropFinalizer
      <3>1. Agree(cfg, api)
        BY <2>1, DropWrites
      <3>2. KeepsCluster \/ cfg.clusterID \in EndingIDs
        BY <2>1 DEF DropFinalizer, GuardsStay
      <3>3. ~KeepsCluster
        BY <2>types, <3>1
           DEF KeepsCluster, Agree, GuardsStay, CreatingHasCluster, Configs, Phases
      <3> QED BY <3>1, <3>2, <3>3 DEF Agree, EndingIDs
    <2>2. CASE User
      <3>1. ~api.finalizer
        BY <2>types, <2>2 DEF User, UserEdit, UserDelete, Publish, Configs
      <3>2. ~AtRest
        BY <3>1 DEF AtRest, RestInv, Calm, Followed, Rested
      <3>3. pc # "idle" \/ ~Undisturbed
        BY <3>1 DEF WindowCloses, Unguarded
      <3>4. ~Undisturbed => faults < MaxFaults \/ edits < MaxEdits
        BY <2>types, BoundsAssumption DEF StoreTypeOK, Undisturbed
      <3> QED BY <3>1, <3>2, <3>3, <3>4
    <2>3. CASE Step /\ ~DropFinalizer
      <3>1. Guarded
        BY DEF GuardsStay
      <3> QED BY <2>3, <3>1, ProvisionFlags, CheckUpdateFlags, RemovalFlags, FrameFlags
              DEF Step, Remove, FlagsKept
    <2>4. CASE Restart \/ Notify \/ Cloud \/ UNCHANGED vars
      BY <2>4 DEF Restart, Crash, Notify, Deliver, Cloud, vars, storeVars
    <2> QED BY <2>1, <2>2, <2>3, <2>4 DEF Next
  <1>4. Spec => []Inv
    BY RestInvariant
  <1> HIDE DEF Inv, Closed
  <1> QED BY <1>1, <1>2, <1>3, <1>4, PTL DEF Spec, FinalizerGuardsCluster
=============================================================================
