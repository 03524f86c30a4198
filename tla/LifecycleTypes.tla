--------------------------- MODULE LifecycleTypes ---------------------------
(***************************************************************************)
(* Every variable of Lifecycle keeps its type, for every value of the      *)
(* constants.  The set Configs of objects is never expanded in a step: the *)
(* lemmas say which objects the operators make.                            *)
(***************************************************************************)
EXTENDS Lifecycle, TLAPS

-----------------------------------------------------------------------------
(* What the operators of ConfigStore make of an object.                    *)

LEMMA EmptyType == Empty \in Configs
  BY DEF Empty, Configs, Rows, Phases, Messages, NotCreated

LEMMA FieldTypes ==
  ASSUME NEW o \in Configs
  PROVE  /\ \A b \in BOOLEAN : /\ [o EXCEPT !.finalizer = b] \in Configs
                               /\ [o EXCEPT !.there = b] \in Configs
                               /\ [o EXCEPT !.valid = b] \in Configs
         /\ \A p \in Phases : [o EXCEPT !.phase = p] \in Configs
         /\ \A m \in Messages : [o EXCEPT !.msg = m] \in Configs
         /\ \A p \in Phases, m \in Messages : [o EXCEPT !.phase = p, !.msg = m] \in Configs
         /\ \A p \in Phases, m \in Messages : [o EXCEPT !.msg = m, !.phase = p] \in Configs
         /\ \A r \in Rows : [o EXCEPT !.rows = r] \in Configs
         /\ \A b \in BOOLEAN, r \in Rows : [o EXCEPT !.aligned = b, !.rows = r] \in Configs
         /\ \A id \in IDs \cup {NoID} : [o EXCEPT !.clusterID = id] \in Configs
         /\ \A n \in Nat : [o EXCEPT !.rv = n] \in Configs
         /\ \A d, t \in BOOLEAN : [o EXCEPT !.deleting = d, !.there = t] \in Configs
  BY DEF Configs

LEMMA FieldsOf ==
  ASSUME NEW o \in Configs
  PROVE  /\ o.there \in BOOLEAN /\ o.deleting \in BOOLEAN /\ o.finalizer \in BOOLEAN
         /\ o.imported \in BOOLEAN /\ o.valid \in BOOLEAN /\ o.aligned \in BOOLEAN
         /\ o.rv \in Nat /\ o.rows \in Rows /\ o.clusterID \in IDs \cup {NoID}
         /\ o.phase \in Phases /\ o.msg \in Messages
  BY DEF Configs

LEMMA WithType ==
  ASSUME api \in Configs, NEW o \in Configs
  PROVE  WithSpec(o) \in Configs /\ WithStatus(o) \in Configs
  BY DEF WithSpec, WithStatus, Configs

LEMMA PublishType ==
  ASSUME StoreTypeOK, NEW n \in Configs, Publish(n)
  PROVE  api' \in Configs /\ watch' \in Seq(Configs)
  <1>1. api.rv + 1 \in Nat
    BY FieldsOf DEF StoreTypeOK
  <1>2. api' \in Configs
    BY <1>1, FieldTypes DEF Publish
  <1> QED BY <1>2 DEF Publish, StoreTypeOK

LEMMA WriteType ==
  ASSUME StoreTypeOK, NEW o \in Configs, NEW n \in Configs, NEW res, Write(o, n, res)
  PROVE  api' \in Configs /\ watch' \in Seq(Configs) /\ faults' \in 0..MaxFaults
  <1> DEFINE m == [n EXCEPT !.there = ~(api.deleting /\ ~n.finalizer)]
  <1>1. m \in Configs
    BY FieldTypes
  <1>2. Commit(n) => api' \in Configs /\ watch' \in Seq(Configs)
    <2> SUFFICES ASSUME Commit(n) PROVE api' \in Configs /\ watch' \in Seq(Configs)
      OBVIOUS
    <2>1. CASE n = api /\ UNCHANGED <<api, watch>>
      BY <2>1 DEF StoreTypeOK
    <2>2. CASE Publish(m)
      <3> HIDE DEF m
      <3> QED BY <1>1, <2>2, PublishType
    <2> QED BY <2>1, <2>2 DEF Commit
  <1>3. faults' \in 0..MaxFaults
    BY BoundsAssumption DEF Write, StoreTypeOK
  <1> QED BY <1>2, <1>3 DEF Write, StoreTypeOK

LEMMA UpdateType ==
  ASSUME StoreTypeOK, NEW o \in Configs, NEW res, Update(o, res) \/ UpdateStatus(o, res)
  PROVE  api' \in Configs /\ watch' \in Seq(Configs) /\ faults' \in 0..MaxFaults
  BY WriteType, WithType DEF Update, UpdateStatus, StoreTypeOK

-----------------------------------------------------------------------------
(* How the worker's operators keep its variables in their types.           *)

LEMMA ReturnType ==
  ASSUME HandlerTypeOK, NEW e \in Messages, cfg' \in Configs
  PROVE  \A o : Return(o, e) => HandlerTypeOK'
  BY RetryAssumption DEF HandlerTypeOK, Return, PCs

LEMMA ContinueType ==
  ASSUME HandlerTypeOK, NEW p \in PCs, cfg' \in Configs
  PROVE  \A o : Continue(p, o) => HandlerTypeOK'
  BY RetryAssumption DEF HandlerTypeOK, Continue

LEMMA ProceedType ==
  ASSUME HandlerTypeOK, NEW p \in PCs, Proceed(p)
  PROVE  HandlerTypeOK'
  BY DEF HandlerTypeOK, Proceed

LEMMA ReturnUpdateStatusType ==
  ASSUME StoreTypeOK, HandlerTypeOK, NEW o \in Configs,
         ReturnUpdateStatus(o) \/ ReturnUpdateStatusAndRequeue(o)
  PROVE  /\ api' \in Configs /\ watch' \in Seq(Configs) /\ faults' \in 0..MaxFaults
         /\ HandlerTypeOK'
  <1>1. PICK res \in WriteResults :
          /\ UpdateStatus(o, res)
          /\ IF res = "ok" THEN Return(api', "none") ELSE Return(Empty, "store")
    BY DEF ReturnUpdateStatus, ReturnUpdateStatusAndRequeue
  <1>2. api' \in Configs /\ watch' \in Seq(Configs) /\ faults' \in 0..MaxFaults
    BY <1>1, UpdateType
  <1>3. cfg' \in Configs /\ err' \in Messages
    BY <1>1, <1>2, EmptyType DEF Return, Messages
  <1> QED
    BY <1>1, <1>2, <1>3, RetryAssumption DEF HandlerTypeOK, Return, PCs

LEMMA ResetType == Reset => HandlerTypeOK'
  BY EmptyType, RetryAssumption DEF Reset, HandlerTypeOK, PCs, Messages

LEMMA CallFailsType == StoreTypeOK /\ CallFails => faults' \in 0..MaxFaults
  BY BoundsAssumption DEF StoreTypeOK, CallFails

\* What a step leaves alone keeps its type.
LEMMA KeptTypes ==
  ASSUME TypeOK
  PROVE  /\ UNCHANGED <<storeVars, faults, edits>> => StoreTypeOK'
         /\ UNCHANGED <<storeVars, edits>> /\ CallFails => StoreTypeOK'
         /\ UNCHANGED cloudVars => CloudTypeOK'
         /\ UNCHANGED provisionVars => ProvisionTypeOK'
         /\ UNCHANGED handlerVars => HandlerTypeOK'
  BY CallFailsType
     DEF TypeOK, StoreTypeOK, CloudTypeOK, ProvisionTypeOK, HandlerTypeOK,
         storeVars, cloudVars, poolVars, provisionVars, handlerVars

\* A step that writes the status and is done changes nothing else.
LEMMA StatusStepType ==
  ASSUME TypeOK, NEW o \in Configs,
         UNCHANGED <<cache, edits, cloudVars, provisionVars>>,
         \/ ReturnUpdateStatus(o) /\ UNCHANGED queued
         \/ ReturnUpdateStatusAndRequeue(o)
  PROVE  TypeOK'
  <1>1. queued' \in BOOLEAN
    BY DEF ReturnUpdateStatusAndRequeue, TypeOK, StoreTypeOK
  <1> QED BY <1>1, ReturnUpdateStatusType, KeptTypes DEF TypeOK, StoreTypeOK

\* A step that returns or goes on without a write.
LEMMA QuietStepType ==
  ASSUME TypeOK, NEW o \in Configs, NEW e \in Messages, NEW p \in PCs,
         Return(o, e) \/ Continue(p, o),
         \/ UNCHANGED <<storeVars, faults, edits>>
         \/ UNCHANGED <<storeVars, edits>> /\ CallFails
         \/ UNCHANGED <<api, cache, watch, faults, edits>> /\ queued' = TRUE
  PROVE  StoreTypeOK' /\ HandlerTypeOK'
  <1>1. cfg' = o
    BY DEF Return, Continue
  <1>2. HandlerTypeOK'
    BY <1>1, ReturnType, ContinueType DEF TypeOK
  <1>3. StoreTypeOK'
    BY KeptTypes DEF TypeOK, StoreTypeOK
  <1> QED BY <1>2, <1>3

-----------------------------------------------------------------------------
(* Type correctness: one lemma per handler, one step per action.           *)

\* A modifying call of a reconcile, and the end of the step that makes it.
LEMMA ModifyTypes ==
  ASSUME TypeOK
  PROVE  Begun \/ (CreateNodePools /\ UNCHANGED drift) => CloudTypeOK'
  <1>pools. nodePools \in PoolStates /\ virtualNodePools \in PoolStates
            /\ nodes \in NodeStates /\ drift \in SUBSET Settings
            /\ protected \in SUBSET Protectable /\ clusters \in [IDs -> ClusterStates]
            /\ endpoint \in EndpointStates
    BY DEF TypeOK, CloudTypeOK
  <1>kinds. \A q \in PoolStates : ModifyPools(q) \subseteq PoolStates
    BY DEF ModifyPools, Change, Deletion, PoolStates
  <1>1. CASE UpgradeControlPlane
    BY <1>1, <1>pools DEF UpgradeControlPlane, UpdateClusterVersion, CloudTypeOK, poolVars,
                          ClusterStates
  <1>2. CASE UpgradeNodes
    BY <1>2, <1>pools DEF UpgradeNodes, CloudTypeOK, poolVars, NodeStates
  <1>3. CASE ModifyAttributes
    BY <1>3, <1>pools DEF ModifyAttributes, ModifyClusterAttribute, CloudTypeOK, poolVars,
                          Protectable
  <1>4. CASE CreateNodePools /\ drift' \in {drift, drift \cup {"nodePools"}}
    BY <1>4, <1>pools DEF CreateNodePools, CreateClusterNodePool, CloudTypeOK, poolVars,
                          PoolStates, Settings
  <1>5. CASE ModifyNodePools
    BY <1>5, <1>pools, <1>kinds DEF ModifyNodePools, CloudTypeOK
  <1>6. CASE ModifyVirtualNodePools
    BY <1>6, <1>pools, <1>kinds DEF ModifyVirtualNodePools, CloudTypeOK
  <1> QED BY <1>1, <1>2, <1>3, <1>4, <1>5, <1>6 DEF Begun

LEMMA ProvisionTypes ==
  ASSUME TypeOK, ProvisionNext
  PROVE  TypeOK'
  <1>held. cfg \in Configs /\ cache \in Configs /\ seen \in Configs /\ api \in Configs
    BY DEF TypeOK, StoreTypeOK, HandlerTypeOK
  <1>new. ASSUME NEW o \in Configs, NEW id \in NewIDs \cup {NoID}
          PROVE  [o EXCEPT !.clusterID = id] \in Configs
    BY <1>new, FieldTypes DEF IDs
  <1>1. CASE StartImport
    BY <1>1, <1>held, FieldTypes, StatusStepType DEF StartImport, Phases
  <1>2. CASE CreateRefused
    BY <1>2, <1>held, QuietStepType, KeptTypes DEF CreateRefused, TypeOK, Messages, PCs
  <1>3. CASE CreateSkipped
    BY <1>3, <1>held, QuietStepType, KeptTypes DEF CreateSkipped, TypeOK, Messages, PCs
  <1>4. CASE CreateFails
    <2>1. clusters' \in [IDs -> ClusterStates]
      BY <1>4 DEF CreateFails, CreateCluster, TypeOK, CloudTypeOK, IDs, ClusterStates
    <2>2. CloudTypeOK'
      BY <1>4, <2>1 DEF CreateFails, TypeOK, CloudTypeOK, poolVars
    <2>3. ProvisionTypeOK'
      BY <1>4 DEF CreateFails, TypeOK, ProvisionTypeOK, LosesID
    <2>4. StoreTypeOK' /\ HandlerTypeOK'
      BY <1>4, <1>held, QuietStepType DEF CreateFails, Messages, PCs
    <2> QED BY <2>2, <2>3, <2>4 DEF TypeOK
  <1>5. CASE CreateSucceeds
    <2>1. CloudTypeOK'
      BY <1>5 DEF CreateSucceeds, CreateCluster, TypeOK, CloudTypeOK, poolVars, IDs,
                  ClusterStates
    <2>2. ProvisionTypeOK'
      BY <1>5, KeptTypes DEF CreateSucceeds
    <2>3. HandlerTypeOK'
      BY <1>5, RetryAssumption DEF CreateSucceeds, TypeOK, HandlerTypeOK, PCs
    <2> QED BY <1>5, <2>1, <2>2, <2>3, KeptTypes DEF CreateSucceeds, TypeOK
  <1>6. CASE SaveID
    <2> DEFINE saved == [cache EXCEPT !.clusterID = newID]
    <2>1. saved \in Configs
      BY <1>held, <1>new DEF TypeOK, HandlerTypeOK
    <2> HIDE DEF saved
    <2>2. \A res \in WriteResults : Update(saved, res) =>
            api' \in Configs /\ watch' \in Seq(Configs) /\ faults' \in 0..MaxFaults
      BY <2>1, UpdateType DEF TypeOK
    <2>3. api' \in Configs /\ watch' \in Seq(Configs) /\ faults' \in 0..MaxFaults
      BY <1>6, <2>2 DEF SaveID, TypeOK, StoreTypeOK, saved
    <2>4. /\ cfg' \in {cfg, cache, api'} /\ seen' = seen /\ newID' \in {newID, NoID}
          /\ pc' \in {"saveID", "savePhase", "record"} /\ err' \in {err, "store"}
          /\ read' \in {read, {}}
          /\ \/ tries' = 0
             \/ tries' = tries + 1 /\ tries + 1 < Retries
      BY <1>6 DEF SaveID, Return, Continue, Again
    <2>5. HandlerTypeOK'
      BY <1>held, <2>3, <2>4, RetryAssumption DEF TypeOK, HandlerTypeOK, PCs, Messages
    <2>6. ProvisionTypeOK'
      BY <1>6 DEF SaveID, TypeOK, ProvisionTypeOK, LosesID
    <2> QED BY <1>6, <2>3, <2>5, <2>6, KeptTypes DEF SaveID, TypeOK, StoreTypeOK
  <1>7. CASE SavePhase
    <2> DEFINE saved == [cache EXCEPT !.phase = "creating", !.msg = "none"]
    <2>1. saved \in Configs
      BY <1>held, FieldTypes DEF Phases, Messages
    <2> HIDE DEF saved
    <2>2. \A res \in WriteResults : UpdateStatus(saved, res) =>
            api' \in Configs /\ watch' \in Seq(Configs) /\ faults' \in 0..MaxFaults
      BY <2>1, UpdateType DEF TypeOK
    <2>3. api' \in Configs /\ watch' \in Seq(Configs) /\ faults' \in 0..MaxFaults
      BY <1>7, <2>2 DEF SavePhase, TypeOK, StoreTypeOK, saved
    <2>4. /\ cfg' \in {cfg, cache, api'} /\ seen' = seen /\ newID' \in {newID, NoID}
          /\ pc' \in {"savePhase", "record"} /\ err' \in {err, "none", "store"}
          /\ read' \in {read, {}}
          /\ \/ tries' = 0
             \/ tries' = tries + 1 /\ tries + 1 < Retries
      BY <1>7 DEF SavePhase, Return, Again
    <2>5. HandlerTypeOK'
      BY <1>held, <2>3, <2>4, RetryAssumption DEF TypeOK, HandlerTypeOK, PCs, Messages
    <2> QED BY <1>7, <2>3, <2>5, KeptTypes DEF SavePhase, TypeOK, StoreTypeOK
  <1>8. CASE WaitFails
    BY <1>8, EmptyType, QuietStepType, KeptTypes DEF WaitFails, TypeOK, Messages, PCs, storeVars
  <1>9. CASE WaitAbnormal
    BY <1>9, <1>held, QuietStepType, KeptTypes DEF WaitAbnormal, TypeOK, Messages, PCs
  <1>10. CASE CreationComplete
    BY <1>10, <1>held, FieldTypes, StatusStepType DEF CreationComplete, Phases
  <1>11. CASE KeepWaiting
    BY <1>11, <1>held, QuietStepType, KeptTypes DEF KeepWaiting, TypeOK, Messages, PCs
  <1>12. CASE ImportRefused
    BY <1>12, <1>held, QuietStepType, KeptTypes DEF ImportRefused, TypeOK, Messages, PCs
  <1>13. CASE ImportReadFails
    BY <1>13, <1>held, QuietStepType, KeptTypes DEF ImportReadFails, TypeOK, Messages, PCs, storeVars
  <1>14. CASE ImportRead
    <2>1. Aligned \in Configs
      BY <1>held, FieldTypes DEF Aligned, Rows
    <2>2. HandlerTypeOK'
      BY <1>14, <2>1 DEF ImportRead, TypeOK, HandlerTypeOK, PCs, Messages
    <2>3. StoreTypeOK'
      BY <1>14, <2>1, CallFailsType DEF ImportRead, TypeOK, StoreTypeOK
    <2> QED BY <1>14, <2>2, <2>3, KeptTypes DEF ImportRead, TypeOK
  <1>15. CASE ImportSave
    <2>1. PICK res \in WriteResults :
            /\ Update(cfg, res)
            /\ IF res = "ok" THEN Continue("importSecret", api') ELSE Return(seen, "store")
      BY <1>15 DEF ImportSave
    <2>2. api' \in Configs /\ watch' \in Seq(Configs) /\ faults' \in 0..MaxFaults
      BY <2>1, <1>held, UpdateType DEF TypeOK
    <2>3. cfg' \in Configs
      BY <2>1, <2>2, <1>held DEF Return, Continue
    <2>4. HandlerTypeOK'
      BY <2>1, <2>3, ReturnType, ContinueType DEF TypeOK, PCs, Messages
    <2> QED BY <1>15, <2>2, <2>4, KeptTypes DEF ImportSave, TypeOK, StoreTypeOK
  <1>16. CASE ImportSecret
    <2>1. ProvisionTypeOK'
      BY <1>16 DEF ImportSecret, CreateCASecret, TypeOK, ProvisionTypeOK
    <2> QED
      BY <1>16, <2>1, <1>held, QuietStepType, KeptTypes DEF ImportSecret, TypeOK, Messages, PCs, storeVars
  <1>17. CASE ImportActive
    BY <1>17, <1>held, FieldTypes, StatusStepType DEF ImportActive, Phases
  <1> QED BY <1>1, <1>2, <1>3, <1>4, <1>5, <1>6, <1>7, <1>8, <1>9, <1>10, <1>11, <1>12,
             <1>13, <1>14, <1>15, <1>16, <1>17 DEF ProvisionNext

LEMMA CheckUpdateTypes ==
  ASSUME TypeOK, CheckUpdateNext
  PROVE  TypeOK'
  <1>held. cfg \in Configs /\ cache \in Configs /\ seen \in Configs /\ api \in Configs
    BY DEF TypeOK, StoreTypeOK, HandlerTypeOK
  <1>status. \A p \in Phases : [cfg EXCEPT !.phase = p] \in Configs
    BY <1>held, FieldTypes
  <1>1. CASE UpdateRefused
    BY <1>1, <1>status, StatusStepType DEF UpdateRefused, Phases
  <1>2. CASE UpdateReadFails
    BY <1>2, <1>held, EmptyType, QuietStepType, KeptTypes
       DEF UpdateReadFails, TypeOK, Messages, PCs, storeVars
  <1>3. CASE AwaitCluster
    <2>1. CASE cfg.phase # "updating"
      BY <1>3, <2>1, <1>status, StatusStepType DEF AwaitCluster, Phases
    <2>2. CASE cfg.phase = "updating"
      BY <1>3, <2>2, <1>held, QuietStepType, KeptTypes DEF AwaitCluster, TypeOK, Messages, PCs
    <2> QED BY <2>1, <2>2
  <1>4. CASE AwaitPools
    <2>1. CASE cfg.phase # "updating"
      BY <1>4, <2>1, <1>status, StatusStepType DEF AwaitPools, Phases
    <2>2. CASE cfg.phase = "updating"
      BY <1>4, <2>2, <1>held, QuietStepType, KeptTypes DEF AwaitPools, TypeOK, Messages, PCs
    <2> QED BY <2>1, <2>2
  <1>5. CASE GetCluster
    <2>1. HandlerTypeOK'
      BY <1>5 DEF GetCluster, TypeOK, HandlerTypeOK, PCs, Readings
    <2> QED BY <1>5, <2>1, KeptTypes DEF GetCluster, TypeOK
  <1>21. CASE GetNodePools
    <2>1. HandlerTypeOK'
      BY <1>21 DEF GetNodePools, TypeOK, HandlerTypeOK, PCs, Readings
    <2> QED BY <1>21, <2>1, KeptTypes DEF GetNodePools, TypeOK
  <1>22. CASE GetStatus
    BY <1>22, ProceedType, KeptTypes DEF GetStatus, TypeOK, PCs
  <1>23. CASE GetVirtualNodePools
    BY <1>23, ProceedType, KeptTypes DEF GetVirtualNodePools, TypeOK, PCs
  <1>6. CASE SyncFails
    <2>1. CloudTypeOK'
      BY <1>6, ModifyTypes, KeptTypes DEF SyncFails
    <2> QED BY <1>6, <2>1, <1>held, QuietStepType, KeptTypes
            DEF SyncFails, TypeOK, Messages, PCs, storeVars
  <1>enqueue. ASSUME EnqueueUpdate, UNCHANGED <<api, cache, watch, faults, edits>>
              PROVE  StoreTypeOK' /\ HandlerTypeOK'
    BY <1>enqueue, <1>held, QuietStepType DEF EnqueueUpdate, Messages, PCs, storeVars
  <1>7. CASE SyncVersion
    <2>1. CloudTypeOK'
      BY <1>7, ModifyTypes, KeptTypes DEF SyncVersion, Begun
    <2>2. CASE EnqueueUpdate
      BY <1>7, <2>1, <2>2, <1>enqueue, KeptTypes DEF SyncVersion, TypeOK
    <2>3. CASE Return(cfg, "cloud") /\ UNCHANGED queued
      BY <1>7, <2>1, <2>3, <1>held, QuietStepType, KeptTypes
         DEF SyncVersion, TypeOK, Messages, PCs, storeVars
    <2> QED BY <1>7, <2>2, <2>3 DEF SyncVersion
  <1>8. CASE AwaitNodeUpgrade
    BY <1>8, <1>held, QuietStepType, KeptTypes DEF AwaitNodeUpgrade, TypeOK, Messages, PCs
  <1>24. CASE NoNodeUpgrade
    <2>1. StoreTypeOK'
      BY <1>24, KeptTypes DEF NoNodeUpgrade, storeVars
    <2> QED BY <1>24, <2>1, ProceedType, KeptTypes DEF NoNodeUpgrade, TypeOK, PCs
  <1>25. CASE CheckNodes
    BY <1>25, ProceedType, KeptTypes DEF CheckNodes, TypeOK, PCs
  <1>26. CASE TriggerNodeUpgrade
    <2>1. CloudTypeOK'
      BY <1>26, ModifyTypes, KeptTypes DEF TriggerNodeUpgrade, Begun
    <2> QED BY <1>26, <2>1, <1>held, QuietStepType, KeptTypes
            DEF TriggerNodeUpgrade, TypeOK, Messages, PCs, storeVars
  <1>9. CASE SyncModify
    <2>1. CloudTypeOK'
      BY <1>9, ModifyTypes DEF SyncModify, Begun
    <2> QED BY <1>9, <2>1, <1>enqueue, KeptTypes DEF SyncModify, TypeOK
  <1>10. CASE EnqueueGet
    <2>1. StoreTypeOK'
      BY <1>10, KeptTypes DEF EnqueueGet, storeVars
    <2>2. HandlerTypeOK'
      BY <1>10, <1>held, EmptyType, ReturnType DEF EnqueueGet, Return, TypeOK, HandlerTypeOK, PCs, Messages
    <2> QED BY <1>10, <2>1, <2>2, KeptTypes DEF EnqueueGet, TypeOK
  <1>11. CASE EnqueuePut
    <2>1. PICK res \in WriteResults :
            /\ UpdateStatus([cfg EXCEPT !.phase = "updating"], res)
            /\ \/ res = "ok" /\ Return(api', "none")
               \/ /\ res = "conflict" /\ tries + 1 < Retries
                  /\ pc' = "enqueueGet" /\ tries' = tries + 1
                  /\ UNCHANGED <<seen, cfg, err, newID, read>>
               \/ GivesUp(res) /\ Return(Empty, "store")
      BY <1>11 DEF EnqueuePut
    <2>2. api' \in Configs /\ watch' \in Seq(Configs) /\ faults' \in 0..MaxFaults
      BY <2>1, <1>status, UpdateType DEF TypeOK, Phases
    <2>3. HandlerTypeOK'
      BY <2>1, <2>2, <1>held, EmptyType, RetryAssumption
         DEF Return, TypeOK, HandlerTypeOK, PCs, Messages
    <2> QED BY <1>11, <2>2, <2>3, KeptTypes DEF EnqueuePut, TypeOK, StoreTypeOK
  <1>12. CASE FinishWithoutPools
    BY <1>12, <1>status, StatusStepType DEF FinishWithoutPools, Phases
  <1>13. CASE CreateRows
    <2>1. cfg' \in Configs
      BY <1>13, <1>held, FieldTypes DEF CreateRows, Rows
    <2>2. StoreTypeOK'
      BY <1>13, <2>1 DEF CreateRows, TypeOK, StoreTypeOK
    <2>3. CloudTypeOK'
      BY <1>13, ModifyTypes DEF CreateRows
    <2>4. HandlerTypeOK'
      BY <1>13, <2>1 DEF CreateRows, TypeOK, HandlerTypeOK, PCs
    <2> QED BY <1>13, <2>2, <2>3, <2>4, KeptTypes DEF CreateRows, TypeOK
  <1>14. CASE SaveRows
    <2>1. PICK res \in WriteResults :
            /\ Update(cfg, res)
            /\ IF res = "ok" THEN Return(api', "none") ELSE Return(Empty, "store")
      BY <1>14 DEF SaveRows
    <2>2. api' \in Configs /\ watch' \in Seq(Configs) /\ faults' \in 0..MaxFaults
      BY <2>1, <1>held, UpdateType DEF TypeOK
    <2>3. cfg' \in Configs
      BY <2>1, <2>2, EmptyType DEF Return
    <2>4. HandlerTypeOK'
      BY <2>1, <2>3, ReturnType DEF TypeOK, Messages
    <2> QED BY <1>14, <2>2, <2>4, KeptTypes DEF SaveRows, TypeOK, StoreTypeOK
  <1>15. CASE SyncDone
    BY <1>15, <1>held, QuietStepType, KeptTypes DEF SyncDone, TypeOK, Messages, PCs
  <1>16. CASE EndpointMissing
    <2>1. CloudTypeOK'
      BY <1>16 DEF EndpointMissing, TypeOK, CloudTypeOK, poolVars, EndpointStates
    <2> QED BY <1>16, <2>1, <1>held, QuietStepType, KeptTypes
            DEF EndpointMissing, TypeOK, Messages, PCs
  <1>17. CASE EndpointCreating
    BY <1>17, <1>held, QuietStepType, KeptTypes DEF EndpointCreating, TypeOK, Messages, PCs
  <1>18. CASE EndpointCreated
    <2>1. ProvisionTypeOK'
      BY <1>18 DEF EndpointCreated, CreateCASecret, TypeOK, ProvisionTypeOK
    <2> QED BY <1>18, <2>1, <1>held, QuietStepType, KeptTypes
            DEF EndpointCreated, TypeOK, Messages, PCs
  <1>19. CASE EndpointFails
    <2>1. CloudTypeOK'
      BY <1>19 DEF EndpointFails, TypeOK, CloudTypeOK, poolVars, EndpointStates
    <2> QED BY <1>19, <2>1, <1>held, QuietStepType, KeptTypes
            DEF EndpointFails, TypeOK, Messages, PCs, storeVars
  <1>20. CASE Finish
    <2>1. CASE cfg.phase # "active"
      BY <1>20, <2>1, <1>status, StatusStepType DEF Finish, Phases
    <2>2. CASE cfg.phase = "active"
      BY <1>20, <2>2, <1>held, QuietStepType, KeptTypes DEF Finish, TypeOK, Messages, PCs, storeVars
    <2> QED BY <2>1, <2>2
  <1> QED BY <1>1, <1>2, <1>3, <1>4, <1>5, <1>6, <1>7, <1>8, <1>9, <1>10, <1>11, <1>12,
             <1>13, <1>14, <1>15, <1>16, <1>17, <1>18, <1>19, <1>20, <1>21, <1>22, <1>23,
             <1>24, <1>25, <1>26 DEF CheckUpdateNext

LEMMA RemovalTypes ==
  ASSUME TypeOK, RemovalNext, UNCHANGED provisionVars
  PROVE  TypeOK'
  <1>held. cfg \in Configs /\ api \in Configs
    BY DEF TypeOK, StoreTypeOK, HandlerTypeOK
  <1>1. ProvisionTypeOK'
    BY KeptTypes
  <1>2. \A p \in PCs : Proceed(p) => HandlerTypeOK'
    BY ProceedType DEF TypeOK
  <1>3. RemovalDone => HandlerTypeOK'
    BY RetryAssumption DEF RemovalDone, TypeOK, HandlerTypeOK, PCs
  <1>4. \A e \in Messages : RemovalFails(e) => HandlerTypeOK'
    BY RetryAssumption DEF RemovalFails, TypeOK, HandlerTypeOK, PCs
  <1>5. Sleep => HandlerTypeOK'
    BY <1>4, RetryAssumption DEF Sleep, TypeOK, HandlerTypeOK, PCs, Messages
  <1>6. \A m \in Messages : RecordRemoveError(m) =>
          api' \in Configs /\ watch' \in Seq(Configs) /\ faults' \in 0..MaxFaults
    BY <1>held, FieldTypes, UpdateType DEF RecordRemoveError, TypeOK, StoreTypeOK
  <1>7. CASE RemoveNothing
    BY <1>7, <1>1, <1>3, KeptTypes DEF RemoveNothing, TypeOK
  <1>8. CASE RemoveReadFails
    BY <1>8, <1>1, <1>4, KeptTypes DEF RemoveReadFails, TypeOK, Messages
  <1>9. CASE RemoveAlreadyGone
    BY <1>9, <1>1, <1>3, <1>6, KeptTypes DEF RemoveAlreadyGone, TypeOK, StoreTypeOK, Messages
  <1>10. CASE RemoveFound
    <2>1. HandlerTypeOK'
      BY <1>10 DEF RemoveFound, TypeOK, HandlerTypeOK, PCs, Readings
    <2> QED BY <1>10, <1>1, <2>1, KeptTypes DEF RemoveFound, TypeOK
  <1>11. \A p \in PCs, e \in Messages : ProtectionChecked(p, e) => HandlerTypeOK'
    BY DEF ProtectionChecked, TypeOK, HandlerTypeOK
  <1>21. CASE CheckNodePools
    BY <1>21, <1>1, <1>11, KeptTypes DEF CheckNodePools, TypeOK, PCs, Messages
  <1>22. CASE CheckVirtualNodePools
    BY <1>22, <1>1, <1>11, KeptTypes DEF CheckVirtualNodePools, TypeOK, PCs, Messages
  <1>23. CASE ProtectionUnknown
    <2>1. StoreTypeOK'
      BY <1>23, KeptTypes DEF ProtectionUnknown, storeVars
    <2> QED BY <1>23, <1>1, <1>11, <2>1, KeptTypes DEF ProtectionUnknown, TypeOK, PCs, Messages
  <1>12. CASE ReportProtection
    <2>1. err \in Messages
      BY DEF TypeOK, HandlerTypeOK
    <2>2. HandlerTypeOK'
      BY <1>12, <1>2, <1>4, <2>1 DEF ReportProtection, PCs
    <2> QED BY <1>12, <1>1, <1>6, <2>1, <2>2, KeptTypes
            DEF ReportProtection, TypeOK, StoreTypeOK
  <1>13. CASE NodePoolsDeleted
    BY <1>13, <1>1, <1>2, KeptTypes DEF NodePoolsDeleted, TypeOK, PCs
  <1>14. CASE DeleteNodePools
    <2>1. CloudTypeOK'
      BY <1>14 DEF DeleteNodePools, Deletion, TypeOK, CloudTypeOK, PoolStates
    <2>2. HandlerTypeOK'
      BY <1>14, <1>4, <1>5 DEF DeleteNodePools, Messages
    <2> QED BY <1>14, <1>1, <2>1, <2>2, KeptTypes DEF DeleteNodePools, TypeOK
  <1>15. CASE VirtualNodePoolsDeleted
    BY <1>15, <1>1, <1>2, KeptTypes DEF VirtualNodePoolsDeleted, TypeOK, PCs
  <1>16. CASE DeleteVirtualNodePools
    <2>1. CloudTypeOK'
      BY <1>16 DEF DeleteVirtualNodePools, Deletion, TypeOK, CloudTypeOK, PoolStates
    <2>2. HandlerTypeOK'
      BY <1>16, <1>4, <1>5 DEF DeleteVirtualNodePools, Messages
    <2> QED BY <1>16, <1>1, <2>1, <2>2, KeptTypes DEF DeleteVirtualNodePools, TypeOK
  <1>17. CASE RemoveCluster
    <2>1. CloudTypeOK'
      BY <1>17 DEF RemoveCluster, DeleteCluster, TypeOK, CloudTypeOK, poolVars, ClusterStates
    <2> QED BY <1>17, <1>1, <1>3, <2>1, KeptTypes DEF RemoveCluster, TypeOK
  <1>18. CASE RemoveClusterRefused
    BY <1>18, <1>1, <1>4, KeptTypes DEF RemoveClusterRefused, TypeOK, Messages
  <1>19. CASE RemovalCallFails
    <2>1. CloudTypeOK'
      BY <1>19 DEF RemovalCallFails, DeleteCluster, Deletion, TypeOK, CloudTypeOK, poolVars,
                   ClusterStates, PoolStates
    <2> QED BY <1>19, <1>1, <1>4, <2>1, KeptTypes DEF RemovalCallFails, TypeOK, Messages
  <1>20. CASE DropFinalizer
    <2>1. [cfg EXCEPT !.finalizer = FALSE] \in Configs
      BY <1>held, FieldTypes
    <2>2. api' \in Configs /\ watch' \in Seq(Configs) /\ faults' \in 0..MaxFaults
      BY <1>20, <2>1, UpdateType DEF DropFinalizer, TypeOK
    <2>3. HandlerTypeOK'
      BY <1>20 DEF DropFinalizer, TypeOK, HandlerTypeOK, PCs, Messages
    <2> QED BY <1>20, <1>1, <2>2, <2>3, KeptTypes DEF DropFinalizer, TypeOK, StoreTypeOK
  <1> QED BY <1>7, <1>8, <1>9, <1>10, <1>11, <1>12, <1>13, <1>14, <1>15, <1>16, <1>17,
             <1>18, <1>19, <1>20, <1>21, <1>22, <1>23 DEF RemovalNext

LEMMA FrameTypes ==
  ASSUME TypeOK, Frame
  PROVE  TypeOK'
  <1>held. cfg \in Configs /\ seen \in Configs /\ cache \in Configs
    BY DEF TypeOK, StoreTypeOK, HandlerTypeOK
  <1>1. CASE Begin
    <2>1. HandlerOf(cache.phase) \in PCs
      BY <1>held, FieldsOf DEF HandlerOf, PCs, Phases
    <2>2. HandlerTypeOK'
      BY <1>1, <1>held, <2>1 DEF Begin, TypeOK, HandlerTypeOK, PCs
    <2>3. StoreTypeOK'
      BY <1>1 DEF Begin, TypeOK, StoreTypeOK
    <2> QED BY <1>1, <2>2, <2>3, KeptTypes DEF Begin, Frame, TypeOK
  <1>2. CASE RecordError
    <2>1. Recorded \in Configs
      <3>1. err \in Messages /\ cfg.phase \in Phases
        BY <1>held, FieldsOf DEF TypeOK, HandlerTypeOK
      <3>2. (IF err # "none" /\ cfg.phase = "active" THEN "updating" ELSE cfg.phase) \in Phases
        BY <3>1 DEF Phases
      <3>3. [cfg EXCEPT !.msg = err] \in Configs
        BY <1>held, <3>1, FieldTypes
      <3> QED BY <1>held, <3>1, <3>2, FieldTypes DEF Recorded
    <2>2. \A res : UpdateStatus(Recorded, res) =>
            api' \in Configs /\ watch' \in Seq(Configs) /\ faults' \in 0..MaxFaults
      BY <2>1, UpdateType DEF TypeOK
    <2>3. api' \in Configs /\ watch' \in Seq(Configs) /\ faults' \in 0..MaxFaults
      BY <1>2, <2>2 DEF RecordError, TypeOK, StoreTypeOK
    <2>4. cfg' \in {cfg, api', Empty} /\ pc' = "addFinalizer"
      BY <1>2 DEF RecordError
    <2>5. HandlerTypeOK'
      BY <1>2, <1>held, <2>3, <2>4, EmptyType DEF RecordError, TypeOK, HandlerTypeOK, PCs
    <2> QED BY <1>2, <2>3, <2>5, KeptTypes DEF RecordError, Frame, TypeOK, StoreTypeOK
  <1>3. CASE AddFinalizer
    <2>1. [Returned EXCEPT !.finalizer = TRUE] \in Configs
      BY <1>held, FieldTypes DEF Returned
    <2>2. \A res : Update([Returned EXCEPT !.finalizer = TRUE], res) =>
            api' \in Configs /\ watch' \in Seq(Configs) /\ faults' \in 0..MaxFaults
      BY <2>1, UpdateType DEF TypeOK
    <2>3. api' \in Configs /\ watch' \in Seq(Configs) /\ faults' \in 0..MaxFaults
      BY <1>3, <2>2 DEF AddFinalizer, TypeOK, StoreTypeOK
    <2>4. HandlerTypeOK'
      BY <1>3 DEF AddFinalizer, TypeOK, HandlerTypeOK, PCs, Messages
    <2> QED BY <1>3, <2>3, <2>4, KeptTypes DEF AddFinalizer, Frame, TypeOK, StoreTypeOK
  <1>4. CASE End
    BY <1>4, ResetType, KeptTypes DEF End, Frame, TypeOK, StoreTypeOK
  <1> QED BY <1>1, <1>2, <1>3, <1>4 DEF Frame

LEMMA EnvironmentTypes ==
  ASSUME TypeOK, Restart \/ Notify \/ User \/ Cloud
  PROVE  TypeOK'
  <1>1. CASE Restart
    <2>1. StoreTypeOK'
      BY <1>1, FieldsOf, BoundsAssumption DEF Restart, Crash, TypeOK, StoreTypeOK
    <2>2. ProvisionTypeOK'
      BY <1>1 DEF Restart, LosesID, TypeOK, ProvisionTypeOK
    <2> QED BY <1>1, <2>1, <2>2, ResetType, KeptTypes DEF Restart, Crash, TypeOK
  <1>2. CASE Notify
    <2>1. StoreTypeOK'
      BY <1>2 DEF Notify, Deliver, TypeOK, StoreTypeOK
    <2> QED BY <1>2, <2>1, KeptTypes DEF Notify, TypeOK
  <1>3. CASE User
    <2>held. api \in Configs
      BY DEF TypeOK, StoreTypeOK
    <2>1. ASSUME NEW n \in Configs, Publish(n), UNCHANGED <<cache, queued, faults>>,
                 edits' \in 0..MaxEdits
          PROVE  StoreTypeOK'
      BY <2>1, PublishType DEF TypeOK, StoreTypeOK
    <2>2. edits' \in 0..MaxEdits /\ UNCHANGED <<cache, queued, faults>>
      BY <1>3, BoundsAssumption DEF User, UserEdit, UserDelete, TypeOK, StoreTypeOK
    <2>3. ASSUME UserEdit PROVE StoreTypeOK'
      <3>1. /\ [api EXCEPT !.valid = ~@] \in Configs
            /\ [api EXCEPT !.rows = "new"] \in Configs
            /\ [api EXCEPT !.rows = "nil"] \in Configs
        BY <2>held, FieldTypes DEF Rows
      <3> QED BY <2>1, <2>2, <2>3, <3>1 DEF UserEdit
    <2>4. ASSUME UserDelete PROVE StoreTypeOK'
      <3>1. [api EXCEPT !.deleting = @ \/ api.finalizer, !.there = api.finalizer] \in Configs
        BY <2>held, FieldTypes, FieldsOf
      <3> QED BY <2>1, <2>2, <2>4, <3>1 DEF UserDelete
    <2>5. StoreTypeOK'
      BY <1>3, <2>3, <2>4 DEF User
    <2> QED BY <1>3, <2>5, KeptTypes DEF User, TypeOK
  <1>4. CASE Cloud
    <2>1. ASSUME NEW id \in IDs, ClusterProgress(id) PROVE CloudTypeOK'
      BY <2>1 DEF ClusterProgress, TypeOK, CloudTypeOK, ClusterStates, NodeStates, poolVars
    <2>2. ASSUME PoolProgress \/ NodeProgress \/ EndpointProgress PROVE CloudTypeOK'
      BY <2>2 DEF PoolProgress, PoolsSettle, NodeProgress, EndpointProgress, TypeOK,
                  CloudTypeOK, PoolStates, NodeStates, EndpointStates, poolVars
    <2>3. ASSUME NodeUpgradeFails PROVE CloudTypeOK'
      BY <2>3 DEF NodeUpgradeFails, TypeOK, CloudTypeOK, NodeStates, poolVars
    <2>4. ASSUME Console PROVE CloudTypeOK'
      <3>1. clusters' \in [IDs -> ClusterStates]
        BY <2>4 DEF Console, DeleteCluster, TypeOK, CloudTypeOK, ClusterStates
      <3>2. protected' \subseteq Protectable
        BY <2>4 DEF Console, TypeOK, CloudTypeOK
      <3> QED BY <2>4, <3>1, <3>2 DEF Console, TypeOK, CloudTypeOK, PoolStates, poolVars
    <2>5. CloudTypeOK'
      BY <1>4, <2>1, <2>2, <2>3, <2>4 DEF Cloud, CloudProgress
    <2>6. StoreTypeOK'
      <3>1. faults' \in 0..MaxFaults
        BY <1>4, CallFailsType DEF Cloud, NodeUpgradeFails, TypeOK, StoreTypeOK
      <3>2. edits' \in 0..MaxEdits
        BY <1>4, BoundsAssumption DEF Cloud, Console, TypeOK, StoreTypeOK
      <3> QED BY <1>4, <3>1, <3>2 DEF Cloud, storeVars, TypeOK, StoreTypeOK
    <2> QED BY <1>4, <2>5, <2>6, KeptTypes DEF Cloud, TypeOK
  <1> QED BY <1>1, <1>2, <1>3, <1>4

LEMMA InitTypes == Init => TypeOK
  <1> SUFFICES ASSUME Init PROVE TypeOK
    OBVIOUS
  <1>1. api \in Configs
    <2>1. PICK kind \in Kinds : api \in NewResource(kind)
      BY DEF Init
    <2>2. ASSUME NEW v \in BOOLEAN, NEW r \in {"nil", "new"}
          PROVE  Resource(kind, v, r) \in Configs
      <3>1. (kind \in {"import", "noID"}) \in BOOLEAN
        OBVIOUS
      <3>2. (IF kind \in {"create", "noID"} THEN NoID ELSE Existing) \in IDs \cup {NoID}
        BY DEF IDs
      <3> QED BY EmptyType, <3>1, <3>2 DEF Resource, Configs, Rows
    <2> QED BY <2>1, <2>2 DEF NewResource
  <1>2. StoreTypeOK
    BY <1>1, BoundsAssumption DEF Init, StoreTypeOK
  <1>3. CloudTypeOK
    BY DEF Init, CloudTypeOK, ClusterStates, PoolStates, NodeStates, Protectable, EndpointStates
  <1>4. HandlerTypeOK
    BY EmptyType, RetryAssumption DEF Init, HandlerTypeOK, PCs, Messages
  <1> QED BY <1>2, <1>3, <1>4 DEF Init, TypeOK, ProvisionTypeOK

LEMMA NextTypes == TypeOK /\ [Next]_vars => TypeOK'
  <1> SUFFICES ASSUME TypeOK, [Next]_vars PROVE TypeOK'
    OBVIOUS
  <1>1. CASE UNCHANGED vars
    BY <1>1, KeptTypes DEF vars, TypeOK
  <1> QED
    BY <1>1, FrameTypes, ProvisionTypes, CheckUpdateTypes, RemovalTypes, EnvironmentTypes
       DEF Next, Step, Remove

\* Every variable keeps its type, in every behaviour.
THEOREM TypeCorrect == Spec => []TypeOK
  BY InitTypes, NextTypes, PTL DEF Spec
=============================================================================
