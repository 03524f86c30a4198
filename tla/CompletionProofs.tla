-------------------------- MODULE CompletionProofs --------------------------
(***************************************************************************)
(* What is complete when a resource settles and when it goes: an imported  *)
(* one that is active was read from the cloud and has its secret, a worker *)
(* that drops the finalizer has had the cluster deleted, and the cluster's *)
(* node pools before it, for every value of the constants of Lifecycle.    *)
(***************************************************************************)
EXTENDS LifecycleProofs

(***************************************************************************)
(* Imported resources.                                                     *)
(***************************************************************************)

\* What an active import must have.
Complete == api.aligned /\ secret

\* An object as old as the stored one is aligned with the cloud when that is.
AlignedSeen == \A o \in Held : o.there /\ o.rv = api.rv /\ api.aligned => o.aligned

\* No import is ever being created, one that is past its beginning is complete, and
\* on the way there the worker has done what the next call supposes.
ImportStays ==
  /\ \A o \in Held \cup {api} : o.imported =>
       /\ o.phase # "creating"
       /\ o.phase \in {"active", "updating"} => Complete
  /\ pc \in {"saveID", "savePhase"} => ~api.imported
  /\ pc = "wait" => ~cfg.imported
  /\ pc = "importSave" => cfg.aligned
  /\ pc \in {"importSecret", "importActive"} => api.aligned
  /\ pc = "importActive" => secret
  /\ pc \in UpdatePCs /\ cfg.imported => Complete

-----------------------------------------------------------------------------
(* Writes.                                                                 *)

\* o has what a held version h has, but for fields that writers change.
LEMMA UpdateAligned ==
  ASSUME StoreTypeOK, NEW o \in Configs, NEW res, Update(o, res),
         Current(o) /\ api.aligned => o.aligned
  PROVE  /\ api.aligned => api'.aligned
         /\ res = "ok" => api'.aligned = o.aligned
  <1>1. CASE UNCHANGED <<api, watch>> /\ res # "ok"
    BY <1>1
  <1>2. CASE Current(o) /\ Commit(WithSpec(o))
    <2>1. WithSpec(o) \in Configs
      BY WithType DEF StoreTypeOK
    <2>2. WithSpec(o).aligned = o.aligned
      BY DEF WithSpec, StoreTypeOK, Configs
    <2>3. api'.aligned = WithSpec(o).aligned
      BY <1>2, <2>1 DEF Commit, Publish, Configs
    <2> QED BY <1>2, <2>2, <2>3
  <1> QED BY <1>1, <1>2 DEF Update, Write

LEMMA UpdateStatusAligned ==
  ASSUME StoreTypeOK, NEW o \in Configs, NEW res, UpdateStatus(o, res)
  PROVE  api'.aligned = api.aligned
  <1>1. CASE UNCHANGED <<api, watch>>
    BY <1>1
  <1>2. CASE Current(o) /\ Commit(WithStatus(o))
    <2>1. WithStatus(o) \in Configs /\ WithStatus(o).aligned = api.aligned
      BY WithType DEF WithStatus, StoreTypeOK, Configs
    <2> QED BY <1>2, <2>1 DEF Commit, Publish, Configs
  <1> QED BY <1>1, <1>2 DEF UpdateStatus, Write

LEMMA ReturnedStatusAligned ==
  ASSUME StoreTypeOK, NEW o \in Configs,
         ReturnUpdateStatus(o) \/ ReturnUpdateStatusAndRequeue(o)
  PROVE  api'.aligned = api.aligned
  BY UpdateStatusAligned DEF ReturnUpdateStatus, ReturnUpdateStatusAndRequeue

LEMMA PhaseAligned ==
  ASSUME TypeOK, NEW p \in Phases,
         \/ ReturnUpdateStatus([cfg EXCEPT !.phase = p])
         \/ ReturnUpdateStatusAndRequeue([cfg EXCEPT !.phase = p])
  PROVE  api'.aligned = api.aligned
  <1>1. StoreTypeOK /\ cfg \in Configs
    BY DEF TypeOK, HandlerTypeOK
  <1>2. [cfg EXCEPT !.phase = p] \in Configs
    BY <1>1, CurrentPhase
  <1> QED BY <1>1, <1>2, ReturnedStatusAligned

LEMMA ProvisionAligned ==
  ASSUME TypeOK, AlignedSeen, ProvisionNext
  PROVE  /\ api.aligned => api'.aligned
         /\ ImportSave /\ pc' = "importSecret" => api'.aligned = cfg.aligned
  <1>held. StoreTypeOK /\ cfg \in Configs /\ cache \in Configs
    BY DEF TypeOK, StoreTypeOK, HandlerTypeOK
  <1>1. CASE StartImport \/ CreationComplete \/ ImportActive
    <2>1. pc' # "importSecret"
      BY <1>1 DEF StartImport, CreationComplete, ImportActive, ReturnUpdateStatus, Return
    <2>2. {"importing", "active"} \subseteq Phases
      BY DEF Phases
    <2> QED BY <1>1, <2>1, <2>2, PhaseAligned DEF StartImport, CreationComplete, ImportActive
  <1>2. CASE SaveID
    <2> DEFINE saved == [cache EXCEPT !.clusterID = newID]
    <2>1. saved \in Configs /\ (Current(saved) /\ api.aligned => saved.aligned)
      BY <1>held DEF Configs, IDs, TypeOK, HandlerTypeOK, AlignedSeen, Held, Current
    <2> HIDE DEF saved
    <2>2. \A res \in WriteResults : Update(saved, res) => (api.aligned => api'.aligned)
      BY <1>held, <2>1, UpdateAligned
    <2> QED BY <1>2, <2>2 DEF SaveID, saved, ImportSave
  <1>3. CASE SavePhase
    <2> DEFINE saved == [cache EXCEPT !.phase = "creating", !.msg = "none"]
    <2>1. saved \in Configs
      BY <1>held DEF Configs, Phases, Messages
    <2> HIDE DEF saved
    <2>2. \A res \in WriteResults : UpdateStatus(saved, res) => api'.aligned = api.aligned
      BY <1>held, <2>1, UpdateStatusAligned
    <2> QED BY <1>3, <2>2 DEF SavePhase, saved, ImportSave
  <1>4. CASE ImportSave
    <2>1. PICK res \in WriteResults :
            /\ Update(cfg, res)
            /\ IF res = "ok" THEN Continue("importSecret", api') ELSE Return(seen, "store")
      BY <1>4 DEF ImportSave
    <2>2. Current(cfg) /\ api.aligned => cfg.aligned
      BY DEF AlignedSeen, Held, Current
    <2>3. /\ api.aligned => api'.aligned
          /\ res = "ok" => api'.aligned = cfg.aligned
      BY <1>held, <2>1, <2>2, UpdateAligned
    <2> QED BY <2>1, <2>3 DEF Return
  <1>5. CASE \/ CreateRefused \/ CreateSkipped \/ CreateFails \/ CreateSucceeds
             \/ WaitFails \/ WaitAbnormal \/ KeepWaiting
             \/ ImportRefused \/ ImportReadFails \/ ImportRead \/ ImportSecret
    BY <1>5 DEF CreateRefused, CreateSkipped, CreateFails, CreateSucceeds, WaitFails,
       WaitAbnormal, KeepWaiting, ImportRefused, ImportReadFails, ImportRead, ImportSecret,
       ImportSave, storeVars
  <1> QED BY <1>1, <1>2, <1>3, <1>4, <1>5 DEF ProvisionNext

LEMMA CheckUpdateAligned ==
  ASSUME TypeOK, AlignedSeen, CheckUpdateNext
  PROVE  api.aligned => api'.aligned
  <1>held. StoreTypeOK /\ cfg \in Configs
    BY DEF TypeOK, StoreTypeOK, HandlerTypeOK
  <1>phases. {"active", "updating"} \subseteq Phases
    BY DEF Phases
  <1>1. CASE UpdateRefused \/ FinishWithoutPools
    BY <1>1, <1>phases, PhaseAligned DEF UpdateRefused, FinishWithoutPools
  <1>2. CASE AwaitCluster \/ AwaitPools
    BY <1>2, <1>phases, PhaseAligned DEF AwaitCluster, AwaitPools
  <1>3. CASE Finish
    BY <1>3, <1>phases, PhaseAligned DEF Finish
  <1>4. CASE EnqueuePut
    <2>1. PICK res \in WriteResults : UpdateStatus([cfg EXCEPT !.phase = "updating"], res)
      BY <1>4 DEF EnqueuePut
    <2>2. [cfg EXCEPT !.phase = "updating"] \in Configs
      BY <1>held, <1>phases, CurrentPhase
    <2> QED BY <1>held, <2>1, <2>2, UpdateStatusAligned
  <1>5. CASE SaveRows
    <2>1. Current(cfg) /\ api.aligned => cfg.aligned
      BY DEF AlignedSeen, Held, Current
    <2> QED BY <1>5, <1>held, <2>1, UpdateAligned DEF SaveRows
  <1>6. CASE \/ UpdateReadFails \/ GetCluster \/ GetNodePools \/ GetStatus
             \/ GetVirtualNodePools \/ SyncFails \/ SyncVersion \/ AwaitNodeUpgrade
             \/ NoNodeUpgrade \/ CheckNodes \/ TriggerNodeUpgrade \/ SyncModify \/ EnqueueGet
             \/ CreateRows \/ SyncDone \/ EndpointMissing \/ EndpointCreating
             \/ EndpointCreated \/ EndpointFails
    BY <1>6 DEF UpdateReadFails, GetCluster, GetNodePools, GetStatus, GetVirtualNodePools,
       SyncFails, SyncVersion, AwaitNodeUpgrade, NoNodeUpgrade, CheckNodes, TriggerNodeUpgrade,
       Proceed, SyncModify, EnqueueGet, CreateRows, SyncDone, EndpointMissing,
       EndpointCreating, EndpointCreated, EndpointFails, storeVars
  <1> QED BY <1>1, <1>2, <1>3, <1>4, <1>5, <1>6 DEF CheckUpdateNext

LEMMA RemovalAligned ==
  ASSUME TypeOK, AlignedSeen, RemovalNext
  PROVE  api.aligned => api'.aligned
  <1>held. StoreTypeOK /\ cfg \in Configs
    BY DEF TypeOK, StoreTypeOK, HandlerTypeOK
  <1>1. ASSUME NEW m \in Messages, RecordRemoveError(m) PROVE api'.aligned = api.aligned
    <2>1. [cfg EXCEPT !.msg = m] \in Configs
      BY <1>held DEF Configs
    <2> QED BY <1>held, <1>1, <2>1, UpdateStatusAligned DEF RecordRemoveError
  <1>2. CASE RemoveAlreadyGone \/ ReportProtection
    BY <1>1, <1>2 DEF RemoveAlreadyGone, ReportProtection, TypeOK, HandlerTypeOK, Messages
  <1>3. CASE DropFinalizer
    <2> DEFINE o == [cfg EXCEPT !.finalizer = FALSE]
    <2>1. o \in Configs /\ (Current(o) /\ api.aligned => o.aligned)
      BY <1>held DEF Configs, AlignedSeen, Held, Current
    <2>2. PICK res \in WriteResults : Update(o, res)
      BY <1>3 DEF DropFinalizer
    <2> HIDE DEF o
    <2> QED BY <1>held, <2>1, <2>2, UpdateAligned
  <1>4. CASE ~(RemoveAlreadyGone \/ ReportProtection \/ DropFinalizer)
    BY <1>4
    DEF RemovalNext, RemoveNothing, RemoveReadFails, RemoveFound, CheckNodePools,
        CheckVirtualNodePools, ProtectionUnknown, ProtectionChecked, NodePoolsDeleted,
        DeleteNodePools, VirtualNodePoolsDeleted, DeleteVirtualNodePools, RemoveCluster,
        RemoveClusterRefused, RemovalCallFails, storeVars
  <1> QED BY <1>2, <1>3, <1>4

LEMMA FrameAligned ==
  ASSUME TypeOK, AlignedSeen, Frame
  PROVE  api.aligned => api'.aligned
  <1>held. StoreTypeOK /\ cfg \in Configs /\ seen \in Configs /\ err \in Messages
    BY DEF TypeOK, StoreTypeOK, HandlerTypeOK
  <1>1. CASE Begin \/ End
    BY <1>1 DEF Begin, End
  <1>2. CASE RecordError
    <2>1. Recorded \in Configs
      BY <1>held DEF Recorded, Configs, Phases
    <2> QED BY <1>2, <1>held, <2>1, UpdateStatusAligned DEF RecordError
  <1>3. CASE AddFinalizer
    <2> DEFINE o == [Returned EXCEPT !.finalizer = TRUE]
    <2>1. Returned \in Configs /\ Returned \in Held
      BY <1>held DEF Returned, Held
    <2>2. o \in Configs /\ (Current(o) /\ api.aligned => o.aligned)
      BY <2>1 DEF Configs, AlignedSeen, Current
    <2> HIDE DEF o
    <2>3. \A res : Update(o, res) => (api.aligned => api'.aligned)
      BY <1>held, <2>2, UpdateAligned
    <2> QED BY <1>3, <2>3 DEF AddFinalizer, o
  <1> QED BY <1>1, <1>2, <1>3 DEF Frame

-----------------------------------------------------------------------------
(* Steps.                                                                  *)

LEMMA AlignedGrows ==
  ASSUME TypeOK, AlignedSeen, [Next]_vars
  PROVE  api.aligned => api'.aligned
  <1>1. CASE Step
    BY <1>1, ProvisionAligned, CheckUpdateAligned, RemovalAligned, FrameAligned DEF Step, Remove
  <1>2. CASE User
    BY <1>2 DEF User, UserEdit, UserDelete, Publish, TypeOK, StoreTypeOK, Configs
  <1>3. CASE Restart \/ Notify \/ Cloud \/ UNCHANGED vars
    BY <1>3 DEF Restart, Crash, Notify, Deliver, Cloud, vars, storeVars
  <1> QED BY <1>1, <1>2, <1>3 DEF Next

LEMMA SecretGrows ==
  ASSUME [Next]_vars
  PROVE  secret => secret'
  <1>1. CASE ProvisionNext
    BY <1>1 DEF ProvisionNext, StartImport, CreateRefused, CreateSkipped, CreateFails,
       CreateSucceeds, SaveID, SavePhase, WaitFails, WaitAbnormal, CreationComplete, KeepWaiting,
       ImportRefused, ImportReadFails, ImportRead, ImportSave, ImportSecret, CreateCASecret,
       ImportActive, provisionVars
  <1>2. CASE CheckUpdateNext
    BY <1>2 DEF CheckUpdateNext, UpdateRefused, UpdateReadFails, AwaitCluster, AwaitPools,
       GetCluster, GetNodePools, GetStatus, GetVirtualNodePools, SyncFails, SyncVersion,
       AwaitNodeUpgrade, NoNodeUpgrade, CheckNodes, TriggerNodeUpgrade, Proceed, SyncModify,
       EnqueueGet, EnqueuePut, FinishWithoutPools, CreateRows, SaveRows, SyncDone,
       EndpointMissing, EndpointCreating, EndpointCreated, EndpointFails, CreateCASecret,
       Finish, provisionVars
  <1>3. CASE Remove \/ Frame \/ Restart \/ Notify \/ User \/ Cloud \/ UNCHANGED vars
    BY <1>3 DEF Remove, Frame, Restart, Notify, User, Cloud, vars, provisionVars
  <1> QED BY <1>1, <1>2, <1>3 DEF Next, Step

\* The steps of an import, and what each has done.
LEMMA ImportMoves ==
  ASSUME TypeOK, VersionsAgree, Step, pc' \in ImportPCs
  PROVE  \/ ImportRead /\ pc' = "importSave" /\ cfg'.aligned
         \/ ImportSave /\ pc = "importSave" /\ pc' = "importSecret"
         \/ pc = "importSecret" /\ pc' = "importActive" /\ secret'
  <1> USE DEF ImportPCs
  <1>1. pc \in {"import"} \cup ImportPCs
    BY StepMoves DEF WorkerMoves
  <1>2. ~CheckUpdateNext
    BY <1>1, CheckUpdateFrom DEF UpdatePCs
  <1>3. ~RemovalNext
    BY <1>1 DEF RemovalNext, RemoveNothing, RemoveReadFails, RemoveAlreadyGone, RemoveFound,
       CheckNodePools, CheckVirtualNodePools, ProtectionUnknown, ProtectionChecked,
       ReportProtection, NodePoolsDeleted, DeleteNodePools, VirtualNodePoolsDeleted,
       DeleteVirtualNodePools, RemoveCluster, RemoveClusterRefused, RemovalCallFails,
       DropFinalizer
  <1>4. ~Frame
    BY <1>1 DEF Frame, Begin, RecordError, AddFinalizer, End
  <1>5. CASE ImportRead
    <2>1. Aligned.aligned = TRUE
      BY DEF Aligned, TypeOK, HandlerTypeOK, Configs
    <2> QED BY <1>5, <2>1 DEF ImportRead
  <1>6. CASE ImportSave
    BY <1>6 DEF ImportSave, Continue, Return
  <1>7. CASE ImportSecret
    BY <1>7 DEF ImportSecret, CreateCASecret, Continue, Return
  <1>8. CASE ProvisionNext /\ ~ImportRead /\ ~ImportSave /\ ~ImportSecret
    BY <1>1, <1>8 DEF ProvisionNext, StartImport, CreateRefused, CreateSkipped, CreateFails,
       CreateSucceeds, SaveID, SavePhase, WaitFails, WaitAbnormal, CreationComplete, KeepWaiting,
       ImportRefused, ImportReadFails, ImportActive, ReturnUpdateStatus, Return
  <1> QED BY <1>2, <1>3, <1>4, <1>5, <1>6, <1>7, <1>8 DEF Step, Remove

LEMMA NextAlignedSeen ==
  ASSUME TypeOK, VersionsAgree, AlignedSeen, [Next]_vars
  PROVE  AlignedSeen'
  <1> SUFFICES ASSUME NEW o \in Held', o.there, o.rv = api'.rv, api'.aligned
               PROVE  o.aligned
    BY DEF AlignedSeen
  <1>1. PICK h \in Held \cup {api', Empty} : SameVersion(o, h)
    BY NextHeld
  <1>2. CASE h \in Held
    <2>1. h.there /\ h.rv = api'.rv /\ h.rv <= api.rv
      BY <1>1, <1>2 DEF SameVersion, VersionsAgree
    <2>2. api' = api
      BY <2>1, NextHeld DEF TypeOK, StoreTypeOK, Configs
    <2> QED BY <1>1, <1>2, <2>1, <2>2 DEF AlignedSeen, SameVersion
  <1>3. CASE h \in {api', Empty}
    BY <1>1, <1>3 DEF SameVersion, Empty
  <1> QED BY <1>1, <1>2, <1>3

LEMMA NextImport ==
  ASSUME TypeOK, VersionsAgree, ForeignStays, AlignedSeen, ImportStays, [Next]_vars
  PROVE  ImportStays'
  <1> DEFINE Fine(o) == o.imported => /\ o.phase # "creating"
                                      /\ o.phase \in {"active", "updating"} => Complete'
  <1>grows. /\ Complete => Complete'
            /\ api.aligned => api'.aligned
            /\ secret => secret'
    BY AlignedGrows, SecretGrows DEF Complete
  <1>imported. api'.imported = api.imported
    BY StepWrites, EnvironmentKeeps DEF SpecKept
  <1>current. Current(cfg) => Agree(cfg, api)
    BY HeldBehind, FieldsOf DEF Current, NotAhead, TypeOK, StoreTypeOK, HandlerTypeOK
  <1>there. pc \in {"create"} \cup UpdatePCs => cfg.imported = api.imported
    BY DEF ForeignStays, Held
  <1>stored. Fine(api')
    <2>1. CASE ~Step
      BY <2>1, <1>grows, EnvironmentKeeps DEF ImportStays
    <2>2. CASE Step
      <3>1. CASE api'.phase = api.phase
        BY <3>1, <1>imported, <1>grows DEF ImportStays
      <3>2. CASE api'.phase = "importing"
        BY <3>2
      <3>3. CASE pc = "savePhase"
        BY <3>3, <1>imported DEF ImportStays
      <3>4. CASE api.phase = "active" /\ api'.phase = "updating"
        BY <3>4, <1>imported, <1>grows DEF ImportStays
      <3>5. CASE /\ Current(cfg) /\ api'.phase \in {"active", "updating"}
                 /\ pc \in {"wait", "importActive"} \cup UpdatePCs
        BY <3>5, <1>imported, <1>current, <1>grows DEF ImportStays, Agree, Complete
      <3> QED BY <2>2, <3>1, <3>2, <3>3, <3>4, <3>5, StepWrites DEF PhaseKept
    <2> QED BY <2>1, <2>2
  <1>held. \A o \in Held' \cup {api'} : Fine(o)
    <2>1. \A h \in Held \cup {api', Empty} : Fine(h)
      BY <1>stored, <1>grows DEF ImportStays, Empty
    <2> QED BY <1>stored, <2>1, NextHeld DEF SameVersion, Agree
  <1>1. CASE ~Step
    BY <1>1, <1>held, <1>grows, <1>imported, EnvironmentKeeps DEF ImportStays, UpdatePCs
  <1>2. CASE Step
    <2>moves. WorkerMoves
      BY <1>2, StepMoves
    <2>1. pc' \in {"saveID", "savePhase"} => ~api'.imported
      BY <2>moves, <1>imported, <1>there DEF WorkerMoves, ImportStays
    <2>2. pc' = "wait" => ~cfg'.imported
      BY <2>moves DEF WorkerMoves, ImportStays, Held
    <2>3. pc' = "importSave" => cfg'.aligned
      BY <1>2, ImportMoves DEF ImportPCs
    <2>4. pc' \in {"importSecret", "importActive"} => api'.aligned
      <3>1. CASE pc' = "importSecret"
        BY <1>2, <3>1, ImportMoves, ProvisionAligned DEF ImportPCs, ProvisionNext, ImportStays
      <3>2. CASE pc' = "importActive"
        BY <1>2, <3>2, <1>grows, ImportMoves DEF ImportPCs, ImportStays
      <3> QED BY <3>1, <3>2
    <2>5. pc' = "importActive" => secret'
      BY <1>2, ImportMoves DEF ImportPCs
    <2>6. pc' \in UpdatePCs /\ cfg'.imported => Complete'
      <3>1. CASE cfg' = cache /\ cache.phase \in {"active", "updating"}
        BY <3>1, <1>grows DEF ImportStays, Held
      <3>2. CASE pc \in UpdatePCs /\ (cfg' = api \/ cfg'.imported = cfg.imported)
        BY <3>2, <1>there, <1>grows DEF ImportStays
      <3> QED BY <2>moves, <3>1, <3>2 DEF WorkerMoves
    <2> QED BY <1>held, <2>1, <2>2, <2>3, <2>4, <2>5, <2>6 DEF ImportStays
  <1> QED BY <1>1, <1>2

LEMMA InitImport == Init => AlignedSeen /\ ImportStays
  <1> SUFFICES ASSUME Init PROVE AlignedSeen /\ ImportStays
    OBVIOUS
  <1>1. /\ Held = {api, Empty} /\ Empty.there = FALSE /\ Empty.phase = NotCreated
    BY DEF Init, Held, Empty
  <1>2. api.phase = NotCreated
    <2>1. PICK kind \in Kinds : api \in NewResource(kind)
      BY DEF Init
    <2>2. \A v, r : Resource(kind, v, r).phase = NotCreated
      BY DEF Resource, Empty
    <2> QED BY <2>1, <2>2 DEF NewResource
  <1> QED BY <1>1, <1>2 DEF Init, AlignedSeen, ImportStays, NotCreated, UpdatePCs

\* An imported resource is active only when its spec was read from the cloud and
\* its secret exists, however often the import was interrupted or began from an
\* old object (lines 323-341).
THEOREM ImportedActiveAlwaysComplete == Spec => []ImportedActiveIsComplete
  <1>1. /\ TypeOK /\ VersionsAgree /\ ForeignStays /\ AlignedSeen /\ ImportStays /\ [Next]_vars
        => (ForeignStays /\ AlignedSeen /\ ImportStays)'
    BY NextForeign, NextAlignedSeen, NextImport
  <1>2. ImportStays => ImportedActiveIsComplete
    BY DEF ImportStays, ImportedActiveIsComplete, Complete
  <1> QED BY <1>1, <1>2, InitForeign, InitImport, TypeCorrect, VersionsAlwaysAgree, PTL DEF Spec

(***************************************************************************)
(* Deletion.                                                               *)
(***************************************************************************)

\* The clusters that were there once, and those that are going or gone.
KnownIDs == {id \in IDs : clusters[id] # "none"}
EndingIDs == {id \in IDs : clusters[id] \in {"deleting", "gone"}}

\* Nobody holds the id of a cluster that never was.
IdsKnown == /\ \A o \in Held \cup {api} : o.clusterID \in KnownIDs \cup {NoID}
            /\ pc = "saveID" => newID \in KnownIDs

\* What is being deleted has its finalizer.
Guarded == api.there /\ api.deleting => api.finalizer

\* The finalizer holds the resource, and a worker that is about to drop it has
\* nothing to delete or has had it deleted.
GuardsStay ==
  /\ Guarded
  /\ api.phase = "importing" => api.imported
  /\ pc \in DeletePCs => ~KeepsCluster
  /\ pc = "dropFinalizer" => KeepsCluster \/ cfg.clusterID \in EndingIDs

-----------------------------------------------------------------------------
(* Writes.                                                                 *)

\* The resource stays, with its finalizer; what is gone stays gone.
FlagsKept ==
  IF api.there
  THEN api'.there /\ api'.deleting = api.deleting /\ (api.finalizer => api'.finalizer)
  ELSE UNCHANGED api

LEMMA UpdateFlags ==
  ASSUME StoreTypeOK, Guarded, NEW o \in Configs, NEW h \in Configs, NEW res, NotAhead(h, api),
         o.there = h.there, o.rv = h.rv, h.finalizer => o.finalizer, Update(o, res)
  PROVE  FlagsKept
  <1>1. CASE UNCHANGED <<api, watch>>
    BY <1>1 DEF FlagsKept
  <1>2. CASE Current(o) /\ Commit(WithSpec(o))
    <2>1. api.there /\ (api.finalizer => o.finalizer)
      BY <1>2, FieldsOf DEF Current, NotAhead, Agree, StoreTypeOK
    <2>2. /\ WithSpec(o) \in Configs /\ WithSpec(o).finalizer = o.finalizer
          /\ WithSpec(o).deleting = api.deleting /\ WithSpec(o).there = api.there
      BY WithType DEF WithSpec, StoreTypeOK, Configs
    <2> QED BY <1>2, <2>1, <2>2 DEF Commit, Publish, FlagsKept, Guarded, Configs
  <1> QED BY <1>1, <1>2 DEF Update, Write

LEMMA UpdateStatusFlags ==
  ASSUME StoreTypeOK, Guarded, NEW o \in Configs, NEW res, UpdateStatus(o, res)
  PROVE  FlagsKept
  <1>1. CASE UNCHANGED <<api, watch>>
    BY <1>1 DEF FlagsKept
  <1>2. CASE Current(o) /\ Commit(WithStatus(o))
    <2>1. /\ WithStatus(o) \in Configs /\ WithStatus(o).finalizer = api.finalizer
          /\ WithStatus(o).deleting = api.deleting /\ WithStatus(o).there = api.there
      BY WithType DEF WithStatus, StoreTypeOK, Configs
    <2> QED BY <1>2, <2>1 DEF Current, Commit, Publish, FlagsKept, Guarded, Configs
  <1> QED BY <1>1, <1>2 DEF UpdateStatus, Write

LEMMA PhaseFlags ==
  ASSUME TypeOK, Guarded, NEW p \in Phases,
         \/ ReturnUpdateStatus([cfg EXCEPT !.phase = p])
         \/ ReturnUpdateStatusAndRequeue([cfg EXCEPT !.phase = p])
  PROVE  FlagsKept
  <1>1. StoreTypeOK /\ cfg \in Configs
    BY DEF TypeOK, HandlerTypeOK
  <1>2. [cfg EXCEPT !.phase = p] \in Configs
    BY <1>1, CurrentPhase
  <1> QED BY <1>1, <1>2, UpdateStatusFlags DEF ReturnUpdateStatus, ReturnUpdateStatusAndRequeue

LEMMA SameApiFlags == UNCHANGED api => FlagsKept
  BY DEF FlagsKept

LEMMA ProvisionFlags ==
  ASSUME TypeOK, VersionsAgree, Guarded, ProvisionNext
  PROVE  FlagsKept
  <1>held. StoreTypeOK /\ cfg \in Configs /\ cache \in Configs
    BY DEF TypeOK, StoreTypeOK, HandlerTypeOK
  <1>1. CASE StartImport \/ CreationComplete \/ ImportActive
    <2>1. {"importing", "active"} \subseteq Phases
      BY DEF Phases
    <2> QED BY <1>1, <2>1, PhaseFlags DEF StartImport, CreationComplete, ImportActive
  <1>2. CASE SaveID
    <2> DEFINE saved == [cache EXCEPT !.clusterID = newID]
    <2>1. /\ saved \in Configs /\ saved.there = cache.there /\ saved.rv = cache.rv
          /\ saved.finalizer = cache.finalizer
      BY <1>held DEF Configs, IDs, TypeOK, HandlerTypeOK
    <2> HIDE DEF saved
    <2>2. \A res \in WriteResults : Update(saved, res) => FlagsKept
      BY <1>held, <2>1, HeldBehind, UpdateFlags
    <2> QED BY <1>2, <2>2, SameApiFlags DEF SaveID, saved
  <1>3. CASE SavePhase
    <2> DEFINE saved == [cache EXCEPT !.phase = "creating", !.msg = "none"]
    <2>1. saved \in Configs
      BY <1>held DEF Configs, Phases, Messages
    <2> HIDE DEF saved
    <2>2. \A res \in WriteResults : UpdateStatus(saved, res) => FlagsKept
      BY <1>held, <2>1, UpdateStatusFlags
    <2> QED BY <1>3, <2>2, SameApiFlags DEF SavePhase, saved
  <1>4. CASE ImportSave
    BY <1>4, <1>held, HeldBehind, UpdateFlags DEF ImportSave
  <1>5. CASE \/ CreateRefused \/ CreateSkipped \/ CreateFails \/ CreateSucceeds
             \/ WaitFails \/ WaitAbnormal \/ KeepWaiting
             \/ ImportRefused \/ ImportReadFails \/ ImportRead \/ ImportSecret
    BY <1>5, SameApiFlags DEF CreateRefused, CreateSkipped, CreateFails, CreateSucceeds,
       WaitFails, WaitAbnormal, KeepWaiting, ImportRefused, ImportReadFails, ImportRead,
       ImportSecret, storeVars
  <1> QED BY <1>1, <1>2, <1>3, <1>4, <1>5 DEF ProvisionNext

LEMMA CheckUpdateFlags ==
  ASSUME TypeOK, VersionsAgree, Guarded, CheckUpdateNext
  PROVE  FlagsKept
  <1>held. StoreTypeOK /\ cfg \in Configs
    BY DEF TypeOK, StoreTypeOK, HandlerTypeOK
  <1>phases. {"active", "updating"} \subseteq Phases
    BY DEF Phases
  <1>1. CASE UpdateRefused \/ FinishWithoutPools
    BY <1>1, <1>phases, PhaseFlags DEF UpdateRefused, FinishWithoutPools
  <1>2. CASE AwaitCluster \/ AwaitPools
    BY <1>2, <1>phases, PhaseFlags, SameApiFlags DEF AwaitCluster, AwaitPools
  <1>3. CASE Finish
    BY <1>3, <1>phases, PhaseFlags, SameApiFlags DEF Finish
  <1>4. CASE EnqueuePut
    <2>1. PICK res \in WriteResults : UpdateStatus([cfg EXCEPT !.phase = "updating"], res)
      BY <1>4 DEF EnqueuePut
    <2>2. [cfg EXCEPT !.phase = "updating"] \in Configs
      BY <1>held, <1>phases, CurrentPhase
    <2> QED BY <1>held, <2>1, <2>2, UpdateStatusFlags
  <1>5. CASE SaveRows
    BY <1>5, <1>held, HeldBehind, UpdateFlags DEF SaveRows
  <1>6. CASE \/ UpdateReadFails \/ GetCluster \/ GetNodePools \/ GetStatus
             \/ GetVirtualNodePools \/ SyncFails \/ SyncVersion \/ AwaitNodeUpgrade
             \/ NoNodeUpgrade \/ CheckNodes \/ TriggerNodeUpgrade \/ SyncModify \/ EnqueueGet
             \/ CreateRows \/ SyncDone \/ EndpointMissing \/ EndpointCreating
             \/ EndpointCreated \/ EndpointFails
    BY <1>6, SameApiFlags DEF UpdateReadFails, GetCluster, GetNodePools, GetStatus,
       GetVirtualNodePools, SyncFails, SyncVersion, AwaitNodeUpgrade, NoNodeUpgrade,
       CheckNodes, TriggerNodeUpgrade, Proceed, SyncModify, EnqueueGet, CreateRows, SyncDone,
       EndpointMissing, EndpointCreating, EndpointCreated, EndpointFails, storeVars
  <1> QED BY <1>1, <1>2, <1>3, <1>4, <1>5, <1>6 DEF CheckUpdateNext

LEMMA RemovalFlags ==
  ASSUME TypeOK, Guarded, RemovalNext, ~DropFinalizer
  PROVE  FlagsKept
  <1>held. StoreTypeOK /\ cfg \in Configs
    BY DEF TypeOK, StoreTypeOK, HandlerTypeOK
  <1>1. ASSUME NEW m \in Messages, RecordRemoveError(m) PROVE FlagsKept
    <2>1. [cfg EXCEPT !.msg = m] \in Configs
      BY <1>held DEF Configs
    <2> QED BY <1>held, <1>1, <2>1, UpdateStatusFlags, SameApiFlags DEF RecordRemoveError
  <1>2. CASE RemoveAlreadyGone \/ ReportProtection
    BY <1>1, <1>2 DEF RemoveAlreadyGone, ReportProtection, TypeOK, HandlerTypeOK, Messages
  <1>3. CASE ~(RemoveAlreadyGone \/ ReportProtection)
    BY <1>3, SameApiFlags
    DEF RemovalNext, RemoveNothing, RemoveReadFails, RemoveFound, CheckNodePools,
        CheckVirtualNodePools, ProtectionUnknown, ProtectionChecked, NodePoolsDeleted,
        DeleteNodePools, VirtualNodePoolsDeleted, DeleteVirtualNodePools, RemoveCluster,
        RemoveClusterRefused, RemovalCallFails, storeVars
  <1> QED BY <1>2, <1>3

LEMMA FrameFlags ==
  ASSUME TypeOK, VersionsAgree, Guarded, Frame
  PROVE  FlagsKept
  <1>held. StoreTypeOK /\ cfg \in Configs /\ seen \in Configs /\ err \in Messages
    BY DEF TypeOK, StoreTypeOK, HandlerTypeOK
  <1>1. CASE Begin \/ End
    BY <1>1, SameApiFlags DEF Begin, End
  <1>2. CASE RecordError
    <2>1. Recorded \in Configs
      BY <1>held DEF Recorded, Configs, Phases
    <2> QED BY <1>2, <1>held, <2>1, UpdateStatusFlags, SameApiFlags DEF RecordError
  <1>3. CASE AddFinalizer
    <2> DEFINE o == [Returned EXCEPT !.finalizer = TRUE]
    <2>1. Returned \in Configs /\ NotAhead(Returned, api)
      BY <1>held, HeldBehind DEF Returned
    <2>2. /\ o \in Configs /\ o.there = Returned.there /\ o.rv = Returned.rv /\ o.finalizer
      BY <2>1 DEF Configs
    <2> HIDE DEF o
    <2>3. \A res : Update(o, res) => FlagsKept
      BY <1>held, <2>1, <2>2, UpdateFlags
    <2> QED BY <1>3, <2>3, SameApiFlags DEF AddFinalizer, o
  <1> QED BY <1>1, <1>2, <1>3 DEF Frame

-----------------------------------------------------------------------------
(* Clusters.                                                               *)

\* What was created stays known, what is going does not come back.
ClustersStay == KnownIDs \subseteq KnownIDs' /\ EndingIDs \subseteq EndingIDs'

LEMMA SameClustersStay == UNCHANGED clusters => ClustersStay
  BY DEF ClustersStay, KnownIDs, EndingIDs

LEMMA CreateStays ==
  ASSUME TypeOK, NEW id, CreateCluster(id)
  PROVE  ClustersStay
  BY DEF CreateCluster, ClustersStay, KnownIDs, EndingIDs, TypeOK, CloudTypeOK, IDs

LEMMA DeleteStays ==
  ASSUME TypeOK, NEW id, DeleteCluster(id)
  PROVE  ClustersStay
  BY DEF DeleteCluster, Found, ClustersStay, KnownIDs, EndingIDs, TypeOK, CloudTypeOK, IDs

LEMMA NextClusters ==
  ASSUME TypeOK, [Next]_vars
  PROVE  ClustersStay
  <1>1. CASE CreateFails \/ CreateSucceeds
    BY <1>1, SameClustersStay, CreateStays DEF CreateFails, CreateSucceeds
  <1>2. CASE ProvisionNext /\ ~CreateFails /\ ~CreateSucceeds
    BY <1>2, SameClustersStay DEF ProvisionNext, StartImport, CreateRefused, CreateSkipped,
       SaveID,
       SavePhase, WaitFails, WaitAbnormal, CreationComplete, KeepWaiting, ImportRefused,
       ImportReadFails, ImportRead, ImportSave, ImportSecret, ImportActive, cloudVars
  <1>3. CASE CheckUpdateNext
    BY <1>3, SameClustersStay, CheckUpdateClusters DEF UpdateClusterVersion, Running,
       ClustersStay,
       KnownIDs, EndingIDs, TypeOK, CloudTypeOK, IDs
  <1>4. CASE RemoveCluster \/ RemovalCallFails
    BY <1>4, SameClustersStay, DeleteStays DEF RemoveCluster, RemovalCallFails
  <1>5. CASE RemovalNext /\ ~(RemoveCluster \/ RemovalCallFails)
    BY <1>5, SameClustersStay DEF RemovalNext, RemoveNothing, RemoveReadFails,
       RemoveAlreadyGone, RemoveFound, CheckNodePools, CheckVirtualNodePools,
       ProtectionUnknown, ProtectionChecked, ReportProtection, NodePoolsDeleted,
       DeleteNodePools, VirtualNodePoolsDeleted, DeleteVirtualNodePools, RemoveClusterRefused,
       DropFinalizer, cloudVars
  <1>6. CASE Frame \/ Restart \/ Notify \/ User \/ UNCHANGED vars
    BY <1>6, SameClustersStay DEF Frame, Begin, RecordError, AddFinalizer, End, Restart, Crash,
       Notify, User, vars, cloudVars
  <1>7. CASE Cloud
    <2>1. ASSUME NEW id \in IDs, ClusterProgress(id) PROVE ClustersStay
      BY <2>1 DEF ClusterProgress, ClustersStay, KnownIDs, EndingIDs, TypeOK, CloudTypeOK, IDs
    <2> QED
      BY <1>7, <2>1, SameClustersStay, DeleteStays
         DEF Cloud, CloudProgress, PoolProgress, NodeProgress, EndpointProgress,
             NodeUpgradeFails, Console
  <1> QED BY <1>1, <1>2, <1>3, <1>4, <1>5, <1>6, <1>7 DEF Next, Step, Remove

-----------------------------------------------------------------------------
(* Steps.                                                                  *)

\* Only a creation brings the worker to saving an id.
LEMMA SaveMoves ==
  ASSUME TypeOK, VersionsAgree, Step, pc' = "saveID"
  PROVE  CreateSucceeds \/ (pc = "saveID" /\ newID' = newID)
  <1>1. pc = "saveID" => newID' = newID
    BY OnlySaveID DEF SaveID, Again, Continue, Return
  <1>2. ASSUME pc = "create" PROVE CreateSucceeds
    <2>1. ~CheckUpdateNext
      BY <1>2, CheckUpdateFrom DEF UpdatePCs
    <2>2. ~RemovalNext
      BY <1>2 DEF RemovalNext, RemoveNothing, RemoveReadFails, RemoveAlreadyGone, RemoveFound,
         CheckNodePools, CheckVirtualNodePools, ProtectionUnknown, ProtectionChecked,
         ReportProtection, NodePoolsDeleted, DeleteNodePools, VirtualNodePoolsDeleted,
         DeleteVirtualNodePools, RemoveCluster, RemoveClusterRefused, RemovalCallFails,
         DropFinalizer
    <2>3. ~Frame
      BY <1>2 DEF Frame, Begin, RecordError, AddFinalizer, End
    <2>4. ProvisionNext => CreateSucceeds
      BY <1>2 DEF ProvisionNext, StartImport, CreateRefused, CreateSkipped, CreateFails,
         SaveID, SavePhase, WaitFails, WaitAbnormal, CreationComplete, KeepWaiting,
         ImportRefused, ImportReadFails, ImportRead, ImportSave, ImportSecret, ImportActive,
         ReturnUpdateStatus, Return
    <2> QED BY <2>1, <2>2, <2>3, <2>4 DEF Step, Remove
  <1> QED BY <1>1, <1>2, StepMoves DEF WorkerMoves

LEMMA NextKnown ==
  ASSUME TypeOK, VersionsAgree, IdsKnown, [Next]_vars
  PROVE  IdsKnown'
  <1>stay. KnownIDs \subseteq KnownIDs'
    BY NextClusters DEF ClustersStay
  <1>1. api'.clusterID \in KnownIDs' \cup {NoID}
    BY <1>stay, StepWrites, EnvironmentKeeps DEF SpecKept, IdsKnown
  <1>2. \A h \in Held \cup {api', Empty} : h.clusterID \in KnownIDs' \cup {NoID}
    BY <1>stay, <1>1 DEF IdsKnown, Empty
  <1>3. \A o \in Held' : o.clusterID \in KnownIDs' \cup {NoID}
    BY <1>2, NextHeld DEF SameVersion, Agree
  <1>4. pc' = "saveID" => newID' \in KnownIDs'
    <2>1. CASE ~Step
      BY <1>stay, <2>1, EnvironmentKeeps DEF IdsKnown
    <2>2. CASE Step /\ pc' = "saveID"
      <3>1. CreateSucceeds => newID' \in KnownIDs'
        BY DEF CreateSucceeds, CreateCluster, KnownIDs, TypeOK, CloudTypeOK, IDs
      <3> QED BY <1>stay, <2>2, <3>1, SaveMoves DEF IdsKnown
    <2> QED BY <2>1, <2>2
  <1> QED BY <1>1, <1>3, <1>4 DEF IdsKnown

\* A worker comes to dropping the finalizer when nothing is to be deleted, or
\* the cluster is going.
LEMMA DropMoves ==
  ASSUME TypeOK, IdsKnown, GuardsStay, Step, pc' = "dropFinalizer"
  PROVE  KeepsCluster' \/ cfg'.clusterID \in EndingIDs'
  <1>id. cfg.clusterID \in KnownIDs \cup {NoID}
    BY DEF IdsKnown, Held
  <1>gone. ~KeepsCluster /\ ~Found(cfg.clusterID) /\ UNCHANGED clusters
             => cfg.clusterID \in EndingIDs'
    BY <1>id DEF KeepsCluster, Found, KnownIDs, EndingIDs
  <1>1. CASE RemoveNothing
    BY <1>1 DEF RemoveNothing, RemovalDone, KeepsCluster
  <1>2. CASE RemoveAlreadyGone
    BY <1>2, <1>gone DEF RemoveAlreadyGone, RemovalDone, cloudVars
  <1>3. CASE RemoveCluster
    <2>1. ~KeepsCluster /\ cfg' = cfg
      BY <1>3 DEF RemoveCluster, RemovalDone, GuardsStay, DeletePCs
    <2>2. cfg.clusterID \in KnownIDs
      BY <1>id, <2>1 DEF KeepsCluster
    <2>3. CASE Found(cfg.clusterID)
      BY <1>3, <2>1, <2>2, <2>3
         DEF RemoveCluster, DeleteCluster, KnownIDs, EndingIDs, TypeOK, CloudTypeOK
    <2>4. CASE ~Found(cfg.clusterID)
      BY <1>3, <1>gone, <2>1, <2>4 DEF RemoveCluster, DeleteCluster
    <2> QED BY <2>3, <2>4
  <1>4. ~(RemovalNext /\ ~RemoveNothing /\ ~RemoveAlreadyGone /\ ~RemoveCluster)
    BY DEF RemovalNext, RemoveReadFails, RemoveFound, CheckNodePools, CheckVirtualNodePools,
       ProtectionUnknown, ProtectionChecked, ReportProtection, NodePoolsDeleted,
       DeleteNodePools, VirtualNodePoolsDeleted, DeleteVirtualNodePools, RemoveClusterRefused,
       RemovalCallFails, DropFinalizer, RemovalFails, Proceed, Sleep
  <1>5. ~ProvisionNext
    BY DEF ProvisionNext, StartImport, CreateRefused, CreateSkipped, CreateFails,
       CreateSucceeds, SaveID, SavePhase, WaitFails, WaitAbnormal, CreationComplete,
       KeepWaiting, ImportRefused, ImportReadFails, ImportRead, ImportSave, ImportSecret,
       ImportActive, ReturnUpdateStatus, Return, Continue, Again
  <1>6. ~CheckUpdateNext
    BY DEF CheckUpdateNext, UpdateRefused, UpdateReadFails, AwaitCluster, AwaitPools,
       GetCluster, GetNodePools, GetStatus, GetVirtualNodePools, SyncFails, SyncVersion,
       AwaitNodeUpgrade, NoNodeUpgrade, CheckNodes, TriggerNodeUpgrade, Proceed, SyncModify,
       EnqueueGet, EnqueuePut, FinishWithoutPools, CreateRows, SaveRows, SyncDone,
       EndpointMissing, EndpointCreating, EndpointCreated, EndpointFails, Finish,
       EnqueueUpdate, Continue, Return, ReturnUpdateStatus, ReturnUpdateStatusAndRequeue
  <1>7. ~Frame
    BY FieldsOf DEF Frame, Begin, HandlerOf, RecordError, AddFinalizer, End, Reset, TypeOK,
       StoreTypeOK, Phases, NotCreated
  <1> QED BY <1>1, <1>2, <1>3, <1>4, <1>5, <1>6, <1>7 DEF Step, Remove

\* Without DropFinalizer, the resource goes only when nothing holds it.
LEMMA OtherFlags ==
  ASSUME TypeOK, VersionsAgree, Guarded, [Next]_vars, ~DropFinalizer
  PROVE  FlagsKept \/ (api.there /\ ~api'.deleting)
                   \/ (api.there /\ api'.there /\ api'.finalizer)
  <1>1. CASE Step
    BY <1>1, ProvisionFlags, CheckUpdateFlags, RemovalFlags, FrameFlags DEF Step, Remove
  <1>2. CASE UserEdit
    BY <1>2 DEF UserEdit, Publish, FlagsKept, TypeOK, StoreTypeOK, Configs
  <1>3. CASE UserDelete
    BY <1>3 DEF UserDelete, Publish, TypeOK, StoreTypeOK, Configs
  <1>4. CASE Restart \/ Notify \/ Cloud \/ UNCHANGED vars
    BY <1>4, SameApiFlags DEF Restart, Crash, Notify, Deliver, Cloud, vars, storeVars
  <1> QED BY <1>1, <1>2, <1>3, <1>4 DEF Next, User

\* The framework's Update without the finalizer.
LEMMA DropWrites ==
  ASSUME TypeOK, VersionsAgree, DropFinalizer
  PROVE  \/ UNCHANGED api
         \/ /\ Agree(cfg, api) /\ api.there
            /\ api'.deleting = api.deleting /\ api'.there = ~api.deleting
            /\ api'.imported = api.imported /\ api'.phase = api.phase
            /\ api'.clusterID = api.clusterID
  <1>held. StoreTypeOK /\ cfg \in Configs /\ api \in Configs
    BY DEF TypeOK, StoreTypeOK, HandlerTypeOK
  <1> DEFINE o == [cfg EXCEPT !.finalizer = FALSE]
  <1>1. /\ o \in Configs /\ o.there = cfg.there /\ o.rv = cfg.rv /\ ~o.finalizer
        /\ o.imported = cfg.imported /\ o.clusterID = cfg.clusterID
    BY <1>held DEF Configs
  <1>2. PICK res \in WriteResults : Update(o, res)
    BY DEF DropFinalizer
  <1> HIDE DEF o
  <1>3. CASE Current(o) /\ Commit(WithSpec(o))
    <2>1. Agree(cfg, api) /\ api.there
      BY <1>held, <1>1, <1>3, HeldBehind, FieldsOf DEF Current, NotAhead
    <2>2. WithSpec(o) \in Configs
      BY <1>held, <1>1, WithType
    <2>3. /\ ~WithSpec(o).finalizer
          /\ WithSpec(o).deleting = api.deleting /\ WithSpec(o).phase = api.phase
          /\ WithSpec(o).imported = o.imported /\ WithSpec(o).clusterID = o.clusterID
      BY <1>held, <1>1 DEF WithSpec, Configs
    <2>4. o.imported = api.imported /\ o.clusterID = api.clusterID
      BY <1>1, <2>1 DEF Agree
    <2> QED BY <1>held, <1>3, <2>1, <2>2, <2>3, <2>4 DEF Commit, Publish, Configs
  <1> QED BY <1>2, <1>3 DEF Update, Write

LEMMA NextGuards ==
  ASSUME TypeOK, VersionsAgree, CreatingHasCluster, IdsKnown, GuardsStay, [Next]_vars
  PROVE  GuardsStay'
  <1>stay. EndingIDs \subseteq EndingIDs'
    BY NextClusters DEF ClustersStay
  <1>guarded. Guarded
    BY DEF GuardsStay
  <1>types. api \in Configs /\ api' \in Configs
    BY NextTypes DEF TypeOK, StoreTypeOK
  <1>1. Guarded'
    <2>1. CASE DropFinalizer
      BY <1>guarded, <2>1, DropWrites DEF Guarded
    <2>2. CASE ~DropFinalizer
      BY <1>types, <1>guarded, <2>2, OtherFlags DEF FlagsKept, Guarded, Configs
    <2> QED BY <2>1, <2>2
  <1>2. api'.phase = "importing" => api'.imported
    <2>1. CASE ~Step
      BY <2>1, EnvironmentKeeps DEF GuardsStay
    <2>2. CASE Step
      <3>1. Current(cfg) => Agree(cfg, api)
        BY HeldBehind, FieldsOf DEF Current, NotAhead, TypeOK, StoreTypeOK, HandlerTypeOK
      <3>2. api'.imported = api.imported /\ PhaseKept
        BY <2>2, StepWrites DEF SpecKept
      <3> QED BY <3>1, <3>2 DEF PhaseKept, Agree, GuardsStay
    <2> QED BY <2>1, <2>2
  <1>3. pc' \in DeletePCs => ~KeepsCluster'
    <2>1. CASE ~Step
      BY <2>1, EnvironmentKeeps DEF GuardsStay, KeepsCluster, DeletePCs
    <2>2. CASE Step
      BY <2>2, StepMoves DEF WorkerMoves, GuardsStay, KeepsCluster
    <2> QED BY <2>1, <2>2
  <1>4. pc' = "dropFinalizer" => KeepsCluster' \/ cfg'.clusterID \in EndingIDs'
    <2>1. CASE ~Step
      BY <1>stay, <2>1, EnvironmentKeeps DEF GuardsStay, KeepsCluster
    <2>2. CASE Step
      BY <2>2, DropMoves
    <2> QED BY <2>1, <2>2
  <1> QED BY <1>1, <1>2, <1>3, <1>4 DEF GuardsStay

LEMMA InitGuards == Init => IdsKnown /\ GuardsStay
  <1> SUFFICES ASSUME Init PROVE IdsKnown /\ GuardsStay
    OBVIOUS
  <1>1. /\ Held = {api, Empty} /\ Empty.clusterID = NoID
    BY DEF Init, Held, Empty
  <1>2. /\ api.phase = NotCreated /\ ~api.deleting /\ api.clusterID \in {NoID, Existing}
    <2>1. PICK kind \in Kinds : api \in NewResource(kind)
      BY DEF Init
    <2>2. \A k, v, r : /\ Resource(k, v, r).phase = NotCreated
                       /\ ~Resource(k, v, r).deleting
                       /\ Resource(k, v, r).clusterID \in {NoID, Existing}
      BY DEF Resource, Empty
    <2> QED BY <2>1, <2>2 DEF NewResource
  <1>3. Existing \in KnownIDs
    BY DEF Init, KnownIDs, IDs
  <1> QED BY <1>1, <1>2, <1>3 DEF Init, IdsKnown, GuardsStay, Guarded, NotCreated, DeletePCs

-----------------------------------------------------------------------------
(* The cloud.                                                              *)

\* What follows a change: the next pass has to look again.
NextPassPCs == {"record", "enqueueGet", "saveRows"}

\* What the worker does to the clusters and their pools, and with which call; after
\* a change it is no longer where it relied on what it had found.
CloudMoves ==
  /\ \A id \in IDs :
       \/ clusters'[id] = clusters[id]
       \/ clusters[id] = "none" /\ clusters'[id] = "creating" /\ pc = "create"
       \/ clusters[id] = "running" /\ clusters'[id] = "upgrading" /\ pc = "sync"
       \/ Found(id) /\ clusters'[id] = "deleting" /\ pc = "removeCluster" /\ id = cfg.clusterID
  /\ \/ clusters' = clusters
     \/ pc \in {"create", "removeCluster"}
     \/ pc = "sync" /\ pc' \in NextPassPCs
  /\ \/ nodePools' = nodePools
     \/ pc = "modify" /\ pc' \in NextPassPCs
     \/ pc = "removePools" /\ nodePools # "none" /\ Found(cfg.clusterID) /\ pc' \in {pc, "end"}
  /\ \/ virtualNodePools' = virtualNodePools
     \/ pc = "modify" /\ pc' \in NextPassPCs
     \/ pc = "removeVirtual" /\ pc' # "removeCluster"
  /\ nodes' = "upgrading" => nodes = "upgrading" \/ pc = "nodeTrigger"
  /\ edits' = edits
  /\ pc' = "removeVirtual" => /\ pc = "removePools" /\ cfg' = cfg
                              /\ Found(cfg.clusterID) => nodePools = "none"
  /\ pc' = "removeCluster" => /\ pc = "removeVirtual" /\ cfg' = cfg
                              /\ Found(cfg.clusterID) => virtualNodePools = "none"
  /\ pc' = "readStatus" /\ "busy" \notin read' => nodePools \notin {"busy", "deleting"}
  /\ pc' \in SettledPCs =>
       /\ cfg' = cfg
       /\ \/ pc \in SettledPCs
          \/ pc = "readStatus" /\ "busy" \notin read /\ clusters[cfg.clusterID] # "upgrading"

\* Calls that only read the cloud.
LEMMA QuietCloud ==
  ASSUME UNCHANGED <<cloudVars, edits>>,
         pc' \notin {"removeVirtual", "removeCluster", "readStatus"} \cup SettledPCs
  PROVE  CloudMoves
  BY DEF CloudMoves, cloudVars, poolVars

LEMMA ProvisionCloud ==
  ASSUME TypeOK, ProvisionNext
  PROVE  CloudMoves
  <1> USE DEF SettledPCs
  <1>1. CASE CreateFails
    BY <1>1 DEF CreateFails, CreateCluster, Return, poolVars, CloudMoves, TypeOK, CloudTypeOK,
       IDs
  <1>2. CASE CreateSucceeds
    BY <1>2 DEF CreateSucceeds, CreateCluster, poolVars, CloudMoves, TypeOK, CloudTypeOK, IDs
  <1>3. CASE StartImport \/ CreationComplete \/ ImportActive
    BY <1>3, QuietCloud DEF StartImport, CreationComplete, ImportActive, ReturnUpdateStatus,
       Return
  <1>4. CASE SaveID \/ SavePhase \/ ImportRead \/ ImportSave \/ ImportSecret
    BY <1>4, QuietCloud DEF SaveID, SavePhase, ImportRead, ImportSave, ImportSecret, Again,
       Return,
       Continue
  <1>5. CASE \/ CreateRefused \/ CreateSkipped \/ WaitFails \/ WaitAbnormal \/ KeepWaiting
             \/ ImportRefused \/ ImportReadFails
    BY <1>5, QuietCloud DEF CreateRefused, CreateSkipped, WaitFails, WaitAbnormal, KeepWaiting,
       ImportRefused, ImportReadFails, Return
  <1> QED BY <1>1, <1>2, <1>3, <1>4, <1>5 DEF ProvisionNext

\* What a modifying call changes, whether or not it is answered.
LEMMA ModifyCloud ==
  ASSUME TypeOK, Begun \/ CreateNodePools, UNCHANGED edits, pc' \in NextPassPCs
  PROVE  CloudMoves
  <1> USE DEF NextPassPCs, SettledPCs
  <1>1. CASE UpgradeControlPlane
    BY <1>1 DEF UpgradeControlPlane, UpdateClusterVersion, Running, poolVars, CloudMoves, TypeOK,
       CloudTypeOK
  <1>2. CASE UpgradeNodes \/ ModifyAttributes
    BY <1>2 DEF UpgradeNodes, ModifyAttributes, poolVars, CloudMoves
  <1>3. CASE CreateNodePools \/ ModifyNodePools \/ ModifyVirtualNodePools
    BY <1>3, ModifyPCs DEF CreateNodePools, ModifyNodePools, ModifyVirtualNodePools, CloudMoves
  <1> QED BY <1>1, <1>2, <1>3 DEF Begun

LEMMA CheckUpdateCloud ==
  ASSUME TypeOK, CheckUpdateNext
  PROVE  CloudMoves
  <1> USE DEF SettledPCs
  <1>1. CASE GetCluster \/ UpdateReadFails
    BY <1>1, QuietCloud DEF GetCluster, UpdateReadFails, Return
  <1>2. CASE GetNodePools
    BY <1>2 DEF GetNodePools, AtWork, cloudVars, poolVars, CloudMoves
  <1>3. CASE GetStatus
    BY <1>3 DEF GetStatus, Upgrading, Proceed, cloudVars, poolVars, CloudMoves
  <1>4. CASE \/ GetVirtualNodePools \/ NoNodeUpgrade \/ CheckNodes \/ SyncDone
             \/ EndpointCreated
    BY <1>4 DEF GetVirtualNodePools, NoNodeUpgrade, CheckNodes, SyncDone, PoolsToModify,
       EndpointCreated, Proceed, Continue, cloudVars, poolVars, CloudMoves
  <1>5. CASE SyncFails
    BY <1>5, ModifyCloud, QuietCloud DEF SyncFails, Return, NextPassPCs
  <1>6. CASE SyncVersion \/ SyncModify \/ TriggerNodeUpgrade
    <2>1. pc' \in NextPassPCs /\ UNCHANGED edits /\ (Begun \/ UNCHANGED cloudVars)
      BY <1>6 DEF SyncVersion, SyncModify, TriggerNodeUpgrade, EnqueueUpdate, Return, Continue,
         Begun, NextPassPCs
    <2> QED BY <2>1, ModifyCloud, QuietCloud DEF NextPassPCs
  <1>7. CASE CreateRows
    BY <1>7, ModifyCloud DEF CreateRows, NextPassPCs
  <1>8. CASE EndpointMissing \/ EndpointFails
    BY <1>8 DEF EndpointMissing, EndpointFails, Return, poolVars, CloudMoves
  <1>9. CASE UpdateRefused \/ AwaitCluster \/ AwaitPools \/ FinishWithoutPools \/ Finish
    BY <1>9, QuietCloud DEF UpdateRefused, AwaitCluster, AwaitPools, FinishWithoutPools, Finish,
       ReturnUpdateStatus, ReturnUpdateStatusAndRequeue, Return
  <1>10. CASE \/ AwaitNodeUpgrade \/ EnqueueGet \/ EnqueuePut \/ SaveRows \/ EndpointCreating
    BY <1>10, QuietCloud DEF AwaitNodeUpgrade, EnqueueGet, EnqueuePut, SaveRows,
       EndpointCreating, Return
  <1> QED BY <1>1, <1>2, <1>3, <1>4, <1>5, <1>6, <1>7, <1>8, <1>9, <1>10 DEF CheckUpdateNext

LEMMA RemovalCloud ==
  ASSUME TypeOK, RemovalNext
  PROVE  CloudMoves
  <1> USE DEF SettledPCs
  <1>1. CASE NodePoolsDeleted \/ VirtualNodePoolsDeleted
    BY <1>1 DEF NodePoolsDeleted, VirtualNodePoolsDeleted, Proceed, cloudVars, poolVars,
       CloudMoves
  <1>2. CASE DeleteNodePools \/ DeleteVirtualNodePools
    BY <1>2 DEF DeleteNodePools, DeleteVirtualNodePools, RemovalFails, Sleep, CloudMoves
  <1>3. CASE RemoveCluster \/ RemovalCallFails
    BY <1>3 DEF RemoveCluster, RemovalCallFails, DeleteCluster, Deletion, RemovalDone,
       RemovalFails, poolVars, CloudMoves, TypeOK, CloudTypeOK
  <1>4. CASE \/ RemoveNothing \/ RemoveReadFails \/ RemoveAlreadyGone \/ RemoveFound
             \/ CheckNodePools \/ CheckVirtualNodePools \/ ProtectionUnknown
             \/ ReportProtection \/ RemoveClusterRefused \/ DropFinalizer
    BY <1>4, QuietCloud DEF RemoveNothing, RemoveReadFails, RemoveAlreadyGone, RemoveFound,
       CheckNodePools, CheckVirtualNodePools, ProtectionUnknown, ProtectionChecked,
       ReportProtection, RemoveClusterRefused, DropFinalizer, RemovalDone, RemovalFails,
       Proceed
  <1> QED BY <1>1, <1>2, <1>3, <1>4 DEF RemovalNext

LEMMA StepCloud ==
  ASSUME TypeOK, Step
  PROVE  CloudMoves
  <1>1. CASE Frame
    <2>1. cache.phase \in Phases
      BY FieldsOf DEF TypeOK, StoreTypeOK
    <2> QED
      BY <1>1, <2>1, QuietCloud DEF Frame, Begin, HandlerOf, RecordError, AddFinalizer, End,
         Reset,
         Phases, NotCreated, SettledPCs
  <1> QED BY <1>1, ProvisionCloud, CheckUpdateCloud, RemovalCloud DEF Step, Remove

\* What goes on in the cloud meanwhile; only an edit in the console begins
\* something.
CloudGoesOn ==
  /\ \A id \in IDs :
       \/ clusters'[id] = clusters[id]
       \/ clusters[id] = "creating" /\ clusters'[id] \in {"running", "abnormal"}
       \/ clusters[id] = "upgrading" /\ clusters'[id] = "running"
       \/ clusters[id] = "deleting" /\ clusters'[id] = "gone"
       \/ /\ clusters[id] = "running" /\ clusters'[id] = "deleting"
          /\ nodePools = "none" /\ virtualNodePools = "none"
  /\ \/ nodePools' = nodePools
     \/ nodePools \in {"busy", "deleting"} /\ nodePools' \in {"normal", "none"}
  /\ \/ virtualNodePools = "none" => virtualNodePools' = "none"
     \/ edits \in 1..MaxEdits /\ edits' = edits - 1
  /\ edits' <= edits
  /\ nodes' = "upgrading" => nodes = "upgrading"

LEMMA EnvironmentCloud ==
  ASSUME TypeOK, [Next]_vars, ~Step
  PROVE  CloudGoesOn
  <1>types. clusters \in [IDs -> ClusterStates] /\ edits \in Nat /\ edits \in 0..MaxEdits
    BY BoundsAssumption DEF TypeOK, CloudTypeOK, StoreTypeOK
  <1>1. CASE UNCHANGED <<cloudVars, edits>>
    BY <1>1, <1>types DEF cloudVars, poolVars, CloudGoesOn
  <1>2. CASE Restart \/ Notify \/ UNCHANGED vars
    BY <1>1, <1>2 DEF Restart, Crash, Notify, Deliver, vars
  <1>3. CASE User
    BY <1>3, <1>types DEF User, UserEdit, UserDelete, cloudVars, poolVars, CloudGoesOn
  <1>4. CASE Cloud
    <2>1. ASSUME NEW id \in IDs, ClusterProgress(id), edits' = edits PROVE CloudGoesOn
      BY <2>1, <1>types DEF ClusterProgress, poolVars, CloudGoesOn
    <2>2. CASE (PoolProgress \/ NodeProgress \/ EndpointProgress \/ NodeUpgradeFails) /\ edits' = edits
      BY <2>2, <1>types DEF PoolProgress, PoolsSettle, NodeProgress, EndpointProgress,
         NodeUpgradeFails, poolVars, CloudGoesOn
    <2>3. CASE Console
      BY <2>3, <1>types, BoundsAssumption DEF Console, DeleteCluster, Made, poolVars,
         CloudGoesOn, IDs
    <2> QED BY <1>4, <2>1, <2>2, <2>3 DEF Cloud, CloudProgress
  <1> QED BY <1>2, <1>3, <1>4 DEF Next
-----------------------------------------------------------------------------
(* Pools before clusters.                                                  *)

\* On its way to the deletion of the cluster the removal has seen the pools gone,
\* and no call of its own, and nobody but the console, brings one back.
PoolsGone ==
  /\ pc \in {"removeVirtual", "removeCluster"} /\ Found(cfg.clusterID) => nodePools = "none"
  /\ pc = "removeCluster" /\ Found(cfg.clusterID) => virtualNodePools = "none" \/ edits < MaxEdits

LEMMA NextPoolsGone ==
  ASSUME TypeOK, PoolsGone, [Next]_vars
  PROVE  PoolsGone'
  <1>types. /\ edits \in Nat /\ edits' \in Nat /\ edits <= MaxEdits /\ edits' <= MaxEdits
    BY NextTypes, BoundsAssumption DEF TypeOK, StoreTypeOK
  <1>1. CASE ~Step
    <2>1. CloudGoesOn /\ (pc' = "idle" \/ UNCHANGED <<pc, cfg>>)
      BY <1>1, EnvironmentCloud, EnvironmentKeeps
    <2>2. \A id : Found(id)' => Found(id)
      BY <2>1 DEF Found, CloudGoesOn
    <2>3. nodePools = "none" => nodePools' = "none"
      BY <2>1 DEF CloudGoesOn
    <2>4. virtualNodePools = "none" \/ edits < MaxEdits => virtualNodePools' = "none" \/ edits' < MaxEdits
      BY <2>1, <1>types, BoundsAssumption DEF CloudGoesOn
    <2>5. ASSUME UNCHANGED <<pc, cfg>> PROVE Found(cfg.clusterID)' => Found(cfg.clusterID)
      BY <2>2, <2>5
    <2> QED BY <2>1, <2>3, <2>4, <2>5 DEF PoolsGone
  <1>2. CASE Step /\ pc' \in {"removeVirtual", "removeCluster"}
    <2>1. CloudMoves
      BY <1>2, StepCloud
    <2>2. cfg' = cfg /\ pc \in {"removePools", "removeVirtual"}
      BY <1>2, <2>1 DEF CloudMoves
    <2>3. clusters' = clusters /\ edits' = edits
      BY <2>1, <2>2 DEF CloudMoves
    <2>4. Found(cfg.clusterID)' = Found(cfg.clusterID)
      BY <2>2, <2>3 DEF Found
    <2>5. Found(cfg.clusterID) => nodePools = "none"
      BY <1>2, <2>1, <2>2 DEF CloudMoves, PoolsGone
    <2>6. Found(cfg.clusterID) => nodePools' = "none"
      BY <2>1, <2>2, <2>5 DEF CloudMoves
    <2>7. pc' = "removeCluster" /\ Found(cfg.clusterID) => virtualNodePools' = "none"
      BY <2>1, <2>2 DEF CloudMoves
    <2> QED BY <2>4, <2>6, <2>7 DEF PoolsGone
  <1> QED BY <1>1, <1>2 DEF PoolsGone

\* A cluster is deleted only when its node pools are gone, by whichever worker and
\* after however many tries of the backoff loop (lines 204-222); a virtual pool can
\* only have been added in the console since the loop looked.
THEOREM PoolsAlwaysGoBeforeCluster == Spec => PoolsGoBeforeCluster
  <1>1. Init => PoolsGone
    BY DEF Init, PoolsGone
  <1>2. TypeOK /\ PoolsGone /\ [Next]_vars => PoolsGone'
    BY NextPoolsGone
  <1>3. TypeOK /\ PoolsGone /\ [Next]_vars =>
          [\A id \in IDs : clusters[id] # "deleting" /\ clusters'[id] = "deleting"
             => nodePools = "none" /\ (virtualNodePools = "none" \/ edits < MaxEdits)]_vars
    <2> SUFFICES ASSUME TypeOK, PoolsGone, [Next]_vars, NEW id \in IDs,
                        clusters[id] # "deleting", clusters'[id] = "deleting"
                 PROVE  nodePools = "none" /\ (virtualNodePools = "none" \/ edits < MaxEdits)
      OBVIOUS
    <2>1. CASE Step
      BY <2>1, StepCloud DEF CloudMoves, PoolsGone
    <2>2. CASE ~Step
      BY <2>2, EnvironmentCloud DEF CloudGoesOn
    <2> QED BY <2>1, <2>2
  <1> QED BY <1>1, <1>2, <1>3, TypeCorrect, PTL DEF Spec, PoolsGoBeforeCluster
=============================================================================
