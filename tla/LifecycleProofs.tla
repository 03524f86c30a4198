--------------------------- MODULE LifecycleProofs ---------------------------
(***************************************************************************)
(* Safety properties of Lifecycle, for every value of its constants.       *)
(***************************************************************************)
EXTENDS LifecycleTypes, FiniteSetTheorems

-----------------------------------------------------------------------------
(* Versions.  Every object the operator holds is, up to what is written    *)
(* through the cache's pointer, a version that was once stored; the stored *)
(* object only ever gets a new, higher version.                            *)

\* The two stand for one version, and no alignment with the cloud got lost.
SameVersion(a, b) == /\ a.there = b.there /\ a.rv = b.rv /\ Agree(a, b)
                     /\ b.aligned => a.aligned

\* o is an old version, or agrees with a.
NotAhead(o, a) == o.there => /\ o.rv <= a.rv
                             /\ o.rv = a.rv => Agree(o, a)

\* The store is left alone or gets its next version.
StoreStep ==
  \/ UNCHANGED <<api, watch>>
  \/ api'.rv = api.rv + 1 /\ watch' = Append(watch, api')

LEMMA PublishStep ==
  ASSUME StoreTypeOK, NEW n \in Configs, Publish(n)
  PROVE  StoreStep
  <1> api'.rv = api.rv + 1
    BY DEF Publish, Configs
  <1> QED BY DEF Publish, StoreStep

LEMMA WriteStep ==
  ASSUME StoreTypeOK, NEW o \in Configs, NEW n \in Configs, NEW res, Write(o, n, res)
  PROVE  StoreStep
  <1> DEFINE m == [n EXCEPT !.there = ~(api.deleting /\ ~n.finalizer)]
  <1>1. m \in Configs
    BY FieldTypes
  <1>2. Commit(n) => StoreStep
    <2> SUFFICES ASSUME Commit(n) PROVE StoreStep
      OBVIOUS
    <2>1. CASE Publish(m)
      <3> HIDE DEF m
      <3> QED BY <1>1, <2>1, PublishStep
    <2> QED BY <2>1 DEF Commit, StoreStep
  <1> QED BY <1>2 DEF Write, StoreStep

LEMMA UpdateStep ==
  ASSUME StoreTypeOK, NEW o \in Configs, NEW res, Update(o, res) \/ UpdateStatus(o, res)
  PROVE  StoreStep
  BY WriteStep, WithType DEF Update, UpdateStatus, StoreTypeOK

LEMMA ReturnUpdateStatusStep ==
  ASSUME StoreTypeOK, NEW o \in Configs,
         ReturnUpdateStatus(o) \/ ReturnUpdateStatusAndRequeue(o)
  PROVE  StoreStep /\ cfg' \in {api', Empty} /\ seen' = seen
  BY UpdateStep DEF ReturnUpdateStatus, ReturnUpdateStatusAndRequeue, Return

\* What the worker holds after a step, it held before, or it is the stored object
\* or nothing, up to what is written through the cache's pointer.
Source(o) == \E h \in {cache, seen, cfg, api', Empty} : SameVersion(o, h)

WorkerStep == StoreStep /\ Source(cache') /\ Source(seen') /\ Source(cfg')

LEMMA SourceOfItself ==
  \A o \in {cache, seen, cfg, api', Empty} : Source(o)
  BY DEF Source, SameVersion, Agree

LEMMA SourceOfRows ==
  ASSUME NEW h \in Configs, h \in {cache, seen, cfg}
  PROVE  /\ \A r : Source([h EXCEPT !.rows = r])
         /\ \A r : Source([h EXCEPT !.aligned = TRUE, !.rows = r])
  <1>1. ASSUME NEW r PROVE SameVersion([h EXCEPT !.rows = r], h)
    BY DEF SameVersion, Agree, Configs
  <1>2. ASSUME NEW r PROVE SameVersion([h EXCEPT !.aligned = TRUE, !.rows = r], h)
    BY DEF SameVersion, Agree, Configs
  <1> QED BY <1>1, <1>2 DEF Source

LEMMA ProvisionWorker ==
  ASSUME TypeOK, ProvisionNext
  PROVE  WorkerStep
  <1>held. /\ StoreTypeOK /\ cfg \in Configs /\ cache \in Configs /\ seen \in Configs
           /\ api \in Configs
    BY DEF TypeOK, StoreTypeOK, HandlerTypeOK
  <1>quiet. ASSUME UNCHANGED <<api, cache, watch, seen>>, cfg' \in {cfg, seen, Empty}
            PROVE  WorkerStep
    BY <1>quiet, SourceOfItself DEF WorkerStep, StoreStep
  <1>status. \A o \in Configs : ReturnUpdateStatus(o) /\ UNCHANGED cache => WorkerStep
    BY <1>held, ReturnUpdateStatusStep, SourceOfItself DEF WorkerStep
  <1>phase. \A p \in Phases : [cfg EXCEPT !.phase = p] \in Configs
    BY <1>held, FieldTypes
  <1>1. CASE StartImport \/ CreationComplete \/ ImportActive
    BY <1>1, <1>phase, <1>status DEF StartImport, CreationComplete, ImportActive, Phases
  <1>2. CASE \/ CreateRefused \/ CreateSkipped \/ CreateFails \/ CreateSucceeds
             \/ WaitFails \/ WaitAbnormal \/ KeepWaiting
             \/ ImportRefused \/ ImportReadFails \/ ImportSecret
    BY <1>2, <1>quiet DEF CreateRefused, CreateSkipped, CreateFails, CreateSucceeds, WaitFails,
       WaitAbnormal, KeepWaiting, ImportRefused, ImportReadFails, ImportSecret, Return, Continue,
       storeVars
  <1>3. CASE SaveID
    <2> DEFINE saved == [cache EXCEPT !.clusterID = newID]
    <2>1. saved \in Configs
      BY <1>held, FieldTypes DEF TypeOK, HandlerTypeOK, IDs
    <2> HIDE DEF saved
    <2>2. \A res \in WriteResults : Update(saved, res) => StoreStep
      BY <1>held, <2>1, UpdateStep
    <2>3. StoreStep
      BY <1>3, <2>2 DEF SaveID, StoreStep, saved
    <2>4. cfg' \in {cfg, cache, api'} /\ UNCHANGED <<seen, cache>>
      BY <1>3 DEF SaveID, Return, Continue, Again
    <2> QED BY <2>3, <2>4, SourceOfItself DEF WorkerStep
  <1>4. CASE SavePhase
    <2> DEFINE saved == [cache EXCEPT !.phase = "creating", !.msg = "none"]
    <2>1. saved \in Configs
      BY <1>held, FieldTypes DEF Phases, Messages
    <2> HIDE DEF saved
    <2>2. \A res \in WriteResults : UpdateStatus(saved, res) => StoreStep
      BY <1>held, <2>1, UpdateStep
    <2>3. StoreStep
      BY <1>4, <2>2 DEF SavePhase, StoreStep, saved
    <2>4. cfg' \in {cfg, cache, api'} /\ UNCHANGED <<seen, cache>>
      BY <1>4 DEF SavePhase, Return, Again
    <2> QED BY <2>3, <2>4, SourceOfItself DEF WorkerStep
  <1>5. CASE ImportRead
    <2>1. Source(Aligned)
      BY <1>held, SourceOfRows DEF Aligned
    <2>2. cfg' = Aligned /\ seen' = Aligned /\ cache' \in {cache, Aligned}
      BY <1>5 DEF ImportRead
    <2>3. UNCHANGED <<api, watch>>
      BY <1>5 DEF ImportRead
    <2> QED BY <2>1, <2>2, <2>3, SourceOfItself DEF WorkerStep, StoreStep
  <1>6. CASE ImportSave
    <2>1. StoreStep
      BY <1>6, <1>held, UpdateStep DEF ImportSave
    <2>2. cfg' \in {api', seen} /\ UNCHANGED <<seen, cache>>
      BY <1>6 DEF ImportSave, Return, Continue
    <2> QED BY <2>1, <2>2, SourceOfItself DEF WorkerStep
  <1> QED BY <1>1, <1>2, <1>3, <1>4, <1>5, <1>6 DEF ProvisionNext

LEMMA CheckUpdateWorker ==
  ASSUME TypeOK, CheckUpdateNext
  PROVE  WorkerStep
  <1>held. StoreTypeOK /\ cfg \in Configs /\ cache \in Configs
    BY DEF TypeOK, StoreTypeOK, HandlerTypeOK
  <1>quiet. ASSUME UNCHANGED <<api, cache, watch, seen>>, cfg' \in {cfg, api, Empty}
            PROVE  WorkerStep
    BY <1>quiet, SourceOfItself DEF WorkerStep, StoreStep
  <1>status. \A o \in Configs : /\ ReturnUpdateStatus(o) \/ ReturnUpdateStatusAndRequeue(o)
                                /\ UNCHANGED cache
                             => WorkerStep
    BY <1>held, ReturnUpdateStatusStep, SourceOfItself DEF WorkerStep
  <1>phase. \A p \in Phases : [cfg EXCEPT !.phase = p] \in Configs
    BY <1>held, FieldTypes
  <1>1. CASE UpdateRefused \/ FinishWithoutPools
    BY <1>1, <1>phase, <1>status DEF UpdateRefused, FinishWithoutPools, Phases
  <1>2. CASE AwaitCluster
    BY <1>2, <1>phase, <1>status, <1>quiet DEF AwaitCluster, Return, Phases
  <1>3. CASE AwaitPools
    BY <1>3, <1>phase, <1>status, <1>quiet DEF AwaitPools, Return, Phases
  <1>4. CASE Finish
    BY <1>4, <1>phase, <1>status, <1>quiet DEF Finish, Return, Phases
  <1>5. CASE \/ UpdateReadFails \/ GetCluster \/ GetNodePools \/ GetStatus
             \/ GetVirtualNodePools \/ SyncFails \/ SyncVersion \/ AwaitNodeUpgrade
             \/ NoNodeUpgrade \/ CheckNodes \/ TriggerNodeUpgrade \/ SyncModify \/ SyncDone
             \/ EndpointMissing \/ EndpointCreating \/ EndpointCreated \/ EndpointFails
    BY <1>5, <1>quiet DEF UpdateReadFails, GetCluster, GetNodePools, GetStatus,
       GetVirtualNodePools, SyncFails, SyncVersion, AwaitNodeUpgrade, NoNodeUpgrade,
       CheckNodes, TriggerNodeUpgrade, Proceed, SyncModify, EnqueueUpdate, SyncDone,
       EndpointMissing, EndpointCreating, EndpointCreated, EndpointFails, Return, Continue,
       storeVars
  <1>6. CASE EnqueueGet
    BY <1>6, <1>quiet DEF EnqueueGet, Return, storeVars
  <1>7. CASE EnqueuePut
    <2>1. PICK res \in WriteResults : UpdateStatus([cfg EXCEPT !.phase = "updating"], res)
      BY <1>7 DEF EnqueuePut
    <2>2. StoreStep
      BY <2>1, <1>held, <1>phase, UpdateStep DEF Phases
    <2>3. cfg' \in {cfg, api', Empty} /\ UNCHANGED <<seen, cache>>
      BY <1>7 DEF EnqueuePut, Return
    <2> QED BY <2>2, <2>3, SourceOfItself DEF WorkerStep
  <1>8. CASE CreateRows
    <2>1. Source([cfg EXCEPT !.rows = "known"])
      BY <1>held, SourceOfRows
    <2>2. cfg' = [cfg EXCEPT !.rows = "known"] /\ seen' = cfg' /\ cache' \in {cache, cfg'}
      BY <1>8 DEF CreateRows
    <2> QED BY <1>8, <2>1, <2>2, SourceOfItself DEF CreateRows, WorkerStep, StoreStep
  <1>9. CASE SaveRows
    <2>1. StoreStep
      BY <1>9, <1>held, UpdateStep DEF SaveRows
    <2>2. cfg' \in {api', Empty} /\ UNCHANGED <<seen, cache>>
      BY <1>9 DEF SaveRows, Return
    <2> QED BY <2>1, <2>2, SourceOfItself DEF WorkerStep
  <1> QED BY <1>1, <1>2, <1>3, <1>4, <1>5, <1>6, <1>7, <1>8, <1>9 DEF CheckUpdateNext

LEMMA RemovalWorker ==
  ASSUME TypeOK, RemovalNext
  PROVE  WorkerStep
  <1>held. StoreTypeOK /\ cfg \in Configs
    BY DEF TypeOK, StoreTypeOK, HandlerTypeOK
  <1>1. UNCHANGED <<cache, seen, cfg>>
    BY DEF RemovalNext, RemoveNothing, RemoveReadFails, RemoveAlreadyGone, RemoveFound,
       CheckNodePools, CheckVirtualNodePools, ProtectionUnknown, ProtectionChecked,
       ReportProtection, NodePoolsDeleted, DeleteNodePools, VirtualNodePoolsDeleted,
       DeleteVirtualNodePools, RemoveCluster, RemoveClusterRefused, RemovalCallFails,
       DropFinalizer, RemovalDone, RemovalFails, Proceed, Sleep, storeVars
  <1>2. \A m \in Messages : RecordRemoveError(m) => StoreStep
    BY <1>held, FieldTypes, UpdateStep DEF RecordRemoveError, StoreStep
  <1>3. RemoveAlreadyGone \/ ReportProtection => StoreStep
    BY <1>2 DEF RemoveAlreadyGone, ReportProtection, TypeOK, HandlerTypeOK, Messages
  <1>4. DropFinalizer => StoreStep
    BY <1>held, FieldTypes, UpdateStep DEF DropFinalizer
  <1>5. StoreStep
    BY <1>3, <1>4
    DEF RemovalNext, RemoveNothing, RemoveReadFails, RemoveFound, CheckNodePools,
        CheckVirtualNodePools, ProtectionUnknown, ProtectionChecked, NodePoolsDeleted,
        DeleteNodePools, VirtualNodePoolsDeleted, DeleteVirtualNodePools, RemoveCluster,
        RemoveClusterRefused, RemovalCallFails, storeVars, StoreStep
  <1> QED BY <1>1, <1>5, SourceOfItself DEF WorkerStep

LEMMA FrameWorker ==
  ASSUME TypeOK, Frame
  PROVE  WorkerStep
  <1>held. StoreTypeOK /\ cfg \in Configs /\ seen \in Configs
    BY DEF TypeOK, StoreTypeOK, HandlerTypeOK
  <1>1. CASE Begin \/ End
    BY <1>1, SourceOfItself DEF Begin, End, Reset, WorkerStep, StoreStep
  <1>2. CASE RecordError
    <2>1. Recorded \in Configs
      BY <1>held, FieldTypes, FieldsOf DEF Recorded, TypeOK, HandlerTypeOK, Phases
    <2>2. StoreStep
      BY <1>2, <1>held, <2>1, UpdateStep DEF RecordError, StoreStep
    <2>3. cfg' \in {cfg, api', Empty} /\ UNCHANGED <<seen, cache>>
      BY <1>2 DEF RecordError
    <2> QED BY <2>2, <2>3, SourceOfItself DEF WorkerStep
  <1>3. CASE AddFinalizer
    <2>1. [Returned EXCEPT !.finalizer = TRUE] \in Configs
      BY <1>held, FieldTypes DEF Returned
    <2>2. StoreStep
      BY <1>3, <1>held, <2>1, UpdateStep DEF AddFinalizer, StoreStep
    <2> QED BY <1>3, <2>2, SourceOfItself DEF AddFinalizer, WorkerStep
  <1> QED BY <1>1, <1>2, <1>3 DEF Frame

\* A new version leaves older ones behind.
LEMMA StaysBehind ==
  ASSUME NEW o \in Configs, NEW a \in Configs, NEW b \in Configs,
         NotAhead(o, a), b = a \/ b.rv = a.rv + 1
  PROVE  NotAhead(o, b)
  BY FieldsOf DEF NotAhead

LEMMA SameStaysBehind ==
  ASSUME NEW o, NEW h, NEW a, SameVersion(o, h), NotAhead(h, a)
  PROVE  NotAhead(o, a)
  BY DEF SameVersion, NotAhead, Agree

LEMMA NotAheadOfItself ==
  ASSUME NEW a \in Configs
  PROVE  NotAhead(a, a) /\ NotAhead(Empty, a)
  BY FieldsOf DEF NotAhead, Agree, Empty

LEMMA InitVersions == Init => VersionsAgree
  <1> SUFFICES ASSUME Init PROVE VersionsAgree
    OBVIOUS
  <1>1. Held = {api, Empty}
    BY DEF Init, Held
  <1>2. api \in Configs
    BY InitTypes DEF TypeOK, StoreTypeOK
  <1> QED BY <1>1, <1>2, NotAheadOfItself DEF NotAhead, VersionsAgree

\* Every object held after a step is one that was held before, the stored one or
\* nothing, up to what is written through the cache's pointer.
LEMMA NextHeld ==
  ASSUME TypeOK, [Next]_vars
  PROVE  /\ api' = api \/ api'.rv = api.rv + 1
         /\ \A o \in Held' : \E h \in Held \cup {api', Empty} : SameVersion(o, h)
  <1> DEFINE Known(o) == \E h \in Held \cup {api', Empty} : SameVersion(o, h)
             Good == /\ api' = api \/ api'.rv = api.rv + 1
                     /\ \A o \in Held' : Known(o)
  <1>types. /\ api \in Configs /\ watch \in Seq(Configs) /\ api' \in Configs
    BY NextTypes DEF TypeOK, StoreTypeOK
  <1>same. \A o \in Held \cup {api', Empty} : Known(o)
    BY DEF SameVersion, Agree
  <1>1. ASSUME Step PROVE WorkerStep
    BY <1>1, ProvisionWorker, CheckUpdateWorker, RemovalWorker, FrameWorker DEF Step, Remove
  <1>2. ASSUME WorkerStep PROVE Good
    <2>1. \A o \in {cache', seen', cfg'} : Known(o)
      BY <1>2 DEF WorkerStep, Source, Held
    <2>2. ASSUME NEW i \in DOMAIN watch' PROVE watch'[i] \in Held \cup {api'}
      BY <1>2, <2>2, <1>types DEF WorkerStep, StoreStep, Held
    <2>3. \A o \in Held' : o \in {cache', seen', cfg'} \/ \E i \in DOMAIN watch' : o = watch'[i]
      BY DEF Held
    <2>4. \A o \in Held' : Known(o)
      <3> HIDE DEF Known
      <3> QED BY <1>same, <2>1, <2>2, <2>3
    <2> QED BY <1>2, <2>4 DEF WorkerStep, StoreStep
  <1>3. ASSUME Restart PROVE Good
    <2>1. Held' = {api', Empty} /\ api' = api
      BY <1>3 DEF Restart, Crash, Reset, Held
    <2> QED BY <1>same, <2>1
  <1>4. ASSUME Notify PROVE Good
    <2>1. cache' = watch[1] /\ 1 \in DOMAIN watch
      BY <1>4, <1>types DEF Notify, Deliver
    <2>2. \A i \in DOMAIN watch' : i + 1 \in DOMAIN watch /\ watch'[i] = watch[i + 1]
      BY <1>4, <1>types DEF Notify, Deliver
    <2>3. Held' \subseteq Held /\ api' = api
      BY <1>4, <2>1, <2>2 DEF Notify, Deliver, Held, handlerVars
    <2> QED BY <1>same, <2>3
  <1>5. ASSUME User PROVE Good
    <2>1. StoreStep
      <3>1. /\ [api EXCEPT !.valid = ~@] \in Configs
            /\ [api EXCEPT !.rows = "new"] \in Configs
            /\ [api EXCEPT !.rows = "nil"] \in Configs
            /\ [api EXCEPT !.deleting = @ \/ api.finalizer, !.there = api.finalizer] \in Configs
        BY <1>types, FieldTypes, FieldsOf DEF Rows
      <3> QED BY <1>5, <3>1, PublishStep DEF User, UserEdit, UserDelete, TypeOK
    <2>2. WorkerStep
      BY <1>5, <2>1, SourceOfItself DEF WorkerStep, User, UserEdit, UserDelete, handlerVars
    <2> QED BY <1>2, <2>2
  <1>6. ASSUME Cloud \/ UNCHANGED vars PROVE Good
    <2>1. WorkerStep
      BY <1>6, SourceOfItself DEF Cloud, vars, WorkerStep, StoreStep, storeVars, handlerVars
    <2> QED BY <1>2, <2>1
  <1> QED BY <1>1, <1>2, <1>3, <1>4, <1>5, <1>6 DEF Next

LEMMA NextVersions == TypeOK /\ VersionsAgree /\ [Next]_vars => VersionsAgree'
  <1> SUFFICES ASSUME TypeOK, VersionsAgree, [Next]_vars PROVE VersionsAgree'
    OBVIOUS
  <1>types. /\ api \in Configs /\ cache \in Configs /\ seen \in Configs /\ cfg \in Configs
            /\ watch \in Seq(Configs) /\ api' \in Configs
    BY NextTypes DEF TypeOK, StoreTypeOK, HandlerTypeOK
  <1>1. \A o \in Held : o \in Configs /\ NotAhead(o, api)
    BY <1>types DEF Held, VersionsAgree, NotAhead
  <1>2. \A h \in Held \cup {api', Empty} : NotAhead(h, api')
    BY <1>types, <1>1, NextHeld, StaysBehind, NotAheadOfItself
  <1>3. \A o \in Held' : NotAhead(o, api')
    BY <1>2, NextHeld, SameStaysBehind
  <1> QED BY <1>3 DEF VersionsAgree, NotAhead

\* No object the operator holds is ahead of the API server, and one with the
\* stored resourceVersion agrees with what is stored: the conflict of a stale
\* Update or UpdateStatus (lines 352, 383, 408, 445, 664, 1302) is worth something.
THEOREM VersionsAlwaysAgree == Spec => []VersionsAgree
  BY InitTypes, NextTypes, InitVersions, NextVersions, PTL DEF Spec

-----------------------------------------------------------------------------
(* What the worker's writes do to the stored object, given that a current  *)
(* object agrees with it.                                                  *)

\* o is a version the worker holds, h, with nothing changed that it only copies.
CopyOf(o, h) == /\ o.there = h.there /\ o.rv = h.rv
                /\ o.valid = h.valid /\ o.imported = h.imported

\* Update stores the id and keeps the phase.
LEMMA UpdateResult ==
  ASSUME StoreTypeOK, NEW o \in Configs, NEW h \in Configs, NEW res,
         NotAhead(h, api), CopyOf(o, h), Update(o, res)
  PROVE  /\ api'.valid = api.valid /\ api'.imported = api.imported
         /\ api'.phase = api.phase
         /\ api'.clusterID \in {api.clusterID, o.clusterID}
         /\ res = "ok" => /\ api'.clusterID = o.clusterID /\ api'.imported = o.imported
                          /\ api'.phase = h.phase
         /\ h.clusterID = o.clusterID => api'.clusterID = api.clusterID
  <1>1. CASE UNCHANGED <<api, watch>> /\ res # "ok"
    BY <1>1
  <1>2. CASE Current(o) /\ Commit(WithSpec(o))
    <2>1. Agree(h, api)
      BY <1>2, FieldsOf DEF Current, CopyOf, NotAhead, StoreTypeOK
    <2>2. /\ WithSpec(o).valid = api.valid /\ WithSpec(o).imported = api.imported
          /\ WithSpec(o).phase = api.phase /\ WithSpec(o).clusterID = o.clusterID
      BY <2>1 DEF WithSpec, CopyOf, Agree, StoreTypeOK, Configs
    <2>3. /\ api'.valid = WithSpec(o).valid /\ api'.imported = WithSpec(o).imported
          /\ api'.phase = WithSpec(o).phase /\ api'.clusterID = WithSpec(o).clusterID
      <3>1. WithSpec(o) \in Configs
        BY WithType DEF StoreTypeOK
      <3> QED BY <1>2, <3>1 DEF Commit, Publish, Configs
    <2> QED BY <2>1, <2>2, <2>3 DEF Agree, CopyOf
  <1> QED BY <1>1, <1>2 DEF Update, Write

\* UpdateStatus stores the phase and keeps the id.
LEMMA UpdateStatusResult ==
  ASSUME StoreTypeOK, NEW o \in Configs, NEW res, UpdateStatus(o, res)
  PROVE  /\ api'.valid = api.valid /\ api'.imported = api.imported
         /\ api'.clusterID = api.clusterID
         /\ \/ UNCHANGED api
            \/ Current(o) /\ api'.phase = o.phase
  <1>1. CASE UNCHANGED <<api, watch>>
    BY <1>1
  <1>2. CASE Current(o) /\ Commit(WithStatus(o))
    <2>1. WithStatus(o) \in Configs
      BY WithType DEF StoreTypeOK
    <2>2. /\ api'.valid = WithStatus(o).valid /\ api'.imported = WithStatus(o).imported
          /\ api'.phase = WithStatus(o).phase /\ api'.clusterID = WithStatus(o).clusterID
      BY <1>2, <2>1 DEF Commit, Publish, Configs
    <2> QED BY <1>2, <2>2 DEF WithStatus, StoreTypeOK, Configs
  <1> QED BY <1>1, <1>2 DEF UpdateStatus, Write

\* The calls of checkAndUpdate, updateUpstreamClusterState and enqueueUpdate.
UpdatePCs == {"update", "readPools", "readStatus", "readVirtual", "sync", "nodeCheck",
              "nodeTrigger", "modify", "saveRows", "enqueueGet", "enqueuePut", "endpoint",
              "finish"}

\* Those of a reconcile that found neither the cluster nor its node pools at work.
SettledPCs == {"readVirtual", "sync", "nodeCheck", "nodeTrigger", "modify", "endpoint", "finish"}

\* A step of the worker changes no part of the spec that users own, and the id
\* only where create saves it.
SpecKept == /\ api'.valid = api.valid /\ api'.imported = api.imported
            /\ \/ api'.clusterID = api.clusterID
               \/ pc = "saveID" /\ api'.clusterID = newID

\* Where the worker may change the phase.
PhaseKept ==
  \/ api'.phase = api.phase
  \/ pc = "create" /\ cfg.imported /\ Current(cfg) /\ api'.phase = "importing"
  \/ pc = "savePhase" /\ Current(cache) /\ api'.phase = "creating"
  \/ pc = "record" /\ api.phase = "active" /\ api'.phase = "updating"
  \/ /\ Current(cfg) /\ api'.phase \in {"active", "updating"}
     /\ pc \in {"wait", "importActive"} \cup UpdatePCs
     /\ pc = "wait" => /\ cfg.clusterID # NoID
                       /\ clusters[cfg.clusterID] \in {"running", "upgrading"}
     /\ pc \in {"wait", "importActive"} => api'.phase = "active"
     /\ api'.phase = "active" => pc \in {"wait", "importActive"} \cup SettledPCs

LEMMA SameApiKept == UNCHANGED api => SpecKept /\ PhaseKept
  BY DEF SpecKept, PhaseKept

LEMMA ReturnedStatusKept ==
  ASSUME StoreTypeOK, NEW o \in Configs,
         ReturnUpdateStatus(o) \/ ReturnUpdateStatusAndRequeue(o)
  PROVE  /\ SpecKept
         /\ UNCHANGED api \/ (Current(o) /\ api'.phase = o.phase)
  <1>1. PICK res : UpdateStatus(o, res)
    BY DEF ReturnUpdateStatus, ReturnUpdateStatusAndRequeue
  <1> QED BY <1>1, UpdateStatusResult DEF SpecKept

\* An object that differs from another one in its phase alone is as current.
LEMMA CurrentPhase ==
  ASSUME NEW o \in Configs, NEW p \in Phases, StoreTypeOK
  PROVE  /\ Current([o EXCEPT !.phase = p]) = Current(o)
         /\ [o EXCEPT !.phase = p].phase = p
         /\ [o EXCEPT !.phase = p] \in Configs
  BY DEF Current, Configs

LEMMA HeldBehind ==
  ASSUME VersionsAgree
  PROVE  NotAhead(cache, api) /\ NotAhead(seen, api) /\ NotAhead(cfg, api)
  BY DEF VersionsAgree, NotAhead, Held

LEMMA ProvisionWrites ==
  ASSUME TypeOK, VersionsAgree, ProvisionNext
  PROVE  SpecKept /\ PhaseKept
  <1>held. /\ StoreTypeOK /\ cfg \in Configs /\ cache \in Configs
           /\ newID \in NewIDs \cup {NoID}
    BY DEF TypeOK, StoreTypeOK, HandlerTypeOK
  <1>phase. ASSUME NEW p \in Phases, ReturnUpdateStatus([cfg EXCEPT !.phase = p])
            PROVE  /\ SpecKept
                   /\ UNCHANGED api \/ (Current(cfg) /\ api'.phase = p)
    <2> DEFINE o == [cfg EXCEPT !.phase = p]
    <2>1. o \in Configs /\ o.phase = p /\ (Current(o) = Current(cfg))
      BY <1>held, CurrentPhase
    <2>2. ReturnUpdateStatus(o)
      BY <1>phase
    <2> HIDE DEF o
    <2> QED BY <1>held, <2>1, <2>2, ReturnedStatusKept
  <1>1. CASE StartImport
    BY <1>1, <1>phase, SameApiKept DEF StartImport, Phases, PhaseKept
  <1>2. CASE CreationComplete
    BY <1>2, <1>phase, SameApiKept DEF CreationComplete, Phases, PhaseKept
  <1>3. CASE ImportActive
    BY <1>3, <1>phase, SameApiKept DEF ImportActive, Phases, PhaseKept
  <1>4. CASE SaveID
    <2> DEFINE saved == [cache EXCEPT !.clusterID = newID]
    <2>1. saved \in Configs /\ CopyOf(saved, cache) /\ saved.clusterID = newID
      BY <1>held DEF CopyOf, Configs, IDs
    <2> HIDE DEF saved
    <2>2. \A res \in WriteResults : Update(saved, res) =>
            (pc = "saveID" => SpecKept /\ PhaseKept)
      BY <1>held, <2>1, HeldBehind, UpdateResult DEF SpecKept, PhaseKept
    <2> QED BY <1>4, <2>2, SameApiKept DEF SaveID, saved
  <1>5. CASE SavePhase
    <2> DEFINE saved == [cache EXCEPT !.phase = "creating", !.msg = "none"]
    <2>1. saved \in Configs /\ saved.phase = "creating" /\ (Current(saved) = Current(cache))
      BY <1>held DEF Configs, Phases, Messages, Current
    <2> HIDE DEF saved
    <2>2. \A res \in WriteResults : UpdateStatus(saved, res) =>
            (pc = "savePhase" => SpecKept /\ PhaseKept)
      BY <1>held, <2>1, UpdateStatusResult DEF SpecKept, PhaseKept
    <2> QED BY <1>5, <2>2, SameApiKept DEF SavePhase, saved
  <1>6. CASE ImportSave
    <2>1. CopyOf(cfg, cfg)
      BY DEF CopyOf
    <2> QED BY <1>6, <1>held, <2>1, HeldBehind, UpdateResult DEF ImportSave, SpecKept, PhaseKept
  <1>7. CASE \/ CreateRefused \/ CreateSkipped \/ CreateFails \/ CreateSucceeds
             \/ WaitFails \/ WaitAbnormal \/ KeepWaiting
             \/ ImportRefused \/ ImportReadFails \/ ImportRead \/ ImportSecret
    BY <1>7, SameApiKept DEF CreateRefused, CreateSkipped, CreateFails, CreateSucceeds,
       WaitFails,
       WaitAbnormal, KeepWaiting, ImportRefused, ImportReadFails, ImportRead, ImportSecret,
       storeVars
  <1> QED BY <1>1, <1>2, <1>3, <1>4, <1>5, <1>6, <1>7 DEF ProvisionNext

LEMMA CheckUpdateWrites ==
  ASSUME TypeOK, VersionsAgree, CheckUpdateNext
  PROVE  SpecKept /\ PhaseKept
  <1>held. StoreTypeOK /\ cfg \in Configs
    BY DEF TypeOK, StoreTypeOK, HandlerTypeOK
  <1>phase. ASSUME NEW p \in {"active", "updating"}, pc \in UpdatePCs,
                   p = "active" => pc \in SettledPCs,
                   \/ ReturnUpdateStatus([cfg EXCEPT !.phase = p])
                   \/ ReturnUpdateStatusAndRequeue([cfg EXCEPT !.phase = p])
            PROVE  SpecKept /\ PhaseKept
    <2>1. p \in Phases
      BY DEF Phases
    <2>2. /\ SpecKept
          /\ UNCHANGED api \/ (Current(cfg) /\ api'.phase = p)
      BY <1>held, <1>phase, <2>1, CurrentPhase, ReturnedStatusKept
    <2> QED BY <1>phase, <2>2, SameApiKept DEF PhaseKept, UpdatePCs
  <1>1. CASE UpdateRefused \/ FinishWithoutPools
    BY <1>1, <1>phase DEF UpdateRefused, FinishWithoutPools, UpdatePCs, SettledPCs
  <1>2. CASE AwaitCluster \/ AwaitPools
    BY <1>2, <1>phase, SameApiKept DEF AwaitCluster, AwaitPools, PoolsBusy, UpdatePCs
  <1>3. CASE Finish
    BY <1>3, <1>phase, SameApiKept DEF Finish, UpdatePCs, SettledPCs
  <1>4. CASE EnqueuePut
    <2>1. PICK res \in WriteResults : UpdateStatus([cfg EXCEPT !.phase = "updating"], res)
      BY <1>4 DEF EnqueuePut
    <2>2. /\ Current([cfg EXCEPT !.phase = "updating"]) = Current(cfg)
          /\ [cfg EXCEPT !.phase = "updating"].phase = "updating"
          /\ [cfg EXCEPT !.phase = "updating"] \in Configs
      BY <1>held, CurrentPhase DEF Phases
    <2> QED BY <1>4, <1>held, <2>1, <2>2, UpdateStatusResult
            DEF EnqueuePut, SpecKept, PhaseKept, UpdatePCs
  <1>5. CASE SaveRows
    <2>1. CopyOf(cfg, cfg)
      BY DEF CopyOf
    <2> QED BY <1>5, <1>held, <2>1, HeldBehind, UpdateResult DEF SaveRows, SpecKept, PhaseKept
  <1>6. CASE \/ UpdateReadFails \/ GetCluster \/ GetNodePools \/ GetStatus
             \/ GetVirtualNodePools \/ SyncFails \/ SyncVersion \/ AwaitNodeUpgrade
             \/ NoNodeUpgrade \/ CheckNodes \/ TriggerNodeUpgrade \/ SyncModify \/ EnqueueGet
             \/ CreateRows \/ SyncDone \/ EndpointMissing \/ EndpointCreating
             \/ EndpointCreated \/ EndpointFails
    BY <1>6, SameApiKept DEF UpdateReadFails, GetCluster, GetNodePools, GetStatus,
       GetVirtualNodePools, SyncFails, SyncVersion, AwaitNodeUpgrade, NoNodeUpgrade,
       CheckNodes, TriggerNodeUpgrade, Proceed, SyncModify, EnqueueGet, CreateRows, SyncDone,
       EndpointMissing, EndpointCreating, EndpointCreated, EndpointFails, storeVars
  <1> QED BY <1>1, <1>2, <1>3, <1>4, <1>5, <1>6 DEF CheckUpdateNext

LEMMA RemovalWrites ==
  ASSUME TypeOK, VersionsAgree, RemovalNext
  PROVE  SpecKept /\ PhaseKept
  <1>held. StoreTypeOK /\ cfg \in Configs
    BY DEF TypeOK, StoreTypeOK, HandlerTypeOK
  <1>1. ASSUME NEW m \in Messages, RecordRemoveError(m) PROVE SpecKept /\ PhaseKept
    <2> DEFINE o == [cfg EXCEPT !.msg = m]
    <2>1. o \in Configs /\ o.phase = cfg.phase /\ (Current(o) = Current(cfg))
      BY <1>held DEF Configs, Current
    <2> HIDE DEF o
    <2>2. ASSUME NEW res, UpdateStatus(o, res) PROVE SpecKept /\ PhaseKept
      <3>1. Current(cfg) => cfg.phase = api.phase
        BY HeldBehind, FieldsOf, <1>held DEF Current, NotAhead, Agree, StoreTypeOK
      <3> QED BY <1>held, <2>1, <2>2, <3>1, UpdateStatusResult DEF SpecKept, PhaseKept
    <2> QED BY <1>1, <2>2, SameApiKept DEF RecordRemoveError, o
  <1>2. CASE RemoveAlreadyGone \/ ReportProtection
    BY <1>1, <1>2 DEF RemoveAlreadyGone, ReportProtection, TypeOK, HandlerTypeOK, Messages
  <1>3. CASE DropFinalizer
    <2> DEFINE o == [cfg EXCEPT !.finalizer = FALSE]
    <2>1. o \in Configs /\ CopyOf(o, cfg) /\ o.clusterID = cfg.clusterID
      BY <1>held DEF Configs, CopyOf
    <2>2. PICK res \in WriteResults : Update(o, res)
      BY <1>3 DEF DropFinalizer
    <2> HIDE DEF o
    <2> QED BY <1>held, <2>1, <2>2, HeldBehind, UpdateResult DEF SpecKept, PhaseKept
  <1>4. CASE ~(RemoveAlreadyGone \/ ReportProtection \/ DropFinalizer)
    BY <1>4, SameApiKept
    DEF RemovalNext, RemoveNothing, RemoveReadFails, RemoveFound, CheckNodePools,
        CheckVirtualNodePools, ProtectionUnknown, ProtectionChecked, NodePoolsDeleted,
        DeleteNodePools, VirtualNodePoolsDeleted, DeleteVirtualNodePools, RemoveCluster,
        RemoveClusterRefused, RemovalCallFails, storeVars
  <1> QED BY <1>2, <1>3, <1>4

LEMMA FrameWrites ==
  ASSUME TypeOK, VersionsAgree, Frame
  PROVE  SpecKept /\ PhaseKept
  <1>held. StoreTypeOK /\ cfg \in Configs /\ seen \in Configs /\ err \in Messages
    BY DEF TypeOK, StoreTypeOK, HandlerTypeOK
  <1>1. CASE Begin \/ End
    BY <1>1, SameApiKept DEF Begin, End
  <1>2. CASE RecordError
    <2>1. /\ Recorded \in Configs /\ Current(Recorded) = Current(cfg)
          /\ \/ Recorded.phase = cfg.phase
             \/ cfg.phase = "active" /\ Recorded.phase = "updating"
      BY <1>held DEF Recorded, Current, Configs, Phases
    <2>2. Current(cfg) => cfg.phase = api.phase
      BY HeldBehind, FieldsOf, <1>held DEF Current, NotAhead, Agree, StoreTypeOK
    <2>3. ASSUME NEW res, UpdateStatus(Recorded, res) PROVE SpecKept /\ PhaseKept
      BY <1>2, <1>held, <2>1, <2>2, <2>3, UpdateStatusResult
         DEF RecordError, SpecKept, PhaseKept
    <2> QED BY <1>2, <2>3, SameApiKept DEF RecordError
  <1>3. CASE AddFinalizer
    <2> DEFINE o == [Returned EXCEPT !.finalizer = TRUE]
    <2>1. Returned \in Configs /\ NotAhead(Returned, api)
      BY <1>held, HeldBehind DEF Returned
    <2>2. o \in Configs /\ CopyOf(o, Returned) /\ o.clusterID = Returned.clusterID
      BY <2>1 DEF Configs, CopyOf
    <2> HIDE DEF o
    <2>3. \A res : Update(o, res) => SpecKept /\ PhaseKept
      BY <1>held, <2>1, <2>2, UpdateResult DEF SpecKept, PhaseKept
    <2> QED BY <1>3, <2>3, SameApiKept DEF AddFinalizer, o
  <1> QED BY <1>1, <1>2, <1>3 DEF Frame

LEMMA StepWrites ==
  ASSUME TypeOK, VersionsAgree, Step
  PROVE  SpecKept /\ PhaseKept
  BY ProvisionWrites, CheckUpdateWrites, RemovalWrites, FrameWrites DEF Step, Remove

\* The operator never undoes a user's edit of the spec, with however old an
\* object it writes: every Update of the handlers (lines 330, 383, 664), and the
\* framework's of the finalizer.
THEOREM UserEditsAlwaysSurvive == Spec => UserEditsSurvive
  <1>1. TypeOK /\ VersionsAgree /\ [Next]_vars => [api'.valid # api.valid => edits' < edits]_vars
    <2> SUFFICES ASSUME TypeOK, VersionsAgree, Next, api'.valid # api.valid
                 PROVE  edits' < edits
      BY DEF vars, storeVars
    <2>1. User
      BY StepWrites DEF Next, SpecKept, Restart, Crash, Notify, Deliver, Cloud, storeVars
    <2>2. CASE UserEdit
      BY <2>2 DEF UserEdit, TypeOK, StoreTypeOK
    <2>3. CASE UserDelete
      BY <2>3 DEF UserDelete, Publish, TypeOK, StoreTypeOK, Configs
    <2> QED BY <2>1, <2>2, <2>3 DEF User
  <1> QED BY <1>1, TypeCorrect, VersionsAlwaysAgree, PTL DEF Spec, UserEditsSurvive

-----------------------------------------------------------------------------
(* Which cluster the operator means.                                       *)

ImportPCs == {"importSave", "importSecret", "importActive"}
DeletePCs == {"protection", "protectVirtual", "report", "removePools", "removeVirtual", "removeCluster"}

\* An id, once known, is never forgotten; a worker that needs one has one.
IdsStay ==
  /\ \A o \in Held : o.clusterID # NoID => api.clusterID # NoID
  /\ pc = "saveID" => newID # NoID
  /\ pc = "savePhase" => api.clusterID # NoID
  /\ pc \in ImportPCs \cup UpdatePCs => cfg.clusterID # NoID

\* A resource that names the cluster that was there before keeps naming it, and
\* is imported if it ever leaves its first phase.
ImportedOrNew(o) == o.clusterID = Existing => o.imported \/ o.phase = NotCreated

ForeignStays ==
  /\ \A o \in Held \cup {api} : ImportedOrNew(o)
  /\ \A o \in Held : o.there => /\ o.imported = api.imported
                                /\ o.clusterID = Existing <=> api.clusterID = Existing
  /\ pc \in {"create"} \cup UpdatePCs => cfg.there
  /\ pc \in {"saveID", "savePhase"} => api.clusterID # Existing
  /\ pc \in {"wait", "import"} \cup ImportPCs \cup UpdatePCs =>
       (cfg.clusterID = Existing => cfg.imported)
  /\ pc \in DeletePCs => cfg.clusterID # Existing

\* How the worker comes to the calls that need to know the cluster.
WorkerMoves ==
  /\ pc' = "create" => pc = "idle" /\ cfg' = cache /\ cache.there /\ cache.phase = NotCreated
  /\ pc' = "saveID" => \/ /\ pc = "create" /\ cfg.clusterID = NoID /\ ~cfg.imported
                          /\ newID' \in NewIDs
                       \/ pc = "saveID" /\ newID' = newID
  /\ pc' = "savePhase" => \/ pc = "savePhase" /\ api' = api
                          \/ pc = "saveID" /\ newID \in {cache.clusterID, api'.clusterID}
  /\ pc' \in {"wait", "import"} => pc = "idle" /\ cfg' = cache /\ cache.phase # NotCreated
  /\ pc' = "wait" => cache.phase = "creating"
  /\ pc' = "import" => cache.phase = "importing"
  /\ pc' \in ImportPCs => /\ pc \in {"import"} \cup ImportPCs
                          /\ pc = "import" => cfg.clusterID # NoID
                          /\ cfg'.clusterID = cfg.clusterID /\ cfg'.imported = cfg.imported
                          /\ cfg'.phase = cfg.phase
  /\ pc' \in UpdatePCs =>
       \/ /\ pc = "idle" /\ cfg' = cache
          /\ cache.there /\ cache.phase \in {"active", "updating"}
       \/ pc \in UpdatePCs /\ cfg' = api /\ api.there
       \/ /\ pc \in UpdatePCs /\ cfg'.there = cfg.there
          /\ cfg'.clusterID = cfg.clusterID /\ cfg'.imported = cfg.imported
          /\ cfg'.phase = cfg.phase
  /\ pc' \in DeletePCs => cfg' = cfg /\ (pc \in DeletePCs \/ (pc = "remove" /\ ~KeepsCluster))

LEMMA ProvisionMoves ==
  ASSUME TypeOK, VersionsAgree, ProvisionNext
  PROVE  WorkerMoves
  <1> USE DEF ImportPCs, UpdatePCs, DeletePCs
  <1>held. /\ StoreTypeOK /\ cfg \in Configs
           /\ pc \in PCs
    BY DEF TypeOK, StoreTypeOK, HandlerTypeOK
  <1>1. CASE pc' = "record"
    BY <1>1 DEF WorkerMoves
  <1>2. CASE CreateSucceeds
    BY <1>2 DEF CreateSucceeds, WorkerMoves
  <1>3. CASE SaveID
    <2>1. ASSUME NEW res, Update([cache EXCEPT !.clusterID = newID], res), res = "ok",
                 cfg' = api', pc' = "savePhase"
          PROVE  api'.clusterID = newID
      <3> DEFINE saved == [cache EXCEPT !.clusterID = newID]
      <3>1. /\ saved \in Configs /\ CopyOf(saved, cache) /\ saved.clusterID = newID
            /\ cache \in Configs
        BY DEF CopyOf, Configs, IDs, TypeOK, StoreTypeOK, HandlerTypeOK
      <3> HIDE DEF saved
      <3>2. Update(saved, res)
        BY <2>1 DEF saved
      <3> QED BY <1>held, <2>1, <3>1, <3>2, HeldBehind, UpdateResult
    <2>2. \/ pc' = "record"
          \/ pc' = "savePhase" /\ cache.clusterID = newID
          \/ pc' = "saveID" /\ newID' = newID
          \/ /\ pc' = "savePhase"
             /\ \E res : Update([cache EXCEPT !.clusterID = newID], res) /\ res = "ok"
             /\ cfg' = api'
      BY <1>3 DEF SaveID, Return, Continue, Again
    <2> QED BY <1>3, <2>1, <2>2 DEF SaveID, WorkerMoves
  <1>4. CASE SavePhase
    BY <1>4 DEF SavePhase, UpdateStatus, Write, Return, Again, WorkerMoves
  <1>5. CASE ImportRead
    BY <1>5, <1>held DEF ImportRead, Aligned, Configs, WorkerMoves
  <1>6. CASE ImportSave
    <2>1. PICK res \in WriteResults :
            /\ Update(cfg, res)
            /\ IF res = "ok" THEN Continue("importSecret", api') ELSE Return(seen, "store")
      BY <1>6 DEF ImportSave
    <2>2. CopyOf(cfg, cfg)
      BY DEF CopyOf
    <2>3. res = "ok" => /\ api'.clusterID = cfg.clusterID /\ api'.imported = cfg.imported
                        /\ api'.phase = cfg.phase
      BY <1>held, <2>1, <2>2, HeldBehind, UpdateResult
    <2> QED BY <1>6, <2>1, <2>3 DEF ImportSave, Return, Continue, WorkerMoves
  <1>7. CASE ImportSecret
    BY <1>7 DEF ImportSecret, Return, Continue, WorkerMoves
  <1>8. CASE StartImport \/ CreationComplete \/ ImportActive
    BY <1>1, <1>8 DEF StartImport, CreationComplete, ImportActive, ReturnUpdateStatus, Return
  <1>9. CASE \/ CreateRefused \/ CreateSkipped \/ CreateFails
             \/ WaitFails \/ WaitAbnormal \/ KeepWaiting \/ ImportRefused \/ ImportReadFails
    BY <1>1, <1>9 DEF CreateRefused, CreateSkipped, CreateFails, WaitFails, WaitAbnormal,
       KeepWaiting, ImportRefused, ImportReadFails, Return
  <1> QED BY <1>2, <1>3, <1>4, <1>5, <1>6, <1>7, <1>8, <1>9 DEF ProvisionNext

\* Where the modifying calls are made.
LEMMA ModifyPCs ==
  /\ UpgradeControlPlane => pc = "sync"
  /\ ModifyAttributes \/ ModifyNodePools \/ ModifyVirtualNodePools => pc = "modify"
  /\ CreateNodePools => pc = "modify"
  /\ UpgradeNodes => pc = "nodeTrigger"
  BY DEF UpgradeControlPlane, ModifyAttributes, ModifyNodePools, ModifyVirtualNodePools,
     CreateNodePools, PoolsToCreate, PoolsToModify, UpgradeNodes

LEMMA CheckUpdateFrom == CheckUpdateNext => pc \in UpdatePCs
  BY ModifyPCs
     DEF CheckUpdateNext, UpdateRefused, GetCluster, GetNodePools, GetStatus,
         GetVirtualNodePools, UpdateReadFails, AwaitCluster, AwaitPools, PoolsBusy, SyncFails,
         SyncVersion, AwaitNodeUpgrade, NoNodeUpgrade, CheckNodes, TriggerNodeUpgrade,
         SyncModify,
         EnqueueGet, EnqueuePut, FinishWithoutPools, CreateRows, SaveRows, SyncDone,
         PoolsToModify, EndpointMissing, EndpointCreating, EndpointCreated, EndpointFails,
         Finish,
         UpdatePCs

LEMMA CheckUpdateMoves ==
  ASSUME TypeOK, CheckUpdateNext
  PROVE  WorkerMoves
  <1> USE DEF ImportPCs, UpdatePCs, DeletePCs
  <1>held. cfg \in Configs
    BY DEF TypeOK, HandlerTypeOK
  <1>1. ASSUME pc \in UpdatePCs, pc' \in UpdatePCs \cup {"record"}, cfg' = cfg
        PROVE  WorkerMoves
    BY <1>1 DEF WorkerMoves
  <1>2. CASE pc' = "record"
    BY <1>2 DEF WorkerMoves
  <1>3. CASE \/ GetCluster \/ GetNodePools \/ GetStatus \/ GetVirtualNodePools
             \/ NoNodeUpgrade \/ CheckNodes \/ SyncDone \/ EndpointCreated
    BY <1>3, <1>1 DEF GetCluster, GetNodePools, GetStatus, GetVirtualNodePools, NoNodeUpgrade,
       CheckNodes, SyncDone, PoolsToModify, EndpointCreated, Continue, Proceed
  <1>4. CASE SyncVersion \/ SyncModify
    BY <1>4, <1>1, <1>2, ModifyPCs DEF SyncVersion, SyncModify, EnqueueUpdate, Continue, Return
  <1>5. CASE EnqueueGet
    BY <1>5, <1>2 DEF EnqueueGet, Return, WorkerMoves
  <1>6. CASE EnqueuePut
    BY <1>6, <1>1, <1>2 DEF EnqueuePut, Return
  <1>7. CASE CreateRows
    BY <1>7, <1>held, ModifyPCs DEF CreateRows, Configs, WorkerMoves
  <1>8. CASE \/ UpdateRefused \/ UpdateReadFails \/ AwaitCluster \/ AwaitPools \/ SyncFails
             \/ AwaitNodeUpgrade \/ TriggerNodeUpgrade \/ FinishWithoutPools \/ SaveRows
             \/ EndpointMissing \/ EndpointCreating \/ EndpointFails \/ Finish
    BY <1>2, <1>8 DEF UpdateRefused, UpdateReadFails, AwaitCluster, AwaitPools, SyncFails,
       AwaitNodeUpgrade, TriggerNodeUpgrade, FinishWithoutPools, SaveRows, EndpointMissing,
       EndpointCreating, EndpointFails, Finish, Return, ReturnUpdateStatus,
       ReturnUpdateStatusAndRequeue
  <1> QED BY <1>3, <1>4, <1>5, <1>6, <1>7, <1>8 DEF CheckUpdateNext

LEMMA RemovalMoves ==
  ASSUME RemovalNext
  PROVE  WorkerMoves
  BY DEF RemovalNext, RemoveNothing, RemoveReadFails, RemoveAlreadyGone, RemoveFound,
     CheckNodePools, CheckVirtualNodePools, ProtectionUnknown, ProtectionChecked,
     ReportProtection, NodePoolsDeleted, DeleteNodePools, VirtualNodePoolsDeleted,
     DeleteVirtualNodePools, RemoveCluster, RemoveClusterRefused, RemovalCallFails,
     DropFinalizer, RemovalDone, RemovalFails, Proceed, Sleep, ImportPCs, UpdatePCs, DeletePCs,
     WorkerMoves

LEMMA FrameMoves ==
  ASSUME TypeOK, Frame
  PROVE  WorkerMoves
  <1>1. cache.phase \in Phases
    BY FieldsOf DEF TypeOK, StoreTypeOK
  <1> QED
    BY <1>1 DEF Frame, Begin, HandlerOf, RecordError, AddFinalizer, End, Reset, Phases,
       NotCreated,
       ImportPCs, UpdatePCs, DeletePCs, WorkerMoves

LEMMA StepMoves ==
  ASSUME TypeOK, VersionsAgree, Step
  PROVE  WorkerMoves
  BY ProvisionMoves, CheckUpdateMoves, RemovalMoves, FrameMoves DEF Step, Remove

\* Everything but the worker leaves the worker's variables and what the resource
\* says of its cluster alone, or resets the worker.
LEMMA EnvironmentKeeps ==
  ASSUME TypeOK, [Next]_vars, ~Step
  PROVE  /\ api'.phase = api.phase /\ api'.clusterID = api.clusterID
         /\ api'.imported = api.imported
         /\ pc' = "idle" \/ UNCHANGED <<pc, cfg, newID, read>>
  <1>1. CASE User
    BY <1>1 DEF User, UserEdit, UserDelete, Publish, handlerVars, TypeOK, StoreTypeOK, Configs
  <1>2. CASE Restart \/ Notify \/ Cloud \/ UNCHANGED vars
    BY <1>2 DEF Restart, Crash, Reset, Notify, Deliver, Cloud, vars, storeVars, handlerVars
  <1> QED BY <1>1, <1>2 DEF Next

LEMMA InitIds == Init => IdsStay /\ CreatingHasCluster
  <1> SUFFICES ASSUME Init PROVE IdsStay /\ CreatingHasCluster
    OBVIOUS
  <1>1. Held = {api, Empty} /\ Empty.clusterID = NoID /\ Empty.phase = NotCreated
    BY DEF Init, Held, Empty
  <1>2. api.phase = NotCreated
    <2>1. PICK kind \in Kinds : api \in NewResource(kind)
      BY DEF Init
    <2>2. \A v, r : Resource(kind, v, r).phase = NotCreated
      BY DEF Resource, Empty
    <2> QED BY <2>1, <2>2 DEF NewResource
  <1> QED BY <1>1, <1>2
          DEF Init, IdsStay, CreatingHasCluster, ImportPCs, UpdatePCs, NotCreated

LEMMA NextIds ==
  ASSUME TypeOK, VersionsAgree, IdsStay, CreatingHasCluster, [Next]_vars
  PROVE  IdsStay' /\ CreatingHasCluster'
  <1> DEFINE HasCluster(o) == o.phase \in {"creating", "active", "updating"} => o.clusterID # NoID
  <1>id. api.clusterID # NoID => api'.clusterID # NoID
    BY StepWrites, EnvironmentKeeps DEF IdsStay, SpecKept
  <1>cfg. cfg.clusterID # NoID => api.clusterID # NoID
    BY DEF IdsStay, Held
  <1>phase. HasCluster(api')
    <2>1. CASE ~Step
      BY <2>1, EnvironmentKeeps DEF CreatingHasCluster
    <2>2. CASE Step
      BY <2>2, <1>id, <1>cfg, StepWrites DEF CreatingHasCluster, IdsStay, PhaseKept, ImportPCs
    <2> QED BY <2>1, <2>2
  <1>1. \A h \in Held \cup {api', Empty} :
          HasCluster(h) /\ (h.clusterID # NoID => api'.clusterID # NoID)
    <2>1. Empty.clusterID = NoID /\ Empty.phase = ""
      BY DEF Empty, NotCreated
    <2> QED BY <1>id, <1>phase, <2>1 DEF IdsStay, CreatingHasCluster
  <1>2. \A o \in Held' : HasCluster(o) /\ (o.clusterID # NoID => api'.clusterID # NoID)
    BY <1>1, NextHeld DEF SameVersion, Agree
  <1>3. CreatingHasCluster'
    BY <1>phase, <1>2 DEF CreatingHasCluster
  <1>4. CASE ~Step
    BY <1>2, <1>3, <1>4, <1>id, EnvironmentKeeps DEF IdsStay, ImportPCs, UpdatePCs
  <1>5. CASE Step
    <2>1. WorkerMoves
      BY <1>5, StepMoves
    <2>2. pc' = "saveID" => newID' # NoID
      BY <2>1, IDsAssumption DEF WorkerMoves, IdsStay
    <2>3. pc' = "savePhase" => api'.clusterID # NoID
      BY <2>1, <1>id DEF WorkerMoves, IdsStay, Held
    <2>4. pc' \in ImportPCs => cfg'.clusterID # NoID
      BY <2>1 DEF WorkerMoves, IdsStay
    <2>5. pc' \in UpdatePCs => cfg'.clusterID # NoID
      BY <2>1, <1>cfg DEF WorkerMoves, IdsStay, CreatingHasCluster, Held
    <2> QED BY <1>2, <1>3, <2>2, <2>3, <2>4, <2>5 DEF IdsStay
  <1> QED BY <1>4, <1>5

\* A resource that is said to be creating, active or updating has an id, in every
\* version the operator may be reading: waitForCreationComplete (line 425) and
\* OnTkeConfigRemoved (line 161) rely on it.
THEOREM CreatingAlwaysHasCluster == Spec => []CreatingHasCluster
  <1>1. /\ TypeOK /\ VersionsAgree /\ IdsStay /\ CreatingHasCluster /\ [Next]_vars
        => (IdsStay /\ CreatingHasCluster)'
    BY NextIds
  <1> QED BY <1>1, InitIds, TypeCorrect, VersionsAlwaysAgree, PTL DEF Spec

LEMMA InitForeign == Init => ForeignStays /\ ForeignClusterUntouched
  <1> SUFFICES ASSUME Init PROVE ForeignStays /\ ForeignClusterUntouched
    OBVIOUS
  <1>1. /\ Held = {api, Empty} /\ Empty.there = FALSE
        /\ Empty.clusterID = NoID /\ Empty.phase = NotCreated
    BY DEF Init, Held, Empty
  <1>2. api.phase = NotCreated
    <2>1. PICK kind \in Kinds : api \in NewResource(kind)
      BY DEF Init
    <2>2. \A v, r : Resource(kind, v, r).phase = NotCreated
      BY DEF Resource, Empty
    <2> QED BY <2>1, <2>2 DEF NewResource
  <1>3. ForeignStays
    BY <1>1, <1>2, IDsAssumption
       DEF Init, ForeignStays, ImportedOrNew, ImportPCs, UpdatePCs, DeletePCs
  <1> QED BY <1>3 DEF Init, ForeignClusterUntouched, IDs

LEMMA NextForeign ==
  ASSUME TypeOK, VersionsAgree, ForeignStays, [Next]_vars
  PROVE  ForeignStays'
  <1>empty. Empty.there = FALSE /\ Empty.clusterID = NoID
    BY DEF Empty
  <1>new. newID \in NewIDs \cup {NoID}
    BY DEF TypeOK, HandlerTypeOK
  <1>saving. pc \in {"saveID", "savePhase"} => api.clusterID # Existing
    BY DEF ForeignStays
  <1>id. api'.clusterID = Existing <=> api.clusterID = Existing
    BY <1>saving, <1>new, IDsAssumption, StepWrites, EnvironmentKeeps DEF SpecKept
  <1>imported. api'.imported = api.imported
    BY StepWrites, EnvironmentKeeps DEF SpecKept
  <1>current. Current(cfg) => Agree(cfg, api)
    BY HeldBehind, FieldsOf DEF Current, NotAhead, TypeOK, StoreTypeOK, HandlerTypeOK
  <1>phase. ImportedOrNew(api')
    <2>1. CASE ~Step
      BY <2>1, EnvironmentKeeps DEF ForeignStays, ImportedOrNew
    <2>2. CASE Step
      <3>1. CASE api'.phase = api.phase
        BY <3>1, <1>id, <1>imported DEF ForeignStays, ImportedOrNew
      <3>2. CASE pc = "create" /\ cfg.imported /\ Current(cfg)
        BY <3>2, <1>imported, <1>current DEF ImportedOrNew, Agree
      <3>3. CASE pc = "savePhase"
        BY <3>3, <1>saving, <1>id DEF ImportedOrNew
      <3>4. CASE api.phase = "active"
        BY <3>4, <1>id, <1>imported DEF ForeignStays, ImportedOrNew, NotCreated
      <3>5. CASE Current(cfg) /\ pc \in {"wait", "importActive"} \cup UpdatePCs
        BY <3>5, <1>id, <1>imported, <1>current
           DEF ForeignStays, ImportedOrNew, Agree, ImportPCs
      <3> QED BY <2>2, <3>1, <3>2, <3>3, <3>4, <3>5, StepWrites DEF PhaseKept
    <2> QED BY <2>1, <2>2
  <1> DEFINE Like(o) == o.there => /\ o.imported = api'.imported
                                   /\ o.clusterID = Existing <=> api'.clusterID = Existing
  <1>1. \A h \in Held \cup {api', Empty} : ImportedOrNew(h) /\ Like(h)
    BY <1>empty, <1>id, <1>imported, <1>phase, IDsAssumption DEF ForeignStays, ImportedOrNew
  <1>2. \A o \in Held' \cup {api'} : ImportedOrNew(o) /\ Like(o)
    BY <1>1, <1>phase, NextHeld DEF SameVersion, Agree, ImportedOrNew
  <1>3. CASE ~Step
    BY <1>2, <1>3, <1>id, EnvironmentKeeps DEF ForeignStays, ImportPCs, UpdatePCs, DeletePCs
  <1>4. CASE Step
    <2>1. WorkerMoves
      BY <1>4, StepMoves
    <2>2. pc' \in {"create"} \cup UpdatePCs => cfg'.there
      BY <2>1 DEF WorkerMoves, ForeignStays, UpdatePCs
    <2>3. pc' \in {"saveID", "savePhase"} => api'.clusterID # Existing
      <3>1. pc = "create" /\ cfg.clusterID = NoID => api.clusterID # Existing
        BY IDsAssumption DEF ForeignStays, Held
      <3> QED BY <2>1, <3>1, <1>id, <1>saving DEF WorkerMoves
    <2>4. pc' \in {"wait", "import"} => (cfg'.clusterID = Existing => cfg'.imported)
      BY <2>1 DEF WorkerMoves, ForeignStays, ImportedOrNew, Held
    <2>5. pc' \in ImportPCs => (cfg'.clusterID = Existing => cfg'.imported)
      BY <2>1 DEF WorkerMoves, ForeignStays
    <2>6. pc' \in UpdatePCs => (cfg'.clusterID = Existing => cfg'.imported)
      <3>1. CASE pc = "idle" /\ cfg' = cache /\ cache.phase \in {"active", "updating"}
        BY <3>1 DEF ForeignStays, ImportedOrNew, Held, NotCreated
      <3>2. CASE pc \in UpdatePCs /\ cfg' = api
        BY <3>2 DEF ForeignStays, Held
      <3>3. CASE pc \in UpdatePCs /\ cfg'.clusterID = cfg.clusterID /\ cfg'.imported = cfg.imported
        BY <3>3 DEF ForeignStays
      <3> QED BY <2>1, <3>1, <3>2, <3>3 DEF WorkerMoves
    <2>7. pc' \in DeletePCs => cfg'.clusterID # Existing
      BY <2>1 DEF WorkerMoves, ForeignStays, ImportedOrNew, Held, KeepsCluster
    <2> QED BY <1>2, <2>2, <2>3, <2>4, <2>5, <2>6, <2>7 DEF ForeignStays
  <1> QED BY <1>3, <1>4

\* A reconcile changes the state of a cluster only by starting its upgrade.
LEMMA CheckUpdateClusters ==
  ASSUME CheckUpdateNext
  PROVE  UNCHANGED clusters \/ (pc = "sync" /\ UpdateClusterVersion(cfg.clusterID))
  <1>1. Begun \/ CreateNodePools => UNCHANGED clusters \/ UpgradeControlPlane
    BY DEF Begun, UpgradeNodes, ModifyAttributes, CreateNodePools, ModifyNodePools,
       ModifyVirtualNodePools
  <1>2. CASE SyncFails \/ SyncVersion \/ TriggerNodeUpgrade \/ SyncModify \/ CreateRows
    <2>1. UNCHANGED clusters \/ UpgradeControlPlane
      BY <1>1, <1>2 DEF SyncFails, SyncVersion, TriggerNodeUpgrade, SyncModify, CreateRows,
         Begun,
         cloudVars
    <2> QED BY <2>1 DEF UpgradeControlPlane
  <1>3. CASE ~(SyncFails \/ SyncVersion \/ TriggerNodeUpgrade \/ SyncModify \/ CreateRows)
    BY <1>3 DEF CheckUpdateNext, UpdateRefused, GetCluster, GetNodePools, GetStatus,
       GetVirtualNodePools, UpdateReadFails, AwaitCluster, AwaitPools, AwaitNodeUpgrade,
       NoNodeUpgrade, CheckNodes, EnqueueGet, EnqueuePut, FinishWithoutPools, SaveRows, SyncDone,
       EndpointMissing, EndpointCreating, EndpointCreated, EndpointFails, Finish, cloudVars
  <1> QED BY <1>2, <1>3

LEMMA NextForeignCluster ==
  ASSUME TypeOK, ForeignStays, ForeignClusterUntouched, [Next]_vars
  PROVE  ForeignClusterUntouched'
  <1> USE IDsAssumption DEF ForeignClusterUntouched, TypeOK, CloudTypeOK, IDs
  <1>1. CASE ProvisionNext
    BY <1>1 DEF ProvisionNext, StartImport, CreateRefused, CreateSkipped, CreateFails,
       CreateSucceeds, CreateCluster, SaveID, SavePhase, WaitFails, WaitAbnormal,
       CreationComplete, KeepWaiting, ImportRefused, ImportReadFails, ImportRead, ImportSave,
       ImportSecret, ImportActive, cloudVars
  <1>2. CASE CheckUpdateNext
    BY <1>2, CheckUpdateClusters DEF UpdateClusterVersion
  <1>3. CASE RemovalNext
    <2>1. pc = "removeCluster" => cfg.clusterID # Existing
      BY DEF ForeignStays, DeletePCs
    <2> QED
      BY <1>3, <2>1 DEF RemovalNext, RemoveNothing, RemoveReadFails, RemoveAlreadyGone,
         RemoveFound, CheckNodePools, CheckVirtualNodePools, ProtectionUnknown,
         ProtectionChecked, ReportProtection, NodePoolsDeleted, DeleteNodePools,
         VirtualNodePoolsDeleted, DeleteVirtualNodePools, RemoveCluster, RemoveClusterRefused,
         RemovalCallFails, DeleteCluster, DropFinalizer, cloudVars
  <1>4. CASE Frame \/ Restart \/ Notify \/ User \/ UNCHANGED vars
    BY <1>4 DEF Frame, Begin, RecordError, AddFinalizer, End, Restart, Crash, Notify, User,
       vars, cloudVars
  <1>5. CASE Cloud
    <2>1. \A id \in Made : id # Existing
      BY DEF Made
    <2> QED
      BY <1>5, <2>1 DEF Cloud, CloudProgress, ClusterProgress, PoolProgress, NodeProgress,
         EndpointProgress, NodeUpgradeFails, Console, DeleteCluster
  <1> QED BY <1>1, <1>2, <1>3, <1>4, <1>5 DEF Next, Step, Remove

\* The operator never deletes a cluster that was there before the resource, be it
\* imported or only named in the spec (lines 150-164), whatever is lost, crashes,
\* or is edited or deleted meanwhile.
THEOREM ForeignClusterAlwaysUntouched == Spec => []ForeignClusterUntouched
  <1>1. /\ TypeOK /\ VersionsAgree /\ ForeignStays /\ ForeignClusterUntouched /\ [Next]_vars
        => (ForeignStays /\ ForeignClusterUntouched)'
    BY NextForeign, NextForeignCluster
  <1> QED BY <1>1, InitForeign, TypeCorrect, VersionsAlwaysAgree, PTL DEF Spec

-----------------------------------------------------------------------------
(* Duplicate clusters.                                                     *)

\* The clusters the operator made and knows nothing of any more.
Surplus == Made \ {api.clusterID, newID}

\* The ids the operator knows are of clusters it made, or that were there.  While it
\* saves a new one, nobody holds that id unless it is stored.
OwnIds ==
  /\ \A o \in Held \cup {api} : o.clusterID \in Made \cup {Existing, NoID}
  /\ pc = "saveID" => \A o \in Held : o.clusterID = newID => api.clusterID = newID
  /\ pc = "savePhase" => api.clusterID = newID
  /\ newID \in Made \cup {NoID}
  /\ pc \notin {"saveID", "savePhase"} => newID = NoID

\* Each cluster it does not know has its cause.
SurplusCounted == IsFiniteSet(Made) /\ Cardinality(Surplus) <= causes

\* A step makes one more cluster.
MadeOne(id) == Made' = Made \cup {id} /\ id \notin Made

LEMMA CreateMade ==
  ASSUME TypeOK, NEW id, CreateCluster(id)
  PROVE  MadeOne(id)
  BY DEF CreateCluster, MadeOne, Made, TypeOK, CloudTypeOK, IDs

\* Only CreateCluster makes a cluster.
LEMMA DeleteMade ==
  ASSUME TypeOK, NEW id, DeleteCluster(id)
  PROVE  Made' = Made
  BY DEF DeleteCluster, Found, Made, TypeOK, CloudTypeOK, IDs

LEMMA StepMade ==
  ASSUME TypeOK, ProvisionNext \/ CheckUpdateNext \/ RemovalNext \/ Frame
  PROVE  \/ Made' = Made
         \/ CreateFails /\ LosesID /\ \E id \in NewIDs : MadeOne(id)
         \/ CreateSucceeds /\ newID' \in NewIDs /\ MadeOne(newID')
  <1>same. UNCHANGED clusters => Made' = Made
    BY DEF Made
  <1>1. CASE CreateFails
    BY <1>1, <1>same, CreateMade DEF CreateFails
  <1>2. CASE CreateSucceeds
    BY <1>2, CreateMade DEF CreateSucceeds
  <1>3. CASE ProvisionNext /\ ~CreateFails /\ ~CreateSucceeds
    BY <1>3, <1>same DEF ProvisionNext, StartImport, CreateRefused, CreateSkipped, SaveID,
       SavePhase, WaitFails, WaitAbnormal, CreationComplete, KeepWaiting, ImportRefused,
       ImportReadFails, ImportRead, ImportSave, ImportSecret, ImportActive, cloudVars
  <1>4. CASE CheckUpdateNext
    BY <1>4, <1>same, CheckUpdateClusters
       DEF UpdateClusterVersion, Running, Made, TypeOK, CloudTypeOK, IDs
  <1>6. CASE RemoveCluster \/ RemovalCallFails
    BY <1>6, <1>same, DeleteMade DEF RemoveCluster, RemovalCallFails
  <1>7. CASE RemovalNext /\ ~(RemoveCluster \/ RemovalCallFails)
    BY <1>7, <1>same DEF RemovalNext, RemoveNothing, RemoveReadFails, RemoveAlreadyGone,
       RemoveFound, CheckNodePools, CheckVirtualNodePools, ProtectionUnknown,
       ProtectionChecked, ReportProtection, NodePoolsDeleted, DeleteNodePools,
       VirtualNodePoolsDeleted, DeleteVirtualNodePools, RemoveClusterRefused, DropFinalizer,
       cloudVars
  <1>8. CASE Frame
    BY <1>8, <1>same DEF Frame, Begin, RecordError, AddFinalizer, End, cloudVars
  <1> QED BY <1>1, <1>2, <1>3, <1>4, <1>6, <1>7, <1>8

LEMMA EnvironmentMade ==
  ASSUME TypeOK, Restart \/ Notify \/ User \/ Cloud \/ UNCHANGED vars
  PROVE  Made' = Made
  <1>same. UNCHANGED clusters => Made' = Made
    BY DEF Made
  <1>1. CASE Restart \/ Notify \/ User \/ UNCHANGED vars
    BY <1>1, <1>same DEF Restart, Crash, Notify, User, vars, cloudVars
  <1>2. CASE Cloud
    <2>1. ASSUME NEW id \in IDs, ClusterProgress(id) PROVE Made' = Made
      BY <2>1 DEF ClusterProgress, Made, TypeOK, CloudTypeOK, IDs
    <2> QED
      BY <1>2, <1>same, <2>1, DeleteMade
         DEF Cloud, CloudProgress, PoolProgress, NodeProgress, EndpointProgress,
             NodeUpgradeFails, Console
  <1> QED BY <1>1, <1>2

\* Only SaveID leaves the loop that saves the id.
LEMMA OnlySaveID ==
  ASSUME pc = "saveID", Step
  PROVE  SaveID
  <1>1. CASE ProvisionNext
    BY <1>1 DEF ProvisionNext, StartImport, CreateRefused, CreateSkipped, CreateFails,
       CreateSucceeds, SavePhase, WaitFails, WaitAbnormal, CreationComplete, KeepWaiting,
       ImportRefused, ImportReadFails, ImportRead, ImportSave, ImportSecret, ImportActive
  <1>2. ~CheckUpdateNext
    BY CheckUpdateFrom DEF UpdatePCs
  <1>3. ~RemovalNext
    BY DEF RemovalNext, RemoveNothing, RemoveReadFails, RemoveAlreadyGone, RemoveFound,
       CheckNodePools, CheckVirtualNodePools, ProtectionUnknown, ProtectionChecked,
       ReportProtection, NodePoolsDeleted, DeleteNodePools, VirtualNodePoolsDeleted,
       DeleteVirtualNodePools, RemoveCluster, RemoveClusterRefused, RemovalCallFails,
       DropFinalizer
  <1>4. ~Frame
    BY DEF Frame, Begin, RecordError, AddFinalizer, End
  <1> QED BY <1>1, <1>2, <1>3, <1>4 DEF Step, Remove

LEMMA CausesGrow ==
  ASSUME TypeOK, [Next]_vars
  PROVE  UNCHANGED causes \/ LosesID
  <1>1. CASE ProvisionNext
    BY <1>1 DEF ProvisionNext, StartImport, CreateRefused, CreateSkipped, CreateFails,
       CreateSucceeds, SaveID, SavePhase, WaitFails, WaitAbnormal, CreationComplete, KeepWaiting,
       ImportRefused, ImportReadFails, ImportRead, ImportSave, ImportSecret, ImportActive,
       provisionVars
  <1>2. CASE CheckUpdateNext
    BY <1>2 DEF CheckUpdateNext, UpdateRefused, UpdateReadFails, AwaitCluster, AwaitPools,
       GetCluster, GetNodePools, GetStatus, GetVirtualNodePools, SyncFails, SyncVersion,
       AwaitNodeUpgrade, NoNodeUpgrade, CheckNodes, TriggerNodeUpgrade, Proceed, SyncModify,
       EnqueueGet, EnqueuePut, FinishWithoutPools, CreateRows, SaveRows, SyncDone,
       EndpointMissing, EndpointCreating, EndpointCreated, EndpointFails, Finish, provisionVars
  <1>3. CASE Remove \/ Frame \/ Restart \/ Notify \/ User \/ Cloud \/ UNCHANGED vars
    BY <1>3 DEF Remove, Frame, Restart, Notify, User, Cloud, vars, provisionVars
  <1> QED BY <1>1, <1>2, <1>3 DEF Next, Step

\* How the worker comes by a new id, keeps it and gives it up.
NewIDMoves ==
  /\ pc' \in {"saveID", "savePhase"} =>
       \/ CreateSucceeds /\ pc' = "saveID"
       \/ pc \in {"saveID", "savePhase"} /\ newID' = newID
  /\ pc' \notin {"saveID", "savePhase"} =>
       newID' = NoID \/ (newID' = newID /\ pc \notin {"saveID", "savePhase"})

LEMMA ProvisionNewID ==
  ASSUME ProvisionNext
  PROVE  NewIDMoves
  <1>1. CASE CreateSucceeds
    BY <1>1 DEF CreateSucceeds, NewIDMoves
  <1>2. CASE SaveID \/ SavePhase
    BY <1>2 DEF SaveID, SavePhase, Continue, Return, Again, NewIDMoves
  <1>3. CASE ~(CreateSucceeds \/ SaveID \/ SavePhase)
    BY <1>3 DEF ProvisionNext, StartImport, CreateRefused, CreateSkipped, CreateFails, WaitFails,
       WaitAbnormal, CreationComplete, KeepWaiting, ImportRefused, ImportReadFails, ImportRead,
       ImportSave, ImportSecret, ImportActive, ReturnUpdateStatus, Return, Continue, NewIDMoves
  <1> QED BY <1>1, <1>2, <1>3

LEMMA CheckUpdateNewID ==
  ASSUME CheckUpdateNext
  PROVE  NewIDMoves
  <1>1. ASSUME pc \notin {"saveID", "savePhase"}, pc' \notin {"saveID", "savePhase"},
               newID' \in {newID, NoID}
        PROVE  NewIDMoves
    BY <1>1 DEF NewIDMoves
  <1>2. CASE \/ SyncVersion \/ SyncModify \/ CreateRows
    BY <1>1, <1>2, ModifyPCs DEF SyncVersion, SyncModify, CreateRows, EnqueueUpdate, Continue,
       Return
  <1>3. CASE UpdateRefused \/ AwaitCluster \/ AwaitPools \/ FinishWithoutPools \/ Finish
    BY <1>1, <1>3 DEF UpdateRefused, AwaitCluster, AwaitPools, PoolsBusy, FinishWithoutPools,
       Finish, ReturnUpdateStatus, ReturnUpdateStatusAndRequeue, Return
  <1>4. CASE \/ GetCluster \/ GetNodePools \/ GetStatus \/ GetVirtualNodePools
             \/ UpdateReadFails \/ SyncFails \/ AwaitNodeUpgrade \/ NoNodeUpgrade \/ CheckNodes
             \/ SaveRows \/ SyncDone
    BY <1>1, <1>4 DEF GetCluster, GetNodePools, GetStatus, GetVirtualNodePools, UpdateReadFails,
       SyncFails, AwaitNodeUpgrade, NoNodeUpgrade, CheckNodes, SaveRows, SyncDone, PoolsToModify,
       Proceed, Continue, Return
  <1>5. CASE TriggerNodeUpgrade
    BY <1>1, <1>5, ModifyPCs DEF TriggerNodeUpgrade, Return
  <1>6. CASE \/ EnqueueGet \/ EnqueuePut \/ EndpointMissing \/ EndpointCreating
             \/ EndpointCreated \/ EndpointFails
    BY <1>1, <1>6 DEF EnqueueGet, EnqueuePut, EndpointMissing, EndpointCreating, EndpointCreated,
       EndpointFails, Continue, Return
  <1> QED BY <1>2, <1>3, <1>4, <1>5, <1>6 DEF CheckUpdateNext

LEMMA RemovalNewID ==
  ASSUME RemovalNext
  PROVE  NewIDMoves
  BY DEF RemovalNext, RemoveNothing, RemoveReadFails, RemoveAlreadyGone, RemoveFound,
     CheckNodePools, CheckVirtualNodePools, ProtectionUnknown, ProtectionChecked,
     ReportProtection, NodePoolsDeleted, DeleteNodePools, VirtualNodePoolsDeleted,
     DeleteVirtualNodePools, RemoveCluster, RemoveClusterRefused, RemovalCallFails,
     DropFinalizer, RemovalDone, RemovalFails, Proceed, Sleep, NewIDMoves

LEMMA NextNewID ==
  ASSUME TypeOK, [Next]_vars
  PROVE  \/ NewIDMoves
         \/ UNCHANGED <<pc, newID>>
         \/ Restart /\ pc' = "idle" /\ newID' = NoID /\ UNCHANGED api
  <1>1. CASE Frame
    <2>1. cache.phase \in Phases
      BY FieldsOf DEF TypeOK, StoreTypeOK
    <2>2. NewIDMoves
      BY <1>1, <2>1 DEF Frame, Begin, HandlerOf, RecordError, AddFinalizer, End, Reset, Phases,
         NotCreated, NewIDMoves
    <2> QED BY <2>2
  <1>2. CASE Restart
    BY <1>2 DEF Restart, Crash, Reset
  <1>3. CASE Notify \/ User \/ Cloud \/ UNCHANGED vars
    BY <1>3 DEF Notify, User, Cloud, vars, handlerVars
  <1> QED BY <1>1, <1>2, <1>3, ProvisionNewID, CheckUpdateNewID, RemovalNewID
          DEF Next, Step, Remove

LEMMA NextMade ==
  ASSUME TypeOK, [Next]_vars
  PROVE  \/ Made' = Made
         \/ CreateFails /\ LosesID /\ \E id \in NewIDs : MadeOne(id)
         \/ CreateSucceeds /\ newID' \in NewIDs /\ MadeOne(newID')
  BY StepMade, EnvironmentMade DEF Next, Step, Remove

\* The id that is stored changes only where it is saved.
LEMMA NextStoredID ==
  ASSUME TypeOK, VersionsAgree, [Next]_vars
  PROVE  \/ api'.clusterID = api.clusterID
         \/ pc = "saveID" /\ SaveID /\ api'.clusterID = newID
  BY StepWrites, EnvironmentKeeps, OnlySaveID DEF SpecKept

LEMMA InitOwnIds == Init => OwnIds
  <1> SUFFICES ASSUME Init PROVE OwnIds
    OBVIOUS
  <1>1. Held = {api, Empty} /\ Empty.clusterID = NoID
    BY DEF Init, Held, Empty
  <1>2. api.clusterID \in {Existing, NoID}
    <2>1. PICK kind \in Kinds : api \in NewResource(kind)
      BY DEF Init
    <2>2. \A v, r : Resource(kind, v, r).clusterID \in {Existing, NoID}
      BY DEF Resource, Empty
    <2> QED BY <2>1, <2>2 DEF NewResource
  <1> QED BY <1>1, <1>2 DEF Init, OwnIds

LEMMA CreatedOne ==
  ASSUME TypeOK, CreateSucceeds
  PROVE  /\ newID' \in NewIDs /\ MadeOne(newID')
         /\ UNCHANGED api /\ pc = "create" /\ pc' = "saveID"
  BY CreateMade DEF CreateSucceeds, storeVars

LEMMA NextOwnIds ==
  ASSUME TypeOK, VersionsAgree, IdsStay, OwnIds, [Next]_vars
  PROVE  OwnIds'
  <1>id. api'.clusterID = api.clusterID \/ (pc = "saveID" /\ api'.clusterID = newID)
    BY NextStoredID
  <1>empty. Empty.clusterID = NoID
    BY DEF Empty
  <1>more. Made \subseteq Made'
    BY NextMade DEF MadeOne
  <1>1. \A h \in Held \cup {api', Empty} : h.clusterID \in Made' \cup {Existing, NoID}
    BY <1>id, <1>empty, <1>more DEF OwnIds
  <1>2. \A o \in Held' \cup {api'} : o.clusterID \in Made' \cup {Existing, NoID}
    BY <1>1, NextHeld DEF SameVersion, Agree
  <1>3. newID' \in Made' \cup {NoID}
    BY <1>more, NextNewID, CreatedOne DEF NewIDMoves, MadeOne, OwnIds
  <1>4. ASSUME pc' = "saveID" PROVE \A o \in Held' : o.clusterID = newID' => api'.clusterID = newID'
    <2>1. CASE CreateSucceeds
      <3>1. \A h \in Held \cup {api', Empty} : h.clusterID # newID'
        BY <2>1, <1>empty, CreatedOne, IDsAssumption DEF OwnIds, MadeOne
      <3> QED BY <3>1, NextHeld DEF SameVersion, Agree
    <2>2. CASE pc \in {"saveID", "savePhase"} /\ newID' = newID
      <3>1. newID # NoID \/ api'.clusterID = newID'
        BY <2>2, <1>id DEF IdsStay, OwnIds
      <3>2. \A h \in Held \cup {api', Empty} : h.clusterID = newID' => api'.clusterID = newID'
        BY <2>2, <3>1, <1>id, <1>empty DEF OwnIds
      <3> QED BY <3>2, NextHeld DEF SameVersion, Agree
    <2> QED BY <1>4, <2>1, <2>2, NextNewID DEF NewIDMoves
  <1>5. ASSUME pc' = "savePhase" PROVE api'.clusterID = newID'
    <2>1. pc \in {"saveID", "savePhase"} /\ newID' = newID
      BY <1>5, NextNewID DEF NewIDMoves
    <2>2. CASE pc = "savePhase"
      BY <2>1, <2>2, <1>id DEF OwnIds
    <2>3. CASE pc = "saveID"
      <3>1. Step
        BY <1>5, <2>3, EnvironmentKeeps
      <3>2. newID \in {cache.clusterID, api'.clusterID}
        BY <1>5, <2>3, <3>1, StepMoves DEF WorkerMoves
      <3> QED BY <2>1, <2>3, <3>2, <1>id DEF OwnIds, Held
    <2> QED BY <2>1, <2>2, <2>3
  <1>6. pc' \notin {"saveID", "savePhase"} => newID' = NoID
    BY NextNewID DEF NewIDMoves, OwnIds
  <1> QED BY <1>2, <1>3, <1>4, <1>5, <1>6 DEF OwnIds

\* A step loses at most one cluster, and counts it.
LEMMA LossCounted ==
  ASSUME TypeOK, VersionsAgree, IdsStay, OwnIds, [Next]_vars
  PROVE  \/ Surplus' \subseteq Surplus
         \/ LosesID /\ \E id : Surplus' \subseteq Surplus \cup {id}
  <1>noid. NoID \notin Made /\ NoID \notin Made'
    BY IDsAssumption DEF Made
  <1>1. CASE CreateSucceeds
    <2>1. newID = NoID
      BY <1>1, CreatedOne DEF OwnIds
    <2> QED BY <1>1, <1>noid, <2>1, CreatedOne DEF Surplus, MadeOne
  <1>2. CASE CreateFails
    <2>1. newID = NoID /\ newID' = NoID /\ UNCHANGED api
      BY <1>2 DEF CreateFails, Return, OwnIds, storeVars
    <2>2. Made' = Made \/ (LosesID /\ \E id \in NewIDs : MadeOne(id))
      BY <1>2, NextMade DEF CreateFails, CreateSucceeds, Return
    <2> QED BY <2>1, <2>2 DEF Surplus, MadeOne
  <1>3. CASE ~CreateSucceeds /\ ~CreateFails
    <2>1. Made' = Made
      BY <1>3, NextMade
    <2>2. CASE pc \notin {"saveID", "savePhase"}
      BY <1>3, <1>noid, <2>1, <2>2, NextStoredID DEF Surplus, OwnIds
    <2>3. CASE pc = "savePhase"
      BY <2>1, <2>3, NextStoredID DEF Surplus, OwnIds
    <2>4. CASE pc = "saveID" /\ Step
      <3>1. SaveID
        BY <2>4, OnlySaveID
      <3>2. api'.clusterID \in {api.clusterID, newID}
        BY NextStoredID
      <3>3. pc' = "record" \/ newID' = newID
        BY <3>1 DEF SaveID, Continue, Return, Again
      <3>4. DropsID \/ ReplacesID => LosesID
        BY <3>1 DEF SaveID
      <3>5. CASE api'.clusterID = newID
        BY <1>noid, <2>1, <3>4, <3>5 DEF ReplacesID, Surplus
      <3>6. CASE api'.clusterID = api.clusterID /\ newID' # newID
        BY <2>1, <3>3, <3>4, <3>6 DEF DropsID, Surplus
      <3>7. CASE api'.clusterID = api.clusterID /\ newID' = newID
        BY <2>1, <3>7 DEF Surplus
      <3> QED BY <3>2, <3>5, <3>6, <3>7
    <2>5. CASE Restart /\ pc = "saveID"
      <3>1. api'.clusterID = api.clusterID /\ (api.clusterID # newID => LosesID)
        BY <2>5 DEF Restart, Crash
      <3> QED BY <2>1, <3>1 DEF Surplus
    <2>6. CASE Notify \/ User \/ Cloud \/ UNCHANGED vars
      <3>1. newID' = newID
        BY <2>6 DEF Notify, User, Cloud, vars, handlerVars
      <3>2. CASE Step
        BY <2>2, <2>3, <2>4, <3>2
      <3>3. CASE ~Step
        BY <2>1, <3>1, <3>3, EnvironmentKeeps DEF Surplus
      <3> QED BY <3>2, <3>3
    <2> QED BY <2>2, <2>3, <2>4, <2>5, <2>6 DEF Next, OwnIds
  <1> QED BY <1>1, <1>2, <1>3

LEMMA InitSurplus == Init => SurplusCounted
  <1> SUFFICES ASSUME Init PROVE SurplusCounted
    OBVIOUS
  <1>1. Made = {} /\ Surplus = {}
    BY IDsAssumption DEF Init, Made, IDs, Surplus
  <1>2. causes = 0
    BY DEF Init
  <1> QED BY <1>1, <1>2, FS_EmptySet DEF SurplusCounted

LEMMA NextSurplus ==
  ASSUME TypeOK, VersionsAgree, IdsStay, OwnIds, SurplusCounted, [Next]_vars
  PROVE  SurplusCounted'
  <1>1. IsFiniteSet(Made')
    BY NextMade, FS_AddElement DEF MadeOne, SurplusCounted
  <1>2. IsFiniteSet(Surplus) /\ IsFiniteSet(Surplus')
    BY <1>1, FS_Subset DEF SurplusCounted, Surplus
  <1>3. /\ Cardinality(Surplus) \in Nat /\ Cardinality(Surplus') \in Nat /\ causes \in Nat
        /\ causes' = causes \/ causes' = causes + 1
    BY <1>2, FS_CardinalityType, CausesGrow DEF TypeOK, ProvisionTypeOK, LosesID
  <1>4. CASE Surplus' \subseteq Surplus
    <2>1. Cardinality(Surplus') <= Cardinality(Surplus)
      BY <1>2, <1>4, FS_Subset
    <2> QED BY <1>1, <1>3, <2>1 DEF SurplusCounted
  <1>5. CASE LosesID /\ \E id : Surplus' \subseteq Surplus \cup {id}
    <2>1. PICK id : Surplus' \subseteq Surplus \cup {id}
      BY <1>5
    <2>2. /\ IsFiniteSet(Surplus \cup {id})
          /\ Cardinality(Surplus \cup {id}) \in {Cardinality(Surplus), Cardinality(Surplus) + 1}
      BY <1>2, FS_AddElement
    <2>3. Cardinality(Surplus \cup {id}) \in Nat
      BY <2>2, FS_CardinalityType
    <2>4. Cardinality(Surplus') <= Cardinality(Surplus \cup {id})
      BY <2>1, <2>2, FS_Subset
    <2>5. Cardinality(Surplus') <= causes + 1
      BY <1>3, <2>2, <2>3, <2>4 DEF SurplusCounted
    <2> QED BY <1>1, <1>5, <2>5 DEF SurplusCounted, LosesID
  <1> QED BY <1>4, <1>5, LossCounted

\* Each cluster the operator created and does not know by its id has a cause of its
\* own: an answer to CreateCluster that was lost, an id that was not saved by the loop
\* of lines 370-392 or before a crash, or one that was replaced, the creation having
\* begun with a copy of the resource older than the saved id.
THEOREM SurplusClustersAlwaysHaveACause == Spec => []SurplusClustersHaveACause
  <1>1. /\ TypeOK /\ VersionsAgree /\ IdsStay /\ CreatingHasCluster /\ [Next]_vars
        => (IdsStay /\ CreatingHasCluster)'
    BY NextIds
  <1>2. TypeOK /\ VersionsAgree /\ IdsStay /\ OwnIds /\ [Next]_vars => OwnIds'
    BY NextOwnIds
  <1>3. /\ TypeOK /\ VersionsAgree /\ IdsStay /\ OwnIds /\ SurplusCounted /\ [Next]_vars
        => SurplusCounted'
    BY NextSurplus
  <1>4. SurplusCounted => SurplusClustersHaveACause
    BY DEF SurplusCounted, SurplusClustersHaveACause, Surplus
  <1> QED
    BY <1>1, <1>2, <1>3, <1>4, InitIds, InitOwnIds, InitSurplus, TypeCorrect,
       VersionsAlwaysAgree, PTL DEF Spec

=============================================================================
