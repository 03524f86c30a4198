----------------------------- MODULE CheckUpdate -----------------------------
(***************************************************************************)
(* The reconcile loop of a cluster that is there: checkAndUpdate,          *)
(* updateUpstreamClusterState and enqueueUpdate.                           *)
(*                                                                         *)
(* What differs between the spec and the cloud is one element of drift for *)
(* each kind of call that mends it; pools are told apart row by row in     *)
(* NodePools and VirtualPools.                                             *)
(***************************************************************************)
EXTENDS Provision

\* The validation error is overwritten by the result of the status write, so
\* recordError gets no error to record.
UpdateRefused ==
  /\ pc = "update" /\ ~cfg.valid
  /\ ReturnUpdateStatus([cfg EXCEPT !.phase = "updating"])
  /\ UNCHANGED <<cache, queued, edits, cloudVars, provisionVars>>

\* GetCluster: what it shows is looked at after the next calls.  A cluster in an upgrade
\* may still show its old version.
GetCluster ==
  /\ pc = "update" /\ cfg.valid /\ Found(cfg.clusterID)
  /\ pc' = "readPools"
  /\ \E version \in BOOLEAN :
       read' = {r \in {"abnormal", "version", "attributes"} :
                  \/ r = "abnormal" /\ clusters[cfg.clusterID] = "abnormal"
                  \/ r = "version" /\ clusters[cfg.clusterID] = "upgrading" /\ version
                  \/ r \in Shown}
  /\ UNCHANGED <<storeVars, faults, edits, cloudVars, seen, cfg, err, newID, tries, provisionVars>>

\* Fault: pools being deleted are not waited for.
AtWorkUnlessDeleting(pools) == pools = "busy"

AtWork(pools) == pools \in {"busy", "deleting"}

\* GetClusterNodePools; its result is looked at after the cluster's.
GetNodePools ==
  /\ pc = "readPools" /\ "abnormal" \notin read /\ Found(cfg.clusterID)
  /\ pc' = "readStatus"
  /\ read' = read \cup {r \in {"busy", "nodePools"} : \/ r = "busy" /\ AtWork(nodePools)
                                                     \/ r \in Shown}
  /\ UNCHANGED <<storeVars, faults, edits, cloudVars, seen, cfg, err, newID, tries, provisionVars>>

\* Fault: the upgrade, which only DescribeClusterStatus shows, is not seen.
UpgradingUnseen(id) == FALSE

Upgrading(id) == clusters[id] = "upgrading"

\* GetClusterStatus and, when the spec lists some (here: when it has any pool list),
\* GetClusterVirtualNodePoolsFull show nothing the operator would wait for.
GetStatus ==
  /\ pc = "readStatus" /\ Found(cfg.clusterID) /\ ~Upgrading(cfg.clusterID) /\ "busy" \notin read
  /\ Proceed(IF cfg.rows = "nil" THEN "sync" ELSE "readVirtual")
  /\ UNCHANGED <<storeVars, faults, edits, cloudVars, provisionVars>>

GetVirtualNodePools ==
  /\ pc = "readVirtual" /\ Found(cfg.clusterID) /\ ~AtWork(virtualNodePools)
  /\ Proceed("sync")
  /\ UNCHANGED <<storeVars, faults, edits, cloudVars, provisionVars>>

\* One of these calls fails.  The first three return nil with their error, the last config.
UpdateReadFails ==
  /\ pc \in {"update", "readPools", "readStatus", "readVirtual"} /\ cfg.valid
  /\ CallFails \/ (~Found(cfg.clusterID) /\ UNCHANGED faults)
  /\ Return(IF pc = "readVirtual" THEN cfg ELSE Empty, "cloud")
  /\ UNCHANGED <<storeVars, edits, cloudVars, provisionVars>>

\* An abnormal cluster, or one in an upgrade: turn to updating, or look again.
AwaitCluster ==
  /\ Found(cfg.clusterID)
  /\ \/ pc = "readPools" /\ "abnormal" \in read
     \/ pc = "readStatus" /\ Upgrading(cfg.clusterID)
  /\ \/ /\ cfg.phase # "updating"
        /\ ReturnUpdateStatus([cfg EXCEPT !.phase = "updating"])
        /\ UNCHANGED queued
     \/ /\ cfg.phase = "updating"
        /\ queued' = TRUE
        /\ Return(cfg, "none")
        /\ UNCHANGED <<api, watch, faults>>
  /\ UNCHANGED <<cache, edits, cloudVars, provisionVars>>

\* Pools being created, updated or deleted: turn to updating and look again.
PoolsBusy ==
  /\ Found(cfg.clusterID)
  /\ \/ pc = "readStatus" /\ ~Upgrading(cfg.clusterID) /\ "busy" \in read
     \/ pc = "readVirtual" /\ AtWork(virtualNodePools)

\* Fault: on a cluster that is updating the key is not queued again.
AwaitPoolsForgets ==
  /\ PoolsBusy
  /\ \/ /\ cfg.phase # "updating"
        /\ ReturnUpdateStatusAndRequeue([cfg EXCEPT !.phase = "updating"])
     \/ /\ cfg.phase = "updating"
        /\ Return(cfg, "none")
        /\ UNCHANGED <<api, watch, queued, faults>>
  /\ UNCHANGED <<cache, edits, cloudVars, provisionVars>>

AwaitPools ==
  /\ PoolsBusy
  /\ \/ /\ cfg.phase # "updating"
        /\ ReturnUpdateStatusAndRequeue([cfg EXCEPT !.phase = "updating"])
     \/ /\ cfg.phase = "updating"
        /\ queued' = TRUE
        /\ Return(cfg, "none")
        /\ UNCHANGED <<api, watch, faults>>
  /\ UNCHANGED <<cache, edits, cloudVars, provisionVars>>
-----------------------------------------------------------------------------
(* updateUpstreamClusterState                                              *)

\* The modifying calls in the code's order: each is made for what differed when it was
\* read, and the next one by a later pass.  The version first, then its nodes, then the
\* attributes.
UpgradeControlPlane ==
  /\ pc = "sync" /\ "version" \in read /\ UpdateClusterVersion(cfg.clusterID)
  /\ UNCHANGED <<poolVars, nodes, protected, endpoint>>

\* During an upgrade of the control plane the cloud may take this call or refuse it.
UpgradeNodes ==
  /\ pc = "nodeTrigger" /\ Found(cfg.clusterID)
  /\ nodes # "current" /\ nodes' = "upgrading"
  /\ UNCHANGED <<clusters, poolVars, protected, drift, endpoint>>

ModifyAttributes ==
  /\ pc = "modify" /\ "attributes" \in read /\ Running(cfg.clusterID)
  /\ ModifyClusterAttribute
  /\ UNCHANGED <<clusters, poolVars, nodes, endpoint>>

\* The pools last.  Virtual node pools are read only now.
PoolsToCreate == pc = "modify" /\ "attributes" \notin read /\ cfg.rows = "new"
PoolsToModify == pc = "modify" /\ "attributes" \notin read /\ cfg.rows = "known"

CreateNodePools ==
  /\ PoolsToCreate /\ Running(cfg.clusterID) /\ CreateClusterNodePool
  /\ UNCHANGED <<clusters, virtualNodePools, nodes, protected, endpoint>>

ModifyNodePools ==
  /\ PoolsToModify /\ "nodePools" \in read /\ Running(cfg.clusterID)
  /\ nodePools' \in ModifyPools(nodePools)
  /\ drift' \in {drift, drift \ {"nodePools"}}
  /\ UNCHANGED <<clusters, virtualNodePools, nodes, protected, endpoint>>

ModifyVirtualNodePools ==
  /\ PoolsToModify /\ "nodePools" \notin read /\ Running(cfg.clusterID)
  /\ "virtualNodePools" \in Shown /\ virtualNodePools' \in ModifyPools(virtualNodePools)
  /\ drift' \in {drift, drift \ {"virtualNodePools"}}
  /\ UNCHANGED <<clusters, nodePools, nodes, protected, endpoint>>

\* A call fails: before it took effect, or after, or as one of several that are to
\* modify pools; a pool whose id is lost is one too many.
Begun ==
  \/ UpgradeControlPlane \/ UpgradeNodes \/ ModifyAttributes
  \/ CreateNodePools /\ drift' = drift \cup {"nodePools"}
  \/ ModifyNodePools \/ ModifyVirtualNodePools

\* Or the cloud has no such cluster any more, or one that is not running.
Modifies ==
  \/ pc = "sync" /\ "version" \in read
  \/ pc = "nodeTrigger"
  \/ pc = "modify" /\ "attributes" \in read
  \/ PoolsToCreate
  \/ PoolsToModify /\ ("nodePools" \in read \/ "virtualNodePools" \in Shown)
Refused == \/ Modifies /\ ~Running(cfg.clusterID)
           \/ (pc = "nodeCheck" \/ PoolsToModify) /\ ~Found(cfg.clusterID)

SyncFails ==
  /\ pc \in {"sync", "nodeCheck", "nodeTrigger", "modify"}
  /\ \/ CallFails /\ (Begun \/ UNCHANGED cloudVars)
     \/ Refused /\ UNCHANGED <<faults, cloudVars>>
  /\ Return(cfg, "cloud")
  /\ UNCHANGED <<storeVars, edits, provisionVars>>

\* enqueueUpdate: on a cluster that is updating this queues the key, else the
\* phase is written in a loop.
EnqueueUpdate ==
  \/ cfg.phase = "updating" /\ queued' = TRUE /\ Return(cfg, "none")
  \/ cfg.phase # "updating" /\ UNCHANGED queued /\ Continue("enqueueGet", cfg)

\* The version differs.  The cloud refuses the upgrade when one to this version ended
\* after the version was read.
SyncVersion ==
  /\ pc = "sync" /\ "version" \in read
  /\ \/ UpgradeControlPlane /\ EnqueueUpdate
     \/ /\ "version" \notin drift /\ Return(cfg, "cloud")
        /\ UNCHANGED <<queued, cloudVars>>
  /\ UNCHANGED <<api, cache, watch, faults, edits, provisionVars>>

\* waitOrTriggerNodeUpgrade, when the version is the spec's.  A task at work is
\* waited for; the key is queued, the phase stays.
AwaitNodeUpgrade ==
  /\ pc = "sync" /\ "version" \notin read /\ Found(cfg.clusterID)
  /\ nodes = "upgrading"
  /\ queued' = TRUE
  /\ Return(cfg, "none")
  /\ UNCHANGED <<api, cache, watch, faults, edits, cloudVars, provisionVars>>

\* There is none: none was begun, or the last one is done or was stopped.  Or the call
\* fails, which is not taken for an error.
NoNodeUpgrade ==
  /\ pc = "sync" /\ "version" \notin read
  /\ \/ (nodes # "upgrading" \/ ~Found(cfg.clusterID)) /\ UNCHANGED faults
     \/ CallFails
  /\ Proceed("nodeCheck")
  /\ UNCHANGED <<storeVars, edits, cloudVars, provisionVars>>

\* CheckInstancesUpgradeAble lists the nodes that are behind, those being upgraded
\* included.
CheckNodes ==
  /\ pc = "nodeCheck" /\ Found(cfg.clusterID)
  /\ Proceed(IF nodes = "current" THEN "modify" ELSE "nodeTrigger")
  /\ UNCHANGED <<storeVars, faults, edits, cloudVars, provisionVars>>

\* Fault: a task that was stopped is waited for like one at work.
TriggerNodeUpgradeOnce ==
  /\ pc = "nodeTrigger" /\ queued' = TRUE /\ Return(cfg, "none")
  /\ nodes' = IF nodes = "behind" THEN "upgrading" ELSE nodes
  /\ UNCHANGED <<api, cache, watch, faults, edits, clusters, poolVars, protected, drift,
                 endpoint, provisionVars>>

\* UpgradeClusterInstances starts a task, whatever became of an earlier one.  The cloud
\* may refuse a second one beside a task at work, and has none for nodes that are
\* no longer behind.
TriggerNodeUpgrade ==
  /\ \/ UpgradeNodes /\ queued' = TRUE /\ Return(cfg, "none")
     \/ /\ pc = "nodeTrigger" /\ nodes \in {"upgrading", "current"} /\ Return(cfg, "cloud")
        /\ UNCHANGED <<queued, cloudVars>>
  /\ UNCHANGED <<api, cache, watch, faults, edits, provisionVars>>

\* Something else differs and is modified.
SyncModify ==
  /\ \/ ModifyAttributes
     \/ ModifyNodePools /\ "nodePools" \notin drift'
     \/ ModifyVirtualNodePools /\ "virtualNodePools" \notin drift'
  /\ EnqueueUpdate
  /\ UNCHANGED <<api, cache, watch, faults, edits, provisionVars>>

\* enqueueUpdate's loop: Get from the API server ...
EnqueueGet ==
  /\ pc = "enqueueGet"
  /\ \/ /\ api.there /\ cfg' = api /\ pc' = "enqueuePut"
        /\ UNCHANGED <<faults, seen, err, newID, tries, read>>
     \/ ~api.there /\ Return(Empty, "store") /\ UNCHANGED faults
     \/ CallFails /\ Return(Empty, "store")
  /\ UNCHANGED <<storeVars, edits, cloudVars, provisionVars>>

\* ... then write the phase, and Get anew after a conflict.
EnqueuePut ==
  /\ pc = "enqueuePut"
  /\ \E res \in WriteResults :
       /\ UpdateStatus([cfg EXCEPT !.phase = "updating"], res)
       /\ \/ res = "ok" /\ Return(api', "none")
          \/ /\ res = "conflict" /\ tries + 1 < Retries
             /\ pc' = "enqueueGet" /\ tries' = tries + 1
             /\ UNCHANGED <<seen, cfg, err, newID, read>>
          \/ GivesUp(res) /\ Return(Empty, "store")
  /\ UNCHANGED <<cache, queued, edits, cloudVars, provisionVars>>

\* Without any pool list in the spec, upstream pools and the endpoint are not
\* looked at and the cluster is active.
FinishWithoutPools ==
  /\ pc = "modify" /\ "attributes" \notin read /\ cfg.rows = "nil"
  /\ ReturnUpdateStatus([cfg EXCEPT !.phase = "active"])
  /\ UNCHANGED <<cache, queued, edits, cloudVars, provisionVars>>

\* A node pool is created for each row without an id; the ids are put into the
\* rows of the cached object, unless the cache moved on.
CreateRows ==
  /\ CreateNodePools /\ UNCHANGED drift
  /\ cfg' = [cfg EXCEPT !.rows = "known"] /\ seen' = cfg'
  /\ cache' = IF cache.rv = cfg.rv THEN cfg' ELSE cache
  /\ pc' = "saveRows" /\ read' = {}
  /\ UNCHANGED <<api, watch, queued, faults, edits, err, newID, tries, provisionVars>>

\* Update, which does not store the phase set beside the ids.
SaveRows ==
  /\ pc = "saveRows"
  /\ \E res \in WriteResults :
       /\ Update(cfg, res)
       /\ IF res = "ok" THEN Return(api', "none") ELSE Return(Empty, "store")
  /\ UNCHANGED <<cache, queued, edits, cloudVars, provisionVars>>

\* Nothing differed: an imported cluster is done, another one needs its endpoint.
SyncDone ==
  /\ PoolsToModify /\ "nodePools" \notin read /\ "virtualNodePools" \notin Shown
  /\ Found(cfg.clusterID)
  /\ Continue(IF cfg.imported THEN "finish" ELSE "endpoint", cfg)
  /\ UNCHANGED <<storeVars, faults, edits, cloudVars, provisionVars>>

\* There is no endpoint: it is created, once a node is running.
EndpointMissing ==
  /\ pc = "endpoint" /\ endpoint = "NotFound"
  /\ endpoint' \in {"NotFound", "Creating"}
  /\ queued' = TRUE
  /\ Return(cfg, "none")
  /\ UNCHANGED <<api, cache, watch, faults, edits, clusters, poolVars, nodes,
                 protected, drift, provisionVars>>

EndpointCreating ==
  /\ pc = "endpoint" /\ endpoint = "Creating"
  /\ queued' = TRUE
  /\ Return(cfg, "none")
  /\ UNCHANGED <<api, cache, watch, faults, edits, cloudVars, provisionVars>>

EndpointCreated ==
  /\ pc = "endpoint" /\ endpoint = "Created"
  /\ CreateCASecret
  /\ Continue("finish", cfg)
  /\ UNCHANGED <<storeVars, faults, edits, cloudVars, causes>>

\* One of the calls fails, the creation perhaps after it was accepted.
EndpointFails ==
  /\ pc = "endpoint" /\ CallFails
  /\ endpoint' \in {endpoint, IF endpoint = "NotFound" THEN "Creating" ELSE endpoint}
  /\ Return(cfg, "cloud")
  /\ UNCHANGED <<storeVars, edits, clusters, poolVars, nodes, protected, drift, provisionVars>>

Finish ==
  /\ pc = "finish"
  /\ \/ cfg.phase # "active" /\ ReturnUpdateStatus([cfg EXCEPT !.phase = "active"])
     \/ cfg.phase = "active" /\ Return(cfg, "none") /\ UNCHANGED <<api, watch, faults>>
  /\ UNCHANGED <<cache, queued, edits, cloudVars, provisionVars>>

CheckUpdateNext ==
  \/ UpdateRefused \/ GetCluster \/ GetNodePools \/ GetStatus \/ GetVirtualNodePools
  \/ UpdateReadFails \/ AwaitCluster \/ AwaitPools
  \/ SyncFails \/ SyncVersion \/ AwaitNodeUpgrade \/ NoNodeUpgrade \/ CheckNodes
  \/ TriggerNodeUpgrade \/ SyncModify \/ EnqueueGet \/ EnqueuePut
  \/ FinishWithoutPools \/ CreateRows \/ SaveRows \/ SyncDone
  \/ EndpointMissing \/ EndpointCreating \/ EndpointCreated \/ EndpointFails \/ Finish
=============================================================================
