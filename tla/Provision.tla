------------------------------ MODULE Provision ------------------------------
(***************************************************************************)
(* How a resource gets its cluster: create, waitForCreationComplete and    *)
(* importCluster, one action per call to the API server or the cloud.      *)
(***************************************************************************)
EXTENDS Handler

VARIABLES secret, \* the secret with the cluster's CA and endpoint exists
          causes  \* history: see LosesID

provisionVars == <<secret, causes>>

\* History.  What can make the operator lose sight of a cluster it created: the
\* answer to CreateCluster is lost, the id is dropped by the loop that should
\* have saved it or by a crash, or it is saved in place of an earlier one, as
\* the worker began with an object that had none yet.  causes counts them.
LosesID == causes' = causes + 1

ProvisionTypeOK == secret \in BOOLEAN /\ causes \in Nat

-----------------------------------------------------------------------------
(* create                                                                  *)

\* An imported resource turns to importing.
StartImport ==
  /\ pc = "create" /\ cfg.imported
  /\ ReturnUpdateStatus([cfg EXCEPT !.phase = "importing"])
  /\ UNCHANGED <<cache, queued, edits, cloudVars, provisionVars>>

\* Fault: nil is returned with the error, as other handlers do.
CreateRefusedNil ==
  /\ pc = "create" /\ ~cfg.imported /\ ~cfg.valid
  /\ Return(Empty, "invalid")
  /\ UNCHANGED <<storeVars, faults, edits, cloudVars, provisionVars>>

CreateRefused ==
  /\ pc = "create" /\ ~cfg.imported /\ ~cfg.valid
  /\ Return(cfg, "invalid")
  /\ UNCHANGED <<storeVars, faults, edits, cloudVars, provisionVars>>

\* With a clusterId there is nothing to create, and nothing else is done.
CreateSkipped ==
  /\ pc = "create" /\ ~cfg.imported /\ cfg.valid /\ cfg.clusterID # NoID
  /\ Return(cfg, "none")
  /\ UNCHANGED <<storeVars, faults, edits, cloudVars, provisionVars>>

CreateFails ==
  /\ pc = "create" /\ ~cfg.imported /\ cfg.valid /\ cfg.clusterID = NoID
  /\ Return(cfg, "cloud")
  /\ \/ CallFails /\ UNCHANGED <<clusters, causes>>
     \/ CallFails /\ LosesID /\ \E id \in NewIDs : CreateCluster(id)
     \/ NewIDs \subseteq Made /\ UNCHANGED <<faults, clusters, causes>>
  /\ UNCHANGED <<storeVars, edits, poolVars, nodes, protected, drift,
                 endpoint, secret>>

CreateSucceeds ==
  /\ pc = "create" /\ ~cfg.imported /\ cfg.valid /\ cfg.clusterID = NoID
  /\ \E id \in NewIDs : CreateCluster(id) /\ newID' = id
  /\ pc' = "saveID" /\ tries' = 0
  /\ UNCHANGED <<storeVars, faults, edits, poolVars, nodes, protected,
                 drift, endpoint, provisionVars, seen, cfg, err, read>>

\* RetryOnConflict: another try after a conflict, while there are tries left.
\* Fault: tries are not limited.
AgainForever(res) ==
  /\ res = "conflict"
  /\ tries' = tries + 1
  /\ UNCHANGED <<pc, seen, cfg, err, newID, read>>

Again(res) ==
  /\ res = "conflict" /\ tries + 1 < Retries
  /\ tries' = tries + 1
  /\ UNCHANGED <<pc, seen, cfg, err, newID, read>>
GivesUp(res) == res = "error" \/ (res = "conflict" /\ tries + 1 >= Retries)

\* Faults in the next loop.  The error is not looked at afterwards ...
SaveIDIgnoresError ==
  /\ pc = "saveID" /\ cache.there
  /\ \E res \in WriteResults :
       /\ Update([cache EXCEPT !.clusterID = newID], res)
       /\ Continue("savePhase", IF res = "ok" THEN api' ELSE cfg)
  /\ UNCHANGED <<cache, queued, edits, cloudVars, provisionVars>>

\* ... the loop starts over with CreateCluster ...
SaveIDCreatesAnew ==
  /\ pc = "saveID" /\ cache.there
  /\ \E res \in WriteResults :
       /\ Update([cache EXCEPT !.clusterID = newID], res)
       /\ Continue(IF res = "ok" THEN "savePhase" ELSE "create", IF res = "ok" THEN api' ELSE cfg)
  /\ UNCHANGED <<cache, queued, edits, cloudVars, provisionVars>>

\* ... the cached object is written to without a DeepCopy ...
SaveIDInPlace ==
  /\ pc = "saveID" /\ cache.there
  /\ cache' = [cache EXCEPT !.clusterID = newID]
  /\ \E res \in WriteResults :
       /\ Update([cache EXCEPT !.clusterID = newID], res)
       /\ IF res = "ok" THEN Continue("savePhase", api') ELSE Return(cfg, "store")
  /\ UNCHANGED <<queued, edits, cloudVars, provisionVars>>

\* ... a conflict is avoided by taking over the newest resourceVersion.
SaveIDForced ==
  /\ pc = "saveID" /\ cache.there
  /\ \E res \in WriteResults :
       /\ Update([cache EXCEPT !.clusterID = newID, !.rv = api.rv], res)
       /\ IF res = "ok" THEN Continue("savePhase", api') ELSE Return(cfg, "store")
  /\ UNCHANGED <<cache, queued, edits, cloudVars, provisionVars>>

\* The loop that puts the id into the spec: read the cache, Update.
DropsID == pc' = "record" /\ api'.clusterID # newID
ReplacesID == api.clusterID # NoID /\ api'.clusterID # api.clusterID

SaveID ==
  /\ pc = "saveID"
  /\ \/ /\ cache.there /\ cache.clusterID = newID
        /\ Continue("savePhase", cache)
        /\ UNCHANGED <<api, watch, faults>>
     \/ /\ cache.there /\ cache.clusterID # newID
        /\ \E res \in WriteResults :
             /\ Update([cache EXCEPT !.clusterID = newID], res)
             /\ \/ res = "ok" /\ Continue("savePhase", api')
                \/ Again(res)
                \/ GivesUp(res) /\ Return(cfg, "store")
     \/ ~cache.there /\ Return(cfg, "store") /\ UNCHANGED <<api, watch, faults>>
  /\ IF DropsID \/ ReplacesID THEN LosesID ELSE UNCHANGED causes
  /\ UNCHANGED <<cache, queued, edits, cloudVars, secret>>

\* The loop that turns the phase to creating and clears the message.
SavePhase ==
  /\ pc = "savePhase"
  /\ \/ /\ cache.there /\ cache.phase = "creating" /\ cache.msg = "none"
        /\ Return(cache, "none")
        /\ UNCHANGED <<api, watch, faults>>
     \/ /\ cache.there /\ ~(cache.phase = "creating" /\ cache.msg = "none")
        /\ \E res \in WriteResults :
             /\ UpdateStatus([cache EXCEPT !.phase = "creating", !.msg = "none"], res)
             /\ \/ res = "ok" /\ Return(api', "none")
                \/ Again(res)
                \/ GivesUp(res) /\ Return(cfg, "store")
     \/ ~cache.there /\ Return(cfg, "store") /\ UNCHANGED <<api, watch, faults>>
  /\ UNCHANGED <<cache, queued, edits, cloudVars, provisionVars>>

-----------------------------------------------------------------------------
(* waitForCreationComplete                                                 *)

\* DescribeClusters fails, or no longer lists the cluster.  The handler returns
\* nil, so recordError does not record this error.
WaitFails ==
  /\ pc = "wait" /\ cfg.clusterID # NoID
  /\ \/ CallFails
     \/ ~Found(cfg.clusterID) /\ UNCHANGED faults
  /\ Return(Empty, "cloud")
  /\ UNCHANGED <<storeVars, edits, cloudVars, provisionVars>>

WaitAbnormal ==
  /\ pc = "wait" /\ cfg.clusterID # NoID
  /\ Found(cfg.clusterID) /\ clusters[cfg.clusterID] = "abnormal"
  /\ Return(cfg, "cloud")
  /\ UNCHANGED <<storeVars, faults, edits, cloudVars, provisionVars>>

CreationComplete ==
  /\ pc = "wait" /\ cfg.clusterID # NoID
  /\ Found(cfg.clusterID) /\ clusters[cfg.clusterID] \in {"running", "upgrading"}
  /\ ReturnUpdateStatus([cfg EXCEPT !.phase = "active"])
  /\ UNCHANGED <<cache, queued, edits, cloudVars, provisionVars>>

\* Fault: the key is not queued again.
KeepWaitingForgets ==
  /\ pc = "wait"
  /\ \/ cfg.clusterID = NoID
     \/ Found(cfg.clusterID) /\ clusters[cfg.clusterID] \in {"creating", "deleting"}
  /\ Return(cfg, "none")
  /\ UNCHANGED <<storeVars, faults, edits, cloudVars, provisionVars>>

KeepWaiting ==
  /\ pc = "wait"
  /\ \/ cfg.clusterID = NoID
     \/ Found(cfg.clusterID) /\ clusters[cfg.clusterID] \in {"creating", "deleting"}
  /\ queued' = TRUE
  /\ Return(cfg, "none")
  /\ UNCHANGED <<api, cache, watch, faults, edits, cloudVars, provisionVars>>

-----------------------------------------------------------------------------
(* importCluster                                                           *)

ImportRefused ==
  /\ pc = "import" /\ (cfg.clusterID = NoID \/ ~cfg.valid)
  /\ Return(cfg, "invalid")
  /\ UNCHANGED <<storeVars, faults, edits, cloudVars, provisionVars>>

\* The cluster or its node pools cannot be read.
ImportReadFails ==
  /\ pc = "import" /\ cfg.clusterID # NoID /\ cfg.valid
  /\ CallFails \/ (~Found(cfg.clusterID) /\ UNCHANGED faults)
  /\ Return(cfg, "cloud")
  /\ UNCHANGED <<storeVars, edits, cloudVars, provisionVars>>

\* FixConfig is given a pointer into the informer cache's object and writes
\* through it: the cached spec is aligned too, unless the cache moved on.
Aligned == [cfg EXCEPT !.aligned = TRUE,
                       !.rows = IF nodePools = "none" THEN "nil" ELSE "known"]

ImportRead ==
  /\ pc = "import" /\ cfg.clusterID # NoID /\ cfg.valid /\ Found(cfg.clusterID)
  /\ cache' = IF cache.rv = cfg.rv THEN Aligned ELSE cache
  /\ seen' = Aligned
  /\ \/ /\ pc' = "importSave" /\ cfg' = Aligned
        /\ UNCHANGED <<faults, err, newID, tries, read>>
     \/ /\ CallFails  \* the virtual node pools cannot be read
        /\ pc' = "record" /\ cfg' = Aligned /\ err' = "cloud"
        /\ UNCHANGED <<newID, tries, read>>
  /\ UNCHANGED <<api, watch, queued, edits, cloudVars, provisionVars>>

\* Fault: the error of the write is swallowed.
ImportSaveSwallows ==
  /\ pc = "importSave"
  /\ \E res \in WriteResults :
       /\ Update(cfg, res)
       /\ IF res = "ok" THEN Continue("importSecret", api') ELSE Return(seen, "none")
  /\ UNCHANGED <<cache, queued, edits, cloudVars, provisionVars>>

ImportSave ==
  /\ pc = "importSave"
  /\ \E res \in WriteResults :
       /\ Update(cfg, res)
       /\ IF res = "ok" THEN Continue("importSecret", api') ELSE Return(seen, "store")
  /\ UNCHANGED <<cache, queued, edits, cloudVars, provisionVars>>

\* createCASecret: fetch the kubeconfig, create the secret; one that exists is kept.
CreateCASecret == secret' = TRUE

\* Fault: a failure is only logged.
ImportSecretLogs ==
  /\ pc = "importSecret"
  /\ Continue("importActive", cfg)
  /\ \/ CreateCASecret /\ UNCHANGED faults
     \/ CallFails /\ UNCHANGED secret
  /\ UNCHANGED <<storeVars, edits, cloudVars, causes>>

ImportSecret ==
  /\ pc = "importSecret"
  /\ \/ CreateCASecret /\ Continue("importActive", cfg) /\ UNCHANGED faults
     \/ CallFails /\ Return(seen, "cloud") /\ UNCHANGED secret
  /\ UNCHANGED <<storeVars, edits, cloudVars, causes>>

ImportActive ==
  /\ pc = "importActive"
  /\ ReturnUpdateStatus([cfg EXCEPT !.phase = "active"])
  /\ UNCHANGED <<cache, queued, edits, cloudVars, provisionVars>>

ProvisionNext ==
  \/ StartImport \/ CreateRefused \/ CreateSkipped \/ CreateFails \/ CreateSucceeds
  \/ SaveID \/ SavePhase
  \/ WaitFails \/ WaitAbnormal \/ CreationComplete \/ KeepWaiting
  \/ ImportRefused \/ ImportReadFails \/ ImportRead \/ ImportSave \/ ImportSecret
  \/ ImportActive
=============================================================================
