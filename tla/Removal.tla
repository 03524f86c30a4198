------------------------------- MODULE Removal -------------------------------
(***************************************************************************)
(* OnTkeConfigRemoved: what happens to the cluster when its resource is    *)
(* deleted, one action per call, and the framework's removal of the        *)
(* finalizer after it.                                                     *)
(***************************************************************************)
EXTENDS Handler

\* It is done without error: the framework removes the finalizer from the object
\* it was called with.
RemovalDone ==
  pc' = "dropFinalizer" /\ tries' = 0 /\ read' = {} /\ UNCHANGED <<seen, cfg, err, newID>>

\* It returns an error, which nothing records: the key is queued again.
RemovalFails(e) ==
  pc' = "end" /\ err' = e /\ tries' = 0 /\ read' = {} /\ UNCHANGED <<seen, cfg, newID>>

\* recordRemoveError: write the message when it differs.  The result is not used,
\* a failure only logged.
RecordRemoveError(message) ==
  \/ cfg.msg = message /\ UNCHANGED <<api, watch, faults>>
  \/ /\ cfg.msg # message
     /\ \E res \in WriteResults : UpdateStatus([cfg EXCEPT !.msg = message], res)

\* Fault: imported clusters are no exception.
KeepsClusterUnlessImported == cfg.phase = NotCreated \/ cfg.clusterID = NoID

\* An imported cluster, one that never was seen being created and one without an
\* id are not deleted.
KeepsCluster == cfg.imported \/ cfg.phase = NotCreated \/ cfg.clusterID = NoID

RemoveNothing ==
  /\ pc = "remove" /\ KeepsCluster
  /\ RemovalDone
  /\ UNCHANGED <<storeVars, faults, edits, cloudVars>>

\* Fault: any error of the read is taken for ClusterNotFound.
RemoveReadFailsAsGone ==
  /\ pc = "remove" /\ ~KeepsCluster /\ CallFails
  /\ RemovalDone
  /\ UNCHANGED <<storeVars, edits, cloudVars>>

RemoveReadFails ==
  /\ pc = "remove" /\ ~KeepsCluster /\ CallFails
  /\ RemovalFails("cloud")
  /\ UNCHANGED <<storeVars, edits, cloudVars>>

\* Fault: ClusterNotFound is an error like others.
RemoveGoneFails ==
  /\ pc = "remove" /\ ~KeepsCluster /\ ~Found(cfg.clusterID)
  /\ RemovalFails("cloud")
  /\ UNCHANGED <<storeVars, faults, edits, cloudVars>>

\* ClusterNotFound: nothing is left to delete.
RemoveAlreadyGone ==
  /\ pc = "remove" /\ ~KeepsCluster /\ ~Found(cfg.clusterID)
  /\ RecordRemoveError("none")
  /\ RemovalDone
  /\ UNCHANGED <<cache, queued, edits, cloudVars>>

RemoveFound ==
  /\ pc = "remove" /\ ~KeepsCluster /\ Found(cfg.clusterID)
  /\ pc' = "protection"
  /\ read' = IF "cluster" \in protected THEN {"protected"} ELSE {}
  /\ UNCHANGED <<storeVars, faults, edits, cloudVars, seen, cfg, err, newID, tries>>

\* checkDeletionProtection: the cluster as it was read, then its node pools, then
\* its virtual node pools; a failure to read them counts as a reason too.
ProtectionChecked(next, e) ==
  /\ pc' = next /\ err' = e /\ read' = {}
  /\ UNCHANGED <<seen, cfg, newID, tries>>

PoolsProtected(kind, pools) == kind \in protected /\ pools # "none"

CheckNodePools ==
  /\ pc = "protection"
  /\ \/ /\ "protected" \in read \/ PoolsProtected("nodePool", nodePools)
        /\ ProtectionChecked("report", "blocked")
     \/ /\ "protected" \notin read /\ ~PoolsProtected("nodePool", nodePools)
        /\ ProtectionChecked("protectVirtual", "none")
  /\ UNCHANGED <<storeVars, faults, edits, cloudVars>>

CheckVirtualNodePools ==
  /\ pc = "protectVirtual"
  /\ ProtectionChecked("report", IF PoolsProtected("virtualNodePool", virtualNodePools)
                                 THEN "blocked" ELSE "none")
  /\ UNCHANGED <<storeVars, faults, edits, cloudVars>>

ProtectionUnknown ==
  /\ pc \in {"protection", "protectVirtual"}
  /\ CallFails \/ (~Found(cfg.clusterID) /\ UNCHANGED faults)
  /\ ProtectionChecked("report", "cloud")
  /\ UNCHANGED <<storeVars, edits, cloudVars>>

\* Fault: the error is returned, but OnTkeConfigRemoved is not wrapped by recordError.
ReportProtectionReturns ==
  /\ pc = "report"
  /\ IF err = "none" THEN Proceed("removePools") ELSE RemovalFails(err)
  /\ UNCHANGED <<storeVars, faults, edits, cloudVars>>

\* What holds the deletion up is recorded and returned; when nothing does, an
\* earlier message is cleared and the deletion begins.
ReportProtection ==
  /\ pc = "report"
  /\ RecordRemoveError(err)
  /\ IF err = "none" THEN Proceed("removePools") ELSE RemovalFails(err)
  /\ UNCHANGED <<cache, queued, edits, cloudVars>>

-----------------------------------------------------------------------------
(* The backoff loop.                                                       *)

\* Something is still being deleted: sleep and start over, while there are
\* tries left.
Sleep ==
  IF tries + 1 < BackoffSteps
  THEN pc' = "removePools" /\ tries' = tries + 1 /\ UNCHANGED <<seen, cfg, err, newID, read>>
  ELSE RemovalFails("cloud")

\* ensureNodePoolsDeleted
NodePoolsDeleted ==
  /\ pc = "removePools" /\ (nodePools = "none" \/ ~Found(cfg.clusterID))
  /\ Proceed("removeVirtual")
  /\ UNCHANGED <<storeVars, faults, edits, cloudVars>>

\* Fault: the deletion is requested and not waited for.
DeleteNodePoolsOnce ==
  /\ pc = "removePools" /\ nodePools # "none" /\ Found(cfg.clusterID)
  /\ nodePools' = Deletion(nodePools)
  /\ Proceed("removeVirtual")
  /\ UNCHANGED <<storeVars, faults, edits, clusters, virtualNodePools, nodes, protected,
                 drift, endpoint>>

DeleteNodePools ==
  /\ pc = "removePools" /\ nodePools # "none" /\ Found(cfg.clusterID)
  /\ IF "nodePool" \in protected /\ nodePools # "deleting"
     THEN RemovalFails("cloud") /\ UNCHANGED nodePools
     ELSE Sleep /\ nodePools' = Deletion(nodePools)
  /\ UNCHANGED <<storeVars, faults, edits, clusters, virtualNodePools, nodes, protected, drift,
                 endpoint>>

\* ensureVirtualNodePoolsDeleted
VirtualNodePoolsDeleted ==
  /\ pc = "removeVirtual" /\ (virtualNodePools = "none" \/ ~Found(cfg.clusterID))
  /\ Proceed("removeCluster")
  /\ UNCHANGED <<storeVars, faults, edits, cloudVars>>

DeleteVirtualNodePools ==
  /\ pc = "removeVirtual" /\ virtualNodePools # "none" /\ Found(cfg.clusterID)
  /\ IF "virtualNodePool" \in protected /\ virtualNodePools # "deleting"
     THEN RemovalFails("cloud") /\ UNCHANGED virtualNodePools
     ELSE Sleep /\ virtualNodePools' = Deletion(virtualNodePools)
  /\ UNCHANGED <<storeVars, faults, edits, clusters, nodePools, nodes, protected, drift,
                 endpoint>>

\* DeleteCluster is accepted, or the cluster is already gone.
RemoveCluster ==
  /\ pc = "removeCluster"
  /\ ~(Found(cfg.clusterID) /\ "cluster" \in protected)
  /\ DeleteCluster(cfg.clusterID)
  /\ RemovalDone
  /\ UNCHANGED <<storeVars, faults, edits, poolVars, nodes, protected, drift,
                 endpoint>>

\* It is refused, for protection enabled since the check or because the cluster
\* is being deleted.
RemoveClusterRefused ==
  /\ pc = "removeCluster" /\ Found(cfg.clusterID)
  /\ "cluster" \in protected \/ clusters[cfg.clusterID] = "deleting"
  /\ RemovalFails("cloud")
  /\ UNCHANGED <<storeVars, faults, edits, cloudVars>>

\* One of the loop's calls fails, a deletion perhaps after it was accepted.
RemovalCallFails ==
  /\ pc \in {"removePools", "removeVirtual", "removeCluster"} /\ CallFails
  /\ \/ UNCHANGED <<clusters, poolVars>>
     \/ /\ pc = "removePools" /\ "nodePool" \notin protected /\ Found(cfg.clusterID)
        /\ nodePools' = Deletion(nodePools)
        /\ UNCHANGED <<clusters, virtualNodePools>>
     \/ /\ pc = "removeVirtual" /\ "virtualNodePool" \notin protected /\ Found(cfg.clusterID)
        /\ virtualNodePools' = Deletion(virtualNodePools)
        /\ UNCHANGED <<clusters, nodePools>>
     \/ /\ pc = "removeCluster" /\ "cluster" \notin protected
        /\ DeleteCluster(cfg.clusterID)
        /\ UNCHANGED poolVars
  /\ RemovalFails("cloud")
  /\ UNCHANGED <<storeVars, edits, nodes, protected, drift, endpoint>>

-----------------------------------------------------------------------------
\* The framework removes the finalizer with an Update of the object the worker
\* was started with: a conflict when a message was recorded meanwhile.
DropFinalizer ==
  /\ pc = "dropFinalizer"
  /\ \E res \in WriteResults :
       /\ Update([cfg EXCEPT !.finalizer = FALSE], res)
       /\ err' = IF res = "ok" THEN "none" ELSE "store"
  /\ pc' = "end"
  /\ UNCHANGED <<cache, queued, edits, cloudVars, seen, cfg, newID, tries, read>>

RemovalNext ==
  \/ RemoveNothing \/ RemoveReadFails \/ RemoveAlreadyGone \/ RemoveFound
  \/ CheckNodePools \/ CheckVirtualNodePools \/ ProtectionUnknown \/ ReportProtection
  \/ NodePoolsDeleted \/ DeleteNodePools
  \/ VirtualNodePoolsDeleted \/ DeleteVirtualNodePools
  \/ RemoveCluster \/ RemoveClusterRefused \/ RemovalCallFails
  \/ DropFinalizer
=============================================================================
