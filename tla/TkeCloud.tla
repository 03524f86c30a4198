------------------------------ MODULE TkeCloud ------------------------------
(***************************************************************************)
(* The Tencent cloud as the operator's client (driver/client/tke.go) shows *)
(* it to the handlers: clusters, the node pools and virtual node pools of  *)
(* the cluster a resource names, their deletion protection, the API        *)
(* endpoint, and whether the cluster's settings differ from the spec.      *)
(*                                                                         *)
(* The first part has what the client's calls read and change; a handler   *)
(* conjoins it with its own step.  The second part is the cloud's own      *)
(* progress and what people do in its console: external to src/, modelled  *)
(* from the states the handlers tell apart (driver/common.go).             *)
(***************************************************************************)
EXTENDS ConfigStore, FiniteSets

\* "upgrading" is a running cluster whose control plane is being upgraded:
\* ClusterState of DescribeClusterStatus.
ClusterStates == {"none", "creating", "running", "upgrading", "abnormal",
                  "deleting", "gone"}
\* All pools of a kind together; busy: one is being created or updated.
PoolStates == {"none", "normal", "busy", "deleting"}
\* The nodes against the control plane's version: stopped when a task to upgrade
\* them was, and left some behind.
NodeStates == {"current", "behind", "upgrading", "stopped"}
EndpointStates == {"NotFound", "Creating", "Created"}
Protectable == {"cluster", "nodePool", "virtualNodePool"}
\* What can differ from the spec: the version, the other attributes with the
\* cluster's protection, and pools.
Settings == {"version", "attributes", "nodePools", "virtualNodePools"}

VARIABLES clusters,         \* the state of each cluster
          nodePools,        \* of the cluster the resource names
          virtualNodePools, \* likewise
          nodes,            \* likewise
          protected,        \* what has deletion protection enabled
          drift,            \* what of it differs from the spec
          endpoint          \* the API endpoint of that cluster

poolVars == <<nodePools, virtualNodePools>>
cloudVars == <<clusters, poolVars, nodes, protected, drift, endpoint>>

CloudTypeOK ==
  /\ clusters \in [IDs -> ClusterStates]
  /\ nodePools \in PoolStates /\ virtualNodePools \in PoolStates
  /\ nodes \in NodeStates
  /\ protected \subseteq Protectable
  /\ drift \subseteq Settings
  /\ endpoint \in EndpointStates

\* The clusters the operator ever created.
Made == {id \in NewIDs : clusters[id] # "none"}

-----------------------------------------------------------------------------
(* Client calls.                                                           *)

\* A call that fails for no reason of the cluster's costs a fault.
CallFails == faults > 0 /\ faults' = faults - 1

\* DescribeClusters lists the cluster; an empty list becomes ClusterNotFound.
Found(id) == id \in IDs /\ clusters[id] \notin {"none", "gone"}

\* CreateCluster: the cloud has room for the cluster and starts creating it.
CreateCluster(id) ==
  /\ id \in NewIDs /\ clusters[id] = "none"
  /\ clusters' = [clusters EXCEPT ![id] = "creating"]

\* DeleteCluster, accepted.  Deleting a cluster that is gone or on its way
\* changes nothing.
DeleteCluster(id) ==
  clusters' = IF Found(id) THEN [clusters EXCEPT ![id] = "deleting"] ELSE clusters

\* CreateClusterNodePool for each row without an id.
CreateClusterNodePool == nodePools' = "busy"

\* What of it the operator can see to differ: not the settings of pools that are not there.
Shown == {s \in drift : /\ s = "nodePools" => nodePools # "none"
                        /\ s = "virtualNodePools" => virtualNodePools # "none"}

\* DeleteClusterNodePool and DeleteClusterVirtualNodePool: the pools not yet
\* being deleted start to be.
Deletion(pools) == IF pools = "none" THEN "none" ELSE "deleting"
Change(pools) == IF pools = "none" THEN "none" ELSE "busy"

\* The cloud changes a cluster that runs, and refuses to change another.
Running(id) == id \in IDs /\ clusters[id] = "running"

\* UpdateClusterVersion starts the upgrade of the control plane.
UpdateClusterVersion(id) ==
  /\ Running(id) /\ "version" \in drift
  /\ clusters' = [clusters EXCEPT ![id] = "upgrading"]
  /\ drift' = drift \ {"version"}

\* ModifyClusterAttribute, or the cluster's protection switched.
ModifyClusterAttribute ==
  /\ protected' \in {protected, protected \cup {"cluster"}, protected \ {"cluster"}}
  /\ drift' = drift \ {"attributes"}

\* Pools are modified, which may show in their state, or removed.
ModifyPools(pools) == {pools, Change(pools), Deletion(pools)}

-----------------------------------------------------------------------------
(* The cloud itself and its console.                                       *)

\* After an upgrade of the control plane there may be nodes behind it.
ClusterProgress(id) ==
  /\ \/ /\ clusters[id] = "creating"
        /\ \E s \in {"running", "abnormal"} : clusters' = [clusters EXCEPT ![id] = s]
        /\ UNCHANGED nodes
     \/ /\ clusters[id] = "upgrading" /\ clusters' = [clusters EXCEPT ![id] = "running"]
        /\ nodes' \in {"current", "behind"}
     \/ /\ clusters[id] = "deleting" /\ clusters' = [clusters EXCEPT ![id] = "gone"]
        /\ UNCHANGED nodes
  /\ UNCHANGED <<poolVars, protected, drift, endpoint>>

\* The next state of pools on which work is going on.
PoolsSettle(pools) == IF pools = "busy" THEN "normal" ELSE "none"

PoolProgress ==
  /\ \/ /\ nodePools \in {"busy", "deleting"}
        /\ nodePools' = PoolsSettle(nodePools)
        /\ UNCHANGED virtualNodePools
     \/ /\ virtualNodePools \in {"busy", "deleting"}
        /\ virtualNodePools' = PoolsSettle(virtualNodePools)
        /\ UNCHANGED nodePools
  /\ UNCHANGED <<clusters, nodes, protected, drift, endpoint>>

NodeProgress ==
  /\ nodes = "upgrading" /\ nodes' = "current"
  /\ UNCHANGED <<clusters, poolVars, protected, drift, endpoint>>

EndpointProgress ==
  /\ endpoint = "Creating" /\ endpoint' = "Created"
  /\ UNCHANGED <<clusters, poolVars, nodes, protected, drift>>

CloudProgress == \/ \E id \in IDs : ClusterProgress(id)
                 \/ PoolProgress \/ NodeProgress \/ EndpointProgress

\* The upgrade of the nodes is paused, aborted or times out.
NodeUpgradeFails ==
  /\ nodes = "upgrading" /\ CallFails
  /\ nodes' = "stopped"
  /\ UNCHANGED <<clusters, poolVars, protected, drift, endpoint>>

\* Somebody works in the console: toggles a protection, adds a virtual node
\* pool, changes a setting, deletes a cluster that has no pools.
Console ==
  /\ edits > 0
  /\ edits' = edits - 1
  /\ \/ /\ \E p \in Protectable :
             protected' = IF p \in protected THEN protected \ {p} ELSE protected \cup {p}
        /\ UNCHANGED <<clusters, poolVars, drift>>
     \/ /\ virtualNodePools \in {"none", "normal"} /\ virtualNodePools' = "busy"
        /\ UNCHANGED <<clusters, nodePools, protected, drift>>
     \/ /\ \E s \in Settings \ drift : drift' = drift \cup {s}
        /\ UNCHANGED <<clusters, poolVars, protected>>
     \/ /\ nodePools = "none" /\ virtualNodePools = "none"
        /\ \E id \in Made : clusters[id] = "running" /\ DeleteCluster(id)
        /\ UNCHANGED <<poolVars, protected, drift>>
  /\ UNCHANGED <<nodes, endpoint>>
=============================================================================
