------------------------------ MODULE Lifecycle ------------------------------
(***************************************************************************)
(* The operator with everything around it: the handlers' steps, the        *)
(* informer, the process that may crash, the cloud, and the people who     *)
(* edit and delete the resource and work in the console.                   *)
(*                                                                         *)
(* Line numbers in the comments are those of                               *)
(* src/controller/tke-cluster-config-handler.go.                           *)
(***************************************************************************)
EXTENDS CheckUpdate, Removal

CONSTANT Kinds \* the resources to begin with, see Resource

ASSUME KindsAssumption == Kinds \subseteq {"create", "import", "noID", "adopt"}

vars == <<storeVars, faults, edits, cloudVars, handlerVars, provisionVars>>

\* A resource as a user or Rancher creates it.  create: the operator is to make
\* the cluster; import: the cluster exists and is to be imported; noID: it is to
\* be imported, and its id was forgotten; adopt: it exists, its id is in the
\* spec, and imported is not set.
Resource(kind, valid, rows) ==
  [Empty EXCEPT !.there = TRUE, !.rv = 1, !.valid = valid, !.rows = rows,
                !.imported = (kind \in {"import", "noID"}),
                !.clusterID = IF kind \in {"create", "noID"} THEN NoID ELSE Existing]

NewResource(kind) == {Resource(kind, v, r) : v \in BOOLEAN, r \in {"nil", "new"}}

Init ==
  /\ \E kind \in Kinds : api \in NewResource(kind)
  /\ cache = api /\ watch = <<>> /\ queued = TRUE
  /\ faults = MaxFaults /\ edits = MaxEdits
  /\ clusters = [id \in IDs |-> IF id = Existing THEN "running" ELSE "none"]
  /\ \/ api.clusterID = NoID /\ nodePools = "none"
     \/ api.clusterID = Existing /\ nodePools \in {"none", "normal"}
  /\ virtualNodePools = "none" /\ nodes = "current"
  /\ protected \in {{}, {"cluster"}}
  /\ drift = {}
  /\ endpoint = "NotFound"
  /\ pc = "idle" /\ seen = Empty /\ cfg = Empty
  /\ err = "none" /\ newID = NoID /\ tries = 0 /\ read = {}
  /\ secret = FALSE /\ causes = 0

\* One step of the worker.
Frame == (Begin \/ RecordError \/ AddFinalizer \/ End) /\ UNCHANGED provisionVars
Remove == RemovalNext /\ UNCHANGED provisionVars
Step == Frame \/ ProvisionNext \/ CheckUpdateNext \/ Remove

Restart ==
  /\ Crash
  /\ IF pc = "saveID" /\ api.clusterID # newID THEN LosesID ELSE UNCHANGED causes
  /\ UNCHANGED secret

Notify == Deliver /\ UNCHANGED <<cloudVars, handlerVars, provisionVars>>

User == (UserEdit \/ UserDelete) /\ UNCHANGED <<cloudVars, handlerVars, provisionVars>>

Cloud ==
  /\ \/ CloudProgress /\ UNCHANGED <<faults, edits>>
     \/ NodeUpgradeFails /\ UNCHANGED edits
     \/ Console /\ UNCHANGED faults
  /\ UNCHANGED <<storeVars, handlerVars, provisionVars>>

Next == Step \/ Restart \/ Notify \/ User \/ Cloud

Spec == Init /\ [][Next]_vars

\* The work queue hands out every key, the watch delivers, and what the cloud
\* has begun it finishes.  Nothing obliges users, the console or faults.
Fairness ==
  /\ WF_vars(Step)
  /\ WF_vars(Notify)
  /\ WF_vars(Cloud /\ PoolProgress)
  /\ WF_vars(Cloud /\ NodeProgress)
  /\ WF_vars(Cloud /\ EndpointProgress)
  /\ \A id \in IDs : WF_vars(Cloud /\ ClusterProgress(id))

FairSpec == Spec /\ Fairness

-----------------------------------------------------------------------------
(* Invariants.                                                             *)

TypeOK == StoreTypeOK /\ CloudTypeOK /\ HandlerTypeOK /\ ProvisionTypeOK

\* The versions of the resource the operator may be holding.
Held == {cache, seen, cfg} \cup {watch[i] : i \in DOMAIN watch}

\* Two objects with one resourceVersion agree on everything but what handlers write
\* through the informer cache's pointer: the spec that FixConfig reads from the
\* cloud (line 324; aligned and rows) and the ids of new pools (line 654; rows).
\* What the write of a stale object being refused is worth rests on this.
Agree(a, b) == /\ a.deleting = b.deleting /\ a.finalizer = b.finalizer
               /\ a.imported = b.imported /\ a.valid = b.valid
               /\ a.clusterID = b.clusterID
               /\ a.phase = b.phase /\ a.msg = b.msg
VersionsAgree ==
  \A o \in Held : o.there => /\ o.rv <= api.rv
                             /\ o.rv = api.rv => Agree(o, api)

\* A cluster that is said to be created has an id, also for the reader of an
\* old version: waitForCreationComplete (line 425) would wait for ever without,
\* and OnTkeConfigRemoved (line 161) would take it for deleted.
CreatingHasCluster ==
  \A o \in Held \cup {api} :
    o.phase \in {"creating", "active", "updating"} => o.clusterID # NoID

\* Of the clusters the operator created it knows the one in the spec and the one it is
\* about to save; each other one was lost in one of the ways that causes counts
\* (lines 365-392).
SurplusClustersHaveACause == Cardinality(Made \ {api.clusterID, newID}) <= causes

\* A cluster that was there before the resource, imported or named in the spec,
\* is never deleted, whatever is recorded, crashes or is deleted (lines 150-164).
ForeignClusterUntouched == clusters[Existing] \in {"running", "upgrading"}

\* An imported cluster is active only with its spec read from the cloud and its
\* secret written (lines 323-341): a retry after a failure half way must not
\* skip either.
ImportedActiveIsComplete ==
  api.imported /\ api.phase \in {"active", "updating"} => api.aligned /\ secret

\* No wakeup is lost, from the creation on: when the worker rests (nothing is queued
\* and no event is on its way), a resource that nobody deletes has its finalizer,
\* its message is cleared unless a write failed, and it is active with nothing left that
\* a reconcile waits for or begins (lines 423-451, 483-595, 914-968, 1286-1306).
\* Or it was refused: a spec that becomes invalid leaves it updating (line 456), and
\* one that names a cluster without importing it is not looked at (line 359).
AtRest == pc = "idle" /\ ~queued /\ watch = <<>>
Settled ==
  /\ clusters[api.clusterID] \notin {"upgrading", "abnormal"} /\ nodes = "current"
  /\ nodePools \notin {"busy", "deleting"}
  /\ api.rows = "nil" \/ api.imported \/ (endpoint = "Created" /\ secret)
Done ==
  \/ api.phase = "active" /\ api.valid /\ Settled
  \/ api.phase = "updating" /\ ~api.valid
  \/ api.phase = NotCreated /\ ~api.imported /\ api.valid /\ api.clusterID # NoID
RestMeansDone ==
  AtRest /\ api.there =>
    /\ ~api.deleting /\ api.finalizer
    /\ api.msg = "none" \/ faults < MaxFaults
    /\ Done

-----------------------------------------------------------------------------
(* Action properties.                                                      *)

\* Whatever the operator writes, with however old an object, it does not undo
\* an edit of the user's: only a user changes whether the spec is valid.
UserEditsSurvive == [][api'.valid # api.valid => edits' < edits]_vars

\* A resource that got as far as creating does not go away before its cluster is being
\* deleted (lines 148-246), once it has its finalizer.  The framework adds that
\* after the handler (lines 85-86), and a deletion before leaves the cluster: this
\* takes a worker in the middle of a pass, or a fault or an edit that kept the
\* finalizer away, and ends when the worker comes to rest.
FinalizerGuardsCluster ==
  [][api.there /\ ~api'.there /\ ~api.imported /\ api.phase # NotCreated
        => \/ clusters[api.clusterID] \in {"deleting", "gone"}
           \/ /\ ~api.finalizer /\ ~AtRest
              /\ pc # "idle" \/ faults < MaxFaults \/ edits < MaxEdits]_vars

\* The operator asks for a cluster's deletion only when no node pool is left
\* (lines 204-222); a virtual pool can only have come from the console since.
PoolsGoBeforeCluster ==
  [][\A id \in IDs : clusters[id] # "deleting" /\ clusters'[id] = "deleting"
        => nodePools = "none" /\ (virtualNodePools = "none" \/ edits < MaxEdits)]_vars

\* The operator does not call a cluster active while its control plane or its
\* node pools are known to be at work (lines 483-562, 960-968): what the reconcile
\* itself began, and a crash or an old object between, included.
SettledBeforeActive ==
  [][api.phase # "active" /\ api'.phase = "active"
        => /\ clusters[api.clusterID] \notin {"upgrading", "abnormal"}
           /\ nodePools \notin {"busy", "deleting"}]_vars

\* The upgrade of the nodes is started only when no upgrade of the control plane
\* is going on: control plane first, nodes second (lines 581-583).
NodesUpgradeAfterControlPlane ==
  [][nodes # "upgrading" /\ nodes' = "upgrading" => clusters[api.clusterID] # "upgrading"]_vars

\* The lifecycle keeps the promises of ConfigPhases (lines 94-106 and every
\* write of status.phase).
Promise == INSTANCE ConfigPhases WITH phase <- api.phase, cluster <- api.clusterID,
                                      imported <- api.imported, gone <- ~api.there
PromiseKept == Promise!Spec

-----------------------------------------------------------------------------
(* Liveness, under Fairness.                                               *)

Alive == api.there /\ ~api.deleting
ClusterOf(id) == IF id \in IDs THEN clusters[id] ELSE "none"

\* A cluster being created becomes active, is found abnormal, or the resource is
\* deleted: no crash and no failed call makes the operator stop looking
\* (lines 423-451).
CreatingBecomesActive ==
  api.phase = "creating" ~>
    api.phase # "creating" \/ ~Alive \/ ClusterOf(api.clusterID) \in {"abnormal", "deleting", "gone"}

\* An import with a valid spec becomes active (lines 302-342).
ImportBecomesActive ==
  api.imported ~> api.phase = "active" \/ ~Alive \/ ~api.valid

\* Once nothing is protected any more, a resource being deleted goes away
\* (lines 148-246): conflicts, crashes and timeouts of the backoff are retried.
DeletionCompletes ==
  <>[](protected = {}) => (api.there /\ api.deleting ~> ~api.there)

Blocked == \/ "cluster" \in protected
           \/ PoolsProtected("nodePool", nodePools)
           \/ PoolsProtected("virtualNodePool", virtualNodePools)

\* A deletion held up by protection is reported in failureMessage (lines
\* 183-192), unless the protection is lifted, or the cluster goes first.
BlockedDeletionReported ==
  (api.there /\ api.deleting /\ Blocked /\ ~api.imported /\ api.phase # NotCreated) ~>
    (api.msg = "blocked" \/ ~Blocked \/ ClusterOf(api.clusterID) \in {"deleting", "gone"})

\* A spec that validate refuses before there is a cluster is reported (lines
\* 304-306, 355-357 and recordError).
EarlyRefusalReported ==
  (Alive /\ ~api.valid /\ api.phase \in {NotCreated, "importing"}) ~>
    (api.msg = "invalid" \/ ~Alive \/ api.valid)

\* No wakeup is lost: a cluster that is updating becomes active when its spec is
\* valid, it has an endpoint and is well (lines 453-562, 1286-1306).
UpdatingSettles ==
  (Alive /\ api.phase = "updating") ~>
    \/ api.phase = "active" \/ ~Alive \/ ~api.valid
    \/ endpoint = "NotFound"
    \/ ClusterOf(api.clusterID) \in {"abnormal", "deleting", "gone"}

\* Nodes left behind, by an upgrade of the control plane or by an upgrade of their own
\* that was stopped, are upgraded in the end: what the code does (lines 584-595,
\* 1249-1284), although line 1248 announces an error; see StoppedUpgradeReported.
NodesBecomeCurrent ==
  (Alive /\ nodes # "current") ~>
    \/ nodes = "current" \/ ~Alive \/ ~api.valid
    \/ ClusterOf(api.clusterID) \in {"abnormal", "deleting", "gone"}

-----------------------------------------------------------------------------
(* What comments of the code say and the code does not keep.               *)

\* Line 370: "Use RetryOnConflict to prevent repeated creation when Update
\* fails".
OneClusterPerResource == Cardinality(Made) <= 1

\* Lines 155-158: a resource that never advanced to creating is taken for one
\* whose cluster "already existed in TKE".  One the operator created would be
\* deleted with its resource.
CreatedClusterIsRemoved ==
  ~api.there /\ api.deleting /\ api.clusterID \in NewIDs
    => clusters[api.clusterID] \in {"deleting", "gone"}

\* Lines 111-112: "recordError writes the error return by onChange to the
\* failureMessage field on status": a spec refused in an update.
RefusalReported ==
  (Alive /\ ~api.valid /\ api.phase \in {"active", "updating"}) ~>
    (api.msg = "invalid" \/ ~Alive \/ api.valid)

\* Line 1248: waitOrTriggerNodeUpgrade returns "(false, err) - an unrecoverable error
\* occurred (e.g. upgrade task failed/timed-out)", which recordError would record.
StoppedUpgradeReported ==
  (Alive /\ api.valid /\ nodes = "stopped") ~>
    (api.msg = "cloud" \/ ~Alive \/ ~api.valid)
=============================================================================
