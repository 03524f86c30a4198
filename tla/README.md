# tke-operator in TLA+

tke-operator is a Kubernetes operator: for every `TKEClusterConfig` resource it
creates, imports, reconciles and deletes a cluster of Tencent's Kubernetes
Engine (TKE). These modules model the controller
(`src/controller/tke-cluster-config-handler.go`, below *the handler file*)
together with what it runs in: the API server with its optimistic concurrency,
the informer cache that lags behind it, the work queue, the process that may
stop at any call, and the cloud that works on its own and has a console.

TLC checks the modules on small instances. TLAPS proves, for every value of the
constants, the safety properties of the three specifications (types, invariants,
action properties), that the life of a resource and the node pools implement
their abstract specifications, and what the diff of virtual node pools does.

    tlc -workers 2 -config create.cfg MCLifecycle.tla
    tlc -workers 2 -config nodepools.cfg MCNodePools.tla
    tlc -workers 2 -config virtualpools.cfg MCVirtualPools.tla
    tlapm LifecycleTypes.tla ; tlapm LifecycleProofs.tla
    tlapm CompletionProofs.tla ; tlapm PromiseProofs.tla
    tlapm PoolWorkerProofs.tla ; tlapm NodePoolsProofs.tla
    tlapm VirtualPoolDiffProofs.tla ; tlapm VirtualPoolsProofs.tla

## The system

| Part | State | Operations |
|---|---|---|
| Custom resource (`types.go`) | spec (`clusterId`, `imported`, settings, pool lists), `status.phase`, `status.failureMessage`, finalizer, deletion timestamp | users and Rancher edit and delete it; the operator calls `Update` and `UpdateStatus` |
| Informer and work queue (client-go, lasso) | a cached copy, events under way, keys to work on | deliver an event, hand out a key, requeue after an error or a delay |
| Dispatch (`OnTkeConfigChanged`, `recordError`) | none of its own | choose the handler by phase; write its error to `failureMessage` |
| Creation (`create`, `waitForCreationComplete`) | the id of the new cluster, while the handler runs | `CreateCluster`, save the id, save the phase, poll |
| Import (`importCluster`, `FixConfig`) | none | read the cloud into the spec, write the secret, turn to active |
| Reconcile (`checkAndUpdate`, `updateUpstreamClusterState`, `enqueueUpdate`) | none | wait for work under way, upgrade, modify, create and delete pools, endpoint, secret, turn to active |
| Node pools in a reconcile (`updateUpstreamClusterState`, 640-730) | the pools as read, what is to be modified | create rows without id, write the ids, delete surplus pools, set size, limits, instance type |
| Virtual node pools in a reconcile (732-910) | the pools as read | delete unlisted, adopt by name, create, fill in ids, modify what differs |
| Deletion (`OnTkeConfigRemoved`) | the backoff's tries | check protections, delete pools, then the cluster; the framework drops the finalizer |
| TKE client (`driver/client/tke.go`) | none | the cloud's API |
| Cloud | clusters, pools, nodes, protections, endpoint | its own progress, the console |
| Process (`main.go`) | leader lease, if asked for | start, stop |

They interact through the resource only. A handler gets a *copy out of the
cache*, makes calls to the cloud that cannot be undone, and records what it did
with writes that may be refused. One key is worked on by one worker at a time;
everything else runs at the same time as the worker: events, edits, the
console, the cloud, a crash.

What is hard about it:

- **Calls and records are not atomic.** A cluster is created and then its id is
  saved, then the phase. Each of the three may be the last to happen.
- **Everything read is old.** The handler's object and the cache lag behind the
  API server; the retry loops of `create` read the cache again, `enqueueUpdate`
  reads the API server, the other writes use the object they were given.
- **The cache is written to.** `FixConfig` in an import and the pool ids in a
  reconcile are written through the cached object's pointer.
- **A wakeup is either an event or a requeue.** A branch with neither sleeps
  until the next edit.
- **Errors take different ways.** Some handlers return nil with an error (it is
  not recorded), some the object, one overwrites the error; the remove handler
  is not wrapped at all.
- **Deletion races with the console**, which may protect, add and delete.
- **Pools have two identities.** A row of the spec finds its pool by an id that
  Rancher may blank and a write may lose, and a virtual one by its name, which
  users may change.
- **What is asked for is not what is sent.** Some differences never reach the
  request, some requests are refused, some are answered with "nothing is
  updated": each must neither loop nor be forgotten.

What makes each part correct:

- resource and writes: no write with an old object undoes what others stored;
- creation: no cluster without a record of it; what is being created becomes
  active or is reported;
- import: complete before it is called active, retried until it is, never
  deleted;
- reconcile: control plane before nodes, active only when nothing is at work,
  and back to active in the end; nodes left behind are upgraded;
- pools: no pool of the spec is deleted, pools of lost ids go, one virtual pool
  per name, what users ask for arrives, and the reconcile comes to rest;
- deletion: pools before the cluster, the resource not before its cluster, an
  end once nothing is protected, and a message while something is;
- dispatch: the promised order of phases.

## Modules

    ObjectStore <- ConfigStore <- TkeCloud <- Handler <- Provision <- CheckUpdate \
         |                                       \<- Removal ---------------------> Lifecycle <- MCLifecycle
         |          ConfigPhases (abstract) <- INSTANCE in Lifecycle                  \<- LifecycleTypes <- LifecycleProofs
         |                                                                                              \<- CompletionProofs <- PromiseProofs
         |
         \<- PoolWorker <- NodePools <- MCNodePools     PoolPromise (abstract) <- INSTANCE in NodePools
                        \<- VirtualPools <- MCVirtualPools
    VirtualPoolDiff <------/   \<- VirtualPoolDiffProofs
         PoolWorker <- PoolWorkerProofs <- NodePoolsProofs (with NodePools), VirtualPoolsProofs (with VirtualPools)

There are two views of the same controller. `Lifecycle` follows one resource from
its creation to its removal, with all pools of a kind as one state. `NodePools`
and `VirtualPools` follow the rows of a cluster that is there, one by one,
through the reconcile, and leave the rest of it out. Both are built on
`ObjectStore`, so that old reads, conflicts, lost answers and crashes are the
same in both.

| Module | Models | Correspondence |
|---|---|---|
| `ObjectStore` | one object in API server, cache, watch and queue (external, from how the handlers use them) | `api`, `cache`, `watch`, `queued`. `Write(obj, new, res)`: `res` is `ok`, `conflict` (another `rv`) or `error`; an error, at the price of a fault, comes before *or after* the write took effect. A write of what is already stored makes no version. |
| `ConfigStore` | the resource | `Update` keeps the stored status and `UpdateStatus` the stored spec, as the CRD has the status subresource |
| `TkeCloud` | what the client's calls read and change; the cloud's progress and console (external) | a state per cluster id, one state for all node pools, one for all virtual node pools, one for the nodes, the set `protected`, the set `drift` of what differs from the spec (version, other attributes, pools of a kind), `endpoint` |
| `Handler` | dispatch, `recordError`, the framework around the handlers, crash | `pc` is the worker's next call; `cfg` the variable `config`, `err` the error to return, `seen` the object the worker started with, `read` what the handler read from the cloud and will act on later, when it may have changed |
| `Provision` | `create`, `waitForCreationComplete`, `importCluster`, `createCASecret` | one action per write or modifying call, one per early return; the reads of an import are one step |
| `CheckUpdate` | `checkAndUpdate`, `updateUpstreamClusterState`, `waitOrTriggerNodeUpgrade`, `enqueueUpdate` | one action per call, the reads but that of virtual node pools at line 736 included: `GetCluster`, `GetNodePools`, `GetStatus`, `GetVirtualNodePools`, then the three calls of a node upgrade; `SyncModify` is one modification, `SyncFails` one that failed before or after it took effect or half way |
| `Removal` | `OnTkeConfigRemoved` and its helpers, removal of the finalizer | one action per read of `checkDeletionProtection` and per turn of the backoff's loop at each kind of pool (list, then delete); `tries` counts the backoff's |
| `Lifecycle` | all of it together, with the properties | `Next == Step \/ Restart \/ Notify \/ User \/ Cloud` |
| `ConfigPhases` | the abstract specification: what a reader of the resource is promised of phase, id and import | `Lifecycle` implements it with `phase <- api.phase`, `cluster <- api.clusterID`, `imported <- api.imported`, `gone <- ~api.there` |
| `PoolWorker` | the worker around a reconcile of pools: dispatch, waiting, `enqueueUpdate`, the end of a reconcile, `recordError`, crash | as in `Handler` and `CheckUpdate`, for an object whose spec is a sequence of rows |
| `NodePools` | lines 640-730, and the reads of `FixConfig` in an import | one action per call: `CreateRow`, `SaveRows`, `DeleteSurplus`, `Modify`. `read` is `upstreamSpec.NodePoolList`; a setting is a size, its limits, labels and an instance type |
| `PoolPromise` | the abstract specification: what the stored spec and the cloud's pools are to each other | `NodePools` implements it with `listed` the ids in `api.rows`, `live` the pools not being deleted, `made` all there ever were |
| `VirtualPoolDiff` | `DiffVirtualNodePoolModifyFields` and `ModifyClusterVirtualNodePool` as pure functions, with the reference `Agree` | an optional value, a pointer in the code, is a set of at most one element |
| `VirtualPools` | lines 732-910, and the wait before them | `index` is the row the current loop has come to; `existing` is `Existing`, by name and then by id |
| `MC...` | initial states, settings and symmetry for TLC | |
| `LifecycleTypes`, `LifecycleProofs`, `CompletionProofs`, `PromiseProofs` | theorems about `Lifecycle` | |
| `PoolWorkerProofs` | lemmas on what each operator of `PoolWorker` does to the objects and the worker | |
| `NodePoolsProofs`, `VirtualPoolsProofs`, `VirtualPoolDiffProofs` | theorems about the pools | |

`causes` in `Provision` is a history variable: it counts the ways in which the
operator can lose the id of a cluster it created. `skipped` in `NodePools` is
another: the last read left out a pool. Neither is in a guard.

Definitions whose comment begins with "Fault:" are not part of the
specification. They are plausible bugs, each of which breaks one property.

## What is checked

Runs on the code as it is:

| Run | Starts with | Bounds | Properties |
|---|---|---|---|
| `create` | a new resource of each kind (to be created, an import, an import without id, a foreign id without `imported`), spec valid or not | 2 ids, 1 fault, 1 edit | `TypeOK`, `VersionsAgree`, `CreatingHasCluster`, `SurplusClustersHaveACause`, `ForeignClusterUntouched`, `ImportedActiveIsComplete`, `RestMeansDone`, `UserEditsSurvive`, `PromiseKept`, `FinalizerGuardsCluster` |
| `provision_live` | a new resource, an import | 2 faults, fairness | `CreatingBecomesActive`, `EarlyRefusalReported`, `ImportBecomesActive` |
| `reconcile` | an active cluster, its version, its other attributes or nothing differing from the spec; nobody deletes it | 1 fault, 1 edit, fairness | `SettledBeforeActive`, `NodesUpgradeAfterControlPlane`, `UpdatingSettles`, `NodesBecomeCurrent` |
| `removal` | a resource just deleted, any protections | 1 fault, 1 edit, fairness | `PoolsGoBeforeCluster`, `DeletionCompletes`, `BlockedDeletionReported` |
| `nodepools` | a cluster with two pools: its import, or an active one with one of them listed and perhaps a new row | 2 rows, 3 settings, 1 fault, 1 edit, fairness | `TypeOK`, `PoolsStayFew`, `RestMeansDone`, `PoolsPromiseKept`, `SurplusPoolsGo`, `SettingsArrive`, `NodePoolsSettle` |
| `virtualpools` | an active cluster with one or two virtual pools and their rows, or with the row of a pool that was deleted by hand | 2 rows, 2 names, 2 settings, 1 fault, 2 edits, fairness | `TypeOK`, `PoolsStayFew`, `OnePoolPerName`, `RestMeansDone`, `NamedPoolsStay`, `VirtualPoolsConverge`, `VirtualPoolsSettle` |

`create` has the most states, 1.7 million distinct ones, `virtualpools`
has six hundred thousand, and the others have between one and three hundred thousand.

What they show. The optimistic concurrency carries the design: no old object,
crash or failed write undoes an edit, changes an id that was recorded, breaks
the order of phases, or makes the operator delete a cluster it did not create.
An import is complete before it is called active, wherever it is cut. The
reconcile never calls a cluster active while it is upgrading or its pools are
at work, though it reads first and writes last; nodes are upgraded after the
control plane, and an upgrade that stopped is taken up again. A deletion goes
through pools and cluster in this order, starts over after conflicts and
timeouts, and ends once nothing is protected; a protected one says so. A resource
does not go before its cluster is being deleted once it has its finalizer. Nobody's
wakeup is lost: a worker that rests (idle, nothing queued, no event on its way) is
done (`RestMeansDone`). Nothing is being deleted then, the resource is active, nothing
is upgrading, no pool is at work, the nodes are current, and the CA secret is there
unless the spec lists no pools (line 633).
Two ends are others, and both are silent: a spec that was refused stays `updating`
(the `refusal` run), and a resource that names a cluster without importing it stays
without a phase (line 359). What `RestMeansDone` of `Lifecycle` leaves open is `drift`: settings
changed in the console are no event, and wait for the next one.

For the pools: a pool the stored spec lists is never deleted, and no id is
stored of a pool that is going; a pool whose id was lost is deleted by a later
pass, so a failure leaves no pool behind that nobody pays attention to. A
virtual pool is never made twice under one name, for it is found by it. A
worker that rests is done here too, with every row, whatever
failed, was edited or was done by hand before: no pass ends without a wakeup while
there is something it should still do (`RestMeansDone`). In the end the cloud has what the rows ask for and the resource is active, but for
these states, each of which a property names as its exception:

| Exception | Where | What it is |
|---|---|---|
| empty list | `RestMeansDone`, `SurplusPoolsGo` | without rows nothing upstream is looked at (line 633) |
| `skipped` | `RestMeansDone`, `SurplusPoolsGo`, `SettingsArrive` | a pool whose scaling group could not be read is left out, and once the resource is active nothing asks for another look |
| `SizeRefused` | `SettingsArrive`, `NodePoolsSettle` | a size below the minimum the pool has now is sent before the new minimum (lines 702-718), refused by the scaling group, and the pass ends: size and minimum cannot be lowered in one edit. The code knows the like for the maximum (line 674), which `SettingsArrive` covers |
| `Unsendable` | `NodePoolsSettle`; `SettingsArrive` compares what can be sent | labels, taints or tags without `=`, or a cleared list, differ for ever and are never sent: each pass begins another update |
| `Stale` | `RestMeansDone`, `VirtualPoolsConverge` | a row with an id that is gone and a name that is not there (line 828) |
| `Displaced` | `RestMeansDone`, `VirtualPoolsConverge` | a pool is not deleted when a row has its id (line 767), and a row takes another pool when that has its name (line 813). Of two rows with their pools, one is taken out and the other gets its name: the row takes the second pool, the first stays, and the reconcile rests with a pool that no row asks for. It takes two edits and no fault |
| `SharedID` | `VirtualPoolsConverge`, `VirtualPoolsSettle` | see `virtual_rename` below |
| `ProtectedUnlisted` | `VirtualPoolsConverge`, `VirtualPoolsSettle` | the cloud refuses to delete a protected pool; the error is reported |

What the pools' liveness properties say is said of the object in the cache, with
which the operator works. The stored one may for good lack an id that was put
into the cached object when the write of it failed (line 664): no later pass
misses the id, hence none writes it, until the next event replaces the cached
object.

Runs that show where the code does not do what its comments say:

| Run | Comment | What happens |
|---|---|---|
| `one_cluster` | line 370: "prevent repeated creation when Update fails" | only conflicts are retried: one failed `Update`, lost answer or crash between `CreateCluster` and the write of the id, and the next event creates a second cluster |
| `orphan` | line 156: "the cluster already existed in TKE" | the id is saved and the write of the phase fails: `create` skips for good (line 359), and the deletion of the resource leaves the operator's own cluster |
| `refusal` | line 111: recordError records the handler's error | `checkAndUpdate` overwrites the validation error (line 461): it is never reported |
| `node_task` | line 1248: "(false, err) – an unrecoverable error occurred (e.g. upgrade task failed/timed-out)." | a node upgrade task that failed or timed out is not told from one that never was: a new task is started, (true, nil) is returned, and nothing is reported. What the code does instead is `NodesBecomeCurrent`: it tries again until the nodes are current |
| `import_pools` | line 1021: "FixConfig aligns configSpec with the DescribeCluster cluster object and node pools." | one scaling group cannot be read during an import: the spec is stored without its pool, and the next reconcile deletes the pool |
| `virtual_rename` | line 734: "create what config wants but upstream doesn't have, modify what differs, delete what upstream has but config doesn't want." | a row is renamed and another gets its old name: both rows take the id of the one pool, which is renamed to and fro, and the second pool is never created |

`SurplusClustersHaveACause` is what remains true of the first of these: every
cluster too many has a counted cause, so duplicates come from nothing else.

The window before the finalizer is the other thing a deletion can leave a cluster in.
`OnChange` is registered before `OnRemove` (lines 85-86), so the framework adds the
finalizer only after the first pass of `create` has returned. When a user deletes the
resource after `create` wrote the phase and before that, the API server removes it at
once, nobody's `OnTkeConfigRemoved` runs, and the cluster stays. It takes neither a
fault nor an edit, and no comment of the code says otherwise, so it is no run of its
own. `FinalizerGuardsCluster` says how far it goes: a resource past creation goes
without its cluster only while it has no finalizer and the worker is not at rest, and
then in the middle of a pass, or after a fault or an edit (a write refused for an old
object, a crash) that put off the finalizer.

The comment of line 111 is also not kept by the handlers that return nil with an error
(433, and the reads of `checkAndUpdate`, 470-500), as recordError returns early on a
nil object: a cluster deleted in the console while the operator waits for its creation
is looked for for ever without a message. `WaitFails` and `UpdateReadFails` are the
model's actions for it.

One more disagreement has a theorem, `ClearedListsStay`, and no run: `utils/parse.go`
line 280 says that a slice pointer lets "an empty slice" mean "clear", and the
client adds nothing to the request for an empty slice.

### Bounds

- `NewIDs`: two ids where clusters are counted (two clusters for one resource
  is the interesting case), one elsewhere. A third would need no more than a cache that lags twice, each time until
  the loop of line 371 has no tries left; with two ids the next `CreateCluster` is
  refused there. The theorem `SurplusClustersAlwaysHaveACause` is for any number of ids.
  `Existing` is the foreign cluster.
- `MaxFaults`: lost calls, failed writes, failed node upgrades and crashes share
  this budget. One puts a fault at every single step; two, where a retry is the
  question (import, creation), put a second one into the recovery.
- `MaxEdits`: edits of the spec and steps in the console. Deletion by a user is
  outside it and may come at any time, but in `reconcile`.
- `MaxRows`: two rows are enough for one to fail after the other, for two to have
  one name or one id, and for one to be listed beside a surplus pool. Edits keep
  the names of virtual rows distinct.
- `MaxPools`: more ids than any behaviour uses up under the other bounds, so that
  no creation is cut off: `PoolsStayFew` says so.
- `Wants`: three settings of a node pool between which a size must wait for a new
  maximum, is refused for the old minimum, or has labels that cannot be sent;
  new rows take the plain one. Two of a virtual pool, each of which leaves open
  what the other sets.
- `Retries` is 2 for client-go's 5, and `BackoffSteps` 2 or 3 for 12: a first
  try, a retry and a give-up are what the loops tell apart. Tries with longer
  loops are repetitions of the same states; the proofs hold for all values.
- Versions and the watch are bounded by the budgets, as every write that stores
  anything new needs an edit, a fault or progress of the phase.

Ids of created clusters are symmetric in the runs without liveness properties.
`create` is about the resource and its cluster: in it nothing is protected, nobody adds
virtual node pools by hand, and settings of spec and cloud do not come to differ. The
console may still delete the cluster. Protection matters to `removal`, which starts with
every combination of it, and what a reconcile mends to `reconcile`.
`CHECK_DEADLOCK FALSE`: with no event, no edit left and a resource that is
settled or gone, the system has nothing to do.

### Fairness

`Fairness` is weak fairness of

- `Step`, the worker: the queue hands out each key, and a handler runs on;
- `Notify`: the watch delivers;
- each kind of the cloud's progress: what the cloud has begun it ends. A cluster
  being created ends up running *or* abnormal, as the cloud likes. In `NodePools`
  and `VirtualPools` it is enough that work on *some* pool ends, as the reconcile
  starts no more while it waits for the rest.

`NodePools` and `VirtualPools` have the same three.

Delayed requeues (`tkeEnqueueAfter`, rate limits) are requeues: only their order
with other steps matters, and that is left open. No fairness is assumed of
users, the console or faults. Periodic resync of the informer, which would hide
lost wakeups for hours, is not relied on.

## What is proved

### The life of a resource

For every value of the constants (any number of ids, faults, edits and tries),
from the named assumptions `IDsAssumption` (the ids are distinct),
`BoundsAssumption` and `RetryAssumption` (bounds are numbers), and
`KindsAssumption`:

| Theorem | Property | Argument |
|---|---|---|
| `TypeCorrect` | `TypeOK` | inductive as it stands. A handler's step changes the worker's variables in one of a few shapes (a return, a status write and a return, a quiet step), each with a lemma; `Configs` stays opaque but in the lemmas on fields |
| `VersionsAlwaysAgree` | `VersionsAgree` | inductive with `TypeOK`. Every object the worker comes to hold is one that was held, the stored one, or a held one with other rows or aligned by an import (`WorkerStep`, `Source`); a write makes a version newer than all |
| `UserEditsAlwaysSurvive` | `UserEditsSurvive` | action property from `VersionsAgree`: a write takes effect only with the stored version, with which the object agrees on `valid` |
| `CreatingAlwaysHasCluster` | `CreatingHasCluster` | strengthened by `IdsStay`: in the later part of a handler its object has an id, ids only go from none to one as versions go up, and the loop that writes the phase runs only when the API server has the id |
| `ForeignClusterAlwaysUntouched` | `ForeignClusterUntouched` | strengthened by `ForeignStays`: whoever holds `Existing` in an object holds it as imported or with an empty phase, which keeps the cluster (`KeepsCluster`), and stays so, since `create` puts no id but a new one into a spec |
| `SurplusClustersAlwaysHaveACause` | `SurplusClustersHaveACause` | `SurplusCounted` (the clusters made so far, but for the one of the stored spec and the one about to be saved, are finitely many and no more than the counted causes) with `TypeOK`, `VersionsAgree`, `IdsStay` and `OwnIds`: a cluster comes to be with its id in `newID`, and each step that lets go of an id, unstored or stored over another, counts a cause |
| `ImportedActiveAlwaysComplete` | `ImportedActiveIsComplete` | strengthened by `AlignedSeen` (an object of the stored version is read from the cloud when the stored one is, although the code writes some of it through the cache's pointer) and `ImportStays`: an import is never `creating`, and at each call of `importCluster` the earlier ones have succeeded for this object |
| `PoolsAlwaysGoBeforeCluster` | `PoolsGoBeforeCluster` | action property from `PoolsGone`: a worker that has come to the virtual pools found no node pool, and one that has come to the cluster no virtual pool, of a cluster that is still there; only the console makes new ones |
| `NodesAlwaysUpgradeAfterControlPlane` | `NodesUpgradeAfterControlPlane` | action property from `IDFixed` (once the phase is written, every version names the same cluster, so the one the worker asks about is the one the stored spec has) and `WorkStays` |
| `AlwaysSettledBeforeActive` | `SettledBeforeActive` | likewise: a worker at a `pc` of `SettledPCs` has found nothing at work, and nothing can begin to be without it: what it begins itself leads to other `pc`s. For the other two writers of active, `WorkStays` says that nothing is at work before a resource has settled once |
| `LifecycleKeepsPromise` | `PromiseKept` | the initial states map to initial states of `ConfigPhases`, and every step to a step of it or a stutter. Strengthened by `InOrder` (versions reach the informer in the order they were stored) and `PhasesForward` (no version the operator holds is of a later phase than the stored one, and a worker that creates a cluster or writes a phase is not late), so that a write of an old object is refused before it could turn a phase back |
| `LifecycleRest` | `RestMeansDone` | from `RestInv`. Whether the worker is done depends on all that the last pass found, and that pass must have been over the stored version: `Latest` says that the last version is in the cache or on its way, and `Followed` what holds while no other pass is asked for (`Calm`): the worker's objects are the stored version's, the steps it has taken found what they had to, each of its writes stores what is stored already, fails or is an event, and a pass that returns without an error returns with all done. A pass that changes something or fails wakes the next one and so ends `Calm`. `OnlyOwn` is needed to know that the cluster whose upgrade is over is the one the spec names |
| `FinalizerAlwaysGuardsCluster` | `FinalizerGuardsCluster` | with the finalizer: `IdsKnown` (every id held is of a cluster that was once there) and `GuardsStay` (only `DropFinalizer` lets go of a resource that is being deleted, and a worker there either keeps the cluster or has seen it going, with an object that still agrees with the stored one when its write takes effect). Without it: `LifecycleRest` says that a resource past creation has its finalizer when the worker is at rest, and `WindowCloses` that without a fault or an edit the lack of it is the end of the pass that wrote the phase |

The last five rest on `LifecycleInvariant`, the invariant of the life as a whole.
The strengthenings are needed because the properties speak of the stored object
and of clusters, while a step depends on what the worker holds; they say what a
worker at each `pc` can hold. They were checked by TLC as invariants before
they were proved.

### The pools

For any number of rows, pools, faults and edits, any set of settings and names,
from `BoundsAssumption`, `PoolsAssumption` (there are ids for the two pools of the
initial states) and each module's `WantsAssumption` (the settings users ask for
are settings, a size lies between its limits, there is a name and room for a row):

| Theorem | Property | Argument |
|---|---|---|
| `NodePoolsTyped` | `TypeOK` | from `PoolsInv` |
| `PoolsPromiseAlwaysKept` | `PoolsPromiseKept` | `NodePools` implements `PoolPromise`: initial states map to initial states, and every step to a step of it or a stutter, from `PoolsInv` |
| `VirtualPoolsTyped` | `TypeOK` | from the invariant `PoolsInv` of the virtual pools |
| `OnePoolPerNameAlways` | `OnePoolPerName` | a conjunct of that invariant |
| `NamedPoolsStayAlways` | `NamedPoolsStay` | action property: a pass deletes what no row of its object has by name, and an object of the stored version has the stored names |
| `NodePoolsRest`, `VirtualPoolsRest` | `RestMeansDone` | from each module's `RestInv`, below |

The promise of `NodePools` is not inductive: whether a listed pool is deleted is
decided from the worker's object and from pools read before, and the object may
be old, or have ids that were put into the cached object and never stored.
`PoolsInv` says what holds instead:

- `OrderInv`, `SharedInv`: versions come to the cache in order, and what the
  worker has it got from the cache, so that while both have one version they have
  the same rows, since they are the same object in the code;
- `KnownInv`: no object a reconcile can start from lacks an id that the stored spec
  has, for the operator is the only one to put ids in, and does so in the cache
  first. So a pool that the worker finds surplus is not listed;
- `NewInv`: an object of the stored version has more ids than the stored one only
  of live pools, so that writing it stores no id of a pool that is going;
- `PhaseInv`, `ImportInv`: an import stores the ids of the pools it reads; no pool is
  being deleted before it is done, and an import that is done does not begin
  again;
- `MadeInv`: ids are given in order, so a new pool never has the id of an old one;
- `LeftInv`: only pools with a row are modified, and none that was deleted in the
  same pass.

The invariant of the virtual pools adds to the property `NamesInv` (no object has a
name twice, and one of the stored version has the stored names, if not the ids)
and `PassInv` (when the loop over the rows has come to a row, each live pool has
the name it was read with, or that of an earlier row). So a row whose name no pool
was read with, and that differs from the rows before it, has a name no live pool
has: what is created or renamed for it stays the only one of its name. What the
request of a diff makes of a pool's name is the lemma `AfterDiff`.

That a worker at rest is done depends on all its pass did before. `RestInv` carries
it along for as long as the pass is the last one, `Calm`: nothing is queued and no
event is on its way. Whatever makes a pass outdated (an edit, a write, the console, an
error, a change it made itself) ends this, and in the next pass it must be
established again. In a calm pass

- the object is the stored version's (`FreshInv` in `NodePools`; `VersionsInv` and
  `SharedInv` in `VirtualPools`, where ids that were put into the cached object and
  not stored are told apart by `AdoptedInv`), so what is done for it is done for the
  stored spec;
- what was read is still so until the pass changes something itself (`Reads`), and
  then the pass does not come to `finish`: a row that was created has an id the stored
  object lacks (`NewID`), so that the write of the ids is a new version and an event,
  and a modification ends in `enqueueUpdate`;
- the rows before the current one have what they ask for (`ServedBefore`; in
  `NodePools` a pool that differs is in `left` until it is modified). A virtual pool
  needs no request also when the cloud answers that it changes nothing: then all that
  a request can carry is there (`Reached`).

`PoolWorkerProofs` has what both share, once: the effect of `Update`,
`UpdateStatus`, a write through the cache's pointer, `recordError`, an event and a
crash on the objects, as lemmas that the proofs cite in place of the definitions.

All the invariants were checked by TLC before they were proved.

### The diff of virtual pools

For every set of names and list elements, and no assumption:

| Theorem | Says | Argument |
|---|---|---|
| `DiffSeesEveryDifference` | the diff of a virtual pool is empty exactly when the cloud has what the row asks for | the lists agree up to order exactly when some bijection of their indices carries one to the other, which is how the code's comparison of sorted lists is defined |
| `OneModificationSettles` | after one modification nothing is left to change, unless the row leaves a list empty that the cloud has elements in | field by field what the request carries arrives (`ListArrives`, `GivenValue`); the name always goes along, so that security groups are not ignored |
| `ClearedListsStay` | such a list stays in the cloud, and differs for ever | an empty list adds nothing to the request |

They are what `VirtualPoolsConverge` and `VirtualPoolsSettle` rest on in a single
pass, for lists of any length; the runs show what passes, edits and faults make
of them.

### Only model-checked

- Liveness: fairness and `ENABLED` are out of the prover's reach.
- `PoolsStayFew`: it says of the values of the bounds in a run that they fit each
  other, and is not true of all values.

## Abstractions and assumptions

- One resource: handlers share nothing between resources but the cloud account.
- Users and Rancher do not change `clusterId` or `imported` of a resource that
  exists. A resource deleted and created again under its name is not followed.
- In `Lifecycle` a spec with any pool list is taken to list virtual node pools
  too, for the one question that depends on it (line 532). `NodePools` has no
  virtual rows, and `VirtualPools` no node pools but a list that is not nil: the
  passes over the two kinds follow each other and share nothing but the phase.
- An import lists the pools in the order of their ids; no property depends on the
  order of rows.
- Labels, taints and tags of a node pool are one field with three values; name,
  operating system and protection of a node pool, which go with the limits in
  one call, are left out.
- The order of a node pool's labels, which the code compares, is taken to come
  back from the cloud as it was sent.
- Names of virtual pools are given and distinct. The cloud answers "nothing is
  updated" exactly when a request would change nothing, and ignores security
  groups that come without a name, as comments in `tke.go` and `parse.go` say.
- A pool's modification shows in its state for a moment.
- `VersionsAgree` leaves out what handlers write through the cache's pointer, the rows
  and whether an import has aligned the spec: there the code really has two different objects of one version.
- What differs between the settings of spec and cloud is a member of the set `drift`
  for each kind of call that mends it. A modification of pools may leave some of it, as
  one of several calls may fail. An edit on the cloud side is noticed only at the next
  event, as in the code. Which pool is modified is not told apart in `Lifecycle`.
- During an upgrade `DescribeClusters` may show the old version or the new one; the
  operator learns of the upgrade from `DescribeClusterStatus`. The cloud refuses
  changes of a cluster that is not running, and a second upgrade to a version that it
  has; the upgrade of nodes it may take or refuse meanwhile.
- `CheckInstancesUpgradeAble` lists the nodes that are behind, those under upgrade
  included.
- `UserEditsSurvive` watches one field that only users change, `valid`. The rows are
  not covered by it: an import replaces those of the version it read, on purpose.
- Consecutive reads whose results are acted on together, and that nothing else is done
  between, are one step in four places of `Lifecycle`: the reads of an import
  (308-321), the list of virtual node pools with the first modification it leads to
  (736-904; `VirtualPools` has them one by one), the list before each deletion of pools
  in the backoff (1330-1449), and the endpoint's status with the calls that follow it at
  once (914-956). Everywhere else a read is a step of
  its own.
- `clusterEndpoint` may be nil in a valid spec, on which line 914 panics; it is taken to
  be given.

## Not modelled, and the plan

To come, in this order:

1. A proof about an exception of the liveness properties that is safety: that a row
   whose size the cloud refuses stays refused until an edit (`SizeRefused`).
2. Two replicas: leader election is off by default (`main.go:42`, whose help text
   says "default true").

Not modelled:

- instances and tasks of a node upgrade one by one (lines 1241-1284): the nodes
  are at the version of the control plane, behind, or under way together;
- when the endpoint may be created (lines 916-958): that the instances it waits
  for are running is a nondeterministic choice in `CheckUpdate`;
- the conversions of `utils/parse.go` but for those above: they copy fields
  between types of two libraries;
- generated code, build and packaging, flags and logging, the contents of
  requests to the cloud (`CreateCluster`'s parameters and the like) that no
  property tells apart, and the clients for machines, disks and networks, which
  the controller does not call.
