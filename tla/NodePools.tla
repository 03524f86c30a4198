------------------------------ MODULE NodePools ------------------------------
(***************************************************************************)
(* The node pools of a cluster, row by row: what an import reads into      *)
(* spec.nodePoolList (importCluster, FixConfig) and how a reconcile makes  *)
(* the cloud's pools follow the rows (updateUpstreamClusterState from the  *)
(* creation of pools to enqueueUpdate).  The rest of a reconcile is in     *)
(* CheckUpdate; here the versions agree, no virtual node pool is listed    *)
(* and the endpoint is there.                                              *)
(*                                                                         *)
(* Line numbers in the comments are those of                               *)
(* src/controller/tke-cluster-config-handler.go.                           *)
(***************************************************************************)
EXTENDS PoolWorker, SequencesExt

CONSTANTS Wants,    \* what users ask of a node pool
          NewWants, \* and of one that is not there yet
          MaxRows   \* bound: rows of the pool list that users write

\* Of what a row says of its pool: the size, the labels, the instance type.
\* Labels stand for labels, taints and tags: none, some of the form key=value,
\* or one without "=".
Labels == {"none", "pair", "bare"}
Settings ==
  {s \in [capacity: Nat, min: Nat, max: Nat, labels: Labels, type: {"small", "large"}] :
     s.min <= s.capacity /\ s.capacity <= s.max}

ASSUME WantsAssumption == /\ MaxRows \in Nat
                          /\ NewWants \subseteq Wants /\ Wants \subseteq Settings

Row == [id: PoolIDs \cup {NoPool}, want: Settings]

PoolStates == {"none", "creating", "normal", "updating", "deleting", "gone"}
Pool == [state: PoolStates, has: Settings]

VARIABLES pools,   \* the pools in the cloud
          read,    \* upstreamSpec.NodePoolList: the pools as this pass read them
          left,    \* pools the current kind of modification has still to be made on
          created, \* updatingForNodePoolId
          skipped  \* history: a pool was left out of the last read

poolVars == <<pools, read, left, created, skipped>>
vars == <<storeVars, faults, edits, workerVars, poolVars>>

PCs == {"idle", "import", "importSave", "importActive", "read", "create", "saveRows",
        "delete", "capacity", "limits", "type", "enqueue", "finish", "record", "end"}

Live == {p \in PoolIDs : pools[p].state \in {"creating", "normal", "updating"}}
There == {p \in PoolIDs : pools[p].state \notin {"none", "gone"}}
Busy == {p \in PoolIDs : pools[p].state \in {"creating", "updating", "deleting"}}

NoSettings == [capacity |-> 0, min |-> 0, max |-> 0, labels |-> "none", type |-> "small"]

-----------------------------------------------------------------------------
(* The cloud, as the client's calls show it.                               *)

\* ParseStringLabels, ParseStringTaints and ParseStringTags drop what has no "=",
\* and a list without elements is not sent: the cloud keeps what it has.
Sent(labels) == labels = "pair"
LabelsAfter(had, labels) == IF Sent(labels) THEN labels ELSE had

\* CreateClusterNodePool: the cloud gives the next id.
NextPool == Cardinality({p \in PoolIDs : pools[p].state # "none"}) + 1
CreateClusterNodePool(want) ==
  /\ NextPool \in PoolIDs
  /\ pools' = [pools EXCEPT ![NextPool] =
                 [state |-> "creating",
                  has |-> [want EXCEPT !.labels = LabelsAfter("none", @)]]]

\* DeleteClusterNodePool.
DeleteNodePool(ids) ==
  pools' = [p \in PoolIDs |-> IF p \in ids \cap There
                              THEN [state |-> "deleting", has |-> NoSettings] ELSE pools[p]]

\* A modification shows in the state of the pool, at least for a moment.
ChangeTo(p, has) == pools' = [pools EXCEPT ![p] = [state |-> "updating", has |-> has]]

Within(n, low, high) == IF n < low THEN low ELSE IF n > high THEN high ELSE n

\* The three modifying calls.  A scaling group refuses a desired capacity outside
\* its limits, and keeps its own within new limits.
Accepts(kind, p, want) ==
  /\ p \in Live
  /\ kind = "capacity" => want.capacity >= pools[p].has.min /\ want.capacity <= pools[p].has.max

Modified(kind, had, want) ==
  CASE kind = "capacity" -> [had EXCEPT !.capacity = want.capacity]
    [] kind = "limits" -> [had EXCEPT !.min = want.min, !.max = want.max,
                                      !.capacity = Within(@, want.min, want.max),
                                      !.labels = LabelsAfter(@, want.labels)]
    [] kind = "type" -> [had EXCEPT !.type = want.type]

\* Work on a pool ends.
PoolProgress(p) ==
  /\ p \in Busy
  /\ pools' = [pools EXCEPT ![p].state = IF @ = "deleting" THEN "gone" ELSE "normal"]
  /\ UNCHANGED <<storeVars, faults, edits, workerVars, read, left, created, skipped>>

-----------------------------------------------------------------------------
(* FixConfig, and the reads before it.                                     *)

\* The pools are read one by one; one whose scaling group or launch configuration
\* cannot be read is left out (lines 1070-1081).
ReadPools ==
  \E out \in SUBSET There :
    /\ \/ out = {} /\ UNCHANGED faults
       \/ Cardinality(out) = 1 /\ CallFails
    /\ read' = [p \in There \ out |-> pools[p].has]
    /\ skipped' = (out # {})

\* DescribeClusterNodePools and the reads before it fail: nil is returned.
ReadFails ==
  /\ pc = "read" /\ CallFails
  /\ Return(Empty, "cloud")
  /\ UNCHANGED <<storeVars, edits, poolVars>>

Await ==
  /\ Busy # {}
  /\ AwaitPools
  /\ UNCHANGED poolVars

\* Without rows nothing upstream is looked at (lines 633-638).
Read ==
  /\ pc = "read" /\ Busy = {}
  /\ ReadPools
  /\ created' = FALSE
  /\ Continue(IF cfg.rows = <<>> THEN "finish" ELSE "create")
  /\ UNCHANGED <<storeVars, edits, pools, left>>

\* importCluster: the rows become what was read, through the cache's pointer.
\* Lifecycle has its further steps, the secret and the failures of its reads.
Import ==
  /\ pc = "import"
  /\ ReadPools
  /\ \E ids \in [1..Cardinality(DOMAIN read') -> DOMAIN read'] :
       /\ \A i, j \in DOMAIN ids : i < j => ids[i] < ids[j]
       /\ WriteInPlace([cfg EXCEPT !.rows = [i \in DOMAIN ids |->
                                               [id |-> ids[i], want |-> read'[ids[i]]]]])
  /\ pc' = "importSave"
  /\ UNCHANGED <<api, watch, queued, edits, err, pools, left, created>>

ImportSave ==
  /\ pc = "importSave"
  /\ \E res \in WriteResults :
       /\ Update(cfg, res)
       /\ IF res = "ok" THEN pc' = "importActive" /\ cfg' = api' /\ UNCHANGED err
                        ELSE Return(cfg, "store")
  /\ UNCHANGED <<cache, queued, edits, poolVars>>

ImportActive ==
  /\ pc = "importActive"
  /\ ReturnUpdateStatus([cfg EXCEPT !.phase = "active"])
  /\ UNCHANGED <<cache, queued, edits, poolVars>>

-----------------------------------------------------------------------------
(* updateUpstreamClusterState, lines 640-730.                              *)

Missing == {i \in DOMAIN cfg.rows : cfg.rows[i].id = NoPool}

\* Fault: an id lives in a copy of the row only, as with "for _, np := range".
CreateRowInCopy ==
  /\ pc = "create" /\ Missing # {}
  /\ CreateClusterNodePool(cfg.rows[Min(Missing)].want)
  /\ created' = TRUE
  /\ Continue("saveRows")
  /\ UNCHANGED <<storeVars, faults, edits, read, left, skipped>>

\* Fault: a creation that fails is no error of the pass.
CreateRowSwallows ==
  /\ pc = "create" /\ Missing # {}
  /\ LET i == Min(Missing) IN
     \/ /\ CreateClusterNodePool(cfg.rows[i].want)
        /\ WriteInPlace([cfg EXCEPT !.rows[i].id = NextPool])
        /\ created' = TRUE
        /\ UNCHANGED <<pc, err, faults>>
     \/ /\ CallFails
        /\ Return(cfg, "none")
        /\ CreateClusterNodePool(cfg.rows[i].want) \/ UNCHANGED pools
        /\ UNCHANGED <<cache, created>>
  /\ UNCHANGED <<api, watch, queued, edits, read, left, skipped>>

\* The next row without id: its pool is created and the id put into the row,
\* or the call fails, after the pool was created or before, and the ids of
\* the rows before it are saved nowhere.
CreateRow ==
  /\ pc = "create" /\ Missing # {}
  /\ LET i == Min(Missing) IN
     \/ /\ CreateClusterNodePool(cfg.rows[i].want)
        /\ WriteInPlace([cfg EXCEPT !.rows[i].id = NextPool])
        /\ created' = TRUE
        /\ UNCHANGED <<pc, err, faults>>
     \/ /\ CallFails
        /\ Return(cfg, "cloud")
        /\ CreateClusterNodePool(cfg.rows[i].want) \/ UNCHANGED pools
        /\ UNCHANGED <<cache, created>>
  /\ UNCHANGED <<api, watch, queued, edits, read, left, skipped>>

RowsComplete ==
  /\ pc = "create" /\ Missing = {}
  /\ Continue(IF created THEN "saveRows" ELSE "delete")
  /\ UNCHANGED <<storeVars, faults, edits, poolVars>>

\* The ids are written, and the pass ends; the phase set beside them is
\* of the status, which Update leaves alone.
SaveRows ==
  /\ pc = "saveRows"
  /\ \E res \in WriteResults :
       /\ Update(cfg, res)
       /\ IF res = "ok" THEN Return(api', "none") ELSE Return(Empty, "store")
  /\ UNCHANGED <<cache, queued, edits, poolVars>>

\* Fault: as many pools stay as there are rows.
SurplusByCount == {p \in DOMAIN read : p > Len(cfg.rows)}

\* Pools no row has, and rows with another value than was read; a size that is above
\* the maximum read is left for the next pass.
Surplus == DOMAIN read \ Listed(cfg.rows)
WantOf(rows, p) == rows[CHOOSE i \in DOMAIN rows : rows[i].id = p].want

\* Fault: a size above the maximum the pool has now is asked for at once.
DiffersUnbounded(kind, want, has) ==
  CASE kind = "capacity" -> want.capacity # has.capacity
    [] kind = "limits" -> <<want.min, want.max, want.labels>> # <<has.min, has.max, has.labels>>
    [] kind = "type" -> want.type # has.type

Differs(kind, want, has) ==
  CASE kind = "capacity" -> want.capacity # has.capacity /\ want.capacity <= has.max
    [] kind = "limits" -> <<want.min, want.max, want.labels>> # <<has.min, has.max, has.labels>>
    [] kind = "type" -> want.type # has.type
ToModify(kind) ==
  {p \in DOMAIN read \cap Listed(cfg.rows) : Differs(kind, WantOf(cfg.rows, p), read[p])}

\* Fault: every row is modified, whether its pool was read or not.
DeleteSurplusModifyAll ==
  /\ pc = "delete"
  /\ DeleteNodePool(Surplus)
  /\ Continue("capacity") /\ left' = Listed(cfg.rows)
  /\ UNCHANGED <<storeVars, faults, edits, read, created, skipped>>

\* One call deletes the surplus pools.
DeleteSurplus ==
  /\ pc = "delete"
  /\ \/ /\ DeleteNodePool(Surplus) /\ UNCHANGED faults
        /\ Continue("capacity") /\ left' = ToModify("capacity")
     \/ /\ Surplus # {} /\ CallFails
        /\ Return(cfg, "cloud")
        /\ DeleteNodePool(Surplus) \/ UNCHANGED pools
        /\ UNCHANGED left
  /\ UNCHANGED <<storeVars, edits, read, created, skipped>>

\* Then one call per pool and kind, capacity first; the first that fails ends the pass.
Kinds == {"capacity", "limits", "type"}
Modify ==
  /\ pc \in Kinds
  /\ \E p \in left :
       LET want == WantOf(cfg.rows, p) IN
       \/ /\ Accepts(pc, p, want) /\ ChangeTo(p, Modified(pc, pools[p].has, want))
          /\ left' = left \ {p}
          /\ UNCHANGED <<workerVars, faults>>
       \/ /\ ~Accepts(pc, p, want) /\ Return(cfg, "cloud")
          /\ UNCHANGED <<pools, left, faults>>
       \/ /\ CallFails /\ Return(cfg, "cloud")
          /\ \/ UNCHANGED pools
             \/ Accepts(pc, p, want) /\ ChangeTo(p, Modified(pc, pools[p].has, want))
          /\ UNCHANGED left
  /\ UNCHANGED <<storeVars, edits, read, created, skipped>>

Modifying == Surplus # {} \/ \E kind \in Kinds : ToModify(kind) # {}

NextKind ==
  /\ pc \in Kinds /\ left = {}
  /\ \/ pc = "capacity" /\ Continue("limits") /\ left' = ToModify("limits")
     \/ pc = "limits" /\ Continue("type") /\ left' = ToModify("type")
     \/ /\ pc = "type" /\ left' = {}
        /\ Continue(IF Modifying THEN "enqueue" ELSE "finish")
  /\ UNCHANGED <<storeVars, faults, edits, pools, read, created, skipped>>

-----------------------------------------------------------------------------
\* The locals of a reconcile that returned.
Forget ==
  /\ read' = <<>> /\ left' = {} /\ created' = FALSE
  /\ UNCHANGED <<pools, skipped>>

Worker ==
  \/ Import \/ ImportSave \/ ImportActive
  \/ ReadFails \/ Await \/ Read
  \/ CreateRow \/ RowsComplete \/ SaveRows \/ DeleteSurplus \/ Modify \/ NextKind
  \/ (Begin \/ EnqueueUpdate \/ Finish \/ End) /\ UNCHANGED poolVars
  \/ RecordError /\ Forget

Informer == Deliver /\ UNCHANGED <<workerVars, poolVars>>

Restart == Crash /\ Forget

\* Users change a row, take one out or append one, and keep the ids.
Changed(rows) == {[rows EXCEPT ![i].want = w] : i \in DOMAIN rows, w \in Wants}
Reduced(rows) == {RemoveAt(rows, i) : i \in DOMAIN rows}
Extended(rows) ==
  IF Len(rows) < MaxRows THEN {Append(rows, [id |-> NoPool, want |-> w]) : w \in NewWants} ELSE {}
UserEdit ==
  /\ edits > 0 /\ edits' = edits - 1
  /\ \E rows \in Changed(api.rows) \cup Reduced(api.rows) \cup Extended(api.rows) :
       rows # api.rows /\ Publish([api EXCEPT !.rows = rows])
  /\ UNCHANGED <<cache, queued, faults, workerVars, poolVars>>

\* Pools 1 and 2 are there, made by an earlier reconcile or by hand.
PoolsInit ==
  \E has \in NewWants :
    pools = [p \in PoolIDs |-> IF p \in 1..2 THEN [state |-> "normal", has |-> has]
                               ELSE [state |-> "none", has |-> NoSettings]]

LocalsInit ==
  /\ WorkerInit
  /\ read = <<>> /\ left = {} /\ created = FALSE /\ skipped = FALSE

\* A cluster whose import was just asked for.
ImportInit == PoolsInit /\ api = Stored(<<>>, "importing") /\ LocalsInit

\* Or one in use: pool 1 is listed, as it is or not, and users may have added a row;
\* pool 2 is not listed.
UseInit ==
  /\ PoolsInit
  /\ \/ \E w \in Wants : api = Stored(<<[id |-> 1, want |-> w]>>, "active")
     \/ \E w \in NewWants :
          api = Stored(<<[id |-> 1, want |-> w], [id |-> NoPool, want |-> w]>>, "active")
  /\ LocalsInit

Init == UseInit \/ ImportInit

Next == Worker \/ Informer \/ Restart \/ UserEdit \/ \E p \in PoolIDs : PoolProgress(p)

Spec == Init /\ [][Next]_vars

\* The worker takes its next step, the informer its next event, and work on some
\* pool ends; the reconcile begins no other while it waits for the rest.
Fairness ==
  /\ WF_vars(Worker) /\ WF_vars(Informer)
  /\ WF_vars(\E p \in PoolIDs : PoolProgress(p))
FairSpec == Spec /\ Fairness

ImportSpec == ImportInit /\ [][Next]_vars

-----------------------------------------------------------------------------
(* What must hold.                                                         *)

\* Types; only pools that were read are modified.
TypeOK ==
  /\ WorkerTypeOK(Row) /\ pc \in PCs
  /\ pools \in [PoolIDs -> Pool]
  /\ DOMAIN read \subseteq PoolIDs /\ \A p \in DOMAIN read : read[p] \in Settings
  /\ left \subseteq DOMAIN read
  /\ created \in BOOLEAN /\ skipped \in BOOLEAN

\* Lost answers, crashes and edits cost a bounded number of pools: rows are not
\* provided with pools over and over (lines 646-665).  So MaxPools is large
\* enough, and no creation finds the cloud full.
PoolsStayFew == NextPool \in PoolIDs

\* The stored rows and the pools keep the promise of PoolPromise, over lost
\* ids, crashes, edits and reconciles from an old object: a pool the stored
\* spec lists is never deleted, no id is stored of a pool that is going or
\* gone, and no pool comes back.
Promise == INSTANCE PoolPromise WITH
             listed <- Listed(api.rows), live <- Live,
             made <- {p \in PoolIDs : pools[p].state # "none"}
PoolsPromiseKept == Promise!Spec

\* The last three are about the object the operator works with, the cache's: the
\* stored one may never get an id that was put into the cached object when
\* the write of the ids failed (line 664), and no later write stores it.

\* The cloud refuses a size below the minimum it has now, and the reconcile, which
\* sets the size first (line 702), never gets to lower the minimum.
Refused(row) == row.id \in Live /\ row.want.capacity < pools[row.id].has.min
SizeRefused == \E i \in DOMAIN cache.rows : Refused(cache.rows[i])

\* A worker that rests is done (lines 640-730, enqueueUpdate at 1287): no wakeup is lost,
\* and a pass that ends without another to come has seen the last spec and left
\* nothing to do.  Every row has its pool, every pool is as a row asks; unless
\* the list is empty or a pool was skipped by the last read.
Done ==
  \/ skipped \/ cache.rows = <<>>
  \/ /\ Live = Listed(cache.rows)
     /\ \A p \in Live : \E i \in DOMAIN cache.rows :
          cache.rows[i] = [id |-> p, want |-> pools[p].has]
RestMeansDone ==
  AtRest => /\ api.phase = "active" /\ Busy = {}
            /\ \A i \in DOMAIN cache.rows : cache.rows[i].id # NoPool
            /\ Done

\* Pools no row has, pools whose id was lost, and pools in the cloud by hand are
\* deleted, and rows get their pools, however often the reconcile is
\* interrupted; unless the list is empty (line 633) or a pool was skipped by
\* the last read, after which nobody looks again.
SurplusPoolsGo ==
  <>[](\/ cache.rows = <<>> \/ skipped
       \/ Live = Listed(cache.rows) /\ \A i \in DOMAIN cache.rows : cache.rows[i].id # NoPool)

\* What users ask of a pool reaches it, also when a new maximum must come before
\* a new size (line 674): all but labels that cannot be sent (Sent), and
\* unless a size is refused or a pool was skipped.
SettingsArrive ==
  <>[](\/ skipped \/ SizeRefused
       \/ \A i \in DOMAIN cache.rows :
            LET row == cache.rows[i] IN
            row.id \in Live =>
              pools[row.id].has = [row.want EXCEPT
                !.labels = IF Sent(@) THEN @ ELSE pools[row.id].has.labels])

\* The reconcile comes to rest: the phase is active for good in the end, there is
\* no loop of updates, unless a size is refused or labels that cannot be
\* sent differ for ever.
Unsendable(row) ==
  row.id \in Live /\ ~Sent(row.want.labels) /\ row.want.labels # pools[row.id].has.labels
NodePoolsSettle ==
  <>[](\/ api.phase = "active" \/ SizeRefused
       \/ \E i \in DOMAIN cache.rows : Unsendable(cache.rows[i]))

\* "FixConfig aligns configSpec with the DescribeCluster cluster object and node
\* pools" (line 1021): an import that nobody edits leaves the pools alone.
ImportedPoolsStay == [][Live \subseteq Live']_vars
=============================================================================
