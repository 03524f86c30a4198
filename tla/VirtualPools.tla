---------------------------- MODULE VirtualPools ----------------------------
(***************************************************************************)
(* The virtual node pools of a cluster, row by row: how a reconcile makes  *)
(* the cloud's follow spec.virtualNodePoolList (lines 732-910 of           *)
(* updateUpstreamClusterState, and the wait of checkAndUpdate before it).  *)
(* Node pools are NodePools' part; here they are as wanted, their list is  *)
(* not nil, the versions agree and the endpoint is there.                  *)
(*                                                                         *)
(* Line numbers in the comments are those of                               *)
(* src/controller/tke-cluster-config-handler.go.                           *)
(***************************************************************************)
EXTENDS PoolWorker, VirtualPoolDiff, SequencesExt

CONSTANTS Wants,  \* what users ask of a pool; its name is the row's
          MaxRows \* bound: rows users write

ASSUME WantsAssumption ==
  /\ MaxRows \in Nat \ {0} /\ NoName \notin Names /\ Names # {}
  /\ Wants \subseteq [sgs: Seq(Elements), labels: Seq(Elements), taints: Seq(Elements),
                      protection: Optional(BOOLEAN)]

Row == [id: PoolIDs \cup {NoPool}, name: Names, want: Wants]

\* The row as a VirtualNodePoolDetail.
Desired(row) ==
  [name |-> row.name, sgs |-> row.want.sgs, labels |-> row.want.labels,
   taints |-> row.want.taints, protection |-> row.want.protection]

PoolStates == {"none", "creating", "normal", "updating", "deleting", "gone"}
Pool == [state: PoolStates, has: Detail]

VARIABLES pools,   \* the virtual node pools in the cloud
          read,    \* upstreamList: the pools as this pass read them
          index,   \* the row the current loop has come to
          created, \* createdAny
          applied  \* updatingVirtualNodePools

poolVars == <<pools, read, index, created, applied>>
vars == <<storeVars, faults, edits, workerVars, poolVars>>

PCs == {"idle", "read", "delete", "create", "saveRows", "modify", "enqueue", "finish",
        "record", "end"}

LiveIn(ps) == {p \in DOMAIN ps : ps[p].state \in {"creating", "normal", "updating"}}
Live == LiveIn(pools)
There == {p \in PoolIDs : pools[p].state \notin {"none", "gone"}}
Busy == {p \in PoolIDs : pools[p].state \in {"creating", "updating", "deleting"}}

NamesOf(rows) == {rows[i].name : i \in DOMAIN rows}

-----------------------------------------------------------------------------
(* The cloud, as the client's calls show it.                               *)

NoDetail == [name |-> NoName, sgs |-> <<>>, labels |-> <<>>, taints |-> <<>>,
             protection |-> {FALSE}]

NextPool == Cardinality({p \in PoolIDs : pools[p].state # "none"}) + 1

\* CreateClusterVirtualNodePool: the cloud gives the next id; what is left open
\* is not protected.
AsAsked(row) == [Desired(row) EXCEPT !.protection = IF @ = {} THEN {FALSE} ELSE @]
CreateVirtualPool(row) ==
  /\ NextPool \in PoolIDs
  /\ pools' = [pools EXCEPT ![NextPool] = [state |-> "creating", has |-> AsAsked(row)]]

DeleteVirtualPools(ids) ==
  pools' = [p \in PoolIDs |-> IF p \in ids THEN [state |-> "deleting", has |-> NoDetail]
                                           ELSE pools[p]]

\* ModifyClusterVirtualNodePool, when it changes anything.
ModifyVirtualPool(p, fields) ==
  pools' = [pools EXCEPT ![p] = IF Applied(@.has, fields)
                                THEN [state |-> "updating", has |-> After(@.has, fields)] ELSE @]

PoolProgress(p) ==
  /\ p \in Busy
  /\ pools' = [pools EXCEPT ![p].state = IF @ = "deleting" THEN "gone" ELSE "normal"]
  /\ UNCHANGED <<storeVars, faults, edits, workerVars, read, index, created, applied>>

-----------------------------------------------------------------------------
ReadFails ==
  /\ pc = "read" /\ CallFails
  /\ Return(cfg, "cloud")
  /\ UNCHANGED <<storeVars, edits, poolVars>>

\* Only a spec with rows waits for pools at work (line 532).
Await ==
  /\ cfg.rows # <<>> /\ Busy # {}
  /\ AwaitPools
  /\ UNCHANGED poolVars

Read ==
  /\ pc = "read"
  /\ cfg.rows = <<>> \/ Busy = {}
  /\ read' = [p \in There |-> pools[p]]
  /\ Continue("delete")
  /\ UNCHANGED <<storeVars, faults, edits, pools, index, created, applied>>

\* Fault: rows are known by their id alone.
UnlistedByID == LiveIn(read) \ Listed(cfg.rows)

\* A pool is listed when a row has its id or its name (lines 764-773).
Unlisted == {p \in LiveIn(read) : p \notin Listed(cfg.rows)
                                  /\ read[p].has.name \notin NamesOf(cfg.rows)}

\* One call deletes them, and the pass ends; the cloud refuses when one of them
\* is protected.
DeleteUnlisted ==
  /\ pc = "delete" /\ Unlisted # {}
  /\ LET protected == \E p \in Unlisted : pools[p].has.protection = {TRUE} IN
     \/ /\ ~protected /\ UNCHANGED faults
        /\ DeleteVirtualPools(Unlisted) /\ Continue("enqueue")
     \/ /\ protected /\ UNCHANGED <<faults, pools>> /\ Return(cfg, "cloud")
     \/ /\ CallFails /\ Return(cfg, "cloud")
        /\ UNCHANGED pools \/ (~protected /\ DeleteVirtualPools(Unlisted))
  /\ UNCHANGED <<storeVars, edits, read, index, created, applied>>

\* Fault: the loop begins before the first row.
NoneUnlistedFromZero ==
  /\ pc = "delete" /\ Unlisted = {}
  /\ index' = 0
  /\ Continue(IF cfg.rows = <<>> THEN "finish" ELSE "create")
  /\ UNCHANGED <<storeVars, faults, edits, pools, read, created, applied>>

NoneUnlisted ==
  /\ pc = "delete" /\ Unlisted = {}
  /\ index' = 1
  /\ Continue(IF cfg.rows = <<>> THEN "finish" ELSE "create")
  /\ UNCHANGED <<storeVars, faults, edits, pools, read, created, applied>>

\* The loop that creates, and the one that modifies.
AtRow(loop) == pc = loop /\ index \in DOMAIN cfg.rows
row == cfg.rows[index]

\* The pool of the row: by name, else by id.
ByName == {p \in DOMAIN read : read[p].has.name = row.name}
Existing == IF ByName # {} THEN ByName ELSE {row.id} \cap DOMAIN read

\* A row takes the id of its pool, for this object only (line 817).
Adopt(p) == WriteInPlace([cfg EXCEPT !.rows[index].id = p])

NextRow == index' = index + 1 /\ UNCHANGED <<pc, err>>

AdoptRow ==
  /\ AtRow("create") /\ Existing # {}
  /\ \E p \in Existing : Adopt(p)
  /\ NextRow
  /\ UNCHANGED <<api, watch, queued, faults, edits, pools, read, created, applied>>

\* An id that is not upstream: nothing is created (line 828).
SkipStaleRow ==
  /\ AtRow("create") /\ Existing = {} /\ row.id # NoPool
  /\ NextRow
  /\ UNCHANGED <<storeVars, faults, edits, cfg, pools, read, created, applied>>

\* Fault: what exists under the name is not looked for.
CreateRowAnyway ==
  /\ AtRow("create") /\ row.id = NoPool
  /\ CreateVirtualPool(row) /\ Adopt(NextPool)
  /\ created' = TRUE
  /\ NextRow
  /\ UNCHANGED <<api, watch, queued, faults, edits, read, applied>>

CreateRow ==
  /\ AtRow("create") /\ Existing = {} /\ row.id = NoPool
  /\ \/ /\ CreateVirtualPool(row) /\ Adopt(NextPool)
        /\ created' = TRUE
        /\ NextRow
        /\ UNCHANGED faults
     \/ /\ CallFails /\ Return(cfg, "cloud")
        /\ CreateVirtualPool(row) \/ UNCHANGED pools
        /\ UNCHANGED <<cache, created, index>>
  /\ UNCHANGED <<api, watch, queued, edits, read, applied>>

CreateDone ==
  /\ pc = "create" /\ ~AtRow("create")
  /\ index' = 1
  /\ Continue(IF created THEN "saveRows" ELSE "modify")
  /\ UNCHANGED <<storeVars, faults, edits, pools, read, created, applied>>

\* Rows without id get one by their name, in the object the cache has by now.
Filled(rows) ==
  [i \in DOMAIN rows |->
     LET ids == {cfg.rows[j].id : j \in {j \in DOMAIN cfg.rows : cfg.rows[j].name = rows[i].name}}
                \ {NoPool}
     IN IF rows[i].id = NoPool /\ ids # {} THEN [rows[i] EXCEPT !.id = CHOOSE p \in ids : TRUE]
        ELSE rows[i]]

\* RetryOnConflict around the Update: after a conflict it tries again or gives up.
SaveRows ==
  /\ pc = "saveRows"
  /\ \E res \in WriteResults :
       /\ Update([cache EXCEPT !.rows = Filled(@)], res)
       /\ \/ res = "ok" /\ Return(api', "none")
          \/ res = "conflict" /\ Continue("saveRows")
          \/ res # "ok" /\ Return(cfg, "store")
  /\ UNCHANGED <<cache, queued, edits, poolVars>>

Unmodified == \A p \in Existing : Diff(Desired(row), read[p].has) = NoChange

\* Rows without a pool or without a difference.
KeepRow ==
  /\ AtRow("modify") /\ Unmodified
  /\ \/ Existing = {} /\ UNCHANGED <<cfg, cache>>
     \/ \E p \in Existing : Adopt(p)
  /\ NextRow
  /\ UNCHANGED <<api, watch, queued, faults, edits, pools, read, created, applied>>

\* Fault: an answer "nothing is updated" is taken for a change.
ModifyRowCounts ==
  /\ AtRow("modify") /\ ~Unmodified
  /\ \E p \in Existing :
       ModifyVirtualPool(p, Diff(Desired(row), read[p].has)) /\ Adopt(p)
  /\ applied' = TRUE
  /\ NextRow
  /\ UNCHANGED <<api, watch, queued, faults, edits, read, created>>

ModifyRow ==
  /\ AtRow("modify") /\ ~Unmodified
  /\ \/ /\ \E p \in Existing :
             LET fields == Diff(Desired(row), read[p].has) IN
             /\ ModifyVirtualPool(p, fields) /\ Adopt(p)
             /\ applied' = (applied \/ Applied(pools[p].has, fields))
        /\ NextRow
        /\ UNCHANGED faults
     \/ /\ CallFails /\ Return(cfg, "cloud")
        /\ \/ UNCHANGED pools
           \/ \E p \in Existing : ModifyVirtualPool(p, Diff(Desired(row), read[p].has))
        /\ UNCHANGED <<cache, applied, index>>
  /\ UNCHANGED <<api, watch, queued, edits, read, created>>

ModifyDone ==
  /\ pc = "modify" /\ ~AtRow("modify")
  /\ Continue(IF applied THEN "enqueue" ELSE "finish")
  /\ UNCHANGED <<storeVars, faults, edits, poolVars>>

-----------------------------------------------------------------------------
\* The locals of a reconcile that returned.
Forget ==
  /\ read' = <<>> /\ index' = 1 /\ created' = FALSE /\ applied' = FALSE
  /\ UNCHANGED pools

Worker ==
  \/ ReadFails \/ Await \/ Read
  \/ DeleteUnlisted \/ NoneUnlisted
  \/ AdoptRow \/ SkipStaleRow \/ CreateRow \/ CreateDone \/ SaveRows
  \/ KeepRow \/ ModifyRow \/ ModifyDone
  \/ (Begin \/ EnqueueUpdate \/ Finish \/ End) /\ UNCHANGED poolVars
  \/ RecordError /\ Forget

Informer == Deliver /\ UNCHANGED <<workerVars, poolVars>>

Restart == Crash /\ Forget

\* Users change, rename, take out or append a row.  Rancher may bring back rows
\* without their ids (line 818) and the list as nil (line 926).
Changes(rows) == {[rows EXCEPT ![i].want = w] : i \in DOMAIN rows, w \in Wants}
Renamed(rows) == {[rows EXCEPT ![i].name = n] : i \in DOMAIN rows, n \in Names \ NamesOf(rows)}
Reduced(rows) == {Tail(rows), Front(rows)}
Extended(rows) ==
  {Append(rows, [id |-> NoPool, name |-> n, want |-> w]) : n \in Names \ NamesOf(rows), w \in Wants}
Blanked(rows) == [i \in DOMAIN rows |-> [rows[i] EXCEPT !.id = NoPool]]

Edited(rows) ==
  {<<>>, Blanked(rows)} \cup Changes(rows) \cup Renamed(rows)
    \cup (IF rows # <<>> THEN Reduced(rows) ELSE {})
    \cup (IF Len(rows) < MaxRows THEN Extended(rows) ELSE {})

UserEdit ==
  /\ edits > 0 /\ edits' = edits - 1
  /\ \E rows \in Edited(api.rows) : rows # api.rows /\ Publish([api EXCEPT !.rows = rows])
  /\ UNCHANGED <<cache, queued, faults, workerVars, poolVars>>

\* One or two rows are there with their pools, or the pool of the one was deleted by
\* hand and the row is left; one name is as good as another.
FirstName == CHOOSE n \in Names : TRUE
RowOf(p, n, w) == [id |-> p, name |-> n, want |-> w]
Starts ==
  {<<RowOf(1, FirstName, w)>> : w \in Wants} \cup
  (IF MaxRows = 1 THEN {}
   ELSE {<<RowOf(1, FirstName, w), RowOf(2, n, w)>> : n \in Names \ {FirstName}, w \in Wants})

Init ==
  /\ \E rows \in Starts, state \in {"normal", "gone"} :
       /\ state = "gone" => Len(rows) = 1
       /\ pools = [p \in PoolIDs |->
            IF p \in DOMAIN rows
            THEN [state |-> state, has |-> IF state = "gone" THEN NoDetail ELSE AsAsked(rows[p])]
            ELSE [state |-> "none", has |-> NoDetail]]
       /\ api = Stored(rows, "active")
  /\ WorkerInit
  /\ read = <<>> /\ index = 1 /\ created = FALSE /\ applied = FALSE

Next == Worker \/ Informer \/ Restart \/ UserEdit \/ \E p \in PoolIDs : PoolProgress(p)

Spec == Init /\ [][Next]_vars

\* The worker takes its next step, the informer its next event, and work on some
\* pool ends.
Fairness ==
  /\ WF_vars(Worker) /\ WF_vars(Informer)
  /\ WF_vars(\E p \in PoolIDs : PoolProgress(p))
FairSpec == Spec /\ Fairness

-----------------------------------------------------------------------------
(* What must hold.                                                         *)

TypeOK ==
  /\ WorkerTypeOK(Row) /\ pc \in PCs
  /\ pools \in [PoolIDs -> Pool]
  /\ DOMAIN read \subseteq PoolIDs /\ \A p \in DOMAIN read : read[p] \in Pool
  /\ index \in 1..MaxRows + 1
  /\ created \in BOOLEAN /\ applied \in BOOLEAN

\* Lost answers, crashes, edits and ids that Rancher blanked cost a bounded number of
\* pools (lines 795-868).  So MaxPools is large enough, and no creation finds
\* the cloud full.
PoolsStayFew == NextPool \in PoolIDs

\* A creation whose answer is lost, a restart, or ids that Rancher blanked never
\* make a second pool of the same name: the reconcile finds pools by name.
OnePoolPerName ==
  \A p, q \in Live : pools[p].has.name = pools[q].has.name => p = q

\* A pool whose name the stored spec has is deleted only by a pass that began with
\* an older version of it, also when ids were lost or blanked (line 768).
NamedPoolsStay ==
  [][\A p \in Live \ LiveIn(pools') :
       pools[p].has.name \in NamesOf(api.rows) => cfg.rv < api.rv]_vars

\* The four cases in which the cloud does not follow the rows.  A row with an id
\* that is gone and a name that is not there gets no pool (line 828); two
\* rows that took the id of one pool rename it to and fro; a pool that is
\* protected is not deleted; and one that a row has by its id is not either
\* (line 767), though the row took another pool, by its name (line 813).
StaleRow(r) ==
  r.id \notin Live \cup {NoPool} /\ \A p \in Live : pools[p].has.name # r.name
Stale == \E i \in DOMAIN cache.rows : StaleRow(cache.rows[i])
SharedID == \E i, j \in DOMAIN cache.rows :
  i # j /\ cache.rows[i].id = cache.rows[j].id /\ cache.rows[i].id # NoPool
ProtectedUnlisted == \E p \in Live :
  pools[p].has.protection = {TRUE} /\ pools[p].has.name \notin NamesOf(cache.rows)
Wanted(p) == pools[p].has.name \in NamesOf(api.rows)
Displaced == \E p \in Live : p \in Listed(api.rows) /\ ~Wanted(p)

\* In the end the cloud has one pool for each row and no other, and each has what its
\* row asks for, the lists a row leaves empty excepted: they are not sent.
Reached(d, u) ==
  /\ d.sgs = <<>> \/ SameElements(d.sgs, u.sgs)
  /\ d.labels = <<>> \/ SameElements(d.labels, u.labels)
  /\ d.taints = <<>> \/ SameElements(d.taints, u.taints)
  /\ d.protection \in {{}, u.protection}
Follows(rows) ==
  /\ {pools[p].has.name : p \in Live} = NamesOf(rows)
  /\ \A i \in DOMAIN rows, p \in Live :
       pools[p].has.name = rows[i].name => Reached(Desired(rows[i]), pools[p].has)
VirtualPoolsConverge ==
  <>[](Follows(cache.rows) \/ Stale \/ SharedID \/ ProtectedUnlisted \/ Displaced)

\* A worker that rests is done (lines 732-910): every row has its pool, as it asks for,
\* and knows its id, or is stale; and every pool has its row, or is displaced.
Provided(r) ==
  r.id \in Live /\ pools[r.id].has.name = r.name /\ Reached(Desired(r), pools[r.id].has)
RestMeansDone ==
  AtRest => /\ api.phase = "active"
            /\ \A i \in DOMAIN cache.rows : Provided(cache.rows[i]) \/ StaleRow(cache.rows[i])
            /\ \A p \in Live : Wanted(p) \/ p \in Listed(api.rows)

\* The reconcile comes to rest in phase active: adopting pools, or asking for what the
\* cloud takes for no change, is no endless loop.
VirtualPoolsSettle == <>[](api.phase = "active" \/ SharedID \/ ProtectedUnlisted)

\* "create what config wants but upstream doesn't have, modify what differs, delete
\* what upstream has but config doesn't want" (line 734).  Rows are renamed into one
\* another, and it goes on for ever.
VirtualPoolsFollow == <>[](Follows(api.rows) \/ Stale \/ ProtectedUnlisted \/ Displaced)
=============================================================================
