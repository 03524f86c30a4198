----------------------------- MODULE PoolWorker -----------------------------
(***************************************************************************)
(* The worker of the controller around the two reconciles of pools, those  *)
(* of NodePools and VirtualPools: it takes the key, works with the object  *)
(* of the informer cache, returns to recordError and is requeued after an  *)
(* error.  Handler has the same for the whole life of a resource; here the *)
(* cluster is there and running, and the spec has its pools row by row.    *)
(***************************************************************************)
EXTENDS ObjectStore, FiniteSets

CONSTANT MaxPools \* bound: pools the cloud can create in a behaviour

\* The pools there are in the beginning are among them.
ASSUME PoolsAssumption == MaxPools \in Nat /\ MaxPools >= 2

\* Pools have the numbers of their creation as ids.
PoolIDs == 1..MaxPools
NoPool == 0 \* nodePoolId when it is the empty string

VARIABLES pc,  \* the next call of the worker
          cfg, \* the handler's variable config
          err  \* the error to return

workerVars == <<pc, cfg, err>>

Phases == {"importing", "active", "updating"}
Messages == {"none", "cloud", "store"}

\* The object of a failed Update.  rows: the pool list of the spec; a list
\* without rows is nil, since the field is omitted when empty.
Empty == [there |-> FALSE, rv |-> 0, deleting |-> FALSE, finalizer |-> FALSE,
          rows |-> <<>>, phase |-> "active", msg |-> "none"]
Stored(rows, phase) == [Empty EXCEPT !.there = TRUE, !.rv = 1, !.finalizer = TRUE,
                                     !.rows = rows, !.phase = phase]

Objects(Row) == [there: BOOLEAN, rv: Nat, deleting: BOOLEAN, finalizer: BOOLEAN,
                 rows: Seq(Row), phase: Phases, msg: Messages]

WorkerTypeOK(Row) ==
  /\ api \in Objects(Row) /\ cache \in Objects(Row) /\ cfg \in Objects(Row)
  /\ watch \in Seq(Objects(Row)) /\ queued \in BOOLEAN
  /\ faults \in 0..MaxFaults /\ edits \in 0..MaxEdits
  /\ err \in Messages

Listed(rows) == {rows[i].id : i \in DOMAIN rows} \ {NoPool}

WorkerInit ==
  /\ cache = api /\ watch = <<>> /\ queued = TRUE
  /\ faults = MaxFaults /\ edits = MaxEdits
  /\ pc = "idle" /\ cfg = Empty /\ err = "none"

\* A call to the cloud that fails costs a fault.
CallFails == faults > 0 /\ faults' = faults - 1

-----------------------------------------------------------------------------
Update(obj, res) == Write(obj, [api EXCEPT !.rows = obj.rows], res)
UpdateStatus(obj, res) == Write(obj, [api EXCEPT !.phase = obj.phase, !.msg = obj.msg], res)

Continue(next) == pc' = next /\ UNCHANGED <<cfg, err>>
Return(obj, e) == pc' = "record" /\ cfg' = obj /\ err' = e

ReturnUpdateStatus(new) ==
  \E res \in WriteResults :
    /\ UpdateStatus(new, res)
    /\ IF res = "ok" THEN Return(api', "none") ELSE Return(Empty, "store")

\* An id is written into a row of the object the handler was given, which is the
\* informer cache's unless the cache moved on.
WriteInPlace(new) ==
  /\ cfg' = new
  /\ cache' = IF cache.rv = cfg.rv THEN new ELSE cache

\* OnTkeConfigChanged, by phase.
Begin ==
  /\ pc = "idle" /\ queued
  /\ queued' = FALSE
  /\ pc' = IF cache.phase = "importing" THEN "import" ELSE "read"
  /\ cfg' = cache
  /\ UNCHANGED <<api, cache, watch, faults, edits, err>>

\* Fault: on a cluster that is updating the key is not queued again.
AwaitPoolsForgets ==
  /\ pc = "read"
  /\ \/ /\ cfg.phase # "updating"
        /\ ReturnUpdateStatus([cfg EXCEPT !.phase = "updating"])
     \/ /\ cfg.phase = "updating" /\ Return(cfg, "none")
        /\ UNCHANGED <<api, watch, faults>>
  /\ UNCHANGED <<cache, queued, edits>>

\* Pools at work: turn to updating, and look again later.
AwaitPools ==
  /\ pc = "read"
  /\ \/ /\ cfg.phase # "updating"
        /\ \E res \in WriteResults :
             /\ UpdateStatus([cfg EXCEPT !.phase = "updating"], res)
             /\ \/ res = "ok" /\ Return(api', "none") /\ queued' = TRUE
                \/ res # "ok" /\ Return(Empty, "store") /\ UNCHANGED queued
     \/ /\ cfg.phase = "updating" /\ Return(cfg, "none") /\ queued' = TRUE
        /\ UNCHANGED <<api, watch, faults>>
  /\ UNCHANGED <<cache, edits>>

\* enqueueUpdate: on a cluster that is updating the key is queued, else the phase
\* of the stored object is written.  Its loop retries conflicts and is one
\* step here; Lifecycle has its calls.
EnqueueUpdate ==
  /\ pc = "enqueue"
  /\ \/ /\ cfg.phase = "updating" /\ Return(cfg, "none") /\ queued' = TRUE
        /\ UNCHANGED <<api, watch, faults>>
     \/ /\ cfg.phase # "updating"
        /\ \E res \in WriteResults :
             /\ UpdateStatus([api EXCEPT !.phase = "updating"], res)
             /\ IF res = "ok" THEN Return(api', "none") ELSE Return(Empty, "store")
        /\ UNCHANGED queued
  /\ UNCHANGED <<cache, edits>>

Finish ==
  /\ pc = "finish"
  /\ \/ cfg.phase # "active" /\ ReturnUpdateStatus([cfg EXCEPT !.phase = "active"])
     \/ cfg.phase = "active" /\ Return(cfg, "none") /\ UNCHANGED <<api, watch, faults>>
  /\ UNCHANGED <<cache, queued, edits>>

\* The worker has nothing to do and nothing is on its way to it.
AtRest == pc = "idle" /\ ~queued /\ watch = <<>>

Recorded == [cfg EXCEPT !.msg = err,
                        !.phase = IF err # "none" /\ @ = "active" THEN "updating" ELSE @]

RecordError ==
  /\ pc = "record"
  /\ pc' = "end"
  /\ \/ /\ ~cfg.there \/ cfg.msg = err
        /\ UNCHANGED <<api, watch, faults>>
     \/ /\ cfg.there /\ cfg.msg # err
        /\ \E res \in WriteResults : UpdateStatus(Recorded, res)
  /\ UNCHANGED <<cache, queued, edits, cfg, err>>

End ==
  /\ pc = "end"
  /\ queued' = (queued \/ err # "none")
  /\ pc' = "idle" /\ cfg' = Empty /\ err' = "none"
  /\ UNCHANGED <<api, cache, watch, faults, edits>>

Crash ==
  /\ faults > 0 /\ faults' = faults - 1
  /\ cache' = api /\ watch' = <<>> /\ queued' = TRUE
  /\ pc' = "idle" /\ cfg' = Empty /\ err' = "none"
  /\ UNCHANGED <<api, edits>>
=============================================================================
