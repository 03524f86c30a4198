------------------------------- MODULE Handler -------------------------------
(***************************************************************************)
(* One worker of the controller and what surrounds the handlers: the       *)
(* dispatch of OnTkeConfigChanged by phase, the recordError wrapper, the   *)
(* finalizer that the framework adds for OnRemove handlers, the requeue    *)
(* after an error, and a crash of the process.                             *)
(*                                                                         *)
(* For one key the framework runs one worker at a time: first the change   *)
(* handler, then the remove handler with the object the first one returned.*)
(* Provision, CheckUpdate and Removal have the steps between Begin and     *)
(* RecordError; pc says which call of the handler is next.                 *)
(***************************************************************************)
EXTENDS TkeCloud

CONSTANTS Retries,     \* tries of retry.RetryOnConflict: DefaultRetry has 5
          BackoffSteps \* tries of the removal's ExponentialBackoff: 12

ASSUME RetryAssumption == Retries \in Nat \ {0} /\ BackoffSteps \in Nat \ {0}

VARIABLES pc,     \* the next call of the worker
          seen,   \* the object the worker was started with
          cfg,    \* the handler's variable config
          err,    \* the error to return
          newID,  \* the id CreateCluster returned, until the handler is done
          tries,  \* tries of the current retry loop so far
          read    \* what the handler read from the cloud and will look at later

handlerVars == <<pc, seen, cfg, err, newID, tries, read>>

PCs == {"idle", "create", "saveID", "savePhase", "wait",
        "import", "importSave", "importSecret", "importActive",
        "update", "readPools", "readStatus", "readVirtual",
        "sync", "nodeCheck", "nodeTrigger", "modify", "saveRows",
        "enqueueGet", "enqueuePut", "endpoint", "finish",
        "remove", "protection", "protectVirtual", "report", "removePools", "removeVirtual",
        "removeCluster", "dropFinalizer",
        "record", "addFinalizer", "end"}

\* abnormal: the cluster was; busy: node pools were; protected: the cluster was;
\* version, attributes, nodePools: they were other than in the spec.
Readings == {"abnormal", "busy", "protected", "version", "attributes", "nodePools"}

HandlerTypeOK ==
  /\ pc \in PCs
  /\ seen \in Configs /\ cfg \in Configs
  /\ err \in Messages
  /\ newID \in NewIDs \cup {NoID}
  /\ tries \in 0..(Retries + BackoffSteps)
  /\ read \subseteq Readings

\* The handler returns object obj and error e to recordError.
Return(obj, e) ==
  /\ cfg' = obj /\ err' = e
  /\ pc' = "record"
  /\ newID' = NoID /\ tries' = 0 /\ read' = {}
  /\ UNCHANGED seen

\* The handler goes on to the next call, with object obj and what it read before done
\* with ...
Continue(next, obj) ==
  /\ pc' = next /\ cfg' = obj
  /\ tries' = 0 /\ read' = {}
  /\ UNCHANGED <<seen, err, newID>>

\* ... or with all it has.
Proceed(next) == pc' = next /\ UNCHANGED <<seen, cfg, err, newID, tries, read>>

\* return h.tkeCC.UpdateStatus(new): its result and its error are returned.  A
\* failed write returns the zero object.
ReturnUpdateStatus(new) ==
  \E res \in WriteResults :
    /\ UpdateStatus(new, res)
    /\ IF res = "ok" THEN Return(api', "none") ELSE Return(Empty, "store")

\* The same, with the key queued again once the write succeeded.
ReturnUpdateStatusAndRequeue(new) ==
  \E res \in WriteResults :
    /\ UpdateStatus(new, res)
    /\ IF res = "ok" THEN Return(api', "none") /\ queued' = TRUE
                     ELSE Return(Empty, "store") /\ UNCHANGED queued

HandlerOf(phase) == CASE phase = NotCreated -> "create"
                      [] phase = "importing" -> "import"
                      [] phase = "creating" -> "wait"
                      [] phase \in {"active", "updating"} -> "update"

\* The worker takes the key and reads the cache.  A missing object, or one being
\* deleted that has lost the finalizer, is nobody's business; an object being
\* deleted goes to OnTkeConfigRemoved.
Begin ==
  /\ pc = "idle" /\ queued
  /\ queued' = FALSE
  /\ \/ /\ cache.there /\ (cache.deleting => cache.finalizer)
        /\ pc' = IF cache.deleting THEN "remove" ELSE HandlerOf(cache.phase)
        /\ seen' = cache /\ cfg' = cache
     \/ /\ ~(cache.there /\ (cache.deleting => cache.finalizer))
        /\ UNCHANGED <<pc, seen, cfg>>
  /\ UNCHANGED <<api, cache, watch, faults, edits, cloudVars, err, newID, tries, read>>

\* recordError: write the error, or none, to failureMessage when it differs; an
\* error on an active cluster also turns it to updating.  A failure of
\* this write is only logged.
\* Fault: an error moves a cluster of any phase to updating.
RecordedAnyPhase == [cfg EXCEPT !.msg = err,
                                !.phase = IF err # "none" THEN "updating" ELSE @]

Recorded == [cfg EXCEPT !.msg = err,
                        !.phase = IF err # "none" /\ @ = "active" THEN "updating" ELSE @]

RecordError ==
  /\ pc = "record"
  /\ pc' = "addFinalizer"
  /\ \/ /\ ~cfg.there \/ cfg.msg = err
        /\ UNCHANGED <<api, watch, faults, cfg>>
     \/ /\ cfg.there /\ cfg.msg # err
        /\ \E res \in WriteResults :
             /\ UpdateStatus(Recorded, res)
             /\ cfg' = IF res = "ok" THEN api' ELSE Empty
  /\ UNCHANGED <<cache, queued, edits, cloudVars, seen, err, newID, tries, read>>

\* The framework's remove handler, on an object that is not being deleted: add
\* the finalizer to what recordError returned, or to the object the worker was
\* started with when that is nil or empty.
Returned == IF cfg.there THEN cfg ELSE seen

AddFinalizer ==
  /\ pc = "addFinalizer"
  /\ pc' = "end"
  /\ \/ /\ Returned.finalizer
        /\ UNCHANGED <<api, watch, faults, err>>
     \/ /\ ~Returned.finalizer
        /\ \E res \in WriteResults :
             /\ Update([Returned EXCEPT !.finalizer = TRUE], res)
             /\ err' = IF res = "ok" THEN err ELSE "store"
  /\ UNCHANGED <<cache, queued, edits, cloudVars, seen, cfg, newID, tries, read>>

Reset ==
  /\ pc' = "idle" /\ seen' = Empty /\ cfg' = Empty
  /\ err' = "none" /\ newID' = NoID /\ tries' = 0 /\ read' = {}

\* The worker is done with the key; after an error it is queued again.
End ==
  /\ pc = "end"
  /\ queued' = (queued \/ err # "none")
  /\ Reset
  /\ UNCHANGED <<api, cache, watch, faults, edits, cloudVars>>

\* The process dies and is started again, or another replica becomes leader:
\* what the worker knew is lost, the cache is listed anew and every key queued.
Crash ==
  /\ faults > 0 /\ faults' = faults - 1
  /\ cache' = api /\ watch' = <<>>
  /\ queued' = api.there
  /\ Reset
  /\ UNCHANGED <<api, edits, cloudVars>>
=============================================================================
