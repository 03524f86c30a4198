----------------------------- MODULE ObjectStore -----------------------------
(***************************************************************************)
(* One object in the Kubernetes API server, the copy of it in the          *)
(* operator's informer cache, the watch events on their way to that cache, *)
(* and the operator's work queue: libraries, modelled from how the         *)
(* handlers use them (Get, Update, UpdateStatus, tkeCache.Get, tkeEnqueue, *)
(* retry.RetryOnConflict).                                                 *)
(*                                                                         *)
(* An object is a record with the fields there (it exists), rv (its        *)
(* resourceVersion), deleting, finalizer, and those a component needs.     *)
(***************************************************************************)
EXTENDS Naturals, Sequences

CONSTANTS MaxFaults, \* bound: faults (lost calls, crashes) in a behaviour
          MaxEdits   \* bound: edits by users and on the cloud console

ASSUME BoundsAssumption == MaxFaults \in Nat /\ MaxEdits \in Nat

VARIABLES api,    \* the object in the API server
          cache,  \* the object in the informer cache
          watch,  \* versions the watch has not delivered yet, oldest first
          queued, \* the key of the resource is in the work queue
          faults, \* faults left
          edits   \* edits left

storeVars == <<api, cache, watch, queued>>

-----------------------------------------------------------------------------
\* A new version is stored and its event sent to the watch.
Publish(new) ==
  /\ api' = [new EXCEPT !.rv = api.rv + 1]
  /\ watch' = Append(watch, api')

\* Storing the version already there is no write.  An object being deleted
\* goes away with its last finalizer.
Commit(new) ==
  \/ new = api /\ UNCHANGED <<api, watch>>
  \/ /\ new # api
     /\ Publish([new EXCEPT !.there = ~(api.deleting /\ ~new.finalizer)])

Current(obj) == obj.there /\ api.there /\ obj.rv = api.rv
WriteResults == {"ok", "conflict", "error"}

\* A write of new, by a caller that holds version obj.  It is refused with a
\* conflict when obj is no longer the stored version, with another error when
\* the object is gone; and at the price of a fault it fails, before or
\* after it took effect.
Write(obj, new, res) ==
  \/ res = "ok" /\ Current(obj) /\ Commit(new) /\ UNCHANGED faults
  \/ /\ res = "conflict" /\ obj.there /\ api.there /\ obj.rv # api.rv
     /\ UNCHANGED <<api, watch, faults>>
  \/ res = "error" /\ ~(obj.there /\ api.there) /\ UNCHANGED <<api, watch, faults>>
  \/ /\ res = "error" /\ faults > 0 /\ faults' = faults - 1
     /\ \/ UNCHANGED <<api, watch>>
        \/ Current(obj) /\ Commit(new)

\* The informer handles one event: the cache is replaced and the key queued.
Deliver ==
  /\ watch # <<>>
  /\ cache' = Head(watch)
  /\ watch' = Tail(watch)
  /\ queued' = TRUE
  /\ UNCHANGED <<api, faults, edits>>
=============================================================================
