----------------------------- MODULE ConfigStore -----------------------------
(***************************************************************************)
(* One TKEClusterConfig custom resource as the operator sees it.  The      *)
(* fields of the object are those of TKEClusterConfigSpec and              *)
(* TKEClusterConfigStatus that some handler reads or writes; node pools    *)
(* and virtual node pools have their rows in NodePools and VirtualPools.   *)
(***************************************************************************)
EXTENDS ObjectStore

CONSTANTS NoID,      \* spec.clusterId when it is the empty string
          Existing,  \* a cluster that was there before the resource
          NewIDs     \* the ids the cloud can give to the clusters it creates

ASSUME IDsAssumption == Existing \notin NewIDs /\ NoID \notin NewIDs \cup {Existing}

IDs == NewIDs \cup {Existing}

\* status.phase.  NotCreated is the empty string.
NotCreated == ""
Phases == {NotCreated, "importing", "creating", "active", "updating"}

\* status.failureMessage, by what it reports: nothing, a failed validation,
\* a failed cloud call, a failed write, deletion held up by protection.
Messages == {"none", "invalid", "cloud", "store", "blocked"}

\* spec.nodePoolList: absent, with a row that has no nodePoolId, or all known.
Rows == {"nil", "new", "known"}

\* One version of the resource.  there: it exists; rv: resourceVersion;
\* valid: validate() accepts the spec; aligned: the spec is FixConfig's view
\* of the upstream cluster.
Configs == [there: BOOLEAN, rv: Nat, deleting: BOOLEAN, finalizer: BOOLEAN,
            imported: BOOLEAN, valid: BOOLEAN, aligned: BOOLEAN, rows: Rows,
            clusterID: IDs \cup {NoID}, phase: Phases, msg: Messages]

\* The nil pointer, and the zero object a failed Update returns.
Empty == [there |-> FALSE, rv |-> 0, deleting |-> FALSE, finalizer |-> FALSE,
          imported |-> FALSE, valid |-> FALSE, aligned |-> FALSE, rows |-> "nil",
          clusterID |-> NoID, phase |-> NotCreated, msg |-> "none"]

StoreTypeOK ==
  /\ api \in Configs /\ cache \in Configs
  /\ watch \in Seq(Configs)
  /\ queued \in BOOLEAN
  /\ faults \in 0..MaxFaults
  /\ edits \in 0..MaxEdits

-----------------------------------------------------------------------------
\* What a write makes of the stored object.  Update keeps the stored status,
\* UpdateStatus the stored spec: the CRD has the status subresource.
WithSpec(obj) == [api EXCEPT !.finalizer = obj.finalizer, !.imported = obj.imported,
                             !.valid = obj.valid, !.aligned = obj.aligned,
                             !.rows = obj.rows, !.clusterID = obj.clusterID]
WithStatus(obj) == [api EXCEPT !.phase = obj.phase, !.msg = obj.msg]

Update(obj, res) == Write(obj, WithSpec(obj), res)
UpdateStatus(obj, res) == Write(obj, WithStatus(obj), res)

-----------------------------------------------------------------------------
\* A user, or Rancher, edits the spec: it becomes invalid or valid again, or
\* gets a node pool row.  Edits keep clusterId and imported as they are.
UserEdit ==
  /\ api.there /\ edits > 0
  /\ edits' = edits - 1
  /\ \/ Publish([api EXCEPT !.valid = ~@])
     \/ api.rows # "new" /\ Publish([api EXCEPT !.rows = "new"])
     \/ api.rows = "known" /\ Publish([api EXCEPT !.rows = "nil"])
  /\ UNCHANGED <<cache, queued, faults>>

\* A user deletes the resource: at once when no finalizer holds it.
UserDelete ==
  /\ api.there /\ ~api.deleting
  /\ Publish([api EXCEPT !.deleting = @ \/ api.finalizer, !.there = api.finalizer])
  /\ UNCHANGED <<cache, queued, faults, edits>>
=============================================================================
