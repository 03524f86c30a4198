---------------------------- MODULE MCLifecycle ----------------------------
(***************************************************************************)
(* Lifecycle for TLC.                                                      *)
(***************************************************************************)
EXTENDS Lifecycle, TLC

\* Ids of created clusters are alike as long as no liveness is checked.
IDSymmetry == Permutations(NewIDs)

\* Nothing is protected, nobody adds virtual node pools, and settings of spec and cloud
\* do not come to differ: see below for deletions and for what else a reconcile mends.
PlainSpec ==
  Init /\ protected = {}
  /\ [][Next /\ protected' = {} /\ virtualNodePools' = "none" /\ drift' = {}]_vars

\* A resource whose cluster the operator made and that is in phase active, as a
\* resource of kind "create" comes to be: with pools and an endpoint, or with
\* neither.
ActiveConfig(id, r) ==
  [Empty EXCEPT !.there = TRUE, !.rv = 1, !.valid = TRUE, !.finalizer = TRUE,
                !.rows = r, !.clusterID = id, !.phase = "active"]

StartFrom(configs) ==
  /\ api \in configs
  /\ clusters = [i \in IDs |-> IF i \in {api.clusterID, Existing} THEN "running" ELSE "none"]
  /\ nodePools = IF api.rows = "known" THEN "normal" ELSE "none"
  /\ virtualNodePools \in {"none", nodePools}
  /\ nodes = "current"
  /\ endpoint = IF api.rows = "known" THEN "Created" ELSE "NotFound"
  /\ secret = (api.rows = "known")
  /\ cache = api /\ watch = <<>> /\ queued = TRUE
  /\ faults = MaxFaults /\ edits = MaxEdits
  /\ pc = "idle" /\ seen = Empty /\ cfg = Empty
  /\ err = "none" /\ newID = NoID /\ tries = 0 /\ read = {}
  /\ causes = 0

ActiveConfigs == {ActiveConfig(id, r) : id \in NewIDs, r \in {"nil", "known"}}
ActiveInit == /\ StartFrom(ActiveConfigs) /\ drift \in {{}, {"version"}, {"attributes"}}
              /\ protected = {}
ActiveSpec == ActiveInit /\ [][Next]_vars
ActiveFairSpec == ActiveSpec /\ Fairness

\* As long as nobody deletes it; deletions are checked from DeletedInit.
Edit == UserEdit /\ UNCHANGED <<cloudVars, handlerVars, provisionVars>>
ReconcileFairSpec == ActiveInit /\ [][Step \/ Restart \/ Notify \/ Edit \/ Cloud]_vars /\ Fairness

\* The same resource, just deleted by a user.
DeletedConfigs == {[c EXCEPT !.deleting = TRUE, !.phase = p, !.msg = m] :
                     c \in ActiveConfigs, p \in {"active", "updating"}, m \in {"none", "cloud"}}
DeletedInit == /\ StartFrom(DeletedConfigs) /\ protected \in SUBSET Protectable
               /\ drift = {}
\* Settings do not matter any more.
DeletedSpec == DeletedInit /\ [][Next /\ UNCHANGED drift]_vars
DeletedFairSpec == DeletedSpec /\ Fairness
=============================================================================
