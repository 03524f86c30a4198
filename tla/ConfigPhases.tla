---------------------------- MODULE ConfigPhases ----------------------------
(***************************************************************************)
(* What a TKEClusterConfig promises to who reads it (Rancher, kubectl):    *)
(* the order of the phases, that a resource being created, active or       *)
(* updating names a cluster and the same one from then on, and that an     *)
(* import never turns into a creation.  Nothing is said of how the         *)
(* operator gets there.                                                    *)
(***************************************************************************)
CONSTANTS IDs, NoID

VARIABLES phase,    \* status.phase
          cluster,  \* spec.clusterId
          imported, \* spec.imported
          gone      \* the resource no longer exists

vars == <<phase, cluster, imported, gone>>

Init ==
  /\ phase = "" /\ cluster \in IDs \cup {NoID}
  /\ imported \in BOOLEAN
  /\ gone = FALSE

\* The resource is given a cluster, or while nobody was told so another one.
Assign ==
  /\ ~gone /\ phase = "" /\ ~imported
  /\ cluster' \in IDs
  /\ UNCHANGED <<phase, imported, gone>>

Leave(from, to) ==
  /\ ~gone /\ phase \in from
  /\ phase' = to
  /\ UNCHANGED <<cluster, imported, gone>>

StartImport == imported /\ Leave({""}, "importing")
StartCreation == ~imported /\ cluster # NoID /\ Leave({""}, "creating")
Activate == cluster # NoID /\ Leave({"importing", "creating", "updating"}, "active")
StartUpdate == Leave({"active"}, "updating")

Disappear == ~gone /\ gone' = TRUE /\ UNCHANGED <<phase, cluster, imported>>

Next == Assign \/ StartImport \/ StartCreation \/ Activate \/ StartUpdate \/ Disappear

Spec == Init /\ [][Next]_vars
=============================================================================
