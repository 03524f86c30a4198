----------------------------- MODULE PoolPromise -----------------------------
(***************************************************************************)
(* What the spec of a cluster and its pools in the cloud are to each       *)
(* other, whoever fails in between.  listed: the ids in the stored spec;   *)
(* live: the pools that are there and not being deleted; made: all pools   *)
(* there ever were.                                                        *)
(*                                                                         *)
(* A pool is given back only when the spec does not list it, an id is put  *)
(* into the spec only while its pool lives, and no pool comes back.        *)
(***************************************************************************)
EXTENDS FiniteSets

VARIABLES listed, live, made

Init == live \subseteq made /\ listed \subseteq live

\* A pool is created, with an id of its own.
Create ==
  /\ \E p \in live' : p \notin made /\ live' = live \cup {p} /\ made' = made \cup {p}
  /\ UNCHANGED listed

\* The spec gets another list: rows are taken out, ids are recorded.
List == listed' \ listed \subseteq live /\ UNCHANGED <<live, made>>

\* Pools are deleted.
Delete ==
  /\ live' \subseteq live /\ listed \cap live \subseteq live'
  /\ UNCHANGED <<listed, made>>

Next == Create \/ List \/ Delete

Spec == Init /\ [][Next]_<<listed, live, made>>
=============================================================================
