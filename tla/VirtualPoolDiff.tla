--------------------------- MODULE VirtualPoolDiff ---------------------------
(***************************************************************************)
(* What a reconcile sends to the cloud to make a virtual node pool as its  *)
(* row has it: DiffVirtualNodePoolModifyFields of src/utils/parse.go, and  *)
(* ModifyClusterVirtualNodePool of src/driver/client/tke.go.               *)
(*                                                                         *)
(* An optional value, a pointer in the code, is a set: {} is nil.          *)
(***************************************************************************)
EXTENDS Sequences, Functions

CONSTANTS Names,   \* of virtual node pools
          Elements \* of their lists: security groups, labels, taints

NoName == "" \* the empty name: leave the cloud's
Optional(S) == {{}} \cup {{v} : v \in S}

\* VirtualNodePoolDetail, as far as it can be modified.
Detail == [name: Names \cup {NoName},
           sgs: Seq(Elements), labels: Seq(Elements), taints: Seq(Elements),
           protection: Optional(BOOLEAN)]

\* What ToDetail makes of the cloud's pool always says if it is protected.
Upstream == {u \in Detail : u.protection # {} /\ u.name # NoName}

\* VirtualNodePoolModifyFields.
NoChange == [name |-> {}, sgs |-> {}, labels |-> {}, taints |-> {}, protection |-> {}]

-----------------------------------------------------------------------------
\* Equal when sorted: one list is the other in another order.
SameElements(a, b) ==
  \E p \in Bijection(DOMAIN a, DOMAIN b) : \A i \in DOMAIN a : a[i] = b[p[i]]

ListDiff(want, has) == IF SameElements(want, has) THEN {} ELSE {want}

\* Nothing asked for leaves the cloud's value.
ValueDiff(want, has) == IF want = has THEN {} ELSE want

Changed(d, u) ==
  [name |-> ValueDiff({d.name} \ {NoName}, {u.name}),
   sgs |-> ListDiff(d.sgs, u.sgs),
   labels |-> ListDiff(d.labels, u.labels),
   taints |-> ListDiff(d.taints, u.taints),
   protection |-> ValueDiff(d.protection, u.protection)]

\* Fault: the name is sent only when it changes.
DiffWithoutName(d, u) == Changed(d, u)

\* The name goes with every change, since the cloud may ignore security groups
\* that come without it.
Diff(d, u) ==
  LET f == Changed(d, u)
  IN IF f = NoChange \/ f.name # {} THEN f
     ELSE [f EXCEPT !.name = {IF d.name # NoName THEN d.name ELSE u.name}]

\* A list without elements adds nothing to the request.
Sent(list) == list \ {<<>>}

Given(optional, old) == IF optional = {} THEN old ELSE CHOOSE v \in optional : TRUE

\* The pool after the call, as the comments of the code say of the cloud.
After(u, f) ==
  [name |-> Given(f.name, u.name),
   sgs |-> IF f.name = {} THEN u.sgs ELSE Given(Sent(f.sgs), u.sgs),
   labels |-> Given(Sent(f.labels), u.labels),
   taints |-> Given(Sent(f.taints), u.taints),
   protection |-> IF f.protection = {} THEN u.protection ELSE f.protection]

\* The cloud says "nothing is updated", and the client takes that for no change.
Applied(u, f) == After(u, f) # u

-----------------------------------------------------------------------------
\* The reference: the cloud has what the row asks for.
Agree(d, u) ==
  /\ d.name \in {NoName, u.name}
  /\ SameElements(d.sgs, u.sgs)
  /\ SameElements(d.labels, u.labels)
  /\ SameElements(d.taints, u.taints)
  /\ d.protection \in {{}, u.protection}

\* A list of the row is empty and the cloud's is not.
Cleared(d, u) ==
  \/ d.sgs = <<>> /\ u.sgs # <<>>
  \/ d.labels = <<>> /\ u.labels # <<>>
  \/ d.taints = <<>> /\ u.taints # <<>>
=============================================================================
