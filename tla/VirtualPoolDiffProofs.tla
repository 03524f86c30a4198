------------------------ MODULE VirtualPoolDiffProofs ------------------------
(***************************************************************************)
(* What the diff of virtual node pools is worth, for lists of any length   *)
(* over any elements: it sees every difference, one modification brings    *)
(* the pool to what the row asks for, and the exception to that: a list    *)
(* that was cleared in the row stays in the cloud.                         *)
(***************************************************************************)
EXTENDS VirtualPoolDiff, FunctionTheorems, SequenceTheorems, TLAPS

-----------------------------------------------------------------------------
(* Lists.                                                                  *)

\* A list is itself in another order.
LEMMA SameReflexive ==
  ASSUME NEW T, NEW a \in Seq(T)
  PROVE  SameElements(a, a)
  <1> DEFINE id == [i \in DOMAIN a |-> i]
  <1>1. id \in Bijection(DOMAIN a, DOMAIN a)
    BY DEF Bijection, Injection, Surjection, IsInjective
  <1>2. \A i \in DOMAIN a : a[i] = a[id[i]]
    OBVIOUS
  <1> QED BY <1>1, <1>2 DEF SameElements

\* An empty list is no list that has elements in another order.
LEMMA EmptyIsNotSame ==
  ASSUME NEW T, NEW b \in Seq(T), b # <<>>
  PROVE  ~SameElements(<<>>, b)
  <1>1. 1 \in DOMAIN b
    BY EmptySeq, LenProperties
  <1>2. Bijection({}, DOMAIN b) = {}
    BY <1>1 DEF Bijection, Injection, Surjection
  <1>3. DOMAIN <<>> = {}
    OBVIOUS
  <1> QED BY <1>2, <1>3 DEF SameElements

\* The value of a field that is sent, and of one that is not.
LEMMA GivenValue ==
  ASSUME NEW v, NEW old
  PROVE  Given({v}, old) = v /\ Given({}, old) = old
  BY DEF Given

\* The list of the pool after a call that was to make it want.
ListAfter(want, has) == Given(Sent(ListDiff(want, has)), has)

\* It has the elements the row asks for, unless the row was cleared; then it is
\* the list from before.
LEMMA ListArrives ==
  \A want, has \in Seq(Elements) :
    /\ ListAfter(want, has) \in Seq(Elements)
    /\ ~(want = <<>> /\ has # <<>>) => SameElements(want, ListAfter(want, has))
    /\ want = <<>> => ListAfter(want, has) = has
  <1> SUFFICES ASSUME NEW want \in Seq(Elements), NEW has \in Seq(Elements)
               PROVE  /\ ListAfter(want, has) \in Seq(Elements)
                      /\ ~(want = <<>> /\ has # <<>>) => SameElements(want, ListAfter(want, has))
                      /\ want = <<>> => ListAfter(want, has) = has
    OBVIOUS
  <1>1. CASE SameElements(want, has)
    <2>1. Sent(ListDiff(want, has)) = {}
      BY <1>1 DEF ListDiff, Sent
    <2> QED BY <1>1, <2>1, GivenValue DEF ListAfter
  <1>2. CASE ~SameElements(want, has)
    <2>1. ListDiff(want, has) = {want}
      BY <1>2 DEF ListDiff
    <2>2. CASE want = <<>>
      <3>1. Sent(ListDiff(want, has)) = {}
        BY <2>1, <2>2 DEF Sent
      <3>2. has # <<>>
        BY <1>2, <2>2, SameReflexive
      <3> QED BY <3>1, <3>2, <2>2, GivenValue DEF ListAfter
    <2>3. CASE want # <<>>
      <3>1. Sent(ListDiff(want, has)) = {want}
        BY <2>1, <2>3 DEF Sent
      <3>2. ListAfter(want, has) = want
        BY <3>1, GivenValue DEF ListAfter
      <3> QED BY <3>2, <2>3, SameReflexive
    <2> QED BY <2>2, <2>3
  <1> QED BY <1>1, <1>2

-----------------------------------------------------------------------------
(* The fields of the diff.                                                 *)

LEMMA DetailFields ==
  ASSUME NEW d \in Detail
  PROVE  /\ d.name \in Names \cup {NoName}
         /\ d.sgs \in Seq(Elements) /\ d.labels \in Seq(Elements) /\ d.taints \in Seq(Elements)
         /\ d.protection \in Optional(BOOLEAN)
  BY DEF Detail

\* No field is set exactly when the pool is as the row asks for.
LEMMA ChangedFields ==
  ASSUME NEW d \in Detail, NEW u \in Upstream
  PROVE  Changed(d, u) = NoChange <=> Agree(d, u)
  <1>1. u \in Detail /\ u.name # NoName
    BY DEF Upstream
  <1>2. Changed(d, u).name = {} <=> d.name \in {NoName, u.name}
    BY <1>1, DetailFields DEF Changed, ValueDiff
  <1>3. Changed(d, u).protection = {} <=> d.protection \in {{}, u.protection}
    BY DEF Changed, ValueDiff
  <1>4. /\ Changed(d, u).sgs = {} <=> SameElements(d.sgs, u.sgs)
        /\ Changed(d, u).labels = {} <=> SameElements(d.labels, u.labels)
        /\ Changed(d, u).taints = {} <=> SameElements(d.taints, u.taints)
    BY DEF Changed, ListDiff
  <1>5. Changed(d, u) = NoChange <=>
          /\ Changed(d, u).name = {} /\ Changed(d, u).sgs = {} /\ Changed(d, u).labels = {}
          /\ Changed(d, u).taints = {} /\ Changed(d, u).protection = {}
    BY DEF Changed, NoChange
  <1> QED BY <1>2, <1>3, <1>4, <1>5 DEF Agree

\* The diff has the fields that changed, and the pool's name to be when there are any.
LEMMA DiffFields ==
  ASSUME NEW d \in Detail, NEW u \in Upstream
  PROVE  /\ Diff(d, u).sgs = Changed(d, u).sgs
         /\ Diff(d, u).labels = Changed(d, u).labels
         /\ Diff(d, u).taints = Changed(d, u).taints
         /\ Diff(d, u).protection = Changed(d, u).protection
         /\ Diff(d, u) = NoChange <=> Changed(d, u) = NoChange
         /\ Diff(d, u) # NoChange =>
              Diff(d, u).name = {IF d.name # NoName THEN d.name ELSE u.name}
  <1> DEFINE f == Changed(d, u)
             n == {IF d.name # NoName THEN d.name ELSE u.name}
  <1>1. CASE f = NoChange
    BY <1>1 DEF Diff
  <1>2. CASE f # NoChange /\ f.name # {}
    <2>1. f.name = n
      BY <1>2 DEF Changed, ValueDiff
    <2> QED BY <1>2, <2>1 DEF Diff
  <1>3. CASE f # NoChange /\ f.name = {}
    <2>1. Diff(d, u) = [f EXCEPT !.name = n]
      BY <1>3 DEF Diff
    <2>2. Diff(d, u).name = n /\ n # {}
      BY <2>1 DEF Changed
    <2>3. Diff(d, u) # NoChange
      BY <2>2 DEF NoChange
    <2>4. /\ Diff(d, u).sgs = f.sgs /\ Diff(d, u).labels = f.labels
          /\ Diff(d, u).taints = f.taints /\ Diff(d, u).protection = f.protection
      BY <2>1 DEF Changed
    <2> QED BY <1>3, <2>2, <2>3, <2>4
  <1> QED BY <1>1, <1>2, <1>3

\* The pool after a call, field by field.
LEMMA AfterFields ==
  ASSUME NEW u, NEW f
  PROVE  /\ After(u, f).name = Given(f.name, u.name)
         /\ After(u, f).sgs = IF f.name = {} THEN u.sgs ELSE Given(Sent(f.sgs), u.sgs)
         /\ After(u, f).labels = Given(Sent(f.labels), u.labels)
         /\ After(u, f).taints = Given(Sent(f.taints), u.taints)
         /\ After(u, f).protection = IF f.protection = {} THEN u.protection ELSE f.protection
         /\ After(u, f) = [name |-> After(u, f).name, sgs |-> After(u, f).sgs,
                           labels |-> After(u, f).labels, taints |-> After(u, f).taints,
                           protection |-> After(u, f).protection]
  BY DEF After

\* The lists after a call that sends anything.
LEMMA ListsAfter ==
  ASSUME NEW d \in Detail, NEW u \in Upstream, Diff(d, u) # NoChange
  PROVE  /\ After(u, Diff(d, u)).sgs = ListAfter(d.sgs, u.sgs)
         /\ After(u, Diff(d, u)).labels = ListAfter(d.labels, u.labels)
         /\ After(u, Diff(d, u)).taints = ListAfter(d.taints, u.taints)
  <1> DEFINE f == Diff(d, u)
  <1>1. u \in Detail
    BY DEF Upstream
  <1>2. f.name # {}
    BY DiffFields
  <1>3. /\ f.sgs = ListDiff(d.sgs, u.sgs)
        /\ f.labels = ListDiff(d.labels, u.labels)
        /\ f.taints = ListDiff(d.taints, u.taints)
    BY DiffFields DEF Changed
  <1> HIDE DEF f
  <1>4. /\ After(u, f).sgs = Given(Sent(f.sgs), u.sgs)
        /\ After(u, f).labels = Given(Sent(f.labels), u.labels)
        /\ After(u, f).taints = Given(Sent(f.taints), u.taints)
    BY <1>1, <1>2, AfterFields
  <1> QED BY <1>3, <1>4 DEF ListAfter, f

-----------------------------------------------------------------------------
(* The results.                                                            *)

\* Nothing is sent exactly when the pool is what the row asks for: no difference is
\* missed, and a pool that agrees is not modified again
\* (DiffVirtualNodePoolModifyFields).
THEOREM DiffSeesEveryDifference ==
  \A d \in Detail, u \in Upstream : Diff(d, u) = NoChange <=> Agree(d, u)
  BY ChangedFields, DiffFields

\* One modification is enough when no list was cleared: afterwards the pool is what
\* the row asks for and the next reconcile sends nothing
\* (DiffVirtualNodePoolModifyFields, ModifyClusterVirtualNodePool).
THEOREM OneModificationSettles ==
  \A d \in Detail, u \in Upstream :
    ~Cleared(d, u) => LET new == After(u, Diff(d, u))
                      IN new \in Upstream /\ Agree(d, new) /\ Diff(d, new) = NoChange
  <1> SUFFICES ASSUME NEW d \in Detail, NEW u \in Upstream, ~Cleared(d, u)
               PROVE  LET new == After(u, Diff(d, u))
                      IN new \in Upstream /\ Agree(d, new) /\ Diff(d, new) = NoChange
    OBVIOUS
  <1> DEFINE f == Diff(d, u)
             new == After(u, f)
  <1>1. u \in Detail /\ u.name # NoName /\ u.protection # {}
    BY DEF Upstream
  <1>2. CASE f = NoChange
    <2>1. new = After(u, NoChange)
      BY <1>2
    <2>2. After(u, NoChange) = [name |-> u.name, sgs |-> u.sgs, labels |-> u.labels,
                                taints |-> u.taints, protection |-> u.protection]
      BY GivenValue DEF After, NoChange, Sent
    <2>3. new = u
      BY <1>1, <2>1, <2>2 DEF Detail
    <2>4. Agree(d, u)
      BY <1>2, DiffSeesEveryDifference
    <2> QED BY <1>2, <2>3, <2>4
  <1>3. CASE f # NoChange
    <2>1. f.name = {IF d.name # NoName THEN d.name ELSE u.name}
      BY <1>3, DiffFields
    <2>2. new.name = IF d.name # NoName THEN d.name ELSE u.name
      <3>1. new.name = Given(f.name, u.name)
        BY AfterFields
      <3> QED BY <2>1, <3>1, GivenValue
    <2>3. /\ new.sgs = ListAfter(d.sgs, u.sgs)
          /\ new.labels = ListAfter(d.labels, u.labels)
          /\ new.taints = ListAfter(d.taints, u.taints)
      BY <1>3, ListsAfter
    <2>4. /\ new.sgs \in Seq(Elements) /\ new.labels \in Seq(Elements)
          /\ new.taints \in Seq(Elements)
          /\ SameElements(d.sgs, new.sgs) /\ SameElements(d.labels, new.labels)
          /\ SameElements(d.taints, new.taints)
      <3>1. /\ d.sgs \in Seq(Elements) /\ u.sgs \in Seq(Elements)
            /\ d.labels \in Seq(Elements) /\ u.labels \in Seq(Elements)
            /\ d.taints \in Seq(Elements) /\ u.taints \in Seq(Elements)
        BY <1>1, DetailFields
      <3>2. /\ ~(d.sgs = <<>> /\ u.sgs # <<>>) /\ ~(d.labels = <<>> /\ u.labels # <<>>)
            /\ ~(d.taints = <<>> /\ u.taints # <<>>)
        BY DEF Cleared
      <3> HIDE DEF new, f
      <3>3. new.sgs \in Seq(Elements) /\ SameElements(d.sgs, new.sgs)
        BY <2>3, <3>1, <3>2, ListArrives
      <3>4. new.labels \in Seq(Elements) /\ SameElements(d.labels, new.labels)
        BY <2>3, <3>1, <3>2, ListArrives
      <3>5. new.taints \in Seq(Elements) /\ SameElements(d.taints, new.taints)
        BY <2>3, <3>1, <3>2, ListArrives
      <3> QED BY <3>3, <3>4, <3>5
    <2>5. f.protection = ValueDiff(d.protection, u.protection)
      BY DiffFields DEF Changed
    <2>6. new.protection = IF d.protection = {} THEN u.protection ELSE d.protection
      BY <1>1, <2>5, AfterFields DEF ValueDiff
    <2>7. Agree(d, new)
      BY <2>2, <2>4, <2>6 DEF Agree
    <2>8. new \in Upstream
      <3>1. /\ new.name \in Names \cup {NoName} /\ new.name # NoName
            /\ new.protection \in Optional(BOOLEAN) /\ new.protection # {}
        BY <1>1, <2>2, <2>6, DetailFields
      <3>2. new = [name |-> new.name, sgs |-> new.sgs, labels |-> new.labels,
                   taints |-> new.taints, protection |-> new.protection]
        BY <1>1, AfterFields
      <3> HIDE DEF new
      <3>3. new \in Detail
        BY <3>1, <3>2, <2>4 DEF Detail
      <3> QED BY <3>1, <3>3 DEF Upstream
    <2> HIDE DEF new
    <2> QED BY <2>7, <2>8, DiffSeesEveryDifference DEF new
  <1> QED BY <1>2, <1>3

\* A list the row was cleared of stays in the cloud, whatever else is modified, and
\* every later reconcile finds the difference and sends it in vain: an empty
\* list adds nothing to the request (ModifyClusterVirtualNodePool), although it
\* was meant to clear (src/utils/parse.go:280).
THEOREM ClearedListsStay ==
  \A d \in Detail, u \in Upstream :
    Cleared(d, u) => LET new == After(u, Diff(d, u))
                     IN Cleared(d, new) /\ Diff(d, u) # NoChange
  <1> SUFFICES ASSUME NEW d \in Detail, NEW u \in Upstream, Cleared(d, u)
               PROVE  Cleared(d, After(u, Diff(d, u))) /\ Diff(d, u) # NoChange
    OBVIOUS
  <1> DEFINE f == Diff(d, u)
             new == After(u, f)
  <1>1. u \in Detail
    BY DEF Upstream
  <1>2. f # NoChange
    <2>1. ~Agree(d, u)
      BY <1>1, DetailFields, EmptyIsNotSame DEF Agree, Cleared
    <2> QED BY <2>1, DiffSeesEveryDifference
  <1>4. /\ new.sgs = ListAfter(d.sgs, u.sgs)
        /\ new.labels = ListAfter(d.labels, u.labels)
        /\ new.taints = ListAfter(d.taints, u.taints)
    BY <1>2, ListsAfter
  <1>5. /\ d.sgs = <<>> => new.sgs = u.sgs
        /\ d.labels = <<>> => new.labels = u.labels
        /\ d.taints = <<>> => new.taints = u.taints
    <2> HIDE DEF new
    <2> QED BY <1>1, <1>4, ListArrives, DetailFields
  <1>6. Cleared(d, new)
    <2> HIDE DEF new
    <2> QED BY <1>5 DEF Cleared
  <1> QED BY <1>2, <1>6
=============================================================================
