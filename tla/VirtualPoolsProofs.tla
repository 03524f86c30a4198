------------------------- MODULE VirtualPoolsProofs -------------------------
(***************************************************************************)
(* VirtualPools for every value of its constants, however many rows, names *)
(* and pools there are: its types, that a name never has two pools, that a *)
(* pool the stored spec names is deleted only by a pass that began with an *)
(* older version, and that a worker that rests is done.                    *)
(***************************************************************************)
EXTENDS VirtualPools, VirtualPoolDiffProofs, PoolWorkerProofs

-----------------------------------------------------------------------------
(* The invariant.                                                          *)

\* No object asks for an import.
NoImport ==
  /\ api.phase # "importing" /\ cache.phase # "importing" /\ cfg.phase # "importing"
  /\ \A i \in DOMAIN watch : watch[i].phase # "importing"

TypeInv == TypeOK /\ NoImport

\* The rows of an object have different names, and are as many as users write.
ProperRows(rows) ==
  /\ Len(rows) <= MaxRows
  /\ \A i, j \in DOMAIN rows : rows[i].name = rows[j].name => i = j

\* An object of the version that is stored has its names, though not its ids.
SameNames(o) == o.rv <= api.rv /\ (o.rv = api.rv => NamesOf(o.rows) = NamesOf(api.rows))

NamesInv ==
  /\ api.rv >= 1 /\ ProperRows(api.rows)
  /\ ProperRows(cache.rows) /\ SameNames(cache)
  /\ ProperRows(cfg.rows) /\ SameNames(cfg)
  /\ \A i \in DOMAIN watch : ProperRows(watch[i].rows) /\ SameNames(watch[i])

\* What a pass has read is what is there, or was renamed or created by its rows that
\* come before the current one.
ReadAs(p) == p \in DOMAIN read /\ read[p].has.name = pools[p].has.name
ByEarlierRow(p) == \E j \in DOMAIN cfg.rows : j < index /\ pools[p].has.name = cfg.rows[j].name

PassInv ==
  /\ pc = "delete" =>
       \A p \in Live : p \in DOMAIN read /\ read[p].has = pools[p].has /\ p \in LiveIn(read)
  /\ pc = "create" => \A p \in Live : ReadAs(p) \/ (created /\ ByEarlierRow(p))
  /\ pc = "modify" => \A p \in Live : ReadAs(p) \/ ByEarlierRow(p)
  /\ pc \in {"create", "modify"} => cfg.rows # <<>>
  /\ pc \in {"delete", "create", "modify"} /\ cfg.rows # <<>> =>
       /\ DOMAIN read \subseteq Live
       /\ \A p, q \in DOMAIN read : read[p].has.name = read[q].has.name => p = q

PoolsInv == TypeInv /\ NamesInv /\ PassInv /\ OnePoolPerName
-----------------------------------------------------------------------------
(* Details, and what a modification makes of a pool.                       *)

LEMMA DesiredType ==
  ASSUME NEW r \in Row
  PROVE  /\ Desired(r) \in Detail /\ Desired(r).name = r.name
         /\ r.name \in Names /\ r.name # NoName
         /\ r.id \in PoolIDs \cup {NoPool}
  <1>1. r.name \in Names /\ r.want \in Wants /\ r.id \in PoolIDs \cup {NoPool}
    BY DEF Row
  <1>2. r.want \in [sgs: Seq(Elements), labels: Seq(Elements), taints: Seq(Elements),
                    protection: Optional(BOOLEAN)]
    BY <1>1, WantsAssumption
  <1> QED BY <1>1, <1>2, WantsAssumption DEF Desired, Detail

LEMMA MadeType ==
  ASSUME NEW r \in Row
  PROVE  AsAsked(r) \in Detail /\ AsAsked(r).name = r.name
  <1> DEFINE d == Desired(r)
  <1>1. d \in Detail /\ d.name = r.name
    BY DesiredType
  <1>2. AsAsked(r) = [d EXCEPT !.protection = IF @ = {} THEN {FALSE} ELSE @]
    BY DEF AsAsked
  <1> HIDE DEF d
  <1> QED BY <1>1, <1>2 DEF Detail, Optional

LEMMA NoDetailType == NoDetail \in Detail
  <1>1. <<>> \in Seq(Elements)
    OBVIOUS
  <1> QED BY <1>1 DEF NoDetail, Detail, Optional

\* A list that is sent, and one that is not.
LEMMA ListAfterType ==
  ASSUME NEW want \in Seq(Elements), NEW has, NEW old \in Seq(Elements)
  PROVE  Given(Sent(ListDiff(want, has)), old) \in Seq(Elements)
  <1>1. Sent(ListDiff(want, has)) \in {{}, {want}}
    BY DEF Sent, ListDiff
  <1>2. Given({}, old) = old /\ Given({want}, old) = want
    BY GivenValue
  <1> QED BY <1>1, <1>2

\* The diff of a row, whatever was read, applied to what is there by now: the name
\* is the row's or, when there is no difference, as it was.
LEMMA AfterDiff ==
  ASSUME NEW d \in Detail, d.name # NoName, NEW r \in Detail, NEW u \in Detail
  PROVE  /\ After(u, Diff(d, r)) \in Detail
         /\ After(u, Diff(d, r)).name = IF Diff(d, r) = NoChange THEN u.name ELSE d.name
  <1> DEFINE c == Changed(d, r)
             f == Diff(d, r)
  <1>1. /\ c.sgs = ListDiff(d.sgs, r.sgs) /\ c.labels = ListDiff(d.labels, r.labels)
        /\ c.taints = ListDiff(d.taints, r.taints)
        /\ c.protection \in {{}, d.protection} /\ c.name \in {{}, {d.name}}
    BY DEF Changed, ValueDiff
  <1>2. /\ f.sgs = c.sgs /\ f.labels = c.labels /\ f.taints = c.taints
        /\ f.protection = c.protection
        /\ f = NoChange => f.name = {}
        /\ f # NoChange => f.name = {d.name}
    <2>1. CASE c = NoChange
      BY <2>1 DEF Diff, NoChange
    <2>2. CASE c # NoChange /\ c.name # {}
      BY <1>1, <2>2 DEF Diff
    <2>3. CASE c # NoChange /\ c.name = {}
      <3>1. f = [c EXCEPT !.name = {d.name}]
        BY <2>3 DEF Diff
      <3>2. /\ f.name = {d.name} /\ f.sgs = c.sgs /\ f.labels = c.labels /\ f.taints = c.taints
            /\ f.protection = c.protection
        BY <3>1 DEF Changed
      <3>3. f # NoChange
        BY <3>2 DEF NoChange
      <3> QED BY <3>2, <3>3
    <2> QED BY <2>1, <2>2, <2>3
  <1> HIDE DEF c, f
  <1>3. /\ d.sgs \in Seq(Elements) /\ d.labels \in Seq(Elements) /\ d.taints \in Seq(Elements)
        /\ u.sgs \in Seq(Elements) /\ u.labels \in Seq(Elements) /\ u.taints \in Seq(Elements)
        /\ u.name \in Names \cup {NoName} /\ d.name \in Names \cup {NoName}
        /\ u.protection \in Optional(BOOLEAN) /\ d.protection \in Optional(BOOLEAN)
    BY DetailFields
  <1>4. /\ Given(Sent(f.sgs), u.sgs) \in Seq(Elements)
        /\ Given(Sent(f.labels), u.labels) \in Seq(Elements)
        /\ Given(Sent(f.taints), u.taints) \in Seq(Elements)
    BY <1>1, <1>2, <1>3, ListAfterType
  <1>5. Given(f.name, u.name) = IF f = NoChange THEN u.name ELSE d.name
    BY <1>2, GivenValue
  <1>6. /\ After(u, f).name = IF f = NoChange THEN u.name ELSE d.name
        /\ After(u, f).sgs \in Seq(Elements) /\ After(u, f).labels \in Seq(Elements)
        /\ After(u, f).taints \in Seq(Elements) /\ After(u, f).protection \in Optional(BOOLEAN)
    <2>1. /\ After(u, f).name = Given(f.name, u.name)
          /\ After(u, f).sgs \in {u.sgs, Given(Sent(f.sgs), u.sgs)}
          /\ After(u, f).labels = Given(Sent(f.labels), u.labels)
          /\ After(u, f).taints = Given(Sent(f.taints), u.taints)
          /\ After(u, f).protection \in {u.protection, f.protection}
      BY AfterFields
    <2>2. f.protection \in Optional(BOOLEAN)
      BY <1>1, <1>2, <1>3 DEF Optional
    <2> QED BY <1>3, <1>4, <1>5, <2>1, <2>2
  <1>7. After(u, f) = [name |-> After(u, f).name, sgs |-> After(u, f).sgs,
                       labels |-> After(u, f).labels, taints |-> After(u, f).taints,
                       protection |-> After(u, f).protection]
    BY AfterFields
  <1>8. After(u, f) \in Detail
    BY <1>3, <1>6, <1>7 DEF Detail
  <1> QED BY <1>6, <1>8 DEF f

-----------------------------------------------------------------------------
(* Rows.                                                                   *)

LEMMA Bound == MaxRows \in Nat /\ 1 <= MaxRows /\ 1 \in 1..MaxRows + 1
  BY WantsAssumption

\* Rows that differ in ids and wants have the same names.
LEMMA SameRowNames ==
  ASSUME NEW a \in Seq(Row), NEW b \in Seq(Row), DOMAIN a = DOMAIN b,
         \A i \in DOMAIN a : a[i].name = b[i].name
  PROVE  NamesOf(a) = NamesOf(b) /\ (ProperRows(a) => ProperRows(b))
  BY DEF NamesOf, ProperRows

LEMMA RowUpdates ==
  ASSUME NEW r \in Row
  PROVE  /\ \A w \in Wants : /\ [r EXCEPT !.want = w] \in Row
                            /\ [r EXCEPT !.want = w].name = r.name
         /\ \A n \in Names : /\ [r EXCEPT !.name = n] \in Row
                            /\ [r EXCEPT !.name = n].name = n
         /\ \A id \in PoolIDs \cup {NoPool} : /\ [r EXCEPT !.id = id] \in Row
                                              /\ [r EXCEPT !.id = id].name = r.name
  BY DEF Row

\* What users make of rows with different names are rows with different names.
LEMMA EditedRows ==
  ASSUME NEW rows \in Seq(Row), ProperRows(rows), NEW new \in Edited(rows)
  PROVE  new \in Seq(Row) /\ ProperRows(new)
  <1>1. CASE new = <<>>
    BY <1>1, Bound DEF ProperRows
  <1>2. CASE new = Blanked(rows)
    <2>1. \A i \in DOMAIN rows : /\ [rows[i] EXCEPT !.id = NoPool] \in Row
                                /\ [rows[i] EXCEPT !.id = NoPool].name = rows[i].name
      <3> TAKE i \in DOMAIN rows
      <3>1. rows[i] \in Row
        OBVIOUS
      <3> QED BY <3>1 DEF Row
    <2>2. Len(rows) \in Nat /\ DOMAIN rows = 1..Len(rows)
      OBVIOUS
    <2>3. new = [i \in 1..Len(rows) |-> [rows[i] EXCEPT !.id = NoPool]]
      BY <1>2, <2>2 DEF Blanked
    <2>4. new \in Seq(Row) /\ DOMAIN new = DOMAIN rows
      BY <2>1, <2>2, <2>3
    <2>5. \A i \in DOMAIN rows : rows[i].name = new[i].name
      BY <2>1, <2>2, <2>3
    <2> QED BY <2>4, <2>5, SameRowNames
  <1>3. CASE new \in Changes(rows)
    <2>1. PICK k \in DOMAIN rows, w \in Wants : new = [rows EXCEPT ![k].want = w]
      BY <1>3 DEF Changes
    <2>2. [rows[k] EXCEPT !.want = w] \in Row /\ [rows[k] EXCEPT !.want = w].name = rows[k].name
      BY RowUpdates
    <2>3. new \in Seq(Row) /\ DOMAIN new = DOMAIN rows
      BY <2>1, <2>2
    <2>4. \A i \in DOMAIN rows : rows[i].name = new[i].name
      BY <2>1, <2>2
    <2> QED BY <2>3, <2>4, SameRowNames
  <1>4. CASE new \in Renamed(rows)
    <2>1. PICK k \in DOMAIN rows, n \in Names \ NamesOf(rows) : new = [rows EXCEPT ![k].name = n]
      BY <1>4 DEF Renamed
    <2>2. [rows[k] EXCEPT !.name = n] \in Row /\ [rows[k] EXCEPT !.name = n].name = n
      BY RowUpdates
    <2>3. new \in Seq(Row) /\ DOMAIN new = DOMAIN rows
      BY <2>1, <2>2
    <2>4. \A i \in DOMAIN rows : new[i].name = IF i = k THEN n ELSE rows[i].name
      BY <2>1, <2>2
    <2>5. \A i \in DOMAIN rows : rows[i].name # n
      BY DEF NamesOf
    <2> QED BY <2>3, <2>4, <2>5 DEF ProperRows
  <1>5. CASE rows # <<>> /\ new \in Reduced(rows)
    <2>1. CASE new = Tail(rows)
      <3>1. /\ new \in Seq(Row)
            /\ \A i \in DOMAIN new : i + 1 \in DOMAIN rows /\ new[i] = rows[i + 1]
        BY <1>5, <2>1, TailElements
      <3>2. \A i \in DOMAIN new : i \in Nat
        BY <3>1
      <3>3. Len(new) <= Len(rows) /\ Len(new) \in Nat /\ Len(rows) \in Nat
        BY <1>5, <2>1
      <3>4. Len(new) <= MaxRows
        BY <3>3, Bound DEF ProperRows
      <3> QED BY <3>1, <3>2, <3>4 DEF ProperRows
    <2>2. CASE new = Front(rows)
      <3>1. /\ new \in Seq(Row)
            /\ \A i \in DOMAIN new : i \in DOMAIN rows /\ new[i] = rows[i]
        BY <1>5, <2>2 DEF Front
      <3>2. Len(new) <= Len(rows) /\ Len(new) \in Nat /\ Len(rows) \in Nat
        BY <1>5, <2>2 DEF Front
      <3>3. Len(new) <= MaxRows
        BY <3>2, Bound DEF ProperRows
      <3> QED BY <3>1, <3>3 DEF ProperRows
    <2> QED BY <1>5, <2>1, <2>2 DEF Reduced
  <1>6. CASE Len(rows) < MaxRows /\ new \in Extended(rows)
    <2>1. PICK n \in Names \ NamesOf(rows), w \in Wants :
            new = Append(rows, [id |-> NoPool, name |-> n, want |-> w])
      <3> DEFINE Longer(n, w) == Append(rows, [id |-> NoPool, name |-> n, want |-> w])
      <3>1. Extended(rows) = {Longer(n, w) : n \in Names \ NamesOf(rows), w \in Wants}
        BY DEF Extended
      <3> HIDE DEF Longer
      <3>2. \E n \in Names \ NamesOf(rows), w \in Wants : new = Longer(n, w)
        BY <1>6, <3>1
      <3> QED BY <3>2 DEF Longer
    <2>2. [id |-> NoPool, name |-> n, want |-> w] \in Row
      BY DEF Row
    <2>3. /\ new \in Seq(Row)
          /\ DOMAIN new = DOMAIN rows \cup {Len(rows) + 1}
          /\ \A i \in DOMAIN rows : new[i] = rows[i]
          /\ new[Len(rows) + 1].name = n
      BY <2>1, <2>2
    <2>4. \A i \in DOMAIN rows : rows[i].name # n
      BY DEF NamesOf
    <2>5. Len(new) = Len(rows) + 1 /\ Len(rows) \in Nat
      BY <2>1, <2>2
    <2>6. Len(new) <= MaxRows
      BY <1>6, <2>5, Bound
    <2> QED BY <2>3, <2>4, <2>6 DEF ProperRows
  <1> QED BY <1>1, <1>2, <1>3, <1>4, <1>5, <1>6 DEF Edited

-----------------------------------------------------------------------------
(* The objects: phases and names.                                          *)

LEMMA Versions ==
  ASSUME TypeOK
  PROVE  /\ api \in Objects(Row) /\ cache \in Objects(Row) /\ cfg \in Objects(Row)
         /\ watch \in Seq(Objects(Row))
         /\ \A i \in DOMAIN watch : watch[i] \in Objects(Row) /\ watch[i].rv \in Nat
         /\ api.rv \in Nat /\ cache.rv \in Nat /\ cfg.rv \in Nat
         /\ api.rows \in Seq(Row) /\ cache.rows \in Seq(Row) /\ cfg.rows \in Seq(Row)
         /\ WorkerTypeOK(Row)
  <1>1. /\ api \in Objects(Row) /\ cache \in Objects(Row) /\ cfg \in Objects(Row)
        /\ watch \in Seq(Objects(Row)) /\ WorkerTypeOK(Row)
    BY DEF TypeOK, WorkerTypeOK
  <1>2. \A i \in DOMAIN watch : watch[i] \in Objects(Row)
    BY <1>1
  <1> QED BY <1>1, <1>2, ObjectFields

LEMMA NamesOfEmpty == ProperRows(Empty.rows) /\ Empty.rv = 0 /\ Empty.phase = "active"
  <1>1. Len(Empty.rows) = 0 /\ DOMAIN Empty.rows = {}
    BY EmptyObject
  <1> QED BY <1>1, Bound, EmptyObject DEF ProperRows

\* Nothing is written.
LEMMA KeptNames ==
  ASSUME TypeInv, NamesInv, Kept, cache' = cache, cfg' \in {cfg, cache, api', Empty}
  PROVE  NoImport' /\ NamesInv'
  <1>1. api' = api /\ watch' = watch
    BY DEF Kept
  <1>2. NoImport'
    BY <1>1, NamesOfEmpty DEF TypeInv, NoImport
  <1>3. ProperRows(cfg.rows)' /\ SameNames(cfg)'
    <2>1. api.rv \in Nat /\ api.rv >= 1
      BY Versions DEF TypeInv, NamesInv
    <2> QED BY <1>1, <2>1, NamesOfEmpty DEF NamesInv, SameNames
  <1>4. ProperRows(cache.rows)' /\ SameNames(cache)'
    BY <1>1 DEF NamesInv, SameNames
  <1>5. \A k \in DOMAIN watch' : ProperRows(watch'[k].rows) /\ SameNames(watch[k])'
    BY <1>1 DEF NamesInv, SameNames
  <1>6. api'.rv >= 1 /\ ProperRows(api'.rows)
    BY <1>1 DEF NamesInv
  <1> QED BY <1>2, <1>3, <1>4, <1>5, <1>6 DEF NamesInv

\* A new version is written, with different names.
LEMMA WrittenNames ==
  ASSUME TypeInv, NamesInv, NewVersion, cache' = cache, cfg' \in {cfg, cache, api', Empty},
         api' \in Objects(Row), ProperRows(api'.rows), api'.phase # "importing"
  PROVE  NoImport' /\ NamesInv'
  <1>1. api'.rv = api.rv + 1 /\ watch' = Append(watch, api') /\ api.rv \in Nat /\ api.rv >= 1
    BY Versions DEF NewVersion, TypeInv, NamesInv
  <1>2. \A k \in DOMAIN watch' : watch'[k] = api' \/ (k \in DOMAIN watch /\ watch'[k] = watch[k])
    BY <1>1, Versions, AppendElements DEF TypeInv
  <1>3. NoImport'
    BY <1>2, NamesOfEmpty DEF TypeInv, NoImport
  <1>4. ASSUME NEW o, NEW n \in Nat, o.rv = n, n <= api.rv
        PROVE  o.rv <= api'.rv /\ (o.rv = api'.rv => NamesOf(o.rows) = NamesOf(api'.rows))
    BY <1>1, <1>4
  <1>5. cache.rv \in Nat /\ cfg.rv \in Nat /\ cache.rv <= api.rv /\ cfg.rv <= api.rv
    BY Versions DEF TypeInv, NamesInv, SameNames
  <1>6. \A k \in DOMAIN watch : watch[k].rv \in Nat /\ watch[k].rv <= api.rv
    BY Versions DEF TypeInv, NamesInv, SameNames
  <1>7. api'.rv <= api'.rv
    BY <1>1
  <1>8. ProperRows(cache'.rows) /\ SameNames(cache)'
    BY <1>4, <1>5 DEF NamesInv, SameNames
  <1>9. ProperRows(cfg'.rows) /\ SameNames(cfg)'
    <2>1. CASE cfg' = cfg
      BY <2>1, <1>4, <1>5 DEF NamesInv, SameNames
    <2>2. CASE cfg' = cache
      BY <2>2, <1>4, <1>5 DEF NamesInv, SameNames
    <2>3. CASE cfg' = api'
      BY <2>3, <1>7 DEF SameNames
    <2>4. CASE cfg' = Empty
      BY <2>4, <1>1, NamesOfEmpty DEF SameNames
    <2> QED BY <2>1, <2>2, <2>3, <2>4
  <1>10. \A k \in DOMAIN watch' : ProperRows(watch'[k].rows) /\ SameNames(watch[k])'
    <2> TAKE k \in DOMAIN watch'
    <2>1. CASE watch'[k] = api'
      BY <2>1, <1>7 DEF SameNames
    <2>2. CASE k \in DOMAIN watch /\ watch'[k] = watch[k]
      BY <2>2, <1>4, <1>6 DEF NamesInv, SameNames
    <2> QED BY <1>2, <2>1, <2>2
  <1>11. api'.rv >= 1
    BY <1>1
  <1> QED BY <1>3, <1>8, <1>9, <1>10, <1>11 DEF NamesInv

LEMMA SameRowsNames ==
  ASSUME TypeInv, NamesInv, api' \in Objects(Row), RowsAsTheyWere
  PROVE  NoImport' /\ NamesInv'
  <1>1. CASE Kept
    BY <1>1, KeptNames DEF RowsAsTheyWere
  <1>2. CASE NewVersion /\ api'.rows = api.rows /\ api'.phase # "importing"
    BY <1>2, WrittenNames DEF RowsAsTheyWere, NamesInv
  <1> QED BY <1>1, <1>2 DEF RowsAsTheyWere, TypeInv, NoImport

LEMMA DeliverNames ==
  ASSUME TypeInv, NamesInv, Deliver, UNCHANGED <<cfg, err>>
  PROVE  WorkerTypeOK(Row)' /\ NoImport' /\ NamesInv'
  <1>1. /\ WorkerTypeOK(Row)' /\ watch # <<>> /\ api' = api /\ cfg' = cfg
        /\ cache' = watch[1] /\ watch' = Tail(watch)
    BY Versions, DeliverStep DEF TypeInv
  <1>2. /\ 1 \in DOMAIN watch
        /\ \A k \in DOMAIN watch' : k + 1 \in DOMAIN watch /\ watch'[k] = watch[k + 1]
    BY <1>1, Versions, TailElements DEF TypeInv
  <1>3. NoImport'
    BY <1>1, <1>2 DEF TypeInv, NoImport
  <1>4. NamesInv'
    BY <1>1, <1>2 DEF NamesInv, SameNames
  <1> QED BY <1>1, <1>3, <1>4

LEMMA CrashNames ==
  ASSUME TypeInv, NamesInv, Crash
  PROVE  WorkerTypeOK(Row)' /\ NoImport' /\ NamesInv'
  <1>1. /\ WorkerTypeOK(Row)' /\ api' = api /\ cache' = api /\ watch' = <<>> /\ cfg' = Empty
    BY Versions, CrashStep DEF TypeInv
  <1>2. api.rv \in Nat
    BY Versions DEF TypeInv
  <1>3. NoImport'
    BY <1>1, NamesOfEmpty DEF TypeInv, NoImport
  <1>4. NamesInv'
    BY <1>1, <1>2, NamesOfEmpty DEF NamesInv, SameNames
  <1> QED BY <1>1, <1>3, <1>4

\* An id is put into a row: the names stay.
LEMMA AdoptNames ==
  ASSUME TypeInv, NamesInv, index \in DOMAIN cfg.rows, NEW p \in PoolIDs, Adopt(p),
         UNCHANGED <<api, watch, queued, faults, edits, err>>
  PROVE  /\ WorkerTypeOK(Row)' /\ NoImport' /\ NamesInv'
         /\ DOMAIN cfg'.rows = DOMAIN cfg.rows
         /\ \A i \in DOMAIN cfg.rows : cfg'.rows[i].name = cfg.rows[i].name
         /\ cfg'.rv = cfg.rv
  <1> DEFINE rows == [cfg.rows EXCEPT ![index].id = p]
             new == [cfg EXCEPT !.rows = rows]
  <1>1. cfg \in Objects(Row) /\ cfg.rows \in Seq(Row) /\ cfg.rows[index] \in Row
    BY Versions DEF TypeInv
  <1>2. [cfg.rows[index] EXCEPT !.id = p] \in Row
        /\ [cfg.rows[index] EXCEPT !.id = p].name = cfg.rows[index].name
    BY <1>1, RowUpdates
  <1>3. /\ rows \in Seq(Row) /\ DOMAIN rows = DOMAIN cfg.rows
        /\ \A i \in DOMAIN cfg.rows : cfg.rows[i].name = rows[i].name
    BY <1>1, <1>2
  <1>4. NamesOf(rows) = NamesOf(cfg.rows) /\ ProperRows(rows)
    <2>1. ProperRows(cfg.rows)
      BY DEF NamesInv
    <2> HIDE DEF rows
    <2> QED BY <1>1, <1>3, <2>1, SameRowNames
  <1>5. WriteInPlace(new)
    <2>1. [cfg EXCEPT !.rows[index].id = p] = new
      BY <1>1 DEF Objects
    <2> QED BY <2>1 DEF Adopt
  <1> HIDE DEF rows
  <1>6. /\ WorkerTypeOK(Row)' /\ cfg' = new /\ cache' = IF cache.rv = cfg.rv THEN new ELSE cache
    <2>1. WorkerTypeOK(Row) /\ faults' \in 0..MaxFaults /\ err' \in Messages
      BY Versions DEF TypeInv, WorkerTypeOK
    <2> QED BY <1>3, <1>5, <2>1, WriteInPlaceStep
  <1>7. new.rows = rows /\ new.rv = cfg.rv /\ new.phase = cfg.phase
    BY <1>1 DEF Objects
  <1> HIDE DEF new
  <1>8. NoImport'
    BY <1>6, <1>7 DEF TypeInv, NoImport
  <1>9. ProperRows(new.rows) /\ SameNames(new)
    BY <1>4, <1>7 DEF NamesInv, SameNames
  <1>10. NamesInv'
    BY <1>6, <1>9 DEF NamesInv, SameNames
  <1> QED BY <1>3, <1>6, <1>7, <1>8, <1>10

-----------------------------------------------------------------------------
(* The pools in the cloud.                                                 *)

Pools(ps) == ps \in [PoolIDs -> Pool]

LocalsTypeOK ==
  /\ DOMAIN read \subseteq PoolIDs /\ \A p \in DOMAIN read : read[p] \in Pool
  /\ index \in 1..MaxRows + 1 /\ created \in BOOLEAN /\ applied \in BOOLEAN

LEMMA TypeParts ==
  TypeOK <=> WorkerTypeOK(Row) /\ pc \in PCs /\ Pools(pools) /\ LocalsTypeOK
  BY DEF TypeOK, Pools, LocalsTypeOK

LEMMA PoolParts ==
  ASSUME NEW x \in Pool
  PROVE  x.state \in PoolStates /\ x.has \in Detail
  BY DEF Pool

\* Those there are, by their state.
LEMMA LivePools ==
  ASSUME NEW ps, Pools(ps)
  PROVE  /\ LiveIn(ps) \subseteq PoolIDs /\ DOMAIN ps = PoolIDs
         /\ \A p \in PoolIDs : p \in LiveIn(ps) <=> ps[p].state \in {"creating", "normal", "updating"}
         /\ \A p \in PoolIDs : ps[p] \in Pool
  BY DEF LiveIn, Pools

LEMMA CreateEffect ==
  ASSUME Pools(pools), NEW r \in Row, CreateVirtualPool(r)
  PROVE  /\ Pools(pools') /\ NextPool \in PoolIDs
         /\ pools'[NextPool].has.name = r.name
         /\ LiveIn(pools') = Live \cup {NextPool}
         /\ \A p \in PoolIDs : p # NextPool => pools'[p] = pools[p]
  <1> DEFINE made == AsAsked(r)
  <1>1. made \in Detail /\ made.name = r.name
    BY MadeType
  <1>2. NextPool \in PoolIDs /\ pools' = [pools EXCEPT ![NextPool] = [state |-> "creating", has |-> made]]
    BY DEF CreateVirtualPool
  <1> HIDE DEF made
  <1>3. [state |-> "creating", has |-> made] \in Pool
    BY <1>1 DEF Pool, PoolStates
  <1>4. /\ Pools(pools') /\ pools'[NextPool] = [state |-> "creating", has |-> made]
        /\ \A p \in PoolIDs : p # NextPool => pools'[p] = pools[p]
    BY <1>2, <1>3 DEF Pools
  <1>5. LiveIn(pools') = Live \cup {NextPool}
    BY <1>2, <1>4, LivePools DEF Live
  <1>6. pools'[NextPool].has.name = r.name
    BY <1>1, <1>4
  <1> QED BY <1>2, <1>4, <1>5, <1>6

LEMMA DeleteEffect ==
  ASSUME Pools(pools), NEW ids \in SUBSET PoolIDs, DeleteVirtualPools(ids)
  PROVE  /\ Pools(pools') /\ LiveIn(pools') = Live \ ids
         /\ \A p \in PoolIDs : p \notin ids => pools'[p] = pools[p]
  <1>1. [state |-> "deleting", has |-> NoDetail] \in Pool
    BY NoDetailType DEF Pool, PoolStates
  <1>2. /\ Pools(pools')
        /\ \A p \in PoolIDs : pools'[p] = IF p \in ids THEN [state |-> "deleting", has |-> NoDetail]
                                                       ELSE pools[p]
    BY <1>1 DEF Pools, DeleteVirtualPools
  <1>3. LiveIn(pools') = Live \ ids
    BY <1>2, LivePools DEF Live
  <1> QED BY <1>2, <1>3

\* What was read of a pool is the ground of the modification, r is the row's detail.
LEMMA ModifyEffect ==
  ASSUME Pools(pools), NEW p \in PoolIDs, NEW d \in Detail, d.name # NoName, NEW r \in Detail,
         ModifyVirtualPool(p, Diff(d, r))
  PROVE  /\ Pools(pools')
         /\ \A q \in PoolIDs : q # p => pools'[q] = pools[q]
         /\ pools'[p].has.name \in {pools[p].has.name, d.name}
         /\ Live \subseteq LiveIn(pools') /\ LiveIn(pools') \subseteq Live \cup {p}
  <1> DEFINE new == After(pools[p].has, Diff(d, r))
  <1>1. pools[p] \in Pool /\ pools[p].has \in Detail
    BY LivePools, PoolParts
  <1>2. new \in Detail /\ new.name \in {pools[p].has.name, d.name}
    BY <1>1, AfterDiff
  <1>3. pools' = [pools EXCEPT ![p] = IF Applied(pools[p].has, Diff(d, r))
                                      THEN [state |-> "updating", has |-> new] ELSE pools[p]]
    BY DEF ModifyVirtualPool
  <1> HIDE DEF new
  <1>4. [state |-> "updating", has |-> new] \in Pool
    BY <1>2 DEF Pool, PoolStates
  <1>5. /\ Pools(pools') /\ \A q \in PoolIDs : q # p => pools'[q] = pools[q]
        /\ pools'[p] \in {pools[p], [state |-> "updating", has |-> new]}
    BY <1>1, <1>3, <1>4 DEF Pools
  <1>6. pools'[p].has.name \in {pools[p].has.name, d.name}
    BY <1>2, <1>5
  <1>7. pools'[p].state \in {pools[p].state, "updating"}
    BY <1>5
  <1>8. Live \subseteq LiveIn(pools') /\ LiveIn(pools') \subseteq Live \cup {p}
    BY <1>5, <1>7, LivePools DEF Live
  <1> QED BY <1>5, <1>6, <1>8

LEMMA ProgressEffect ==
  ASSUME Pools(pools), NEW p \in PoolIDs, PoolProgress(p)
  PROVE  /\ Pools(pools') /\ LiveIn(pools') = Live
         /\ \A q \in PoolIDs : pools'[q].has = pools[q].has
  <1> DEFINE s == IF pools[p].state = "deleting" THEN "gone" ELSE "normal"
             new == [pools[p] EXCEPT !.state = s]
  <1>1. pools[p] \in Pool
    BY LivePools
  <1>2. pools' = [pools EXCEPT ![p] = new] /\ pools[p].state \in {"creating", "updating", "deleting"}
    BY DEF PoolProgress, Busy
  <1>3. new \in Pool /\ new.has = pools[p].has /\ new.state = s
    BY <1>1 DEF Pool, PoolStates
  <1> HIDE DEF new
  <1>4. /\ Pools(pools') /\ pools'[p] = new
        /\ \A q \in PoolIDs : q # p => pools'[q] = pools[q]
    BY <1>2, <1>3 DEF Pools
  <1>5. LiveIn(pools') = Live
    BY <1>2, <1>3, <1>4, LivePools DEF Live
  <1>6. \A q \in PoolIDs : pools'[q].has = pools[q].has
    BY <1>3, <1>4
  <1> QED BY <1>4, <1>5, <1>6

-----------------------------------------------------------------------------
(* Names of pools.                                                         *)

\* Nothing but the states changes.
LEMMA SamePools ==
  ASSUME Pools(pools), OnePoolPerName, LiveIn(pools') = Live,
         \A p \in Live : pools'[p].has = pools[p].has
  PROVE  OnePoolPerName'
  BY DEF OnePoolPerName, Live

\* A pass that is not in one of its loops owes nothing.
LEMMA NoPass ==
  ASSUME pc' \notin {"delete", "create", "modify"}
  PROVE  PassInv'
  BY DEF PassInv

-----------------------------------------------------------------------------
(* The steps that leave the pools alone.                                   *)

\* The step keeps the invariant and takes no pool away.
StepOK == PoolsInv' /\ Live \subseteq LiveIn(pools')

LEMMA OutsideStep ==
  ASSUME PoolsInv, WorkerTypeOK(Row)', NoImport', NamesInv', LocalsTypeOK', pools' = pools,
         pc' \in PCs \ {"delete", "create", "modify"}
  PROVE  StepOK
  <1>1. TypeOK'
    BY TypeParts DEF PoolsInv, TypeInv, TypeOK, Pools, LocalsTypeOK
  <1>2. OnePoolPerName' /\ Live \subseteq LiveIn(pools')
    BY DEF PoolsInv, OnePoolPerName, Live
  <1> QED BY <1>1, <1>2, NoPass DEF StepOK, PoolsInv, TypeInv

\* A step of somebody else.
LEMMA BesideStep ==
  ASSUME PoolsInv, WorkerTypeOK(Row)', NoImport', NamesInv', UNCHANGED <<pc, cfg, poolVars>>
  PROVE  StepOK
  <1>1. TypeOK'
    BY DEF PoolsInv, TypeInv, TypeOK, poolVars
  <1>2. OnePoolPerName' /\ Live \subseteq LiveIn(pools')
    BY DEF PoolsInv, OnePoolPerName, Live, poolVars
  <1>3. PassInv'
    BY DEF PoolsInv, PassInv, ReadAs, ByEarlierRow, Live, poolVars
  <1> QED BY <1>1, <1>2, <1>3 DEF StepOK, PoolsInv, TypeInv

\* A step of the worker that writes no row and is in no loop afterwards.
LEMMA StatusStep ==
  ASSUME PoolsInv, WorkerTypeOK(Row)', RowsAsTheyWere, UNCHANGED poolVars,
         pc' \in PCs \ {"delete", "create", "modify"}
  PROVE  StepOK
  <1>1. api' \in Objects(Row)
    BY DEF WorkerTypeOK
  <1>2. NoImport' /\ NamesInv'
    BY <1>1, SameRowsNames DEF PoolsInv
  <1>3. LocalsTypeOK' /\ pools' = pools
    BY TypeParts DEF PoolsInv, TypeInv, LocalsTypeOK, poolVars
  <1> QED BY <1>2, <1>3, OutsideStep

LEMMA ForgetLocals ==
  ASSUME Forget
  PROVE  LocalsTypeOK' /\ pools' = pools
  <1>1. DOMAIN read' = {}
    BY DEF Forget
  <1>2. index' = 1 /\ created' = FALSE /\ applied' = FALSE /\ pools' = pools
    BY DEF Forget
  <1>3. DOMAIN read' \subseteq PoolIDs /\ \A p \in DOMAIN read' : read'[p] \in Pool
    BY <1>1
  <1>4. index' \in 1..MaxRows + 1
    BY <1>2, Bound
  <1>5. created' \in BOOLEAN /\ applied' \in BOOLEAN
    BY <1>2
  <1> QED BY <1>2, <1>3, <1>4, <1>5 DEF LocalsTypeOK

LEMMA RecordErrorOK ==
  ASSUME PoolsInv, RecordError, Forget
  PROVE  StepOK
  <1>1. WorkerTypeOK(Row)' /\ RowsAsTheyWere /\ pc' = "end"
    BY Versions, RecordErrorStep DEF PoolsInv, TypeInv
  <1>2. api' \in Objects(Row)
    BY <1>1 DEF WorkerTypeOK
  <1>3. NoImport' /\ NamesInv'
    BY <1>1, <1>2, SameRowsNames DEF PoolsInv
  <1> QED BY <1>1, <1>3, ForgetLocals, OutsideStep DEF PCs

LEMMA RestartOK ==
  ASSUME PoolsInv, Restart
  PROVE  StepOK
  <1>1. WorkerTypeOK(Row)' /\ NoImport' /\ NamesInv' /\ pc' = "idle"
    BY CrashNames DEF PoolsInv, Restart, Crash
  <1> QED BY <1>1, ForgetLocals, OutsideStep DEF PCs, Restart

LEMMA InformerOK ==
  ASSUME PoolsInv, Informer
  PROVE  StepOK
  <1>1. Deliver /\ UNCHANGED <<cfg, err>> /\ UNCHANGED <<pc, cfg, poolVars>>
    BY DEF Informer, workerVars
  <1> QED BY <1>1, DeliverNames, BesideStep DEF PoolsInv

LEMMA UserEditOK ==
  ASSUME PoolsInv, UserEdit
  PROVE  StepOK
  <1>1. PICK rows \in Edited(api.rows) : Publish([api EXCEPT !.rows = rows])
    BY DEF UserEdit
  <1>2. rows \in Seq(Row) /\ ProperRows(rows)
    BY <1>1, EditedRows, Versions DEF PoolsInv, TypeInv, NamesInv
  <1>3. /\ WorkerTypeOK(Row)' /\ NewVersion /\ api'.rows = rows /\ api'.phase = api.phase
        /\ cache' = cache /\ cfg' = cfg
    BY <1>1, <1>2, Versions, RowsStep DEF PoolsInv, TypeInv, UserEdit
  <1>4. api' \in Objects(Row)
    BY <1>3 DEF WorkerTypeOK
  <1>5. NoImport' /\ NamesInv'
    BY <1>2, <1>3, <1>4, WrittenNames DEF PoolsInv, TypeInv, NoImport
  <1> QED BY <1>3, <1>5, BesideStep DEF UserEdit, workerVars

\* A row that got its id by its name keeps the name.
LEMMA FilledRows ==
  ASSUME TypeOK, NEW rows \in Seq(Row)
  PROVE  /\ Filled(rows) \in Seq(Row) /\ DOMAIN Filled(rows) = DOMAIN rows
         /\ \A i \in DOMAIN rows : rows[i].name = Filled(rows)[i].name
  <1> DEFINE ids(i) == {cfg.rows[j].id : j \in {j \in DOMAIN cfg.rows :
                                                  cfg.rows[j].name = rows[i].name}} \ {NoPool}
             f(i) == IF rows[i].id = NoPool /\ ids(i) # {}
                     THEN [rows[i] EXCEPT !.id = CHOOSE p \in ids(i) : TRUE] ELSE rows[i]
  <1>1. \A i : ids(i) \subseteq PoolIDs
    <2>1. \A j \in DOMAIN cfg.rows : cfg.rows[j] \in Row
      BY Versions
    <2>2. \A j \in DOMAIN cfg.rows : cfg.rows[j].id \in PoolIDs \cup {NoPool}
      BY <2>1 DEF Row
    <2> QED BY <2>2
  <1>2. Filled(rows) = [i \in DOMAIN rows |-> f(i)]
    BY DEF Filled
  <1> HIDE DEF ids
  <1>3. \A i \in DOMAIN rows : f(i) \in Row /\ f(i).name = rows[i].name
    <2> TAKE i \in DOMAIN rows
    <2> DEFINE p == CHOOSE p \in ids(i) : TRUE
    <2>1. ids(i) # {} => p \in PoolIDs
      BY <1>1
    <2>2. rows[i] \in Row
      OBVIOUS
    <2> HIDE DEF p
    <2>3. ids(i) # {} => [rows[i] EXCEPT !.id = p] \in Row
                         /\ [rows[i] EXCEPT !.id = p].name = rows[i].name
      BY <2>1, <2>2, RowUpdates
    <2> QED BY <2>2, <2>3 DEF p
  <1> HIDE DEF f
  <1>4. Len(rows) \in Nat /\ DOMAIN rows = 1..Len(rows)
    OBVIOUS
  <1>5. Filled(rows) = [i \in 1..Len(rows) |-> f(i)]
    BY <1>2, <1>4
  <1> HIDE DEF Filled
  <1>6. Filled(rows) \in Seq(Row) /\ DOMAIN Filled(rows) = DOMAIN rows
    BY <1>3, <1>4, <1>5
  <1>7. \A i \in DOMAIN rows : rows[i].name = Filled(rows)[i].name
    BY <1>3, <1>4, <1>5
  <1> QED BY <1>6, <1>7

LEMMA SaveRowsOK ==
  ASSUME PoolsInv, SaveRows
  PROVE  StepOK
  <1> DEFINE new == [cache EXCEPT !.rows = Filled(cache.rows)]
  <1>1. TypeOK /\ cache \in Objects(Row) /\ cache.rows \in Seq(Row) /\ WorkerTypeOK(Row)
    BY Versions DEF PoolsInv, TypeInv
  <1>2. Filled(cache.rows) \in Seq(Row) /\ ProperRows(Filled(cache.rows))
    BY <1>1, FilledRows, SameRowNames DEF PoolsInv, NamesInv
  <1>3. new \in Objects(Row) /\ new.rows = Filled(cache.rows)
    BY <1>1, <1>2 DEF Objects
  <1>4. PICK res \in WriteResults :
          /\ Update(new, res)
          /\ \/ res = "ok" /\ Return(api', "none")
             \/ res = "conflict" /\ Continue("saveRows")
             \/ res # "ok" /\ Return(cfg, "store")
    BY DEF SaveRows
  <1> HIDE DEF new
  <1>5. /\ StoreTyped(Row)
        /\ Kept \/ (NewVersion /\ api'.rows = new.rows /\ api'.phase = api.phase)
    BY <1>1, <1>3, <1>4, UpdateEffect
  <1>6. /\ cfg' \in {cfg, api'} /\ err' \in {err, "none", "store"} /\ pc' \in {"record", "saveRows"}
        /\ cache' = cache /\ queued' = queued /\ edits' = edits /\ UNCHANGED poolVars
    BY <1>4 DEF SaveRows, Return, Continue
  <1>7. WorkerTypeOK(Row)'
    BY <1>1, <1>5, <1>6 DEF WorkerTypeOK, StoreTyped, Messages
  <1>8. NoImport' /\ NamesInv'
    <2>1. CASE Kept
      BY <1>6, <2>1, KeptNames DEF PoolsInv
    <2>2. CASE NewVersion /\ api'.rows = new.rows /\ api'.phase = api.phase
      <3>1. api' \in Objects(Row) /\ ProperRows(api'.rows) /\ api'.phase # "importing"
        BY <1>2, <1>3, <1>5, <2>2 DEF StoreTyped, PoolsInv, TypeInv, NoImport
      <3> QED BY <1>6, <2>2, <3>1, WrittenNames DEF PoolsInv
    <2> QED BY <1>5, <2>1, <2>2
  <1>9. LocalsTypeOK' /\ pools' = pools
    BY <1>1, <1>6, TypeParts DEF LocalsTypeOK, poolVars
  <1> QED BY <1>6, <1>7, <1>8, <1>9, OutsideStep DEF PCs

\* The steps before and between the loops.
LEMMA ReadFailsOK ==
  ASSUME PoolsInv, ReadFails
  PROVE  StepOK
  <1>1. /\ UNCHANGED <<storeVars, edits>> /\ cfg' \in {cfg, Empty} /\ err' \in Messages
        /\ CallFails /\ UNCHANGED poolVars /\ pc' = "record"
    BY DEF ReadFails, Return, Messages
  <1>2. WorkerTypeOK(Row)' /\ RowsAsTheyWere
    BY <1>1, Versions, QuietStep DEF PoolsInv, TypeInv
  <1> QED BY <1>1, <1>2, StatusStep DEF PCs

LEMMA ModifyDoneOK ==
  ASSUME PoolsInv, ModifyDone
  PROVE  StepOK
  <1>1. /\ UNCHANGED <<storeVars, edits>> /\ cfg' \in {cfg, Empty} /\ err' \in Messages
        /\ UNCHANGED faults /\ UNCHANGED poolVars /\ pc' \in {"enqueue", "finish"}
    BY Versions DEF PoolsInv, TypeInv, WorkerTypeOK, ModifyDone, Continue
  <1>2. WorkerTypeOK(Row)' /\ RowsAsTheyWere
    BY <1>1, Versions, QuietStep DEF PoolsInv, TypeInv
  <1> QED BY <1>1, <1>2, StatusStep DEF PCs

\* A step within a reconcile that changes nothing but locals.
LEMMA LocalStep ==
  ASSUME PoolsInv, UNCHANGED <<storeVars, faults, edits, cfg, err, pools>>
  PROVE  /\ WorkerTypeOK(Row)' /\ NoImport' /\ NamesInv' /\ OnePoolPerName' /\ Pools(pools')
         /\ Live' = Live /\ Live \subseteq LiveIn(pools')
  <1>1. cfg' \in {cfg, Empty} /\ err' \in Messages /\ api' = api
    BY Versions DEF PoolsInv, TypeInv, WorkerTypeOK, storeVars
  <1>2. WorkerTypeOK(Row)' /\ RowsAsTheyWere
    BY <1>1, Versions, QuietStep DEF PoolsInv, TypeInv
  <1>3. NoImport' /\ NamesInv'
    BY <1>1, <1>2, SameRowsNames, Versions DEF PoolsInv, TypeInv
  <1>4. OnePoolPerName' /\ Pools(pools') /\ Live' = Live /\ Live \subseteq LiveIn(pools')
    BY TypeParts DEF PoolsInv, TypeInv, OnePoolPerName, Live
  <1> QED BY <1>2, <1>3, <1>4

LEMMA ReadOK ==
  ASSUME PoolsInv, Read
  PROVE  StepOK
  <1>1. /\ UNCHANGED <<storeVars, faults, edits, cfg, err, pools>> /\ pc' = "delete"
        /\ read' = [p \in There |-> pools[p]]
        /\ UNCHANGED <<index, created, applied>>
        /\ cfg.rows = <<>> \/ Busy = {}
    BY DEF Read, Continue
  <1>2. /\ WorkerTypeOK(Row)' /\ NoImport' /\ NamesInv' /\ OnePoolPerName' /\ Pools(pools')
        /\ Live' = Live /\ Live \subseteq LiveIn(pools')
    BY <1>1, LocalStep
  <1>3. Pools(pools) /\ LocalsTypeOK
    BY TypeParts DEF PoolsInv, TypeInv
  <1>4. \A p \in There : p \in PoolIDs /\ pools[p] \in Pool
    BY <1>3, LivePools DEF There
  <1>5. DOMAIN read' = There /\ \A p \in There : read'[p] = pools[p]
    BY <1>1
  <1>6. LocalsTypeOK'
    BY <1>1, <1>3, <1>4, <1>5 DEF LocalsTypeOK
  <1>7. Live \subseteq There
    BY <1>3, LivePools DEF Live, There
  <1>8. \A p \in Live : p \in LiveIn(read')
    BY <1>5, <1>7, <1>3, LivePools DEF Live, LiveIn
  <1>9. Busy = {} => There \subseteq Live
    <2>1. \A p \in There : pools[p].state \in PoolStates
      BY <1>4, PoolParts
    <2> QED BY <2>1, <1>3, LivePools DEF Busy, There, Live, PoolStates
  <1>10. cfg.rows # <<>> => \A p, q \in DOMAIN read' :
           read'[p].has.name = read'[q].has.name => p = q
    BY <1>1, <1>5, <1>9 DEF PoolsInv, OnePoolPerName
  <1>11. PassInv'
    BY <1>1, <1>2, <1>5, <1>7, <1>8, <1>9, <1>10 DEF PassInv
  <1>12. TypeOK'
    BY <1>1, <1>2, <1>6, TypeParts DEF TypeOK, Pools, LocalsTypeOK, PCs
  <1> QED BY <1>2, <1>11, <1>12 DEF StepOK, PoolsInv, TypeInv

LEMMA NoneUnlistedOK ==
  ASSUME PoolsInv, NoneUnlisted
  PROVE  StepOK
  <1>1. /\ UNCHANGED <<storeVars, faults, edits, cfg, err, pools>> /\ pc = "delete"
        /\ pc' = IF cfg.rows = <<>> THEN "finish" ELSE "create"
        /\ index' = 1 /\ UNCHANGED <<read, created, applied>>
    BY DEF NoneUnlisted, Continue
  <1>2. /\ WorkerTypeOK(Row)' /\ NoImport' /\ NamesInv' /\ OnePoolPerName' /\ Pools(pools')
        /\ Live' = Live /\ Live \subseteq LiveIn(pools')
    BY <1>1, LocalStep
  <1>3. LocalsTypeOK'
    BY <1>1, TypeParts, Bound DEF PoolsInv, TypeInv, LocalsTypeOK
  <1>4. \A p \in Live : ReadAs(p)'
    BY <1>1 DEF PoolsInv, PassInv, ReadAs
  <1>5. PassInv'
    BY <1>1, <1>2, <1>4 DEF PoolsInv, PassInv
  <1>6. TypeOK'
    BY <1>1, <1>2, <1>3 DEF TypeOK, Pools, LocalsTypeOK, PCs
  <1> QED BY <1>2, <1>5, <1>6 DEF StepOK, PoolsInv, TypeInv

LEMMA CreateDoneOK ==
  ASSUME PoolsInv, CreateDone
  PROVE  StepOK
  <1>1. /\ UNCHANGED <<storeVars, faults, edits, cfg, err, pools>> /\ pc = "create"
        /\ pc' = IF created THEN "saveRows" ELSE "modify"
        /\ index' = 1 /\ UNCHANGED <<read, created, applied>>
    BY DEF CreateDone, Continue
  <1>2. /\ WorkerTypeOK(Row)' /\ NoImport' /\ NamesInv' /\ OnePoolPerName' /\ Pools(pools')
        /\ Live' = Live /\ Live \subseteq LiveIn(pools')
    BY <1>1, LocalStep
  <1>3. LocalsTypeOK'
    BY <1>1, TypeParts, Bound DEF PoolsInv, TypeInv, LocalsTypeOK
  <1>4. ~created => \A p \in Live : ReadAs(p)'
    BY <1>1 DEF PoolsInv, PassInv, ReadAs
  <1>5. PassInv'
    BY <1>1, <1>2, <1>4 DEF PoolsInv, PassInv
  <1>6. TypeOK'
    BY <1>1, <1>2, <1>3 DEF TypeOK, Pools, LocalsTypeOK, PCs
  <1> QED BY <1>2, <1>5, <1>6 DEF StepOK, PoolsInv, TypeInv

\* Of the pools that go, none is one the rows have.
LEMMA DeleteUnlistedOK ==
  ASSUME PoolsInv, DeleteUnlisted
  PROVE  /\ PoolsInv'
         /\ \A p \in Live \ LiveIn(pools') : pools[p].has.name \notin NamesOf(cfg.rows)
  <1>1. /\ UNCHANGED <<storeVars, edits>> /\ UNCHANGED <<read, index, created, applied>>
        /\ pc = "delete" /\ pc' \in {"enqueue", "record"} /\ cfg' = cfg
        /\ err' = err \/ err' = "cloud"
        /\ UNCHANGED faults \/ CallFails
        /\ pools' = pools \/ DeleteVirtualPools(Unlisted)
    BY DEF DeleteUnlisted, Continue, Return
  <1>2. cfg' \in {cfg, Empty} /\ err' \in Messages
    <2>1. err \in Messages /\ "cloud" \in Messages
      BY DEF PoolsInv, TypeInv, TypeOK, WorkerTypeOK, Messages
    <2>2. cfg' = cfg /\ (err' = err \/ err' = "cloud")
      BY <1>1
    <2> QED BY <2>1, <2>2
  <1>3. WorkerTypeOK(Row)' /\ RowsAsTheyWere
    BY <1>1, <1>2, Versions, QuietStep DEF PoolsInv, TypeInv
  <1>4. NoImport' /\ NamesInv'
    <2>1. api' \in Objects(Row)
      BY <1>3 DEF WorkerTypeOK
    <2> QED BY <1>3, <2>1, SameRowsNames DEF PoolsInv
  <1>5. Pools(pools) /\ LocalsTypeOK
    BY TypeParts DEF PoolsInv, TypeInv
  <1>6. Unlisted \in SUBSET PoolIDs
    BY <1>5 DEF Unlisted, LiveIn, LocalsTypeOK
  <1>7. /\ Pools(pools') /\ LiveIn(pools') \subseteq Live
        /\ \A p \in LiveIn(pools') : pools'[p] = pools[p]
        /\ Live \ LiveIn(pools') \subseteq Unlisted
    <2>1. CASE pools' = pools
      BY <1>5, <2>1 DEF Live
    <2>2. CASE DeleteVirtualPools(Unlisted)
      BY <1>5, <1>6, <2>2, DeleteEffect, LivePools DEF Live
    <2> QED BY <1>1, <2>1, <2>2
  <1>8. OnePoolPerName'
    BY <1>7 DEF PoolsInv, OnePoolPerName, Live
  <1>9. LocalsTypeOK'
    BY <1>1, <1>5 DEF LocalsTypeOK
  <1>10. TypeOK'
    BY <1>1, <1>3, <1>7, <1>9 DEF TypeOK, Pools, LocalsTypeOK, PCs
  <1>11. \A p \in Live \ LiveIn(pools') : pools[p].has.name \notin NamesOf(cfg.rows)
    BY <1>1, <1>7 DEF PoolsInv, PassInv, Unlisted
  <1> QED BY <1>1, <1>4, <1>8, <1>10, <1>11, NoPass DEF PoolsInv, TypeInv

LEMMA PoolProgressOK ==
  ASSUME PoolsInv, NEW p \in PoolIDs, PoolProgress(p)
  PROVE  StepOK
  <1>1. UNCHANGED <<storeVars, faults, edits, workerVars, read, index, created, applied>>
    BY DEF PoolProgress
  <1>2. Pools(pools) /\ LocalsTypeOK
    BY TypeParts DEF PoolsInv, TypeInv
  <1>3. /\ Pools(pools') /\ LiveIn(pools') = Live
        /\ \A q \in PoolIDs : pools'[q].has = pools[q].has
    BY <1>2, ProgressEffect
  <1>4. Live' = Live /\ Live \subseteq PoolIDs
    BY <1>2, <1>3, LivePools DEF Live
  <1>5. OnePoolPerName'
    BY <1>3, <1>4 DEF PoolsInv, OnePoolPerName
  <1>6. TypeOK' /\ NoImport' /\ NamesInv'
    BY <1>1, <1>3 DEF PoolsInv, TypeInv, TypeOK, WorkerTypeOK, Pools, NoImport, NamesInv, SameNames,
                      storeVars, workerVars
  <1>7. \A q \in Live : /\ ReadAs(q)' <=> ReadAs(q)
                        /\ ByEarlierRow(q)' <=> ByEarlierRow(q)
    BY <1>1, <1>3, <1>4 DEF ReadAs, ByEarlierRow, workerVars
  <1>8. PassInv'
    BY <1>1, <1>3, <1>4, <1>7 DEF PoolsInv, PassInv, workerVars
  <1> QED BY <1>3, <1>5, <1>6, <1>8 DEF StepOK, PoolsInv, TypeInv

-----------------------------------------------------------------------------
(* The loops over the rows.                                                *)

Loops == {"create", "modify"}

LEMMA InLoop ==
  ASSUME PoolsInv, NEW loop \in Loops, AtRow(loop)
  PROVE  /\ pc = loop /\ index \in DOMAIN cfg.rows /\ index \in Nat /\ row \in Row
         /\ Existing \subseteq DOMAIN read /\ DOMAIN read \subseteq Live /\ Live \subseteq PoolIDs
         /\ \A p \in DOMAIN read : read[p] \in Pool /\ read[p].has \in Detail
         /\ \A j \in DOMAIN cfg.rows : j \in Nat /\ (j < index => cfg.rows[j].name # row.name)
         /\ Pools(pools) /\ LocalsTypeOK
  <1>1. pc = loop /\ index \in DOMAIN cfg.rows /\ cfg.rows \in Seq(Row)
    BY Versions DEF AtRow, PoolsInv, TypeInv
  <1>2. index \in Nat /\ row \in Row /\ cfg.rows # <<>>
    BY <1>1 DEF row
  <1>3. Pools(pools) /\ LocalsTypeOK
    BY TypeParts DEF PoolsInv, TypeInv
  <1>4. Existing \subseteq DOMAIN read /\ DOMAIN read \subseteq Live /\ Live \subseteq PoolIDs
    BY <1>1, <1>2, <1>3, LivePools DEF Existing, ByName, PoolsInv, PassInv, Live, Loops
  <1>5. \A p \in DOMAIN read : read[p] \in Pool /\ read[p].has \in Detail
    BY <1>3, PoolParts DEF LocalsTypeOK
  <1>6. \A j \in DOMAIN cfg.rows : j \in Nat /\ (j < index => cfg.rows[j].name # row.name)
    <2>1. ProperRows(cfg.rows)
      BY DEF PoolsInv, NamesInv
    <2> QED BY <1>1, <1>2, <2>1 DEF ProperRows, row
  <1> QED BY <1>1, <1>2, <1>3, <1>4, <1>5, <1>6

\* The row has at most one pool, and no other pool has its name.
LEMMA RowsPool ==
  ASSUME PoolsInv, NEW loop \in Loops, AtRow(loop)
  PROVE  /\ \A p, q \in Existing : p = q
         /\ \A q \in Live \ Existing : pools[q].has.name # row.name
  <1>1. /\ pc \in Loops /\ cfg.rows # <<>>
        /\ \A j \in DOMAIN cfg.rows : j < index => cfg.rows[j].name # row.name
    BY InLoop DEF PoolsInv, PassInv, Loops
  <1>2. \A p, q \in DOMAIN read : read[p].has.name = read[q].has.name => p = q
    BY <1>1 DEF PoolsInv, PassInv, Loops
  <1>3. \A p, q \in ByName : p = q
    BY <1>2 DEF ByName
  <1>4. \A p, q \in Existing : p = q
    BY <1>3 DEF Existing
  <1>5. ASSUME NEW q \in Live \ Existing
        PROVE  pools[q].has.name # row.name
    <2>1. ReadAs(q) \/ ByEarlierRow(q)
      BY <1>1 DEF PoolsInv, PassInv, Loops
    <2>2. CASE ByEarlierRow(q)
      BY <1>1, <2>2 DEF ByEarlierRow
    <2>3. CASE ReadAs(q)
      <3>1. q \in DOMAIN read /\ read[q].has.name = pools[q].has.name
        BY <2>3 DEF ReadAs
      <3>2. q \notin ByName
        BY DEF Existing
      <3> QED BY <3>1, <3>2 DEF ByName
    <2> QED BY <2>1, <2>2, <2>3
  <1> QED BY <1>4, <1>5

\* The loop goes on: a pool has the name it had, or the row's.
LEMMA NextRowOK ==
  ASSUME PoolsInv, NEW loop \in Loops, AtRow(loop),
         pc' = pc, index' = index + 1, read' = read,
         created' \in BOOLEAN, applied' \in BOOLEAN, created => created',
         DOMAIN cfg'.rows = DOMAIN cfg.rows,
         \A i \in DOMAIN cfg.rows : cfg'.rows[i].name = cfg.rows[i].name,
         WorkerTypeOK(Row)', NoImport', NamesInv', OnePoolPerName',
         Pools(pools'), Live \subseteq LiveIn(pools'),
         \A q \in LiveIn(pools') :
           \/ q \in Live /\ pools'[q].has.name = pools[q].has.name
           \/ pools'[q].has.name = row.name /\ (loop = "create" => created')
  PROVE  StepOK
  <1>1. /\ pc = loop /\ index \in DOMAIN cfg.rows /\ index \in Nat
        /\ DOMAIN read \subseteq Live /\ LocalsTypeOK
        /\ \A j \in DOMAIN cfg.rows : j \in Nat
    BY InLoop
  <1>2. TypeOK'
    <2>1. index' \in 1..MaxRows + 1
      <3>1. index <= Len(cfg.rows) /\ Len(cfg.rows) \in Nat /\ Len(cfg.rows) <= MaxRows
        BY <1>1, Versions DEF PoolsInv, TypeInv, NamesInv, ProperRows
      <3> QED BY <1>1, <3>1, Bound DEF LocalsTypeOK
    <2>2. LocalsTypeOK'
      BY <1>1, <2>1 DEF LocalsTypeOK
    <2>3. pc' \in PCs
      BY DEF PoolsInv, TypeInv, TypeOK
    <2> QED BY <2>2, <2>3 DEF TypeOK, LocalsTypeOK, Pools
  <1>3. Live' = LiveIn(pools')
    BY DEF Live
  <1>4. ASSUME NEW q \in Live, pools'[q].has.name = pools[q].has.name
        PROVE  /\ ReadAs(q) => ReadAs(q)'
               /\ ByEarlierRow(q) => ByEarlierRow(q)'
    <2>1. \A j \in DOMAIN cfg.rows : j < index => j < index'
      BY <1>1
    <2>2. ByEarlierRow(q) => ByEarlierRow(q)'
      BY <1>4, <2>1 DEF ByEarlierRow
    <2> QED BY <1>4, <2>2 DEF ReadAs
  <1>5. ASSUME NEW q, pools'[q].has.name = row.name
        PROVE  ByEarlierRow(q)'
    <2>1. index < index' /\ index \in DOMAIN cfg'.rows
      BY <1>1
    <2>2. cfg'.rows[index].name = pools'[q].has.name
      BY <1>1, <1>5 DEF row
    <2> QED BY <2>1, <2>2 DEF ByEarlierRow
  <1>6. loop = "create" => \A q \in LiveIn(pools') : ReadAs(q)' \/ (created' /\ ByEarlierRow(q)')
    <2> SUFFICES ASSUME loop = "create"
                 PROVE  \A q \in LiveIn(pools') : ReadAs(q)' \/ (created' /\ ByEarlierRow(q)')
      OBVIOUS
    <2>1. \A q \in Live : ReadAs(q) \/ (created /\ ByEarlierRow(q))
      BY <1>1 DEF PoolsInv, PassInv
    <2> QED BY <1>4, <1>5, <2>1
  <1>7. loop = "modify" => \A q \in LiveIn(pools') : ReadAs(q)' \/ ByEarlierRow(q)'
    <2> SUFFICES ASSUME loop = "modify"
                 PROVE  \A q \in LiveIn(pools') : ReadAs(q)' \/ ByEarlierRow(q)'
      OBVIOUS
    <2>1. \A q \in Live : ReadAs(q) \/ ByEarlierRow(q)
      BY <1>1 DEF PoolsInv, PassInv
    <2> QED BY <1>4, <1>5, <2>1
  <1>8. cfg'.rows # <<>>
    <2>1. index \in DOMAIN cfg'.rows
      BY <1>1
    <2> QED BY <2>1
  <1>9. /\ DOMAIN read' \subseteq LiveIn(pools')
        /\ \A p, q \in DOMAIN read' : read'[p].has.name = read'[q].has.name => p = q
    <2>1. cfg.rows # <<>>
      BY <1>1 DEF PoolsInv, PassInv, Loops
    <2> QED BY <1>1, <2>1 DEF PoolsInv, PassInv, Loops
  <1>10. PassInv'
    <2>1. pc' = loop
      BY <1>1
    <2>2. loop = "create" \/ loop = "modify"
      BY DEF Loops
    <2> QED BY <1>3, <1>6, <1>7, <1>8, <1>9, <2>1, <2>2 DEF PassInv
  <1> QED BY <1>2, <1>10 DEF StepOK, PoolsInv, TypeInv

LEMMA AdoptsOK ==
  ASSUME PoolsInv, NEW loop \in Loops, AtRow(loop), NEW p \in Existing, Adopt(p), NextRow,
         UNCHANGED <<api, watch, queued, faults, edits, pools, read, created, applied>>
  PROVE  StepOK
  <1>1. p \in PoolIDs /\ index \in DOMAIN cfg.rows /\ Pools(pools) /\ LocalsTypeOK
    BY InLoop
  <1>2. pc' = pc /\ index' = index + 1 /\ err' = err
    BY DEF NextRow
  <1>3. /\ WorkerTypeOK(Row)' /\ NoImport' /\ NamesInv'
        /\ DOMAIN cfg'.rows = DOMAIN cfg.rows
        /\ \A i \in DOMAIN cfg.rows : cfg'.rows[i].name = cfg.rows[i].name
    BY <1>1, <1>2, AdoptNames DEF PoolsInv
  <1>4. OnePoolPerName' /\ LiveIn(pools') = Live /\ Pools(pools')
    BY <1>1 DEF PoolsInv, OnePoolPerName, Live
  <1>5. created' \in BOOLEAN /\ applied' \in BOOLEAN
    BY <1>1 DEF LocalsTypeOK
  <1> QED BY <1>2, <1>3, <1>4, <1>5, NextRowOK

LEMMA SkipsOK ==
  ASSUME PoolsInv, NEW loop \in Loops, AtRow(loop), NextRow,
         UNCHANGED <<storeVars, faults, edits, cfg, pools, read, created, applied>>
  PROVE  StepOK
  <1>1. Pools(pools) /\ LocalsTypeOK
    BY InLoop
  <1>2. pc' = pc /\ index' = index + 1 /\ err' = err
    BY DEF NextRow
  <1>3. /\ WorkerTypeOK(Row)' /\ NoImport' /\ NamesInv' /\ OnePoolPerName' /\ Pools(pools')
        /\ Live' = Live /\ Live \subseteq LiveIn(pools')
    BY <1>2, LocalStep
  <1>4. created' \in BOOLEAN /\ applied' \in BOOLEAN
    BY <1>1 DEF LocalsTypeOK
  <1>5. LiveIn(pools') = Live /\ cfg' = cfg
    BY DEF Live
  <1> QED BY <1>2, <1>3, <1>4, <1>5, NextRowOK

LEMMA AdoptRowOK ==
  ASSUME PoolsInv, AdoptRow
  PROVE  StepOK
  BY AdoptsOK DEF AdoptRow, Loops

LEMMA SkipStaleRowOK ==
  ASSUME PoolsInv, SkipStaleRow
  PROVE  StepOK
  BY SkipsOK DEF SkipStaleRow, Loops

LEMMA KeepRowOK ==
  ASSUME PoolsInv, KeepRow
  PROVE  StepOK
  <1>1. CASE \E p \in Existing : Adopt(p)
    BY <1>1, AdoptsOK DEF KeepRow, Loops
  <1>2. CASE UNCHANGED <<cfg, cache>>
    BY <1>2, SkipsOK DEF KeepRow, Loops, storeVars
  <1> QED BY <1>1, <1>2 DEF KeepRow

\* The call fails, before or after it took effect.
LEMMA LostCallOK ==
  ASSUME PoolsInv, CallFails, Return(cfg, "cloud"),
         UNCHANGED <<storeVars, edits, read, created, index, applied>>,
         Pools(pools'), OnePoolPerName', Live \subseteq LiveIn(pools')
  PROVE  StepOK
  <1>1. cfg' \in {cfg, Empty} /\ err' \in Messages /\ pc' = "record"
    BY DEF Return, Messages
  <1>2. WorkerTypeOK(Row)' /\ RowsAsTheyWere
    BY <1>1, Versions, QuietStep DEF PoolsInv, TypeInv
  <1>3. NoImport' /\ NamesInv'
    <2>1. api' \in Objects(Row)
      BY <1>2 DEF WorkerTypeOK
    <2> QED BY <1>2, <2>1, SameRowsNames DEF PoolsInv
  <1>4. TypeOK'
    <2>1. LocalsTypeOK'
      BY TypeParts DEF PoolsInv, TypeInv, LocalsTypeOK
    <2> QED BY <1>1, <1>2, <2>1 DEF TypeOK, LocalsTypeOK, Pools, PCs
  <1> QED BY <1>1, <1>3, <1>4, NoPass DEF StepOK, PoolsInv, TypeInv

\* A pool is created for a row only when there is none of its name.
LEMMA NewName ==
  ASSUME PoolsInv, AtRow("create"), Existing = {}, CreateVirtualPool(row)
  PROVE  /\ OnePoolPerName' /\ Pools(pools') /\ NextPool \in PoolIDs
         /\ Live \subseteq LiveIn(pools')
         /\ \A q \in LiveIn(pools') :
              \/ q \in Live /\ pools'[q].has.name = pools[q].has.name
              \/ pools'[q].has.name = row.name
  <1>1. row \in Row /\ Pools(pools) /\ Live \subseteq PoolIDs
    BY InLoop DEF Loops
  <1>2. /\ Pools(pools') /\ NextPool \in PoolIDs
        /\ pools'[NextPool].has.name = row.name
        /\ LiveIn(pools') = Live \cup {NextPool}
        /\ \A p \in PoolIDs : p # NextPool => pools'[p] = pools[p]
    BY <1>1, CreateEffect
  <1>3. \A q \in Live : pools[q].has.name # row.name
    BY RowsPool DEF Loops
  <1>4. \A p, q \in LiveIn(pools') : pools'[p].has.name = pools'[q].has.name => p = q
    BY <1>1, <1>2, <1>3 DEF PoolsInv, OnePoolPerName
  <1>5. OnePoolPerName'
    BY <1>4 DEF OnePoolPerName, Live
  <1>6. \A q \in LiveIn(pools') :
          \/ q \in Live /\ pools'[q].has.name = pools[q].has.name
          \/ pools'[q].has.name = row.name
    BY <1>1, <1>2
  <1> QED BY <1>2, <1>5, <1>6

LEMMA CreateRowOK ==
  ASSUME PoolsInv, CreateRow
  PROVE  StepOK
  <1>1. AtRow("create") /\ Existing = {} /\ UNCHANGED <<api, watch, queued, edits, read, applied>>
    BY DEF CreateRow
  <1>2. index \in DOMAIN cfg.rows /\ Pools(pools) /\ LocalsTypeOK
    BY <1>1, InLoop DEF Loops
  <1>3. CASE /\ CreateVirtualPool(row) /\ Adopt(NextPool)
             /\ created' = TRUE
             /\ NextRow
             /\ UNCHANGED faults
    <2>1. /\ OnePoolPerName' /\ Pools(pools') /\ NextPool \in PoolIDs
          /\ Live \subseteq LiveIn(pools')
          /\ \A q \in LiveIn(pools') :
               \/ q \in Live /\ pools'[q].has.name = pools[q].has.name
               \/ pools'[q].has.name = row.name
      BY <1>1, <1>3, NewName
    <2>2. pc' = pc /\ index' = index + 1 /\ err' = err
      BY <1>3 DEF NextRow
    <2>3. /\ WorkerTypeOK(Row)' /\ NoImport' /\ NamesInv'
          /\ DOMAIN cfg'.rows = DOMAIN cfg.rows
          /\ \A i \in DOMAIN cfg.rows : cfg'.rows[i].name = cfg.rows[i].name
      BY <1>1, <1>2, <1>3, <2>1, <2>2, AdoptNames DEF PoolsInv
    <2>4. created' \in BOOLEAN /\ applied' \in BOOLEAN /\ (created => created') /\ created'
      BY <1>1, <1>2, <1>3 DEF LocalsTypeOK
    <2>5. "create" \in Loops /\ read' = read
      BY <1>1 DEF Loops
    <2> QED BY <1>1, <2>1, <2>2, <2>3, <2>4, <2>5, NextRowOK
  <1>4. CASE /\ CallFails /\ Return(cfg, "cloud")
             /\ CreateVirtualPool(row) \/ UNCHANGED pools
             /\ UNCHANGED <<cache, created, index>>
    <2>1. OnePoolPerName' /\ Pools(pools') /\ Live \subseteq LiveIn(pools')
      <3>1. CASE CreateVirtualPool(row)
        BY <1>1, <3>1, NewName
      <3>2. CASE UNCHANGED pools
        BY <1>2, <3>2 DEF PoolsInv, OnePoolPerName, Live
      <3> QED BY <1>4, <3>1, <3>2
    <2> QED BY <1>1, <1>4, <2>1, LostCallOK DEF storeVars
  <1> QED BY <1>3, <1>4 DEF CreateRow

\* A modification gives a pool the name of its row, which no other pool has.
LEMMA ModifiedName ==
  ASSUME PoolsInv, AtRow("modify"), NEW p \in Existing,
         ModifyVirtualPool(p, Diff(Desired(row), read[p].has))
  PROVE  /\ OnePoolPerName' /\ Pools(pools') /\ Live \subseteq LiveIn(pools')
         /\ \A q \in LiveIn(pools') :
              \/ q \in Live /\ pools'[q].has.name = pools[q].has.name
              \/ pools'[q].has.name = row.name
  <1>1. /\ row \in Row /\ Pools(pools) /\ Live \subseteq PoolIDs /\ p \in Live
        /\ read[p].has \in Detail
    BY InLoop DEF Loops
  <1>2. Desired(row) \in Detail /\ Desired(row).name = row.name /\ row.name # NoName
    BY <1>1, DesiredType
  <1>3. /\ Pools(pools')
        /\ \A q \in PoolIDs : q # p => pools'[q] = pools[q]
        /\ pools'[p].has.name \in {pools[p].has.name, row.name}
        /\ Live \subseteq LiveIn(pools') /\ LiveIn(pools') \subseteq Live \cup {p}
    BY <1>1, <1>2, ModifyEffect
  <1>4. \A q \in Live : q # p => pools[q].has.name # row.name
    BY RowsPool DEF Loops
  <1>5. \A x, q \in LiveIn(pools') : pools'[x].has.name = pools'[q].has.name => x = q
    BY <1>1, <1>3, <1>4 DEF PoolsInv, OnePoolPerName
  <1>6. OnePoolPerName'
    BY <1>5 DEF OnePoolPerName, Live
  <1>7. \A q \in LiveIn(pools') :
          \/ q \in Live /\ pools'[q].has.name = pools[q].has.name
          \/ pools'[q].has.name = row.name
    BY <1>1, <1>3
  <1> QED BY <1>3, <1>6, <1>7

LEMMA ModifyRowOK ==
  ASSUME PoolsInv, ModifyRow
  PROVE  StepOK
  <1>1. AtRow("modify") /\ UNCHANGED <<api, watch, queued, edits, read, created>>
    BY DEF ModifyRow
  <1>2. /\ index \in DOMAIN cfg.rows /\ Pools(pools) /\ LocalsTypeOK
        /\ Existing \subseteq PoolIDs
    BY <1>1, InLoop DEF Loops
  <1>3. ASSUME NEW p \in Existing,
               ModifyVirtualPool(p, Diff(Desired(row), read[p].has)), Adopt(p),
               applied' = (applied \/ Applied(pools[p].has, Diff(Desired(row), read[p].has))),
               NextRow, UNCHANGED faults
        PROVE  StepOK
    <2>1. /\ OnePoolPerName' /\ Pools(pools') /\ Live \subseteq LiveIn(pools')
          /\ \A q \in LiveIn(pools') :
               \/ q \in Live /\ pools'[q].has.name = pools[q].has.name
               \/ pools'[q].has.name = row.name
      BY <1>1, <1>3, ModifiedName
    <2>2. pc' = pc /\ index' = index + 1 /\ err' = err
      BY <1>3 DEF NextRow
    <2>3. /\ WorkerTypeOK(Row)' /\ NoImport' /\ NamesInv'
          /\ DOMAIN cfg'.rows = DOMAIN cfg.rows
          /\ \A i \in DOMAIN cfg.rows : cfg'.rows[i].name = cfg.rows[i].name
      BY <1>1, <1>2, <1>3, <2>2, AdoptNames DEF PoolsInv
    <2>4. created' \in BOOLEAN /\ applied' \in BOOLEAN /\ (created => created')
      BY <1>1, <1>2, <1>3 DEF LocalsTypeOK, Applied
    <2>5. "modify" \in Loops /\ read' = read
      BY <1>1 DEF Loops
    <2> QED BY <1>1, <2>1, <2>2, <2>3, <2>4, <2>5, NextRowOK
  <1>4. CASE /\ CallFails /\ Return(cfg, "cloud")
             /\ \/ UNCHANGED pools
                \/ \E p \in Existing : ModifyVirtualPool(p, Diff(Desired(row), read[p].has))
             /\ UNCHANGED <<cache, applied, index>>
    <2>1. OnePoolPerName' /\ Pools(pools') /\ Live \subseteq LiveIn(pools')
      <3>1. CASE \E p \in Existing : ModifyVirtualPool(p, Diff(Desired(row), read[p].has))
        BY <1>1, <3>1, ModifiedName
      <3>2. CASE UNCHANGED pools
        BY <1>2, <3>2 DEF PoolsInv, OnePoolPerName, Live
      <3> QED BY <1>4, <3>1, <3>2
    <2> QED BY <1>1, <1>4, <2>1, LostCallOK DEF storeVars
  <1> QED BY <1>3, <1>4 DEF ModifyRow

-----------------------------------------------------------------------------
(* The invariant is inductive.                                             *)

LEMMA StartRows ==
  ASSUME NEW rows \in Starts
  PROVE  rows \in Seq(Row) /\ ProperRows(rows) /\ DOMAIN rows \subseteq PoolIDs
  <1>1. 1 \in PoolIDs /\ 2 \in PoolIDs
    BY PoolsAssumption DEF PoolIDs
  <1>2. FirstName \in Names
    BY WantsAssumption DEF FirstName
  <1>3. \A p \in PoolIDs, n \in Names, w \in Wants : RowOf(p, n, w) \in Row /\ RowOf(p, n, w).name = n
    BY DEF RowOf, Row
  <1>4. CASE \E w \in Wants : rows = <<RowOf(1, FirstName, w)>>
    <2>1. PICK r \in Row : rows = <<r>>
      BY <1>1, <1>2, <1>3, <1>4
    <2>2. Len(rows) = 1 /\ DOMAIN rows = {1} /\ rows \in Seq(Row)
      BY <2>1
    <2> QED BY <1>1, <2>2, Bound DEF ProperRows
  <1>5. CASE /\ MaxRows # 1
             /\ \E n \in Names \ {FirstName}, w \in Wants :
                  rows = <<RowOf(1, FirstName, w), RowOf(2, n, w)>>
    <2>1. PICK r, q \in Row : rows = <<r, q>> /\ r.name # q.name
      BY <1>1, <1>2, <1>3, <1>5
    <2>2. Len(rows) = 2 /\ DOMAIN rows = {1, 2} /\ rows \in Seq(Row) /\ rows[1] = r /\ rows[2] = q
      BY <2>1
    <2>3. 2 <= MaxRows
      BY <1>5, Bound
    <2> QED BY <1>1, <2>1, <2>2, <2>3 DEF ProperRows
  <1> QED BY <1>4, <1>5 DEF Starts

LEMMA InitOK ==
  Init => PoolsInv
  <1> SUFFICES ASSUME Init PROVE PoolsInv
    OBVIOUS
  <1>1. PICK rows \in Starts, state \in {"normal", "gone"} :
          /\ pools = [p \in PoolIDs |->
               IF p \in DOMAIN rows
               THEN [state |-> state, has |-> IF state = "gone" THEN NoDetail ELSE AsAsked(rows[p])]
               ELSE [state |-> "none", has |-> NoDetail]]
          /\ api = Stored(rows, "active")
    BY DEF Init
  <1>2. rows \in Seq(Row) /\ ProperRows(rows) /\ DOMAIN rows \subseteq PoolIDs
    BY StartRows
  <1>3. \A p \in DOMAIN rows : AsAsked(rows[p]) \in Detail /\ AsAsked(rows[p]).name = rows[p].name
    <2> TAKE p \in DOMAIN rows
    <2>1. rows[p] \in Row
      BY <1>2
    <2> QED BY <2>1, MadeType
  <1>5. /\ WorkerInit /\ read = <<>> /\ index = 1 /\ created = FALSE /\ applied = FALSE
    BY DEF Init
  <1>7. /\ api \in Objects(Row) /\ api.rv = 1 /\ api.rows = rows /\ api.phase = "active"
    BY <1>1, <1>2, StoredObject DEF Phases
  <1>8. /\ cache = api /\ watch = <<>> /\ queued = TRUE /\ faults = MaxFaults
        /\ edits = MaxEdits /\ pc = "idle" /\ cfg = Empty /\ err = "none"
    BY <1>5 DEF WorkerInit
  <1>9. Pools(pools)
    BY <1>1, <1>3, NoDetailType DEF Pools, Pool, PoolStates
  <1>10. WorkerTypeOK(Row)
    <2>1. watch \in Seq(Objects(Row)) /\ queued \in BOOLEAN
      BY <1>8
    <2>2. faults \in 0..MaxFaults /\ edits \in 0..MaxEdits
      BY <1>8, BoundsAssumption
    <2>3. cfg \in Objects(Row) /\ err \in Messages
      BY <1>8, EmptyObject DEF Messages
    <2> QED BY <1>7, <1>8, <2>1, <2>2, <2>3 DEF WorkerTypeOK
  <1>11. LocalsTypeOK
    <2>1. DOMAIN read = {}
      BY <1>5
    <2>2. DOMAIN read \subseteq PoolIDs /\ \A p \in DOMAIN read : read[p] \in Pool
      BY <2>1
    <2>3. index \in 1..MaxRows + 1
      BY <1>5, Bound
    <2>4. created \in BOOLEAN /\ applied \in BOOLEAN
      BY <1>5
    <2> QED BY <2>2, <2>3, <2>4 DEF LocalsTypeOK
  <1>12. TypeOK
    BY <1>8, <1>9, <1>10, <1>11, TypeParts DEF PCs
  <1>13. NoImport
    BY <1>7, <1>8, EmptyObject DEF NoImport
  <1>14. NamesInv
    BY <1>2, <1>7, <1>8, NamesOfEmpty DEF NamesInv, SameNames
  <1>15. PassInv
    BY <1>8 DEF PassInv
  <1>16. \A p \in Live : p \in DOMAIN rows /\ pools[p].has.name = rows[p].name
    BY <1>1, <1>3 DEF Live, LiveIn
  <1>17. OnePoolPerName
    BY <1>2, <1>16 DEF OnePoolPerName, ProperRows
  <1> QED BY <1>12, <1>13, <1>14, <1>15, <1>17 DEF PoolsInv, TypeInv

\* One step per action.  A pool goes away in DeleteUnlisted only.
LEMMA NextOK ==
  ASSUME PoolsInv, Next
  PROVE  StepOK \/ DeleteUnlisted
  <1>type. WorkerTypeOK(Row)
    BY Versions DEF PoolsInv, TypeInv
  <1>pcs. "record" \in PCs /\ "idle" \in PCs /\ "read" \in PCs
    BY DEF PCs
  <1>1. CASE ReadFails
    BY <1>1, ReadFailsOK
  <1>2. CASE Await
    <2>1. WorkerTypeOK(Row)' /\ RowsAsTheyWere /\ pc' = "record"
      BY <1>2, <1>type, AwaitPoolsStep DEF Await
    <2> QED BY <1>2, <1>pcs, <2>1, StatusStep DEF Await
  <1>3. CASE Read
    BY <1>3, ReadOK
  <1>4. CASE NoneUnlisted
    BY <1>4, NoneUnlistedOK
  <1>5. CASE AdoptRow
    BY <1>5, AdoptRowOK
  <1>6. CASE SkipStaleRow
    BY <1>6, SkipStaleRowOK
  <1>7. CASE CreateRow
    BY <1>7, CreateRowOK
  <1>8. CASE CreateDone
    BY <1>8, CreateDoneOK
  <1>9. CASE SaveRows
    BY <1>9, SaveRowsOK
  <1>10. CASE KeepRow
    BY <1>10, KeepRowOK
  <1>11. CASE ModifyRow
    BY <1>11, ModifyRowOK
  <1>12. CASE ModifyDone
    BY <1>12, ModifyDoneOK
  <1>13. CASE Begin /\ UNCHANGED poolVars
    <2>1. WorkerTypeOK(Row)' /\ RowsAsTheyWere /\ pc' = "read"
      BY <1>13, <1>type, BeginStep DEF PoolsInv, TypeInv, NoImport
    <2> QED BY <1>13, <1>pcs, <2>1, StatusStep
  <1>14. CASE EnqueueUpdate /\ UNCHANGED poolVars
    <2>1. WorkerTypeOK(Row)' /\ RowsAsTheyWere /\ pc' = "record"
      BY <1>14, <1>type, EnqueueUpdateStep
    <2> QED BY <1>14, <1>pcs, <2>1, StatusStep
  <1>15. CASE Finish /\ UNCHANGED poolVars
    <2>1. WorkerTypeOK(Row)' /\ RowsAsTheyWere /\ pc' = "record"
      BY <1>15, <1>type, FinishStep
    <2> QED BY <1>15, <1>pcs, <2>1, StatusStep
  <1>16. CASE End /\ UNCHANGED poolVars
    <2>1. WorkerTypeOK(Row)' /\ RowsAsTheyWere /\ pc' = "idle"
      BY <1>16, <1>type, EndStep
    <2> QED BY <1>16, <1>pcs, <2>1, StatusStep
  <1>17. CASE RecordError /\ Forget
    BY <1>17, RecordErrorOK
  <1>18. CASE Informer
    BY <1>18, InformerOK
  <1>19. CASE Restart
    BY <1>19, RestartOK
  <1>20. CASE UserEdit
    BY <1>20, UserEditOK
  <1>21. CASE \E p \in PoolIDs : PoolProgress(p)
    BY <1>21, PoolProgressOK
  <1> QED BY <1>1, <1>2, <1>3, <1>4, <1>5, <1>6, <1>7, <1>8, <1>9, <1>10, <1>11, <1>12, <1>13,
             <1>14, <1>15, <1>16, <1>17, <1>18, <1>19, <1>20, <1>21 DEF Next, Worker

LEMMA StutterOK ==
  ASSUME PoolsInv, UNCHANGED vars
  PROVE  StepOK
  <1>1. UNCHANGED <<storeVars, faults, edits, pc, cfg, err, poolVars>>
    BY DEF vars, workerVars
  <1>2. /\ WorkerTypeOK(Row)' /\ NoImport' /\ NamesInv'
    BY <1>1, LocalStep DEF poolVars
  <1> QED BY <1>1, <1>2, BesideStep

LEMMA PoolsInvAlways ==
  Spec => []PoolsInv
  <1>1. Init => PoolsInv
    BY InitOK
  <1>2. PoolsInv /\ [Next]_vars => PoolsInv'
    BY NextOK, StutterOK, DeleteUnlistedOK DEF StepOK
  <1> QED BY <1>1, <1>2, PTL DEF Spec

-----------------------------------------------------------------------------
(* A worker that rests is done.  What its last pass saw and did is carried *)
(* along, as long as no other is asked for.                                *)

PassPCs == {"read", "delete", "create", "saveRows", "modify", "enqueue", "finish"}

\* The versions on their way follow the cache's, and the last one is stored.
VersionsInv ==
  /\ api.rv = cache.rv + Len(watch)
  /\ \A i \in DOMAIN watch : watch[i].rv = cache.rv + i
  /\ IF watch = <<>> THEN cache.phase = api.phase ELSE watch[Len(watch)] = api

\* A pass works with the object of the cache, or with an older one.
SharedInv ==
  pc \in PassPCs =>
    /\ cfg.rv <= cache.rv
    /\ cfg.rv = cache.rv => cfg = cache
    /\ watch = <<>> /\ cfg.rv # cache.rv => cache.rows = api.rows

\* What the cache has of the last version and the store has not: ids that passes
\* put into its rows, of pools with names the rows have.
AdoptedInv ==
  watch = <<>> =>
    /\ \A p \in Listed(cache.rows) \ Listed(api.rows) : p \in Live => Wanted(p)
    /\ \A i \in DOMAIN cache.rows : cache.rows[i].id = NoPool => api.rows[i].id = NoPool

CreatedInv == created => pc \in {"create", "saveRows", "record"}

\* An id that is not stored.
NewID == \E i \in DOMAIN cfg.rows : cfg.rows[i].id # NoPool /\ api.rows[i].id = NoPool

\* What was read is still so.
Reads == \A p \in Live : p \in DOMAIN read /\ read[p].has = pools[p].has

Served(r) == Provided(r) \/ StaleRow(r)
Accounted == \A p \in Live : Wanted(p) \/ p \in Listed(api.rows)
RowsDone == Accounted /\ \A i \in DOMAIN cache.rows : Served(cache.rows[i])
Settled == api.phase = "active" /\ RowsDone

\* The rows before the current one.
IDsBefore == \A i \in DOMAIN cfg.rows : i < index => cfg.rows[i].id # NoPool
ServedBefore == \A i \in DOMAIN cfg.rows : i < index => Served(cfg.rows[i])

\* The pass goes on to the end only when it changed nothing, and what it changes makes
\* it, or an event, come back.
CalmInv ==
  /\ pc \in PassPCs => cfg = cache
  /\ pc \in {"create", "saveRows", "modify"} => Accounted
  /\ pc = "create" => IF created THEN NewID ELSE Reads /\ IDsBefore
  /\ pc = "saveRows" => NewID
  /\ pc = "modify" => /\ \A i \in DOMAIN cfg.rows : cfg.rows[i].id # NoPool
                      /\ applied \/ (Reads /\ ServedBefore)
  /\ pc = "finish" => RowsDone
  /\ pc \in {"record", "end"} /\ err = "none" => Settled
  /\ pc = "idle" => Settled

ObjectsInv == VersionsInv /\ SharedInv
RestInv == ObjectsInv /\ AdoptedInv /\ CreatedInv /\ (Calm => CalmInv)

\* A write, or none, while the cache has the object it had.
LEMMA WrittenObjects ==
  ASSUME TypeInv, ObjectsInv, Kept \/ NewVersion, cache' = cache,
         pc' \in PassPCs => pc \in PassPCs /\ cfg' = cfg
  PROVE  ObjectsInv'
  <1>1. CASE Kept
    BY <1>1 DEF Kept, ObjectsInv, VersionsInv, SharedInv
  <1>2. CASE NewVersion
    <2>1. /\ watch \in Seq(Objects(Row)) /\ api'.rv = api.rv + 1 /\ watch' = Append(watch, api')
          /\ api.rv \in Nat /\ cache.rv \in Nat
      BY <1>2, Versions DEF NewVersion, TypeInv
    <2>2. /\ Len(watch') = Len(watch) + 1 /\ Len(watch) \in Nat /\ watch' # <<>>
          /\ watch'[Len(watch')] = api'
          /\ \A i \in DOMAIN watch' :
               \/ i \in DOMAIN watch /\ watch'[i] = watch[i]
               \/ i = Len(watch) + 1 /\ watch'[i] = api'
      BY <2>1
    <2>3. VersionsInv'
      <3>1. /\ api.rv = cache.rv + Len(watch)
            /\ \A i \in DOMAIN watch : watch[i].rv = cache.rv + i
        BY DEF ObjectsInv, VersionsInv
      <3>2. api'.rv = cache'.rv + Len(watch')
        <4>1. /\ api'.rv = api.rv + 1 /\ Len(watch') = Len(watch) + 1 /\ cache'.rv = cache.rv
              /\ cache.rv \in Nat /\ Len(watch) \in Nat /\ api.rv = cache.rv + Len(watch)
          BY <2>1, <2>2, <3>1
        <4> QED BY <4>1
      <3>3. \A i \in DOMAIN watch' : watch'[i].rv = cache'.rv + i
        BY <2>1, <2>2, <3>1, <3>2
      <3> QED BY <2>2, <3>2, <3>3 DEF VersionsInv
    <2>4. SharedInv'
      BY <2>2 DEF ObjectsInv, SharedInv
    <2> QED BY <2>3, <2>4 DEF ObjectsInv
  <1> QED BY <1>1, <1>2

\* An id is put into a row, also of the object in the cache when it is the same.
LEMMA AdoptedRows ==
  ASSUME TypeInv, ObjectsInv, pc \in Loops, index \in DOMAIN cfg.rows, NEW p \in PoolIDs, Adopt(p)
  PROVE  /\ cfg'.rv = cfg.rv /\ cfg'.phase = cfg.phase
         /\ DOMAIN cfg'.rows = DOMAIN cfg.rows
         /\ cfg'.rows[index] = [cfg.rows[index] EXCEPT !.id = p]
         /\ cfg'.rows[index].id = p /\ p # NoPool
         /\ \A i \in DOMAIN cfg.rows : i # index => cfg'.rows[i] = cfg.rows[i]
         /\ cache'.rv = cache.rv /\ cache'.phase = cache.phase
         /\ IF cfg.rv = cache.rv THEN cfg = cache /\ cache' = cfg' ELSE cache' = cache
         /\ p = cfg.rows[index].id => cfg' = cfg /\ cache' = cache
  <1> DEFINE new == [cfg EXCEPT !.rows[index].id = p]
  <1>1. cfg \in Objects(Row) /\ cfg.rows \in Seq(Row) /\ cfg.rows[index] \in Row
    BY Versions DEF TypeInv
  <1>2. /\ new.rv = cfg.rv /\ new.phase = cfg.phase /\ DOMAIN new.rows = DOMAIN cfg.rows
        /\ new.rows[index] = [cfg.rows[index] EXCEPT !.id = p] /\ new.rows[index].id = p
        /\ \A i \in DOMAIN cfg.rows : i # index => new.rows[i] = cfg.rows[i]
    BY <1>1 DEF Objects, Row
  <1>3. p = cfg.rows[index].id => new = cfg
    <2>1. p = cfg.rows[index].id => [cfg.rows[index] EXCEPT !.id = p] = cfg.rows[index]
      BY <1>1 DEF Row
    <2>2. p = cfg.rows[index].id => [cfg.rows EXCEPT ![index].id = p] = cfg.rows
      BY <1>1, <2>1
    <2>3. new = [cfg EXCEPT !.rows = [cfg.rows EXCEPT ![index].id = p]]
      BY <1>1 DEF Objects
    <2> QED BY <1>1, <2>2, <2>3 DEF Objects
  <1>4. cfg' = new /\ cache' = IF cache.rv = cfg.rv THEN new ELSE cache
    BY DEF Adopt, WriteInPlace
  <1> HIDE DEF new
  <1>5. cfg.rv = cache.rv => cfg = cache
    BY DEF ObjectsInv, SharedInv, PassPCs, Loops
  <1>6. p # NoPool
    BY DEF PoolIDs, NoPool
  <1> QED BY <1>2, <1>3, <1>4, <1>5, <1>6

LEMMA AdoptedObjects ==
  ASSUME TypeInv, ObjectsInv, pc \in Loops, index \in DOMAIN cfg.rows, NEW p \in PoolIDs, Adopt(p),
         Kept, pc' = pc
  PROVE  ObjectsInv'
  <1>1. /\ cfg'.rv = cfg.rv /\ cache'.rv = cache.rv /\ cache'.phase = cache.phase
        /\ IF cfg.rv = cache.rv THEN cache' = cfg' ELSE cache' = cache
    BY AdoptedRows
  <1>2. VersionsInv'
    BY <1>1 DEF Kept, ObjectsInv, VersionsInv
  <1>3. SharedInv'
    BY <1>1 DEF Kept, ObjectsInv, SharedInv, PassPCs, Loops
  <1> QED BY <1>2, <1>3 DEF ObjectsInv

\* A delivered version is newer than the pass under way.
LEMMA DeliveredObjects ==
  ASSUME TypeInv, ObjectsInv, Deliver, UNCHANGED workerVars
  PROVE  ObjectsInv' /\ (watch' = <<>> => cache' = api')
  <1>1. /\ watch # <<>> /\ cache' = watch[1] /\ watch' = Tail(watch) /\ api' = api
        /\ pc' = pc /\ cfg' = cfg
    BY DEF Deliver, workerVars
  <1>2. /\ watch \in Seq(Objects(Row)) /\ cache.rv \in Nat /\ cfg.rv \in Nat
        /\ Len(watch) \in Nat /\ Len(watch) >= 1 /\ 1 \in DOMAIN watch
    BY <1>1, Versions DEF TypeInv
  <1>3. /\ Len(watch') = Len(watch) - 1
        /\ \A i \in DOMAIN watch' : i \in Nat /\ i + 1 \in DOMAIN watch /\ watch'[i] = watch[i + 1]
        /\ Len(watch) # 1 => watch' # <<>> /\ Len(watch') \in DOMAIN watch'
        /\ Len(watch) = 1 => watch' = <<>>
    <2> DEFINE T == Objects(Row)
    <2>1. watch \in Seq(T) /\ watch # <<>> /\ watch' = Tail(watch)
      BY <1>1, <1>2
    <2> HIDE DEF T
    <2>2. watch' \in Seq(T) /\ Len(watch') = Len(watch) - 1
      BY <2>1, HeadTailProperties
    <2>3. \A i \in DOMAIN watch' : i \in Nat /\ i + 1 \in DOMAIN watch /\ watch'[i] = watch[i + 1]
      BY <2>1, <2>2, TailElements
    <2> QED BY <1>2, <2>2, <2>3
  <1>4. cache'.rv = cache.rv + 1
    BY <1>1, <1>2 DEF ObjectsInv, VersionsInv
  <1>5. IF watch' = <<>> THEN cache' = api' ELSE watch'[Len(watch')] = api'
    BY <1>1, <1>2, <1>3 DEF ObjectsInv, VersionsInv
  <1>6. api'.rv = cache'.rv + Len(watch')
    BY <1>1, <1>2, <1>3, <1>4 DEF ObjectsInv, VersionsInv
  <1>7. \A i \in DOMAIN watch' : watch'[i].rv = cache'.rv + i
    <2> TAKE i \in DOMAIN watch'
    <2>1. i \in Nat /\ watch'[i].rv = cache.rv + (i + 1)
      BY <1>3 DEF ObjectsInv, VersionsInv
    <2> QED BY <1>2, <1>4, <2>1
  <1>8. SharedInv'
    BY <1>1, <1>2, <1>4, <1>5 DEF ObjectsInv, SharedInv
  <1> QED BY <1>5, <1>6, <1>7, <1>8 DEF ObjectsInv, VersionsInv

\* The names of what is stored are the cache's, when nothing is on its way.
LEMMA LastVersion ==
  ASSUME PoolsInv, ObjectsInv, watch = <<>>
  PROVE  /\ cache.rv = api.rv /\ cache.phase = api.phase
         /\ NamesOf(cache.rows) = NamesOf(api.rows)
         /\ pc \in PassPCs => \/ cfg = cache
                              \/ cfg.rv # cache.rv /\ cache.rows = api.rows
  <1>1. cache.rv = api.rv /\ cache.phase = api.phase
    <2>1. Len(watch) = 0 /\ cache.rv \in Nat
      BY Versions DEF PoolsInv, TypeInv
    <2> QED BY <2>1 DEF ObjectsInv, VersionsInv
  <1>2. NamesOf(cache.rows) = NamesOf(api.rows)
    BY <1>1 DEF PoolsInv, NamesInv, SameNames
  <1> QED BY <1>1, <1>2 DEF ObjectsInv, SharedInv

\* A pool has the name it had, or that of the current row.
RowsNames ==
  \A q \in LiveIn(pools') :
    \/ q \in Live /\ pools'[q].has.name = pools[q].has.name
    \/ /\ pc \in Loops /\ index \in DOMAIN cfg.rows
       /\ pools'[q].has.name = cfg.rows[index].name

\* So it keeps one that the stored spec has, unless the pass is an old one; then
\* nothing was adopted in the cache's object.
LEMMA NamesWanted ==
  ASSUME PoolsInv, ObjectsInv, RowsNames, watch = <<>>, api' = api, cache.rows # api.rows \/ cfg = cache,
         NEW q \in LiveIn(pools'), q \in Live => Wanted(q)
  PROVE  Wanted(q)'
  <1>1. CASE q \in Live /\ pools'[q].has.name = pools[q].has.name
    BY <1>1 DEF Wanted
  <1>2. CASE /\ pc \in Loops /\ index \in DOMAIN cfg.rows
             /\ pools'[q].has.name = cfg.rows[index].name
    <2>1. cfg = cache /\ NamesOf(cache.rows) = NamesOf(api.rows)
      BY <1>2, LastVersion DEF PassPCs, Loops
    <2> QED BY <1>2, <2>1 DEF Wanted, NamesOf
  <1> QED BY <1>1, <1>2 DEF RowsNames

LEMMA WrittenAdopted ==
  ASSUME PoolsInv, ObjectsInv, AdoptedInv, Kept \/ NewVersion, cache' = cache, RowsNames
  PROVE  AdoptedInv'
  <1> SUFFICES ASSUME watch' = <<>>
               PROVE  AdoptedInv'
    BY DEF AdoptedInv
  <1>1. ~NewVersion
    <2>1. watch \in Seq(Objects(Row))
      BY Versions DEF PoolsInv, TypeInv
    <2> QED BY <2>1 DEF NewVersion
  <1>2. watch = <<>> /\ api' = api
    BY <1>1 DEF Kept
  <1>3. ASSUME NEW p \in Listed(cache.rows) \ Listed(api.rows), p \in LiveIn(pools')
        PROVE  Wanted(p)'
    <2>1. cache.rows # api.rows /\ (p \in Live => Wanted(p))
      BY <1>2, <1>3 DEF AdoptedInv
    <2> QED BY <1>2, <1>3, <2>1, NamesWanted
  <1> QED BY <1>2, <1>3 DEF AdoptedInv, Live

\* The pool of a row is known by its name, or the row had its id.
LEMMA PoolOfRow ==
  ASSUME PoolsInv, NEW loop \in Loops, AtRow(loop), NEW p \in Existing
  PROVE  p = row.id \/ pools[p].has.name \in NamesOf(cfg.rows)
  <1>1. /\ pc \in Loops /\ index \in DOMAIN cfg.rows /\ p \in Live
    BY InLoop DEF Loops
  <1>2. CASE p \in ByName
    <2>1. ReadAs(p) \/ ByEarlierRow(p)
      BY <1>1 DEF PoolsInv, PassInv, Loops
    <2>2. read[p].has.name = cfg.rows[index].name
      BY <1>2 DEF ByName, row
    <2> QED BY <1>1, <2>1, <2>2 DEF ReadAs, ByEarlierRow, NamesOf
  <1>3. CASE p \notin ByName
    BY <1>3 DEF Existing
  <1> QED BY <1>2, <1>3

LEMMA AdoptedAdopted ==
  ASSUME PoolsInv, ObjectsInv, AdoptedInv, pc \in Loops, index \in DOMAIN cfg.rows,
         NEW p \in PoolIDs, Adopt(p), Kept, RowsNames,
         p = cfg.rows[index].id \/ pools'[p].has.name \in NamesOf(cfg.rows)
  PROVE  AdoptedInv'
  <1> SUFFICES ASSUME watch = <<>>
               PROVE  AdoptedInv'
    BY DEF AdoptedInv, Kept
  <1>1. /\ DOMAIN cfg'.rows = DOMAIN cfg.rows /\ cfg'.rows[index].id = p /\ p # NoPool
        /\ \A i \in DOMAIN cfg.rows : i # index => cfg'.rows[i] = cfg.rows[i]
        /\ IF cfg.rv = cache.rv THEN cfg = cache /\ cache' = cfg' ELSE cache' = cache
        /\ p = cfg.rows[index].id => cfg' = cfg /\ cache' = cache
    BY AdoptedRows DEF PoolsInv
  <1>2. api' = api /\ watch' = watch
    BY DEF Kept
  <1>3. NamesOf(cache.rows) = NamesOf(api.rows)
    BY LastVersion
  <1>4. CASE cache' = cache
    BY <1>4, WrittenAdopted
  <1>5. CASE cfg = cache /\ cache' = cfg' /\ p # cfg.rows[index].id
    <2>1. ASSUME NEW i \in DOMAIN cache'.rows, cache'.rows[i].id = NoPool
          PROVE  api.rows[i].id = NoPool
      BY <1>1, <1>5, <2>1 DEF AdoptedInv
    <2>2. ASSUME NEW q \in Listed(cache'.rows) \ Listed(api.rows), q \in LiveIn(pools')
          PROVE  Wanted(q)'
      <3>1. CASE q = p
        BY <1>2, <1>3, <1>5, <3>1 DEF Wanted
      <3>2. CASE q # p
        <4>1. q \in Listed(cache.rows) \ Listed(api.rows)
          BY <1>1, <1>5, <2>2, <3>2 DEF Listed
        <4>2. q \in Live => Wanted(q)
          BY <4>1 DEF AdoptedInv
        <4> QED BY <1>2, <1>5, <2>2, <4>2, NamesWanted
      <3> QED BY <3>1, <3>2
    <2> QED BY <1>2, <2>1, <2>2 DEF AdoptedInv, Live
  <1> QED BY <1>1, <1>4, <1>5

\* A pool on which the modification had no effect is as its row asks for.
LEMMA NothingApplied ==
  ASSUME NEW d \in Detail, d.name # NoName, NEW u \in Detail, ~Applied(u, Diff(d, u))
  PROVE  u.name = d.name /\ Reached(d, u)
  <1> DEFINE c == Changed(d, u)
             f == Diff(d, u)
  <1>1. /\ c.sgs = ListDiff(d.sgs, u.sgs) /\ c.labels = ListDiff(d.labels, u.labels)
        /\ c.taints = ListDiff(d.taints, u.taints)
        /\ c.protection = ValueDiff(d.protection, u.protection)
        /\ c.name = ValueDiff({d.name}, {u.name})
    BY DEF Changed
  <1>2. /\ f.sgs = c.sgs /\ f.labels = c.labels /\ f.taints = c.taints
        /\ f.protection = c.protection
        /\ c = NoChange \/ f.name = {d.name}
    <2>1. CASE c = NoChange
      BY <2>1 DEF Diff, NoChange
    <2>2. CASE c # NoChange /\ c.name # {}
      BY <1>1, <2>2 DEF Diff, ValueDiff
    <2>3. CASE c # NoChange /\ c.name = {}
      <3>1. f = [c EXCEPT !.name = {d.name}]
        BY <2>3 DEF Diff
      <3> QED BY <3>1 DEF Changed
    <2> QED BY <2>1, <2>2, <2>3
  <1> HIDE DEF c, f
  <1>3. /\ d.sgs \in Seq(Elements) /\ d.labels \in Seq(Elements) /\ d.taints \in Seq(Elements)
        /\ u.sgs \in Seq(Elements) /\ u.labels \in Seq(Elements) /\ u.taints \in Seq(Elements)
    BY DetailFields
  <1>4. ASSUME NEW want \in Seq(Elements), NEW has \in Seq(Elements),
               Given(Sent(ListDiff(want, has)), has) = has
        PROVE  want = <<>> \/ SameElements(want, has)
    BY <1>4, ListArrives DEF ListAfter
  <1>5. CASE c = NoChange
    <2>1. /\ c.sgs = {} /\ c.labels = {} /\ c.taints = {} /\ c.protection = {} /\ c.name = {}
      BY <1>5 DEF NoChange
    <2>2. /\ SameElements(d.sgs, u.sgs) /\ SameElements(d.labels, u.labels)
          /\ SameElements(d.taints, u.taints)
      BY <1>1, <2>1 DEF ListDiff
    <2>3. d.protection \in {{}, u.protection} /\ u.name = d.name
      BY <1>1, <2>1 DEF ValueDiff
    <2> QED BY <2>2, <2>3 DEF Reached
  <1>6. CASE c # NoChange
    <2>1. f.name = {d.name} /\ After(u, f) = u
      BY <1>2, <1>6 DEF Applied, f
    <2>2. /\ u.name = Given(f.name, u.name)
          /\ u.sgs = Given(Sent(f.sgs), u.sgs)
          /\ u.labels = Given(Sent(f.labels), u.labels)
          /\ u.taints = Given(Sent(f.taints), u.taints)
          /\ u.protection = IF f.protection = {} THEN u.protection ELSE f.protection
      <3>1. /\ After(u, f).name = Given(f.name, u.name)
            /\ After(u, f).sgs = IF f.name = {} THEN u.sgs ELSE Given(Sent(f.sgs), u.sgs)
            /\ After(u, f).labels = Given(Sent(f.labels), u.labels)
            /\ After(u, f).taints = Given(Sent(f.taints), u.taints)
            /\ After(u, f).protection = IF f.protection = {} THEN u.protection ELSE f.protection
        BY AfterFields
      <3> QED BY <2>1, <3>1
    <2>3. u.name = d.name
      BY <2>1, <2>2, GivenValue
    <2>4. /\ d.sgs = <<>> \/ SameElements(d.sgs, u.sgs)
          /\ d.labels = <<>> \/ SameElements(d.labels, u.labels)
          /\ d.taints = <<>> \/ SameElements(d.taints, u.taints)
      BY <1>1, <1>2, <1>3, <1>4, <2>2
    <2>5. d.protection \in {{}, u.protection}
      BY <1>1, <1>2, <2>2 DEF ValueDiff
    <2> QED BY <2>3, <2>4, <2>5 DEF Reached
  <1> QED BY <1>5, <1>6

LEMMA CalmObjects ==
  ASSUME PoolsInv, RestInv, Calm
  PROVE  /\ CalmInv /\ watch = <<>>
         /\ cache.rv = api.rv /\ cache.phase = api.phase
         /\ NamesOf(cache.rows) = NamesOf(api.rows)
         /\ pc \in PassPCs => cfg = cache
         /\ WorkerTypeOK(Row) /\ cfg \in Objects(Row) /\ cfg.rows \in Seq(Row)
         /\ Pools(pools) /\ LocalsTypeOK
  <1>1. CalmInv /\ watch = <<>> /\ ObjectsInv
    BY DEF RestInv, Calm
  <1> QED BY <1>1, LastVersion, Versions, TypeParts DEF CalmInv, PoolsInv, TypeInv

\* With an error the pass comes back, and no store makes an event.
LEMMA ErrorCalm ==
  ASSUME pc' = "record", err' # "none"
  PROVE  CalmInv'
  BY DEF CalmInv, PassPCs

LEMMA SettledCalm ==
  ASSUME pc' \in {"record", "end", "idle"}, Settled'
  PROVE  CalmInv'
  BY DEF CalmInv, PassPCs

\* No step but the worker's first takes the key from the queue.
LEMMA CalmBefore ==
  ASSUME PoolsInv, RestInv, Kept \/ NewVersion, queued => queued', Calm'
  PROVE  Calm /\ CalmInv /\ api' = api /\ Kept
  <1>1. ~NewVersion
    BY NewVersionComes, Versions DEF PoolsInv, TypeInv
  <1> QED BY <1>1 DEF Kept, Calm, RestInv

\* What a step has to show: that it puts no id into a row and writes none, or one;
\* and that it does not go on when there is something to do.
LEMMA StepRest ==
  ASSUME PoolsInv, RestInv, Kept \/ NewVersion, queued => queued', cache' = cache,
         pc' \in PassPCs => pc \in PassPCs /\ cfg' = cfg, RowsNames, CreatedInv',
         Calm /\ CalmInv /\ api' = api /\ Kept /\ Calm' => CalmInv'
  PROVE  RestInv'
  <1>1. ObjectsInv' /\ AdoptedInv'
    BY WrittenObjects, WrittenAdopted DEF RestInv, PoolsInv
  <1> QED BY <1>1, CalmBefore DEF RestInv

LEMMA AdoptRest ==
  ASSUME PoolsInv, RestInv, Kept, queued' = queued, pc' = pc, RowsNames, CreatedInv',
         pc \in Loops, index \in DOMAIN cfg.rows, NEW p \in PoolIDs, Adopt(p),
         p = cfg.rows[index].id \/ pools'[p].has.name \in NamesOf(cfg.rows),
         Calm /\ CalmInv => CalmInv'
  PROVE  RestInv'
  <1>1. ObjectsInv' /\ AdoptedInv'
    BY AdoptedObjects, AdoptedAdopted DEF RestInv, PoolsInv
  <1>2. Calm' => Calm
    BY DEF Calm, Kept
  <1> QED BY <1>1, <1>2 DEF RestInv

\* Pools that are as they were.
LEMMA SameRowsNamesOfPools ==
  ASSUME LiveIn(pools') \subseteq Live, \A p \in LiveIn(pools') : pools'[p].has = pools[p].has
  PROVE  RowsNames
  BY DEF RowsNames

LEMMA QuietPools ==
  ASSUME UNCHANGED pools
  PROVE  /\ RowsNames /\ Live' = Live
         /\ (api' = api => (Accounted <=> Accounted'))
         /\ (UNCHANGED <<api, cache>> => (RowsDone <=> RowsDone') /\ (Settled <=> Settled'))
         /\ \A r : Served(r) <=> Served(r)'
  BY DEF RowsNames, Live, Accounted, RowsDone, Settled, Served, Provided, StaleRow, Wanted

\* OnTkeConfigChanged starts with the last version.
LEMMA BeginRest ==
  ASSUME PoolsInv, RestInv, Begin, UNCHANGED poolVars
  PROVE  RestInv'
  <1>1. /\ cfg' = cache /\ cache' = cache /\ api' = api /\ watch' = watch /\ pc' = "read" /\ pc = "idle"
        /\ pools' = pools /\ created' = created
    BY DEF Begin, poolVars, PoolsInv, TypeInv, NoImport
  <1>2. ObjectsInv'
    <2>1. cache.rv \in Nat
      BY Versions DEF PoolsInv, TypeInv
    <2> QED BY <1>1, <2>1 DEF RestInv, ObjectsInv, VersionsInv, SharedInv
  <1>3. AdoptedInv'
    BY <1>1, QuietPools, WrittenAdopted DEF RestInv, Kept
  <1>4. CreatedInv' /\ CalmInv'
    BY <1>1 DEF RestInv, CreatedInv, CalmInv, PassPCs
  <1> QED BY <1>2, <1>3, <1>4 DEF RestInv

\* The pass ended: what it returns is an error, or all is done.
LEMMA StatusRest ==
  ASSUME PoolsInv, RestInv, RowsAsTheyWere, queued => queued', pc' \notin PassPCs,
         UNCHANGED pools, created' \in {created, FALSE}, created' => pc' = "record",
         Calm /\ CalmInv /\ api' = api /\ Kept /\ Calm' => CalmInv'
  PROVE  RestInv'
  <1>1. CreatedInv' /\ RowsNames
    BY QuietPools DEF CreatedInv
  <1> QED BY <1>1, StepRest DEF RowsAsTheyWere

LEMMA ReadFailsRest ==
  ASSUME PoolsInv, RestInv, ReadFails
  PROVE  RestInv'
  <1>1. /\ Kept /\ cache' = cache /\ queued' = queued /\ pc' = "record" /\ err' = "cloud"
        /\ pools' = pools
    BY DEF ReadFails, Return, storeVars, poolVars, Kept
  <1>2. CreatedInv' /\ RowsNames /\ CalmInv'
    BY <1>1, QuietPools, ErrorCalm DEF CreatedInv
  <1> QED BY <1>1, <1>2, StepRest DEF PassPCs

\* Pools at work: an error, or the key in the queue.
LEMMA AwaitRest ==
  ASSUME PoolsInv, RestInv, Await
  PROVE  RestInv'
  <1>1. WorkerTypeOK(Row) /\ queued \in BOOLEAN
    BY Versions DEF PoolsInv, TypeInv, WorkerTypeOK
  <1>2. /\ RowsAsTheyWere /\ pc' = "record" /\ pools' = pools /\ created' = created
        /\ queued => queued'
    BY <1>1, AwaitPoolsStep DEF Await, AwaitPools, poolVars
  <1>3. ASSUME Calm'
        PROVE  CalmInv'
    <2>1. err' # "none"
      BY <1>3 DEF Await, AwaitPools, Return, Calm
    <2> QED BY <1>2, <2>1, ErrorCalm
  <1> QED BY <1>2, <1>3, StatusRest DEF PassPCs

LEMMA ReadRest ==
  ASSUME PoolsInv, RestInv, Read
  PROVE  RestInv'
  <1>1. /\ Kept /\ UNCHANGED <<cache, queued, cfg, pools, created>> /\ pc = "read" /\ pc' = "delete"
    BY DEF Read, Continue, storeVars, Kept
  <1>2. CreatedInv' /\ RowsNames
    BY <1>1, QuietPools DEF RestInv, CreatedInv
  <1>3. CalmInv => CalmInv'
    BY <1>1 DEF CalmInv, PassPCs
  <1> QED BY <1>1, <1>2, <1>3, StepRest DEF PassPCs

LEMMA DeleteRest ==
  ASSUME PoolsInv, RestInv, DeleteUnlisted
  PROVE  RestInv'
  <1>1. /\ Kept /\ UNCHANGED <<cache, queued, cfg, created>> /\ pc = "delete"
        /\ \/ pc' = "enqueue"
           \/ pc' = "record" /\ err' = "cloud"
        /\ pools' = pools \/ DeleteVirtualPools(Unlisted)
    BY DEF DeleteUnlisted, Continue, Return, storeVars, Kept
  <1>2. Pools(pools) /\ Unlisted \in SUBSET PoolIDs
    BY TypeParts DEF PoolsInv, TypeInv, Unlisted, LiveIn, LocalsTypeOK
  <1>3. RowsNames
    <2>1. CASE pools' = pools
      BY <2>1, QuietPools
    <2>2. CASE DeleteVirtualPools(Unlisted)
      BY <1>2, <2>2, DeleteEffect, LivePools, SameRowsNamesOfPools DEF Live
    <2> QED BY <1>1, <2>1, <2>2
  <1>4. CreatedInv'
    BY <1>1 DEF RestInv, CreatedInv
  <1>5. CalmInv => CalmInv'
    <2>1. CASE pc' = "enqueue"
      BY <1>1, <2>1 DEF CalmInv, PassPCs
    <2>2. CASE pc' = "record" /\ err' = "cloud"
      BY <2>2, ErrorCalm
    <2> QED BY <1>1, <2>1, <2>2
  <1> QED BY <1>1, <1>3, <1>4, <1>5, StepRest DEF PassPCs

\* Every pool is listed: by the name its row has, or by an id that is stored, or was
\* adopted by its name.
LEMMA NoneUnlistedRest ==
  ASSUME PoolsInv, RestInv, NoneUnlisted
  PROVE  RestInv'
  <1>1. /\ Kept /\ UNCHANGED <<api, cache, queued, cfg, pools, read, created>> /\ pc = "delete"
        /\ Unlisted = {} /\ index' = 1
        /\ pc' = IF cfg.rows = <<>> THEN "finish" ELSE "create"
    BY DEF NoneUnlisted, Continue, storeVars, Kept
  <1>2. CreatedInv' /\ RowsNames /\ ~created
    BY <1>1, QuietPools DEF RestInv, CreatedInv
  <1>3. ASSUME Calm
        PROVE  CalmInv'
    <2>1. /\ CalmInv /\ cfg = cache /\ NamesOf(cache.rows) = NamesOf(api.rows) /\ watch = <<>>
      BY <1>1, <1>3, CalmObjects DEF PassPCs
    <2>2. Reads /\ \A p \in Live : p \in LiveIn(read)
      BY <1>1 DEF PoolsInv, PassInv, Reads
    <2>3. Accounted
      <3> SUFFICES ASSUME NEW p \in Live
                   PROVE  Wanted(p) \/ p \in Listed(api.rows)
        BY DEF Accounted
      <3>1. p \in Listed(cache.rows) \/ read[p].has.name \in NamesOf(api.rows)
        BY <1>1, <2>1, <2>2 DEF Unlisted
      <3>2. read[p].has = pools[p].has
        BY <2>2 DEF Reads
      <3>3. p \in Listed(cache.rows) \ Listed(api.rows) => Wanted(p)
        BY <2>1 DEF RestInv, AdoptedInv
      <3> QED BY <3>1, <3>2, <3>3 DEF Wanted
    <2>4. Accounted' /\ Reads'
      BY <1>1, <2>2, <2>3, QuietPools DEF Reads
    <2>5. CASE cfg.rows = <<>>
      <3>1. \A i \in DOMAIN cache'.rows : Served(cache.rows[i])'
        BY <1>1, <2>1, <2>5
      <3> QED BY <1>1, <2>1, <2>4, <2>5, <3>1 DEF CalmInv, PassPCs, RowsDone
    <2>6. CASE cfg.rows # <<>>
      <3>1. IDsBefore'
        <4>1. \A i \in DOMAIN cfg'.rows : ~(i < index')
          BY <1>1, <1>3, CalmObjects
        <4> QED BY <4>1 DEF IDsBefore
      <3> QED BY <1>1, <1>2, <2>1, <2>4, <2>6, <3>1 DEF CalmInv, PassPCs
    <2> QED BY <2>5, <2>6
  <1> QED BY <1>1, <1>2, <1>3, StepRest DEF PassPCs

\* The loop that creates: each row has an id, or one is not stored.
LEMMA AdoptRowRest ==
  ASSUME PoolsInv, RestInv, AdoptRow
  PROVE  RestInv'
  <1>1. /\ AtRow("create") /\ Kept /\ UNCHANGED <<api, queued, pools, read, created>>
        /\ pc' = pc /\ index' = index + 1
    BY DEF AdoptRow, NextRow, Kept
  <1>2. PICK p \in Existing : Adopt(p)
    BY DEF AdoptRow
  <1>3. /\ pc = "create" /\ pc \in Loops /\ index \in DOMAIN cfg.rows /\ index \in Nat
        /\ Existing \subseteq Live /\ Live \subseteq PoolIDs
        /\ \A j \in DOMAIN cfg.rows : j \in Nat
    BY <1>1, InLoop DEF Loops
  <1>4. p = cfg.rows[index].id \/ pools'[p].has.name \in NamesOf(cfg.rows)
    BY <1>1, <1>3, PoolOfRow DEF Loops, row
  <1>5. CreatedInv' /\ RowsNames /\ Live' = Live /\ (Accounted <=> Accounted')
    BY <1>1, <1>3, QuietPools DEF RestInv, CreatedInv
  <1>6. ASSUME Calm, CalmInv
        PROVE  CalmInv'
    <2>1. /\ cache' = cfg' /\ p # NoPool
          /\ DOMAIN cfg'.rows = DOMAIN cfg.rows /\ cfg'.rows[index].id = p
          /\ \A i \in DOMAIN cfg.rows : i # index => cfg'.rows[i] = cfg.rows[i]
      <3>1. cfg = cache
        BY <1>3, <1>6 DEF CalmInv, PassPCs
      <3> QED BY <1>2, <1>3, <3>1, AdoptedRows DEF PoolsInv, RestInv
    <2>2. NewID => NewID'
      BY <1>1, <2>1 DEF NewID
    <2>3. Reads /\ IDsBefore => Reads' /\ IDsBefore'
      <3>1. IDsBefore => IDsBefore'
        <4>1. \A i \in DOMAIN cfg.rows : i < index + 1 => i < index \/ i = index
          BY <1>3
        <4> QED BY <1>1, <2>1, <4>1 DEF IDsBefore
      <3> QED BY <1>1, <1>5, <3>1 DEF Reads
    <2> QED BY <1>1, <1>3, <1>5, <1>6, <2>1, <2>2, <2>3 DEF CalmInv, PassPCs
  <1> QED BY <1>1, <1>2, <1>3, <1>4, <1>5, <1>6, AdoptRest

LEMMA SkipStaleRowRest ==
  ASSUME PoolsInv, RestInv, SkipStaleRow
  PROVE  RestInv'
  <1>1. /\ AtRow("create") /\ Kept /\ UNCHANGED <<api, cache, queued, cfg, pools, read, created>>
        /\ pc' = pc /\ index' = index + 1 /\ cfg.rows[index].id # NoPool
    BY DEF SkipStaleRow, NextRow, Kept, storeVars, row
  <1>2. /\ pc = "create" /\ index \in DOMAIN cfg.rows /\ index \in Nat
        /\ \A j \in DOMAIN cfg.rows : j \in Nat
    BY <1>1, InLoop DEF Loops
  <1>3. CreatedInv' /\ RowsNames /\ Live' = Live /\ (Accounted <=> Accounted')
    BY <1>1, <1>2, QuietPools DEF RestInv, CreatedInv
  <1>4. IDsBefore => IDsBefore'
    <2>1. \A i \in DOMAIN cfg.rows : i < index + 1 => i < index \/ i = index
      BY <1>2
    <2> QED BY <1>1, <2>1 DEF IDsBefore
  <1>5. CalmInv => CalmInv'
    BY <1>1, <1>2, <1>3, <1>4 DEF CalmInv, PassPCs, NewID, Reads
  <1> QED BY <1>1, <1>2, <1>3, <1>5, StepRest DEF PassPCs

\* The pool has the name of the row, whose id is not stored yet.
LEMMA CreateRowRest ==
  ASSUME PoolsInv, RestInv, CreateRow
  PROVE  RestInv'
  <1>1. /\ AtRow("create") /\ Existing = {} /\ Kept /\ UNCHANGED <<api, queued, read>>
        /\ cfg.rows[index].id = NoPool
    BY DEF CreateRow, Kept, row
  <1>2. /\ pc = "create" /\ pc \in Loops /\ index \in DOMAIN cfg.rows /\ Live \subseteq PoolIDs
    BY <1>1, InLoop DEF Loops
  <1>3. CASE /\ CreateVirtualPool(row) /\ Adopt(NextPool)
             /\ created' = TRUE
             /\ NextRow
             /\ UNCHANGED faults
    <2>1. /\ NextPool \in PoolIDs /\ Live \subseteq LiveIn(pools')
          /\ \A q \in LiveIn(pools') :
               \/ q \in Live /\ pools'[q].has.name = pools[q].has.name
               \/ pools'[q].has.name = row.name
      BY <1>1, <1>3, NewName
    <2>2. RowsNames
      BY <1>2, <2>1 DEF RowsNames, row
    <2>3. pools'[NextPool].has.name \in NamesOf(cfg.rows)
      <3>1. row \in Row /\ Pools(pools)
        BY <1>1, InLoop DEF Loops
      <3> QED BY <1>2, <1>3, <3>1, CreateEffect DEF NamesOf, row
    <2>4. pc' = pc /\ CreatedInv'
      BY <1>2, <1>3 DEF NextRow, CreatedInv
    <2>5. ASSUME Calm, CalmInv
          PROVE  CalmInv'
      <3>1. cfg = cache /\ NamesOf(cfg.rows) = NamesOf(api.rows) /\ watch = <<>>
        BY <1>2, <2>5, CalmObjects DEF PassPCs
      <3>2. /\ cache' = cfg' /\ DOMAIN cfg'.rows = DOMAIN cfg.rows
            /\ cfg'.rows[index].id = NextPool /\ NextPool # NoPool
        BY <1>2, <1>3, <2>1, <3>1, AdoptedRows DEF PoolsInv, RestInv
      <3>3. NewID'
        BY <1>1, <1>2, <3>1, <3>2 DEF NewID, RestInv, AdoptedInv
      <3>4. Accounted'
        <4>1. Accounted
          BY <1>2, <2>5 DEF CalmInv
        <4>2. row.name \in NamesOf(api.rows)
          BY <1>2, <3>1 DEF NamesOf, row
        <4> QED BY <1>1, <2>1, <4>1, <4>2 DEF Accounted, Wanted, Live
      <3> QED BY <1>2, <1>3, <2>4, <3>2, <3>3, <3>4 DEF CalmInv, PassPCs
    <2> QED BY <1>1, <1>2, <1>3, <2>1, <2>2, <2>3, <2>4, <2>5, AdoptRest
  <1>4. CASE /\ CallFails /\ Return(cfg, "cloud")
             /\ CreateVirtualPool(row) \/ UNCHANGED pools
             /\ UNCHANGED <<cache, created, index>>
    <2>1. RowsNames
      <3>1. CASE CreateVirtualPool(row)
        BY <1>1, <1>2, <3>1, NewName DEF RowsNames, row
      <3>2. CASE UNCHANGED pools
        BY <3>2, QuietPools
      <3> QED BY <1>4, <3>1, <3>2
    <2>2. pc' = "record" /\ err' = "cloud" /\ CreatedInv' /\ CalmInv'
      BY <1>4, ErrorCalm DEF Return, CreatedInv
    <2> QED BY <1>1, <1>4, <2>1, <2>2, StepRest DEF PassPCs
  <1> QED BY <1>3, <1>4 DEF CreateRow

LEMMA CreateDoneRest ==
  ASSUME PoolsInv, RestInv, CreateDone
  PROVE  RestInv'
  <1>1. /\ Kept /\ UNCHANGED <<api, cache, queued, cfg, pools, read, created, applied>>
        /\ pc = "create" /\ index \notin DOMAIN cfg.rows /\ index' = 1
        /\ pc' = IF created THEN "saveRows" ELSE "modify"
    BY DEF CreateDone, Continue, storeVars, Kept, AtRow
  <1>2. CreatedInv' /\ RowsNames /\ (Accounted <=> Accounted') /\ Live' = Live
    BY <1>1, QuietPools DEF RestInv, CreatedInv
  <1>3. ASSUME Calm, CalmInv
        PROVE  CalmInv'
    <2>1. CASE created
      BY <1>1, <1>2, <1>3, <2>1 DEF CalmInv, PassPCs, NewID
    <2>2. CASE ~created
      <3>1. \A i \in DOMAIN cfg.rows : i < index /\ ~(i < 1)
        BY <1>1, <1>3, CalmObjects DEF LocalsTypeOK
      <3>2. (\A i \in DOMAIN cfg'.rows : cfg'.rows[i].id # NoPool) /\ ServedBefore'
        BY <1>1, <1>3, <2>2, <3>1 DEF CalmInv, IDsBefore, ServedBefore
      <3>3. Reads'
        BY <1>1, <1>2, <1>3, <2>2 DEF CalmInv, Reads
      <3> QED BY <1>1, <1>2, <1>3, <2>2, <3>2, <3>3 DEF CalmInv, PassPCs
    <2> QED BY <2>1, <2>2
  <1> QED BY <1>1, <1>2, <1>3, StepRest DEF PassPCs

\* The rows are stored with the new id, and the write makes an event; so nothing is
\* owed, or it is tried again.
LEMMA SaveRowsRest ==
  ASSUME PoolsInv, RestInv, SaveRows
  PROVE  RestInv'
  <1> DEFINE new == [cache EXCEPT !.rows = Filled(cache.rows)]
  <1>1. /\ cache' = cache /\ queued' = queued /\ pc = "saveRows"
        /\ UNCHANGED <<pools, created>>
    BY DEF SaveRows, poolVars
  <1>2. TypeOK /\ cache \in Objects(Row) /\ cache.rows \in Seq(Row) /\ WorkerTypeOK(Row)
    BY Versions DEF PoolsInv, TypeInv
  <1>3. new \in Objects(Row) /\ new.rows = Filled(cache.rows)
    BY <1>2, FilledRows DEF Objects
  <1>4. PICK res \in WriteResults :
          /\ Update(new, res)
          /\ \/ res = "ok" /\ Return(api', "none")
             \/ res = "conflict" /\ Continue("saveRows")
             \/ res # "ok" /\ Return(cfg, "store")
    BY DEF SaveRows
  <1>5. /\ Kept \/ NewVersion
        /\ res = "ok" => api'.rows = Filled(cache.rows)
    <2> HIDE DEF new
    <2> QED BY <1>2, <1>3, <1>4, UpdateEffect
  <1>6. pc' \in PassPCs => pc \in PassPCs /\ cfg' = cfg
    BY <1>1, <1>4 DEF Return, Continue, PassPCs
  <1>7. CreatedInv' /\ RowsNames /\ (api' = api => (Accounted <=> Accounted'))
    BY <1>1, <1>4, QuietPools DEF Return, Continue, CreatedInv
  <1>8. ASSUME Calm, CalmInv, api' = api
        PROVE  CalmInv'
    <2>1. NewID /\ cfg = cache /\ Accounted
      BY <1>1, <1>8 DEF CalmInv, PassPCs
    <2>2. CASE res = "ok"
      <3>1. PICK i \in DOMAIN cache.rows : cache.rows[i].id # NoPool /\ api.rows[i].id = NoPool
        BY <2>1 DEF NewID
      <3>2. Filled(cache.rows)[i] = cache.rows[i]
        BY <3>1 DEF Filled
      <3> QED BY <1>5, <1>8, <2>2, <3>1, <3>2
    <2>3. CASE res = "conflict" /\ Continue("saveRows")
      BY <1>1, <1>7, <1>8, <2>1, <2>3 DEF CalmInv, PassPCs, Continue, NewID
    <2>4. CASE res # "ok" /\ Return(cfg, "store")
      BY <2>4, ErrorCalm DEF Return
    <2> QED BY <1>4, <2>2, <2>3, <2>4
  <1> QED BY <1>1, <1>5, <1>6, <1>7, <1>8, StepRest

\* The loop that modifies: what was not changed is as the rows ask for.
LEMMA RowServed ==
  ASSUME PoolsInv, AtRow("modify"), Reads, NEW p \in Existing, NEW r,
         ~Applied(pools[p].has, Diff(Desired(row), read[p].has)),
         r = [row EXCEPT !.id = p]
  PROVE  Served(r)
  <1>1. /\ row \in Row /\ p \in Live /\ p \in PoolIDs /\ read[p].has \in Detail
    BY InLoop DEF Loops
  <1>2. read[p].has = pools[p].has
    BY <1>1 DEF Reads
  <1>3. Desired(row) \in Detail /\ Desired(row).name = row.name /\ row.name # NoName
    BY <1>1, DesiredType
  <1>4. pools[p].has.name = row.name /\ Reached(Desired(row), pools[p].has)
    BY <1>1, <1>2, <1>3, NothingApplied
  <1>5. r.id = p /\ r.name = row.name /\ Desired(r) = Desired(row)
    BY <1>1 DEF Row, Desired
  <1> QED BY <1>1, <1>4, <1>5 DEF Served, Provided

\* A row without a pool: no pool has its name, and its id is of none.
LEMMA RowStale ==
  ASSUME PoolsInv, AtRow("modify"), Reads, Existing = {}, row.id # NoPool
  PROVE  Served(row)
  <1>1. row.id \notin DOMAIN read /\ \A q \in Live : pools[q].has.name # row.name
    BY RowsPool DEF Existing, Loops
  <1>2. row.id \notin Live
    BY <1>1 DEF Reads
  <1> QED BY <1>1, <1>2 DEF Served, StaleRow

\* Nothing to send has no effect.
LEMMA NoChangeApplied ==
  ASSUME NEW u \in Detail
  PROVE  ~Applied(u, NoChange)
  <1>1. After(u, NoChange) = [name |-> u.name, sgs |-> u.sgs, labels |-> u.labels,
                              taints |-> u.taints, protection |-> u.protection]
    BY GivenValue DEF After, NoChange, Sent
  <1> QED BY <1>1 DEF Applied, Detail

\* The loop goes on with a row that has its pool's id.
LEMMA ModifiesRest ==
  ASSUME PoolsInv, RestInv, AtRow("modify"), NEW p \in Existing, Adopt(p),
         NextRow, UNCHANGED <<api, watch, queued, read, created>>,
         ModifyVirtualPool(p, Diff(Desired(row), read[p].has)),
         applied' = (applied \/ Applied(pools[p].has, Diff(Desired(row), read[p].has)))
  PROVE  RestInv'
  <1> DEFINE fields == Diff(Desired(row), read[p].has)
  <1>1. /\ pc = "modify" /\ pc \in Loops /\ index \in DOMAIN cfg.rows /\ index \in Nat
        /\ p \in Live /\ p \in PoolIDs /\ Pools(pools) /\ LocalsTypeOK
        /\ \A j \in DOMAIN cfg.rows : j \in Nat
    BY InLoop DEF Loops
  <1>2. /\ Kept /\ pc' = pc /\ index' = index + 1
    BY DEF Kept, NextRow
  <1>3. /\ Live \subseteq LiveIn(pools')
        /\ \A q \in LiveIn(pools') :
             \/ q \in Live /\ pools'[q].has.name = pools[q].has.name
             \/ pools'[q].has.name = row.name
    BY ModifiedName
  <1>4. RowsNames /\ row.name \in NamesOf(cfg.rows)
    BY <1>1, <1>3 DEF RowsNames, row, NamesOf
  <1>5. p = cfg.rows[index].id \/ pools'[p].has.name \in NamesOf(cfg.rows)
    BY <1>1, <1>3, <1>4, PoolOfRow DEF Loops, row
  <1>6. CreatedInv'
    BY <1>1, <1>2 DEF RestInv, CreatedInv
  <1>7. ASSUME Calm, CalmInv
        PROVE  CalmInv'
    <2>1. cfg = cache /\ NamesOf(cfg.rows) = NamesOf(api.rows)
      BY <1>1, <1>7, CalmObjects DEF PassPCs
    <2>2. /\ cache' = cfg' /\ DOMAIN cfg'.rows = DOMAIN cfg.rows
          /\ cfg'.rows[index] = [row EXCEPT !.id = p] /\ cfg'.rows[index].id = p /\ p # NoPool
          /\ \A i \in DOMAIN cfg.rows : i # index => cfg'.rows[i] = cfg.rows[i]
      BY <1>1, <2>1, AdoptedRows DEF PoolsInv, RestInv, row
    <2>3. \A i \in DOMAIN cfg'.rows : cfg'.rows[i].id # NoPool
      BY <1>1, <1>7, <2>2 DEF CalmInv
    <2>4. Accounted'
      BY <1>1, <1>3, <1>4, <1>7, <2>1 DEF CalmInv, Accounted, Wanted, Live
    <2>5. ASSUME ~applied'
          PROVE  Reads' /\ ServedBefore'
      <3>1. Reads /\ ServedBefore /\ ~Applied(pools[p].has, fields)
        BY <1>1, <1>7, <2>5 DEF CalmInv
      <3>2. pools' = pools
        BY <1>1, <3>1, LivePools DEF ModifyVirtualPool, Pools
      <3>3. Reads' /\ \A r : Served(r) <=> Served(r)'
        BY <3>1, <3>2, QuietPools DEF Reads
      <3>4. Served(cfg'.rows[index])
        BY <2>2, <3>1, RowServed
      <3>5. \A i \in DOMAIN cfg.rows : i < index + 1 => i < index \/ i = index
        BY <1>1
      <3>6. \A i \in DOMAIN cfg'.rows : i < index' => Served(cfg'.rows[i])
        BY <1>2, <2>2, <3>1, <3>4, <3>5 DEF ServedBefore
      <3> QED BY <3>3, <3>6 DEF ServedBefore
    <2> QED BY <1>1, <1>2, <2>2, <2>3, <2>4, <2>5 DEF CalmInv, PassPCs
  <1> QED BY <1>1, <1>2, <1>4, <1>5, <1>6, <1>7, AdoptRest

LEMMA KeepRowRest ==
  ASSUME PoolsInv, RestInv, KeepRow
  PROVE  RestInv'
  <1>1. /\ AtRow("modify") /\ Unmodified /\ NextRow
        /\ UNCHANGED <<api, watch, queued, pools, read, created, applied>>
    BY DEF KeepRow
  <1>2. /\ pc = "modify" /\ index \in DOMAIN cfg.rows /\ index \in Nat /\ Pools(pools)
        /\ Existing \subseteq Live /\ Live \subseteq PoolIDs
        /\ \A j \in DOMAIN cfg.rows : j \in Nat
    BY <1>1, InLoop DEF Loops
  <1>3. CASE \E p \in Existing : Adopt(p)
    <2>1. PICK p \in Existing : Adopt(p)
      BY <1>3
    <2>2. Diff(Desired(row), read[p].has) = NoChange
      BY <1>1 DEF Unmodified
    <2>3. ~Applied(pools[p].has, Diff(Desired(row), read[p].has))
      BY <1>2, <2>2, LivePools, PoolParts, NoChangeApplied
    <2>4. ModifyVirtualPool(p, Diff(Desired(row), read[p].has))
      BY <1>1, <1>2, <2>3 DEF ModifyVirtualPool, Pools
    <2>5. applied' = (applied \/ Applied(pools[p].has, Diff(Desired(row), read[p].has)))
      BY <1>1, <2>3, InLoop DEF Loops, LocalsTypeOK
    <2> QED BY <1>1, <2>1, <2>4, <2>5, ModifiesRest
  <1>4. CASE Existing = {} /\ UNCHANGED <<cfg, cache>>
    <2>1. /\ Kept /\ pc' = pc /\ index' = index + 1
      BY <1>1 DEF Kept, NextRow
    <2>2. /\ CreatedInv' /\ RowsNames /\ Live' = Live /\ (Accounted <=> Accounted')
          /\ \A r : Served(r) <=> Served(r)'
      BY <1>1, <2>1, QuietPools DEF RestInv, CreatedInv
    <2>3. ASSUME CalmInv
          PROVE  CalmInv'
      <3>1. \A i \in DOMAIN cfg.rows : cfg.rows[i].id # NoPool
        BY <1>2, <2>3 DEF CalmInv
      <3>2. ASSUME Reads, ServedBefore
            PROVE  Reads' /\ ServedBefore'
        <4>1. Served(cfg.rows[index])
          BY <1>1, <1>2, <1>4, <3>1, <3>2, RowStale DEF row
        <4>2. \A i \in DOMAIN cfg.rows : i < index + 1 => i < index \/ i = index
          BY <1>2
        <4>3. \A i \in DOMAIN cfg'.rows : i < index' => Served(cfg'.rows[i])
          BY <1>4, <2>1, <3>2, <4>1, <4>2 DEF ServedBefore
        <4> QED BY <1>1, <2>2, <3>2, <4>3 DEF Reads, ServedBefore
      <3> QED BY <1>1, <1>2, <1>4, <2>1, <2>2, <2>3, <3>1, <3>2 DEF CalmInv, PassPCs
    <2> QED BY <1>1, <1>2, <1>4, <2>1, <2>2, <2>3, StepRest DEF PassPCs
  <1> QED BY <1>3, <1>4 DEF KeepRow

LEMMA ModifyRowRest ==
  ASSUME PoolsInv, RestInv, ModifyRow
  PROVE  RestInv'
  <1>1. AtRow("modify") /\ UNCHANGED <<api, watch, queued, edits, read, created>>
    BY DEF ModifyRow
  <1>2. CASE /\ \E p \in Existing :
                  LET fields == Diff(Desired(row), read[p].has) IN
                  /\ ModifyVirtualPool(p, fields) /\ Adopt(p)
                  /\ applied' = (applied \/ Applied(pools[p].has, fields))
             /\ NextRow
             /\ UNCHANGED faults
    BY <1>1, <1>2, ModifiesRest
  <1>3. CASE /\ CallFails /\ Return(cfg, "cloud")
             /\ \/ UNCHANGED pools
                \/ \E p \in Existing : ModifyVirtualPool(p, Diff(Desired(row), read[p].has))
             /\ UNCHANGED <<cache, applied, index>>
    <2>1. RowsNames
      <3>1. pc \in Loops /\ index \in DOMAIN cfg.rows
        BY <1>1, InLoop DEF Loops
      <3>2. CASE \E p \in Existing : ModifyVirtualPool(p, Diff(Desired(row), read[p].has))
        BY <1>1, <3>1, <3>2, ModifiedName DEF RowsNames, row
      <3>3. CASE UNCHANGED pools
        BY <3>3, QuietPools
      <3> QED BY <1>3, <3>2, <3>3
    <2>2. pc' = "record" /\ err' = "cloud" /\ CreatedInv' /\ CalmInv' /\ Kept
      BY <1>1, <1>3, ErrorCalm DEF Return, CreatedInv, Kept
    <2> QED BY <1>1, <1>3, <2>1, <2>2, StepRest DEF PassPCs
  <1> QED BY <1>2, <1>3 DEF ModifyRow

LEMMA ModifyDoneRest ==
  ASSUME PoolsInv, RestInv, ModifyDone
  PROVE  RestInv'
  <1>1. /\ Kept /\ UNCHANGED <<api, cache, queued, cfg, pools, created>>
        /\ pc = "modify" /\ index \notin DOMAIN cfg.rows
        /\ pc' = IF applied THEN "enqueue" ELSE "finish"
    BY DEF ModifyDone, Continue, storeVars, poolVars, Kept, AtRow
  <1>2. CreatedInv' /\ RowsNames /\ (RowsDone <=> RowsDone')
    BY <1>1, QuietPools DEF RestInv, CreatedInv
  <1>3. ASSUME Calm, CalmInv
        PROVE  CalmInv'
    <2>1. CASE applied
      BY <1>1, <1>3, <2>1 DEF CalmInv, PassPCs
    <2>2. CASE ~applied
      <3>1. \A i \in DOMAIN cfg.rows : i < index
        BY <1>1, <1>3, CalmObjects DEF LocalsTypeOK
      <3>2. RowsDone
        BY <1>1, <1>3, <2>2, <3>1 DEF CalmInv, PassPCs, ServedBefore, RowsDone
      <3> QED BY <1>1, <1>2, <1>3, <2>2, <3>2 DEF CalmInv, PassPCs
    <2> QED BY <2>1, <2>2
  <1> QED BY <1>1, <1>2, <1>3, StepRest DEF PassPCs

\* enqueueUpdate comes back, or stores a phase that is another.
LEMMA EnqueueRest ==
  ASSUME PoolsInv, RestInv, EnqueueUpdate, UNCHANGED poolVars
  PROVE  RestInv'
  <1>1. WorkerTypeOK(Row) /\ queued \in BOOLEAN
    BY Versions DEF PoolsInv, TypeInv, WorkerTypeOK
  <1>2. /\ RowsAsTheyWere /\ pc = "enqueue" /\ pc' = "record" /\ pools' = pools /\ created' = created
        /\ queued => queued'
    BY <1>1, EnqueueUpdateStep DEF EnqueueUpdate, poolVars
  <1>3. ASSUME Calm, CalmInv, api' = api, Calm'
        PROVE  CalmInv'
    <2>1. cfg.phase = api.phase
      BY <1>2, <1>3, CalmObjects DEF PassPCs
    <2>2. cfg.phase # "updating"
      BY <1>3 DEF EnqueueUpdate, Calm
    <2>3. PICK res \in WriteResults :
            /\ UpdateStatus([api EXCEPT !.phase = "updating"], res)
            /\ IF res = "ok" THEN Return(api', "none") ELSE Return(Empty, "store")
      BY <2>2 DEF EnqueueUpdate
    <2>4. /\ [api EXCEPT !.phase = "updating"] \in Objects(Row)
          /\ [api EXCEPT !.phase = "updating"].phase = "updating"
      BY <1>1 DEF WorkerTypeOK, Objects, Phases
    <2>5. res # "ok"
      BY <1>1, <1>3, <2>1, <2>2, <2>3, <2>4, UpdateStatusEffect
    <2> QED BY <2>3, <2>5, ErrorCalm DEF Return
  <1> QED BY <1>2, <1>3, StatusRest DEF PassPCs

LEMMA FinishRest ==
  ASSUME PoolsInv, RestInv, Finish, UNCHANGED poolVars
  PROVE  RestInv'
  <1>1. WorkerTypeOK(Row) /\ cfg \in Objects(Row)
    BY Versions DEF PoolsInv, TypeInv
  <1>2. /\ RowsAsTheyWere /\ pc = "finish" /\ pc' = "record" /\ pools' = pools /\ created' = created
        /\ cache' = cache /\ queued' = queued
    BY <1>1, FinishStep DEF Finish, poolVars
  <1>3. ASSUME Calm, CalmInv, api' = api
        PROVE  CalmInv'
    <2>1. cfg.phase = api.phase /\ RowsDone
      BY <1>2, <1>3, CalmObjects DEF PassPCs, CalmInv
    <2>2. CASE cfg.phase = "active" /\ Return(cfg, "none")
      BY <1>2, <1>3, <2>1, <2>2, QuietPools, SettledCalm DEF Settled
    <2>3. CASE cfg.phase # "active" /\ ReturnUpdateStatus([cfg EXCEPT !.phase = "active"])
      <3>1. /\ [cfg EXCEPT !.phase = "active"] \in Objects(Row)
            /\ [cfg EXCEPT !.phase = "active"].phase = "active"
        BY <1>1 DEF Objects, Phases
      <3> QED BY <1>1, <1>3, <2>1, <2>3, <3>1, ReturnUpdateStatusCalm, ErrorCalm
    <2> QED BY <2>2, <2>3 DEF Finish
  <1> QED BY <1>2, <1>3, StatusRest DEF PassPCs

LEMMA RecordRest ==
  ASSUME PoolsInv, RestInv, RecordError, Forget
  PROVE  RestInv'
  <1>1. WorkerTypeOK(Row)
    BY Versions DEF PoolsInv, TypeInv
  <1>2. /\ RowsAsTheyWere /\ pc = "record" /\ pc' = "end" /\ pools' = pools /\ created' = FALSE
        /\ cache' = cache /\ queued' = queued /\ err' = err
    BY <1>1, RecordErrorStep DEF RecordError, Forget
  <1>3. ASSUME CalmInv, api' = api
        PROVE  CalmInv'
    BY <1>2, <1>3, QuietPools DEF CalmInv, PassPCs
  <1> QED BY <1>2, <1>3, StatusRest DEF PassPCs

LEMMA EndRest ==
  ASSUME PoolsInv, RestInv, End, UNCHANGED poolVars
  PROVE  RestInv'
  <1>1. WorkerTypeOK(Row) /\ queued \in BOOLEAN
    BY Versions DEF PoolsInv, TypeInv, WorkerTypeOK
  <1>2. /\ RowsAsTheyWere /\ pc = "end" /\ pc' = "idle" /\ pools' = pools /\ created' = created
        /\ cache' = cache /\ queued' = (queued \/ err # "none") /\ ~created
    BY <1>1, EndStep DEF End, poolVars, RestInv, CreatedInv
  <1>3. ASSUME CalmInv, api' = api, Calm'
        PROVE  CalmInv'
    <2>1. err = "none"
      BY <1>2, <1>3 DEF Calm
    <2> QED BY <1>2, <1>3, <2>1, QuietPools, SettledCalm DEF CalmInv
  <1> QED BY <1>2, <1>3, StatusRest DEF PassPCs

\* Work on a pool ends: what it has is as it was.
LEMMA ProgressRest ==
  ASSUME PoolsInv, RestInv, NEW p \in PoolIDs, PoolProgress(p)
  PROVE  RestInv'
  <1>1. /\ Kept /\ UNCHANGED <<api, cache, queued, pc, cfg, err, read, index, created, applied>>
    BY DEF PoolProgress, storeVars, workerVars, Kept
  <1>2. /\ LiveIn(pools') = Live /\ Live \subseteq PoolIDs
        /\ \A q \in PoolIDs : pools'[q].has = pools[q].has
    BY ProgressEffect, TypeParts, LivePools DEF PoolsInv, TypeInv, Live
  <1>3. RowsNames /\ CreatedInv'
    BY <1>1, <1>2, SameRowsNamesOfPools DEF RestInv, CreatedInv
  <1>4. Live' = Live
    BY <1>2 DEF Live
  <1>5. /\ (Accounted <=> Accounted') /\ (Reads <=> Reads')
        /\ \A r : Served(r) <=> Served(r)'
    BY <1>1, <1>2, <1>4 DEF Accounted, Reads, Wanted, Served, Provided, StaleRow
  <1>6. (RowsDone <=> RowsDone') /\ (Settled <=> Settled') /\ (ServedBefore <=> ServedBefore')
        /\ (IDsBefore <=> IDsBefore') /\ (NewID <=> NewID')
    BY <1>1, <1>5 DEF RowsDone, Settled, ServedBefore, IDsBefore, NewID
  <1>7. CalmInv => CalmInv'
    BY <1>1, <1>5, <1>6 DEF CalmInv
  <1> QED BY <1>1, <1>3, <1>7, StepRest

LEMMA InformerRest ==
  ASSUME PoolsInv, RestInv, Informer
  PROVE  RestInv'
  <1>1. Deliver /\ UNCHANGED workerVars /\ UNCHANGED poolVars /\ api' = api /\ queued'
    BY DEF Informer, Deliver
  <1>2. ObjectsInv' /\ (watch' = <<>> => cache' = api')
    BY <1>1, DeliveredObjects DEF PoolsInv, RestInv
  <1>3. AdoptedInv'
    BY <1>2 DEF AdoptedInv
  <1>4. CreatedInv'
    BY <1>1 DEF RestInv, CreatedInv, workerVars, poolVars
  <1> QED BY <1>1, <1>2, <1>3, <1>4 DEF RestInv, Calm

LEMMA RestartRest ==
  ASSUME PoolsInv, RestInv, Restart
  PROVE  RestInv'
  <1>1. /\ api' = api /\ cache' = api /\ watch' = <<>> /\ pc' = "idle" /\ queued' /\ created' = FALSE
    BY DEF Restart, Crash, Forget
  <1>2. ObjectsInv'
    <2>1. api.rv \in Nat /\ Len(watch') = 0 /\ DOMAIN watch' = {}
      BY <1>1, Versions DEF PoolsInv, TypeInv
    <2> QED BY <1>1, <2>1 DEF ObjectsInv, VersionsInv, SharedInv, PassPCs
  <1> QED BY <1>1, <1>2 DEF RestInv, AdoptedInv, CreatedInv, Calm

LEMMA UserEditRest ==
  ASSUME PoolsInv, RestInv, UserEdit
  PROVE  RestInv'
  <1>1. PICK rows \in Edited(api.rows) : Publish([api EXCEPT !.rows = rows])
    BY DEF UserEdit
  <1>2. rows \in Seq(Row) /\ WorkerTypeOK(Row)
    BY <1>1, EditedRows, Versions DEF PoolsInv, TypeInv, NamesInv
  <1>3. NewVersion /\ cache' = cache /\ cfg' = cfg
    BY <1>1, <1>2, RowsStep DEF UserEdit
  <1>4. queued' = queued /\ pc' = pc /\ UNCHANGED <<pools, created>>
    BY DEF UserEdit, workerVars, poolVars
  <1>5. RowsNames /\ CreatedInv'
    BY <1>4, QuietPools DEF RestInv, CreatedInv
  <1>6. ~Calm'
    BY <1>2, <1>3, NewVersionComes
  <1> QED BY <1>3, <1>4, <1>5, <1>6, StepRest

LEMMA StutterRest ==
  ASSUME RestInv, UNCHANGED vars
  PROVE  RestInv'
  <1>1. /\ UNCHANGED <<api, cache, watch, queued, pc, cfg, err>>
        /\ UNCHANGED <<pools, read, index, created, applied>>
    BY DEF vars, storeVars, workerVars, poolVars
  <1>2. ObjectsInv' /\ CreatedInv' /\ (Calm <=> Calm') /\ Live' = Live
    BY <1>1 DEF RestInv, ObjectsInv, VersionsInv, SharedInv, CreatedInv, Calm, Live
  <1>3. /\ (Accounted <=> Accounted') /\ (Reads <=> Reads')
        /\ \A r : Served(r) <=> Served(r)'
    BY <1>1, <1>2 DEF Accounted, Reads, Wanted, Served, Provided, StaleRow
  <1>4. (RowsDone <=> RowsDone') /\ (Settled <=> Settled') /\ (ServedBefore <=> ServedBefore')
        /\ (IDsBefore <=> IDsBefore') /\ (NewID <=> NewID')
    BY <1>1, <1>3 DEF RowsDone, Settled, ServedBefore, IDsBefore, NewID
  <1>5. AdoptedInv' /\ (CalmInv <=> CalmInv')
    BY <1>1, <1>2, <1>3, <1>4 DEF RestInv, AdoptedInv, CalmInv, Wanted
  <1> QED BY <1>2, <1>5 DEF RestInv

LEMMA RestInvAlways ==
  Spec => [](PoolsInv /\ RestInv)
  <1>1. Init => RestInv
    <2> SUFFICES ASSUME Init PROVE RestInv
      OBVIOUS
    <2>1. /\ cache = api /\ watch = <<>> /\ queued = TRUE /\ pc = "idle" /\ created = FALSE
      BY DEF Init, WorkerInit
    <2>2. api.rv \in Nat /\ Len(watch) = 0 /\ DOMAIN watch = {}
      BY <2>1, InitOK, Versions DEF PoolsInv, TypeInv
    <2> QED BY <2>1, <2>2 DEF RestInv, ObjectsInv, VersionsInv, SharedInv, PassPCs, AdoptedInv,
                              CreatedInv, Calm
  <1>2. PoolsInv /\ RestInv /\ [Next]_vars => RestInv'
    <2> SUFFICES ASSUME PoolsInv, RestInv, [Next]_vars PROVE RestInv'
      OBVIOUS
    <2>1. CASE UNCHANGED vars
      BY <2>1, StutterRest
    <2>2. CASE ReadFails \/ Await \/ Read
      BY <2>2, ReadFailsRest, AwaitRest, ReadRest
    <2>3. CASE DeleteUnlisted \/ NoneUnlisted
      BY <2>3, DeleteRest, NoneUnlistedRest
    <2>4. CASE AdoptRow \/ SkipStaleRow \/ CreateRow \/ CreateDone \/ SaveRows
      BY <2>4, AdoptRowRest, SkipStaleRowRest, CreateRowRest, CreateDoneRest, SaveRowsRest
    <2>5. CASE KeepRow \/ ModifyRow \/ ModifyDone
      BY <2>5, KeepRowRest, ModifyRowRest, ModifyDoneRest
    <2>6. CASE (Begin \/ EnqueueUpdate \/ Finish \/ End) /\ UNCHANGED poolVars
      BY <2>6, BeginRest, EnqueueRest, FinishRest, EndRest
    <2>7. CASE RecordError /\ Forget
      BY <2>7, RecordRest
    <2>8. CASE Informer \/ Restart \/ UserEdit
      BY <2>8, InformerRest, RestartRest, UserEditRest
    <2>9. CASE \E p \in PoolIDs : PoolProgress(p)
      BY <2>9, ProgressRest
    <2> QED BY <2>1, <2>2, <2>3, <2>4, <2>5, <2>6, <2>7, <2>8, <2>9 DEF Next, Worker
  <1>3. PoolsInv /\ [Next]_vars => PoolsInv'
    BY NextOK, StutterOK, DeleteUnlistedOK DEF StepOK
  <1> QED BY <1>1, <1>2, <1>3, InitOK, PTL DEF Spec

-----------------------------------------------------------------------------
(* The results.                                                            *)

\* Every variable keeps its type: what a reconcile writes into rows, objects and the
\* pools of the cloud is of their kinds, whatever it had read (the part of
\* updateUpstreamClusterState on virtual node pools).
THEOREM VirtualPoolsTyped ==
  Spec => []TypeOK
  <1>1. PoolsInv => TypeOK
    BY DEF PoolsInv, TypeInv
  <1> QED BY <1>1, PoolsInvAlways, PTL

\* However answers are lost, ids are blanked and the operator restarts, the reconcile
\* makes no second pool under a name: a pass that creates has read all pools,
\* and a pool is renamed only to the name of a row whose pool it is (the two
\* loops, lines 776-910).
THEOREM OnePoolPerNameAlways ==
  Spec => []OnePoolPerName
  <1>1. PoolsInv => OnePoolPerName
    BY DEF PoolsInv
  <1> QED BY <1>1, PoolsInvAlways, PTL

\* A pool goes away in a reconcile only when the version this began with did not name
\* it; so a pool that the stored spec names is lost only to an older version
\* (lines 764-793).
THEOREM NamedPoolsStayAlways ==
  Spec => NamedPoolsStay
  <1> DEFINE A == \A p \in Live \ LiveIn(pools') :
                    pools[p].has.name \in NamesOf(api.rows) => cfg.rv < api.rv
  <1>1. PoolsInv /\ [Next]_vars => A
    <2> SUFFICES ASSUME PoolsInv, [Next]_vars PROVE A
      OBVIOUS
    <2>1. CASE Live \subseteq LiveIn(pools')
      BY <2>1
    <2>2. CASE DeleteUnlisted
      <3>1. \A p \in Live \ LiveIn(pools') : pools[p].has.name \notin NamesOf(cfg.rows)
        BY <2>2, DeleteUnlistedOK
      <3>2. cfg.rv <= api.rv /\ (cfg.rv = api.rv => NamesOf(cfg.rows) = NamesOf(api.rows))
        BY DEF PoolsInv, NamesInv, SameNames
      <3>3. cfg.rv \in Nat /\ api.rv \in Nat
        BY Versions DEF PoolsInv, TypeInv
      <3> QED BY <3>1, <3>2, <3>3
    <2> QED BY <2>1, <2>2, NextOK, StutterOK DEF StepOK
  <1>2. PoolsInv /\ [Next]_vars => [A]_vars
    BY <1>1
  <1>3. NamedPoolsStay <=> [][A]_vars
    BY DEF NamedPoolsStay
  <1> QED BY <1>2, <1>3, PoolsInvAlways, PTL DEF Spec

\* A worker that rests is done, however the edits, the faults and the work in the cloud
\* fell between its passes: no wakeup is lost, ids are stored or adopted from pools
\* whose names are in the spec, and the pass that ended last had no pool to
\* delete, to create or to modify for the last spec (lines 732-910).
THEOREM VirtualPoolsRest ==
  Spec => []RestMeansDone
  <1>1. RestInv => RestMeansDone
    BY DEF RestInv, CalmInv, Calm, AtRest, Settled, RowsDone, Accounted, Served, RestMeansDone
  <1> QED BY <1>1, RestInvAlways, PTL
=============================================================================
