-------------------------- MODULE NodePoolsProofs --------------------------
(***************************************************************************)
(* NodePools for every value of its constants, however many rows and pools *)
(* there are: its types, that it keeps the promise of PoolPromise, and     *)
(* that a worker that rests is done.                                       *)
(***************************************************************************)
EXTENDS NodePools, PoolWorkerProofs, FiniteSetTheorems, WellFoundedInduction

-----------------------------------------------------------------------------
(* The invariant.                                                          *)

ImportPCs == {"import", "importSave"}
ReconcilePCs == {"read", "create", "saveRows", "delete"} \cup Kinds

\* The worker has an object of the cache, not nil.
WorkPCs == ImportPCs \cup ReconcilePCs

\* Only pools that have a row are modified; a reconcile begins with none to modify.
LeftInv ==
  /\ pc \in Kinds => left \subseteq Listed(cfg.rows)
  /\ pc \notin Kinds \cup {"record"} => left = {}

\* Pools have the numbers of their creation.
Made == {p \in PoolIDs : pools[p].state # "none"}
MadeInv == \E k \in 0..MaxPools : Made = 1..k

\* Versions come to the cache in order, and the worker has none from the future.
OrderInv ==
  /\ 1 <= cache.rv /\ cache.rv <= api.rv /\ cfg.rv <= api.rv
  /\ \A i \in DOMAIN watch : cache.rv < watch[i].rv /\ watch[i].rv <= api.rv
  /\ \A i, j \in DOMAIN watch : i < j => watch[i].rv < watch[j].rv

\* What the worker has it got from the cache, and an id it writes into a row is in both.
SharedInv ==
  pc \in WorkPCs => /\ 1 <= cfg.rv /\ cfg.rv <= cache.rv
                    /\ cfg.rv = cache.rv => cfg.rows = cache.rows

\* A version that others hold has the phase it was stored with, and an import that
\* ended does not begin again.
SamePhase(o) ==
  /\ o.rv = api.rv => o.phase = api.phase
  /\ 1 <= o.rv /\ o.phase # "importing" => api.phase # "importing"
PhaseInv ==
  /\ SamePhase(cache) /\ SamePhase(cfg) /\ \A i \in DOMAIN watch : SamePhase(watch[i])
  /\ pc \in ImportPCs => cfg.phase = "importing"
  /\ pc \in ReconcilePCs => cfg.phase # "importing"

\* No pool is deleted while the import is not done.
ImportInv == api.phase = "importing" => \A p \in PoolIDs : pools[p].state # "deleting"

\* No object that can be the base of a reconcile misses an id that is stored: users
\* take rows out, and ids that are stored were in the cache before.
KnowsIDs(o) == 1 <= o.rv /\ o.phase # "importing" => Listed(api.rows) \subseteq Listed(o.rows)
KnownInv == KnowsIDs(cache) /\ KnowsIDs(cfg) /\ \A i \in DOMAIN watch : KnowsIDs(watch[i])

\* Rows differ from the stored ones of the same version only by the ids put into them,
\* those of live pools.
NewIDsLive(o) == o.rv = api.rv => Listed(o.rows) \ Listed(api.rows) \subseteq Live
NewInv ==
  /\ NewIDsLive(cache) /\ NewIDsLive(cfg)
  /\ 1 <= cfg.rv /\ cfg.rv < cache.rv /\ cache.rv = api.rv => cache.rows = api.rows
  /\ \A i \in DOMAIN watch : watch[i].rv = api.rv => watch[i].rows = api.rows

PoolsInv ==
  /\ TypeOK /\ LeftInv /\ MadeInv /\ OrderInv /\ SharedInv
  /\ PhaseInv /\ ImportInv /\ KnownInv /\ NewInv

-----------------------------------------------------------------------------
(* The objects.                                                            *)

ObjectsInv == OrderInv /\ SharedInv /\ PhaseInv /\ KnownInv /\ NewInv

LEMMA Versions ==
  ASSUME TypeOK
  PROVE  /\ api \in Objects(Row) /\ cache \in Objects(Row) /\ cfg \in Objects(Row)
         /\ watch \in Seq(Objects(Row))
         /\ \A i \in DOMAIN watch : watch[i] \in Objects(Row) /\ watch[i].rv \in Nat
         /\ api.rv \in Nat /\ cache.rv \in Nat /\ cfg.rv \in Nat
         /\ api.rows \in Seq(Row) /\ cache.rows \in Seq(Row) /\ cfg.rows \in Seq(Row)
         /\ WorkerTypeOK(Row)
  <1>1. /\ api \in Objects(Row) /\ cache \in Objects(Row) /\ cfg \in Objects(Row)
        /\ watch \in Seq(Objects(Row)) /\ WorkerTypeOK(Row)
    BY DEF TypeOK, WorkerTypeOK
  <1>2. \A i \in DOMAIN watch : watch[i] \in Objects(Row)
    BY <1>1
  <1> QED BY <1>1, <1>2, ObjectFields

\* What is asked of an object that is held: nil and the stored object have it.
Fine(o) == o.rv <= api.rv /\ SamePhase(o) /\ KnowsIDs(o) /\ NewIDsLive(o)

LEMMA HeldFine ==
  ASSUME TypeOK, ObjectsInv
  PROVE  /\ Fine(api) /\ Fine(Empty) /\ Fine(cache) /\ Fine(cfg)
         /\ Empty.rv = 0 /\ api.rv >= 1 /\ cache.rv >= 1
  <1>1. /\ Empty.rv = 0 /\ api.rv \in Nat /\ cache.rv \in Nat
        /\ cache.rv >= 1 /\ cache.rv <= api.rv /\ cfg.rv <= api.rv
    BY EmptyObject, Versions DEF ObjectsInv, OrderInv
  <1>2. api.rv >= 1
    BY <1>1
  <1>3. Fine(Empty)
    BY <1>1, <1>2 DEF Fine, SamePhase, KnowsIDs, NewIDsLive
  <1>4. Fine(api)
    BY <1>1 DEF Fine, SamePhase, KnowsIDs, NewIDsLive
  <1>5. Fine(cache) /\ Fine(cfg)
    BY <1>1 DEF ObjectsInv, PhaseInv, KnownInv, NewInv, Fine
  <1> QED BY <1>1, <1>2, <1>3, <1>4, <1>5

\* How the object of the worker goes with the place it is at.
Fits ==
  /\ pc' \in WorkPCs => cfg' = cache' \/ (pc \in WorkPCs /\ cfg' = cfg)
  /\ pc' \in ImportPCs => cfg'.phase = "importing"
  /\ pc' \in ReconcilePCs => cfg'.phase # "importing"

\* Nothing is written, and no pool that lives is deleted.
LEMMA KeptObjects ==
  ASSUME TypeOK, ObjectsInv, Kept, cache' = cache, cfg' \in {cfg, cache, api', Empty}, Fits,
         Live \subseteq Live'
  PROVE  ObjectsInv'
  <1>1. api' = api /\ watch' = watch
    BY DEF Kept
  <1>2. OrderInv /\ SharedInv /\ PhaseInv /\ KnownInv /\ NewInv
    BY DEF ObjectsInv
  <1>3. \A o \in {cfg, cache, api, Empty} : Fine(o)
    BY HeldFine
  <1>4. Fine(cfg) /\ Fine(cache) /\ cfg' \in {cfg, cache, api, Empty}
    BY <1>1, <1>3
  <1>5. Fine(cfg)' /\ Fine(cache)'
    BY <1>1, <1>3, <1>4 DEF Fine, SamePhase, KnowsIDs, NewIDsLive
  <1>6. OrderInv'
    BY <1>1, <1>2, <1>5 DEF OrderInv, Fine
  <1>7. SharedInv'
    <2>1. cache.rv \in Nat /\ cache.rv >= 1
      BY <1>2, Versions DEF OrderInv
    <2> QED BY <1>2, <2>1 DEF SharedInv, Fits
  <1>8. \A k \in DOMAIN watch' : SamePhase(watch[k])' /\ KnowsIDs(watch[k])'
    BY <1>1, <1>2 DEF PhaseInv, KnownInv, SamePhase, KnowsIDs
  <1>9. PhaseInv' /\ KnownInv'
    BY <1>5, <1>8 DEF PhaseInv, KnownInv, Fine, Fits
  <1>10. 1 <= cfg'.rv /\ cfg'.rv < cache'.rv /\ cache'.rv = api'.rv => cache'.rows = api'.rows
    <2>1. Empty.rv = 0 /\ cache.rv \in Nat /\ api.rv \in Nat /\ cfg.rv \in Nat
      BY HeldFine, Versions
    <2>2. CASE cfg' = cfg
      BY <1>1, <1>2, <2>2 DEF NewInv
    <2>3. CASE cfg' # cfg
      BY <1>1, <1>4, <2>1, <2>3
    <2> QED BY <2>2, <2>3
  <1>11. \A k \in DOMAIN watch' : watch'[k].rv = api'.rv => watch'[k].rows = api'.rows
    BY <1>1, <1>2 DEF NewInv
  <1>12. NewInv'
    BY <1>5, <1>10, <1>11 DEF NewInv, Fine
  <1> QED BY <1>6, <1>7, <1>9, <1>12 DEF ObjectsInv

\* A new version is written: rows are taken out, or the worker saves what the cache has.
LEMMA WrittenObjects ==
  ASSUME TypeOK, ObjectsInv, NewVersion, api' \in Objects(Row), cache' = cache,
         cfg' \in {cfg, cache, api', Empty}, Fits,
         \/ Listed(api'.rows) \subseteq Listed(api.rows)
         \/ pc \in WorkPCs /\ cfg.rv = api.rv /\ api'.rows = cfg.rows,
         api'.phase = "importing" => api.phase = "importing"
  PROVE  ObjectsInv'
  <1>1. /\ api'.rv = api.rv + 1 /\ watch' = Append(watch, api') /\ api.rv \in Nat
        /\ cache.rv \in Nat /\ cfg.rv \in Nat
    BY Versions DEF NewVersion
  <1>2. OrderInv /\ SharedInv /\ PhaseInv /\ KnownInv /\ NewInv
    BY DEF ObjectsInv
  <1>3. \A k \in DOMAIN watch' : watch'[k] = api' \/ (k \in DOMAIN watch /\ watch'[k] = watch[k])
    BY <1>1, Versions, AppendElements
  <1>4. \A k \in DOMAIN watch : /\ watch[k].rv \in Nat /\ cache.rv < watch[k].rv
                                /\ watch[k].rv <= api.rv
    BY <1>2, Versions DEF OrderInv
  <1>5. \/ Listed(api'.rows) \subseteq Listed(api.rows)
        \/ watch = <<>> /\ cache.rows = api'.rows /\ cfg.rows = api'.rows
    <2>1. CASE pc \in WorkPCs /\ cfg.rv = api.rv /\ api'.rows = cfg.rows
      <3>1. cfg.rv <= cache.rv /\ cache.rv <= api.rv /\ (cfg.rv = cache.rv => cfg.rows = cache.rows)
        BY <1>2, <2>1 DEF SharedInv, OrderInv
      <3>2. cache.rv = api.rv /\ cache.rows = cfg.rows
        BY <1>1, <2>1, <3>1
      <3>3. DOMAIN watch = {}
        BY <1>1, <1>4, <3>2
      <3>4. watch = <<>>
        BY <3>3, Versions
      <3> QED BY <2>1, <3>2, <3>4
    <2> QED BY <2>1
  <1>6. \A o \in {cache, cfg, Empty} : o.rv \in Nat /\ o.rv <= api.rv
    BY <1>1, <1>2, HeldFine DEF OrderInv
  <1>7. ASSUME NEW o, o.rv \in Nat, o.rv <= api.rv, SamePhase(o), KnowsIDs(o),
               Listed(api'.rows) \subseteq Listed(api.rows) \/ o.rows = api'.rows
        PROVE  /\ o.rv < api'.rv
               /\ o.rv = api'.rv => o.phase = api'.phase
               /\ 1 <= o.rv /\ o.phase # "importing" => api'.phase # "importing"
               /\ 1 <= o.rv /\ o.phase # "importing" => Listed(api'.rows) \subseteq Listed(o.rows)
               /\ o.rv = api'.rv => Listed(o.rows) \ Listed(api'.rows) \subseteq Live'
    <2>1. o.rv < api'.rv
      BY <1>1, <1>7
    <2>2. 1 <= o.rv /\ o.phase # "importing" => Listed(api'.rows) \subseteq Listed(o.rows)
      BY <1>7 DEF KnowsIDs
    <2>3. 1 <= o.rv /\ o.phase # "importing" => api'.phase # "importing"
      BY <1>7 DEF SamePhase
    <2>4. o.rv # api'.rv
      BY <1>1, <1>7
    <2> QED BY <2>1, <2>2, <2>3, <2>4
  <1>8. cache'.rv < api'.rv /\ Fine(cache)'
    <2>1. Fine(cache) /\ cache.rv <= api.rv
      BY <1>2, HeldFine DEF OrderInv
    <2> QED BY <1>1, <1>5, <1>7, <2>1 DEF Fine, SamePhase, KnowsIDs, NewIDsLive
  <1>9. ASSUME NEW o, o = Empty \/ o = cfg
        PROVE  /\ o.rv < api'.rv
               /\ o.rv = api'.rv => o.phase = api'.phase
               /\ 1 <= o.rv /\ o.phase # "importing" => api'.phase # "importing"
               /\ 1 <= o.rv /\ o.phase # "importing" => Listed(api'.rows) \subseteq Listed(o.rows)
               /\ o.rv = api'.rv => Listed(o.rows) \ Listed(api'.rows) \subseteq Live'
    <2>1. CASE o = Empty
      BY <1>1, <2>1, HeldFine
    <2>2. CASE o = cfg
      <3>1. Fine(cfg)
        BY HeldFine
      <3> QED BY <1>1, <1>5, <1>7, <2>2, <3>1 DEF Fine
    <2> QED BY <1>9, <2>1, <2>2
  <1>10. Fine(cfg)'
    <2>1. CASE cfg' = api'
      <3>1. api'.rv \in Nat
        BY <1>1
      <3> QED BY <2>1, <3>1 DEF Fine, SamePhase, KnowsIDs, NewIDsLive
    <2>2. CASE cfg' = cache
      BY <1>8, <2>2 DEF Fine, SamePhase, KnowsIDs, NewIDsLive
    <2>3. CASE cfg' \in {cfg, Empty}
      <3>1. cfg'.rv < api'.rv /\ cfg'.rv \in Nat /\ api'.rv \in Nat
        BY <1>1, <1>6, <1>9, <2>3
      <3> QED BY <1>9, <2>3, <3>1 DEF Fine, SamePhase, KnowsIDs, NewIDsLive
    <2> QED BY <2>1, <2>2, <2>3
  <1>11. OrderInv'
    <2>1. cache'.rv >= 1 /\ cache'.rv <= api'.rv /\ cfg'.rv <= api'.rv
      BY <1>1, <1>2, <1>10 DEF OrderInv, Fine
    <2>2. \A k \in DOMAIN watch' : cache'.rv < watch'[k].rv /\ watch'[k].rv <= api'.rv
      BY <1>1, <1>3, <1>4, <1>8
    <2>3. \A k, l \in DOMAIN watch' : k < l => watch'[k].rv < watch'[l].rv
      <3> SUFFICES ASSUME NEW k \in DOMAIN watch', NEW l \in DOMAIN watch', k < l
                   PROVE  watch'[k].rv < watch'[l].rv
        OBVIOUS
      <3>1. k \in DOMAIN watch /\ watch'[k] = watch[k]
        BY <1>1, Versions
      <3>2. (l \in DOMAIN watch /\ watch'[l] = watch[l]) \/ watch'[l] = api'
        BY <1>3
      <3> QED BY <1>1, <1>2, <1>4, <3>1, <3>2 DEF OrderInv
    <2> QED BY <2>1, <2>2, <2>3 DEF OrderInv
  <1>12. SharedInv'
    BY <1>1, <1>2, <1>8 DEF SharedInv, Fits, OrderInv
  <1>13. \A k \in DOMAIN watch' : SamePhase(watch[k])' /\ KnowsIDs(watch[k])'
    <2> TAKE k \in DOMAIN watch'
    <2>1. CASE watch'[k] = api'
      BY <2>1 DEF SamePhase, KnowsIDs
    <2>2. CASE k \in DOMAIN watch /\ watch'[k] = watch[k]
      <3>1. SamePhase(watch[k]) /\ KnowsIDs(watch[k])
        BY <1>2, <2>2 DEF PhaseInv, KnownInv
      <3>2. Listed(api'.rows) \subseteq Listed(api.rows)
        BY <1>5, <2>2
      <3> QED BY <1>4, <1>7, <2>2, <3>1, <3>2 DEF SamePhase, KnowsIDs
    <2> QED BY <1>3, <2>1, <2>2
  <1>14. PhaseInv' /\ KnownInv'
    BY <1>8, <1>10, <1>13 DEF PhaseInv, KnownInv, Fine, Fits
  <1>15. \A k \in DOMAIN watch' : watch'[k].rv = api'.rv => watch'[k].rows = api'.rows
    BY <1>1, <1>3, <1>4
  <1>16. NewInv'
    BY <1>1, <1>8, <1>10, <1>15 DEF NewInv, Fine
  <1> QED BY <1>11, <1>12, <1>14, <1>16 DEF ObjectsInv

\* An event reaches the cache.
LEMMA DeliverObjects ==
  ASSUME TypeOK, ObjectsInv, Deliver, UNCHANGED <<workerVars, pools>>
  PROVE  WorkerTypeOK(Row)' /\ ObjectsInv' /\ api' = api
  <1>1. /\ WorkerTypeOK(Row)' /\ watch # <<>> /\ api' = api /\ cfg' = cfg
        /\ cache' = watch[1] /\ watch' = Tail(watch) /\ pc' = pc
    BY Versions, DeliverStep DEF workerVars
  <1>2. OrderInv /\ SharedInv /\ PhaseInv /\ KnownInv /\ NewInv
    BY DEF ObjectsInv
  <1>3. /\ 1 \in DOMAIN watch
        /\ \A k \in DOMAIN watch' : k + 1 \in DOMAIN watch /\ watch'[k] = watch[k + 1]
    BY <1>1, Versions, TailElements
  <1>4. /\ cache.rv \in Nat /\ cfg.rv \in Nat /\ api.rv \in Nat
        /\ \A k \in DOMAIN watch : watch[k].rv \in Nat
    BY Versions
  <1>5. /\ cache.rv < cache'.rv /\ cache'.rv <= api.rv /\ cache.rv >= 1
    BY <1>1, <1>2, <1>3 DEF OrderInv
  <1>6. Live' = Live
    BY DEF Live
  <1>7. cache'.rv = api.rv => cache'.rows = api.rows
    BY <1>1, <1>2, <1>3 DEF NewInv
  <1>8. Fine(cache)'
    <2>1. SamePhase(watch[1]) /\ KnowsIDs(watch[1])
      BY <1>2, <1>3 DEF PhaseInv, KnownInv
    <2>2. cache'.rv = api.rv => Listed(cache'.rows) \ Listed(api.rows) \subseteq Live'
      BY <1>7
    <2> QED BY <1>1, <1>5, <2>1, <2>2 DEF Fine, SamePhase, KnowsIDs, NewIDsLive
  <1>9. Fine(cfg)'
    <2>1. Fine(cfg)
      BY HeldFine
    <2> QED BY <1>1, <1>6, <2>1 DEF Fine, SamePhase, KnowsIDs, NewIDsLive
  <1>10. OrderInv'
    <2>1. \A k \in DOMAIN watch' : cache'.rv < watch'[k].rv /\ watch'[k].rv <= api'.rv
      <3> TAKE k \in DOMAIN watch'
      <3>1. k + 1 \in DOMAIN watch /\ watch'[k] = watch[k + 1] /\ 1 < k + 1
        BY <1>1, <1>3, Versions
      <3> QED BY <1>1, <1>2, <1>3, <3>1 DEF OrderInv
    <2>2. \A k, l \in DOMAIN watch' : k < l => watch'[k].rv < watch'[l].rv
      <3> SUFFICES ASSUME NEW k \in DOMAIN watch', NEW l \in DOMAIN watch', k < l
                   PROVE  watch'[k].rv < watch'[l].rv
        OBVIOUS
      <3>1. k + 1 \in DOMAIN watch /\ l + 1 \in DOMAIN watch /\ k + 1 < l + 1
        BY <1>1, <1>3, Versions
      <3> QED BY <1>2, <1>3, <3>1 DEF OrderInv
    <2>3. cache'.rv \in Nat /\ cache'.rv >= 1
      BY <1>1, <1>3, <1>4, <1>5
    <2> QED BY <1>1, <1>2, <1>5, <2>1, <2>2, <2>3 DEF OrderInv
  <1>11. SharedInv'
    <2>1. pc \in WorkPCs => 1 <= cfg.rv /\ cfg.rv < cache'.rv
      BY <1>1, <1>2, <1>3, <1>4, <1>5 DEF SharedInv
    <2>2. cache'.rv \in Nat
      BY <1>1, <1>3, <1>4
    <2> QED BY <1>1, <1>4, <2>1, <2>2 DEF SharedInv
  <1>12. \A k \in DOMAIN watch' : SamePhase(watch[k])' /\ KnowsIDs(watch[k])'
    BY <1>1, <1>2, <1>3 DEF PhaseInv, KnownInv, SamePhase, KnowsIDs
  <1>13. PhaseInv' /\ KnownInv'
    BY <1>1, <1>2, <1>8, <1>9, <1>12 DEF PhaseInv, KnownInv, Fine
  <1>14. \A k \in DOMAIN watch' : watch'[k].rv = api'.rv => watch'[k].rows = api'.rows
    BY <1>1, <1>2, <1>3 DEF NewInv
  <1>15. NewInv'
    BY <1>1, <1>7, <1>8, <1>9, <1>14 DEF NewInv, Fine
  <1> QED BY <1>1, <1>10, <1>11, <1>13, <1>15 DEF ObjectsInv

LEMMA CrashObjects ==
  ASSUME TypeOK, ObjectsInv, Crash, pools' = pools
  PROVE  WorkerTypeOK(Row)' /\ ObjectsInv' /\ api' = api
  <1>1. /\ WorkerTypeOK(Row)' /\ api' = api /\ cache' = api /\ watch' = <<>> /\ cfg' = Empty
        /\ pc' = "idle"
    BY Versions, CrashStep
  <1>2. Fine(api) /\ Fine(Empty) /\ Empty.rv = 0 /\ api.rv >= 1 /\ api.rv \in Nat
    BY HeldFine, Versions
  <1>3. Live' = Live /\ DOMAIN watch' = {}
    BY <1>1 DEF Live
  <1>4. Fine(cache)' /\ Fine(cfg)'
    BY <1>1, <1>2, <1>3 DEF Fine, SamePhase, KnowsIDs, NewIDsLive
  <1>5. pc' \notin WorkPCs /\ pc' \notin ImportPCs /\ pc' \notin ReconcilePCs
    BY <1>1 DEF WorkPCs, ImportPCs, ReconcilePCs, Kinds
  <1>6. OrderInv' /\ SharedInv'
    BY <1>1, <1>2, <1>3, <1>4, <1>5 DEF OrderInv, SharedInv, Fine
  <1>7. PhaseInv' /\ KnownInv'
    BY <1>3, <1>4, <1>5 DEF PhaseInv, KnownInv, Fine
  <1>8. NewInv'
    BY <1>1, <1>2, <1>3, <1>4 DEF NewInv, Fine
  <1> QED BY <1>1, <1>6, <1>7, <1>8 DEF ObjectsInv

\* Ids are put into the rows of the object, and into the cache's if it is the same.
LEMMA InPlaceObjects ==
  ASSUME TypeOK, ObjectsInv, NEW rows \in Seq(Row), WriteInPlace([cfg EXCEPT !.rows = rows]),
         UNCHANGED <<api, watch, queued, edits, err>>, faults' \in 0..MaxFaults,
         pc \in WorkPCs, pc' \in PCs,
         pc' \in ImportPCs => pc \in ImportPCs, pc' \in ReconcilePCs => pc \in ReconcilePCs,
         cfg.phase = "importing" \/ Listed(cfg.rows) \subseteq Listed(rows),
         cfg.rv = api.rv => Listed(rows) \ Listed(api.rows) \subseteq Live',
         Live \subseteq Live'
  PROVE  WorkerTypeOK(Row)' /\ ObjectsInv'
  <1> DEFINE new == [cfg EXCEPT !.rows = rows]
  <1>1. new.rows = rows /\ new.rv = cfg.rv /\ new.phase = cfg.phase
    BY Versions DEF Objects
  <1>2. /\ WorkerTypeOK(Row)' /\ cfg' = new
        /\ cache' = IF cache.rv = cfg.rv THEN new ELSE cache
    <2>1. err' \in Messages /\ WorkerTypeOK(Row)
      BY DEF TypeOK, WorkerTypeOK
    <2> QED BY <2>1, WriteInPlaceStep
  <1> HIDE DEF new
  <1>3. OrderInv /\ SharedInv /\ PhaseInv /\ KnownInv /\ NewInv
    BY DEF ObjectsInv
  <1>4. Fine(cfg) /\ Fine(cache)
    BY HeldFine
  <1>5. api' = api /\ watch' = watch /\ cfg.rv \in Nat /\ cache.rv \in Nat /\ api.rv \in Nat
    BY Versions
  <1>6. Fine(cfg)'
    BY <1>1, <1>2, <1>4, <1>5 DEF Fine, SamePhase, KnowsIDs, NewIDsLive
  <1>7. Fine(cache)'
    <2>1. CASE cache.rv = cfg.rv
      BY <1>2, <1>6, <2>1 DEF Fine, SamePhase, KnowsIDs, NewIDsLive
    <2>2. CASE cache.rv # cfg.rv
      BY <1>2, <1>4, <1>5, <2>2 DEF Fine, SamePhase, KnowsIDs, NewIDsLive
    <2> QED BY <2>1, <2>2
  <1>8. cache'.rv = cache.rv /\ cfg'.rv = cfg.rv
    BY <1>1, <1>2
  <1>9. OrderInv'
    BY <1>3, <1>5, <1>8 DEF OrderInv
  <1>10. SharedInv'
    BY <1>2, <1>3, <1>8 DEF SharedInv
  <1>11. \A k \in DOMAIN watch' : SamePhase(watch[k])' /\ KnowsIDs(watch[k])'
    BY <1>3, <1>5 DEF PhaseInv, KnownInv, SamePhase, KnowsIDs
  <1>12. PhaseInv' /\ KnownInv'
    BY <1>1, <1>2, <1>3, <1>6, <1>7, <1>11 DEF PhaseInv, KnownInv, Fine
  <1>13. 1 <= cfg'.rv /\ cfg'.rv < cache'.rv /\ cache'.rv = api'.rv => cache'.rows = api'.rows
    BY <1>2, <1>3, <1>5, <1>8 DEF NewInv
  <1>14. NewInv'
    BY <1>3, <1>5, <1>6, <1>7, <1>13 DEF NewInv, Fine
  <1> QED BY <1>2, <1>9, <1>10, <1>12, <1>14 DEF ObjectsInv

\* Pools that no row has are deleted: none of them is listed, or was just created.
LEMMA DeleteObjects ==
  ASSUME TypeOK, ObjectsInv, UNCHANGED <<api, cache, watch, cfg>>, Fits, pc \in ReconcilePCs,
         Live' = Live \ Surplus
  PROVE  ObjectsInv' /\ Listed(api.rows) \cap Surplus = {}
  <1>1. OrderInv /\ SharedInv /\ PhaseInv /\ KnownInv /\ NewInv
    BY DEF ObjectsInv
  <1>2. Surplus \cap Listed(cfg.rows) = {}
    BY DEF Surplus
  <1>3. /\ 1 <= cfg.rv /\ cfg.rv <= cache.rv /\ cfg.phase # "importing"
        /\ cfg.rv = cache.rv => cfg.rows = cache.rows
        /\ cfg.rv \in Nat /\ cache.rv \in Nat /\ api.rv \in Nat
    BY <1>1, Versions DEF SharedInv, PhaseInv, WorkPCs
  <1>4. Listed(api.rows) \subseteq Listed(cfg.rows)
    BY <1>1, <1>3 DEF KnownInv, KnowsIDs
  <1>5. cfg.rv = api.rv => Listed(cfg.rows) \ Listed(api.rows) \subseteq Live'
    BY <1>1, <1>2 DEF NewInv, NewIDsLive
  <1>6. cache.rv = api.rv => Listed(cache.rows) \ Listed(api.rows) \subseteq Live'
    <2>1. CASE cfg.rv = cache.rv
      BY <1>3, <1>5, <2>1
    <2>2. CASE cfg.rv < cache.rv
      BY <1>1, <1>3, <2>2 DEF NewInv
    <2> QED BY <1>3, <2>1, <2>2
  <1>7. NewInv'
    BY <1>1, <1>5, <1>6 DEF NewInv, NewIDsLive
  <1>8. OrderInv' /\ KnownInv'
    BY <1>1 DEF OrderInv, KnownInv, KnowsIDs
  <1>9. SharedInv' /\ PhaseInv'
    BY <1>1, <1>3 DEF SharedInv, PhaseInv, SamePhase, Fits
  <1> QED BY <1>2, <1>4, <1>7, <1>8, <1>9 DEF ObjectsInv

-----------------------------------------------------------------------------
(* The pools in the cloud.                                                 *)

CloudTypeOK == pools \in [PoolIDs -> Pool]

LocalsTypeOK ==
  /\ DOMAIN read \subseteq PoolIDs /\ \A p \in DOMAIN read : read[p] \in Settings
  /\ left \subseteq DOMAIN read
  /\ created \in BOOLEAN /\ skipped \in BOOLEAN

LEMMA TypeParts ==
  TypeOK <=> WorkerTypeOK(Row) /\ pc \in PCs /\ CloudTypeOK /\ LocalsTypeOK
  BY DEF TypeOK, CloudTypeOK, LocalsTypeOK

\* No pool begins to be deleted.
NoneDeleted ==
  \A p \in PoolIDs : pools[p].state # "deleting" => pools'[p].state # "deleting"

LEMMA PoolParts ==
  ASSUME CloudTypeOK
  PROVE  \A p \in PoolIDs : /\ pools[p] \in Pool /\ pools[p].state \in PoolStates
                            /\ pools[p].has \in Settings
  BY DEF CloudTypeOK, Pool

LEMMA SettingsParts ==
  ASSUME NEW s \in Settings
  PROVE  /\ s.capacity \in Nat /\ s.min \in Nat /\ s.max \in Nat /\ s.labels \in Labels
         /\ s.type \in {"small", "large"} /\ s.min <= s.capacity /\ s.capacity <= s.max
  BY DEF Settings

LEMMA SamePools ==
  ASSUME CloudTypeOK, pools' = pools
  PROVE  CloudTypeOK' /\ Live' = Live /\ Made' = Made /\ NoneDeleted
  BY DEF CloudTypeOK, Live, Made, NoneDeleted

\* The next id is one no pool ever had.
LEMMA NextIsNew ==
  ASSUME MadeInv, NextPool \in PoolIDs
  PROVE  /\ NextPool \notin Made
         /\ \E k \in 0..MaxPools : Made \cup {NextPool} = 1..k
  <1>1. PICK k \in 0..MaxPools : Made = 1..k
    BY DEF MadeInv
  <1>2. MaxPools \in Nat /\ k \in Nat
    BY PoolsAssumption
  <1>3. Cardinality(1..k) = k
    BY <1>2, FS_Interval
  <1>4. NextPool = k + 1
    BY <1>1, <1>3 DEF NextPool, Made
  <1>5. k + 1 \in 0..MaxPools
    BY <1>2, <1>4 DEF PoolIDs
  <1>6. Made \cup {NextPool} = 1..(k + 1)
    BY <1>1, <1>2, <1>4
  <1>7. NextPool \notin Made
    BY <1>1, <1>2, <1>4
  <1> QED BY <1>5, <1>6, <1>7

LEMMA CreateEffect ==
  ASSUME CloudTypeOK, MadeInv, NEW want \in Settings, CreateClusterNodePool(want)
  PROVE  /\ CloudTypeOK' /\ NextPool \in PoolIDs /\ NextPool \notin Made
         /\ Live' = Live \cup {NextPool} /\ Made' = Made \cup {NextPool}
         /\ MadeInv' /\ NoneDeleted
  <1> DEFINE has == [want EXCEPT !.labels = LabelsAfter("none", want.labels)]
             new == [state |-> "creating", has |-> has]
  <1>1. has \in Settings
    <2>1. LabelsAfter("none", want.labels) \in Labels
      BY SettingsParts DEF LabelsAfter, Labels
    <2> QED BY <2>1 DEF Settings
  <1> HIDE DEF has
  <1>2. NextPool \in PoolIDs /\ pools' = [pools EXCEPT ![NextPool] = new]
    BY DEF CreateClusterNodePool, has
  <1>3. new \in Pool /\ new.state = "creating"
    BY <1>1 DEF Pool, PoolStates
  <1> HIDE DEF new
  <1> DEFINE n == NextPool
  <1>4. n \in PoolIDs /\ pools' = [pools EXCEPT ![n] = new]
    BY <1>2
  <1>5. n \notin Made /\ \E k \in 0..MaxPools : Made \cup {n} = 1..k
    BY <1>2, NextIsNew
  <1> HIDE DEF n
  <1>6. /\ CloudTypeOK' /\ pools'[n] = new
        /\ \A p \in PoolIDs : p # n => pools'[p] = pools[p]
    BY <1>3, <1>4 DEF CloudTypeOK
  <1>7. Live' = Live \cup {n}
    BY <1>3, <1>4, <1>6 DEF Live
  <1>8. Made' = Made \cup {n}
    BY <1>3, <1>4, <1>6 DEF Made
  <1>9. NoneDeleted
    BY <1>3, <1>6 DEF NoneDeleted
  <1>10. MadeInv'
    BY <1>5, <1>8 DEF MadeInv
  <1> QED BY <1>4, <1>5, <1>6, <1>7, <1>8, <1>9, <1>10 DEF n

LEMMA DeleteEffect ==
  ASSUME CloudTypeOK, MadeInv, NEW ids, DeleteNodePool(ids)
  PROVE  CloudTypeOK' /\ Live' = Live \ ids /\ Made' = Made /\ MadeInv'
  <1> DEFINE gone == [state |-> "deleting", has |-> NoSettings]
  <1>1. gone \in Pool /\ gone.state = "deleting"
    BY DEF Pool, PoolStates, NoSettings, Settings, Labels
  <1>2. pools' = [p \in PoolIDs |-> IF p \in ids \cap There THEN gone ELSE pools[p]]
    BY DEF DeleteNodePool
  <1> HIDE DEF gone
  <1>3. \A p \in PoolIDs : pools'[p] = IF p \in ids \cap There THEN gone ELSE pools[p]
    BY <1>2
  <1>4. CloudTypeOK'
    BY <1>1, <1>2 DEF CloudTypeOK
  <1>5. Live' = Live \ ids
    BY <1>1, <1>3 DEF Live, There
  <1>6. Made' = Made
    BY <1>1, <1>3 DEF Made, There
  <1> QED BY <1>4, <1>5, <1>6 DEF MadeInv

\* The state of a pool that is there changes, but not to deleting.
LEMMA StateEffect ==
  ASSUME CloudTypeOK, MadeInv, NEW p \in PoolIDs, NEW new \in Pool,
         pools' = [pools EXCEPT ![p] = new],
         \/ p \in Live /\ new.state \in {"normal", "updating"}
         \/ pools[p].state = "deleting" /\ new.state = "gone"
  PROVE  CloudTypeOK' /\ Live' = Live /\ Made' = Made /\ MadeInv' /\ NoneDeleted
  <1>1. /\ CloudTypeOK' /\ pools'[p] = new
        /\ \A q \in PoolIDs : q # p => pools'[q] = pools[q]
    BY DEF CloudTypeOK
  <1>2. Live' = Live
    BY <1>1 DEF Live
  <1>3. Made' = Made
    BY <1>1 DEF Made, Live
  <1>4. NoneDeleted
    BY <1>1 DEF NoneDeleted
  <1> QED BY <1>1, <1>2, <1>3, <1>4 DEF MadeInv

LEMMA ModifiedType ==
  ASSUME NEW kind \in Kinds, NEW had \in Settings, NEW want \in Settings,
         kind = "capacity" => want.capacity >= had.min /\ want.capacity <= had.max
  PROVE  Modified(kind, had, want) \in Settings
  <1>1. /\ had.capacity \in Nat /\ had.min \in Nat /\ had.max \in Nat /\ had.labels \in Labels
        /\ had.type \in {"small", "large"}
        /\ want.capacity \in Nat /\ want.min \in Nat /\ want.max \in Nat /\ want.labels \in Labels
        /\ want.type \in {"small", "large"}
        /\ had.min <= had.capacity /\ had.capacity <= had.max
        /\ want.min <= want.capacity /\ want.capacity <= want.max
    BY SettingsParts
  <1>2. CASE kind = "capacity"
    BY <1>1, <1>2 DEF Modified, Settings
  <1>3. CASE kind = "limits"
    <2>1. /\ Within(had.capacity, want.min, want.max) \in Nat
          /\ want.min <= Within(had.capacity, want.min, want.max)
          /\ Within(had.capacity, want.min, want.max) <= want.max
      BY <1>1 DEF Within
    <2>2. LabelsAfter(had.labels, want.labels) \in Labels
      BY <1>1 DEF LabelsAfter
    <2>3. Modified(kind, had, want)
            = [had EXCEPT !.min = want.min, !.max = want.max,
                          !.capacity = Within(had.capacity, want.min, want.max),
                          !.labels = LabelsAfter(had.labels, want.labels)]
      BY <1>3 DEF Modified, Settings
    <2> QED BY <1>1, <2>1, <2>2, <2>3 DEF Settings
  <1>4. CASE kind = "type"
    BY <1>1, <1>4 DEF Modified, Settings
  <1> QED BY <1>2, <1>3, <1>4 DEF Kinds

LEMMA ProgressEffect ==
  ASSUME CloudTypeOK, MadeInv, NEW p \in PoolIDs, PoolProgress(p)
  PROVE  CloudTypeOK' /\ Live' = Live /\ Made' = Made /\ MadeInv' /\ NoneDeleted
  <1> DEFINE s == IF pools[p].state = "deleting" THEN "gone" ELSE "normal"
             new == [pools[p] EXCEPT !.state = s]
  <1>1. pools[p] \in Pool
    BY PoolParts
  <1>2. pools' = [pools EXCEPT ![p] = new] /\ pools[p].state \in {"creating", "updating", "deleting"}
    BY DEF PoolProgress, Busy
  <1>3. new \in Pool /\ new.state = s
    BY <1>1 DEF Pool, PoolStates
  <1> HIDE DEF new
  <1>4. \/ p \in Live /\ new.state \in {"normal", "updating"}
        \/ pools[p].state = "deleting" /\ new.state = "gone"
    BY <1>2, <1>3 DEF Live
  <1> QED BY <1>2, <1>3, <1>4, StateEffect

\* The row of a pool that is listed.
LEMMA WantOfListed ==
  ASSUME NEW rows \in Seq(Row), NEW p \in Listed(rows)
  PROVE  WantOf(rows, p) \in Settings
  <1>1. \E i \in DOMAIN rows : rows[i].id = p
    BY DEF Listed
  <1>2. (CHOOSE i \in DOMAIN rows : rows[i].id = p) \in DOMAIN rows
    BY <1>1
  <1> DEFINE i == CHOOSE i \in DOMAIN rows : rows[i].id = p
  <1> HIDE DEF i
  <1>3. rows[i] \in Row
    BY <1>2 DEF i
  <1>4. rows[i].want \in Settings
    BY <1>3 DEF Row
  <1> QED BY <1>4 DEF WantOf, i

-----------------------------------------------------------------------------
(* What a step shows to PoolPromise.                                       *)

ListStep ==
  /\ Listed(api'.rows) \ Listed(api.rows) \subseteq Live
  /\ Live' = Live /\ Made' = Made
CreateStep ==
  /\ \E p \in Live' : p \notin Made /\ Live' = Live \cup {p} /\ Made' = Made \cup {p}
  /\ Listed(api'.rows) = Listed(api.rows)
DeleteStep ==
  /\ Live' \subseteq Live /\ Listed(api.rows) \cap Live \subseteq Live'
  /\ Listed(api'.rows) = Listed(api.rows) /\ Made' = Made
PromiseStep == ListStep \/ CreateStep \/ DeleteStep

LEMMA Assembled ==
  ASSUME WorkerTypeOK(Row)', pc' \in PCs, CloudTypeOK', LocalsTypeOK', LeftInv', MadeInv',
         ImportInv', ObjectsInv'
  PROVE  PoolsInv'
  <1>1. TypeOK'
    BY DEF TypeOK, CloudTypeOK, LocalsTypeOK
  <1> QED BY <1>1 DEF PoolsInv, ObjectsInv

LEMMA Parts ==
  ASSUME PoolsInv
  PROVE  /\ TypeOK /\ WorkerTypeOK(Row) /\ pc \in PCs /\ CloudTypeOK /\ LocalsTypeOK
         /\ LeftInv /\ MadeInv /\ ImportInv /\ ObjectsInv
  BY TypeParts DEF PoolsInv, ObjectsInv

\* A step that writes no rows and deletes no pool.
LEMMA RowsStayInv ==
  ASSUME PoolsInv, WorkerTypeOK(Row)', RowsAsTheyWere, pc' \in PCs, Fits,
         LocalsTypeOK', LeftInv', CloudTypeOK', MadeInv', NoneDeleted, Live \subseteq Live'
  PROVE  PoolsInv' /\ api'.rows = api.rows
  <1>1. /\ TypeOK /\ CloudTypeOK /\ ImportInv /\ ObjectsInv /\ api' \in Objects(Row)
    BY Parts DEF WorkerTypeOK
  <1>2. cache' = cache /\ cfg' \in {cfg, cache, api', Empty}
    BY DEF RowsAsTheyWere
  <1>3. CASE Kept
    <2>1. ObjectsInv'
      BY <1>1, <1>2, <1>3, KeptObjects
    <2>2. api' = api
      BY <1>3 DEF Kept
    <2>3. ImportInv'
      BY <1>1, <2>2 DEF ImportInv, NoneDeleted
    <2> QED BY <2>1, <2>2, <2>3, Assembled
  <1>4. CASE /\ NewVersion /\ api'.rows = api.rows
             /\ \/ api'.phase # "importing"
                \/ pc = "record" /\ Current(cfg) /\ cfg.phase = "importing"
    <2>1. api'.phase = "importing" => api.phase = "importing"
      <3>1. SamePhase(cfg)
        BY <1>1 DEF ObjectsInv, PhaseInv
      <3> QED BY <1>4, <3>1 DEF SamePhase, Current
    <2>2. ObjectsInv'
      BY <1>1, <1>2, <1>4, <2>1, WrittenObjects
    <2>3. ImportInv'
      BY <1>1, <2>1 DEF ImportInv, NoneDeleted
    <2> QED BY <1>4, <2>2, <2>3, Assembled
  <1> QED BY <1>3, <1>4 DEF RowsAsTheyWere

\* The pools stay as they are too.
LEMMA QuietInv ==
  ASSUME PoolsInv, WorkerTypeOK(Row)', RowsAsTheyWere, pc' \in PCs, Fits,
         LocalsTypeOK', LeftInv', pools' = pools
  PROVE  PoolsInv' /\ ListStep
  <1>1. CloudTypeOK /\ MadeInv
    BY Parts
  <1>2. CloudTypeOK' /\ Live' = Live /\ Made' = Made /\ NoneDeleted
    BY <1>1, SamePools
  <1>3. MadeInv'
    BY <1>1, <1>2 DEF MadeInv
  <1>4. PoolsInv' /\ api'.rows = api.rows
    BY <1>2, <1>3, RowsStayInv
  <1> QED BY <1>2, <1>4 DEF ListStep

\* The worker returns, or ends: it has no object to work with.
LEMMA ReturnedInv ==
  ASSUME PoolsInv, WorkerTypeOK(Row)', RowsAsTheyWere,
         pc' \in {"record", "end", "idle", "enqueue", "finish"},
         pc' = "record" \/ left' = {}, LocalsTypeOK', pools' = pools
  PROVE  PoolsInv' /\ ListStep
  <1>1. pc' \in PCs /\ pc' \notin WorkPCs /\ pc' \notin Kinds /\ pc' \notin ImportPCs
        /\ pc' \notin ReconcilePCs
    BY DEF PCs, WorkPCs, ImportPCs, ReconcilePCs, Kinds
  <1>2. Fits /\ LeftInv'
    BY <1>1 DEF Fits, LeftInv
  <1> QED BY <1>1, <1>2, QuietInv

LEMMA SameLocals ==
  ASSUME LocalsTypeOK, UNCHANGED <<read, left, created, skipped>>
  PROVE  LocalsTypeOK'
  BY DEF LocalsTypeOK

-----------------------------------------------------------------------------
(* The steps around the reconcile.                                         *)

LEMMA OthersInv ==
  ASSUME PoolsInv, (EnqueueUpdate \/ Finish \/ End) /\ UNCHANGED poolVars
  PROVE  PoolsInv' /\ ListStep
  <1>1. WorkerTypeOK(Row)' /\ RowsAsTheyWere /\ pc' \in {"record", "idle"}
    BY Parts, EnqueueUpdateStep, FinishStep, EndStep
  <1>2. LocalsTypeOK' /\ pools' = pools
    BY Parts, SameLocals DEF poolVars
  <1>3. pc' = "record" \/ left' = {}
    BY Parts, EnqueueUpdateStep, FinishStep DEF LeftInv, End, poolVars, Kinds
  <1> QED BY <1>1, <1>2, <1>3, ReturnedInv

LEMMA AwaitInv ==
  ASSUME PoolsInv, Await
  PROVE  PoolsInv' /\ ListStep
  <1>1. WorkerTypeOK(Row)' /\ RowsAsTheyWere /\ pc' \in {"record"}
    BY Parts, AwaitPoolsStep DEF Await
  <1>2. LocalsTypeOK' /\ pools' = pools
    BY Parts, SameLocals DEF poolVars, Await
  <1> QED BY <1>1, <1>2, ReturnedInv

LEMMA BeginInv ==
  ASSUME PoolsInv, Begin, UNCHANGED poolVars
  PROVE  PoolsInv' /\ ListStep
  <1>1. /\ WorkerTypeOK(Row)' /\ RowsAsTheyWere
        /\ pc' = IF cache.phase = "importing" THEN "import" ELSE "read"
    BY Parts, BeginStep
  <1>2. LocalsTypeOK' /\ pools' = pools
    BY Parts, SameLocals DEF poolVars
  <1>3. cfg' = cache /\ cache' = cache
    BY DEF Begin
  <1>4. pc' \in PCs /\ Fits /\ LeftInv'
    <2>1. left' = {}
      BY Parts DEF Begin, LeftInv, Kinds, poolVars
    <2> QED BY <1>1, <1>3, <2>1 DEF PCs, Fits, LeftInv, WorkPCs, ImportPCs, ReconcilePCs, Kinds
  <1> QED BY <1>1, <1>2, <1>4, QuietInv

LEMMA ForgottenLocals ==
  ASSUME LocalsTypeOK, Forget
  PROVE  LocalsTypeOK' /\ pools' = pools /\ left' = {}
  <1>1. DOMAIN read' = {}
    BY DEF Forget
  <1> QED BY <1>1 DEF Forget, LocalsTypeOK

LEMMA RecordErrorInv ==
  ASSUME PoolsInv, RecordError, Forget
  PROVE  PoolsInv' /\ ListStep
  <1>1. WorkerTypeOK(Row)' /\ RowsAsTheyWere /\ pc' \in {"end"}
    BY Parts, RecordErrorStep
  <1>2. LocalsTypeOK' /\ pools' = pools /\ left' = {}
    BY Parts, ForgottenLocals
  <1> QED BY <1>1, <1>2, ReturnedInv

LEMMA InformerInv ==
  ASSUME PoolsInv, Informer
  PROVE  PoolsInv' /\ ListStep
  <1>1. Deliver /\ UNCHANGED <<workerVars, poolVars>> /\ UNCHANGED <<workerVars, pools>>
    BY DEF Informer, poolVars
  <1>2. WorkerTypeOK(Row)' /\ ObjectsInv' /\ api' = api
    BY <1>1, Parts, DeliverObjects
  <1>3. LocalsTypeOK' /\ CloudTypeOK' /\ Live' = Live /\ Made' = Made
    BY <1>1, Parts, SameLocals, SamePools DEF poolVars
  <1>4. MadeInv' /\ LeftInv' /\ ImportInv' /\ pc' \in PCs
    BY <1>1, <1>2, <1>3, Parts DEF MadeInv, LeftInv, ImportInv, poolVars, workerVars
  <1>5. PoolsInv'
    BY <1>2, <1>3, <1>4, Assembled
  <1> QED BY <1>2, <1>3, <1>5 DEF ListStep

LEMMA RestartInv ==
  ASSUME PoolsInv, Restart
  PROVE  PoolsInv' /\ ListStep
  <1>1. Crash /\ Forget
    BY DEF Restart
  <1>2. LocalsTypeOK' /\ pools' = pools /\ left' = {}
    BY <1>1, Parts, ForgottenLocals
  <1>3. WorkerTypeOK(Row)' /\ ObjectsInv' /\ api' = api
    BY <1>1, <1>2, Parts, CrashObjects
  <1>4. CloudTypeOK' /\ Live' = Live /\ Made' = Made
    BY <1>2, Parts, SamePools
  <1>5. pc' = "idle"
    BY <1>1 DEF Crash
  <1>6. MadeInv' /\ LeftInv' /\ ImportInv' /\ pc' \in PCs
    BY <1>2, <1>3, <1>4, <1>5, Parts DEF MadeInv, LeftInv, ImportInv, Kinds, PCs
  <1>7. PoolsInv'
    BY <1>2, <1>3, <1>4, <1>6, Assembled
  <1> QED BY <1>3, <1>4, <1>7 DEF ListStep

\* Users change the settings of rows, take rows out and append rows without id.
LEMMA EditedRows ==
  ASSUME NEW old \in Seq(Row),
         NEW rows \in Changed(old) \cup Reduced(old) \cup Extended(old)
  PROVE  rows \in Seq(Row) /\ Listed(rows) \subseteq Listed(old)
  <1>1. CASE rows \in Changed(old)
    <2>1. PICK i \in DOMAIN old, w \in Wants : rows = [old EXCEPT ![i].want = w]
      BY <1>1 DEF Changed
    <2>2. w \in Settings /\ old[i] \in Row
      BY <2>1, WantsAssumption
    <2> DEFINE row == [old[i] EXCEPT !.want = w]
    <2>3. row \in Row /\ row.id = old[i].id
      BY <2>2 DEF Row
    <2>4. rows = [old EXCEPT ![i] = row]
      BY <2>1
    <2> HIDE DEF row
    <2>5. rows \in Seq(Row) /\ DOMAIN rows = DOMAIN old
      BY <2>1, <2>3, <2>4
    <2>6. \A j \in DOMAIN rows : rows[j].id = old[j].id
      BY <2>1, <2>3, <2>4
    <2> QED BY <2>5, <2>6 DEF Listed
  <1>2. CASE rows \in Reduced(old)
    <2>1. PICK i \in DOMAIN old : rows = RemoveAt(old, i)
      BY <1>2 DEF Reduced
    <2>2. /\ i \in 1..Len(old) /\ Len(old) \in Nat
          /\ rows = SubSeq(old, 1, i - 1) \o SubSeq(old, i + 1, Len(old))
      BY <2>1 DEF RemoveAt
    <2> DEFINE head == SubSeq(old, 1, i - 1)
               tail == SubSeq(old, i + 1, Len(old))
    <2>3. head \in Seq(Row) /\ \A j \in DOMAIN head : j \in DOMAIN old /\ head[j] = old[j]
      BY <2>2
    <2>4. tail \in Seq(Row) /\ \A j \in DOMAIN tail : j + i \in DOMAIN old /\ tail[j] = old[j + i]
      BY <2>2
    <2>5. rows = head \o tail
      BY <2>2
    <2> HIDE DEF head, tail
    <2>6. /\ rows \in Seq(Row)
          /\ \A j \in DOMAIN rows :
               \/ j \in DOMAIN head /\ rows[j] = head[j]
               \/ j - Len(head) \in DOMAIN tail /\ rows[j] = tail[j - Len(head)]
      BY <2>3, <2>4, <2>5
    <2>7. \A j \in DOMAIN rows : \E k \in DOMAIN old : rows[j] = old[k]
      BY <2>3, <2>4, <2>6
    <2> QED BY <2>6, <2>7 DEF Listed
  <1>3. CASE rows \in Extended(old)
    <2>1. PICK w \in NewWants : rows = Append(old, [id |-> NoPool, want |-> w])
      BY <1>3 DEF Extended
    <2> DEFINE row == [id |-> NoPool, want |-> w]
    <2>2. row \in Row /\ row.id = NoPool
      BY WantsAssumption DEF Row
    <2>3. rows = Append(old, row)
      BY <2>1
    <2> HIDE DEF row
    <2>4. rows \in Seq(Row)
      BY <2>2, <2>3
    <2>5. \A j \in DOMAIN rows : rows[j] = row \/ (j \in DOMAIN old /\ rows[j] = old[j])
      BY <2>3, AppendElements
    <2> QED BY <2>2, <2>4, <2>5 DEF Listed
  <1> QED BY <1>1, <1>2, <1>3

LEMMA UserEditInv ==
  ASSUME PoolsInv, UserEdit
  PROVE  PoolsInv' /\ ListStep
  <1>1. PICK rows \in Changed(api.rows) \cup Reduced(api.rows) \cup Extended(api.rows) :
          Publish([api EXCEPT !.rows = rows])
    BY DEF UserEdit
  <1>2. rows \in Seq(Row) /\ Listed(rows) \subseteq Listed(api.rows)
    BY <1>1, Parts, Versions, EditedRows
  <1>3. /\ edits > 0 /\ edits' = edits - 1
        /\ UNCHANGED <<cache, queued, faults, workerVars>> /\ UNCHANGED poolVars
    BY DEF UserEdit
  <1>4. /\ WorkerTypeOK(Row)' /\ NewVersion /\ api'.rows = rows /\ api'.phase = api.phase
        /\ cache' = cache /\ cfg' = cfg /\ api' \in Objects(Row)
    <2>1. /\ WorkerTypeOK(Row)' /\ NewVersion /\ api'.rows = rows /\ api'.phase = api.phase
          /\ cache' = cache /\ cfg' = cfg
      BY <1>1, <1>2, <1>3, Parts, RowsStep
    <2> QED BY <2>1 DEF WorkerTypeOK
  <1>5. pc' = pc /\ pools' = pools /\ UNCHANGED <<read, left, created, skipped>>
    BY <1>3 DEF workerVars, poolVars
  <1>6. Fits
    BY <1>4, <1>5, Parts DEF Fits, ObjectsInv, PhaseInv
  <1>7. ObjectsInv'
    BY <1>2, <1>4, <1>6, Parts, WrittenObjects
  <1>8. LocalsTypeOK' /\ CloudTypeOK' /\ Live' = Live /\ Made' = Made
    BY <1>5, Parts, SameLocals, SamePools
  <1>9. MadeInv' /\ LeftInv' /\ ImportInv' /\ pc' \in PCs
    BY <1>4, <1>5, <1>8, Parts DEF MadeInv, LeftInv, ImportInv
  <1>10. PoolsInv'
    BY <1>4, <1>7, <1>8, <1>9, Assembled
  <1> QED BY <1>2, <1>4, <1>8, <1>10 DEF ListStep

LEMMA PoolProgressInv ==
  ASSUME PoolsInv, NEW p \in PoolIDs, PoolProgress(p)
  PROVE  PoolsInv' /\ ListStep
  <1>1. CloudTypeOK' /\ Live' = Live /\ Made' = Made /\ MadeInv' /\ NoneDeleted
    BY Parts, ProgressEffect
  <1>2. UNCHANGED <<storeVars, faults, edits, workerVars, read, left, created, skipped>>
    BY DEF PoolProgress
  <1>3. /\ UNCHANGED <<storeVars, edits>> /\ cfg' \in {cfg, Empty} /\ err' \in Messages
        /\ UNCHANGED faults /\ pc' = pc /\ cfg' = cfg
    BY <1>2, Parts DEF WorkerTypeOK, workerVars
  <1>4. WorkerTypeOK(Row)' /\ RowsAsTheyWere
    BY <1>3, Parts, QuietStep
  <1>5. pc' \in PCs /\ Fits /\ LocalsTypeOK' /\ LeftInv'
    <2>1. LocalsTypeOK' /\ LeftInv' /\ pc' \in PCs
      BY <1>2, <1>3, Parts, SameLocals DEF LeftInv
    <2> QED BY <1>3, <2>1, Parts DEF Fits, ObjectsInv, PhaseInv
  <1>6. PoolsInv' /\ api'.rows = api.rows
    BY <1>1, <1>4, <1>5, RowsStayInv
  <1> QED BY <1>1, <1>6 DEF ListStep

-----------------------------------------------------------------------------
(* The import.                                                             *)

LEMMA ReadPoolsEffect ==
  ASSUME CloudTypeOK, faults \in 0..MaxFaults, ReadPools
  PROVE  /\ UNCHANGED faults \/ CallFails
         /\ faults' \in 0..MaxFaults
         /\ DOMAIN read' \subseteq There /\ There \subseteq PoolIDs
         /\ \A p \in DOMAIN read' : read'[p] \in Settings
         /\ skipped' \in BOOLEAN
  <1>1. PICK out \in SUBSET There :
          /\ UNCHANGED faults \/ CallFails
          /\ read' = [p \in There \ out |-> pools[p].has]
          /\ skipped' = (out # {})
    BY DEF ReadPools
  <1>2. faults' \in 0..MaxFaults
    BY <1>1, BoundsAssumption DEF CallFails
  <1>3. There \subseteq PoolIDs
    BY DEF There
  <1>4. \A p \in DOMAIN read' : read'[p] \in Settings
    BY <1>1, <1>3, PoolParts
  <1> QED BY <1>1, <1>2, <1>3, <1>4

LEMMA ImportInvariant ==
  ASSUME PoolsInv, Import
  PROVE  PoolsInv' /\ ListStep
  <1>1. /\ TypeOK /\ WorkerTypeOK(Row) /\ CloudTypeOK /\ LocalsTypeOK /\ MadeInv
        /\ ImportInv /\ ObjectsInv
    BY Parts
  <1>2. /\ pc = "import" /\ pc' = "importSave" /\ ReadPools
        /\ UNCHANGED <<api, watch, queued, edits, err>>
        /\ UNCHANGED <<pools, left, created>>
    BY DEF Import
  <1>3. /\ faults' \in 0..MaxFaults /\ DOMAIN read' \subseteq There /\ There \subseteq PoolIDs
        /\ \A p \in DOMAIN read' : read'[p] \in Settings
        /\ skipped' \in BOOLEAN
    BY <1>1, <1>2, ReadPoolsEffect DEF WorkerTypeOK
  <1>4. PICK ids \in [1..Cardinality(DOMAIN read') -> DOMAIN read'] :
          WriteInPlace([cfg EXCEPT !.rows = [i \in DOMAIN ids |->
                                               [id |-> ids[i], want |-> read'[ids[i]]]]])
    BY DEF Import
  <1> DEFINE n == Cardinality(DOMAIN read')
             rows == [i \in DOMAIN ids |-> [id |-> ids[i], want |-> read'[ids[i]]]]
  <1>5. n \in Nat
    <2>1. MaxPools \in Nat /\ PoolIDs = 1..MaxPools
      BY PoolsAssumption DEF PoolIDs
    <2>2. IsFiniteSet(PoolIDs)
      BY <2>1, FS_Interval
    <2>3. IsFiniteSet(DOMAIN read')
      BY <1>3, <2>2, FS_Subset
    <2> QED BY <2>3, FS_CardinalityType
  <1>6. rows \in Seq(Row) /\ Listed(rows) \subseteq There
    <2> HIDE DEF n
    <2>1. DOMAIN ids = 1..n /\ \A i \in 1..n : ids[i] \in DOMAIN read'
      BY <1>4 DEF n
    <2>2. \A i \in DOMAIN ids : [id |-> ids[i], want |-> read'[ids[i]]] \in Row
      BY <1>3, <2>1 DEF Row
    <2>3. rows \in [1..n -> Row]
      BY <2>1, <2>2
    <2>4. rows \in Seq(Row)
      BY <1>5, <2>3, SeqDef
    <2>5. \A i \in DOMAIN rows : rows[i].id \in There
      BY <1>3, <2>1
    <2> QED BY <2>4, <2>5 DEF Listed
  <1>7. WriteInPlace([cfg EXCEPT !.rows = rows])
    BY <1>4
  <1> HIDE DEF n, rows
  <1>8. cfg.phase = "importing" /\ SamePhase(cfg)
    BY <1>1, <1>2 DEF ObjectsInv, PhaseInv, ImportPCs
  <1>9. CloudTypeOK' /\ Live' = Live /\ Made' = Made /\ NoneDeleted
    BY <1>1, <1>2, SamePools
  <1>10. cfg.rv = api.rv => Listed(rows) \ Listed(api.rows) \subseteq Live'
    <2> SUFFICES ASSUME cfg.rv = api.rv PROVE There \subseteq Live'
      BY <1>6
    <2>1. \A p \in PoolIDs : pools[p].state # "deleting"
      BY <1>1, <1>8 DEF SamePhase, ImportInv
    <2>2. \A p \in There : pools[p].state \in {"creating", "normal", "updating"}
      BY <1>1, <1>3, <2>1, PoolParts DEF There, PoolStates
    <2> QED BY <1>3, <1>9, <2>2 DEF Live
  <1>11. /\ pc \in WorkPCs /\ pc' \in PCs /\ (pc' \in ImportPCs => pc \in ImportPCs)
         /\ (pc' \in ReconcilePCs => pc \in ReconcilePCs) /\ pc' \notin Kinds
    BY <1>2 DEF PCs, WorkPCs, ImportPCs, ReconcilePCs, Kinds
  <1>12. WorkerTypeOK(Row)' /\ ObjectsInv'
    BY <1>1, <1>2, <1>3, <1>6, <1>7, <1>8, <1>9, <1>10, <1>11, InPlaceObjects
  <1>13. LocalsTypeOK' /\ LeftInv'
    <2>1. left' = {}
      BY <1>2, Parts DEF LeftInv, Kinds
    <2> QED BY <1>1, <1>2, <1>3, <1>11, <2>1 DEF LocalsTypeOK, LeftInv
  <1>14. MadeInv' /\ ImportInv'
    BY <1>1, <1>2, <1>9 DEF MadeInv, ImportInv, NoneDeleted
  <1>15. PoolsInv'
    BY <1>9, <1>11, <1>12, <1>13, <1>14, Assembled
  <1> QED BY <1>2, <1>9, <1>15 DEF ListStep

\* The worker's rows are written, when the version it has is still the stored one.
LEMMA RowsWritten ==
  ASSUME PoolsInv, pc \in {"importSave", "saveRows"}, NEW res \in WriteResults, Update(cfg, res),
         UNCHANGED <<cache, queued, edits, poolVars>>, cfg' \in {cfg, api', Empty},
         err' \in Messages, pc' \in {"importActive", "record"}
  PROVE  PoolsInv' /\ ListStep
  <1>1. /\ TypeOK /\ WorkerTypeOK(Row) /\ CloudTypeOK /\ LocalsTypeOK /\ MadeInv
        /\ ImportInv /\ ObjectsInv
    BY Parts
  <1>2. /\ StoreTyped(Row)
        /\ \/ Kept
           \/ /\ NewVersion /\ Current(cfg)
              /\ api'.rows = cfg.rows /\ api'.phase = api.phase
    BY <1>1, UpdateEffect DEF WorkerTypeOK
  <1>3. WorkerTypeOK(Row)' /\ api' \in Objects(Row)
    BY <1>1, <1>2, EmptyObject DEF WorkerTypeOK, StoreTyped
  <1>4. /\ pc' \in PCs /\ pc' \notin WorkPCs /\ pc' \notin ImportPCs /\ pc' \notin ReconcilePCs
        /\ pc' \notin Kinds /\ pc \in WorkPCs /\ pc \notin Kinds /\ pc # "record"
    BY DEF PCs, WorkPCs, ImportPCs, ReconcilePCs, Kinds
  <1>5. pools' = pools /\ UNCHANGED <<read, left, created, skipped>>
    BY DEF poolVars
  <1>6. CloudTypeOK' /\ LocalsTypeOK' /\ Live' = Live /\ Made' = Made /\ NoneDeleted
    BY <1>1, <1>5, SamePools, SameLocals
  <1>7. Fits
    BY <1>4 DEF Fits
  <1>8. LeftInv' /\ MadeInv'
    BY <1>1, <1>4, <1>5, <1>6, Parts DEF LeftInv, MadeInv
  <1>9. ObjectsInv' /\ ImportInv' /\ Listed(api'.rows) \ Listed(api.rows) \subseteq Live
    <2>1. CASE Kept
      BY <1>1, <1>5, <1>6, <1>7, <2>1, KeptObjects DEF Kept, ImportInv
    <2>2. CASE /\ NewVersion /\ Current(cfg)
               /\ api'.rows = cfg.rows /\ api'.phase = api.phase
      <3>1. cfg.rv = api.rv
        BY <2>2 DEF Current
      <3>2. ObjectsInv'
        BY <1>1, <1>3, <1>4, <1>7, <2>2, <3>1, WrittenObjects
      <3>3. Listed(cfg.rows) \ Listed(api.rows) \subseteq Live
        BY <1>1, <3>1 DEF ObjectsInv, NewInv, NewIDsLive
      <3> QED BY <1>1, <1>5, <2>2, <3>2, <3>3 DEF ImportInv
    <2> QED BY <1>2, <2>1, <2>2
  <1>10. PoolsInv'
    BY <1>3, <1>4, <1>6, <1>8, <1>9, Assembled
  <1> QED BY <1>6, <1>9, <1>10 DEF ListStep

LEMMA ImportSaveInv ==
  ASSUME PoolsInv, ImportSave
  PROVE  PoolsInv' /\ ListStep
  <1>1. PICK res \in WriteResults :
          /\ Update(cfg, res)
          /\ IF res = "ok" THEN pc' = "importActive" /\ cfg' = api' /\ UNCHANGED err
                           ELSE Return(cfg, "store")
    BY DEF ImportSave
  <1>2. /\ pc \in {"importSave", "saveRows"} /\ UNCHANGED <<cache, queued, edits, poolVars>>
        /\ err \in Messages
    BY Parts DEF ImportSave, WorkerTypeOK
  <1>3. cfg' \in {cfg, api', Empty} /\ err' \in Messages /\ pc' \in {"importActive", "record"}
    BY <1>1, <1>2 DEF Return, Messages
  <1> QED BY <1>1, <1>2, <1>3, RowsWritten

LEMMA SaveRowsInv ==
  ASSUME PoolsInv, SaveRows
  PROVE  PoolsInv' /\ ListStep
  <1>1. PICK res \in WriteResults :
          /\ Update(cfg, res)
          /\ IF res = "ok" THEN Return(api', "none") ELSE Return(Empty, "store")
    BY DEF SaveRows
  <1>2. pc \in {"importSave", "saveRows"} /\ UNCHANGED <<cache, queued, edits, poolVars>>
    BY DEF SaveRows
  <1>3. cfg' \in {cfg, api', Empty} /\ err' \in Messages /\ pc' \in {"importActive", "record"}
    BY <1>1 DEF Return, Messages
  <1> QED BY <1>1, <1>2, <1>3, RowsWritten

LEMMA ImportActiveInv ==
  ASSUME PoolsInv, ImportActive
  PROVE  PoolsInv' /\ ListStep
  <1> DEFINE new == [cfg EXCEPT !.phase = "active"]
  <1>1. /\ ReturnUpdateStatus(new) /\ UNCHANGED <<cache, queued, edits>>
        /\ pools' = pools /\ UNCHANGED <<read, left, created, skipped>>
    BY DEF ImportActive, poolVars
  <1>2. new \in Objects(Row) /\ new.phase = "active"
    BY Parts DEF WorkerTypeOK, Objects, Phases
  <1> HIDE DEF new
  <1>3. /\ StoreTyped(Row)
        /\ \/ Kept
           \/ /\ NewVersion /\ Current(new)
              /\ api'.rows = api.rows /\ api'.phase = new.phase
        /\ pc' = "record" /\ cfg' \in {api', Empty} /\ err' \in {"none", "store"}
    BY <1>1, <1>2, Parts, ReturnUpdateStatusEffect
  <1>4. WorkerTypeOK(Row)' /\ RowsAsTheyWere
    BY <1>1, <1>2, <1>3, Parts, EmptyObject
       DEF WorkerTypeOK, StoreTyped, Messages, RowsAsTheyWere
  <1> QED BY <1>1, <1>3, <1>4, Parts, SameLocals, ReturnedInv

-----------------------------------------------------------------------------
(* The reconcile.                                                          *)

LEMMA ReadFailsInv ==
  ASSUME PoolsInv, ReadFails
  PROVE  PoolsInv' /\ ListStep
  <1>1. /\ UNCHANGED <<storeVars, edits>> /\ cfg' \in {cfg, Empty} /\ err' \in Messages
        /\ CallFails /\ pc' = "record"
        /\ pools' = pools /\ UNCHANGED <<read, left, created, skipped>>
    BY DEF ReadFails, Return, Messages, poolVars
  <1>2. WorkerTypeOK(Row)' /\ RowsAsTheyWere
    BY <1>1, Parts, QuietStep
  <1> QED BY <1>1, <1>2, Parts, SameLocals, ReturnedInv

\* A step of the reconcile that stays in it, with the same object.
LEMMA GoOnInv ==
  ASSUME PoolsInv, UNCHANGED <<storeVars, edits>>, UNCHANGED faults \/ CallFails,
         UNCHANGED <<cfg, err>>, pc \in ReconcilePCs, pc' \in ReconcilePCs,
         LocalsTypeOK', LeftInv', pools' = pools
  PROVE  PoolsInv' /\ ListStep
  <1>1. WorkerTypeOK(Row)' /\ RowsAsTheyWere
    <2>1. cfg' \in {cfg, Empty} /\ err' \in Messages
      BY Parts DEF WorkerTypeOK
    <2> QED BY <2>1, Parts, QuietStep
  <1>2. pc' \in PCs /\ pc' \notin ImportPCs /\ pc \in WorkPCs
    BY DEF PCs, ImportPCs, ReconcilePCs, Kinds, WorkPCs
  <1>3. Fits
    BY <1>2, Parts DEF Fits, ObjectsInv, PhaseInv
  <1> QED BY <1>1, <1>2, <1>3, QuietInv

\* It leaves the reconcile, with the object or without.
LEMMA StopInv ==
  ASSUME PoolsInv, UNCHANGED <<storeVars, edits>>, UNCHANGED faults \/ CallFails,
         cfg' \in {cfg, Empty}, err' \in Messages, pc' \in {"record", "enqueue", "finish"},
         pc' = "record" \/ left' = {}, LocalsTypeOK', pools' = pools
  PROVE  PoolsInv' /\ ListStep
  <1>1. WorkerTypeOK(Row)' /\ RowsAsTheyWere
    BY Parts, QuietStep
  <1> QED BY <1>1, ReturnedInv

LEMMA ReadInv ==
  ASSUME PoolsInv, Read
  PROVE  PoolsInv' /\ ListStep
  <1>1. /\ pc = "read" /\ ReadPools /\ created' = FALSE
        /\ pc' \in {"finish", "create"} /\ UNCHANGED <<cfg, err>>
        /\ UNCHANGED <<storeVars, edits>> /\ UNCHANGED <<pools, left>>
    BY DEF Read, Continue
  <1>2. /\ UNCHANGED faults \/ CallFails
        /\ DOMAIN read' \subseteq PoolIDs /\ \A p \in DOMAIN read' : read'[p] \in Settings
        /\ skipped' \in BOOLEAN
    BY <1>1, Parts, ReadPoolsEffect DEF WorkerTypeOK
  <1>3. left' = {}
    BY <1>1, Parts DEF LeftInv, Kinds
  <1>4. LocalsTypeOK'
    BY <1>1, <1>2, <1>3 DEF LocalsTypeOK
  <1>5. err' \in Messages
    BY <1>1, Parts DEF WorkerTypeOK
  <1>6. CASE pc' = "finish"
    BY <1>1, <1>2, <1>3, <1>4, <1>5, <1>6, StopInv
  <1>7. CASE pc' = "create"
    <2>1. pc \in ReconcilePCs /\ pc' \in ReconcilePCs /\ LeftInv'
      BY <1>1, <1>3, <1>7 DEF ReconcilePCs, LeftInv, Kinds
    <2> QED BY <1>1, <1>2, <1>4, <2>1, GoOnInv
  <1> QED BY <1>1, <1>6, <1>7

LEMMA RowsCompleteInv ==
  ASSUME PoolsInv, RowsComplete
  PROVE  PoolsInv' /\ ListStep
  <1>1. /\ pc = "create" /\ pc' \in {"saveRows", "delete"} /\ UNCHANGED <<cfg, err>>
        /\ UNCHANGED <<storeVars, edits>> /\ UNCHANGED faults
        /\ pools' = pools /\ UNCHANGED <<read, left, created, skipped>>
    BY DEF RowsComplete, Continue, poolVars
  <1>2. LocalsTypeOK' /\ LeftInv' /\ pc \in ReconcilePCs /\ pc' \in ReconcilePCs
    BY <1>1, Parts, SameLocals DEF LeftInv, Kinds, ReconcilePCs
  <1> QED BY <1>1, <1>2, GoOnInv

LEMMA NextKindInv ==
  ASSUME PoolsInv, NextKind
  PROVE  PoolsInv' /\ ListStep
  <1>1. /\ pc \in Kinds /\ left = {} /\ UNCHANGED <<cfg, err>>
        /\ UNCHANGED <<storeVars, edits>> /\ UNCHANGED faults
        /\ pools' = pools /\ UNCHANGED <<read, created, skipped>>
        /\ \/ pc' \in {"limits", "type"} /\ left' = ToModify(pc')
           \/ pc' \in {"enqueue", "finish"} /\ left' = {}
    BY DEF NextKind, Continue
  <1>2. CASE pc' \in {"limits", "type"} /\ left' = ToModify(pc')
    <2>1. left' \subseteq DOMAIN read /\ left' \subseteq Listed(cfg.rows)
      BY <1>2 DEF ToModify
    <2>2. LocalsTypeOK'
      BY <1>1, <2>1, Parts DEF LocalsTypeOK
    <2>3. LeftInv' /\ pc \in ReconcilePCs /\ pc' \in ReconcilePCs
      BY <1>1, <1>2, <2>1 DEF LeftInv, ReconcilePCs, Kinds
    <2> QED BY <1>1, <2>2, <2>3, GoOnInv
  <1>3. CASE pc' \in {"enqueue", "finish"} /\ left' = {}
    <2>1. LocalsTypeOK' /\ cfg' \in {cfg, Empty} /\ err' \in Messages
      BY <1>1, <1>3, Parts DEF LocalsTypeOK, WorkerTypeOK
    <2> QED BY <1>1, <1>3, <2>1, StopInv
  <1> QED BY <1>1, <1>2, <1>3

LEMMA Smallest ==
  ASSUME NEW S \in SUBSET Nat, S # {}
  PROVE  Min(S) \in S
  <1>1. \E x \in S : \A y \in S : ~(<<y, x>> \in OpToRel(<, Nat))
    BY NatLessThanWellFounded, WFMin
  <1>2. \A x, y \in Nat : y < x => <<y, x>> \in OpToRel(<, Nat)
    BY DEF OpToRel
  <1>3. PICK x \in S : \A y \in S : ~(y < x)
    BY <1>1, <1>2
  <1>4. \A y \in S : x =< y
    BY <1>3
  <1> QED BY <1>4 DEF Min

\* The row that comes next, and the rows with the id of its pool.
LEMMA NextRow ==
  ASSUME NEW rows \in Seq(Row), NEW missing, NEW n \in PoolIDs,
         missing = {i \in DOMAIN rows : rows[i].id = NoPool}, missing # {}
  PROVE  LET i == Min(missing) IN
         /\ rows[i].want \in Settings
         /\ [rows EXCEPT ![i].id = n] \in Seq(Row)
         /\ Listed([rows EXCEPT ![i].id = n]) = Listed(rows) \cup {n}
  <1> DEFINE i == Min(missing)
  <1>1. i \in DOMAIN rows /\ rows[i].id = NoPool
    <2>1. missing \in SUBSET Nat
      OBVIOUS
    <2> QED BY <2>1, Smallest
  <1> HIDE DEF i
  <1>2. rows[i] \in Row /\ n # NoPool
    BY <1>1, PoolsAssumption DEF PoolIDs, NoPool
  <1> DEFINE row == [rows[i] EXCEPT !.id = n]
  <1>3. row \in Row /\ row.id = n /\ rows[i].want \in Settings
    BY <1>2 DEF Row
  <1> DEFINE new == [rows EXCEPT ![i] = row]
  <1>4. new = [rows EXCEPT ![i].id = n]
    OBVIOUS
  <1> HIDE DEF row
  <1>5. new \in Seq(Row) /\ DOMAIN new = DOMAIN rows
    BY <1>1, <1>3
  <1>6. /\ new[i] = row
        /\ \A j \in DOMAIN rows : j # i => new[j] = rows[j]
    BY <1>1
  <1> HIDE DEF new
  <1>7. Listed(new) = Listed(rows) \cup {n}
    BY <1>1, <1>2, <1>3, <1>5, <1>6 DEF Listed
  <1> QED BY <1>3, <1>4, <1>5, <1>7 DEF i

LEMMA CreateRowInv ==
  ASSUME PoolsInv, CreateRow
  PROVE  PoolsInv' /\ PromiseStep
  <1>1. /\ TypeOK /\ WorkerTypeOK(Row) /\ CloudTypeOK /\ LocalsTypeOK /\ LeftInv /\ MadeInv
        /\ ImportInv /\ ObjectsInv /\ cfg.rows \in Seq(Row)
    BY Parts, Versions
  <1> DEFINE i == Min(Missing)
             n == NextPool
             want == cfg.rows[i].want
             rows == [cfg.rows EXCEPT ![i].id = n]
  <1>2. /\ pc = "create" /\ Missing # {}
        /\ UNCHANGED <<api, watch, queued, edits>> /\ UNCHANGED <<read, left, skipped>>
        /\ \/ /\ CreateClusterNodePool(want) /\ WriteInPlace([cfg EXCEPT !.rows[i].id = n])
              /\ created' = TRUE /\ UNCHANGED <<pc, err, faults>>
           \/ /\ CallFails /\ Return(cfg, "cloud")
              /\ CreateClusterNodePool(want) \/ UNCHANGED pools
              /\ UNCHANGED <<cache, created>>
    BY DEF CreateRow
  <1>3. [cfg EXCEPT !.rows[i].id = n] = [cfg EXCEPT !.rows = rows]
    OBVIOUS
  <1>4. CreateClusterNodePool(want) =>
          /\ n \in PoolIDs /\ want \in Settings
          /\ rows \in Seq(Row) /\ Listed(rows) = Listed(cfg.rows) \cup {n}
    BY <1>1, <1>2, NextRow DEF Missing, CreateClusterNodePool
  <1> HIDE DEF want, rows, i
  <1>5. CreateClusterNodePool(want) =>
          /\ CloudTypeOK' /\ n \notin Made
          /\ Live' = Live \cup {n} /\ Made' = Made \cup {n} /\ MadeInv' /\ NoneDeleted
    BY <1>1, <1>4, CreateEffect
  <1> HIDE DEF n
  <1>6. /\ pc \in WorkPCs /\ pc \in ReconcilePCs /\ pc \notin ImportPCs
        /\ pc \notin Kinds /\ pc # "record" /\ pc \in PCs /\ left' = {}
    BY <1>1, <1>2 DEF WorkPCs, ReconcilePCs, ImportPCs, Kinds, PCs, LeftInv
  <1>7. ASSUME CreateClusterNodePool(want), WriteInPlace([cfg EXCEPT !.rows[i].id = n]),
               created' = TRUE, UNCHANGED <<pc, err, faults>>
        PROVE  PoolsInv' /\ CreateStep
    <2>1. cfg.rv = api.rv => Listed(rows) \ Listed(api.rows) \subseteq Live'
      BY <1>1, <1>4, <1>5, <1>7 DEF ObjectsInv, NewInv, NewIDsLive
    <2>2. faults' \in 0..MaxFaults
      BY <1>1, <1>7 DEF WorkerTypeOK
    <2>3. WorkerTypeOK(Row)' /\ ObjectsInv'
      BY <1>1, <1>2, <1>3, <1>4, <1>5, <1>6, <1>7, <2>1, <2>2, InPlaceObjects
    <2>4. LocalsTypeOK' /\ LeftInv' /\ ImportInv' /\ pc' \in PCs
      BY <1>1, <1>2, <1>5, <1>6, <1>7 DEF LocalsTypeOK, LeftInv, ImportInv, NoneDeleted
    <2>5. PoolsInv'
      BY <1>5, <1>7, <2>3, <2>4, Assembled
    <2> QED BY <1>2, <1>5, <1>7, <2>5 DEF CreateStep
  <1>8. ASSUME CallFails, Return(cfg, "cloud"), UNCHANGED <<cache, created>>
        PROVE  /\ WorkerTypeOK(Row)' /\ RowsAsTheyWere /\ LocalsTypeOK' /\ pc' = "record"
               /\ UNCHANGED <<storeVars, edits>> /\ cfg' = cfg /\ err' \in Messages
    <2>1. /\ UNCHANGED <<storeVars, edits>> /\ cfg' = cfg /\ err' \in Messages
          /\ pc' = "record"
      BY <1>2, <1>8 DEF storeVars, Return, Messages
    <2>2. WorkerTypeOK(Row)' /\ RowsAsTheyWere
      BY <1>1, <1>8, <2>1, QuietStep
    <2>3. LocalsTypeOK'
      BY <1>1, <1>2, <1>8, SameLocals
    <2> QED BY <2>1, <2>2, <2>3
  <1>9. ASSUME CallFails, Return(cfg, "cloud"), UNCHANGED <<cache, created>>,
               CreateClusterNodePool(want)
        PROVE  PoolsInv' /\ CreateStep
    <2>1. pc' \in PCs /\ Fits /\ LeftInv'
      BY <1>8, <1>9 DEF PCs, Fits, LeftInv, WorkPCs, ImportPCs, ReconcilePCs, Kinds
    <2>2. PoolsInv' /\ api'.rows = api.rows
      BY <1>5, <1>8, <1>9, <2>1, RowsStayInv
    <2> QED BY <1>5, <1>9, <2>2 DEF CreateStep
  <1>10. ASSUME CallFails, Return(cfg, "cloud"), UNCHANGED <<cache, created>>, UNCHANGED pools
         PROVE  PoolsInv' /\ ListStep
    BY <1>8, <1>10, ReturnedInv
  <1> QED BY <1>2, <1>7, <1>9, <1>10 DEF PromiseStep

LEMMA DeleteSurplusInv ==
  ASSUME PoolsInv, DeleteSurplus
  PROVE  PoolsInv' /\ PromiseStep
  <1>1. /\ TypeOK /\ WorkerTypeOK(Row) /\ CloudTypeOK /\ LocalsTypeOK /\ LeftInv /\ MadeInv
        /\ ImportInv /\ ObjectsInv
    BY Parts
  <1>2. /\ pc = "delete" /\ UNCHANGED <<storeVars, edits>> /\ UNCHANGED <<read, created, skipped>>
        /\ \/ /\ DeleteNodePool(Surplus) /\ UNCHANGED faults
              /\ Continue("capacity") /\ left' = ToModify("capacity")
           \/ /\ CallFails /\ Return(cfg, "cloud")
              /\ DeleteNodePool(Surplus) \/ UNCHANGED pools
              /\ UNCHANGED left
    BY DEF DeleteSurplus
  <1>3. pc \in ReconcilePCs /\ pc \in WorkPCs
    BY <1>2 DEF ReconcilePCs, WorkPCs
  <1>4. /\ UNCHANGED <<api, cache, watch, cfg>> /\ (UNCHANGED faults \/ CallFails)
        /\ err' \in Messages /\ pc' \in {"capacity", "record"}
    BY <1>1, <1>2 DEF storeVars, Continue, Return, WorkerTypeOK, Messages
  <1>5. WorkerTypeOK(Row)'
    BY <1>1, <1>2, <1>4, QuietStep
  <1>6. pc' \in PCs /\ pc' \notin ImportPCs /\ Fits
    <2>1. cfg.phase # "importing"
      BY <1>1, <1>3 DEF ObjectsInv, PhaseInv
    <2>2. pc' \in PCs /\ pc' \notin ImportPCs
      BY <1>4 DEF PCs, ImportPCs
    <2> QED BY <1>3, <1>4, <2>1, <2>2 DEF Fits
  <1>7. LocalsTypeOK' /\ LeftInv'
    <2>1. CASE pc' = "capacity" /\ left' = ToModify("capacity")
      <3>1. left' \subseteq DOMAIN read /\ left' \subseteq Listed(cfg.rows)
        BY <2>1 DEF ToModify
      <3> QED BY <1>1, <1>2, <1>4, <2>1, <3>1 DEF LocalsTypeOK, LeftInv, Kinds
    <2>2. CASE pc' = "record" /\ UNCHANGED left
      BY <1>1, <1>2, <2>2 DEF LocalsTypeOK, LeftInv, Kinds
    <2> QED BY <1>2, <2>1, <2>2 DEF Continue, Return
  <1>8. CASE DeleteNodePool(Surplus)
    <2>1. CloudTypeOK' /\ Live' = Live \ Surplus /\ Made' = Made /\ MadeInv'
      BY <1>1, <1>8, DeleteEffect
    <2>2. ObjectsInv' /\ Listed(api.rows) \cap Surplus = {}
      BY <1>1, <1>3, <1>4, <1>6, <2>1, DeleteObjects
    <2>3. ImportInv'
      <3>1. api.phase # "importing"
        BY <1>1, <1>3 DEF ObjectsInv, SharedInv, PhaseInv, SamePhase
      <3> QED BY <1>4, <3>1 DEF ImportInv
    <2>4. PoolsInv'
      BY <1>5, <1>6, <1>7, <2>1, <2>2, <2>3, Assembled
    <2>5. DeleteStep
      BY <1>4, <2>1, <2>2 DEF DeleteStep
    <2> QED BY <2>4, <2>5 DEF PromiseStep
  <1>9. CASE UNCHANGED pools /\ CallFails /\ Return(cfg, "cloud")
    BY <1>2, <1>4, <1>7, <1>9, StopInv DEF Return, PromiseStep
  <1> QED BY <1>2, <1>8, <1>9

LEMMA ModifyInv ==
  ASSUME PoolsInv, Modify
  PROVE  PoolsInv' /\ ListStep
  <1>1. /\ TypeOK /\ WorkerTypeOK(Row) /\ CloudTypeOK /\ LocalsTypeOK /\ LeftInv /\ MadeInv
        /\ ImportInv /\ ObjectsInv /\ cfg.rows \in Seq(Row)
    BY Parts, Versions
  <1>2. pc \in Kinds /\ UNCHANGED <<storeVars, edits>> /\ UNCHANGED <<read, created, skipped>>
    BY DEF Modify
  <1>3. PICK p \in left :
          LET want == WantOf(cfg.rows, p) IN
          \/ /\ Accepts(pc, p, want) /\ ChangeTo(p, Modified(pc, pools[p].has, want))
             /\ left' = left \ {p}
             /\ UNCHANGED <<workerVars, faults>>
          \/ /\ Return(cfg, "cloud")
             /\ UNCHANGED <<pools, left, faults>>
          \/ /\ CallFails /\ Return(cfg, "cloud")
             /\ \/ UNCHANGED pools
                \/ Accepts(pc, p, want) /\ ChangeTo(p, Modified(pc, pools[p].has, want))
             /\ UNCHANGED left
    BY DEF Modify
  <1> DEFINE want == WantOf(cfg.rows, p)
             has == Modified(pc, pools[p].has, want)
             new == [state |-> "updating", has |-> has]
  <1>4. want \in Settings /\ p \in PoolIDs
    BY <1>1, <1>2, <1>3, WantOfListed DEF LeftInv, LocalsTypeOK
  <1> HIDE DEF want
  <1>5. Accepts(pc, p, want) => has \in Settings
    BY <1>1, <1>2, <1>4, PoolParts, ModifiedType DEF Accepts
  <1> HIDE DEF has
  <1>6. Accepts(pc, p, want) => new \in Pool /\ new.state = "updating"
    BY <1>5 DEF Pool, PoolStates
  <1>7. /\ \/ UNCHANGED pools
           \/ p \in Live /\ new \in Pool /\ new.state = "updating" /\ pools' = [pools EXCEPT ![p] = new]
        /\ UNCHANGED faults \/ CallFails
        /\ \/ left' = left \ {p} /\ UNCHANGED workerVars
           \/ Return(cfg, "cloud") /\ UNCHANGED left
    BY <1>3, <1>6 DEF Accepts, ChangeTo, want, has
  <1> HIDE DEF new
  <1>8. CloudTypeOK' /\ Live' = Live /\ Made' = Made /\ MadeInv' /\ NoneDeleted
    <2>1. CASE UNCHANGED pools
      BY <1>1, <2>1, SamePools DEF MadeInv
    <2>2. CASE /\ p \in Live /\ new \in Pool /\ new.state = "updating"
               /\ pools' = [pools EXCEPT ![p] = new]
      BY <1>1, <1>4, <2>2, StateEffect
    <2> QED BY <1>7, <2>1, <2>2
  <1>9. cfg' = cfg /\ err' \in Messages /\ (pc' = pc \/ pc' = "record") /\ left' \subseteq left
    BY <1>1, <1>7 DEF Return, workerVars, WorkerTypeOK, Messages
  <1>10. WorkerTypeOK(Row)' /\ RowsAsTheyWere
    BY <1>1, <1>2, <1>7, <1>9, QuietStep
  <1>11. LocalsTypeOK' /\ LeftInv'
    BY <1>1, <1>2, <1>9 DEF LocalsTypeOK, LeftInv
  <1>12. pc' \in PCs /\ Fits
    <2>1. cfg.phase # "importing" /\ pc \in WorkPCs /\ pc \notin ImportPCs
      BY <1>1, <1>2 DEF ObjectsInv, PhaseInv, WorkPCs, ReconcilePCs, ImportPCs, Kinds
    <2>2. pc' \in PCs /\ pc' \notin ImportPCs
      BY <1>2, <1>9 DEF PCs, ImportPCs, Kinds
    <2>3. pc' \in WorkPCs => pc \in WorkPCs
      BY <2>1
    <2> QED BY <1>9, <2>1, <2>2 DEF Fits
  <1>13. PoolsInv' /\ api'.rows = api.rows
    BY <1>8, <1>10, <1>11, <1>12, RowsStayInv
  <1> QED BY <1>8, <1>13 DEF ListStep

-----------------------------------------------------------------------------
(* Every step, and the beginning.                                          *)

LEMMA WorkerInvariant ==
  ASSUME PoolsInv, Worker
  PROVE  PoolsInv' /\ PromiseStep
  <1>1. CASE CreateRow
    BY <1>1, CreateRowInv
  <1>2. CASE DeleteSurplus
    BY <1>2, DeleteSurplusInv
  <1>3. CASE Import \/ ImportSave \/ ImportActive
    BY <1>3, ImportInvariant, ImportSaveInv, ImportActiveInv DEF PromiseStep
  <1>4. CASE ReadFails \/ Await \/ Read \/ RowsComplete \/ SaveRows
    BY <1>4, ReadFailsInv, AwaitInv, ReadInv, RowsCompleteInv, SaveRowsInv DEF PromiseStep
  <1>5. CASE Modify \/ NextKind
    BY <1>5, ModifyInv, NextKindInv DEF PromiseStep
  <1>6. CASE (Begin \/ EnqueueUpdate \/ Finish \/ End) /\ UNCHANGED poolVars
    BY <1>6, BeginInv, OthersInv DEF PromiseStep
  <1>7. CASE RecordError /\ Forget
    BY <1>7, RecordErrorInv DEF PromiseStep
  <1> QED BY <1>1, <1>2, <1>3, <1>4, <1>5, <1>6, <1>7 DEF Worker

LEMMA StepInvariant ==
  ASSUME PoolsInv, [Next]_vars
  PROVE  PoolsInv' /\ PromiseStep
  <1>1. CASE UNCHANGED vars
    <2>1. /\ UNCHANGED <<api, cache, watch, queued, faults, edits, pc, cfg, err>>
          /\ UNCHANGED <<pools, read, left, created, skipped>>
      BY <1>1 DEF vars, storeVars, workerVars, poolVars
    <2>2. Live' = Live /\ Made' = Made
      BY <2>1 DEF Live, Made
    <2>3. PoolsInv'
      BY <2>1, <2>2
         DEF PoolsInv, TypeOK, WorkerTypeOK, LeftInv, MadeInv, OrderInv, SharedInv, PhaseInv,
             ImportInv, KnownInv, NewInv, SamePhase, KnowsIDs, NewIDsLive
    <2> QED BY <2>1, <2>2, <2>3 DEF PromiseStep, ListStep
  <1>2. CASE Worker
    BY <1>2, WorkerInvariant
  <1>3. CASE Informer \/ Restart \/ UserEdit
    BY <1>3, InformerInv, RestartInv, UserEditInv DEF PromiseStep
  <1>4. CASE \E p \in PoolIDs : PoolProgress(p)
    BY <1>4, PoolProgressInv DEF PromiseStep
  <1> QED BY <1>1, <1>2, <1>3, <1>4 DEF Next

\* In the beginning pools 1 and 2 are there.
LEMMA FirstPools ==
  ASSUME PoolsInit
  PROVE  CloudTypeOK /\ MadeInv /\ Live = {1, 2} /\ (\A p \in PoolIDs : pools[p].state # "deleting")
  <1>1. PICK has \in NewWants :
          pools = [p \in PoolIDs |-> IF p \in 1..2 THEN [state |-> "normal", has |-> has]
                                     ELSE [state |-> "none", has |-> NoSettings]]
    BY DEF PoolsInit
  <1>2. PoolIDs = 1..MaxPools /\ MaxPools \in Nat /\ MaxPools >= 2
    BY PoolsAssumption DEF PoolIDs
  <1>3. has \in Settings /\ NoSettings \in Settings
    BY WantsAssumption DEF NoSettings, Settings, Labels
  <1>4. \A p \in PoolIDs : pools[p].state = IF p \in 1..2 THEN "normal" ELSE "none"
    BY <1>1
  <1>5. CloudTypeOK
    BY <1>1, <1>3 DEF CloudTypeOK, Pool, PoolStates
  <1>6. Live = {1, 2}
    BY <1>2, <1>4 DEF Live
  <1>7. Made = 1..2
    BY <1>2, <1>4 DEF Made
  <1>8. MadeInv
    BY <1>2, <1>7 DEF MadeInv
  <1> QED BY <1>4, <1>5, <1>6, <1>8

LEMMA FirstObject ==
  ASSUME Init
  PROVE  /\ \E rows \in Seq(Row), p \in Phases : api = Stored(rows, p) /\ Listed(rows) \subseteq {1}
         /\ PoolsInit /\ LocalsInit
  <1>0. PoolsInit /\ LocalsInit
    BY DEF Init, UseInit, ImportInit
  <1>1. \A w \in Wants : w \in Settings
    BY WantsAssumption
  <1>2. 1 \in PoolIDs
    BY PoolsAssumption DEF PoolIDs
  <1>3. <<>> \in Seq(Row) /\ Listed(<<>>) \subseteq {1}
    BY DEF Listed
  <1>4. ASSUME NEW w \in Wants
        PROVE  <<[id |-> 1, want |-> w]>> \in Seq(Row)
               /\ Listed(<<[id |-> 1, want |-> w]>>) \subseteq {1}
    <2>1. [id |-> 1, want |-> w] \in Row
      BY <1>1, <1>2 DEF Row
    <2> QED BY <2>1 DEF Listed
  <1>5. ASSUME NEW w \in NewWants
        PROVE  /\ <<[id |-> 1, want |-> w], [id |-> NoPool, want |-> w]>> \in Seq(Row)
               /\ Listed(<<[id |-> 1, want |-> w], [id |-> NoPool, want |-> w]>>) \subseteq {1}
    <2>1. w \in Settings
      BY WantsAssumption
    <2>2. [id |-> 1, want |-> w] \in Row /\ [id |-> NoPool, want |-> w] \in Row
      BY <1>2, <2>1 DEF Row
    <2> QED BY <2>2 DEF Listed
  <1>6. "active" \in Phases /\ "importing" \in Phases
    BY DEF Phases
  <1> QED BY <1>0, <1>3, <1>4, <1>5, <1>6 DEF Init, UseInit, ImportInit

LEMMA InitInv ==
  ASSUME Init
  PROVE  PoolsInv /\ Listed(api.rows) \subseteq Live
  <1>1. PICK rows \in Seq(Row), p \in Phases : api = Stored(rows, p) /\ Listed(rows) \subseteq {1}
    BY FirstObject
  <1>2. PoolsInit /\ LocalsInit
    BY FirstObject
  <1>3. /\ api \in Objects(Row) /\ api.rv = 1 /\ api.rows = rows /\ api.phase = p
    BY <1>1, StoredObject
  <1>4. /\ cache = api /\ watch = <<>> /\ queued = TRUE /\ faults = MaxFaults /\ edits = MaxEdits
        /\ pc = "idle" /\ cfg = Empty /\ err = "none"
        /\ read = <<>> /\ left = {} /\ created = FALSE /\ skipped = FALSE
    BY <1>2 DEF LocalsInit, WorkerInit
  <1>5. /\ CloudTypeOK /\ MadeInv /\ Live = {1, 2}
        /\ \A q \in PoolIDs : pools[q].state # "deleting"
    BY <1>2, FirstPools
  <1>6. Empty \in Objects(Row) /\ Empty.rv = 0 /\ Empty.rows = <<>>
    BY EmptyObject
  <1>7. DOMAIN watch = {} /\ watch \in Seq(Objects(Row)) /\ DOMAIN read = {}
    BY <1>4
  <1>8. WorkerTypeOK(Row)
    BY <1>3, <1>4, <1>6, <1>7, BoundsAssumption DEF WorkerTypeOK, Messages
  <1>9. LocalsTypeOK /\ pc \in PCs
    BY <1>4, <1>7 DEF LocalsTypeOK, PCs
  <1>10. TypeOK
    BY <1>5, <1>8, <1>9, TypeParts
  <1>11. pc \notin WorkPCs /\ pc \notin ImportPCs /\ pc \notin ReconcilePCs
    BY <1>4 DEF WorkPCs, ImportPCs, ReconcilePCs, Kinds
  <1>12. LeftInv /\ ImportInv
    BY <1>4, <1>5 DEF LeftInv, ImportInv
  <1>13. OrderInv /\ SharedInv
    BY <1>3, <1>4, <1>6, <1>7, <1>11 DEF OrderInv, SharedInv
  <1>14. PhaseInv /\ KnownInv
    BY <1>3, <1>4, <1>6, <1>7, <1>11 DEF PhaseInv, KnownInv, SamePhase, KnowsIDs
  <1>15. NewInv
    BY <1>3, <1>4, <1>6, <1>7 DEF NewInv, NewIDsLive
  <1> QED BY <1>1, <1>3, <1>5, <1>10, <1>12, <1>13, <1>14, <1>15 DEF PoolsInv

LEMMA PoolsInvAlways == Spec => []PoolsInv
  <1>1. Init => PoolsInv
    BY InitInv
  <1>2. PoolsInv /\ [Next]_vars => PoolsInv'
    BY StepInvariant
  <1> QED BY <1>1, <1>2, PTL DEF Spec

-----------------------------------------------------------------------------
(* A worker that rests is done.  What its last pass saw and did is carried *)
(* along, as long as no other is asked for.                                *)

PassPCs == {"read", "create", "saveRows", "delete", "enqueue", "finish"} \cup Kinds

\* What was read is still so: no pool was changed since.
Reads ==
  /\ Busy = {}
  /\ \A p \in DOMAIN read : p \in There /\ pools[p].has = read[p]
  /\ skipped \/ There \subseteq DOMAIN read

\* An id that is not stored.
NewID == ~(Listed(cfg.rows) \subseteq Listed(api.rows))

RowsDone == Busy = {} /\ (\A i \in DOMAIN cache.rows : cache.rows[i].id # NoPool) /\ Done
Settled == api.phase = "active" /\ RowsDone

\* The pass works with what is stored; it goes on to the end only when it changed
\* nothing, and what it changes makes it, or an event, come back.
PassInv ==
  /\ pc \in PassPCs => cfg.rv = api.rv
  /\ pc = "importActive" => api.phase = "importing"
  /\ pc = "create" => created \/ Reads
  /\ pc \in {"create", "saveRows"} /\ created => NewID
  /\ pc = "saveRows" => created
  /\ pc = "delete" => Missing = {} /\ Reads
  /\ pc \in Kinds => Missing = {} /\ left \subseteq ToModify(pc) /\ (Modifying \/ Reads)
  /\ pc = "finish" => RowsDone
  /\ pc \in {"record", "end"} /\ err = "none" => Settled
  /\ pc = "idle" => Settled

ListedLive == Listed(api.rows) \subseteq Live

RestInv == FreshInv /\ ListedLive /\ (Calm => PassInv)

LEMMA ListedLiveStep ==
  ASSUME ListedLive, PromiseStep
  PROVE  ListedLive'
  BY DEF ListedLive, PromiseStep, ListStep, CreateStep, DeleteStep

\* With an error the pass comes back, and no store makes an event.
LEMMA ErrorPass ==
  ASSUME pc' = "record", err' # "none"
  PROVE  PassInv'
  BY DEF PassInv, PassPCs, Kinds

LEMMA SettledPass ==
  ASSUME pc' \in {"record", "end", "idle"}, Settled'
  PROVE  PassInv'
  BY DEF PassInv, PassPCs, Kinds

\* The last version is the cache's, and the worker's.
LEMMA CalmObjects ==
  ASSUME PoolsInv, RestInv, Calm
  PROVE  /\ PassInv /\ cache.rv = api.rv
         /\ pc \in WorkPCs /\ cfg.rv = api.rv => cfg.rows = cache.rows
         /\ pc \in PassPCs => cfg.rv = api.rv /\ cfg.phase = api.phase
         /\ cfg.rv = api.rv => Listed(cfg.rows) \ Listed(api.rows) \subseteq Live
  <1>1. PassInv /\ cache.rv = api.rv
    BY DEF RestInv, FreshInv, Calm
  <1>2. SharedInv /\ PhaseInv /\ NewInv
    BY DEF PoolsInv
  <1> QED BY <1>1, <1>2 DEF SharedInv, PhaseInv, SamePhase, NewInv, NewIDsLive, PassInv

\* What agrees in all three kinds, and asks for no size above the maximum, is the same.
LEMMA SameSettings ==
  ASSUME NEW want \in Settings, NEW has \in Settings, \A kind \in Kinds : ~Differs(kind, want, has)
  PROVE  want = has
  <1>1. /\ ~(want.capacity # has.capacity /\ want.capacity <= has.max)
        /\ want.min = has.min /\ want.max = has.max /\ want.labels = has.labels
        /\ want.type = has.type
    <2>1. "capacity" \in Kinds /\ "limits" \in Kinds /\ "type" \in Kinds
      BY DEF Kinds
    <2>2. ~Differs("capacity", want, has) /\ ~Differs("limits", want, has) /\ ~Differs("type", want, has)
      BY <2>1
    <2> QED BY <2>2 DEF Differs
  <1>2. want.capacity = has.capacity
    BY <1>1, SettingsParts
  <1> QED BY <1>1, <1>2 DEF Settings

\* A pass that found nothing to change: the rows are done.
LEMMA NothingToDo ==
  ASSUME PoolsInv, RestInv, Calm, pc \in Kinds, Missing = {}, Reads, ~Modifying
  PROVE  RowsDone
  <1>1. /\ TypeOK /\ LocalsTypeOK /\ CloudTypeOK /\ cfg.rows \in Seq(Row)
    BY Parts, Versions
  <1>2. cfg.rows = cache.rows /\ Listed(cfg.rows) \ Listed(api.rows) \subseteq Live
    BY CalmObjects DEF WorkPCs, ReconcilePCs, PassPCs
  <1>3. \A i \in DOMAIN cache.rows : cache.rows[i].id # NoPool
    BY <1>2 DEF Missing
  <1>4. ASSUME ~skipped
        PROVE  Live = Listed(cache.rows)
    <2>1. Live \subseteq There
      BY DEF Live, There
    <2>2. There \subseteq DOMAIN read /\ DOMAIN read \subseteq Listed(cfg.rows)
      BY <1>4 DEF Reads, Modifying, Surplus
    <2>3. Listed(cfg.rows) \subseteq Live
      BY <1>2 DEF RestInv, ListedLive
    <2> QED BY <1>2, <2>1, <2>2, <2>3
  <1>5. ASSUME ~skipped, NEW p \in Live
        PROVE  \E i \in DOMAIN cache.rows : cache.rows[i] = [id |-> p, want |-> pools[p].has]
    <2>1. p \in PoolIDs /\ p \in There
      BY <1>5 DEF Live, There
    <2>2. p \in DOMAIN read /\ p \in Listed(cfg.rows) /\ read[p] = pools[p].has
      BY <1>2, <1>4, <1>5, <2>1 DEF Reads
    <2>3. \A kind \in Kinds : ~Differs(kind, WantOf(cfg.rows, p), read[p])
      BY <2>2 DEF Modifying, ToModify
    <2>4. WantOf(cfg.rows, p) = pools[p].has
      BY <1>1, <2>2, <2>3, WantOfListed, SameSettings DEF LocalsTypeOK
    <2>5. PICK i \in DOMAIN cfg.rows : cfg.rows[i].id = p /\ cfg.rows[i].want = WantOf(cfg.rows, p)
      <3>1. \E i \in DOMAIN cfg.rows : cfg.rows[i].id = p
        BY <2>2 DEF Listed
      <3> QED BY <3>1 DEF WantOf
    <2>6. cfg.rows[i] \in Row
      BY <1>1, <2>5
    <2> QED BY <1>2, <2>4, <2>5, <2>6 DEF Row
  <1> QED BY <1>3, <1>4, <1>5 DEF RowsDone, Done, Reads

\* No step of the worker but its first takes the key, and only writes bring a version.
LEMMA WorkerMoves ==
  ASSUME PoolsInv, Worker, ~Begin
  PROVE  Moves
  <1>1. TypeOK /\ WorkerTypeOK(Row)
    BY Parts
  <1>2. CASE CreateRow \/ Import
    <2>1. /\ Kept /\ (queued => queued')
          /\ cache' = cache \/ (\E rows : WriteInPlace([cfg EXCEPT !.rows = rows]))
      <3>1. CASE CreateRow
        <4> DEFINE i == Min(Missing)
        <4>1. [cfg EXCEPT !.rows[i].id = NextPool]
                = [cfg EXCEPT !.rows = [cfg.rows EXCEPT ![i].id = NextPool]]
          BY <1>1, Versions DEF Objects
        <4> QED BY <3>1, <4>1 DEF CreateRow, Kept
      <3>2. CASE Import
        BY <3>2 DEF Import, Kept
      <3> QED BY <1>2, <3>1, <3>2
    <2>2. cache'.rv = cache.rv
      <3>1. CASE \E rows : WriteInPlace([cfg EXCEPT !.rows = rows])
        <4>1. PICK rows : WriteInPlace([cfg EXCEPT !.rows = rows])
          BY <3>1
        <4>2. [cfg EXCEPT !.rows = rows].rv = cfg.rv
          BY <1>1, Versions DEF Objects
        <4> QED BY <4>1, <4>2 DEF WriteInPlace
      <3> QED BY <2>1, <3>1
    <2> QED BY <2>1, <2>2 DEF Moves
  <1>3. CASE ImportSave \/ SaveRows
    <2>1. PICK res \in WriteResults : Update(cfg, res)
      BY <1>3 DEF ImportSave, SaveRows
    <2>2. Kept \/ NewVersion
      BY <1>1, <2>1, Versions, UpdateEffect
    <2> QED BY <1>3, <2>2 DEF Moves, ImportSave, SaveRows
  <1>4. CASE ImportActive
    <2>1. [cfg EXCEPT !.phase = "active"] \in Objects(Row)
      BY <1>1, Versions DEF Objects, Phases
    <2>2. Kept \/ NewVersion
      BY <1>1, <1>4, <2>1, ReturnUpdateStatusEffect DEF ImportActive
    <2> QED BY <1>4, <2>2 DEF Moves, ImportActive
  <1>5. CASE ReadFails \/ Read \/ RowsComplete \/ DeleteSurplus \/ Modify \/ NextKind
    BY <1>5 DEF ReadFails, Read, RowsComplete, DeleteSurplus, Modify, NextKind, Moves, Kept, storeVars
  <1>6. CASE Await \/ EnqueueUpdate \/ Finish \/ End \/ RecordError
    <2>1. queued \in BOOLEAN
      BY <1>1 DEF WorkerTypeOK
    <2>2. RowsAsTheyWere
      BY <1>1, <1>6, AwaitPoolsStep, EnqueueUpdateStep, FinishStep, EndStep, RecordErrorStep DEF Await
    <2>3. queued => queued'
      BY <1>6, <2>1 DEF Await, AwaitPools, EnqueueUpdate, Finish, End, RecordError
    <2> QED BY <2>2, <2>3, RowsAsTheyWereMoves
  <1> QED BY <1>2, <1>3, <1>4, <1>5, <1>6 DEF Worker

LEMMA WorkerCalm ==
  ASSUME PoolsInv, RestInv, Worker, ~Begin, Calm'
  PROVE  /\ Calm /\ PassInv /\ api' = api /\ TypeOK /\ WorkerTypeOK(Row) /\ CloudTypeOK
         /\ cfg \in Objects(Row) /\ cfg.rows \in Seq(Row)
  BY Parts, Versions, WorkerMoves, MovesCalm DEF RestInv

LEMMA UserEditMoves ==
  ASSUME PoolsInv, UserEdit
  PROVE  NewVersion /\ cache' = cache
  <1>1. PICK rows \in Changed(api.rows) \cup Reduced(api.rows) \cup Extended(api.rows) :
          Publish([api EXCEPT !.rows = rows])
    BY DEF UserEdit
  <1>2. rows \in Seq(Row)
    BY <1>1, Parts, Versions, EditedRows
  <1>3. /\ edits > 0 /\ edits' = edits - 1
        /\ UNCHANGED <<cache, queued, faults, workerVars>>
    BY DEF UserEdit
  <1> QED BY <1>1, <1>2, <1>3, Parts, RowsStep

\* OnTkeConfigChanged starts with the last version.
LEMMA BeginPass ==
  ASSUME PoolsInv, RestInv, Begin, Calm'
  PROVE  PassInv'
  <1>1. cfg' = cache /\ api' = api /\ pc' \in {"import", "read"} /\ watch = <<>>
    BY DEF Begin, Calm
  <1>2. cache.rv = api.rv
    BY <1>1 DEF RestInv, FreshInv
  <1> QED BY <1>1, <1>2 DEF PassInv, PassPCs, Kinds

LEMMA ImportPass ==
  ASSUME PoolsInv, RestInv, Worker, Calm', ~Begin, Import \/ ImportSave \/ ImportActive
  PROVE  PassInv'
  <1>1. /\ Calm /\ PassInv /\ api' = api /\ WorkerTypeOK(Row) /\ cfg \in Objects(Row)
    BY WorkerCalm
  <1>2. CASE Import
    <2>1. pc' = "importSave"
      BY <1>2 DEF Import
    <2> QED BY <2>1 DEF PassInv, PassPCs, Kinds
  <1>3. CASE ImportSave
    <2>1. PICK res \in WriteResults :
            /\ Update(cfg, res)
            /\ IF res = "ok" THEN pc' = "importActive" /\ cfg' = api' /\ UNCHANGED err
                             ELSE Return(cfg, "store")
      BY <1>3 DEF ImportSave
    <2>2. CASE res # "ok"
      BY <2>1, <2>2, ErrorPass DEF Return
    <2>3. CASE res = "ok"
      <3>1. Current(cfg) /\ pc' = "importActive"
        BY <1>1, <2>1, <2>3, UpdateEffect
      <3>2. cfg.phase = "importing" /\ SamePhase(cfg)
        BY <1>3 DEF ImportSave, PoolsInv, PhaseInv, ImportPCs
      <3>3. api'.phase = "importing"
        BY <1>1, <3>1, <3>2 DEF SamePhase, Current
      <3> QED BY <3>1, <3>3 DEF PassInv, PassPCs, Kinds
    <2> QED BY <2>2, <2>3
  <1>4. CASE ImportActive
    <2>1. api.phase = "importing"
      BY <1>1, <1>4 DEF ImportActive, PassInv
    <2>2. /\ [cfg EXCEPT !.phase = "active"] \in Objects(Row)
          /\ [cfg EXCEPT !.phase = "active"].phase = "active"
      BY <1>1 DEF Objects, Phases
    <2>3. pc' = "record" /\ err' = "store"
      BY <1>1, <1>4, <2>1, <2>2, ReturnUpdateStatusCalm DEF ImportActive
    <2> QED BY <2>3, ErrorPass
  <1> QED BY <1>2, <1>3, <1>4

\* Pools at work, or a failed read: an error, or the key in the queue.
LEMMA AwaitPass ==
  ASSUME PoolsInv, RestInv, Calm', ReadFails \/ Await
  PROVE  PassInv'
  <1>1. pc' = "record" /\ err' # "none"
    BY DEF ReadFails, Await, AwaitPools, Return, Calm
  <1> QED BY <1>1, ErrorPass

LEMMA ReadPass ==
  ASSUME PoolsInv, RestInv, Worker, Calm', ~Begin, Read
  PROVE  PassInv'
  <1>1. Calm /\ PassInv /\ api' = api /\ CloudTypeOK
    BY WorkerCalm
  <1>2. /\ pc = "read" /\ Busy = {} /\ created' = FALSE /\ pools' = pools
        /\ pc' = IF cfg.rows = <<>> THEN "finish" ELSE "create"
        /\ cfg' = cfg /\ cache' = cache
    BY DEF Read, Continue, storeVars
  <1>3. PICK out \in SUBSET There :
          /\ read' = [p \in There \ out |-> pools[p].has]
          /\ skipped' = (out # {})
    BY DEF Read, ReadPools
  <1>4. There' = There /\ Busy' = Busy
    BY <1>2 DEF There, Busy
  <1>5. Reads'
    BY <1>2, <1>3, <1>4 DEF Reads
  <1>6. cfg'.rv = api'.rv /\ cfg.rows = cache.rows
    BY <1>1, <1>2, CalmObjects DEF PassPCs, WorkPCs, ReconcilePCs
  <1>7. CASE pc' = "finish"
    <2>1. cache'.rows = <<>>
      BY <1>2, <1>6, <1>7
    <2>2. RowsDone'
      BY <1>2, <1>4, <2>1 DEF RowsDone, Done
    <2> QED BY <1>6, <1>7, <2>2 DEF PassInv, PassPCs, Kinds
  <1>8. CASE pc' = "create"
    BY <1>2, <1>5, <1>6, <1>8 DEF PassInv, PassPCs, Kinds
  <1> QED BY <1>2, <1>7, <1>8

\* The id of a created pool is not stored yet: the write of the rows makes an event.
LEMMA CreateRowPass ==
  ASSUME PoolsInv, RestInv, Worker, Calm', ~Begin, CreateRow
  PROVE  PassInv'
  <1>1. /\ Calm /\ PassInv /\ api' = api /\ WorkerTypeOK(Row) /\ CloudTypeOK
        /\ cfg \in Objects(Row) /\ cfg.rows \in Seq(Row) /\ MadeInv
    BY WorkerCalm, Parts
  <1> DEFINE i == Min(Missing)
             want == cfg.rows[i].want
             rows == [cfg.rows EXCEPT ![i].id = NextPool]
  <1>2. pc = "create" /\ Missing # {}
    BY DEF CreateRow
  <1>3. CASE CallFails /\ Return(cfg, "cloud")
    BY <1>3, ErrorPass DEF Return
  <1>4. CASE /\ CreateClusterNodePool(want)
             /\ WriteInPlace([cfg EXCEPT !.rows[i].id = NextPool])
             /\ created' = TRUE /\ UNCHANGED <<pc, err, faults>>
    <2>1. NextPool \in PoolIDs
      BY <1>4 DEF CreateClusterNodePool
    <2>2. want \in Settings /\ Listed(rows) = Listed(cfg.rows) \cup {NextPool}
      BY <1>1, <1>2, <2>1, NextRow DEF Missing
    <2>3. NextPool \notin Made
      BY <1>1, <1>4, <2>2, CreateEffect
    <2>4. cfg' = [cfg EXCEPT !.rows = rows]
      BY <1>1, <1>4 DEF WriteInPlace, Objects
    <2>5. cfg'.rows = rows /\ cfg'.rv = cfg.rv
      BY <1>1, <2>4 DEF Objects
    <2>6. Live \subseteq Made
      BY DEF Live, Made
    <2>7. NewID'
      BY <1>1, <2>2, <2>3, <2>5, <2>6 DEF NewID, RestInv, ListedLive
    <2>8. cfg'.rv = api'.rv
      BY <1>1, <1>2, <2>5 DEF PassInv, PassPCs
    <2> QED BY <1>2, <1>4, <2>7, <2>8 DEF PassInv, PassPCs, Kinds
  <1> QED BY <1>3, <1>4 DEF CreateRow

LEMMA RowsCompletePass ==
  ASSUME PoolsInv, RestInv, Worker, Calm', ~Begin, RowsComplete
  PROVE  PassInv'
  <1>1. Calm /\ PassInv /\ api' = api /\ CloudTypeOK
    BY WorkerCalm
  <1>2. /\ pc = "create" /\ Missing = {} /\ pc' = IF created THEN "saveRows" ELSE "delete"
        /\ UNCHANGED <<cfg, cache, pools, read, left, created, skipped>>
    BY DEF RowsComplete, Continue, storeVars, poolVars
  <1>3. (Reads <=> Reads') /\ (NewID <=> NewID') /\ Missing' = Missing
    BY <1>1, <1>2 DEF Reads, NewID, Missing, There, Busy
  <1>4. cfg'.rv = api'.rv
    BY <1>1, <1>2 DEF PassInv, PassPCs
  <1>5. CASE created
    BY <1>1, <1>2, <1>3, <1>4, <1>5 DEF PassInv, PassPCs, Kinds
  <1>6. CASE ~created
    BY <1>1, <1>2, <1>3, <1>4, <1>6 DEF PassInv, PassPCs, Kinds
  <1> QED BY <1>5, <1>6

LEMMA SaveRowsPass ==
  ASSUME PoolsInv, RestInv, Worker, Calm', ~Begin, SaveRows
  PROVE  PassInv'
  <1>1. Calm /\ PassInv /\ api' = api /\ WorkerTypeOK(Row) /\ cfg \in Objects(Row)
    BY WorkerCalm
  <1>2. PICK res \in WriteResults :
          /\ Update(cfg, res)
          /\ IF res = "ok" THEN Return(api', "none") ELSE Return(Empty, "store")
    BY DEF SaveRows
  <1>3. NewID
    BY <1>1 DEF SaveRows, PassInv
  <1>4. res # "ok"
    BY <1>1, <1>2, <1>3, UpdateEffect DEF NewID
  <1> QED BY <1>2, <1>4, ErrorPass DEF Return

LEMMA DeletePass ==
  ASSUME PoolsInv, RestInv, Worker, Calm', ~Begin, DeleteSurplus
  PROVE  PassInv'
  <1>1. Calm /\ PassInv /\ api' = api /\ CloudTypeOK
    BY WorkerCalm
  <1>2. CASE CallFails /\ Return(cfg, "cloud")
    BY <1>2, ErrorPass DEF Return
  <1>3. CASE /\ DeleteNodePool(Surplus) /\ Continue("capacity") /\ left' = ToModify("capacity")
    <2>1. pc = "delete" /\ UNCHANGED <<cfg, cache, read, skipped>> /\ pc' = "capacity"
      BY <1>3 DEF DeleteSurplus, Continue, storeVars
    <2>2. Missing' = {} /\ cfg'.rv = api'.rv
      BY <1>1, <2>1 DEF PassInv, PassPCs, Missing
    <2>3. left' \subseteq ToModify(pc)'
      BY <1>3, <2>1 DEF ToModify
    <2>4. CASE Surplus # {}
      <3>1. Modifying'
        BY <2>1, <2>4 DEF Modifying, Surplus
      <3> QED BY <2>1, <2>2, <2>3, <3>1 DEF PassInv, PassPCs, Kinds
    <2>5. CASE Surplus = {}
      <3>1. pools' = pools
        BY <1>1, <1>3, <2>5 DEF DeleteNodePool, CloudTypeOK
      <3>2. Reads'
        BY <1>1, <2>1, <3>1 DEF PassInv, Reads, There, Busy
      <3> QED BY <2>1, <2>2, <2>3, <3>2 DEF PassInv, PassPCs, Kinds
    <2> QED BY <2>4, <2>5
  <1> QED BY <1>2, <1>3 DEF DeleteSurplus

LEMMA ModifyPass ==
  ASSUME PoolsInv, RestInv, Worker, Calm', ~Begin, Modify
  PROVE  PassInv'
  <1>1. Calm /\ PassInv /\ api' = api
    BY WorkerCalm
  <1>2. pc \in Kinds /\ UNCHANGED <<cache, read, skipped>> /\ left # {}
    BY DEF Modify, storeVars
  <1>3. \/ UNCHANGED <<pc, cfg>> /\ left' \subseteq left
        \/ pc' = "record" /\ err' # "none"
    BY DEF Modify, Return, workerVars
  <1>4. CASE UNCHANGED <<pc, cfg>> /\ left' \subseteq left
    <2>1. ToModify(pc) # {} /\ left' \subseteq ToModify(pc) /\ Missing = {} /\ cfg.rv = api.rv
      BY <1>1, <1>2, <1>4 DEF PassInv, PassPCs
    <2>2. Modifying' /\ left' \subseteq ToModify(pc)' /\ Missing' = {} /\ cfg'.rv = api'.rv
      BY <1>1, <1>2, <1>4, <2>1 DEF Modifying, ToModify, Surplus, Missing
    <2> QED BY <1>2, <1>4, <2>2 DEF PassInv, PassPCs, Kinds
  <1> QED BY <1>3, <1>4, ErrorPass

LEMMA NextKindPass ==
  ASSUME PoolsInv, RestInv, Worker, Calm', ~Begin, NextKind
  PROVE  PassInv'
  <1>1. Calm /\ PassInv /\ api' = api
    BY WorkerCalm
  <1>2. /\ pc \in Kinds /\ UNCHANGED <<cache, cfg, pools, read, skipped>>
        /\ \/ pc' \in Kinds /\ left' = ToModify(pc')
           \/ pc' = IF Modifying THEN "enqueue" ELSE "finish"
    BY DEF NextKind, Continue, storeVars, Kinds
  <1>3. /\ Missing' = {} /\ cfg'.rv = api'.rv
        /\ (Modifying <=> Modifying') /\ (Reads <=> Reads') /\ (RowsDone <=> RowsDone')
        /\ pc' \in Kinds => ToModify(pc') = ToModify(pc)'
    BY <1>1, <1>2 DEF PassInv, PassPCs, Missing, Modifying, Surplus, ToModify, Reads, RowsDone, Done,
                      There, Busy, Live
  <1>4. CASE pc' \in Kinds /\ left' = ToModify(pc')
    BY <1>1, <1>2, <1>3, <1>4 DEF PassInv, PassPCs, Kinds
  <1>5. CASE Modifying /\ pc' = "enqueue"
    BY <1>3, <1>5 DEF PassInv, PassPCs, Kinds
  <1>6. CASE ~Modifying /\ pc' = "finish"
    <2>1. RowsDone
      BY <1>1, <1>2, <1>6, NothingToDo DEF PassInv
    <2> QED BY <1>3, <1>6, <2>1 DEF PassInv, PassPCs, Kinds
  <1> QED BY <1>2, <1>4, <1>5, <1>6

\* enqueueUpdate comes back, or stores a phase that is another.
LEMMA EnqueuePass ==
  ASSUME PoolsInv, RestInv, Worker, Calm', ~Begin, EnqueueUpdate
  PROVE  PassInv'
  <1>1. Calm /\ PassInv /\ api' = api /\ WorkerTypeOK(Row)
    BY WorkerCalm
  <1>2. cfg.phase = api.phase
    BY <1>1, CalmObjects DEF EnqueueUpdate, PassPCs
  <1>3. cfg.phase # "updating"
    BY DEF EnqueueUpdate, Calm
  <1>4. PICK res \in WriteResults :
          /\ UpdateStatus([api EXCEPT !.phase = "updating"], res)
          /\ IF res = "ok" THEN Return(api', "none") ELSE Return(Empty, "store")
    BY <1>3 DEF EnqueueUpdate
  <1>5. /\ [api EXCEPT !.phase = "updating"] \in Objects(Row)
        /\ [api EXCEPT !.phase = "updating"].phase = "updating"
    BY <1>1 DEF WorkerTypeOK, Objects, Phases
  <1>6. res # "ok"
    BY <1>1, <1>2, <1>3, <1>4, <1>5, UpdateStatusEffect
  <1> QED BY <1>4, <1>6, ErrorPass DEF Return

LEMMA FinishPass ==
  ASSUME PoolsInv, RestInv, Worker, Calm', ~Begin, Finish, UNCHANGED poolVars
  PROVE  PassInv'
  <1>1. Calm /\ PassInv /\ api' = api /\ WorkerTypeOK(Row) /\ cfg \in Objects(Row)
    BY WorkerCalm
  <1>2. cfg.phase = api.phase /\ RowsDone /\ cache' = cache
    BY <1>1, CalmObjects DEF Finish, PassPCs, PassInv
  <1>3. CASE cfg.phase = "active" /\ Return(cfg, "none")
    <2>1. RowsDone' /\ api'.phase = "active"
      BY <1>1, <1>2, <1>3 DEF RowsDone, Done, Live, Busy, poolVars
    <2> QED BY <1>3, <2>1, SettledPass DEF Settled, Return
  <1>4. CASE cfg.phase # "active" /\ ReturnUpdateStatus([cfg EXCEPT !.phase = "active"])
    <2>1. /\ [cfg EXCEPT !.phase = "active"] \in Objects(Row)
          /\ [cfg EXCEPT !.phase = "active"].phase = "active"
      BY <1>1 DEF Objects, Phases
    <2> QED BY <1>1, <1>2, <1>4, <2>1, ReturnUpdateStatusCalm, ErrorPass
  <1> QED BY <1>3, <1>4 DEF Finish

LEMMA EndPass ==
  ASSUME PoolsInv, RestInv, Worker, Calm', ~Begin,
         (RecordError /\ Forget) \/ (End /\ UNCHANGED poolVars)
  PROVE  PassInv'
  <1>1. Calm /\ PassInv /\ api' = api
    BY WorkerCalm
  <1>2. UNCHANGED <<cache, pools, skipped>>
    BY DEF RecordError, End, Forget, poolVars
  <1>3. Settled => Settled'
    BY <1>1, <1>2 DEF Settled, RowsDone, Done, Live, Busy
  <1>4. CASE RecordError
    BY <1>1, <1>3, <1>4 DEF RecordError, PassInv, PassPCs, Kinds
  <1>5. CASE End
    <2>1. pc = "end" /\ err = "none" /\ pc' = "idle"
      BY <1>5 DEF End, Calm
    <2> QED BY <1>1, <1>3, <2>1, SettledPass DEF PassInv
  <1> QED BY <1>4, <1>5

\* Work on a pool ends: it was no pass that saw nothing to do.
LEMMA ProgressPass ==
  ASSUME RestInv, Calm', NEW p \in PoolIDs, PoolProgress(p)
  PROVE  PassInv'
  <1>1. /\ UNCHANGED <<storeVars, pc, cfg, err>> /\ UNCHANGED <<read, left, created, skipped>>
        /\ Busy # {}
    BY DEF PoolProgress, workerVars
  <1>2. Calm /\ PassInv
    BY <1>1 DEF RestInv, Calm, storeVars
  <1>3. ~Reads /\ ~RowsDone /\ ~Settled
    BY <1>1 DEF Reads, RowsDone, Settled
  <1>4. /\ Missing' = Missing /\ (NewID <=> NewID') /\ (Modifying <=> Modifying')
        /\ ToModify(pc)' = ToModify(pc)
    BY <1>1 DEF Missing, NewID, Modifying, ToModify, Surplus, storeVars
  <1> QED BY <1>1, <1>2, <1>3, <1>4 DEF PassInv, storeVars

LEMMA RestStep ==
  ASSUME PoolsInv, RestInv, [Next]_vars
  PROVE  RestInv'
  <1>1. PromiseStep /\ WorkerTypeOK(Row)
    BY StepInvariant, Parts
  <1>2. ListedLive'
    BY <1>1, ListedLiveStep DEF RestInv
  <1>3. FreshInv'
    <2>1. CASE UNCHANGED vars
      BY <2>1 DEF vars, storeVars, RestInv, FreshInv
    <2>2. CASE Worker
      <3>1. CASE Begin
        BY <1>1, <3>1, MovesFresh DEF Begin, RestInv, Kept
      <3>2. CASE ~Begin
        BY <1>1, <2>2, <3>2, WorkerMoves, MovesFresh DEF RestInv, Moves
      <3> QED BY <3>1, <3>2
    <2>3. CASE Informer
      BY <1>1, <2>3, DeliverFresh DEF Informer, RestInv
    <2>4. CASE Restart
      BY <2>4 DEF Restart, Crash, FreshInv
    <2>5. CASE UserEdit
      BY <1>1, <2>5, UserEditMoves, MovesFresh DEF RestInv
    <2>6. CASE \E p \in PoolIDs : PoolProgress(p)
      BY <1>1, <2>6, MovesFresh DEF PoolProgress, storeVars, RestInv, Kept
    <2> QED BY <2>1, <2>2, <2>3, <2>4, <2>5, <2>6 DEF Next
  <1>4. ASSUME Calm' PROVE PassInv'
    <2>1. CASE UNCHANGED vars
      <3>1. /\ UNCHANGED <<api, cache, watch, queued, pc, cfg, err>>
            /\ UNCHANGED <<pools, read, left, created, skipped>>
        BY <2>1 DEF vars, storeVars, workerVars, poolVars
      <3>2. PassInv
        BY <1>4, <3>1 DEF RestInv, Calm
      <3> QED BY <3>1, <3>2 DEF PassInv, Reads, NewID, RowsDone, Done, Settled, Missing, ToModify,
                                Modifying, Surplus, There, Busy, Live
    <2>2. CASE Begin
      BY <1>4, <2>2, BeginPass
    <2>3. CASE Worker /\ ~Begin
      <3>1. CASE Import \/ ImportSave \/ ImportActive
        BY <1>4, <2>3, <3>1, ImportPass
      <3>2. CASE ReadFails \/ Await \/ Read
        BY <1>4, <2>3, <3>2, AwaitPass, ReadPass
      <3>3. CASE CreateRow \/ RowsComplete \/ SaveRows
        BY <1>4, <2>3, <3>3, CreateRowPass, RowsCompletePass, SaveRowsPass
      <3>4. CASE DeleteSurplus \/ Modify \/ NextKind
        BY <1>4, <2>3, <3>4, DeletePass, ModifyPass, NextKindPass
      <3>5. CASE (EnqueueUpdate \/ Finish \/ End) /\ UNCHANGED poolVars
        BY <1>4, <2>3, <3>5, EnqueuePass, FinishPass, EndPass
      <3>6. CASE RecordError /\ Forget
        BY <1>4, <2>3, <3>6, EndPass
      <3> QED BY <2>3, <3>1, <3>2, <3>3, <3>4, <3>5, <3>6 DEF Worker
    <2>4. CASE Informer \/ Restart
      BY <1>4, <2>4 DEF Informer, Deliver, Restart, Crash, Calm
    <2>5. CASE UserEdit
      BY <1>1, <1>4, <2>5, UserEditMoves, NewVersionComes
    <2>6. CASE \E p \in PoolIDs : PoolProgress(p)
      BY <1>4, <2>6, ProgressPass
    <2> QED BY <2>1, <2>2, <2>3, <2>4, <2>5, <2>6 DEF Next
  <1> QED BY <1>2, <1>3, <1>4 DEF RestInv

LEMMA RestInvAlways == Spec => [](PoolsInv /\ RestInv)
  <1>1. Init => RestInv
    <2> SUFFICES ASSUME Init PROVE RestInv
      OBVIOUS
    <2>1. Listed(api.rows) \subseteq Live
      BY InitInv
    <2>2. cache = api /\ watch = <<>> /\ queued = TRUE
      BY DEF Init, UseInit, ImportInit, LocalsInit, WorkerInit
    <2> QED BY <2>1, <2>2 DEF RestInv, ListedLive, FreshInv, Calm
  <1>2. PoolsInv /\ RestInv /\ [Next]_vars => RestInv'
    BY RestStep
  <1> QED BY <1>1, <1>2, PoolsInvAlways, PTL DEF Spec

-----------------------------------------------------------------------------
(* The theorems.                                                           *)

\* The types hold in every run, and only pools that were read are modified, though
\* the rows change under a reconcile (lines 640-730).
THEOREM NodePoolsTyped == Spec => []TypeOK
  <1>1. PoolsInv => TypeOK
    BY DEF PoolsInv
  <1> QED BY <1>1, PoolsInvAlways, PTL

\* NodePools implements PoolPromise: whatever is lost, retried or done from an old
\* object, the reconcile deletes no pool the stored spec lists (line 688), stores
\* no id of a pool that is going (line 664), and no pool comes back.
THEOREM PoolsPromiseAlwaysKept == Spec => PoolsPromiseKept
  <1>1. Init => Promise!Init
    <2> SUFFICES ASSUME Init PROVE Promise!Init
      OBVIOUS
    <2>1. PoolsInv /\ Listed(api.rows) \subseteq Live
      BY InitInv
    <2>2. Live \subseteq {p \in PoolIDs : pools[p].state # "none"}
      BY DEF Live
    <2> QED BY <2>1, <2>2 DEF Promise!Init
  <1>2. PoolsInv /\ [Next]_vars => [Promise!Next]_<<Listed(api.rows), Live, {p \in PoolIDs : pools[p].state # "none"}>>
    <2> SUFFICES ASSUME PoolsInv, [Next]_vars
                 PROVE  Promise!Next
      OBVIOUS
    <2>1. PromiseStep
      BY StepInvariant
    <2>2. CASE ListStep
      BY <2>2 DEF ListStep, Made, Promise!Next, Promise!List
    <2>3. CASE CreateStep
      BY <2>3 DEF CreateStep, Made, Promise!Next, Promise!Create
    <2>4. CASE DeleteStep
      BY <2>4 DEF DeleteStep, Made, Promise!Next, Promise!Delete
    <2> QED BY <2>1, <2>2, <2>3, <2>4 DEF PromiseStep
  <1> QED BY <1>1, <1>2, PoolsInvAlways, PTL DEF Spec, PoolsPromiseKept, Promise!Spec

\* A worker that rests is done, however the edits, the faults and the clouds' work fell
\* between its passes: no wakeup is lost (the key is put back at lines 527 and
\* 1291, events bring the others), and the pass that ended last had nothing
\* left to change in the last spec.
THEOREM NodePoolsRest == Spec => []RestMeansDone
  <1>1. RestInv => RestMeansDone
    BY DEF RestInv, PassInv, Calm, AtRest, Settled, RowsDone, RestMeansDone
  <1> QED BY <1>1, RestInvAlways, PTL
=============================================================================
