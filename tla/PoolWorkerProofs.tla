-------------------------- MODULE PoolWorkerProofs --------------------------
(***************************************************************************)
(* What the steps of PoolWorker do to the objects the worker, the informer *)
(* and the API server hold: the lemmas NodePoolsProofs and                 *)
(* VirtualPoolsProofs rest on.  Row, the type of the rows, is theirs.      *)
(***************************************************************************)
EXTENDS PoolWorker, SequenceTheorems, TLAPS

-----------------------------------------------------------------------------
(* Sequences.                                                              *)

LEMMA AppendElements ==
  ASSUME NEW T, NEW s \in Seq(T), NEW e
  PROVE  \A i \in DOMAIN Append(s, e) :
           Append(s, e)[i] = e \/ (i \in DOMAIN s /\ Append(s, e)[i] = s[i])
  OBVIOUS

LEMMA TailElements ==
  ASSUME NEW T, NEW s \in Seq(T), s # <<>>
  PROVE  /\ Tail(s) \in Seq(T) /\ 1 \in DOMAIN s
         /\ \A i \in DOMAIN Tail(s) : i + 1 \in DOMAIN s /\ Tail(s)[i] = s[i + 1]
  OBVIOUS

-----------------------------------------------------------------------------
(* Objects.                                                                *)

LEMMA ObjectFields ==
  ASSUME NEW R, NEW o \in Objects(R)
  PROVE  /\ o.there \in BOOLEAN /\ o.deleting \in BOOLEAN /\ o.finalizer \in BOOLEAN
         /\ o.rv \in Nat /\ o.rows \in Seq(R) /\ o.phase \in Phases /\ o.msg \in Messages
  BY DEF Objects

LEMMA ObjectUpdates ==
  ASSUME NEW R, NEW o \in Objects(R)
  PROVE  /\ \A p \in Phases : [o EXCEPT !.phase = p] \in Objects(R)
         /\ \A rows \in Seq(R) : [o EXCEPT !.rows = rows] \in Objects(R)
         /\ \A p \in Phases, m \in Messages :
              /\ [o EXCEPT !.phase = p, !.msg = m] \in Objects(R)
              /\ [o EXCEPT !.msg = m, !.phase = p] \in Objects(R)
         /\ \A n \in Nat, t \in BOOLEAN : /\ [o EXCEPT !.rv = n] \in Objects(R)
                                          /\ [o EXCEPT !.there = t] \in Objects(R)
  BY DEF Objects

LEMMA EmptyObject ==
  ASSUME NEW R
  PROVE  /\ Empty \in Objects(R) /\ Empty.rv = 0 /\ Empty.rows = <<>> /\ ~Empty.there
         /\ Empty.phase = "active"
  <1>1. <<>> \in Seq(R)
    OBVIOUS
  <1> QED BY <1>1 DEF Empty, Objects, Phases, Messages

LEMMA StoredObject ==
  ASSUME NEW R, NEW rows \in Seq(R), NEW p \in Phases
  PROVE  /\ Stored(rows, p) \in Objects(R) /\ Stored(rows, p).rv = 1
         /\ Stored(rows, p).rows = rows /\ Stored(rows, p).phase = p
         /\ Stored(rows, p).there
  BY DEF Stored, Empty, Objects, Messages

-----------------------------------------------------------------------------
(* Writes.                                                                 *)

\* A version like new is stored, and its event sent.
Stores(new) ==
  /\ \E there \in BOOLEAN : api' = [new EXCEPT !.there = there, !.rv = api.rv + 1]
  /\ watch' = Append(watch, api')

LEMMA PublishStores ==
  ASSUME NEW R, NEW new \in Objects(R), Publish(new)
  PROVE  Stores(new)
  <1>1. new.there \in BOOLEAN /\ [new EXCEPT !.there = new.there] = new
    BY DEF Objects
  <1>2. [new EXCEPT !.there = new.there, !.rv = api.rv + 1] = [new EXCEPT !.rv = api.rv + 1]
    BY DEF Objects
  <1> QED BY <1>1, <1>2 DEF Publish, Stores

LEMMA CommitStores ==
  ASSUME NEW R, NEW new \in Objects(R), Commit(new)
  PROVE  (new = api /\ UNCHANGED <<api, watch>>) \/ Stores(new)
  <1>1. CASE new = api /\ UNCHANGED <<api, watch>>
    BY <1>1
  <1>2. CASE Publish([new EXCEPT !.there = ~(api.deleting /\ ~new.finalizer)])
    <2> DEFINE t == ~(api.deleting /\ ~new.finalizer)
    <2>1. t \in BOOLEAN
      OBVIOUS
    <2>2. [[new EXCEPT !.there = t] EXCEPT !.rv = api.rv + 1]
            = [new EXCEPT !.there = t, !.rv = api.rv + 1]
      BY DEF Objects
    <2> QED BY <1>2, <2>1, <2>2 DEF Publish, Stores
  <1> QED BY <1>1, <1>2 DEF Commit

\* Only the version that is stored can be written over.
LEMMA WriteStores ==
  ASSUME NEW R, NEW obj, NEW new \in Objects(R), NEW res \in WriteResults,
         faults \in 0..MaxFaults, Write(obj, new, res)
  PROVE  /\ faults' \in 0..MaxFaults
         /\ UNCHANGED <<api, watch>> \/ (Current(obj) /\ Stores(new))
         /\ res = "ok" => Current(obj) /\ (Stores(new) \/ (api = new /\ UNCHANGED <<api, watch>>))
         /\ res = "conflict" => UNCHANGED <<api, watch>>
  <1>1. faults' \in 0..MaxFaults
    BY BoundsAssumption DEF Write
  <1>2. Commit(new) => (new = api /\ UNCHANGED <<api, watch>>) \/ Stores(new)
    BY CommitStores
  <1>3. res \in {"ok", "conflict", "error"}
    BY DEF WriteResults
  <1> QED BY <1>1, <1>2, <1>3 DEF Write

LEMMA StoresTypes ==
  ASSUME NEW R, api \in Objects(R), watch \in Seq(Objects(R)), NEW new \in Objects(R), Stores(new)
  PROVE  /\ api' \in Objects(R) /\ watch' \in Seq(Objects(R))
         /\ watch' = Append(watch, api') /\ api'.rv = api.rv + 1
         /\ api'.rows = new.rows /\ api'.phase = new.phase
  <1>1. PICK t \in BOOLEAN : api' = [new EXCEPT !.there = t, !.rv = api.rv + 1]
    BY DEF Stores
  <1>2. api.rv + 1 \in Nat
    BY ObjectFields
  <1>3. api' \in Objects(R)
    BY <1>1, <1>2 DEF Objects
  <1>4. api'.rv = api.rv + 1 /\ api'.rows = new.rows /\ api'.phase = new.phase
    BY <1>1 DEF Objects
  <1> QED BY <1>3, <1>4 DEF Stores
\* Either nothing is written, or a new version.
Kept == UNCHANGED <<api, watch>>
NewVersion == api'.rv = api.rv + 1 /\ watch' = Append(watch, api')
StoreTyped(R) ==
  /\ api' \in Objects(R) /\ watch' \in Seq(Objects(R)) /\ faults' \in 0..MaxFaults

LEMMA UpdateEffect ==
  ASSUME NEW R, WorkerTypeOK(R), NEW obj \in Objects(R), NEW res \in WriteResults,
         Update(obj, res)
  PROVE  /\ StoreTyped(R)
         /\ \/ Kept
            \/ /\ NewVersion /\ Current(obj)
               /\ api'.rows = obj.rows /\ api'.phase = api.phase
         /\ res = "ok" => /\ Current(obj) /\ api'.rows = obj.rows /\ api'.phase = api.phase
         /\ res = "conflict" => Kept
  <1> DEFINE new == [api EXCEPT !.rows = obj.rows]
  <1>1. /\ new \in Objects(R) /\ new.rows = obj.rows /\ new.phase = api.phase
    BY ObjectUpdates, ObjectFields DEF WorkerTypeOK, Objects
  <1>2. Write(obj, new, res)
    BY DEF Update
  <1> HIDE DEF new
  <1>3. /\ faults' \in 0..MaxFaults
        /\ Kept \/ (Current(obj) /\ Stores(new))
        /\ res = "ok" => Current(obj) /\ (Stores(new) \/ (api = new /\ Kept))
        /\ res = "conflict" => Kept
    BY <1>1, <1>2, WriteStores DEF WorkerTypeOK, Kept
  <1>4. Stores(new) => /\ api' \in Objects(R) /\ watch' \in Seq(Objects(R)) /\ NewVersion
                       /\ api'.rows = new.rows /\ api'.phase = new.phase
    BY <1>1, StoresTypes DEF WorkerTypeOK, NewVersion
  <1>5. Kept => api' = api /\ watch' = watch
    BY DEF Kept
  <1> QED BY <1>1, <1>3, <1>4, <1>5 DEF WorkerTypeOK, StoreTyped

LEMMA UpdateStatusEffect ==
  ASSUME NEW R, WorkerTypeOK(R), NEW obj \in Objects(R), NEW res \in WriteResults,
         UpdateStatus(obj, res)
  PROVE  /\ StoreTyped(R)
         /\ \/ Kept
            \/ /\ NewVersion /\ Current(obj)
               /\ api'.rows = api.rows /\ api'.phase = obj.phase
         /\ res = "ok" => /\ Current(obj) /\ api'.rows = api.rows /\ api'.phase = obj.phase
         /\ res = "conflict" => Kept
  <1> DEFINE new == [api EXCEPT !.phase = obj.phase, !.msg = obj.msg]
  <1>1. /\ new \in Objects(R) /\ new.rows = api.rows /\ new.phase = obj.phase
    BY ObjectUpdates, ObjectFields DEF WorkerTypeOK, Objects
  <1>2. Write(obj, new, res)
    BY DEF UpdateStatus
  <1> HIDE DEF new
  <1>3. /\ faults' \in 0..MaxFaults
        /\ Kept \/ (Current(obj) /\ Stores(new))
        /\ res = "ok" => Current(obj) /\ (Stores(new) \/ (api = new /\ Kept))
        /\ res = "conflict" => Kept
    BY <1>1, <1>2, WriteStores DEF WorkerTypeOK, Kept
  <1>4. Stores(new) => /\ api' \in Objects(R) /\ watch' \in Seq(Objects(R)) /\ NewVersion
                       /\ api'.rows = new.rows /\ api'.phase = new.phase
    BY <1>1, StoresTypes DEF WorkerTypeOK, NewVersion
  <1>5. Kept => api' = api /\ watch' = watch
    BY DEF Kept
  <1> QED BY <1>1, <1>3, <1>4, <1>5 DEF WorkerTypeOK, StoreTyped

LEMMA ReturnUpdateStatusEffect ==
  ASSUME NEW R, WorkerTypeOK(R), NEW obj \in Objects(R), ReturnUpdateStatus(obj)
  PROVE  /\ StoreTyped(R)
         /\ \/ Kept
            \/ /\ NewVersion /\ Current(obj)
               /\ api'.rows = api.rows /\ api'.phase = obj.phase
         /\ pc' = "record" /\ cfg' \in {api', Empty} /\ err' \in {"none", "store"}
  <1>1. PICK res \in WriteResults :
          /\ UpdateStatus(obj, res)
          /\ IF res = "ok" THEN Return(api', "none") ELSE Return(Empty, "store")
    BY DEF ReturnUpdateStatus
  <1>2. pc' = "record" /\ cfg' \in {api', Empty} /\ err' \in {"none", "store"}
    BY <1>1 DEF Return
  <1> QED BY <1>1, <1>2, UpdateStatusEffect

-----------------------------------------------------------------------------
(* The steps of the worker that write no rows.                             *)

\* Rows are stored as they were; only recordError can store the phase importing, of
\* an object that has it.
RowsAsTheyWere ==
  /\ cache' = cache /\ cfg' \in {cfg, cache, api', Empty}
  /\ \/ Kept
     \/ /\ NewVersion /\ api'.rows = api.rows
        /\ \/ api'.phase # "importing"
           \/ pc = "record" /\ Current(cfg) /\ cfg.phase = "importing"

LEMMA AwaitPoolsStep ==
  ASSUME NEW R, WorkerTypeOK(R), AwaitPools
  PROVE  WorkerTypeOK(R)' /\ RowsAsTheyWere /\ pc' = "record"
  <1> DEFINE new == [cfg EXCEPT !.phase = "updating"]
  <1>1. new \in Objects(R) /\ new.phase = "updating"
    BY DEF WorkerTypeOK, Objects, Phases
  <1>2. CASE cfg.phase = "updating" /\ Return(cfg, "none")
    BY <1>2 DEF AwaitPools, Return, WorkerTypeOK, Messages, RowsAsTheyWere, Kept
  <1>3. CASE cfg.phase # "updating"
    <2>1. PICK res \in WriteResults :
            /\ UpdateStatus(new, res)
            /\ \/ res = "ok" /\ Return(api', "none") /\ queued' = TRUE
               \/ res # "ok" /\ Return(Empty, "store") /\ UNCHANGED queued
      BY <1>3 DEF AwaitPools
    <2> HIDE DEF new
    <2>2. /\ StoreTyped(R)
          /\ Kept \/ (NewVersion /\ api'.rows = api.rows /\ api'.phase = "updating")
      BY <1>1, <2>1, UpdateStatusEffect
    <2>3. cfg' \in {api', Empty} /\ err' \in {"none", "store"} /\ queued' \in BOOLEAN /\ pc' = "record"
      BY <2>1 DEF Return, WorkerTypeOK
    <2> QED BY <2>2, <2>3, EmptyObject
            DEF AwaitPools, WorkerTypeOK, StoreTyped, Messages, RowsAsTheyWere
  <1> QED BY <1>2, <1>3 DEF AwaitPools

LEMMA EnqueueUpdateStep ==
  ASSUME NEW R, WorkerTypeOK(R), EnqueueUpdate
  PROVE  WorkerTypeOK(R)' /\ RowsAsTheyWere /\ pc' = "record"
  <1> DEFINE new == [api EXCEPT !.phase = "updating"]
  <1>1. new \in Objects(R) /\ new.phase = "updating"
    BY DEF WorkerTypeOK, Objects, Phases
  <1>2. CASE cfg.phase = "updating" /\ Return(cfg, "none")
    BY <1>2 DEF EnqueueUpdate, Return, WorkerTypeOK, Messages, RowsAsTheyWere, Kept
  <1>3. CASE cfg.phase # "updating"
    <2>1. PICK res \in WriteResults :
            /\ UpdateStatus(new, res)
            /\ IF res = "ok" THEN Return(api', "none") ELSE Return(Empty, "store")
      BY <1>3 DEF EnqueueUpdate
    <2> HIDE DEF new
    <2>2. /\ StoreTyped(R)
          /\ Kept \/ (NewVersion /\ api'.rows = api.rows /\ api'.phase = "updating")
      BY <1>1, <2>1, UpdateStatusEffect
    <2>3. cfg' \in {api', Empty} /\ err' \in {"none", "store"} /\ pc' = "record"
      BY <2>1 DEF Return, WorkerTypeOK
    <2>4. queued' = queued
      BY <1>3 DEF EnqueueUpdate
    <2> QED BY <2>2, <2>3, <2>4, EmptyObject
            DEF EnqueueUpdate, WorkerTypeOK, StoreTyped, Messages, RowsAsTheyWere
  <1> QED BY <1>2, <1>3 DEF EnqueueUpdate

LEMMA FinishStep ==
  ASSUME NEW R, WorkerTypeOK(R), Finish
  PROVE  WorkerTypeOK(R)' /\ RowsAsTheyWere /\ pc' = "record"
  <1> DEFINE new == [cfg EXCEPT !.phase = "active"]
  <1>1. new \in Objects(R) /\ new.phase = "active"
    BY DEF WorkerTypeOK, Objects, Phases
  <1>2. CASE cfg.phase = "active" /\ Return(cfg, "none") /\ UNCHANGED <<api, watch, faults>>
    BY <1>2 DEF Finish, Return, WorkerTypeOK, Messages, RowsAsTheyWere, Kept
  <1>3. CASE ReturnUpdateStatus(new)
    <2> HIDE DEF new
    <2> QED BY <1>1, <1>3, ReturnUpdateStatusEffect, EmptyObject
            DEF Finish, WorkerTypeOK, StoreTyped, Messages, RowsAsTheyWere
  <1> QED BY <1>2, <1>3 DEF Finish

LEMMA RecordErrorStep ==
  ASSUME NEW R, WorkerTypeOK(R), RecordError
  PROVE  WorkerTypeOK(R)' /\ RowsAsTheyWere /\ pc' = "end"
  <1>1. /\ Recorded \in Objects(R) /\ Recorded.rv = cfg.rv /\ Recorded.there = cfg.there
        /\ Recorded.phase = "importing" => cfg.phase = "importing"
    <2> DEFINE p == IF err # "none" /\ cfg.phase = "active" THEN "updating" ELSE cfg.phase
    <2>1. cfg \in Objects(R) /\ err \in Messages
      BY DEF WorkerTypeOK
    <2>2. p \in Phases /\ (p = "importing" => cfg.phase = "importing")
      BY <2>1, ObjectFields DEF Phases
    <2>3. Recorded = [cfg EXCEPT !.msg = err, !.phase = p]
      BY <2>1 DEF Recorded, Objects
    <2> HIDE DEF p
    <2> QED BY <2>1, <2>2, <2>3 DEF Objects
  <1>2. CASE UNCHANGED <<api, watch, faults>>
    BY <1>2 DEF RecordError, WorkerTypeOK, RowsAsTheyWere, Kept
  <1>3. CASE \E res \in WriteResults : UpdateStatus(Recorded, res)
    <2>1. /\ StoreTyped(R)
          /\ \/ Kept
             \/ /\ NewVersion /\ Current(Recorded)
                /\ api'.rows = api.rows /\ api'.phase = Recorded.phase
      BY <1>1, <1>3, UpdateStatusEffect
    <2>2. Current(Recorded) => Current(cfg)
      BY <1>1 DEF Current
    <2> QED BY <1>1, <2>1, <2>2 DEF RecordError, WorkerTypeOK, StoreTyped, RowsAsTheyWere
  <1> QED BY <1>2, <1>3 DEF RecordError

LEMMA BeginStep ==
  ASSUME NEW R, WorkerTypeOK(R), Begin
  PROVE  /\ WorkerTypeOK(R)' /\ RowsAsTheyWere
         /\ pc' = IF cache.phase = "importing" THEN "import" ELSE "read"
  BY DEF Begin, WorkerTypeOK, RowsAsTheyWere, Kept

LEMMA EndStep ==
  ASSUME NEW R, WorkerTypeOK(R), End
  PROVE  WorkerTypeOK(R)' /\ RowsAsTheyWere /\ pc' = "idle"
  BY EmptyObject DEF End, WorkerTypeOK, RowsAsTheyWere, Kept, Messages

\* A step that leaves the store alone, and the object unless it returns nil.
LEMMA QuietStep ==
  ASSUME NEW R, WorkerTypeOK(R), UNCHANGED <<storeVars, edits>>, cfg' \in {cfg, Empty},
         err' \in Messages, UNCHANGED faults \/ CallFails
  PROVE  WorkerTypeOK(R)' /\ RowsAsTheyWere
  BY EmptyObject, BoundsAssumption DEF storeVars, CallFails, WorkerTypeOK, RowsAsTheyWere, Kept

-----------------------------------------------------------------------------
(* The steps of the others.                                                *)

LEMMA DeliverStep ==
  ASSUME NEW R, WorkerTypeOK(R), Deliver, UNCHANGED <<cfg, err>>
  PROVE  /\ WorkerTypeOK(R)' /\ watch # <<>> /\ api' = api /\ cfg' = cfg
         /\ cache' = watch[1] /\ watch' = Tail(watch)
  BY DEF Deliver, WorkerTypeOK

LEMMA CrashStep ==
  ASSUME NEW R, WorkerTypeOK(R), Crash
  PROVE  /\ WorkerTypeOK(R)' /\ api' = api /\ cache' = api /\ watch' = <<>> /\ cfg' = Empty
         /\ pc' = "idle"
  BY EmptyObject, BoundsAssumption DEF Crash, WorkerTypeOK, Messages

\* Users store other rows.
LEMMA RowsStep ==
  ASSUME NEW R, WorkerTypeOK(R), NEW rows \in Seq(R),
         Publish([api EXCEPT !.rows = rows]), edits > 0, edits' = edits - 1,
         UNCHANGED <<cache, queued, faults, workerVars>>
  PROVE  /\ WorkerTypeOK(R)' /\ NewVersion /\ api'.rows = rows /\ api'.phase = api.phase
         /\ cache' = cache /\ cfg' = cfg
  <1> DEFINE new == [api EXCEPT !.rows = rows]
  <1>1. new \in Objects(R) /\ new.rows = rows /\ new.phase = api.phase
    BY ObjectUpdates DEF WorkerTypeOK, Objects
  <1> HIDE DEF new
  <1>2. Stores(new)
    BY <1>1, PublishStores DEF new
  <1>3. /\ api' \in Objects(R) /\ watch' \in Seq(Objects(R)) /\ NewVersion
        /\ api'.rows = rows /\ api'.phase = api.phase
    BY <1>1, <1>2, StoresTypes DEF WorkerTypeOK, NewVersion
  <1>4. edits' \in 0..MaxEdits
    BY BoundsAssumption DEF WorkerTypeOK
  <1> QED BY <1>3, <1>4 DEF WorkerTypeOK, workerVars

\* An id is put into the object of the handler, and in the cache's when it is the same.
LEMMA WriteInPlaceStep ==
  ASSUME NEW R, WorkerTypeOK(R), NEW rows \in Seq(R),
         WriteInPlace([cfg EXCEPT !.rows = rows]),
         UNCHANGED <<api, watch, queued, edits>>, faults' \in 0..MaxFaults, err' \in Messages
  PROVE  /\ WorkerTypeOK(R)' /\ cfg' = [cfg EXCEPT !.rows = rows]
         /\ cache' = IF cache.rv = cfg.rv THEN [cfg EXCEPT !.rows = rows] ELSE cache
  <1>1. [cfg EXCEPT !.rows = rows] \in Objects(R)
    BY ObjectUpdates DEF WorkerTypeOK
  <1> QED BY <1>1 DEF WriteInPlace, WorkerTypeOK

-----------------------------------------------------------------------------
(* A worker that rests.                                                    *)

\* No other reconcile is asked for.
Calm == ~queued /\ watch = <<>>

\* What is stored is in the cache, or on its way to it.
FreshInv == IF watch = <<>> THEN cache.rv = api.rv ELSE watch[Len(watch)].rv = api.rv

\* A step that leaves the version in the cache and takes no key from the queue.
Moves == (Kept \/ NewVersion) /\ cache'.rv = cache.rv /\ (queued => queued')

LEMMA MovesFresh ==
  ASSUME NEW R, WorkerTypeOK(R), FreshInv, Kept \/ NewVersion, cache'.rv = cache.rv
  PROVE  FreshInv'
  <1>1. CASE Kept
    BY <1>1 DEF Kept, FreshInv
  <1>2. CASE NewVersion
    <2>1. watch' = Append(watch, api') /\ watch \in Seq(Objects(R))
      BY <1>2 DEF NewVersion, WorkerTypeOK
    <2>2. watch' # <<>> /\ watch'[Len(watch')] = api'
      BY <2>1
    <2> QED BY <2>2 DEF FreshInv
  <1> QED BY <1>1, <1>2

LEMMA DeliverFresh ==
  ASSUME NEW R, WorkerTypeOK(R), FreshInv, Deliver
  PROVE  FreshInv'
  <1>1. watch # <<>> /\ cache' = Head(watch) /\ watch' = Tail(watch) /\ api' = api
    BY DEF Deliver
  <1>2. watch \in Seq(Objects(R)) /\ watch[Len(watch)].rv = api.rv
    BY <1>1 DEF WorkerTypeOK, FreshInv
  <1>3. CASE Len(watch) = 1
    <2>1. watch' = <<>> /\ cache' = watch[Len(watch)]
      BY <1>1, <1>2, <1>3
    <2> QED BY <1>1, <1>2, <2>1 DEF FreshInv
  <1>4. CASE Len(watch) # 1
    <2>1. /\ Len(watch) \in Nat /\ Len(watch) > 1 /\ Len(watch') = Len(watch) - 1
          /\ watch' \in Seq(Objects(R))
      <3> DEFINE T == Objects(R)
      <3>1. watch \in Seq(T) /\ watch # <<>> /\ watch' = Tail(watch)
        BY <1>1, <1>2
      <3> HIDE DEF T
      <3>2. Len(watch) \in Nat /\ Len(watch) # 0
        BY <3>1
      <3>3. watch' \in Seq(T) /\ Len(watch') = Len(watch) - 1
        BY <3>1, HeadTailProperties
      <3> QED BY <1>4, <3>2, <3>3 DEF T
    <2>2. \A i \in DOMAIN watch' : watch'[i] = watch[i + 1]
      BY <1>1, <1>2, TailElements
    <2>3. Len(watch') \in DOMAIN watch' /\ watch' # <<>>
      BY <2>1
    <2>4. watch'[Len(watch')] = watch[Len(watch)]
      BY <2>1, <2>2, <2>3
    <2> QED BY <1>1, <1>2, <2>3, <2>4 DEF FreshInv
  <1> QED BY <1>3, <1>4

LEMMA NewVersionComes ==
  ASSUME NEW R, WorkerTypeOK(R), NewVersion
  PROVE  ~Calm'
  <1>1. watch \in Seq(Objects(R)) /\ watch' = Append(watch, api')
    BY DEF WorkerTypeOK, NewVersion
  <1>2. watch' # <<>>
    BY <1>1
  <1> QED BY <1>2 DEF Calm

\* Every write makes an event: after a step that leaves the worker calm all is as it was.
LEMMA MovesCalm ==
  ASSUME NEW R, WorkerTypeOK(R), Moves, Calm'
  PROVE  Calm /\ api' = api /\ Kept
  <1>1. ~NewVersion
    BY NewVersionComes
  <1> QED BY <1>1 DEF Moves, Kept, Calm

LEMMA RowsAsTheyWereMoves ==
  ASSUME RowsAsTheyWere, queued => queued'
  PROVE  Moves
  BY DEF RowsAsTheyWere, Moves

LEMMA ReturnUpdateStatusCalm ==
  ASSUME NEW R, WorkerTypeOK(R), NEW obj \in Objects(R), ReturnUpdateStatus(obj),
         api' = api, api.phase # obj.phase
  PROVE  pc' = "record" /\ err' = "store"
  <1>1. PICK res \in WriteResults :
          /\ UpdateStatus(obj, res)
          /\ IF res = "ok" THEN Return(api', "none") ELSE Return(Empty, "store")
    BY DEF ReturnUpdateStatus
  <1>2. res # "ok"
    BY <1>1, UpdateStatusEffect
  <1> QED BY <1>1, <1>2 DEF Return
=============================================================================
