-------------------------- MODULE Lifecycle_proofs --------------------------
(***************************************************************************)
(* Proofs about Lifecycle: its type invariant, and that the objects a      *)
(* binding and its configs refer to exist as long as no admission check    *)
(* was made on a cache that was behind, for any targets, any edits and     *)
(* deletes, and any caches that lag.                                       *)
(***************************************************************************)
EXTENDS Lifecycle, TLAPS

----------------------------------------------------------------------------
(* What the API server holds *)

\* A delete pends only where a finalizer is left, and only of what is there.
Pends(v) == (v.del => v.fin) /\ (v.fin => v.live)

\* A config that exists has an owner besides.
Fit(c) == Pends(c) /\ (c.live => c.owner # 0)

Sound(new) ==
    new \in Stores /\ Pends(new.binding) /\ \A t \in Targets : Fit(new.cfg[t])

\* The type invariant does not say that a delete pends only where a finalizer is left;
\* without it a config that is not there could count as one that is being deleted.
Sane == TypeOK /\ Sound(api)

LEMMA NoneType ==
    /\ \A uid \in 1..MaxUid : NoBinding(uid) \in Bindings /\ Pends(NoBinding(uid))
    /\ NoConfig \in Configs /\ Fit(NoConfig)
BY LifecycleAssumption DEF NoBinding, NoConfig, Bindings, Configs, Pends, Fit

LEMMA UnreadType == Unread \in Bindings
<1>1. 1 \in 1..MaxUid
  BY LifecycleAssumption
<1> QED
  BY <1>1, NoneType DEF Unread

LEMMA NewType ==
    ASSUME NEW uid \in 1..MaxUid, NEW R \in SUBSET Targets, NEW rollout \in BOOLEAN
    PROVE  /\ NewBinding(uid, R, rollout) \in Bindings /\ Pends(NewBinding(uid, R, rollout))
           /\ NewConfig(uid) \in Configs /\ Fit(NewConfig(uid))
<1>1. uid \in 0..MaxUid /\ uid # 0
  BY LifecycleAssumption
<1>2. NewBinding(uid, R, rollout) \in Bindings /\ Pends(NewBinding(uid, R, rollout))
  BY DEF NewBinding, NoBinding, Bindings, Pends
<1>3. NewConfig(uid) \in Configs
  BY <1>1 DEF NewConfig, NoConfig, Configs
<1>4. Fit(NewConfig(uid))
  BY <1>1 DEF NewConfig, NoConfig, Pends, Fit
<1> QED
  BY <1>2, <1>3, <1>4

LEMMA DeletedType ==
    /\ \A v \in Bindings : Pends(v) => DeletedBinding(v) \in Bindings /\ Pends(DeletedBinding(v))
    /\ \A c \in Configs : Fit(c) => DeletedConfig(c) \in Configs /\ Fit(DeletedConfig(c))
<1>1. ASSUME NEW v \in Bindings, Pends(v)
      PROVE  DeletedBinding(v) \in Bindings /\ Pends(DeletedBinding(v))
  <2>1. v.uid \in 1..MaxUid
    BY DEF Bindings
  <2> QED
    BY <1>1, <2>1, NoneType DEF DeletedBinding, Bindings, Pends
<1>2. ASSUME NEW c \in Configs, Fit(c)
      PROVE  DeletedConfig(c) \in Configs /\ Fit(DeletedConfig(c))
  BY <1>2, NoneType DEF DeletedConfig, Configs, Pends, Fit
<1> QED
  BY <1>1, <1>2

LEMMA BindingSound ==
    ASSUME Sound(api), NEW v \in Bindings, Pends(v)
    PROVE  Sound([api EXCEPT !.binding = v])
BY DEF Sound, Stores

LEMMA ConfigSound ==
    ASSUME Sound(api), NEW t \in Targets, NEW c \in Configs, Fit(c)
    PROVE  Sound([api EXCEPT !.cfg[t] = c])
BY DEF Sound, Stores

LEMMA DeleteAllSound ==
    ASSUME Sound(api), NEW S \in SUBSET Targets PROVE Sound(DeleteAll(S))
<1>1. \A t \in Targets : api.cfg[t] \in Configs /\ Fit(api.cfg[t])
  BY DEF Sound, Stores
<1>2. \A t \in Targets : DeletedConfig(api.cfg[t]) \in Configs /\ Fit(DeletedConfig(api.cfg[t]))
  BY <1>1, DeletedType
<1> QED
  BY <1>1, <1>2 DEF DeleteAll, Sound, Stores

----------------------------------------------------------------------------
(* Types *)

\* Whatever reaches the API server sound leaves it and every cache of it sound.
LEMMA StoreType ==
    ASSUME TypeOK, NEW new, Sound(new), NEW queued, Store(new, queued)
    PROVE  api' = new /\ seen' \in Stores /\ bq' \in BOOLEAN
<1>1. new \in Stores /\ seen \in Stores
  BY DEF Sound, TypeOK
<1>2. Seen(new) \in Stores
  BY <1>1 DEF Seen, Kinds, Stores
<1> QED
  BY <1>2 DEF Store, Watch

LEMMA SlippedType ==
    ASSUME TypeOK, NEW new PROVE Slipped(new) \in SUBSET Targets
BY DEF TypeOK, Slipped, Gone

\* A step that stores something, and the little besides that it may change.
LEMMA StepType ==
    ASSUME TypeOK, NEW new, Sound(new), NEW queued, Store(new, queued),
           pc' \in {"idle", "render", "cleanup", "write", "stamped"}, b' \in Bindings,
           todo' \in SUBSET Targets, forged' \in BOOLEAN, slipped' \in SUBSET Targets,
           ops' \in 0..MaxOps
    PROVE  Sane'
<1>1. api' \in Stores /\ seen' \in Stores /\ bq' \in BOOLEAN
  BY StoreType DEF Sound
<1>2. Sound(api)'
  BY StoreType DEF Sound
<1>3. \A t \in Targets : (api.cfg[t].live => api.cfg[t].owner # 0)'
  BY <1>2 DEF Sound, Fit
<1> QED
  BY <1>1, <1>2, <1>3 DEF Sane, TypeOK

\* A step that stores nothing.
LEMMA IdleType ==
    ASSUME Sane, api' = api, seen' \in Stores, bq' \in BOOLEAN,
           pc' \in {"idle", "render", "cleanup", "write", "stamped"}, b' \in Bindings,
           todo' \in SUBSET Targets, forged' \in BOOLEAN, slipped' \in SUBSET Targets,
           ops' \in 0..MaxOps
    PROVE  Sane'
BY DEF Sane, TypeOK, Sound

LEMMA TypeInit == Init => Sane
<1> SUFFICES ASSUME Init PROVE Sane
  OBVIOUS
<1>1. PICK rollout \in Rollouts :
          api = [targets |-> Targets, sources |-> Sources,
                 binding |-> NewBinding(1, Targets, rollout),
                 cfg |-> [t \in Targets |-> NoConfig]]
  BY DEF Init
<1>2. Sound(api) /\ api \in Stores /\ \A t \in Targets : ~api.cfg[t].live
  <2>1. 1 \in 1..MaxUid /\ rollout \in BOOLEAN
    BY LifecycleAssumption
  <2>2. NewBinding(1, Targets, rollout) \in Bindings /\ Pends(NewBinding(1, Targets, rollout))
    BY <2>1, NewType
  <2>3. ~NoConfig.live
    BY DEF NoConfig
  <2> QED
    BY <1>1, <2>2, <2>3, NoneType DEF Stores, Sound
<1>3. /\ seen = api /\ b = Unread
      /\ bq = TRUE /\ pc = "idle" /\ todo = {}
      /\ forged = FALSE /\ slipped = {} /\ ops = 0
  BY <1>2 DEF Init, Stores
<1>4. ops \in 0..MaxOps /\ todo \subseteq Targets /\ slipped \subseteq Targets
  BY <1>3, LifecycleAssumption
<1>5. seen \in Stores /\ b \in Bindings /\ bq \in BOOLEAN /\ forged \in BOOLEAN
  BY <1>2, <1>3, UnreadType
<1> QED
  BY <1>2, <1>3, <1>4, <1>5 DEF Sane, TypeOK

LEMMA TypeBindingFinalizer == Sane /\ ReconcileFinalizer => Sane'
<1> SUFFICES ASSUME Sane, ReconcileFinalizer PROVE Sane'
  OBVIOUS
<1> DEFINE v == seen.binding
           w == IF v.del THEN NoBinding(v.uid) ELSE [v EXCEPT !.fin = TRUE]
<1>1. v = api.binding /\ v.live
  BY DEF ReconcileFinalizer
<1>2. v \in Bindings /\ v.uid \in 1..MaxUid
  BY DEF Sane, TypeOK, Stores, Bindings
<1>3. w \in Bindings /\ Pends(w)
  BY <1>1, <1>2, NoneType DEF Bindings, Pends
<1>4. Sound([api EXCEPT !.binding = w])
  BY <1>3, BindingSound DEF Sane
<1>5. /\ Store([api EXCEPT !.binding = w], ~v.del) /\ slipped' \in SUBSET Targets
      /\ forged' \in BOOLEAN /\ UNCHANGED <<local, ops>>
  BY SlippedType DEF ReconcileFinalizer, Put, Admits, Sane
<1> QED
  BY <1>4, <1>5, StepType DEF Sane, TypeOK, local

\* Wherever a reconcile ends without a write.
LEMMA TypeLeave ==
    ASSUME Sane, NEW again, Leave(again), UNCHANGED <<api, seen, forged, slipped, ops>>
    PROVE  Sane'
BY UnreadType, IdleType DEF Leave, Sane, TypeOK

LEMMA TypeReads == Sane /\ (Reconcile \/ renderAll \/ RolloutWaits \/ Done) => Sane'
<1> SUFFICES ASSUME Sane, Reconcile \/ renderAll \/ RolloutWaits \/ Done PROVE Sane'
  OBVIOUS
<1>1. CASE Reconcile
  <2>1. b' \in Bindings
    BY <1>1 DEF Reconcile, Sane, TypeOK, Stores
  <2>2. /\ pc' \in {"idle", "render"} /\ bq' = FALSE
        /\ UNCHANGED <<api, seen, todo, forged, slipped, ops>>
    BY <1>1 DEF Reconcile
  <2> QED
    BY <2>1, <2>2, IdleType DEF Sane, TypeOK
<1>2. CASE renderAll
  <2>1. CASE Leave(TRUE)
    BY <1>2, <2>1, TypeLeave DEF renderAll
  <2>2. CASE pc' = "cleanup" /\ UNCHANGED <<b, todo, bq>>
    BY <1>2, <2>2, IdleType DEF renderAll, Sane, TypeOK
  <2> QED
    BY <1>2, <2>1, <2>2 DEF renderAll
<1>3. CASE RolloutWaits \/ Done
  BY <1>3, TypeLeave DEF RolloutWaits, Done
<1> QED
  BY <1>1, <1>2, <1>3

LEMMA TypeCleanup == Sane /\ cleanupOrphans => Sane'
<1> SUFFICES ASSUME Sane, cleanupOrphans PROVE Sane'
  OBVIOUS
<1>1. b.refs \in SUBSET Targets
  BY DEF Sane, TypeOK, Bindings
<1>2. PICK S \in SUBSET Targets, queued \in {bq, TRUE} : Store(DeleteAll(S), queued)
  BY DEF cleanupOrphans, Orphans
<1>3. Sound(DeleteAll(S))
  BY DeleteAllSound DEF Sane
<1>4. slipped' \in SUBSET Targets
  <2>1. slipped' = Slipped(api') \cup Unlisted
    BY DEF cleanupOrphans
  <2> QED
    BY <2>1, SlippedType DEF Unlisted, Sane
<1>5. /\ pc' \in {"idle", "write"} /\ todo' \in SUBSET Targets /\ b' \in {b, Unread}
      /\ UNCHANGED <<forged, ops>>
  BY <1>1 DEF cleanupOrphans
<1> QED
  BY <1>2, <1>3, <1>4, <1>5, UnreadType, StepType DEF Sane, TypeOK

LEMMA TypeStamp ==
    ASSUME Sane, NEW t \in Targets, stampRolloutFrontier(t) PROVE Sane'
<1> DEFINE v == [api.binding EXCEPT !.frontier = IF b.frontier = {t} THEN @ ELSE {t}]
<1>1. CASE api.binding.live
  <2>1. v \in Bindings /\ Pends(v)
    BY DEF Sane, Sound, Stores, Bindings, Pends
  <2>2. Sound([api EXCEPT !.binding = v])
    BY <2>1, BindingSound DEF Sane
  <2>3. /\ Store([api EXCEPT !.binding = v], bq) /\ slipped' \in SUBSET Targets
        /\ b' = v /\ pc' = "stamped" /\ todo' = {t} /\ UNCHANGED <<forged, ops>>
    BY <1>1, SlippedType DEF stampRolloutFrontier, Put, Sane
  <2> QED
    BY <2>1, <2>2, <2>3, StepType DEF Sane, TypeOK
<1>2. CASE ~api.binding.live
  BY <1>2, TypeLeave DEF stampRolloutFrontier
<1> QED
  BY <1>1, <1>2

LEMMA WriteSound ==
    ASSUME Sane, NEW t \in Targets, createOrUpdateOne(t)
    PROVE  /\ Sound([api EXCEPT !.cfg[t] = AfterWrite(t)])
           /\ AfterWrite(t) \in Configs /\ Fit(AfterWrite(t))
           /\ AfterWrite(t).del => api.cfg[t].del
           /\ AfterWrite(t).live /\ ~AfterWrite(t).del => ~api.cfg[t].del
<1>1. /\ b.uid \in 1..MaxUid /\ api.cfg[t] \in Configs
      /\ Fit(api.cfg[t]) /\ Pends(api.cfg[t])
  BY DEF Sane, TypeOK, Bindings, Stores, Sound, Fit
<1>2. CASE Creates(t)
  <2>1. AfterWrite(t) = NewConfig(b.uid) /\ ~api.cfg[t].live
    BY <1>2 DEF createOrUpdateOne, AfterWrite, Accepted
  <2>2. AfterWrite(t) \in Configs /\ Fit(AfterWrite(t)) /\ ~AfterWrite(t).del
    <3>1. ~NewConfig(b.uid).del
      BY DEF NewConfig, NoConfig
    <3> QED
      BY <1>1, <2>1, <3>1, NewType
  <2> QED
    BY <1>1, <2>1, <2>2, ConfigSound DEF Pends, Sane
<1>3. CASE ~Creates(t)
  <2>1. AfterWrite(t) = [api.cfg[t] EXCEPT !.owner = b.uid]
    BY <1>3 DEF AfterWrite
  <2>2. /\ AfterWrite(t) \in Configs /\ Fit(AfterWrite(t))
        /\ AfterWrite(t).del = api.cfg[t].del
    BY <1>1, <2>1 DEF Configs, Pends, Fit
  <2> QED
    BY <2>2, ConfigSound DEF Sane
<1> QED
  BY <1>2, <1>3

LEMMA WriteOnType ==
    ASSUME TypeOK, NEW t \in Targets, WriteOn(t)
    PROVE  /\ pc' \in {"idle", "render", "cleanup", "write", "stamped"} /\ b' \in Bindings
           /\ todo' \in SUBSET Targets /\ ops' \in 0..MaxOps
BY UnreadType DEF TypeOK, WriteOn, StillToWrite

LEMMA TypeWrite ==
    ASSUME Sane, NEW t \in Targets, createOrUpdateOne(t) PROVE Sane'
<1>1. /\ Store([api EXCEPT !.cfg[t] = AfterWrite(t)], bq \/ pc = "stamped")
      /\ slipped' \in SUBSET Targets /\ forged' \in BOOLEAN
  BY SlippedType DEF createOrUpdateOne, Put, Sane, TypeOK
<1>2. WriteOn(t)
  BY DEF createOrUpdateOne
<1> QED
  BY <1>1, <1>2, WriteSound, WriteOnType, StepType DEF Sane

LEMMA TypeNoWrite ==
    ASSUME Sane, NEW t \in Targets, WriteRefused(t) \/ InPlace(t) PROVE Sane'
<1>1. CASE WriteRefused(t)
  BY <1>1, TypeLeave DEF WriteRefused
<1>2. CASE InPlace(t)
  <2>1. /\ WriteOn(t) /\ bq' \in BOOLEAN /\ slipped' \in SUBSET Targets
        /\ UNCHANGED <<api, seen, forged>>
    BY <1>2 DEF InPlace, Sane, TypeOK
  <2> QED
    BY <2>1, WriteOnType, IdleType DEF Sane, TypeOK
<1> QED
  BY <1>1, <1>2

LEMMA TypeConfigFinalizer ==
    ASSUME Sane, NEW t \in Targets, ConfigFinalizer(t) PROVE Sane'
<1> DEFINE c == seen.cfg[t]
           d == IF c.del THEN NoConfig ELSE [c EXCEPT !.fin = TRUE]
<1>1. c.live /\ c = api.cfg[t] /\ c \in Configs /\ Fit(c)
  BY DEF ConfigFinalizer, Sane, Sound, Stores
<1>2. d \in Configs /\ Fit(d)
  BY <1>1, NoneType DEF Configs, Pends, Fit
<1>3. Sound([api EXCEPT !.cfg[t] = d])
  BY <1>2, ConfigSound DEF Sane
<1>4. /\ Store([api EXCEPT !.cfg[t] = d], bq) /\ UNCHANGED <<local, ops>>
      /\ slipped' \in SUBSET Targets /\ forged' \in BOOLEAN
  BY SlippedType DEF ConfigFinalizer, Put, Admits, Sane
<1> QED
  BY <1>3, <1>4, StepType DEF Sane, TypeOK, local

LEMMA TypeSync ==
    ASSUME Sane, NEW kind \in Kinds, Sync(kind) PROVE Sane'
<1> DEFINE view == [seen EXCEPT ![kind] = api[kind]]
<1>1. view \in Stores
  BY DEF Sane, TypeOK, Kinds, Stores
<1>2. Watch(view, bq) /\ UNCHANGED <<api, local, forged, slipped, ops>>
  BY DEF Sync
<1>3. seen' \in Stores /\ bq' \in BOOLEAN
  BY <1>1, <1>2 DEF Watch
<1> QED
  BY <1>2, <1>3, IdleType DEF Sane, TypeOK, local

LEMMA TypeRestart == Sane /\ OperatorRestart => Sane'
<1> SUFFICES ASSUME Sane, OperatorRestart PROVE Sane'
  OBVIOUS
<1>1. ops' \in 0..MaxOps
  BY LifecycleAssumption DEF OperatorRestart, Sane, TypeOK
<1> QED
  BY <1>1, UnreadType, IdleType DEF Sane, TypeOK, OperatorRestart

LEMMA TypeCollect ==
    ASSUME Sane, NEW t \in Targets, Collect(t) PROVE Sane'
<1>1. api.cfg[t] \in Configs /\ Fit(api.cfg[t])
  BY DEF Sane, Sound, Stores
<1>2. Sound([api EXCEPT !.cfg[t] = DeletedConfig(api.cfg[t])])
  BY <1>1, DeletedType, ConfigSound DEF Sane
<1>3. /\ Store([api EXCEPT !.cfg[t] = DeletedConfig(api.cfg[t])], bq)
      /\ slipped' \in SUBSET Targets /\ UNCHANGED <<local, forged, ops>>
  BY SlippedType DEF Collect, Put, Store, Sane
<1> QED
  BY <1>2, <1>3, StepType DEF Sane, TypeOK, local

LEMMA TypeUser ==
    ASSUME Sane, NEW new, Sound(new), NEW bySeen, NEW byApi, User(new, bySeen, byApi)
    PROVE  Sane'
<1>1. Store(new, bq) /\ slipped' \in SUBSET Targets
  BY SlippedType DEF User, Put, Sane
<1>2. ops' \in 0..MaxOps
  BY LifecycleAssumption DEF User, Sane, TypeOK
<1>3. forged' \in BOOLEAN /\ UNCHANGED local
  BY DEF User, Admits
<1> QED
  BY <1>1, <1>2, <1>3, StepType DEF Sane, TypeOK, local

\* Every request of a user names sound objects.
LEMMA TypeUsers == Sane /\ Users => Sane'
<1> SUFFICES ASSUME Sane, Users PROVE Sane'
  OBVIOUS
<1> DEFINE v == api.binding
<1>1. /\ v \in Bindings /\ Pends(v) /\ v.uid \in 1..MaxUid /\ Sound(api)
      /\ \A t \in Targets : api.cfg[t] \in Configs /\ Fit(api.cfg[t])
  BY DEF Sane, Sound, Stores, Bindings
<1>2. ASSUME NEW R \in SUBSET Targets, WriteBinding(R) PROVE Sane'
  <2>1. CASE ~v.live
    <3>1. PICK rollout \in Rollouts :
              User([api EXCEPT !.binding = NewBinding(v.uid + 1, R, rollout)],
                   validateBinding(seen, R), validateBinding(api, R))
      BY <1>2, <2>1 DEF WriteBinding
    <3>2. v.uid + 1 \in 1..MaxUid /\ rollout \in BOOLEAN
      BY <1>1, <1>2, <2>1, LifecycleAssumption DEF WriteBinding
    <3>3. NewBinding(v.uid + 1, R, rollout) \in Bindings
          /\ Pends(NewBinding(v.uid + 1, R, rollout))
      BY <3>2, NewType
    <3> QED
      BY <1>1, <3>1, <3>3, BindingSound, TypeUser
  <2>2. CASE v.live
    <3>1. User([api EXCEPT !.binding.refs = R],
               ValidateUpdate(v, validateBinding(seen, R)),
               ValidateUpdate(v, validateBinding(api, R)))
      BY <1>2, <2>2 DEF WriteBinding
    <3>2. [v EXCEPT !.refs = R] \in Bindings /\ Pends([v EXCEPT !.refs = R])
      BY <1>1 DEF Bindings, Pends
    <3>3. Sound([api EXCEPT !.binding = [v EXCEPT !.refs = R]])
      BY <1>1, <3>2, BindingSound
    <3> QED
      BY <3>1, <3>3, TypeUser
  <2> QED
    BY <2>1, <2>2
<1>3. CASE DeleteBinding
  <2>1. Sound([api EXCEPT !.binding = DeletedBinding(v)])
    BY <1>1, DeletedType, BindingSound
  <2> QED
    BY <1>3, <2>1, TypeUser DEF DeleteBinding
<1>4. ASSUME NEW t \in Targets, DeleteConfig(t) PROVE Sane'
  <2>1. Sound([api EXCEPT !.cfg[t] = DeletedConfig(api.cfg[t])])
    BY <1>1, DeletedType, ConfigSound
  <2> QED
    BY <1>4, <2>1, TypeUser DEF DeleteConfig
<1>5. ASSUME NEW targets \in SUBSET Targets, NEW sources \in SUBSET Sources
      PROVE  Sound([api EXCEPT !.targets = targets, !.sources = sources])
  BY <1>1 DEF Sound, Stores
<1>6. ASSUME NEW t \in Targets, DeleteTarget(t) PROVE Sane'
  <2>1. Sound([api EXCEPT !.targets = @ \ {t}])
    BY <1>1 DEF Sound, Stores
  <2> QED
    BY <1>6, <2>1, TypeUser DEF DeleteTarget
<1>7. ASSUME DeleteParams \/ DeleteTemplate PROVE Sane'
  <2>1. \A x : Sound([api EXCEPT !.sources = @ \ {x}])
    BY <1>1 DEF Sound, Stores
  <2> QED
    BY <1>7, <2>1, TypeUser DEF DeleteParams, DeleteTemplate
<1>8. CASE Restore
  BY <1>5, <1>8, TypeUser DEF Restore
<1> QED
  BY <1>2, <1>3, <1>4, <1>6, <1>7, <1>8 DEF Users

LEMMA TypeStep == Sane /\ [Next]_vars => Sane'
<1> SUFFICES ASSUME Sane, [Next]_vars PROVE Sane'
  OBVIOUS
<1>1. CASE BindingController
  BY <1>1, TypeBindingFinalizer, TypeReads, TypeCleanup, TypeStamp, TypeWrite,
     TypeNoWrite
     DEF BindingController
<1>2. CASE UNCHANGED vars
  BY <1>2 DEF Sane, Sound, TypeOK, vars, local
<1>3. CASE Users
  BY <1>3, TypeUsers
<1> QED
  BY <1>1, <1>2, <1>3, TypeRestart, TypeConfigFinalizer, TypeCollect, TypeSync DEF Next

\* The types hold in every reachable state, for any targets and any lagging caches.
THEOREM TypeCorrect == Spec => []TypeOK
<1>1. Sane => TypeOK
  BY DEF Sane
<1> QED
  BY <1>1, TypeInit, TypeStep, PTL DEF Spec

----------------------------------------------------------------------------
(* References.  The invariant is the property itself: what admission let   *)
(* through of the stored objects keeps it, and what it did not see of them *)
(* makes it vacuous.                                                       *)

\* What RefsExist says of the stored objects, said of any others.
Backed(new) ==
    /\ (new.binding.live /\ ~new.binding.del)
           => new.binding.refs \subseteq new.targets /\ "params" \in new.sources
    /\ \A t \in Targets : (new.cfg[t].live /\ ~new.cfg[t].del) => t \in new.targets

LEMMA RefsBacked == RefsExist <=> (~forged => Backed(api))
BY DEF RefsExist, Backed

LEMMA RefsInit == Init => RefsExist
<1> SUFFICES ASSUME Init PROVE RefsExist
  OBVIOUS
<1>1. PICK rollout \in Rollouts :
          api = [targets |-> Targets, sources |-> Sources,
                 binding |-> NewBinding(1, Targets, rollout),
                 cfg |-> [t \in Targets |-> NoConfig]]
  BY DEF Init
<1>2. NewBinding(1, Targets, rollout).refs = Targets
  BY DEF NewBinding, NoBinding
<1>3. api.binding.refs \subseteq api.targets /\ "params" \in api.sources
  BY <1>1, <1>2 DEF Sources
<1>4. \A t \in Targets : ~api.cfg[t].live
  BY <1>1 DEF NoConfig
<1> QED
  BY <1>3, <1>4 DEF RefsExist

\* A step that is not forged stores what is backed.
LEMMA RefsStep ==
    ASSUME RefsExist, ~forged' => ~forged, ~forged' /\ Backed(api) => Backed(api')
    PROVE  RefsExist'
<1>1. RefsExist' <=> (~forged' => Backed(api'))
  BY DEF RefsExist, Backed
<1> QED
  BY <1>1, RefsBacked

\* A delete, pending or done, drops a reference.
LEMMA DropsReference ==
    ASSUME TypeOK
    PROVE  /\ DeletedBinding(api.binding).live => DeletedBinding(api.binding).del
           /\ \A t \in Targets : DeletedConfig(api.cfg[t]).live => DeletedConfig(api.cfg[t]).del
<1>1. api.binding \in Bindings /\ \A t \in Targets : api.cfg[t] \in Configs
  BY DEF TypeOK, Stores
<1> QED
  BY <1>1 DEF DeletedBinding, DeletedConfig, NoBinding, NoConfig, Bindings, Configs

\* Replacing the binding, or a config, by one that needs no more than it did.
LEMMA BindingBacked ==
    ASSUME TypeOK, NEW v, v.live /\ ~v.del => v.refs \subseteq api.targets /\ "params" \in api.sources,
           Backed(api)
    PROVE  Backed([api EXCEPT !.binding = v])
<1>1. api \in Stores
  BY DEF TypeOK
<1> DEFINE new == [api EXCEPT !.binding = v]
<1>2. new.binding = v /\ new.targets = api.targets /\ new.sources = api.sources
      /\ new.cfg = api.cfg
  BY <1>1 DEF Stores
<1> QED
  BY <1>2 DEF Backed

LEMMA ConfigBacked ==
    ASSUME TypeOK, NEW t \in Targets, NEW c, c.live /\ ~c.del => t \in api.targets, Backed(api)
    PROVE  Backed([api EXCEPT !.cfg[t] = c])
<1>1. api \in Stores
  BY DEF TypeOK
<1> DEFINE new == [api EXCEPT !.cfg[t] = c]
<1>2. /\ new.binding = api.binding /\ new.targets = api.targets /\ new.sources = api.sources
      /\ new.cfg[t] = c /\ \A u \in Targets \ {t} : new.cfg[u] = api.cfg[u]
  BY <1>1 DEF Stores
<1> QED
  BY <1>2 DEF Backed

LEMMA RefsQuiet ==
    ASSUME RefsExist, UNCHANGED <<api, forged>> PROVE RefsExist'
BY DEF RefsExist

LEMMA RefsBindingFinalizer == TypeOK /\ RefsExist /\ ReconcileFinalizer => RefsExist'
<1> SUFFICES ASSUME TypeOK, RefsExist, ReconcileFinalizer PROVE RefsExist'
  OBVIOUS
<1> DEFINE v == seen.binding
           w == IF v.del THEN NoBinding(v.uid) ELSE [v EXCEPT !.fin = TRUE]
<1>1. v = api.binding /\ api.binding \in Bindings
  BY DEF ReconcileFinalizer, TypeOK, Stores
<1>2. api' = [api EXCEPT !.binding = w]
  BY DEF ReconcileFinalizer, Put, Store
<1>3. ~forged' => ~forged
  BY DEF ReconcileFinalizer, Admits
<1>4. w.live /\ ~w.del => v.live /\ ~v.del /\ w.refs = v.refs
  BY <1>1 DEF NoBinding, Bindings
<1>5. Backed(api) => Backed(api')
  <2> SUFFICES ASSUME Backed(api) PROVE Backed(api')
    OBVIOUS
  <2>1. w.live /\ ~w.del => w.refs \subseteq api.targets /\ "params" \in api.sources
    BY <1>1, <1>4 DEF Backed
  <2> HIDE DEF w
  <2> QED
    BY <1>2, <2>1, BindingBacked
<1> QED
  BY <1>3, <1>5, RefsStep

LEMMA RefsCleanup == TypeOK /\ RefsExist /\ cleanupOrphans => RefsExist'
<1> SUFFICES ASSUME TypeOK, RefsExist, cleanupOrphans PROVE RefsExist'
  OBVIOUS
<1>1. PICK S \in SUBSET Targets : api' = DeleteAll(S)
  BY DEF cleanupOrphans, Orphans, Store
<1>2. /\ api'.binding = api.binding /\ api'.targets = api.targets
      /\ api'.sources = api.sources
      /\ \A t \in Targets : api'.cfg[t] = IF t \in S THEN DeletedConfig(api.cfg[t])
                                          ELSE api.cfg[t]
  BY <1>1 DEF DeleteAll, TypeOK, Stores
<1>3. Backed(api) => Backed(api')
  BY <1>2, DropsReference DEF Backed
<1>4. forged' = forged
  BY DEF cleanupOrphans
<1> QED
  BY <1>3, <1>4, RefsStep

\* A stamp changes no reference.
LEMMA RefsStamp ==
    ASSUME TypeOK, RefsExist, NEW t \in Targets, stampRolloutFrontier(t) PROVE RefsExist'
<1> DEFINE v == [api.binding EXCEPT !.frontier = IF b.frontier = {t} THEN @ ELSE {t}]
<1>1. CASE ~api.binding.live
  BY <1>1, RefsQuiet DEF stampRolloutFrontier
<1>2. CASE api.binding.live
  <2>1. api' = [api EXCEPT !.binding = v] /\ forged' = forged
    BY <1>2 DEF stampRolloutFrontier, Put, Store
  <2>2. v.live = api.binding.live /\ v.del = api.binding.del /\ v.refs = api.binding.refs
    BY DEF TypeOK, Stores, Bindings
  <2> HIDE DEF v
  <2>3. Backed(api) => Backed(api')
    <3> SUFFICES ASSUME Backed(api) PROVE Backed(api')
      OBVIOUS
    <3>1. v.live /\ ~v.del => v.refs \subseteq api.targets /\ "params" \in api.sources
      BY <2>2 DEF Backed
    <3> QED
      BY <2>1, <3>1, BindingBacked
  <2> QED
    BY <2>1, <2>3, RefsStep
<1> QED
  BY <1>1, <1>2

\* A config that is written not being deleted was admitted with its target there.
LEMMA RefsWrite ==
    ASSUME Sane, RefsExist, NEW t \in Targets, createOrUpdateOne(t) PROVE RefsExist'
<1>1. api' = [api EXCEPT !.cfg[t] = AfterWrite(t)]
  BY DEF createOrUpdateOne, Put, Store
<1>2. forged' = (forged \/ ~ValidateUpdate(api.cfg[t], validateVRouterConfig(api, t)))
  BY DEF createOrUpdateOne
<1>3. AfterWrite(t).live /\ ~AfterWrite(t).del => ~api.cfg[t].del
  BY WriteSound
<1>4. ~forged' /\ Backed(api) => Backed(api')
  BY <1>1, <1>2, <1>3, ConfigBacked DEF ValidateUpdate, validateVRouterConfig, Sane
<1> QED
  BY <1>2, <1>4, RefsStep

LEMMA RefsConfigFinalizer ==
    ASSUME TypeOK, RefsExist, NEW t \in Targets, ConfigFinalizer(t) PROVE RefsExist'
<1> DEFINE c == seen.cfg[t]
           d == IF c.del THEN NoConfig ELSE [c EXCEPT !.fin = TRUE]
<1>1. c = api.cfg[t] /\ c \in Configs
  BY DEF ConfigFinalizer, TypeOK, Stores
<1>2. api' = [api EXCEPT !.cfg[t] = d] /\ (~forged' => ~forged)
  BY DEF ConfigFinalizer, Put, Store, Admits
<1>3. d.live /\ ~d.del => c.live /\ ~c.del
  BY <1>1 DEF NoConfig, Configs
<1>4. Backed(api) => Backed(api')
  <2> SUFFICES ASSUME Backed(api) PROVE Backed(api')
    OBVIOUS
  <2>1. d.live /\ ~d.del => t \in api.targets
    BY <1>1, <1>3 DEF Backed
  <2> HIDE DEF d
  <2> QED
    BY <1>2, <2>1, ConfigBacked
<1> QED
  BY <1>2, <1>4, RefsStep

LEMMA RefsCollect ==
    ASSUME TypeOK, RefsExist, NEW t \in Targets, Collect(t) PROVE RefsExist'
<1>1. api' = [api EXCEPT !.cfg[t] = DeletedConfig(api.cfg[t])] /\ forged' = forged
  BY DEF Collect, Put, Store
<1>2. Backed(api) => Backed(api')
  BY <1>1, DropsReference, ConfigBacked
<1> QED
  BY <1>1, <1>2, RefsStep

LEMMA RefsUser ==
    ASSUME RefsExist, NEW new, NEW bySeen, NEW byApi, User(new, bySeen, byApi),
           byApi /\ Backed(api) => Backed(new)
    PROVE  RefsExist'
<1>1. api' = new /\ forged' = (forged \/ ~byApi)
  BY DEF User, Admits, Put, Store
<1> QED
  BY <1>1, RefsStep

LEMMA RefsUsers == TypeOK /\ RefsExist /\ Users => RefsExist'
<1> SUFFICES ASSUME TypeOK, RefsExist, Users PROVE RefsExist'
  OBVIOUS
<1> DEFINE v == api.binding
<1>1. api \in Stores /\ v \in Bindings
  BY DEF TypeOK, Stores
<1>2. ASSUME NEW R \in SUBSET Targets, WriteBinding(R) PROVE RefsExist'
  <2>1. CASE ~v.live
    <3>1. PICK rollout \in Rollouts :
              User([api EXCEPT !.binding = NewBinding(v.uid + 1, R, rollout)],
                   validateBinding(seen, R), validateBinding(api, R))
      BY <1>2, <2>1 DEF WriteBinding
    <3> DEFINE w == NewBinding(v.uid + 1, R, rollout)
    <3>2. w.refs = R
      BY DEF NewBinding, NoBinding
    <3>3. validateBinding(api, R) => R \subseteq api.targets /\ "params" \in api.sources
      BY DEF validateBinding, Sources
    <3> HIDE DEF w
    <3>4. validateBinding(api, R) /\ Backed(api) => Backed([api EXCEPT !.binding = w])
      BY <3>2, <3>3, BindingBacked
    <3> QED
      BY <3>1, <3>4, RefsUser DEF w
  <2>2. CASE v.live
    <3> DEFINE w == [v EXCEPT !.refs = R]
    <3>1. User([api EXCEPT !.binding = w], ValidateUpdate(v, validateBinding(seen, R)),
               ValidateUpdate(v, validateBinding(api, R)))
      BY <1>2, <2>2 DEF WriteBinding
    <3>2. w.refs = R /\ w.del = v.del
      BY <1>1 DEF Bindings
    <3>3. validateBinding(api, R) => R \subseteq api.targets /\ "params" \in api.sources
      BY DEF validateBinding, Sources
    <3> HIDE DEF w
    <3>4. ValidateUpdate(v, validateBinding(api, R)) /\ Backed(api)
              => Backed([api EXCEPT !.binding = w])
      BY <3>2, <3>3, BindingBacked DEF ValidateUpdate
    <3> QED
      BY <3>1, <3>4, RefsUser
  <2> QED
    BY <2>1, <2>2
<1>3. CASE DeleteBinding
  <2>1. Backed(api) => Backed([api EXCEPT !.binding = DeletedBinding(v)])
    BY DropsReference, BindingBacked
  <2> QED
    BY <1>3, <2>1, RefsUser DEF DeleteBinding
<1>4. ASSUME NEW t \in Targets, DeleteConfig(t) PROVE RefsExist'
  <2>1. Backed(api) => Backed([api EXCEPT !.cfg[t] = DeletedConfig(api.cfg[t])])
    BY DropsReference, ConfigBacked
  <2> QED
    BY <1>4, <2>1, RefsUser DEF DeleteConfig
<1>5. ASSUME NEW t \in Targets, DeleteTarget(t) PROVE RefsExist'
  <2> DEFINE new == [api EXCEPT !.targets = @ \ {t}]
  <2>1. /\ new.binding = api.binding /\ new.sources = api.sources
        /\ new.cfg = api.cfg /\ new.targets = api.targets \ {t}
    BY <1>1 DEF Stores
  <2>2. checkTargetNotReferenced(api, t) /\ Backed(api) => Backed(new)
    BY <2>1 DEF checkTargetNotReferenced, Backed
  <2> HIDE DEF new
  <2> QED
    BY <1>5, <2>2, RefsUser DEF DeleteTarget, new
<1>6. ASSUME NEW x, x = "params" \/ x = "template"
      PROVE  LET new == [api EXCEPT !.sources = @ \ {x}]
             IN (x = "params" => ~v.live) /\ Backed(api) => Backed(new)
  <2> DEFINE new == [api EXCEPT !.sources = @ \ {x}]
  <2>1. /\ new.binding = api.binding /\ new.sources = api.sources \ {x}
        /\ new.cfg = api.cfg /\ new.targets = api.targets
    BY <1>1 DEF Stores
  <2> QED
    BY <1>6, <2>1 DEF Backed
<1>7. CASE DeleteParams
  BY <1>6, <1>7, RefsUser DEF DeleteParams, checkParamsNotReferenced
<1>8. CASE DeleteTemplate
  BY <1>6, <1>8, RefsUser DEF DeleteTemplate
<1>9. CASE Restore
  <2> DEFINE new == [api EXCEPT !.targets = Targets, !.sources = Sources]
  <2>1. /\ new.binding = api.binding /\ new.sources = Sources
        /\ new.cfg = api.cfg /\ new.targets = Targets
    BY <1>1 DEF Stores
  <2>2. Backed(new)
    BY <1>1, <2>1 DEF Backed, Bindings, Sources
  <2> HIDE DEF new
  <2> QED
    BY <1>9, <2>2, RefsUser DEF Restore, new
<1> QED
  BY <1>2, <1>3, <1>4, <1>5, <1>7, <1>8, <1>9 DEF Users

LEMMA RefsNext == Sane /\ RefsExist /\ [Next]_vars => RefsExist'
<1> SUFFICES ASSUME Sane, TypeOK, RefsExist, [Next]_vars PROVE RefsExist'
  BY DEF Sane
<1>1. CASE BindingController
  <2>1. Reconcile \/ renderAll \/ RolloutWaits \/ Done \/ (\E t \in Targets : WriteRefused(t) \/ InPlace(t))
            => UNCHANGED <<api, forged>>
    BY DEF Reconcile, renderAll, RolloutWaits, Done, WriteRefused, InPlace
  <2> QED
    BY <1>1, <2>1, RefsQuiet, RefsBindingFinalizer, RefsCleanup, RefsStamp, RefsWrite
       DEF BindingController
<1>2. OperatorRestart \/ (\E kind \in Kinds : Sync(kind)) \/ UNCHANGED vars
          => UNCHANGED <<api, forged>>
  BY DEF OperatorRestart, Sync, vars
<1> QED
  BY <1>1, <1>2, RefsQuiet, RefsUsers, RefsConfigFinalizer, RefsCollect DEF Next

\* As long as no check was made on a cache that was behind, whatever a binding or a
\* config refers to exists: params and targets are not deleted under them, however
\* edits, orphans, finalizers, collection and restarts interleave.
THEOREM ReferencesExist == Spec => []RefsExist
<1>1. Init => Sane /\ RefsExist
  BY TypeInit, RefsInit
<1>2. Sane /\ RefsExist /\ [Next]_vars => (Sane /\ RefsExist)'
  BY TypeStep, RefsNext
<1> QED
  BY <1>1, <1>2, PTL DEF Spec

=============================================================================
