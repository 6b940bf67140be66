----------------------------- MODULE Lifecycle -----------------------------
(***************************************************************************)
(* The objects that refer to each other, from their admission to their     *)
(* end: a VRouterBinding, the template and params it renders, its targets, *)
(* and the VRouterConfigs it generates.  Modelled are the webhooks         *)
(* (internal/webhook/v1), the finalizers of binding and config, orphan     *)
(* cleanup and the writes of the binding controller, and, outside the      *)
(* operator, the API server and its garbage collector.                     *)
(*                                                                         *)
(* Every read of the operator, the webhooks' included, is from an informer *)
(* cache; each kind has its own, and any of them may be behind.  What is   *)
(* rendered never changes here, so a config that exists has the right      *)
(* spec.  A config is named by its target.  Of a rollout, the order of the *)
(* targets and the clocks are left out: whether a Failed config halts the  *)
(* walk, or its gate holds it, is open here and decided in VRouterBinding. *)
(***************************************************************************)
EXTENDS Integers, FiniteSets

CONSTANTS
    Targets,      \* names of VRouterTargets
    Rollouts,     \* whether a binding has a rollout mode: the values looked at
    Lagging,      \* the kinds whose cache may be behind
    MaxUid,       \* bound: bindings created under the name
    MaxOps        \* bound: what users do, and restarts of the operator

Sources == {"template", "params"}
Kinds == {"targets", "sources", "binding", "cfg"}

ASSUME LifecycleAssumption ==
    /\ Targets # {} /\ Rollouts # {} /\ Rollouts \subseteq BOOLEAN /\ Lagging \subseteq Kinds
    /\ MaxUid \in Nat \ {0} /\ MaxOps \in Nat

VARIABLES
    api,      \* the stored objects, by kind
    seen,     \* the operator's caches of them
    bq,       \* the binding is queued
    pc,       \* where the binding's reconcile is; "idle" when none runs, "stamped"
              \* between a rollout's stamp and its write
    b, todo,  \* the binding it read, and the targets it has still to write
    forged,   \* history: admission let through what the stored objects forbid
    slipped,  \* history: configs that went, or came, unseen by the binding's reconcile
    ops

local == <<pc, b, todo>>
vars == <<api, seen, bq, local, forged, slipped, ops>>

----------------------------------------------------------------------------
(* Objects *)

\* frontier holds the target of status.rollout, if one was stamped.
NoBinding(uid) == [uid |-> uid, live |-> FALSE, del |-> FALSE, fin |-> FALSE,
                   refs |-> {}, rollout |-> FALSE, frontier |-> {}]
Unread == NoBinding(1)
NewBinding(uid, refs, rollout) ==
    [NoBinding(uid) EXCEPT !.live = TRUE, !.refs = refs, !.rollout = rollout]
NoConfig == [live |-> FALSE, del |-> FALSE, fin |-> FALSE, owner |-> 0]
NewConfig(uid) == [NoConfig EXCEPT !.live = TRUE, !.owner = uid]

\* A delete takes effect when no finalizer is left.
DeletedBinding(v) == IF v.fin THEN [v EXCEPT !.del = TRUE] ELSE NoBinding(v.uid)
DeletedConfig(c) == IF c.fin THEN [c EXCEPT !.del = TRUE] ELSE NoConfig

\* The caches once the API server holds new, and whether their events queue the binding.
Seen(new) == [kind \in Kinds |-> IF kind \in Lagging THEN seen[kind] ELSE new[kind]]

Changed(old, new) == (old \ new) \cup (new \ old)
WakesBinding(view) ==
    \/ view.binding # seen.binding
    \/ view.sources # seen.sources /\ view.binding.live
    \/ Changed(view.targets, seen.targets) \cap view.binding.refs # {}

\* The caches show view next; the binding is queued by that, or besides.
Watch(view, queued) == seen' = view /\ bq' = (queued \/ WakesBinding(view))

Gone(new) == {t \in Targets : api.cfg[t].live /\ ~new.cfg[t].live}
Made(new) == {t \in Targets : ~api.cfg[t].live /\ new.cfg[t].live}
Slipped(new) == (slipped \ (Made(new) \cup Gone(new))) \cup (Gone(new) \cap new.binding.refs)

Store(new, queued) == api' = new /\ Watch(Seen(new), queued)
Put(new, queued) == Store(new, queued) /\ slipped' = Slipped(new)

----------------------------------------------------------------------------
(* Admission: a check reads the view it is given *)

\* validateBinding: targets, template and params exist.
validateBinding(view, refs) ==
    refs # {} /\ refs \subseteq view.targets /\ Sources \subseteq view.sources

validateVRouterConfig(view, t) == t \in view.targets

\* Mutant of checkTargetNotReferenced: only bindings are listed.
checkTargetBindings(view, t) == t \notin view.binding.refs
checkTargetNotReferenced(view, t) == t \notin view.binding.refs /\ ~view.cfg[t].live

checkParamsNotReferenced(view) == ~view.binding.live

\* Mutant of ValidateUpdate: an object that is being deleted is validated too.
ValidateUpdateAlways(object, valid) == valid
\* ValidateUpdate of binding and config: nothing is checked of one being deleted.
ValidateUpdate(object, valid) == object.del \/ valid

\* What admission lets through of the cache, it may refuse of the stored objects.
Admits(bySeen, byApi) == bySeen /\ forged' = (forged \/ ~byApi)

----------------------------------------------------------------------------
(* The binding controller *)

Init ==
    /\ \E rollout \in Rollouts :
          api = [targets |-> Targets, sources |-> Sources,
                 binding |-> NewBinding(1, Targets, rollout),
                 cfg |-> [t \in Targets |-> NoConfig]]
    /\ seen = api /\ bq = TRUE
    /\ pc = "idle" /\ b = Unread /\ todo = {}
    /\ forged = FALSE /\ slipped = {} /\ ops = 0

\* Reconcile of a binding that is being deleted or has no finalizer yet.  An Update
\* of a copy that is not the stored one is refused, like one that admission refuses,
\* and the reconcile tries again.
ReconcileFinalizer ==
    /\ pc = "idle" /\ bq
    /\ LET v == seen.binding
       IN /\ v.live /\ (v.del \/ ~v.fin) /\ v = api.binding
          /\ Admits(ValidateUpdate(v, validateBinding(seen, v.refs)),
                    ValidateUpdate(v, validateBinding(api, v.refs)))
          /\ Put([api EXCEPT !.binding = IF v.del THEN NoBinding(v.uid)
                                         ELSE [v EXCEPT !.fin = TRUE]], ~v.del)
    /\ UNCHANGED <<local, ops>>

\* Reconcile of any other one; of one that is gone nothing is left to do.
Reconcile ==
    /\ pc = "idle" /\ bq /\ bq' = FALSE
    /\ LET v == seen.binding
       IN \/ ~v.live /\ UNCHANGED <<pc, b>>
          \/ v.live /\ ~v.del /\ v.fin /\ pc' = "render" /\ b' = v
    /\ UNCHANGED <<api, seen, todo, forged, slipped, ops>>

\* Leaves the reconcile; again: with an error, or a RequeueAfter.
Leave(again) == pc' = "idle" /\ b' = Unread /\ todo' = {} /\ bq' = (bq \/ again)

\* renderAll needs the template, the params and every target of the binding.
renderAll ==
    /\ pc = "render"
    /\ IF b.refs \subseteq seen.targets /\ Sources \subseteq seen.sources
       THEN pc' = "cleanup" /\ UNCHANGED <<b, todo, bq>> ELSE Leave(TRUE)
    /\ UNCHANGED <<api, seen, forged, slipped, ops>>

\* Mutant of Orphans: no config is ever one.
OrphansNone == {}
Orphans == {t \in Targets \ b.refs : seen.cfg[t].live}
DeleteAll(S) == [api EXCEPT !.cfg = [t \in Targets |->
                     IF t \in S THEN DeletedConfig(@[t]) ELSE @[t]]]

\* cleanupOrphans deletes what the cache lists; one that is gone already is an
\* error, after some of the others.
Unlisted == {t \in Targets \ b.refs : api.cfg[t].live /\ ~seen.cfg[t].live}
cleanupOrphans ==
    /\ pc = "cleanup"
    /\ LET present == {t \in Orphans : api.cfg[t].live}
       IN \/ /\ present = Orphans
             /\ Store(DeleteAll(Orphans), bq)
             /\ pc' = "write" /\ todo' = (IF b.rollout THEN {} ELSE b.refs) /\ b' = b
          \/ /\ present # Orphans
             /\ \E S \in SUBSET present : Store(DeleteAll(S), TRUE)
             /\ pc' = "idle" /\ b' = Unread /\ todo' = {}
    /\ slipped' = Slipped(api') \cup Unlisted
    /\ UNCHANGED <<forged, ops>>

\* runRollout.  What the cache shows has the rendered spec, so a mismatch is a target
\* without a config.
Walks == pc = "write" /\ b.rollout
Mismatch(t) == t \in b.refs /\ ~seen.cfg[t].live

\* The walk stops for now: a config is Failed, or is the frontier and not Applied or
\* soaked yet, or is not Applied at the end; or, before a write, the gate behind the
\* recorded frontier is closed, and for good if that frontier has no config.
RolloutWaits ==
    /\ Walks
    /\ \E t \in b.refs : Mismatch(t) => b.frontier \notin {{}, {t}}
    /\ Leave(TRUE)
    /\ UNCHANGED <<api, seen, forged, slipped, ops>>

\* The write-ahead stamp of the first mismatch: a merge patch, sent by name, that
\* carries the target only if it is not the copy's; its answer replaces the copy.
stampRolloutFrontier(t) ==
    /\ Walks /\ Mismatch(t)
    /\ IF api.binding.live
       THEN LET v == [api.binding EXCEPT !.frontier = IF b.frontier = {t} THEN @ ELSE {t}]
            IN /\ Put([api EXCEPT !.binding = v], bq)
               /\ b' = v /\ pc' = "stamped" /\ todo' = {t}
       ELSE Leave(TRUE) /\ UNCHANGED <<api, seen, slipped>>
    /\ UNCHANGED <<forged, ops>>

\* createOrUpdateOne for t.  Absent from the cache: a create, which the API server
\* refuses if the config is there all the same.  Otherwise the owner is set, when
\* it is that of an earlier binding.
Writing(t) == t \in todo /\ (pc = "stamped" \/ (pc = "write" /\ ~b.rollout))
Creates(t) == ~seen.cfg[t].live
Adopts(t) == seen.cfg[t].live /\ seen.cfg[t].owner # b.uid
Accepted(t) ==
    IF Creates(t) THEN ~api.cfg[t].live /\ validateVRouterConfig(seen, t)
    ELSE /\ seen.cfg[t] = api.cfg[t]
         /\ ValidateUpdate(api.cfg[t], validateVRouterConfig(seen, t))

\* Mutant of AfterWrite: no controller reference is set.
AfterWriteUnowned(t) == IF Creates(t) THEN NewConfig(0) ELSE [api.cfg[t] EXCEPT !.owner = b.uid]
AfterWrite(t) == IF Creates(t) THEN NewConfig(b.uid) ELSE [api.cfg[t] EXCEPT !.owner = b.uid]

\* Mutant of StillToWrite: the one pass ends with its first write.
StillToWriteNone(t) == {}
\* A rollout writes one config, mode Disabled writes on.
StillToWrite(t) == IF pc = "stamped" THEN {} ELSE todo \ {t}

\* What follows a write: RequeueAfter in a rollout, the next config otherwise.
WriteOn(t) ==
    /\ todo' = StillToWrite(t) /\ UNCHANGED ops
    /\ IF pc = "stamped" THEN pc' = "idle" /\ b' = Unread ELSE UNCHANGED <<pc, b>>

createOrUpdateOne(t) ==
    /\ Writing(t) /\ (Creates(t) \/ Adopts(t)) /\ Accepted(t)
    /\ Put([api EXCEPT !.cfg[t] = AfterWrite(t)], bq \/ pc = "stamped")
    /\ forged' = (forged \/ ~ValidateUpdate(api.cfg[t], validateVRouterConfig(api, t)))
    /\ WriteOn(t)

WriteRefused(t) ==
    /\ Writing(t) /\ (Creates(t) \/ Adopts(t)) /\ ~Accepted(t)
    /\ Leave(TRUE)
    /\ UNCHANGED <<api, seen, forged, slipped, ops>>

\* Nothing to write: what the cache shows has the rendered spec, and the owner.
InPlace(t) ==
    /\ Writing(t) /\ ~Creates(t) /\ ~Adopts(t)
    /\ bq' = (bq \/ pc = "stamped") /\ slipped' = slipped \cup {u \in {t} : ~api.cfg[u].live}
    /\ WriteOn(t)
    /\ UNCHANGED <<api, seen, forged>>

Done ==
    /\ pc = "write" /\ todo = {} /\ (b.rollout => \A t \in Targets : ~Mismatch(t))
    /\ Leave(FALSE)
    /\ UNCHANGED <<api, seen, forged, slipped, ops>>

----------------------------------------------------------------------------
(* The finalizer of a config (vrouterconfig_controller.go, Reconcile) *)

\* Every event of a config queues it, and an error does again: its key is there as long
\* as there is something to do here.
ConfigFinalizer(t) ==
    /\ LET c == seen.cfg[t]
       IN /\ c.live /\ (c.del \/ ~c.fin) /\ c = api.cfg[t]
          /\ Admits(ValidateUpdate(c, validateVRouterConfig(seen, t)),
                    ValidateUpdate(c, validateVRouterConfig(api, t)))
          /\ Put([api EXCEPT !.cfg[t] = IF c.del THEN NoConfig ELSE [c EXCEPT !.fin = TRUE]],
                 bq)
    /\ UNCHANGED <<local, ops>>

----------------------------------------------------------------------------
(* Outside the operator *)

\* A cache catches up with the stored objects of its kind.
Sync(kind) ==
    /\ seen[kind] # api[kind]
    /\ Watch([seen EXCEPT ![kind] = api[kind]], bq)
    /\ UNCHANGED <<api, local, forged, slipped, ops>>

\* The garbage collector deletes the configs whose owner is gone.
Collect(t) ==
    /\ LET c == api.cfg[t]
       IN c.live /\ ~c.del /\ ~(api.binding.live /\ api.binding.uid = c.owner)
    /\ Put([api EXCEPT !.cfg[t] = DeletedConfig(@)], bq)
    /\ UNCHANGED <<local, forged, ops>>

\* What users ask of the API server, as far as admission lets them.
User(new, bySeen, byApi) ==
    /\ ops < MaxOps /\ ops' = ops + 1
    /\ Admits(bySeen, byApi) /\ Put(new, bq)
    /\ UNCHANGED local

WriteBinding(R) ==
    LET v == api.binding
    IN \/ /\ ~v.live /\ v.uid < MaxUid
          /\ \E rollout \in Rollouts :
                User([api EXCEPT !.binding = NewBinding(v.uid + 1, R, rollout)],
                     validateBinding(seen, R), validateBinding(api, R))
       \/ /\ v.live /\ v.refs # R
          /\ User([api EXCEPT !.binding.refs = R],
                  ValidateUpdate(v, validateBinding(seen, R)),
                  ValidateUpdate(v, validateBinding(api, R)))

DeleteBinding == /\ api.binding.live /\ ~api.binding.del
                 /\ User([api EXCEPT !.binding = DeletedBinding(@)], TRUE, TRUE)

DeleteConfig(t) == /\ api.cfg[t].live /\ ~api.cfg[t].del
                   /\ User([api EXCEPT !.cfg[t] = DeletedConfig(@)], TRUE, TRUE)

DeleteTarget(t) == /\ t \in api.targets
                   /\ User([api EXCEPT !.targets = @ \ {t}],
                           checkTargetNotReferenced(seen, t), checkTargetNotReferenced(api, t))

DeleteParams == /\ "params" \in api.sources
                /\ User([api EXCEPT !.sources = @ \ {"params"}],
                        checkParamsNotReferenced(seen), checkParamsNotReferenced(api))

\* The webhook of VRouterTemplate does not see deletes.
DeleteTemplate == /\ "template" \in api.sources
                  /\ User([api EXCEPT !.sources = @ \ {"template"}], TRUE, TRUE)

Restore == /\ api.targets # Targets \/ api.sources # Sources
           /\ User([api EXCEPT !.targets = Targets, !.sources = Sources], TRUE, TRUE)

\* The operator starts over: caches and queue are filled anew.
OperatorRestart ==
    /\ ops < MaxOps /\ ops' = ops + 1
    /\ seen' = api /\ bq' = TRUE
    /\ pc' = "idle" /\ b' = Unread /\ todo' = {}
    /\ UNCHANGED <<api, forged, slipped>>

BindingController ==
    \/ ReconcileFinalizer \/ Reconcile \/ renderAll \/ cleanupOrphans \/ Done
    \/ RolloutWaits
    \/ \E t \in Targets :
           \/ stampRolloutFrontier(t)
           \/ createOrUpdateOne(t) \/ WriteRefused(t) \/ InPlace(t)

Users ==
    \/ \E R \in SUBSET Targets : WriteBinding(R)
    \/ \E t \in Targets : DeleteTarget(t) \/ DeleteConfig(t)
    \/ DeleteBinding \/ DeleteParams \/ DeleteTemplate \/ Restore

Next ==
    \/ BindingController \/ Users \/ OperatorRestart
    \/ \E t \in Targets : ConfigFinalizer(t) \/ Collect(t)
    \/ \E kind \in Kinds : Sync(kind)

\* Work queues, informers and the garbage collector run; users need not act.
Fairness ==
    /\ WF_vars(BindingController)
    /\ \A t \in Targets : WF_vars(ConfigFinalizer(t)) /\ WF_vars(Collect(t))
    /\ \A kind \in Lagging : WF_vars(Sync(kind))

Spec == Init /\ [][Next]_vars
FairSpec == Spec /\ Fairness

----------------------------------------------------------------------------
(* Properties *)

Bindings == [uid : 1..MaxUid, live : BOOLEAN, del : BOOLEAN, fin : BOOLEAN,
             refs : SUBSET Targets, rollout : BOOLEAN, frontier : SUBSET Targets]
Configs == [live : BOOLEAN, del : BOOLEAN, fin : BOOLEAN, owner : 0..MaxUid]
Stores == [targets : SUBSET Targets, sources : SUBSET Sources, binding : Bindings,
           cfg : [Targets -> Configs]]

\* The variables keep their types, and a config that exists has an owner, by which it
\* is collected (createOrUpdateOne, SetControllerReference).
TypeOK ==
    /\ api \in Stores /\ seen \in Stores
    /\ \A t \in Targets : api.cfg[t].live => api.cfg[t].owner # 0
    /\ bq \in BOOLEAN
    /\ pc \in {"idle", "render", "cleanup", "write", "stamped"} /\ b \in Bindings
    /\ todo \subseteq Targets /\ forged \in BOOLEAN /\ slipped \subseteq Targets
    /\ ops \in 0..MaxOps

\* Unless a check was made on a cache that was behind, whatever a binding or a
\* config that is not being deleted refers to exists: the params and the targets,
\* the targets of configs that an edit of the binding left behind included.  A
\* template may be missing: nothing looks after its deletion.
RefsExist ==
    ~forged =>
        /\ (api.binding.live /\ ~api.binding.del)
               => api.binding.refs \subseteq api.targets /\ "params" \in api.sources
        /\ \A t \in Targets : (api.cfg[t].live /\ ~api.cfg[t].del) => t \in api.targets

\* A delete of a binding or a config always ends, whatever it refers to is gone
\* by then: "rejecting updates (e.g. finalizer removal) here would deadlock
\* deletion" (vrouterbinding_webhook.go, ValidateUpdate).
DeletionEnds ==
    /\ api.binding.del ~> ~api.binding.del
    /\ \A t \in Targets : api.cfg[t].del ~> ~api.cfg[t].del

\* The binding is gone, or all it refers to is there.
Resolved == \/ ~api.binding.live
            \/ api.binding.refs \subseteq api.targets /\ Sources \subseteq api.sources

\* Once a binding's references resolve, or it is gone, configs of targets it does
\* not name go for good, and their targets can be deleted.  But for a config that
\* was written so late that the cleanup did not list it yet: nothing wakes the
\* binding when the cache has it.
Stray == {t \in Targets : api.cfg[t].live /\ t \notin api.binding.refs}
Excused == IF api.binding.live THEN slipped ELSE {}
OrphansGo == <>[]Resolved => <>[](Stray \subseteq Excused)

\* And in mode Disabled every target it names has a config, but for configs that went
\* away: one that is deleted by hand, or is still on its way out when its target comes
\* back, is not made again, since the controller watches no configs.  A rollout may
\* wait for ever behind a config that is Failed or gone; how far it gets is for
\* VRouterBinding to say.
Covered == \A t \in api.binding.refs : api.cfg[t].live \/ t \in slipped
ConfigsMade ==
    <>[](Resolved /\ ~api.binding.del /\ ~api.binding.rollout) => <>[]Covered

=============================================================================
