--------------------------- MODULE VRouterBinding ---------------------------
(***************************************************************************)
(* One VRouterBinding and its controller                                   *)
(* (internal/controller/vrouterbinding_controller.go): every reconcile     *)
(* renders a config per target, deletes orphans, and then either writes    *)
(* all configs (mode Disabled) or takes one step of the rollout walk,      *)
(* which writes at most one config and first stamps it as the frontier.    *)
(*                                                                         *)
(* A generated VRouterConfig is its spec and its status.  Specs are        *)
(* numbered in the order they are rendered, 0 is "no such object", and a   *)
(* spec stands for the generation it got, since a write bumps the          *)
(* generation exactly when it changes the spec.  The status moves as       *)
(* ConfigStatus says.                                                      *)
(*                                                                         *)
(* Times are kept as ages: the code compares now with a stored time plus a *)
(* duration, and an age is counted only up to the longest duration.        *)
(***************************************************************************)
EXTENDS Integers, Sequences, FiniteSets, ConfigStatus

CONSTANTS
    Targets,          \* names of VRouterTargets
    Refs0,            \* spec.targetRefs at first
    Modes,            \* the values of spec.rollout.mode looked at
    PollInterval, WaitAfterApplied, WaitInterval,   \* spec.rollout
    Bad,              \* <<target, spec>> whose apply fails; any other succeeds
    Lag,              \* modes in which the cached binding may be behind
    FaultKinds,       \* "patch", "write", "render": API calls that may fail; "crash"
    MaxFaults,        \* bound: faults in a behaviour
    MaxRender,        \* bound: specs rendered for a target
    MaxEdits,         \* bound: edits of targetRefs
    MaxDeletes,       \* bound: configs deleted by hand
    MaxUpsets         \* bound: reboots, lost results, routers not ready

NoTarget == "none"

ASSUME TargetsAssumption ==
    /\ Refs0 \in Seq(Targets) /\ Refs0 # <<>> /\ NoTarget \notin Targets
    /\ Modes # {} /\ Modes \subseteq {"Disabled", "FixedInterval", "WaitForApplied"}
    /\ Lag \subseteq Modes /\ Bad \subseteq (Targets \X Nat)
    /\ FaultKinds \subseteq {"patch", "write", "render", "crash"}
ASSUME DurationsAssumption ==
    /\ PollInterval \in Nat /\ WaitAfterApplied \in Nat /\ WaitInterval \in Nat
    /\ "FixedInterval" \in Modes => WaitInterval > 0
ASSUME BoundsAssumption ==
    {MaxFaults, MaxRender, MaxEdits, MaxDeletes, MaxUpsets} \subseteq Nat

VARIABLES
    mode,       \* spec.rollout.mode, any of Modes and not edited
    want,       \* the spec each target's config renders to
    cfg,        \* the generated VRouterConfig of each target
    refs,       \* spec.targetRefs
    rollout,    \* status.rollout: the frontier and the age of its stamp
    ready,      \* the Ready condition: "True", or the reason it is not
    cached,     \* targetRefs and status.rollout as the controller's cache has them
    queued,     \* the binding is in the work queue, or will be put there
    pc,         \* where the reconcile is; "idle" when none runs
    b,          \* the binding this reconcile read
    desired,    \* the specs this reconcile rendered
    k,          \* position in targetRefs of the config being written
    took,       \* time since this reconcile found the config to write
    verdict,    \* the Ready condition about to be written
    last,       \* history of FixedInterval: the target last written and the age of its stamp,
                \* until one is made from a copy that does not show the one before
    verified,   \* history: targets whose last written spec has been Applied
    count       \* faults, edits, deletes and upsets so far

api == <<mode, want, cfg, refs, rollout, ready, cached>>
local == <<b, desired, k, took, verdict>>
vars == <<api, queued, pc, local, last, verified, count>>

----------------------------------------------------------------------------
(* Data *)

Longer(d, e) == IF d > e THEN d ELSE e
Cap == Longer(Longer(WaitAfterApplied, WaitInterval), 1)
Older(age) == IF age < Cap THEN age + 1 ELSE Cap

NoRollout == [target |-> NoTarget, age |-> 0]
NoWrite == [target |-> NoTarget, stamp |-> 0, misled |-> FALSE]
Misled == [target |-> NoTarget, stamp |-> Cap, misled |-> TRUE]
Absent == [spec |-> 0, st |-> NewStatus, age |-> 0]
Elements(refList) == {refList[i] : i \in DOMAIN refList}

Spend(kind, max) == count[kind] < max /\ count' = [count EXCEPT ![kind] = @ + 1]
Fault(kind) == kind \in FaultKinds /\ Spend("fault", MaxFaults)

\* A change of the binding object; its watch event brings the cache up to date.
Publish(newRefs, newRollout) ==
    /\ refs' = newRefs /\ rollout' = newRollout
    /\ cached' = IF mode \in Lag THEN cached ELSE [refs |-> newRefs, rollout |-> newRollout]
    /\ queued' = (queued \/ mode \notin Lag)

\* The reconcile returns; again: an error, or a RequeueAfter above zero.
Return(again) == pc' = "idle" /\ queued' = (queued \/ again)

----------------------------------------------------------------------------
(* Pure parts of the walk *)

Mismatch(t) == cfg[t].spec # desired[t]

\* Mutant of AppliedForGeneration: a stale True counts.
AppliedForAny(c) == c.spec > 0 /\ c.st.ok > 0
AppliedForGeneration(c) == c.spec > 0 /\ c.st.ok = c.spec

frontierRemaining(c, frontier) ==
    CASE mode = "FixedInterval" -> WaitInterval - frontier.age
      [] mode = "WaitForApplied" -> IF AppliedForGeneration(c)
                                    THEN WaitAfterApplied - c.age ELSE PollInterval
      [] OTHER -> 0

rolloutWaitDuration == IF mode = "WaitForApplied" THEN WaitAfterApplied ELSE WaitInterval

\* Mutant of gateRemaining: only the walk's own advance waits, not a first write.
gateNone(t) == 0
gateRemaining(t) ==
    LET f == b.rollout.target
    IN CASE f \in {NoTarget, t} -> 0
         [] f \notin Elements(b.refs) \cup {NoTarget, t} -> rolloutWaitDuration - b.rollout.age
         [] OTHER -> frontierRemaining(cfg[f], b.rollout)

\* WaitForApplied only: a Failed config that already has the rendered spec.
Halting(t) == mode = "WaitForApplied" /\ cfg[t].spec > 0
              /\ cfg[t].st.phase = "Failed" /\ ~Mismatch(t)
Halts == \E t \in Elements(b.refs) : Halting(t)

FrontierWait(t) == IF t = b.rollout.target THEN frontierRemaining(cfg[t], b.rollout) ELSE 0
Stops == {i \in DOMAIN b.refs : Mismatch(b.refs[i]) \/ FrontierWait(b.refs[i]) > 0}
FirstStop(i) == i \in Stops /\ \A j \in Stops : i <= j

AllApplied == \A t \in Elements(b.refs) : AppliedForGeneration(cfg[t])

AfterWrite(c, spec) == IF c.spec = 0 THEN [Absent EXCEPT !.spec = spec]
                       ELSE [c EXCEPT !.spec = spec]

----------------------------------------------------------------------------
(* The reconcile *)

Init ==
    /\ mode \in Modes /\ want = [t \in Targets |-> 1] /\ cfg = [t \in Targets |-> Absent]
    /\ refs = Refs0 /\ rollout = NoRollout /\ ready = "Unknown"
    /\ cached = [refs |-> Refs0, rollout |-> NoRollout]
    /\ queued = TRUE /\ pc = "idle"
    /\ b = cached /\ desired = want /\ k = 1 /\ took = 0 /\ verdict = "True"
    /\ last = NoWrite
    /\ verified = Targets
    /\ count = [fault |-> 0, edit |-> 0, delete |-> 0, upset |-> 0]

\* Reconcile and renderAll: the binding from the cache, a spec for every target.
Reconcile ==
    /\ pc = "idle" /\ queued
    /\ queued' = FALSE /\ pc' = "orphans"
    /\ b' = cached /\ desired' = want
    /\ UNCHANGED <<api, k, took, verdict, last, verified, count>>

\* cleanupOrphans: configs of targets that left targetRefs go, and only those.
Orphans == {t \in Targets : cfg[t].spec > 0} \ Elements(b.refs)
DeleteAll(S) == [t \in Targets |-> IF t \in S THEN Absent ELSE cfg[t]]

cleanupOrphans ==
    /\ pc = "orphans"
    /\ cfg' = DeleteAll(Orphans)
    /\ pc' = (IF mode = "Disabled" THEN "write" ELSE "walk") /\ k' = 1
    /\ UNCHANGED <<mode, want, refs, rollout, ready, cached, queued, b, desired, took,
                   verdict, last, verified, count>>

\* Something does not render, before any delete; or a delete fails after others.
RenderOrCleanupFails ==
    /\ pc = "orphans" /\ Fault("render")
    /\ \E S \in SUBSET Orphans : cfg' = DeleteAll(S)
    /\ pc' = "ready" /\ verdict' = "ReconcileError"
    /\ UNCHANGED <<mode, want, refs, rollout, ready, cached, queued, b, desired, k, took,
                   last, verified>>

\* runRollout, nothing written: a halt, a wait, or the end of the walk.
Halt ==
    /\ pc = "walk" /\ Halts
    /\ pc' = "ready" /\ verdict' = "RolloutHalted"
    /\ UNCHANGED <<api, queued, b, desired, k, took, last, verified, count>>

Wait ==
    /\ pc = "walk" /\ ~Halts
    /\ \E i \in Stops :
          LET t == b.refs[i]
          IN FirstStop(i) /\ (~Mismatch(t) \/ gateRemaining(t) > 0)
    /\ Return(TRUE)
    /\ UNCHANGED <<api, local, last, verified, count>>

EndOfWalk ==
    /\ pc = "walk" /\ ~Halts /\ Stops = {}
    /\ pc' = "ready"
    /\ verdict' = IF mode # "WaitForApplied" \/ AllApplied THEN "True"
                  ELSE "RolloutInProgress"
    /\ UNCHANGED <<api, queued, b, desired, k, took, last, verified, count>>

\* The first mismatch, and the gate is open: go and stamp it with this moment.
FirstMismatch ==
    /\ pc = "walk" /\ ~Halts
    /\ \E i \in Stops :
          /\ FirstStop(i) /\ Mismatch(b.refs[i]) /\ gateRemaining(b.refs[i]) <= 0
          /\ k' = i
    /\ pc' = "stamp" /\ took' = 0
    /\ UNCHANGED <<api, queued, b, desired, verdict, last, verified, count>>

\* A merge patch carries the target only if the copy of the binding has another.
\* Mutants of Stamped: it names the last target of the list; its time is left zero.
StampedLast(t) == [target |-> b.refs[Len(b.refs)], age |-> took]
StampedOld(t) == [target |-> t, age |-> Cap + 1]
Stamped(t) == [target |-> IF b.rollout.target = t THEN rollout.target ELSE t, age |-> took]

stampRolloutFrontier ==
    /\ pc = "stamp"
    /\ Publish(refs, Stamped(b.refs[k]))
    /\ ready' = "RolloutInProgress" /\ pc' = "write"
    /\ last' = IF mode = "FixedInterval" /\ b.rollout # rollout THEN Misled ELSE last
    /\ UNCHANGED <<mode, want, cfg, local, verified, count>>

\* createOrUpdateOne, for the walk's target or for the next one of mode Disabled.
createOrUpdateOne ==
    /\ pc = "write"
    /\ LET t == b.refs[k]
       IN IF Mismatch(t)
          THEN /\ cfg' = [cfg EXCEPT ![t] = AfterWrite(@, desired[t])]
               /\ last' = IF mode = "FixedInterval" /\ ~last.misled
                        THEN [last EXCEPT !.target = t, !.stamp = took] ELSE last
               /\ verified' = verified \ {t}
          ELSE UNCHANGED <<cfg, last, verified>>
    /\ IF mode = "Disabled"
       THEN /\ UNCHANGED <<queued, b, desired, took>>
            /\ IF k < Len(b.refs)
               THEN k' = k + 1 /\ UNCHANGED <<pc, verdict>>
               ELSE pc' = "ready" /\ verdict' = "True" /\ UNCHANGED k
       ELSE /\ Return((IF mode = "WaitForApplied" THEN PollInterval ELSE WaitInterval) > 0)
            /\ UNCHANGED local
    /\ UNCHANGED <<mode, want, refs, rollout, ready, cached, count>>

\* setReadyCondition, then the reconcile's own return.
Requeues == \/ verdict = "ReconcileError"
            \/ verdict \in {"RolloutHalted", "RolloutInProgress"} /\ PollInterval > 0

setReadyCondition ==
    /\ pc = "ready"
    /\ ready' = verdict
    /\ Return(Requeues \/ ready # verdict)
    /\ UNCHANGED <<mode, want, cfg, refs, rollout, cached, local, last, verified, count>>

\* The patch of Ready fails: a True, which nothing else brings back, is retried.
\* Mutant of RetriesPatch: the error of the patch is ignored everywhere.
RetriesPatchNever == Requeues
RetriesPatch == Requeues \/ verdict = "True"

setReadyConditionFails ==
    /\ pc = "ready" /\ Fault("patch")
    /\ Return(RetriesPatch)
    /\ UNCHANGED <<api, local, last, verified>>

\* Reading a config, the stamp, or the write is refused, conflicts or times out.
WalkFails == pc \in {"walk", "stamp"} /\ Fault("patch") /\ Return(TRUE)
             /\ UNCHANGED <<api, local, last, verified>>
WriteFails == pc = "write" /\ Fault("write")
              /\ (IF mode = "Disabled"
                  THEN pc' = "ready" /\ verdict' = "ReconcileError" /\ UNCHANGED queued
                  ELSE Return(TRUE) /\ UNCHANGED verdict)
              /\ UNCHANGED <<api, b, desired, k, took, last, verified>>

\* The operator stops between any two steps and starts over with a fresh cache.
Crash == /\ Fault("crash") /\ pc' = "idle" /\ queued' = TRUE
         /\ cached' = [refs |-> refs, rollout |-> rollout]
         /\ UNCHANGED <<mode, want, cfg, refs, rollout, ready, local, last, verified>>

Controller ==
    \/ Reconcile \/ cleanupOrphans \/ RenderOrCleanupFails
    \/ Halt \/ Wait \/ EndOfWalk \/ FirstMismatch
    \/ stampRolloutFrontier \/ WalkFails
    \/ createOrUpdateOne \/ WriteFails
    \/ setReadyCondition \/ setReadyConditionFails

----------------------------------------------------------------------------
(* Everything around the reconcile *)

\* A template, params or target edit: some targets' configs render anew.
Rerender(S) ==
    /\ \A t \in S : want[t] < MaxRender
    /\ want' = [t \in Targets |-> IF t \in S THEN want[t] + 1 ELSE want[t]]
    /\ queued' = TRUE
    /\ UNCHANGED <<mode, cfg, refs, rollout, ready, cached, pc, local, last, verified, count>>

Without(i) == SubSeq(refs, 1, i - 1) \o SubSeq(refs, i + 1, Len(refs))

\* An edit of targetRefs, which admission keeps from being empty: a target leaves, or a new one comes last.
EditRefs ==
    /\ Spend("edit", MaxEdits)
    /\ \/ \E i \in DOMAIN refs : Len(refs) > 1 /\ Publish(Without(i), rollout)
       \/ \E t \in Targets \ Elements(refs) : Publish(Append(refs, t), rollout)
    /\ UNCHANGED <<mode, want, cfg, ready, pc, local, last, verified>>

\* The informer brings the binding's cached copy up to date.
SyncCache ==
    /\ cached # [refs |-> refs, rollout |-> rollout]
    /\ cached' = [refs |-> refs, rollout |-> rollout] /\ queued' = TRUE
    /\ UNCHANGED <<mode, want, cfg, refs, rollout, ready, pc, local, last, verified, count>>

DeleteConfig(t) ==
    /\ cfg[t].spec > 0 /\ Spend("delete", MaxDeletes)
    /\ cfg' = [cfg EXCEPT ![t] = Absent]
    /\ UNCHANGED <<mode, want, refs, rollout, ready, cached, queued, pc, local, last, verified>>

\* The config controller moves the status of a config; ok dates a new True.
SetStatus(t, new) ==
    /\ Move(cfg[t].st, new, cfg[t].spec)
    /\ cfg' = [cfg EXCEPT ![t].st = new, ![t].age = 0]
    /\ verified' = IF new.ok # 0 /\ new.ok = cfg[t].spec
                   THEN verified \cup {t} ELSE verified
    /\ UNCHANGED <<mode, want, refs, rollout, ready, cached, queued, pc, local, last>>

\* The moves it owes: apply a new or untrusted spec, collect the result.
Due(s, gen) == s.phase = "Pending" \/ s.obs # gen
Applies(t) ==
    /\ cfg[t].spec > 0 /\ UNCHANGED count
    /\ LET s == cfg[t].st
       IN \/ /\ s.phase # "Applying" /\ Due(s, cfg[t].spec)
             /\ SetStatus(t, Dispatched(s, cfg[t].spec))
          \/ /\ s.phase = "Applying"
             /\ SetStatus(t, IF <<t, s.obs>> \in Bad THEN Failed(s) ELSE Succeeded(s))

\* The moves that come from outside: a reboot or an old generation is applied, a
\* result is lost, a router is not ready.
Upset(t) ==
    /\ cfg[t].spec > 0 /\ Spend("upset", MaxUpsets)
    /\ LET s == cfg[t].st
       IN \/ \E g \in 1..cfg[t].spec : SetStatus(t, Dispatched(s, g))
          \/ s.phase \in {"Applying", "Applied"} /\ SetStatus(t, Reset(s))

Tick ==
    /\ cfg' = [t \in Targets |-> [cfg[t] EXCEPT !.age = Older(@)]]
    /\ rollout' = [rollout EXCEPT !.age = Older(@)]
    /\ cached' = [cached EXCEPT !.rollout.age = Older(@)]
    /\ b' = [b EXCEPT !.rollout.age = Older(@)]
    /\ took' = Older(took)
    /\ last' = [last EXCEPT !.stamp = Older(@)]
    /\ UNCHANGED <<mode, want, refs, ready, queued, pc, desired, k, verdict, verified, count>>

Environment ==
    \/ \E S \in SUBSET Targets \ {{}} : Rerender(S)
    \/ EditRefs \/ SyncCache \/ Tick \/ Crash
    \/ \E t \in Targets : DeleteConfig(t) \/ Applies(t) \/ Upset(t)

Next == Controller \/ Environment

Fairness ==
    /\ WF_vars(Controller) /\ WF_vars(SyncCache) /\ WF_vars(Tick)
    /\ \A t \in Targets : WF_vars(Applies(t))

Spec == Init /\ [][Next]_vars
FairSpec == Spec /\ Fairness

----------------------------------------------------------------------------
(* Properties *)

Rollouts == [target : Targets \cup {NoTarget}, age : 0..Cap]
Configs == [spec : Nat, st : StatusType, age : 0..Cap]
Bindings == [refs : Seq(Targets), rollout : Rollouts]
LastWrites == [target : Targets \cup {NoTarget}, stamp : 0..Cap, misled : BOOLEAN]

\* The variables keep their types (api/v1/vrouterbinding_types.go).
TypeOK ==
    /\ mode \in Modes /\ want \in [Targets -> Nat \ {0}] /\ cfg \in [Targets -> Configs]
    /\ refs \in Seq(Targets) /\ rollout \in Rollouts
    /\ ready \in {"Unknown", "True", "ReconcileError", "RolloutInProgress", "RolloutHalted"}
    /\ cached \in Bindings /\ queued \in BOOLEAN
    /\ pc \in {"idle", "orphans", "walk", "stamp", "write", "ready"}
    /\ b \in Bindings /\ desired \in [Targets -> Nat \ {0}]
    /\ k \in Nat \ {0} /\ took \in 0..Cap
    /\ verdict \in {"True", "ReconcileError", "RolloutInProgress", "RolloutHalted"}
    /\ last \in LastWrites
    /\ verified \subseteq Targets
    /\ count \in [{"fault", "edit", "delete", "upset"} -> Nat]

Unverified == {t \in Targets : cfg[t].spec > 0 /\ t \notin verified}

\* WaitForApplied never has two configs whose last written spec has not been
\* Applied since: a bad render reaches one router at most, whatever crashes,
\* failing calls, re-renders and targetRefs edits come between the writes.
AtMostOneUnverified == Cardinality(Unverified) <= 1

\* A written but not yet Applied config is the frontier: "there is never a state
\* where a config was updated but unrecorded" (stampRolloutFrontier).
UnverifiedIsFrontier == \A t \in Unverified : rollout.target = t

\* FixedInterval: a write comes at least waitInterval after the stamp of the last write
\* to another target (runRollout: "the stagger is a hard guarantee across operator
\* restarts and unrelated watch events"), so long as no stamp was made from a copy of
\* the binding that did not show the one before.
Writes(t) == cfg'[t].spec # cfg[t].spec /\ cfg'[t].spec > 0
FixedIntervalStagger ==
    [][\A t \in Targets :
          (mode = "FixedInterval" /\ ~last.misled /\ Writes(t) /\ last.target \notin {NoTarget, t})
              => last.stamp >= WaitInterval]_vars

\* Ready turns True only when each config of the render has been Applied with the
\* spec the reconcile rendered (firstNotAppliedConfig, the completion check).
ReadySound ==
    [][(ready' = "True" /\ ready # "True") =>
          \A t \in Elements(b.refs) :
              cfg[t].spec > 0 => cfg[t].spec = desired[t] /\ t \in verified]_vars

\* Once edits and disturbances stop, every config gets its last render, Applied,
\* and Ready says so: the write gate never waits for what cannot happen.  But for
\* one case: WaitForApplied waits for a frontier that has no config, of which only a
\* write could be the end, and the walk is held before an earlier target
\* (frontierRemaining: "it just keeps polling").
Converged == \A t \in Elements(refs) :
                 cfg[t].spec = want[t] /\ AppliedForGeneration(cfg[t])
Stranded == /\ mode = "WaitForApplied"
            /\ \E i, j \in DOMAIN refs :
                  /\ i < j /\ cfg[refs[i]].spec # want[refs[i]]
                  /\ refs[j] = rollout.target /\ cfg[refs[j]].spec = 0
Completes == <>[]((Converged /\ ready = "True") \/ Stranded)

\* A new render that changes the own spec of a Failed frontier resumes the rollout, whatever
\* else it changes: the frontier is "a first-mismatch target again", and the gate's rule for
\* it "lets it be overwritten immediately, with no wait" (SPEC section 7.1).
ResumesAfterRender ==
    (<>[](\A t \in Targets : <<t, want[t]>> \notin Bad)) => <>[]Converged

=============================================================================
