----------------------- MODULE VRouterBinding_proofs -----------------------
(***************************************************************************)
(* Proofs about VRouterBinding, for any targets, durations and bounds: its *)
(* type invariant; that a rollout in mode WaitForApplied turns Ready only  *)
(* on configs that were Applied, and never has two configs written and not *)
(* yet Applied; and that one in FixedInterval staggers its writes.         *)
(***************************************************************************)
EXTENDS VRouterBinding, FiniteSetTheorems, SequenceTheorems, TLAPS

----------------------------------------------------------------------------
(* Types *)

\* The list is never empty, and the position of a write is one of the list's.
Cursor ==
    /\ refs # <<>> /\ cached.refs # <<>> /\ b.refs # <<>>
    /\ pc \in {"stamp", "write"} => k \in DOMAIN b.refs

TypeInv == TypeOK /\ Cursor

LEMMA CapType == Cap \in Nat /\ Cap > 0
BY DurationsAssumption DEF Cap, Longer

LEMMA OlderType == \A a \in 0..Cap : Older(a) \in 0..Cap
BY CapType DEF Older

LEMMA TypeInit == Init => TypeInv
<1> SUFFICES ASSUME Init PROVE TypeInv
  OBVIOUS
<1> USE TargetsAssumption, CapType
<1>1. Absent \in Configs /\ NoRollout \in Rollouts
  BY DEF Absent, Configs, NoRollout, Rollouts, NewStatus, StatusType
<1>2. cached \in Bindings /\ b \in Bindings
  BY <1>1 DEF Init, Bindings
<1>3. count \in [{"fault", "edit", "delete", "upset"} -> Nat]
  BY DEF Init
<1>4. want \in [Targets -> Nat \ {0}] /\ cfg \in [Targets -> Configs]
  BY <1>1 DEF Init
<1>5. TypeOK
  BY <1>1, <1>2, <1>3, <1>4 DEF Init, TypeOK, NoWrite, LastWrites
<1>6. Cursor
  BY DEF Init, Cursor
<1> QED
  BY <1>5, <1>6 DEF TypeInv

\* Every status the config controller may move to is a status again.
LEMMA DispatchedType ==
    ASSUME NEW s \in StatusType, NEW g \in Nat PROVE Dispatched(s, g) \in StatusType
<1>1. [s EXCEPT !.phase = "Applying"] \in StatusType
  BY DEF StatusType
<1>2. [[s EXCEPT !.phase = "Applying"] EXCEPT !.obs = g] \in StatusType
  BY <1>1 DEF StatusType
<1> QED
  BY <1>2 DEF Dispatched, StatusType

LEMMA MovedType ==
    ASSUME NEW s \in StatusType
    PROVE  /\ Succeeded(s) \in StatusType
           /\ Failed(s) \in StatusType
           /\ Reset(s) \in StatusType
<1>1. \A p \in {"Pending", "Applied", "Failed"} : [s EXCEPT !.phase = p] \in StatusType
  BY DEF StatusType
<1> QED
  BY <1>1 DEF Succeeded, Failed, Reset, StatusType

Kinds == {"fault", "edit", "delete", "upset"}

LEMMA SpendType ==
    ASSUME TypeInv, NEW kind \in Kinds, NEW max, Spend(kind, max)
    PROVE  count' \in [Kinds -> Nat]
BY DEF TypeInv, TypeOK, Spend, Kinds

LEMMA FaultType ==
    ASSUME TypeInv, NEW kind, Fault(kind)
    PROVE  count' \in [Kinds -> Nat]
BY SpendType DEF Fault, Kinds

LEMMA DatedType ==
    ASSUME NEW c \in Configs, NEW new \in StatusType
    PROVE  [c EXCEPT !.st = new, !.age = 0] \in Configs
<1> DEFINE d == [c EXCEPT !.st = new]
<1>1. d \in Configs
  BY DEF Configs
<1>2. [d EXCEPT !.age = 0] \in Configs
  <2> HIDE DEF d
  <2> QED
    BY <1>1, CapType DEF Configs
<1> QED
  BY <1>2

LEMMA SetStatusType ==
    ASSUME TypeInv, NEW t \in Targets, NEW new \in StatusType, SetStatus(t, new)
    PROVE  cfg' \in [Targets -> Configs] /\ verified' \subseteq Targets
<1>1. cfg[t] \in Configs
  BY DEF TypeInv, TypeOK
<1>2. [cfg[t] EXCEPT !.st = new, !.age = 0] \in Configs
  BY <1>1, DatedType
<1> QED
  BY <1>2 DEF TypeInv, TypeOK, SetStatus

\* A step that leaves the binding's record of targetRefs and the cursor alone.
LEMMA TypeReconcile == TypeInv /\ Reconcile => TypeInv'
BY DEF TypeInv, TypeOK, Cursor, Reconcile, api, Bindings

LEMMA TypeCleanup ==
    TypeInv /\ (cleanupOrphans \/ RenderOrCleanupFails) => TypeInv'
<1> SUFFICES ASSUME TypeInv, cleanupOrphans \/ RenderOrCleanupFails PROVE TypeInv'
  OBVIOUS
<1>1. \A S \in SUBSET Targets : DeleteAll(S) \in [Targets -> Configs]
  BY CapType DEF TypeInv, TypeOK, DeleteAll, Absent, Configs, NewStatus, StatusType
<1>2. Orphans \in SUBSET Targets
  BY DEF Orphans
<1>3. cfg' \in [Targets -> Configs]
  BY <1>1, <1>2 DEF cleanupOrphans, RenderOrCleanupFails
<1>4. 1 \in DOMAIN b.refs
  BY DEF TypeInv, TypeOK, Cursor, Bindings
<1>5. CASE cleanupOrphans
  BY <1>3, <1>4, <1>5 DEF TypeInv, TypeOK, Cursor, cleanupOrphans
<1>6. CASE RenderOrCleanupFails
  <2>1. count' \in [Kinds -> Nat]
    BY <1>6, FaultType DEF RenderOrCleanupFails
  <2> QED
    BY <1>3, <1>6, <2>1 DEF TypeInv, TypeOK, Cursor, Kinds, RenderOrCleanupFails
<1> QED
  BY <1>5, <1>6

LEMMA TypeWalk ==
    TypeInv /\ (Halt \/ Wait \/ EndOfWalk \/ FirstMismatch) => TypeInv'
<1> SUFFICES ASSUME TypeInv, Halt \/ Wait \/ EndOfWalk \/ FirstMismatch PROVE TypeInv'
  OBVIOUS
<1>1. CASE FirstMismatch
  <2>1. DOMAIN b.refs = 1..Len(b.refs) /\ Len(b.refs) \in Nat
    BY DEF TypeInv, TypeOK, Bindings
  <2>2. k' \in Stops
    BY <1>1 DEF FirstMismatch
  <2>3. k' \in DOMAIN b.refs /\ k' \in Nat \ {0}
    BY <2>1, <2>2 DEF Stops
  <2>4. TypeOK'
    BY <1>1, <2>3, CapType DEF TypeInv, TypeOK, FirstMismatch, api
  <2>5. Cursor'
    BY <1>1, <2>3 DEF TypeInv, Cursor, FirstMismatch, api
  <2> QED
    BY <2>4, <2>5 DEF TypeInv
<1>2. CASE Halt
  BY <1>2 DEF TypeInv, TypeOK, Cursor, Halt, api
<1>3. CASE Wait
  BY <1>3 DEF TypeInv, TypeOK, Cursor, Wait, Return, api, local
<1>4. CASE EndOfWalk
  BY <1>4 DEF TypeInv, TypeOK, Cursor, EndOfWalk, api
<1> QED
  BY <1>1, <1>2, <1>3, <1>4

LEMMA TypeStamp == TypeInv /\ stampRolloutFrontier => TypeInv'
<1> SUFFICES ASSUME TypeInv, stampRolloutFrontier PROVE TypeInv'
  OBVIOUS
<1>1. Stamped(b.refs[k]) \in Rollouts
  BY DEF TypeInv, TypeOK, Cursor, stampRolloutFrontier, Stamped, Bindings, Rollouts
<1>2. cached' \in Bindings /\ cached'.refs # <<>>
  BY <1>1 DEF TypeInv, TypeOK, Cursor, stampRolloutFrontier, Publish, Bindings
<1>3. last' \in LastWrites
  <2>1. last' \in {last, Misled}
    BY DEF stampRolloutFrontier
  <2>2. Misled \in LastWrites
    BY CapType DEF Misled, LastWrites
  <2>3. last \in LastWrites
    BY DEF TypeInv, TypeOK
  <2> QED
    BY <2>1, <2>2, <2>3
<1> QED
  BY <1>1, <1>2, <1>3 DEF TypeInv, TypeOK, Cursor, stampRolloutFrontier, Publish, local

LEMMA TypeWrite == TypeInv /\ createOrUpdateOne => TypeInv'
<1> SUFFICES ASSUME TypeInv, createOrUpdateOne PROVE TypeInv'
  OBVIOUS
<1>1. b.refs[k] \in Targets /\ k \in 1..Len(b.refs)
  <2>1. pc = "write" /\ b.refs \in Seq(Targets) /\ (pc = "write" => k \in DOMAIN b.refs)
    BY DEF TypeInv, TypeOK, Cursor, createOrUpdateOne, Bindings
  <2> QED
    BY <2>1
<1> DEFINE t == b.refs[k]
<1>2. AfterWrite(cfg[t], desired[t]) \in Configs
  <2>1. cfg[t] \in Configs /\ desired[t] \in Nat
    BY <1>1 DEF TypeInv, TypeOK
  <2> QED
    BY <2>1, CapType DEF AfterWrite, Absent, Configs, NewStatus, StatusType
<1>3. cfg' \in [Targets -> Configs] /\ verified' \subseteq Targets
  <2>1. cfg \in [Targets -> Configs] /\ verified \subseteq Targets
    BY DEF TypeInv, TypeOK
  <2>2. \/ cfg' = cfg /\ verified' = verified
        \/ cfg' = [cfg EXCEPT ![t] = AfterWrite(@, desired[t])] /\ verified' = verified \ {t}
    BY DEF createOrUpdateOne
  <2> QED
    BY <1>1, <1>2, <2>1, <2>2
<1>4. last' \in LastWrites
  <2>1. last \in LastWrites /\ took \in 0..Cap
    BY DEF TypeInv, TypeOK
  <2>2. [last EXCEPT !.target = t, !.stamp = took] \in LastWrites
    BY <1>1, <2>1 DEF LastWrites
  <2>3. last' \in {last, [last EXCEPT !.target = t, !.stamp = took]}
    BY DEF createOrUpdateOne
  <2> QED
    BY <2>1, <2>2, <2>3
<1>5. k' \in Nat \ {0} /\ (pc' = "write" => k' \in DOMAIN b.refs)
      /\ pc' \in {"idle", "write", "ready"}
  <2>1. DOMAIN b.refs = 1..Len(b.refs) /\ Len(b.refs) \in Nat
    BY DEF TypeInv, TypeOK, Bindings
  <2>2. CASE mode = "Disabled"
    <3>1. CASE k < Len(b.refs)
      <4>1. k' = k + 1 /\ pc' = pc /\ pc = "write"
        BY <2>2, <3>1 DEF createOrUpdateOne
      <4> QED
        BY <1>1, <2>1, <3>1, <4>1
    <3>2. CASE ~(k < Len(b.refs))
      <4>1. k' = k /\ pc' = "ready"
        BY <2>2, <3>2 DEF createOrUpdateOne
      <4> QED
        BY <1>1, <2>1, <4>1
    <3> QED
      BY <3>1, <3>2
  <2>3. CASE mode # "Disabled"
    BY <1>1, <2>3 DEF TypeInv, TypeOK, createOrUpdateOne, Return, local
  <2> QED
    BY <2>2, <2>3
<1>6. b' = b /\ desired' = desired /\ took' = took /\ queued' \in BOOLEAN
      /\ verdict' \in {"True", "ReconcileError", "RolloutInProgress", "RolloutHalted"}
  BY DEF TypeInv, TypeOK, createOrUpdateOne, Return, local
<1>7. UNCHANGED <<mode, want, refs, rollout, ready, cached, count>>
  BY DEF createOrUpdateOne
<1> QED
  BY <1>3, <1>4, <1>5, <1>6, <1>7 DEF TypeInv, TypeOK, Cursor

LEMMA TypeReady ==
    TypeInv /\ (setReadyCondition \/ setReadyConditionFails) => TypeInv'
<1> SUFFICES ASSUME TypeInv, setReadyCondition \/ setReadyConditionFails PROVE TypeInv'
  OBVIOUS
<1>1. CASE setReadyCondition
  BY <1>1 DEF TypeInv, TypeOK, Cursor, setReadyCondition, Return, local
<1>2. CASE setReadyConditionFails
  <2>1. count' \in [Kinds -> Nat]
    BY <1>2, FaultType DEF setReadyConditionFails
  <2> QED
    BY <1>2, <2>1 DEF TypeInv, TypeOK, Cursor, Kinds, setReadyConditionFails, Return, api, local
<1> QED
  BY <1>1, <1>2

LEMMA TypeFails == TypeInv /\ (WalkFails \/ WriteFails \/ Crash) => TypeInv'
<1> SUFFICES ASSUME TypeInv, WalkFails \/ WriteFails \/ Crash PROVE TypeInv'
  OBVIOUS
<1>1. count' \in [Kinds -> Nat]
  BY FaultType DEF WalkFails, WriteFails, Crash
<1>2. CASE WalkFails
  BY <1>1, <1>2 DEF TypeInv, TypeOK, Cursor, Kinds, WalkFails, Return, api, local
<1>3. CASE WriteFails
  BY <1>1, <1>3 DEF TypeInv, TypeOK, Cursor, Kinds, WriteFails, Return, api
<1>4. CASE Crash
  BY <1>1, <1>4 DEF TypeInv, TypeOK, Cursor, Kinds, Crash, Bindings, local
<1> QED
  BY <1>2, <1>3, <1>4

LEMMA TypeEdit == TypeInv /\ EditRefs => TypeInv'
<1> SUFFICES ASSUME TypeInv, EditRefs PROVE TypeInv'
  OBVIOUS
<1>1. count' \in [Kinds -> Nat]
  BY SpendType DEF EditRefs, Kinds
<1>2. refs \in Seq(Targets) /\ Len(refs) \in Nat /\ DOMAIN refs = 1..Len(refs)
  BY DEF TypeInv, TypeOK
<1>3. refs' \in Seq(Targets) /\ refs' # <<>>
  <2>1. ASSUME NEW i \in DOMAIN refs, Len(refs) > 1, refs' = Without(i)
        PROVE  refs' \in Seq(Targets) /\ refs' # <<>>
    <3> DEFINE x == SubSeq(refs, 1, i - 1)
               y == SubSeq(refs, i + 1, Len(refs))
    <3>1. x \in Seq(Targets) /\ Len(x) = i - 1
      BY <1>2, <2>1
    <3>2. y \in Seq(Targets) /\ Len(y) = Len(refs) - i
      BY <1>2, <2>1
    <3>3. refs' = x \o y
      BY <2>1 DEF Without
    <3> HIDE DEF x, y
    <3>4. refs' \in Seq(Targets) /\ Len(refs') = Len(x) + Len(y)
      BY <3>1, <3>2, <3>3, ConcatProperties
    <3>5. Len(refs') > 0
      BY <1>2, <2>1, <3>1, <3>2, <3>4
    <3> QED
      BY <3>4, <3>5
  <2>2. ASSUME NEW t \in Targets, refs' = Append(refs, t)
        PROVE  refs' \in Seq(Targets) /\ refs' # <<>>
    BY <1>2, <2>2
  <2> QED
    BY <2>1, <2>2 DEF EditRefs, Publish
<1>4. /\ UNCHANGED <<mode, want, cfg, rollout, ready, pc, b, desired, k, took, verdict, last, verified>>
      /\ queued' \in BOOLEAN
      /\ cached' \in {cached, [refs |-> refs', rollout |-> rollout]}
  <2>1. PICK newRefs : Publish(newRefs, rollout)
    BY DEF EditRefs
  <2> QED
    BY <2>1 DEF TypeInv, TypeOK, EditRefs, Publish, local
<1>5. cached' \in Bindings /\ cached'.refs # <<>>
  <2>1. [refs |-> refs', rollout |-> rollout] \in Bindings
    BY <1>3 DEF TypeInv, TypeOK, Bindings
  <2>2. cached \in Bindings /\ cached.refs # <<>>
    BY DEF TypeInv, TypeOK, Cursor
  <2>3. [refs |-> refs', rollout |-> rollout].refs = refs'
    OBVIOUS
  <2> QED
    BY <1>3, <1>4, <2>1, <2>2, <2>3
<1> QED
  BY <1>1, <1>3, <1>4, <1>5 DEF TypeInv, TypeOK, Cursor, Kinds

LEMMA TypeWorld ==
    TypeInv /\ (SyncCache \/ \E S \in SUBSET Targets : Rerender(S)) => TypeInv'
<1> SUFFICES ASSUME TypeInv, SyncCache \/ \E S \in SUBSET Targets : Rerender(S)
             PROVE  TypeInv'
  OBVIOUS
<1>1. CASE SyncCache
  BY <1>1 DEF TypeInv, TypeOK, Cursor, SyncCache, Bindings, local
<1>2. ASSUME NEW S \in SUBSET Targets, Rerender(S) PROVE TypeInv'
  <2>1. want' \in [Targets -> Nat \ {0}]
    BY <1>2 DEF TypeInv, TypeOK, Rerender
  <2> QED
    BY <1>2, <2>1 DEF TypeInv, TypeOK, Cursor, Rerender, local
<1> QED
  BY <1>1, <1>2

LEMMA TypeConfig ==
    ASSUME TypeInv, NEW t \in Targets, DeleteConfig(t) \/ Applies(t) \/ Upset(t)
    PROVE  TypeInv'
<1> DEFINE s == cfg[t].st
<1>1. cfg[t] \in Configs /\ s \in StatusType /\ cfg[t].spec \in Nat
  BY DEF TypeInv, TypeOK, Configs
<1>2. CASE DeleteConfig(t)
  <2>1. count' \in [Kinds -> Nat]
    BY <1>2, SpendType DEF DeleteConfig, Kinds
  <2>2. cfg' \in [Targets -> Configs]
    BY <1>2, CapType
       DEF TypeInv, TypeOK, DeleteConfig, Absent, Configs, NewStatus, StatusType
  <2>3. UNCHANGED <<mode, want, refs, rollout, ready, cached, queued, pc, b, desired, k, took,
                    verdict, last, verified>>
    BY <1>2 DEF DeleteConfig, local
  <2> QED
    BY <2>1, <2>2, <2>3, ZenonT(40) DEF TypeInv, TypeOK, Cursor, Kinds
<1>3. ASSUME NEW new \in StatusType, SetStatus(t, new), count' \in [Kinds -> Nat]
      PROVE  TypeInv'
  <2>1. cfg' \in [Targets -> Configs] /\ verified' \subseteq Targets
    BY <1>3, SetStatusType
  <2>2. UNCHANGED <<mode, want, refs, rollout, ready, cached, queued, pc, b, desired, k, took,
                    verdict, last>>
    BY <1>3 DEF SetStatus, local
  <2> QED
    BY <1>3, <2>1, <2>2, ZenonT(40) DEF TypeInv, TypeOK, Cursor, Kinds
<1>4. \A g \in Nat : Dispatched(s, g) \in StatusType
  <2> HIDE DEF s
  <2> QED
    BY <1>1, DispatchedType
<1>5. Succeeded(s) \in StatusType /\ Failed(s) \in StatusType /\ Reset(s) \in StatusType
  <2> HIDE DEF s
  <2> QED
    BY <1>1, MovedType
<1>6. CASE Applies(t)
  <2>1. count' \in [Kinds -> Nat]
    BY <1>6 DEF Applies, TypeInv, TypeOK, Kinds
  <2>2. \E new \in StatusType : SetStatus(t, new)
    BY <1>1, <1>4, <1>5, <1>6 DEF Applies
  <2> QED
    BY <1>3, <2>1, <2>2
<1>7. CASE Upset(t)
  <2>1. count' \in [Kinds -> Nat]
    BY <1>7, SpendType DEF Upset, Kinds
  <2>2. \E new \in StatusType : SetStatus(t, new)
    BY <1>1, <1>4, <1>5, <1>7 DEF Upset
  <2> QED
    BY <1>3, <2>1, <2>2
<1> QED
  BY <1>2, <1>6, <1>7

LEMMA TypeTick == TypeInv /\ Tick => TypeInv'
<1> SUFFICES ASSUME TypeInv, Tick PROVE TypeInv'
  OBVIOUS
<1>1. cfg' \in [Targets -> Configs]
  <2>1. \A c \in Configs : [c EXCEPT !.age = Older(@)] \in Configs
    BY OlderType DEF Configs
  <2> QED
    BY <2>1 DEF TypeInv, TypeOK, Tick
<1>2. rollout' \in Rollouts
  BY OlderType DEF TypeInv, TypeOK, Tick, Rollouts
<1>3. \A c \in Bindings : /\ [c EXCEPT !.rollout.age = Older(@)] \in Bindings
                          /\ [c EXCEPT !.rollout.age = Older(@)].refs = c.refs
  BY OlderType DEF Bindings, Rollouts
<1>4. /\ cached' \in Bindings /\ cached'.refs = cached.refs
      /\ b' \in Bindings /\ b'.refs = b.refs
  BY <1>3 DEF TypeInv, TypeOK, Tick
<1>5. took' \in 0..Cap
  BY OlderType DEF TypeInv, TypeOK, Tick
<1>6. last' \in LastWrites
  <2>1. \A l \in LastWrites : [l EXCEPT !.stamp = Older(@)] \in LastWrites
    BY OlderType DEF LastWrites
  <2> QED
    BY <2>1 DEF TypeInv, TypeOK, Tick
<1> QED
  BY <1>1, <1>2, <1>4, <1>5, <1>6 DEF TypeInv, TypeOK, Cursor, Tick

LEMMA TypeStep == TypeInv /\ [Next]_vars => TypeInv'
<1> SUFFICES ASSUME TypeInv, [Next]_vars PROVE TypeInv'
  OBVIOUS
<1>1. CASE Controller
  BY <1>1, TypeReconcile, TypeCleanup, TypeWalk, TypeStamp, TypeWrite, TypeReady, TypeFails
     DEF Controller
<1>2. CASE Environment
  BY <1>2, TypeFails, TypeEdit, TypeWorld, TypeConfig, TypeTick DEF Environment
<1>3. CASE UNCHANGED vars
  BY <1>3 DEF TypeInv, TypeOK, Cursor, vars, api, local
<1> QED
  BY <1>1, <1>2, <1>3 DEF Next

\* The types hold in every reachable state, for any targets, mode and durations.
THEOREM TypeCorrect == Spec => []TypeOK
<1>1. Spec => []TypeInv
  BY TypeInit, TypeStep, PTL DEF Spec
<1>2. TypeInv => TypeOK
  BY DEF TypeInv
<1> QED
  BY <1>1, <1>2, PTL

----------------------------------------------------------------------------
(* What an Applied condition proves, in any mode and with any cache.       *)
(*                                                                         *)
(* The walk reads a condition and the reconcile reports it a step later.   *)
(* That a condition for the current spec means the last write was applied  *)
(* rests on the order of the specs: no status runs ahead of its config, no *)
(* config ahead of what the running reconcile rendered, and no render      *)
(* ahead of the latest; so a write always leaves the old condition behind. *)

AppliedIsVerified ==
    \A t \in Targets : (cfg[t].spec > 0 /\ cfg[t].st.ok = cfg[t].spec) => t \in verified

SpecOrder ==
    \A t \in Targets : /\ cfg[t].st.obs <= cfg[t].spec /\ cfg[t].st.ok <= cfg[t].spec
                       /\ cfg[t].spec <= want[t] /\ desired[t] <= want[t]
                       /\ pc # "idle" => cfg[t].spec <= desired[t]

Ordered == AppliedIsVerified /\ SpecOrder

\* What ReadySound asks of the configs, for as long as a True is on its way.
Completed == \A t \in Elements(b.refs) :
                 cfg[t].spec > 0 => cfg[t].spec = desired[t] /\ t \in verified

VerdictSound ==
    (mode = "WaitForApplied" /\ pc = "ready" /\ verdict = "True") => Completed

LEMMA OrderedInit == Init => Ordered /\ VerdictSound
BY DEF Init, Ordered, AppliedIsVerified, SpecOrder, VerdictSound, Absent, NewStatus

\* Deleting configs keeps the order.
LEMMA DeleteKeeps ==
    ASSUME TypeInv, Ordered, NEW S \in SUBSET Targets, cfg' = DeleteAll(S),
           UNCHANGED <<want, desired, verified>>, pc' = "idle" <=> pc = "idle"
    PROVE  /\ Ordered'
           /\ Unverified' \subseteq Unverified
           /\ \A t \in Targets : cfg'[t].spec \in {0, cfg[t].spec}
<1>1. \A t \in Targets : cfg'[t] = IF t \in S THEN Absent ELSE cfg[t]
  BY DEF DeleteAll
<1>2. Absent.spec = 0 /\ Absent.st.obs = 0 /\ Absent.st.ok = 0
  BY DEF Absent, NewStatus
<1>3. Unverified' \subseteq Unverified /\ \A t \in Targets : cfg'[t].spec \in {0, cfg[t].spec}
  BY <1>1, <1>2 DEF Unverified
<1>4. AppliedIsVerified'
  BY <1>1, <1>2 DEF Ordered, AppliedIsVerified
<1>5. SpecOrder'
  <2>1. \A t \in Targets : want[t] \in Nat /\ desired[t] \in Nat
    BY DEF TypeInv, TypeOK
  <2> QED
    BY <1>1, <1>2, <2>1 DEF Ordered, SpecOrder
<1> QED
  BY <1>3, <1>4, <1>5 DEF Ordered

\* A write gives the config the spec rendered for it, which its condition is not of.
LEMMA WriteKeeps ==
    ASSUME TypeInv, Ordered, createOrUpdateOne
    PROVE  /\ Ordered'
           /\ Unverified' \subseteq Unverified \cup {b.refs[k]}
<1> DEFINE t == b.refs[k]
<1>1. t \in Targets /\ pc = "write" /\ UNCHANGED <<want, desired>>
  BY DEF TypeInv, TypeOK, Cursor, Bindings, createOrUpdateOne, local
<1>2. CASE ~Mismatch(t)
  <2>1. UNCHANGED <<cfg, verified>>
    BY <1>2 DEF createOrUpdateOne
  <2> QED
    BY <1>1, <2>1 DEF Ordered, AppliedIsVerified, SpecOrder, Unverified
<1>3. CASE Mismatch(t)
  <2>1. /\ verified' = verified \ {t}
        /\ cfg' = [cfg EXCEPT ![t] = AfterWrite(cfg[t], desired[t])]
    BY <1>3 DEF createOrUpdateOne
  <2>2. /\ \A u \in Targets \ {t} : cfg'[u] = cfg[u]
        /\ cfg'[t] = AfterWrite(cfg[t], desired[t])
    BY <1>1, <2>1 DEF TypeInv, TypeOK
  <2>3. /\ cfg'[t].spec = desired[t]
        /\ cfg'[t].st = IF cfg[t].spec = 0 THEN NewStatus ELSE cfg[t].st
    BY <1>1, <2>2 DEF AfterWrite, Absent, TypeInv, TypeOK, Configs
  <2>4. /\ desired[t] \in Nat /\ cfg[t].spec \in Nat
        /\ cfg[t].st.obs \in Nat /\ cfg[t].st.ok \in Nat
        /\ want[t] \in Nat /\ cfg[t].spec <= desired[t] /\ desired[t] # cfg[t].spec
    BY <1>1, <1>3 DEF TypeInv, TypeOK, Configs, StatusType, Ordered, SpecOrder, Mismatch
  <2>5. cfg'[t].st.obs <= cfg[t].spec /\ cfg'[t].st.ok <= cfg[t].spec
    BY <1>1, <2>3, <2>4 DEF NewStatus, Ordered, SpecOrder
  <2>6. AppliedIsVerified'
    <3>1. cfg'[t].st.ok # cfg'[t].spec
      BY <2>3, <2>4, <2>5 DEF NewStatus
    <3> QED
      BY <2>1, <2>2, <3>1 DEF Ordered, AppliedIsVerified
  <2>7. SpecOrder'
    <3>1. /\ cfg'[t].st.obs <= cfg'[t].spec /\ cfg'[t].st.ok <= cfg'[t].spec
          /\ cfg'[t].spec <= want[t]
      BY <1>1, <2>3, <2>4, <2>5 DEF NewStatus, Ordered, SpecOrder
    <3> QED
      BY <1>1, <2>2, <2>3, <2>4, <3>1 DEF Ordered, SpecOrder
  <2>8. Unverified' \subseteq Unverified \cup {t}
    BY <1>1, <2>1, <2>2 DEF Unverified
  <2> QED
    BY <2>6, <2>7, <2>8 DEF Ordered
<1> QED
  BY <1>2, <1>3

\* A status move names a dispatched generation, and dates it no later than the spec.
LEMMA MoveBounds ==
    ASSUME NEW s \in StatusType, NEW new \in StatusType, NEW gen \in Nat,
           s.obs <= gen, Move(s, new, gen)
    PROVE  new.obs <= gen /\ new.ok <= gen
<1>1. CASE CanDispatch(s, new.obs, gen) /\ new = Dispatched(s, new.obs)
  <2>1. new.ok = 0
    BY <1>1 DEF Dispatched, StatusType
  <2> QED
    BY <1>1, <2>1 DEF CanDispatch
<1>2. CASE new = Succeeded(s)
  BY <1>2 DEF Succeeded, StatusType
<1>3. CASE new = Failed(s)
  BY <1>3 DEF Failed, StatusType
<1>4. CASE new = Reset(s)
  BY <1>4 DEF Reset, StatusType
<1> QED
  BY <1>1, <1>2, <1>3, <1>4 DEF Move

\* The config controller's moves keep the order; a new True is of the last write.
LEMMA SetStatusKeeps ==
    ASSUME TypeInv, Ordered, NEW t \in Targets, cfg[t].spec > 0,
           NEW new \in StatusType, SetStatus(t, new)
    PROVE  /\ Ordered' /\ verified \subseteq verified'
           /\ Unverified' \subseteq Unverified
           /\ \A u \in Targets : cfg'[u].spec = cfg[u].spec
<1>1. cfg[t] \in Configs /\ cfg[t].st \in StatusType /\ cfg[t].spec \in Nat
  BY DEF TypeInv, TypeOK, Configs
<1>2. UNCHANGED <<want, desired, pc>>
  BY DEF SetStatus, local
<1>3. /\ cfg'[t].spec = cfg[t].spec /\ cfg'[t].st = new
      /\ \A u \in Targets \ {t} : cfg'[u] = cfg[u]
  <2>1. cfg' = [cfg EXCEPT ![t] = [cfg[t] EXCEPT !.st = new, !.age = 0]]
    BY DEF SetStatus, TypeInv, TypeOK
  <2>2. \A c \in Configs : [c EXCEPT !.st = new, !.age = 0].spec = c.spec
                           /\ [c EXCEPT !.st = new, !.age = 0].st = new
    BY DEF Configs
  <2> QED
    BY <1>1, <2>1, <2>2 DEF TypeInv, TypeOK
<1>4. new.obs <= cfg[t].spec /\ new.ok <= cfg[t].spec
  BY <1>1, MoveBounds DEF SetStatus, Ordered, SpecOrder
<1>5. SpecOrder'
  BY <1>2, <1>3, <1>4 DEF Ordered, SpecOrder
<1>6. verified \subseteq verified' /\ (new.ok = cfg[t].spec => t \in verified')
  BY <1>1 DEF SetStatus
<1>7. AppliedIsVerified'
  BY <1>3, <1>6 DEF Ordered, AppliedIsVerified
<1>8. Unverified' \subseteq Unverified
  BY <1>3, <1>6 DEF Unverified
<1> QED
  BY <1>3, <1>5, <1>6, <1>7, <1>8 DEF Ordered

LEMMA MovesStatus ==
    ASSUME TypeInv, NEW t \in Targets, Applies(t) \/ Upset(t)
    PROVE  cfg[t].spec > 0 /\ \E new \in StatusType : SetStatus(t, new)
<1> DEFINE s == cfg[t].st
<1>1. s \in StatusType /\ s.obs \in Nat /\ cfg[t].spec \in Nat
  BY DEF TypeInv, TypeOK, Configs, StatusType
<1>2. /\ \A g \in Nat : Dispatched(s, g) \in StatusType
      /\ Succeeded(s) \in StatusType /\ Failed(s) \in StatusType /\ Reset(s) \in StatusType
  <2> HIDE DEF s
  <2> QED
    BY <1>1, DispatchedType, MovedType
<1> QED
  BY <1>1, <1>2 DEF Applies, Upset

LEMMA DeleteConfigDeletes ==
    ASSUME TypeInv, NEW t \in Targets, DeleteConfig(t)
    PROVE  cfg' = DeleteAll({t})
BY DEF DeleteConfig, DeleteAll, TypeInv, TypeOK

LEMMA RerenderKeeps ==
    ASSUME TypeInv, Ordered, NEW S \in SUBSET Targets, Rerender(S) PROVE Ordered'
<1>1. UNCHANGED <<cfg, pc, desired, verified>>
  BY DEF Rerender, local
<1>2. \A t \in Targets : want[t] \in Nat /\ want'[t] \in Nat /\ want[t] <= want'[t]
  BY DEF Rerender, TypeInv, TypeOK
<1>3. \A t \in Targets : cfg[t].spec \in Nat /\ desired[t] \in Nat
  BY DEF TypeInv, TypeOK, Configs
<1>4. SpecOrder'
  BY <1>1, <1>2, <1>3 DEF Ordered, SpecOrder
<1> QED
  BY <1>1, <1>4 DEF Ordered, AppliedIsVerified

LEMMA TickKeeps ==
    ASSUME TypeInv, Tick
    PROVE  /\ \A t \in Targets : cfg'[t].spec = cfg[t].spec /\ cfg'[t].st = cfg[t].st
           /\ Unverified' = Unverified /\ (Ordered => Ordered')
<1>1. UNCHANGED <<want, pc, desired, verified>>
  BY DEF Tick
<1>2. \A t \in Targets : cfg'[t].spec = cfg[t].spec /\ cfg'[t].st = cfg[t].st
  <2>1. \A c \in Configs : /\ [c EXCEPT !.age = Older(@)].spec = c.spec
                           /\ [c EXCEPT !.age = Older(@)].st = c.st
    BY DEF Configs
  <2> QED
    BY <2>1 DEF Tick, TypeInv, TypeOK
<1> QED
  BY <1>1, <1>2 DEF Unverified, Ordered, AppliedIsVerified, SpecOrder

\* Every step keeps the order, whatever the mode and the age of the cached binding.
LEMMA OrderedStep == TypeInv /\ Ordered /\ [Next]_vars => Ordered'
<1> SUFFICES ASSUME TypeInv, Ordered, [Next]_vars PROVE Ordered'
  OBVIOUS
<1>1. ASSUME UNCHANGED <<want, cfg, desired, verified>>, pc = "idle" => pc' = "idle"
      PROVE  Ordered'
  BY <1>1 DEF Ordered, AppliedIsVerified, SpecOrder
<1>2. CASE Reconcile
  <2>1. UNCHANGED <<want, cfg, verified>> /\ desired' = want
    BY <1>2 DEF Reconcile, api
  <2> QED
    BY <2>1 DEF Ordered, AppliedIsVerified, SpecOrder, TypeInv, TypeOK
<1>3. CASE cleanupOrphans \/ RenderOrCleanupFails
  <2>1. PICK S \in SUBSET Orphans : cfg' = DeleteAll(S)
    BY <1>3 DEF cleanupOrphans, RenderOrCleanupFails
  <2>2. UNCHANGED <<want, desired, verified>> /\ pc # "idle" /\ pc' # "idle"
    BY <1>3 DEF cleanupOrphans, RenderOrCleanupFails
  <2> QED
    BY <2>1, <2>2, DeleteKeeps DEF Orphans
<1>4. CASE Halt \/ Wait \/ EndOfWalk \/ FirstMismatch \/ stampRolloutFrontier
           \/ setReadyCondition \/ setReadyConditionFails \/ WalkFails \/ WriteFails
  <2>1. UNCHANGED <<want, cfg, desired, verified>> /\ pc # "idle"
    BY <1>4 DEF Halt, Wait, EndOfWalk, FirstMismatch, stampRolloutFrontier, setReadyCondition,
                setReadyConditionFails, WalkFails, WriteFails, api, local
  <2> QED
    BY <1>1, <2>1
<1>5. CASE Controller
  BY <1>2, <1>3, <1>4, <1>5, WriteKeeps DEF Controller
<1>6. CASE SyncCache \/ EditRefs \/ Crash
  <2>1. UNCHANGED <<want, cfg, desired, verified>> /\ pc' \in {pc, "idle"}
    BY <1>6 DEF SyncCache, EditRefs, Crash, local
  <2> QED
    BY <1>1, <2>1
<1>7. ASSUME NEW t \in Targets, DeleteConfig(t) \/ Applies(t) \/ Upset(t) PROVE Ordered'
  <2>1. CASE DeleteConfig(t)
    <3>1. UNCHANGED <<want, desired, verified, pc>>
      BY <2>1 DEF DeleteConfig, local
    <3> QED
      BY <2>1, <3>1, DeleteConfigDeletes, DeleteKeeps
  <2> QED
    BY <1>7, <2>1, MovesStatus, SetStatusKeeps
<1>8. CASE Environment
  BY <1>6, <1>7, <1>8, RerenderKeeps, TickKeeps DEF Environment
<1>9. CASE UNCHANGED vars
  BY <1>1, <1>9 DEF vars, api, local
<1> QED
  BY <1>5, <1>8, <1>9 DEF Next

\* The end of the walk: no config differs from its render and each is Applied.
LEMMA EndCompletes ==
    ASSUME TypeInv, Ordered, mode = "WaitForApplied", EndOfWalk, verdict' = "True"
    PROVE  Completed
<1>1. AllApplied /\ Stops = {}
  BY DEF EndOfWalk
<1>2. SUFFICES ASSUME NEW i \in DOMAIN b.refs, cfg[b.refs[i]].spec > 0
               PROVE  cfg[b.refs[i]].spec = desired[b.refs[i]] /\ b.refs[i] \in verified
  BY DEF Completed, Elements
<1>3. b.refs[i] \in Targets
  BY DEF TypeInv, TypeOK, Bindings
<1>4. ~Mismatch(b.refs[i])
  BY <1>1 DEF Stops
<1>5. AppliedForGeneration(cfg[b.refs[i]])
  BY <1>1 DEF AllApplied, Elements
<1> QED
  BY <1>2, <1>3, <1>4, <1>5 DEF Mismatch, AppliedForGeneration, Ordered, AppliedIsVerified

\* And it stays so until the condition is patched: until then a config of the
\* list can be deleted or Applied again, and nothing else.
LEMMA CompletedStays ==
    ASSUME TypeInv, Ordered, [Next]_vars, mode = "WaitForApplied", Completed,
           pc = "ready", pc' = "ready"
    PROVE  Completed'
<1>1. \A t \in Targets : cfg'[t].spec \in {0, cfg[t].spec}
  <2>1. ASSUME NEW t \in Targets, Applies(t) \/ Upset(t)
        PROVE  \A u \in Targets : cfg'[u].spec = cfg[u].spec
    BY <2>1, MovesStatus, SetStatusKeeps
  <2>2. ASSUME NEW t \in Targets, DeleteConfig(t)
        PROVE  \A u \in Targets : cfg'[u].spec \in {0, cfg[u].spec}
    <3>1. UNCHANGED <<want, desired, verified, pc>>
      BY <2>2 DEF DeleteConfig, local
    <3> QED
      BY <2>2, <3>1, DeleteConfigDeletes, DeleteKeeps
  <2>3. ~Controller
    BY DEF Controller, Reconcile, cleanupOrphans, RenderOrCleanupFails, Halt, Wait, EndOfWalk,
           FirstMismatch, stampRolloutFrontier, createOrUpdateOne, setReadyCondition,
           setReadyConditionFails, WalkFails, WriteFails, Return
  <2>4. CASE Environment
    <3>1. CASE Tick
      BY <3>1, TickKeeps
    <3>2. CASE SyncCache \/ EditRefs \/ Crash \/ \E S \in SUBSET Targets : Rerender(S)
      BY <3>2 DEF SyncCache, EditRefs, Crash, Rerender
    <3> QED
      BY <2>1, <2>2, <2>4, <3>1, <3>2 DEF Environment
  <2>5. CASE UNCHANGED vars
    BY <2>5 DEF vars, api
  <2> QED
    BY <2>3, <2>4, <2>5 DEF Next
<1>2. verified \subseteq verified'
  <2>1. ASSUME NEW t \in Targets, Applies(t) \/ Upset(t) PROVE verified \subseteq verified'
    BY <2>1, MovesStatus, SetStatusKeeps
  <2> QED
    BY <2>1 DEF Next, Environment, Controller, Reconcile, cleanupOrphans, RenderOrCleanupFails,
           Halt, Wait, EndOfWalk, FirstMismatch, stampRolloutFrontier, createOrUpdateOne,
           setReadyCondition, setReadyConditionFails, WalkFails, WriteFails, SyncCache, EditRefs,
           Rerender, Crash, Tick, DeleteConfig, vars
<1>3. desired' = desired /\ b'.refs = b.refs
  <2>1. desired' = desired /\ (b' = b \/ Tick)
    BY DEF Next, Environment, Controller, Reconcile, cleanupOrphans, RenderOrCleanupFails,
           Halt, Wait, EndOfWalk, FirstMismatch, stampRolloutFrontier, createOrUpdateOne,
           setReadyCondition, setReadyConditionFails, WalkFails, WriteFails, SyncCache, EditRefs,
           Rerender, Crash, Tick, DeleteConfig, Applies, Upset, SetStatus, vars, local
  <2>2. \A c \in Bindings : [c EXCEPT !.rollout.age = Older(@)].refs = c.refs
    BY DEF Bindings
  <2> QED
    BY <2>1, <2>2 DEF Tick, TypeInv, TypeOK
<1>4. Elements(b.refs) \subseteq Targets /\ Elements(b'.refs) = Elements(b.refs)
  BY <1>3 DEF TypeInv, TypeOK, Bindings, Elements
<1>5. \A t \in Elements(b.refs) : cfg'[t].spec > 0 => cfg'[t].spec = cfg[t].spec
  BY <1>1, <1>4
<1> QED
  BY <1>2, <1>3, <1>4, <1>5 DEF Completed

LEMMA ModeFrozen == [Next]_vars => mode' = mode
<1>1. Controller => mode' = mode
  BY DEF Controller, Reconcile, cleanupOrphans, RenderOrCleanupFails, Halt, Wait, EndOfWalk,
         FirstMismatch, stampRolloutFrontier, createOrUpdateOne, setReadyCondition,
         setReadyConditionFails, WalkFails, WriteFails, api
<1>2. Environment => mode' = mode
  BY DEF Environment, Rerender, EditRefs, SyncCache, Tick, Crash, DeleteConfig, Applies,
         SetStatus, Upset
<1> QED
  BY <1>1, <1>2 DEF Next, vars, api

LEMMA VerdictStep == TypeInv /\ Ordered /\ VerdictSound /\ [Next]_vars => VerdictSound'
<1> SUFFICES ASSUME TypeInv, Ordered, VerdictSound, [Next]_vars,
                    mode = "WaitForApplied", pc' = "ready", verdict' = "True"
             PROVE  Completed'
  BY ModeFrozen DEF VerdictSound
<1>1. CASE pc = "ready"
  <2>1. verdict' = verdict
    BY <1>1 DEF Next, Environment, Controller, Reconcile, cleanupOrphans, RenderOrCleanupFails,
           Halt, Wait, EndOfWalk, FirstMismatch, stampRolloutFrontier, createOrUpdateOne,
           setReadyCondition, setReadyConditionFails, WalkFails, WriteFails, SyncCache, EditRefs,
           Rerender, Crash, Tick, DeleteConfig, Applies, Upset, SetStatus, vars, local
  <2> QED
    BY <1>1, <2>1, CompletedStays DEF VerdictSound
<1>2. CASE pc # "ready"
  <2>1. EndOfWalk
    BY <1>2 DEF Next, Environment, Controller, Reconcile, cleanupOrphans, RenderOrCleanupFails,
           Halt, Wait, FirstMismatch, stampRolloutFrontier, createOrUpdateOne,
           setReadyCondition, setReadyConditionFails, WalkFails, WriteFails, SyncCache, EditRefs,
           Rerender, Crash, Tick, DeleteConfig, Applies, Upset, SetStatus, Return, vars
  <2>2. UNCHANGED <<cfg, b, desired, verified>>
    BY <2>1 DEF EndOfWalk, api
  <2> QED
    BY <2>1, <2>2, EndCompletes DEF Completed
<1> QED
  BY <1>1, <1>2

\* Where Ready turns True, a verdict of True was on its way.
LEMMA TurnsReady ==
    ASSUME [Next]_vars, ready' = "True", ready # "True"
    PROVE  pc = "ready" /\ verdict = "True"
BY DEF Next, Environment, Controller, Reconcile, cleanupOrphans, RenderOrCleanupFails,
       Halt, Wait, EndOfWalk, FirstMismatch, stampRolloutFrontier, createOrUpdateOne,
       setReadyCondition, setReadyConditionFails, WalkFails, WriteFails, SyncCache, EditRefs,
       Rerender, Crash, Tick, DeleteConfig, Applies, Upset, SetStatus, vars, api

\* WaitForApplied, with a cached binding however old and any pollInterval: Ready turns
\* True only when every config of the rendered list has its render, Applied.
THEOREM ReadyIsSound == ASSUME Modes = {"WaitForApplied"} PROVE Spec => ReadySound
<1> DEFINE Sound == (ready' = "True" /\ ready # "True") =>
                        \A t \in Elements(b.refs) :
                            cfg[t].spec > 0 => cfg[t].spec = desired[t] /\ t \in verified
           Inv == TypeInv /\ Ordered /\ VerdictSound
<1>1. Init => Inv
  BY TypeInit, OrderedInit
<1>2. Inv /\ [Next]_vars => Inv'
  BY TypeStep, OrderedStep, VerdictStep
<1>3. Inv /\ [Next]_vars => Sound
  <2> SUFFICES ASSUME Inv, [Next]_vars, ready' = "True", ready # "True" PROVE Completed
    BY DEF Completed
  <2>1. mode = "WaitForApplied"
    BY DEF TypeInv, TypeOK
  <2> QED
    BY <2>1, TurnsReady DEF VerdictSound
<1>4. Spec => [][Sound]_vars
  BY <1>1, <1>2, <1>3, PTL DEF Spec
<1> QED
  BY <1>4 DEF ReadySound

----------------------------------------------------------------------------
(* One config at a time.                                                   *)
(*                                                                         *)
(* UnverifiedIsFrontier is not inductive: what keeps it is the gate, and   *)
(* the gate's verdict is used two steps later.  The invariant carries it   *)
(* from the walk through the stamp to the write.                           *)

CacheCurrent == cached = [refs |-> refs, rollout |-> rollout]

ReadCurrent == pc \in {"orphans", "walk", "stamp"} => b.rollout = rollout

NoOrphan == pc \in {"walk", "stamp", "write"} =>
                \A t \in Targets \ Elements(b.refs) : cfg[t].spec = 0

GateOpen == pc = "stamp" => Unverified \subseteq {b.refs[k]}

WriteAhead == pc = "write" => rollout.target = b.refs[k]

SerialInv ==
    /\ Ordered /\ CacheCurrent /\ ReadCurrent
    /\ NoOrphan /\ GateOpen /\ WriteAhead /\ UnverifiedIsFrontier

\* The mode, a current cache, and the polling that admission should insist on.
Serial == Modes = {"WaitForApplied"} /\ Lag = {} /\ PollInterval > 0

LEMMA SerialInit == Init => SerialInv
BY DEF Init, SerialInv, Ordered, AppliedIsVerified, SpecOrder, CacheCurrent, ReadCurrent, NoOrphan,
       GateOpen, WriteAhead, UnverifiedIsFrontier, Unverified, Absent, NewStatus

\* Steps that only end the walk, end the reconcile, or lose it.
LEMMA SerialReturns ==
    ASSUME SerialInv, pc' = "idle" \/ (pc' = "ready" /\ pc # "idle"),
           UNCHANGED <<want, cfg, refs, rollout, b, desired, verified>>,
           cached' \in {cached, [refs |-> refs, rollout |-> rollout]}
    PROVE  SerialInv'
BY DEF SerialInv, Ordered, AppliedIsVerified, SpecOrder, CacheCurrent, ReadCurrent, NoOrphan,
       GateOpen, WriteAhead, UnverifiedIsFrontier, Unverified

LEMMA SerialReconcile == TypeInv /\ SerialInv /\ Reconcile => SerialInv'
<1> SUFFICES ASSUME TypeInv, SerialInv, Reconcile PROVE SerialInv'
  OBVIOUS
<1>1. /\ UNCHANGED <<want, cfg, refs, rollout, cached, verified>>
      /\ pc' = "orphans" /\ b' = cached /\ desired' = want
  BY DEF Reconcile, api
<1>2. Ordered'
  BY OrderedStep DEF SerialInv, Next, Controller
<1> QED
  BY <1>1, <1>2 DEF SerialInv, CacheCurrent, ReadCurrent, NoOrphan,
                    GateOpen, WriteAhead, UnverifiedIsFrontier, Unverified

LEMMA SerialMode == ASSUME Serial, TypeInv PROVE mode = "WaitForApplied"
BY DEF Serial, TypeInv, TypeOK

LEMMA SerialCleanup ==
    ASSUME Serial, TypeInv, SerialInv, cleanupOrphans \/ RenderOrCleanupFails
    PROVE  SerialInv'
<1>1. /\ UNCHANGED <<want, refs, rollout, cached, b, desired, verified>>
      /\ pc = "orphans" /\ pc' \in {"write", "walk", "ready"}
  BY DEF cleanupOrphans, RenderOrCleanupFails
<1>2. PICK S \in SUBSET Orphans : cfg' = DeleteAll(S)
  BY DEF cleanupOrphans, RenderOrCleanupFails
<1>3. Ordered' /\ UnverifiedIsFrontier'
  BY <1>1, <1>2, DeleteKeeps DEF Orphans, SerialInv, UnverifiedIsFrontier
<1>4. ASSUME cleanupOrphans PROVE NoOrphan' /\ pc' = "walk"
  <2>1. cfg' = DeleteAll(Orphans) /\ pc' = "walk"
    BY <1>4, SerialMode DEF cleanupOrphans
  <2>2. \A t \in Targets : cfg[t].spec \in Nat
    BY DEF TypeInv, TypeOK, Configs
  <2>3. \A t \in Targets \ Elements(b.refs) : cfg'[t].spec = 0
    BY <2>1, <2>2 DEF DeleteAll, Orphans, Absent
  <2> QED
    BY <1>1, <2>1, <2>3 DEF NoOrphan, Elements
<1>5. RenderOrCleanupFails => pc' = "ready"
  BY DEF RenderOrCleanupFails
<1>6. CacheCurrent' /\ ReadCurrent'
  BY <1>1 DEF SerialInv, CacheCurrent, ReadCurrent
<1> QED
  BY <1>1, <1>3, <1>4, <1>5, <1>6 DEF SerialInv, NoOrphan, GateOpen, WriteAhead

\* Where the gate opens, nothing but the config about to be written is unverified:
\* the frontier is gone, is that very config, or is Applied for its generation.
LEMMA GateOpens ==
    ASSUME Serial, TypeInv, SerialInv, pc = "walk", NEW i \in Stops,
           gateRemaining(b.refs[i]) <= 0
    PROVE  Unverified \subseteq {b.refs[i]}
<1> SUFFICES ASSUME NEW u \in Unverified, u # b.refs[i] PROVE FALSE
  OBVIOUS
<1>1. u \in Targets /\ cfg[u].spec > 0 /\ u \notin verified
  BY DEF Unverified
<1>2. b.rollout.target = u /\ u # NoTarget
  BY <1>1, TargetsAssumption DEF SerialInv, UnverifiedIsFrontier, ReadCurrent
<1>3. u \in Elements(b.refs)
  <2>1. cfg[u].spec \in Nat
    BY <1>1 DEF TypeInv, TypeOK, Configs
  <2> QED
    BY <1>1, <2>1 DEF SerialInv, NoOrphan
<1>4. gateRemaining(b.refs[i]) = frontierRemaining(cfg[u], b.rollout)
  BY <1>2, <1>3 DEF gateRemaining
<1>5. AppliedForGeneration(cfg[u])
  <2>1. PollInterval \in Nat
    BY DurationsAssumption
  <2> QED
    BY <1>4, <2>1, SerialMode DEF frontierRemaining, Serial
<1> QED
  BY <1>1, <1>5 DEF AppliedForGeneration, SerialInv, Ordered, AppliedIsVerified

LEMMA SerialFirstMismatch ==
    ASSUME Serial, TypeInv, SerialInv, FirstMismatch PROVE SerialInv'
<1>1. /\ UNCHANGED <<want, cfg, refs, rollout, cached, b, desired, verified>>
      /\ pc = "walk" /\ pc' = "stamp"
  BY DEF FirstMismatch, api
<1>2. PICK i \in Stops : gateRemaining(b.refs[i]) <= 0 /\ k' = i
  BY DEF FirstMismatch
<1>3. Unverified \subseteq {b.refs[i]}
  BY <1>1, <1>2, GateOpens
<1>4. GateOpen'
  BY <1>1, <1>2, <1>3 DEF GateOpen, Unverified
<1> QED
  BY <1>1, <1>4 DEF SerialInv, Ordered, AppliedIsVerified, SpecOrder, CacheCurrent, ReadCurrent,
                    NoOrphan, WriteAhead, UnverifiedIsFrontier, Unverified

LEMMA SerialStamp ==
    ASSUME Serial, TypeInv, SerialInv, stampRolloutFrontier PROVE SerialInv'
<1>1. /\ UNCHANGED <<want, cfg, refs, b, desired, verified, k>>
      /\ pc = "stamp" /\ pc' = "write"
      /\ rollout' = Stamped(b.refs[k])
      /\ cached' = [refs |-> refs', rollout |-> rollout']
  BY DEF stampRolloutFrontier, Publish, Serial, local
<1>2. rollout'.target = b.refs[k]
  BY <1>1 DEF Stamped, SerialInv, ReadCurrent
<1>3. UnverifiedIsFrontier' /\ WriteAhead'
  BY <1>1, <1>2 DEF SerialInv, GateOpen, UnverifiedIsFrontier, WriteAhead, Unverified
<1>4. Ordered' /\ NoOrphan'
  BY <1>1 DEF SerialInv, Ordered, AppliedIsVerified, SpecOrder, NoOrphan
<1> QED
  BY <1>1, <1>3, <1>4 DEF SerialInv, CacheCurrent, ReadCurrent, GateOpen

LEMMA SerialWrite ==
    ASSUME Serial, TypeInv, SerialInv, createOrUpdateOne PROVE SerialInv'
<1> DEFINE t == b.refs[k]
<1>1. t \in Targets /\ rollout.target = t /\ pc = "write"
  BY DEF TypeInv, TypeOK, Cursor, Bindings, SerialInv, WriteAhead, createOrUpdateOne
<1>2. /\ UNCHANGED <<want, refs, rollout, cached, b, desired>>
      /\ pc' = "idle"
  BY SerialMode DEF createOrUpdateOne, Return, local
<1>3. Ordered' /\ Unverified' \subseteq Unverified \cup {t}
  BY WriteKeeps DEF SerialInv
<1>4. UnverifiedIsFrontier'
  BY <1>1, <1>2, <1>3 DEF SerialInv, UnverifiedIsFrontier
<1> QED
  BY <1>2, <1>3, <1>4
     DEF SerialInv, CacheCurrent, ReadCurrent, NoOrphan, GateOpen, WriteAhead

LEMMA SerialEnds ==
    ASSUME Serial, TypeInv, SerialInv,
           \/ Halt \/ Wait \/ EndOfWalk \/ setReadyCondition \/ setReadyConditionFails
           \/ WalkFails \/ WriteFails \/ Crash
    PROVE  SerialInv'
<1>1. UNCHANGED <<want, cfg, refs, rollout, b, desired, verified>>
  BY DEF Halt, Wait, EndOfWalk, setReadyCondition, setReadyConditionFails, WalkFails,
         WriteFails, Crash, api, local
<1>2. pc' = "idle" \/ (pc' = "ready" /\ pc # "idle")
  BY DEF Halt, Wait, EndOfWalk, setReadyCondition, setReadyConditionFails, WalkFails,
         WriteFails, Crash, Return
<1>3. cached' \in {cached, [refs |-> refs, rollout |-> rollout]}
  BY DEF Halt, Wait, EndOfWalk, setReadyCondition, setReadyConditionFails, WalkFails,
         WriteFails, Crash, api
<1> QED
  BY <1>1, <1>2, <1>3, SerialReturns

LEMMA SerialConfig ==
    ASSUME TypeInv, SerialInv, NEW t \in Targets, DeleteConfig(t) \/ Applies(t) \/ Upset(t)
    PROVE  SerialInv'
<1>1. UNCHANGED <<want, refs, rollout, cached, b, desired, pc, k>>
  BY DEF DeleteConfig, Applies, Upset, SetStatus, local
<1>2. Unverified' \subseteq Unverified /\ \A u \in Targets : cfg'[u].spec \in {0, cfg[u].spec}
  <2>1. CASE DeleteConfig(t)
    <3>1. verified' = verified
      BY <2>1 DEF DeleteConfig
    <3> QED
      BY <1>1, <2>1, <3>1, DeleteConfigDeletes, DeleteKeeps DEF SerialInv
  <2>2. CASE Applies(t) \/ Upset(t)
    BY <2>2, MovesStatus, SetStatusKeeps DEF SerialInv
  <2> QED
    BY <2>1, <2>2
<1>3. Ordered'
  BY OrderedStep DEF SerialInv, Next, Environment
<1>4. NoOrphan'
  BY <1>1, <1>2 DEF SerialInv, NoOrphan
<1> QED
  BY <1>1, <1>2, <1>3, <1>4
     DEF SerialInv, CacheCurrent, ReadCurrent, GateOpen, WriteAhead, UnverifiedIsFrontier

LEMMA SerialWorld ==
    ASSUME Serial, TypeInv, SerialInv,
           SyncCache \/ EditRefs \/ \E S \in SUBSET Targets : Rerender(S)
    PROVE  SerialInv'
<1>1. CASE SyncCache
  BY <1>1 DEF SyncCache, SerialInv, CacheCurrent
<1>2. CASE EditRefs
  <2>1. /\ UNCHANGED <<want, cfg, rollout, pc, b, desired, k, verified>>
        /\ cached' = [refs |-> refs', rollout |-> rollout']
    BY <1>2 DEF EditRefs, Publish, Serial, local
  <2> QED
    BY <2>1 DEF SerialInv, Ordered, AppliedIsVerified, SpecOrder, CacheCurrent, ReadCurrent, NoOrphan,
                GateOpen, WriteAhead, UnverifiedIsFrontier, Unverified
<1>3. ASSUME NEW S \in SUBSET Targets, Rerender(S) PROVE SerialInv'
  <2>1. UNCHANGED <<cfg, refs, rollout, cached, pc, b, desired, k, verified>>
    BY <1>3 DEF Rerender, local
  <2>2. Ordered'
    BY <1>3, RerenderKeeps DEF SerialInv
  <2> QED
    BY <2>1, <2>2 DEF SerialInv, CacheCurrent, ReadCurrent, NoOrphan,
                      GateOpen, WriteAhead, UnverifiedIsFrontier, Unverified
<1> QED
  BY <1>1, <1>2, <1>3

LEMMA SerialTick == ASSUME TypeInv, SerialInv, Tick PROVE SerialInv'
<1>1. UNCHANGED <<want, refs, pc, desired, k, verified>>
  BY DEF Tick
<1>2. /\ \A t \in Targets : cfg'[t].spec = cfg[t].spec /\ cfg'[t].st = cfg[t].st
      /\ Unverified' = Unverified /\ Ordered'
  BY TickKeeps DEF SerialInv
<1>3. \A r \in Rollouts : [r EXCEPT !.age = Older(@)].target = r.target
  BY DEF Rollouts
<1>4. rollout' = [rollout EXCEPT !.age = Older(@)] /\ rollout'.target = rollout.target
  BY <1>3 DEF Tick, TypeInv, TypeOK
<1>5. \A c \in Bindings : /\ [c EXCEPT !.rollout.age = Older(@)].refs = c.refs
                          /\ [c EXCEPT !.rollout.age = Older(@)].rollout
                                 = [c.rollout EXCEPT !.age = Older(@)]
  BY DEF Bindings
<1>6. /\ b'.refs = b.refs /\ b'.rollout = [b.rollout EXCEPT !.age = Older(@)]
      /\ cached' = [cached EXCEPT !.rollout.age = Older(@)]
  BY <1>5 DEF Tick, TypeInv, TypeOK
<1>7. CacheCurrent'
  BY <1>1, <1>4, <1>6 DEF SerialInv, CacheCurrent
<1>8. ReadCurrent'
  BY <1>1, <1>4, <1>6 DEF SerialInv, ReadCurrent
<1>9. NoOrphan' /\ GateOpen' /\ WriteAhead' /\ UnverifiedIsFrontier'
  BY <1>1, <1>2, <1>4, <1>6
     DEF SerialInv, NoOrphan, GateOpen, WriteAhead, UnverifiedIsFrontier, Elements
<1> QED
  BY <1>2, <1>7, <1>8, <1>9 DEF SerialInv

LEMMA SerialStep == ASSUME Serial PROVE TypeInv /\ SerialInv /\ [Next]_vars => SerialInv'
<1> SUFFICES ASSUME TypeInv, SerialInv, [Next]_vars PROVE SerialInv'
  OBVIOUS
<1>1. CASE Controller
  BY <1>1, SerialReconcile, SerialCleanup, SerialFirstMismatch, SerialStamp, SerialWrite,
     SerialEnds DEF Controller
<1>2. CASE Environment
  BY <1>2, SerialEnds, SerialConfig, SerialWorld, SerialTick DEF Environment
<1>3. CASE UNCHANGED vars
  BY <1>3 DEF SerialInv, Ordered, AppliedIsVerified, SpecOrder, CacheCurrent, ReadCurrent, NoOrphan,
              GateOpen, WriteAhead, UnverifiedIsFrontier, Unverified, vars, api, local
<1> QED
  BY <1>1, <1>2, <1>3 DEF Next

LEMMA SerialAlways == ASSUME Serial PROVE Spec => []SerialInv
<1>1. Init => TypeInv /\ SerialInv
  BY TypeInit, SerialInit
<1>2. TypeInv /\ SerialInv /\ [Next]_vars => (TypeInv /\ SerialInv)'
  BY TypeStep, SerialStep
<1>3. Spec => [](TypeInv /\ SerialInv)
  BY <1>1, <1>2, PTL DEF Spec
<1> QED
  BY <1>3, PTL

\* WaitForApplied with a positive pollInterval and a current cache: whatever was
\* written and is not yet Applied is what status.rollout names as the frontier.
THEOREM WrittenIsFrontier == ASSUME Serial PROVE Spec => []UnverifiedIsFrontier
<1>1. SerialInv => UnverifiedIsFrontier
  BY DEF SerialInv
<1> QED
  BY <1>1, SerialAlways, PTL

\* And so a render is on one router at most before it is Applied there, across
\* crashes, failing calls, re-renders and edits of targetRefs.
THEOREM OneAtATime == ASSUME Serial PROVE Spec => []AtMostOneUnverified
<1>1. UnverifiedIsFrontier => AtMostOneUnverified
  <2> SUFFICES ASSUME UnverifiedIsFrontier PROVE Cardinality(Unverified) <= 1
    BY DEF AtMostOneUnverified
  <2>1. Unverified \subseteq {rollout.target}
    BY DEF UnverifiedIsFrontier
  <2>2. IsFiniteSet({rollout.target}) /\ Cardinality({rollout.target}) = 1
    BY FS_Singleton
  <2> QED
    BY <2>1, <2>2, FS_Subset, FS_CardinalityType
<1> QED
  BY <1>1, WrittenIsFrontier, PTL

----------------------------------------------------------------------------
(* FixedInterval: for any targets, durations, edits, failures, crashes and *)
(* caches, a write comes waitInterval after the stamp of the last one to   *)
(* another target, until a stamp is made from a copy of the binding that   *)
(* does not show the one before.                                           *)
(*                                                                         *)
(* The property speaks of the last write, the gate of the last stamp.  The *)
(* invariant ties them: while the interval runs, the stamp names the       *)
(* target last written and is no older than the write's own; and the       *)
(* verdict of a gate that saw it lasts from the walk to the write.         *)

Recent == last.target # NoTarget /\ last.stamp < WaitInterval

StampCovers == Recent => rollout.target = last.target /\ rollout.age <= last.stamp

\* The config about to be written is the one last written, or the interval is over.
Open == Recent => last.target = b.refs[k]

GateSaw == pc = "stamp" /\ b.rollout = rollout => Open
GateHolds == pc = "write" => Open
StampLater == pc \in {"stamp", "write"} => took <= last.stamp
StampAhead == pc = "write" => rollout = [target |-> b.refs[k], age |-> took]

StaggerInv ==
    mode = "FixedInterval" /\ ~last.misled =>
        StampCovers /\ GateSaw /\ GateHolds /\ StampLater /\ StampAhead

LEMMA StaggerInit == Init => StaggerInv
BY DEF Init, StaggerInv, Recent, StampCovers, GateSaw, GateHolds, StampLater, StampAhead,
       NoWrite, NoRollout

\* Steps that take a reconcile no nearer to a write and touch no stamp.
LEMMA StaggerReturns ==
    ASSUME StaggerInv, mode = "FixedInterval",
           pc' \in {"idle", "orphans", "walk", "ready"} \/ UNCHANGED <<pc, b, k, took>>,
           UNCHANGED <<mode, rollout, last>>
    PROVE  StaggerInv'
BY DEF StaggerInv, Recent, StampCovers, Open, GateSaw, GateHolds, StampLater, StampAhead

LEMMA StaggerOther ==
    ASSUME TypeInv, StaggerInv, mode = "FixedInterval",
           \/ Reconcile \/ cleanupOrphans
           \/ RenderOrCleanupFails \/ Halt \/ Wait \/ EndOfWalk \/ WalkFails \/ WriteFails
           \/ setReadyCondition \/ setReadyConditionFails
           \/ Crash \/ SyncCache \/ EditRefs \/ \E S \in SUBSET Targets : Rerender(S)
           \/ \E t \in Targets : DeleteConfig(t) \/ Applies(t) \/ Upset(t)
    PROVE  StaggerInv'
<1>1. UNCHANGED <<mode, rollout, last>>
  BY DEF Reconcile, cleanupOrphans, RenderOrCleanupFails, Halt, Wait, EndOfWalk, WalkFails,
         WriteFails, setReadyCondition, setReadyConditionFails, Crash, SyncCache, EditRefs,
         Publish, Rerender, DeleteConfig, Applies, Upset, SetStatus, api
<1>2. pc' \in {"idle", "orphans", "walk", "ready"} \/ UNCHANGED <<pc, b, k, took>>
  <2>1. Reconcile \/ cleanupOrphans \/ RenderOrCleanupFails \/ Halt \/ Wait \/ EndOfWalk
          \/ WalkFails \/ Crash \/ setReadyCondition \/ setReadyConditionFails
              => pc' \in {"idle", "orphans", "walk", "ready"}
    BY DEF Reconcile, cleanupOrphans, RenderOrCleanupFails, Halt, Wait, EndOfWalk, WalkFails,
           Crash, setReadyCondition, setReadyConditionFails, Return
  <2>2. ASSUME WriteFails PROVE pc' = "idle"
    <3>1. mode # "Disabled"
      OBVIOUS
    <3>2. Return(TRUE)
      BY <2>2, <3>1 DEF WriteFails
    <3> QED
      BY <3>2 DEF Return
  <2>3. SyncCache \/ EditRefs \/ (\E S \in SUBSET Targets : Rerender(S))
          \/ (\E t \in Targets : DeleteConfig(t) \/ Applies(t) \/ Upset(t))
              => UNCHANGED <<pc, b, k, took>>
    BY DEF SyncCache, EditRefs, Rerender, DeleteConfig, Applies, Upset, SetStatus, local
  <2> QED
    BY <2>1, <2>2, <2>3
<1> QED
  BY <1>1, <1>2, StaggerReturns

\* The gate opens for another target only when the interval is over, if the stamp it
\* reads is the last one: that is at least as young as the last write's, whether its
\* target is listed or gone.
LEMMA StaggerFirstMismatch ==
    ASSUME TypeInv, StaggerInv, mode = "FixedInterval", FirstMismatch PROVE StaggerInv'
<1>1. UNCHANGED <<mode, rollout, last, b>> /\ pc = "walk" /\ pc' = "stamp" /\ took' = 0
  BY DEF FirstMismatch, api
<1>2. PICK i \in Stops : gateRemaining(b.refs[i]) <= 0 /\ k' = i
  BY DEF FirstMismatch
<1>3. WaitInterval \in Nat /\ last.stamp \in Nat /\ rollout.age \in Nat
  BY DurationsAssumption, CapType DEF TypeInv, TypeOK, Rollouts, LastWrites
<1>4. ASSUME ~last.misled, Recent, b.rollout = rollout PROVE last.target = b.refs[i]
  <2> SUFFICES ASSUME last.target # b.refs[i] PROVE FALSE
    OBVIOUS
  <2>1. /\ rollout.target = last.target
        /\ rollout.target \notin {NoTarget, b.refs[i]}
        /\ WaitInterval - rollout.age > 0
    BY <1>3, <1>4 DEF StaggerInv, StampCovers, Recent
  <2>2. gateRemaining(b.refs[i]) = WaitInterval - rollout.age
    BY <1>4, <2>1 DEF gateRemaining, rolloutWaitDuration, frontierRemaining
  <2> QED
    BY <1>2, <1>3, <2>1, <2>2
<1>5. ~last.misled => GateSaw'
  BY <1>1, <1>2, <1>4 DEF GateSaw, Open, Recent
<1>6. StampLater'
  BY <1>1, <1>3 DEF StampLater
<1> QED
  BY <1>1, <1>5, <1>6 DEF StaggerInv, Recent, StampCovers, GateHolds, StampAhead

\* A stamp that is not the first of a misled history records target and moment whole.
LEMMA StaggerStamp ==
    ASSUME TypeInv, StaggerInv, mode = "FixedInterval", stampRolloutFrontier
    PROVE  StaggerInv'
<1>1. CASE b.rollout # rollout
  <2>1. last' = Misled
    BY <1>1 DEF stampRolloutFrontier
  <2> QED
    BY <2>1 DEF StaggerInv, Misled
<1>2. CASE b.rollout = rollout
  <2>1. /\ UNCHANGED <<mode, last, b, k, took>> /\ pc = "stamp" /\ pc' = "write"
        /\ rollout' = [target |-> b.refs[k], age |-> took]
    BY <1>2 DEF stampRolloutFrontier, Publish, Stamped, local
  <2> QED
    BY <1>2, <2>1 DEF StaggerInv, Recent, StampCovers, Open, GateSaw, GateHolds, StampLater,
                      StampAhead
<1> QED
  BY <1>1, <1>2

LEMMA StaggerWrite ==
    ASSUME TypeInv, StaggerInv, mode = "FixedInterval", createOrUpdateOne PROVE StaggerInv'
<1>1. UNCHANGED <<mode, rollout>> /\ pc = "write" /\ pc' = "idle"
  BY DEF createOrUpdateOne, Return
<1>2. \/ last' = last
      \/ last'.target = b.refs[k] /\ last'.stamp = took /\ last'.misled = last.misled
  <2>1. last' \in {last, [last EXCEPT !.target = b.refs[k], !.stamp = took]}
    BY DEF createOrUpdateOne
  <2>2. last \in LastWrites
    BY DEF TypeInv, TypeOK
  <2> QED
    BY <2>1, <2>2 DEF LastWrites
<1>3. took \in Nat
  BY CapType DEF TypeInv, TypeOK
<1> QED
  BY <1>1, <1>2, <1>3 DEF StaggerInv, Recent, StampCovers, GateSaw, GateHolds, StampLater,
                          StampAhead

\* Time passes for every age alike, and counts past waitInterval.
LEMMA OlderOrder ==
    ASSUME NEW x \in 0..Cap, NEW y \in 0..Cap
    PROVE  /\ x <= y => Older(x) <= Older(y)
           /\ Older(x) < WaitInterval => x < WaitInterval
           /\ x # y /\ Older(x) = Older(y) => ~(Older(y) < WaitInterval)
<1>1. Cap >= WaitInterval /\ WaitInterval \in Nat
  BY DurationsAssumption DEF Cap, Longer
<1> QED
  BY <1>1, CapType DEF Older

LEMMA StaggerTick ==
    ASSUME TypeInv, StaggerInv, mode = "FixedInterval", Tick PROVE StaggerInv'
<1> SUFFICES ASSUME ~last'.misled PROVE StaggerInv'
  BY DEF StaggerInv
<1>1. UNCHANGED <<pc, k>> /\ took' = Older(took)
  BY DEF Tick
<1>2. \A r \in Rollouts : [r EXCEPT !.age = Older(@)]
                              = [target |-> r.target, age |-> Older(r.age)]
  BY DEF Rollouts
<1>3. \A c \in Bindings : /\ [c EXCEPT !.rollout.age = Older(@)].refs = c.refs
                          /\ [c EXCEPT !.rollout.age = Older(@)].rollout
                                 = [c.rollout EXCEPT !.age = Older(@)]
  BY DEF Bindings
<1>4. /\ rollout' = [target |-> rollout.target, age |-> Older(rollout.age)]
      /\ b'.refs = b.refs
      /\ b'.rollout = [target |-> b.rollout.target, age |-> Older(b.rollout.age)]
  BY <1>2, <1>3 DEF Tick, TypeInv, TypeOK, Bindings
<1>5. last'.target = last.target /\ last'.stamp = Older(last.stamp) /\ ~last.misled
  BY DEF Tick, TypeInv, TypeOK, LastWrites
<1>6. /\ last.stamp \in 0..Cap /\ rollout.age \in 0..Cap /\ took \in 0..Cap
      /\ b.rollout.age \in 0..Cap /\ WaitInterval \in Nat
  BY DurationsAssumption DEF TypeInv, TypeOK, Rollouts, Bindings, LastWrites
<1>7. StampCovers /\ GateSaw /\ GateHolds /\ StampLater /\ StampAhead
  BY <1>5 DEF StaggerInv
<1>8. Recent' => Recent
  BY <1>5, <1>6, OlderOrder DEF Recent
<1>9. StampCovers'
  BY <1>4, <1>5, <1>6, <1>7, <1>8, OlderOrder DEF StampCovers
<1>10. GateHolds' /\ StampLater'
  BY <1>1, <1>4, <1>5, <1>6, <1>7, <1>8, OlderOrder DEF GateHolds, Open, StampLater
<1>11. StampAhead'
  BY <1>1, <1>4, <1>7 DEF StampAhead
<1>12. GateSaw'
  <2> SUFFICES ASSUME pc = "stamp", b'.rollout = rollout', Recent'
               PROVE  last.target = b.refs[k]
    BY <1>1, <1>4, <1>5 DEF GateSaw, Open
  <2>1. b.rollout.target = rollout.target /\ Older(b.rollout.age) = Older(rollout.age)
    BY <1>4
  <2>2. CASE b.rollout.age = rollout.age
    <3>1. b.rollout \in Rollouts /\ rollout \in Rollouts
      BY DEF TypeInv, TypeOK, Bindings
    <3>2. b.rollout = rollout
      BY <2>1, <2>2, <3>1 DEF Rollouts
    <3> QED
      BY <1>7, <1>8, <3>2 DEF GateSaw, Open
  <2>3. CASE b.rollout.age # rollout.age
    <3>1. ~(Older(rollout.age) < WaitInterval)
      BY <1>6, <2>1, <2>3, OlderOrder
    <3>2. Older(rollout.age) <= Older(last.stamp) /\ Older(last.stamp) < WaitInterval
      BY <1>4, <1>5, <1>9 DEF StampCovers, Recent
    <3>3. Older(rollout.age) \in Int /\ Older(last.stamp) \in Int
      BY <1>6, CapType DEF Older
    <3> QED
      BY <1>6, <3>1, <3>2, <3>3
  <2> QED
    BY <2>2, <2>3
<1> QED
  BY <1>9, <1>10, <1>11, <1>12 DEF StaggerInv

LEMMA StaggerStep == TypeInv /\ StaggerInv /\ [Next]_vars => StaggerInv'
<1> SUFFICES ASSUME TypeInv, StaggerInv, [Next]_vars PROVE StaggerInv'
  OBVIOUS
<1>1. CASE mode # "FixedInterval"
  BY <1>1, ModeFrozen DEF StaggerInv
<1>2. CASE mode = "FixedInterval"
  <2>1. CASE Controller
    BY <1>2, <2>1, StaggerOther, StaggerFirstMismatch, StaggerStamp, StaggerWrite
       DEF Controller
  <2>2. CASE Environment
    BY <1>2, <2>2, StaggerOther, StaggerTick DEF Environment
  <2>3. CASE UNCHANGED vars
    BY <2>3 DEF StaggerInv, Recent, StampCovers, Open, GateSaw, GateHolds, StampLater,
                StampAhead, vars, api, local
  <2> QED
    BY <2>1, <2>2, <2>3 DEF Next
<1> QED
  BY <1>1, <1>2

\* A config's spec changes to another spec in one place: the write the walk led to.
LEMMA OnlyWrite ==
    ASSUME TypeInv, [Next]_vars, NEW t \in Targets, Writes(t)
    PROVE  createOrUpdateOne /\ t = b.refs[k]
<1>1. cfg[t] \in Configs /\ cfg[t].spec \in Nat
  BY DEF TypeInv, TypeOK, Configs
<1>2. CASE createOrUpdateOne
  <2>1. cfg' = cfg \/ cfg' = [cfg EXCEPT ![b.refs[k]] = AfterWrite(@, desired[b.refs[k]])]
    BY <1>2 DEF createOrUpdateOne
  <2> QED
    BY <1>2, <2>1 DEF Writes, TypeInv, TypeOK
<1>3. ASSUME NEW S \in SUBSET Targets, cfg' = DeleteAll(S) PROVE FALSE
  BY <1>3 DEF Writes, DeleteAll, Absent
<1>4. CASE cleanupOrphans \/ RenderOrCleanupFails
  BY <1>3, <1>4 DEF cleanupOrphans, RenderOrCleanupFails, Orphans
<1>5. ASSUME NEW u \in Targets, NEW new, SetStatus(u, new) PROVE FALSE
  <2>1. cfg' = [cfg EXCEPT ![u] = [cfg[u] EXCEPT !.st = new, !.age = 0]]
    BY <1>5 DEF SetStatus, TypeInv, TypeOK
  <2>2. [cfg[t] EXCEPT !.st = new, !.age = 0].spec = cfg[t].spec
    BY <1>1 DEF Configs
  <2> QED
    BY <2>1, <2>2 DEF Writes, TypeInv, TypeOK
<1>6. ASSUME NEW u \in Targets, DeleteConfig(u) \/ Applies(u) \/ Upset(u) PROVE FALSE
  <2>1. CASE DeleteConfig(u)
    BY <2>1 DEF DeleteConfig, Writes, Absent, TypeInv, TypeOK
  <2>2. CASE Applies(u) \/ Upset(u)
    <3>1. PICK new : SetStatus(u, new)
      BY <2>2 DEF Applies, Upset
    <3> QED
      BY <1>5, <3>1
  <2> QED
    BY <1>6, <2>1, <2>2
<1>7. CASE Tick
  <2>1. [cfg[t] EXCEPT !.age = Older(@)].spec = cfg[t].spec
    BY <1>1 DEF Configs
  <2> QED
    BY <1>7, <2>1 DEF Tick, Writes
<1>8. ASSUME cfg' = cfg PROVE FALSE
  BY <1>8 DEF Writes
<1>9. CASE Controller
  BY <1>2, <1>4, <1>8, <1>9
     DEF Controller, Reconcile, Halt, Wait, EndOfWalk, FirstMismatch, stampRolloutFrontier,
         setReadyCondition, setReadyConditionFails, WalkFails, WriteFails, api
<1>10. CASE Environment
  BY <1>6, <1>7, <1>8, <1>10 DEF Environment, Rerender, EditRefs, SyncCache, Crash
<1> QED
  BY <1>8, <1>9, <1>10 DEF Next, vars, api

\* FixedInterval: whatever is edited, fails, crashes or lags in between, a write comes
\* waitInterval or more after the stamp of the last write to another target, as long as
\* no stamp was made from a copy of the binding that did not show the one before.
THEOREM Staggered == Spec => FixedIntervalStagger
<1> DEFINE Apart == \A t \in Targets :
               (mode = "FixedInterval" /\ ~last.misled /\ Writes(t) /\ last.target \notin {NoTarget, t})
                   => last.stamp >= WaitInterval
<1>1. Init => TypeInv /\ StaggerInv
  BY TypeInit, StaggerInit
<1>2. TypeInv /\ StaggerInv /\ [Next]_vars => (TypeInv /\ StaggerInv)'
  BY TypeStep, StaggerStep
<1>3. TypeInv /\ StaggerInv /\ [Next]_vars => Apart
  <2> SUFFICES ASSUME TypeInv, StaggerInv, [Next]_vars, NEW t \in Targets,
                      mode = "FixedInterval", ~last.misled, Writes(t),
                      last.target \notin {NoTarget, t}
               PROVE  last.stamp >= WaitInterval
    OBVIOUS
  <2>1. pc = "write" /\ t = b.refs[k]
    BY OnlyWrite DEF createOrUpdateOne
  <2>2. ~Recent
    BY <2>1 DEF StaggerInv, GateHolds, Open
  <2>3. last.stamp \in Nat /\ WaitInterval \in Nat
    BY DurationsAssumption, CapType DEF TypeInv, TypeOK, LastWrites
  <2> QED
    BY <2>2, <2>3 DEF Recent
<1>4. Spec => [][Apart]_vars
  BY <1>1, <1>2, <1>3, PTL DEF Spec
<1> QED
  BY <1>4 DEF FixedIntervalStagger

=============================================================================
