----------------------- MODULE VRouterConfig_proofs ------------------------
(***************************************************************************)
(* Proofs about VRouterConfig: the statuses its reconcile writes, its type *)
(* invariant, and how its execs grow.                                      *)
(***************************************************************************)
EXTENDS VRouterConfig, SequenceTheorems, TLAPS

----------------------------------------------------------------------------
(* The statuses the reconcile writes, field by field *)

LEMMA StartedFields ==
    ASSUME NEW s \in Statuses, NEW p \in Nat
    PROVE  LET n == [s EXCEPT !.started = p]
           IN n \in Statuses /\ n.phase = s.phase /\ n.pid = s.pid /\ n.obs = s.obs
              /\ n.applied = s.applied
              /\ n.started = p /\ n.handled = s.handled
BY DEF Statuses

LEMMA PhaseFields ==
    ASSUME NEW s \in Statuses, NEW p \in Phases
    PROVE  LET n == [s EXCEPT !.phase = p]
           IN n \in Statuses /\ n.phase = p /\ n.pid = s.pid /\ n.obs = s.obs
              /\ n.applied = s.applied
              /\ n.started = s.started /\ n.handled = s.handled
BY DEF Statuses

LEMMA FailedFields ==
    ASSUME NEW s \in Statuses
    PROVE  LET n == Failed(s)
           IN n \in Statuses /\ n.phase = "Failed" /\ n.pid = 0 /\ n.obs = s.obs
              /\ n.applied = False(s.obs, "Failed")
              /\ n.started = 0 /\ n.handled = s.handled
BY DEF Failed, Statuses, False, Conds, Phases

LEMMA NotReadyFields ==
    ASSUME NEW s \in Statuses
    PROVE  LET n == NotReady(s)
           IN n \in Statuses /\ n.phase = "Pending" /\ n.pid = s.pid /\ n.obs = s.obs
              /\ n.applied = False(s.obs, "NotReady")
              /\ n.started = s.started /\ n.handled = s.handled
BY DEF NotReady, Statuses, False, Conds, Phases

LEMMA LostFields ==
    ASSUME NEW s \in Statuses
    PROVE  LET n == Lost(s)
           IN n \in Statuses /\ n.phase = "Pending" /\ n.pid = 0 /\ n.obs = s.obs
              /\ n.applied = s.applied
              /\ n.started = 0 /\ n.handled = s.handled
BY DEF Lost, Statuses, Phases

LEMMA AppliedFields ==
    ASSUME NEW s \in Statuses, NEW g
    PROVE  LET n == Applied(s, g)
           IN n \in Statuses /\ n.phase = "Applied" /\ n.pid = 0 /\ n.obs = s.obs
              /\ n.applied = True(s.obs)
              /\ n.started = 0 /\ n.handled = s.handled
BY DEF Applied, Statuses, True, Conds, Phases

LEMMA DispatchedFields ==
    ASSUME NEW s \in Statuses, NEW p \in Nat, NEW g \in Nat, NEW r \in Nat
    PROVE  LET n == Dispatched(s, p, g, r)
           IN n \in Statuses /\ n.phase = "Applying" /\ n.pid = p /\ n.obs = g
              /\ n.applied = False(g, "Applying")
              /\ n.started = p /\ n.handled = r
BY DEF Dispatched, Statuses, False, Conds, Phases

LEMMA NewFields ==
    /\ NewStatus \in Statuses
    /\ \A u \in Nat : NewCfg(u) \in Versions
    /\ LegacyCfg \in Versions
<1>1. NewStatus \in Statuses
  BY DEF NewStatus, Statuses, Conds, Phases
<1>2. \A u \in Nat : NewCfg(u) \in Versions
  BY <1>1 DEF NewCfg, Versions
<1>3. [NewStatus EXCEPT !.phase = "Applying", !.pid = 1, !.obs = 1,
                        !.applied = [status |-> "False", gen |-> 1, why |-> "Applying"]] \in Statuses
  BY DEF NewStatus, Statuses, Conds, Phases
<1>4. \A v \in Versions, s \in Statuses : [v EXCEPT !.fin = TRUE, !.st = s] \in Versions
  BY DEF Versions
<1> QED
  BY <1>1, <1>2, <1>3, <1>4 DEF LegacyCfg

LEMMA ScriptType ==
    \A u, g, r \in Nat : NewScript(u, g, r) \in Scripts
BY DEF NewScript, Scripts

\* A merge patch from the stored status itself stores what the reconcile wants.
LEMMA MergeFromStored ==
    ASSUME NEW s \in Statuses, NEW n \in Statuses PROVE MergePatch(s, s, n) = n
BY DEF MergePatch, Merge, Statuses

LEMMA MergeType ==
    ASSUME NEW old \in Statuses, NEW base \in Statuses, NEW new \in Statuses
    PROVE  MergePatch(old, base, new) \in Statuses
BY DEF MergePatch, Merge, Statuses

----------------------------------------------------------------------------
(* Types *)

LEMMA StreamEnds ==
    ASSUME TypeOK
    PROVE  Api \in Versions /\ Cache \in Versions
BY DEF TypeOK, Api, Cache

\* The types of what a reconcile has in its hands.
LEMMA InHand ==
    ASSUME TypeOK
    PROVE  /\ Api \in Versions /\ Api.st \in Statuses /\ Api.gen \in Nat /\ Api.uid \in Nat
           /\ snap.st \in Statuses /\ snap.gen \in Nat /\ snap.uid \in Nat
           /\ next \in Statuses /\ Api.st.obs \in Nat /\ snap.st.obs \in Nat
           /\ next.obs \in Nat /\ snap.st.pid \in Nat
<1>1. Api \in Versions /\ snap \in Versions /\ next \in Statuses
  BY StreamEnds DEF TypeOK
<1>2. Api.st \in Statuses /\ snap.st \in Statuses
  BY <1>1 DEF Versions
<1> QED
  BY <1>1, <1>2 DEF Versions, Statuses

\* A write keeps the stream within the lag, and becomes its end.
LEMMA PushType ==
    ASSUME TypeOK, NEW v \in Versions, Push(v)
    PROVE  stream' \in Seq(Versions) /\ Len(stream') \in 1..(MaxLag + 1) /\ Api' = v
<1>1. stream \in Seq(Versions) /\ Len(stream) \in 1..(MaxLag + 1) /\ MaxLag \in Nat
  BY BoundsAssumption DEF TypeOK
<1>2. CASE v = Api
  BY <1>1, <1>2 DEF Push, Api
<1>3. CASE v # Api /\ Len(stream) > MaxLag
  <2>1. stream' = Append(Tail(stream), v)
    BY <1>3 DEF Push
  <2>2. Tail(stream) \in Seq(Versions) /\ Len(Tail(stream)) = Len(stream) - 1
    BY <1>1
  <2>3. stream' \in Seq(Versions) /\ Len(stream') = Len(stream) /\ stream'[Len(stream)] = v
    BY <1>1, <2>1, <2>2, AppendProperties
  <2> QED
    BY <1>1, <2>3 DEF Api
<1>4. CASE v # Api /\ ~(Len(stream) > MaxLag)
  <2>1. stream' = Append(stream, v)
    BY <1>4 DEF Push
  <2>2. stream' \in Seq(Versions) /\ Len(stream') = Len(stream) + 1
        /\ stream'[Len(stream) + 1] = v
    BY <1>1, <2>1, AppendProperties
  <2> QED
    BY <1>1, <1>4, <2>2 DEF Api
<1> QED
  BY <1>2, <1>3, <1>4

LEMMA TypeInit == Init => TypeOK
<1> SUFFICES ASSUME Init PROVE TypeOK
  OBVIOUS
<1>1. NewStatus \in Statuses /\ NewCfg(1) \in Versions /\ LegacyCfg \in Versions
  BY NewFields
<1>2. stream \in Seq(Versions) /\ Len(stream) = 1
  <2>1. \E v \in Versions : stream = <<v>>
    BY <1>1 DEF Init
  <2> QED
    BY <2>1
<1>3. scripts \in Seq(Scripts)
  <2>1. \A s \in Scripts, x, y \in BOOLEAN :
            [s EXCEPT !.tracked = x, !.freed = y, !.rec = TRUE] \in Scripts
    BY DEF Scripts
  <2>2. [NewScript(1, 1, 0) EXCEPT !.tracked = Provider # "daemon",
                                   !.freed = Provider = "daemon", !.rec = TRUE] \in Scripts
    BY <2>1, ScriptType
  <2>3. ASSUME NEW s \in Scripts, scripts = <<s>> PROVE scripts \in Seq(Scripts)
    BY <2>3
  <2>4. ASSUME scripts = <<>> PROVE scripts \in Seq(Scripts)
    BY <2>4
  <2> QED
    BY <2>2, <2>3, <2>4 DEF Init
<1> QED
  BY <1>1, <1>2, <1>3, BoundsAssumption DEF Init, TypeOK

LEMMA ReturnType ==
    ASSUME TypeOK, NEW again \in BOOLEAN, Return(again)
    PROVE  /\ pc' = "idle" /\ snap' \in Versions /\ next' \in Statuses
           /\ ret' = "done" /\ reboot' = 0 /\ queued' \in BOOLEAN
BY NewFields DEF Return, TypeOK

LEMMA SendType ==
    ASSUME TypeOK, NEW st \in Statuses, NEW then \in {"done", "requeue"}, SendPatch(st, then)
    PROVE  /\ pc' = "patch" /\ next' \in Statuses /\ ret' \in {"done", "requeue"}
           /\ UNCHANGED <<snap, reboot, queued, stream>>
BY DEF SendPatch

\* A reconcile step that ends by sending a patch or by returning, as a whole.
LEMMA TypeAnswer ==
    ASSUME TypeOK, scripts' \in Seq(Scripts), faults' \in Nat,
           UNCHANGED <<router, vmUp, boots, target>>,
           \/ \E st \in Statuses, then \in {"done", "requeue"} : SendPatch(st, then)
           \/ UNCHANGED stream /\ \E again \in BOOLEAN : Return(again)
    PROVE  TypeOK'
<1>1. CASE \E st \in Statuses, then \in {"done", "requeue"} : SendPatch(st, then)
  BY <1>1, SendType DEF TypeOK
<1>2. CASE UNCHANGED stream /\ \E again \in BOOLEAN : Return(again)
  BY <1>2, ReturnType DEF TypeOK
<1> QED
  BY <1>1, <1>2

LEMMA TypeRead == ASSUME TypeOK, Reconcile PROVE TypeOK'
BY StreamEnds DEF Reconcile, Branch, TypeOK, local, world

LEMMA TypeFinalizer == ASSUME TypeOK, UpdateFinalizer PROVE TypeOK'
<1> DEFINE v == [snap EXCEPT !.fin = ~snap.del, !.live = ~snap.del]
<1>1. v \in Versions
  BY DEF TypeOK, Versions
<1>2. stream' \in Seq(Versions) /\ Len(stream') \in 1..(MaxLag + 1)
  BY <1>1, PushType DEF UpdateFinalizer, TypeOK
<1>3. \E again \in BOOLEAN : Return(again)
  BY DEF UpdateFinalizer, Delivers
<1>4. UNCHANGED <<world, faults>>
  BY DEF UpdateFinalizer
<1> QED
  BY <1>2, <1>3, <1>4, ReturnType DEF TypeOK, world

LEMMA TypeBegin ==
    ASSUME TypeOK, onChange \/ onChangeStopped \/ onChangeError \/ CheckReady \/ SkipDone
    PROVE  TypeOK'
<1>1. CASE onChange
  <2>1. snap.st \in Statuses /\ snap.st.pid \in Nat
    BY DEF TypeOK, Versions, Statuses
  <2>2. [snap.st EXCEPT !.started = snap.st.pid] \in Statuses
    BY <2>1, StartedFields
  <2>3. /\ pc' \in {"patch", "checkReady"} /\ ret' \in {"done", "requeue", "checkReady"}
        /\ next' \in Statuses
    BY <1>1, <2>2 DEF onChange, TypeOK
  <2>4. reboot' \in Nat
    BY <1>1 DEF onChange, TypeOK
  <2>5. UNCHANGED <<stream, queued, snap, world, faults>>
    BY <1>1 DEF onChange
  <2> QED
    BY <2>3, <2>4, <2>5 DEF TypeOK, world
<1>2. CASE onChangeStopped \/ SkipDone \/ onChangeError
  <2>1. \E again \in BOOLEAN : Return(again)
    BY <1>2 DEF onChangeStopped, SkipDone, onChangeError
  <2>2. UNCHANGED <<stream, world>>
    BY <1>2 DEF onChangeStopped, SkipDone, onChangeError
  <2>3. faults' \in {faults, faults + 1}
    BY <1>2 DEF onChangeStopped, SkipDone, onChangeError, Fault
  <2>4. faults' \in Nat
    BY <2>3 DEF TypeOK
  <2> QED
    BY <2>1, <2>2, <2>4, TypeAnswer DEF TypeOK, world
<1>3. CASE CheckReady
  BY <1>3 DEF CheckReady, TypeOK, world
<1> QED
  BY <1>1, <1>2, <1>3

\* Every status a reconcile may send is a status.
LEMMA SentTypes ==
    ASSUME TypeOK
    PROVE  /\ snap.st \in Statuses /\ snap.uid \in Nat /\ snap.gen \in Nat
           /\ Failed(snap.st) \in Statuses /\ NotReady(snap.st) \in Statuses
           /\ Lost(snap.st) \in Statuses /\ Applied(snap.st, snap.gen) \in Statuses
           /\ [snap.st EXCEPT !.phase = "Applying"] \in Statuses
           /\ \A p \in Nat : Dispatched(snap.st, p, snap.gen, reboot) \in Statuses
<1>1. snap.st \in Statuses /\ snap.uid \in Nat /\ snap.gen \in Nat /\ reboot \in Nat
  BY DEF TypeOK, Versions
<1> QED
  BY <1>1, FailedFields, NotReadyFields, LostFields, AppliedFields, PhaseFields,
     DispatchedFields DEF Phases

LEMMA TypeProbe == ASSUME TypeOK, CheckReadyFails PROVE TypeOK'
<1>1. UNCHANGED <<scripts, router, vmUp, boots, target>> /\ faults' \in Nat
  BY DEF CheckReadyFails, world, Fault, TypeOK
<1>2. \/ \E st \in Statuses, then \in {"done", "requeue"} : SendPatch(st, then)
      \/ UNCHANGED stream /\ \E again \in BOOLEAN : Return(again)
  BY SentTypes DEF CheckReadyFails
<1> QED
  BY <1>1, <1>2, TypeAnswer DEF TypeOK

LEMMA ScriptsKept ==
    ASSUME TypeOK, NEW p
    PROVE  /\ [scripts EXCEPT ![p].tracked = FALSE] \in Seq(Scripts)
           /\ [scripts EXCEPT ![p].rec = TRUE] \in Seq(Scripts)
<1>1. \A s \in Scripts : /\ [s EXCEPT !.tracked = FALSE] \in Scripts
                         /\ [s EXCEPT !.rec = TRUE] \in Scripts
  BY DEF Scripts
<1>2. scripts \in Seq(Scripts) /\ DOMAIN scripts = 1..Len(scripts)
  BY DEF TypeOK
<1>3. CASE p \in 1..Len(scripts)
  BY <1>1, <1>2, <1>3, ExceptSeq
<1>4. CASE p \notin 1..Len(scripts)
  <2>1. /\ [scripts EXCEPT ![p].tracked = FALSE] = scripts
        /\ [scripts EXCEPT ![p].rec = TRUE] = scripts
    BY <1>2, <1>4
  <2> QED
    BY <1>2, <2>1
<1> QED
  BY <1>3, <1>4

LEMMA TypePoll == ASSUME TypeOK, Poll PROVE TypeOK'
<1>1. UNCHANGED <<router, vmUp, boots, target>> /\ faults' \in Nat
  <2>1. faults \in Nat
    BY DEF TypeOK
  <2>2. CASE PollRunning \/ PollExited \/ PollLost
    BY <2>1, <2>2 DEF PollRunning, PollExited, PollLost, world
  <2>3. CASE PollError
    BY <2>1, <2>3 DEF PollError, Fault
  <2> QED
    BY <2>2, <2>3 DEF Poll
<1>2. scripts' \in Seq(Scripts)
  <2>1. scripts \in Seq(Scripts)
    BY DEF TypeOK
  <2>2. CASE PollRunning \/ PollExited \/ PollLost
    BY <2>1, <2>2, ScriptsKept DEF PollRunning, PollExited, PollLost, world
  <2>3. CASE PollError
    BY <2>1, <2>3, ScriptsKept DEF PollError
  <2> QED
    BY <2>2, <2>3 DEF Poll
<1>3. \/ \E st \in Statuses, then \in {"done", "requeue"} : SendPatch(st, then)
      \/ UNCHANGED stream /\ \E again \in BOOLEAN : Return(again)
  BY SentTypes DEF Poll, PollRunning, PollExited, PollLost, PollError
<1> QED
  BY <1>1, <1>2, <1>3, TypeAnswer

LEMMA StartType ==
    ASSUME TypeOK, NEW r \in Nat
    PROVE  Start(r) \in Seq(Scripts) /\ Len(Start(r)) = Len(scripts) + 1
BY SentTypes, ScriptType, AppendProperties DEF Start, TypeOK

LEMMA TypeDispatch ==
    ASSUME TypeOK, applyConfig \/ applyConfigError \/ applyConfigUnreachable PROVE TypeOK'
<1>1. reboot \in Nat /\ Len(scripts) + 1 \in Nat
  BY DEF TypeOK
<1>2. CASE applyConfig
  <2>1. scripts' \in Seq(Scripts)
    BY <1>1, <1>2, StartType DEF applyConfig
  <2> QED
    BY <1>1, <1>2, <2>1, SentTypes, TypeAnswer DEF applyConfig, TypeOK
<1>3. CASE applyConfigError
  <2>1. scripts' \in Seq(Scripts)
    BY <1>3, StartType DEF applyConfigError, TypeOK
  <2>2. faults' \in Nat
    BY <1>3 DEF applyConfigError, Fault, TypeOK
  <2> QED
    BY <1>3, <2>1, <2>2, TypeAnswer DEF applyConfigError
<1>4. CASE applyConfigUnreachable
  <2> DEFINE q == Start(0)
             n == Len(scripts) + 1
  <2>1. q \in Seq(Scripts) /\ n \in 1..Len(q)
    BY StartType DEF TypeOK
  <2>2. scripts' = [q EXCEPT ![n].st = "dead", ![n].broken = TRUE]
    BY <1>4 DEF applyConfigUnreachable
  <2>3. \A s \in Scripts : /\ [s EXCEPT !.st = "dead"] \in Scripts
                           /\ [s EXCEPT !.broken = TRUE] \in Scripts
    BY DEF Scripts
  <2>4. scripts' \in Seq(Scripts)
    <3> HIDE DEF q, n
    <3> DEFINE d == [q EXCEPT ![n] = [q[n] EXCEPT !.st = "dead"]]
    <3>1. q[n] \in Scripts
      BY <2>1, ElementOfSeq
    <3>2. [q[n] EXCEPT !.st = "dead"] \in Scripts
      BY <2>3, <3>1
    <3>3. d \in Seq(Scripts) /\ Len(d) = Len(q)
      BY <2>1, <3>2, ExceptSeq
    <3>4. scripts' = [d EXCEPT ![n] = [d[n] EXCEPT !.broken = TRUE]]
      BY <2>2
    <3> HIDE DEF d
    <3>5. d[n] \in Scripts
      BY <2>1, <3>3, ElementOfSeq
    <3>6. [d[n] EXCEPT !.broken = TRUE] \in Scripts
      BY <2>3, <3>5
    <3> QED
      BY <2>1, <3>3, <3>4, <3>6, ExceptSeq
  <2> QED
    BY <1>1, <1>4, <2>4, SentTypes, TypeAnswer DEF applyConfigUnreachable, TypeOK
<1> QED
  BY <1>2, <1>3, <1>4

LEMMA PatchedType == ASSUME TypeOK PROVE Patched \in Versions
<1>1. Api \in Versions /\ Api.st \in Statuses /\ snap.st \in Statuses /\ next \in Statuses
  BY StreamEnds DEF TypeOK, Versions
<1>2. \A v \in Versions, s \in Statuses : [v EXCEPT !.st = s] \in Versions
  BY DEF Versions
<1> QED
  BY <1>1, <1>2, MergeType DEF Patched

LEMMA TypePatch == ASSUME TypeOK, Patch PROVE TypeOK'
<1>1. Recorded \in Seq(Scripts)
  BY ScriptsKept DEF Recorded, TypeOK
<1>2. CASE PatchStatus
  <2>1. stream' \in Seq(Versions) /\ Len(stream') \in 1..(MaxLag + 1)
    BY <1>2, PatchedType, PushType DEF PatchStatus
  <2>2. CASE ret = "checkReady"
    <3>1. queued' \in BOOLEAN
      BY <1>2, <2>2 DEF PatchStatus, Delivers, TypeOK
    <3> QED
      BY <1>1, <1>2, <2>1, <2>2, <3>1, PatchedType DEF PatchStatus, TypeOK
  <2>3. CASE ret # "checkReady"
    <3>1. \E again \in BOOLEAN : Return(again)
      BY <1>2, <2>3 DEF PatchStatus, Delivers
    <3>2. scripts' \in Seq(Scripts) /\ UNCHANGED <<router, vmUp, boots, target, faults>>
      BY <1>1, <1>2 DEF PatchStatus
    <3> QED
      BY <2>1, <3>1, <3>2, ReturnType DEF TypeOK
  <2> QED
    BY <2>2, <2>3
<1>3. CASE PatchStatusFails
  <2>1. faults' \in Nat
    BY <1>3 DEF PatchStatusFails, Fault, TypeOK
  <2> QED
    BY <1>3, <2>1, TypeAnswer DEF PatchStatusFails, TypeOK, world
<1>4. CASE PatchStatusAnswerLost
  <2>1. stream' \in Seq(Versions) /\ Len(stream') \in 1..(MaxLag + 1)
    BY <1>4, PatchedType, PushType DEF PatchStatusAnswerLost
  <2>2. faults' \in Nat
    BY <1>4 DEF PatchStatusAnswerLost, Fault, TypeOK
  <2>3. Return(TRUE) /\ scripts' \in Seq(Scripts) /\ UNCHANGED <<router, vmUp, boots, target>>
    BY <1>1, <1>4 DEF PatchStatusAnswerLost
  <2>4. /\ pc' = "idle" /\ snap' \in Versions /\ next' \in Statuses
        /\ ret' = "done" /\ reboot' = 0 /\ queued' \in BOOLEAN
    BY <2>3, ReturnType
  <2> QED
    BY <2>1, <2>2, <2>3, <2>4 DEF TypeOK
<1> QED
  BY <1>2, <1>3, <1>4 DEF Patch

LEMMA TypeWrites == ASSUME TypeOK, SpecUpdate \/ Delete \/ Recreate \/ Deliver PROVE TypeOK'
<1>1. Api \in Versions /\ Api.gen \in Nat /\ Api.uid \in Nat
  BY StreamEnds DEF Versions
<1>2. ASSUME NEW v \in Versions, Write(v) PROVE TypeOK'
  <2>1. stream' \in Seq(Versions) /\ Len(stream') \in 1..(MaxLag + 1)
    BY <1>2, PushType DEF Write
  <2>2. queued' \in BOOLEAN
    BY <1>2 DEF Write, Delivers, TypeOK
  <2> QED
    BY <1>2, <2>1, <2>2 DEF Write, TypeOK, local, world
<1>3. /\ [Api EXCEPT !.gen = @ + 1] \in Versions
      /\ [Api EXCEPT !.del = TRUE] \in Versions
      /\ [Api EXCEPT !.live = FALSE] \in Versions
      /\ NewCfg(Api.uid + 1) \in Versions
  <2>1. \A v \in Versions, g \in Nat : [v EXCEPT !.gen = g] \in Versions
    BY DEF Versions
  <2>2. \A v \in Versions : [v EXCEPT !.del = TRUE] \in Versions
    BY DEF Versions
  <2>3. \A v \in Versions : [v EXCEPT !.live = FALSE] \in Versions
    BY DEF Versions
  <2>4. Api.gen + 1 \in Nat /\ Api.uid + 1 \in Nat
    BY <1>1
  <2> QED
    BY <1>1, <2>1, <2>2, <2>3, <2>4, NewFields
<1>4. CASE SpecUpdate \/ Delete \/ Recreate
  <2>1. CASE SpecUpdate
    BY <1>2, <1>3, <2>1 DEF SpecUpdate
  <2>2. CASE Delete
    BY <1>2, <1>3, <2>2 DEF Delete
  <2>3. CASE Recreate
    BY <1>2, <1>3, <2>3 DEF Recreate
  <2> QED
    BY <1>4, <2>1, <2>2, <2>3
<1>5. CASE Deliver
  <2>1. stream \in Seq(Versions) /\ Len(stream) \in 1..(MaxLag + 1) /\ MaxLag \in Nat
    BY BoundsAssumption DEF TypeOK
  <2>2. stream' = Tail(stream) /\ Len(stream) > 1
    BY <1>5 DEF Deliver
  <2>3. stream' \in Seq(Versions) /\ Len(stream') \in 1..(MaxLag + 1)
    BY <2>1, <2>2
  <2> QED
    BY <1>5, <2>3 DEF Deliver, TypeOK, local, world
<1> QED
  BY <1>4, <1>5

\* The world around the reconcile touches the scripts one by one.
LEMMA TypeScripts ==
    ASSUME TypeOK, \/ ScriptEnds \/ TimePasses \/ VMStop \/ AgentFails
                   \/ OperatorRestart \/ OthersShare
    PROVE  scripts' \in Seq(Scripts)
<1>1. scripts \in Seq(Scripts) /\ DOMAIN scripts = 1..Len(scripts)
  BY DEF TypeOK
<1>2. \A p \in DOMAIN scripts : scripts[p] \in Scripts
  BY <1>1
<1>3. \A s \in [DOMAIN scripts -> Scripts] : s \in Seq(Scripts)
  <2>1. Len(scripts) \in Nat
    BY <1>1
  <2> QED
    BY <1>1, <2>1, SeqDef
<1>4. CASE ScriptEnds
  <2>1. PICK p \in DOMAIN scripts, end \in {"ok", "fail"} :
            scripts' = [scripts EXCEPT ![p].st = end]
    BY <1>4 DEF ScriptEnds, Finish
  <2>2. \A s \in Scripts : [s EXCEPT !.st = end] \in Scripts
    BY <2>1 DEF Scripts
  <2>3. [scripts[p] EXCEPT !.st = end] \in Scripts
    BY <1>2, <2>1, <2>2
  <2> QED
    BY <1>1, <2>1, <2>3, ExceptSeq
<1>5. CASE TimePasses
  <2>1. PICK p \in DOMAIN scripts : scripts' = [scripts EXCEPT ![p].late = TRUE]
    BY <1>5 DEF TimePasses, Elapse
  <2>2. \A s \in Scripts : [s EXCEPT !.late = TRUE] \in Scripts
    BY DEF Scripts
  <2>3. [scripts[p] EXCEPT !.late = TRUE] \in Scripts
    BY <1>2, <2>1, <2>2
  <2> QED
    BY <1>1, <2>1, <2>3, ExceptSeq
<1>6. CASE VMStop
  <2> DEFINE f(p) == [scripts[p] EXCEPT
           !.st = IF @ = "running" THEN "dead" ELSE @,
           !.broken = @ \/ (Provider = "daemon" /\ scripts[p].st = "running"),
           !.tracked = @ /\ Provider = "daemon"]
  <2>1. \A s \in Scripts : [s EXCEPT
           !.st = IF @ = "running" THEN "dead" ELSE @,
           !.broken = @ \/ (Provider = "daemon" /\ s.st = "running"),
           !.tracked = @ /\ Provider = "daemon"] \in Scripts
    BY ZenonT(60) DEF Scripts
  <2>2. \A p \in DOMAIN scripts : f(p) \in Scripts
    BY <1>2, <2>1
  <2>3. scripts' = [p \in DOMAIN scripts |-> f(p)]
    BY <1>6 DEF VMStop
  <2> HIDE DEF f
  <2>4. [p \in DOMAIN scripts |-> f(p)] \in [DOMAIN scripts -> Scripts]
    BY <2>2
  <2> QED
    BY <1>3, <2>3, <2>4
<1>7. Forget \in Seq(Scripts)
  <2> DEFINE f(p) == [scripts[p] EXCEPT !.tracked = FALSE]
  <2>1. \A s \in Scripts : [s EXCEPT !.tracked = FALSE] \in Scripts
    BY DEF Scripts
  <2>2. \A p \in DOMAIN scripts : f(p) \in Scripts
    BY <1>2, <2>1
  <2>3. Forget = [p \in DOMAIN scripts |-> f(p)]
    BY DEF Forget
  <2> HIDE DEF f
  <2>4. [p \in DOMAIN scripts |-> f(p)] \in [DOMAIN scripts -> Scripts]
    BY <2>2
  <2> QED
    BY <1>3, <2>3, <2>4
<1>8. CASE AgentFails
  <2> DEFINE f(p) == [scripts[p] EXCEPT !.broken = @ \/ scripts[p].st = "running"]
  <2>1. \A s \in Scripts : [s EXCEPT !.broken = @ \/ s.st = "running"] \in Scripts
    BY DEF Scripts
  <2>2. \A p \in DOMAIN scripts : f(p) \in Scripts
    BY <1>2, <2>1
  <2>3. scripts' = Forget \/ scripts' = [p \in DOMAIN scripts |-> f(p)]
    BY <1>8 DEF AgentFails
  <2> HIDE DEF f
  <2>4. [p \in DOMAIN scripts |-> f(p)] \in [DOMAIN scripts -> Scripts]
    BY <2>2
  <2> QED
    BY <1>3, <1>7, <2>3, <2>4
<1>9. CASE OperatorRestart
  <2> DEFINE f(p) == [scripts[p] EXCEPT !.tracked = FALSE, !.freed = TRUE]
  <2>1. \A s \in Scripts : [s EXCEPT !.tracked = FALSE, !.freed = TRUE] \in Scripts
    BY DEF Scripts
  <2>2. \A p \in DOMAIN scripts : f(p) \in Scripts
    BY <1>2, <2>1
  <2>3. scripts' = scripts \/ scripts' = [p \in DOMAIN scripts |-> f(p)]
    BY <1>9 DEF OperatorRestart, StartOver
  <2> HIDE DEF f
  <2>4. [p \in DOMAIN scripts |-> f(p)] \in [DOMAIN scripts -> Scripts]
    BY <2>2
  <2> QED
    BY <1>1, <1>3, <2>3, <2>4
<1>10. CASE OthersShare
  <2>1. PICK p \in DOMAIN scripts : NumberReused(p) \/ ResultTaken(p)
    BY <1>10 DEF OthersShare
  <2> DEFINE y == [scripts[p] EXCEPT !.tracked = TRUE, !.freed = FALSE, !.taken = TRUE]
             z == [scripts[p] EXCEPT !.tracked = FALSE]
  <2>2. \A s \in Scripts : /\ [s EXCEPT !.tracked = TRUE, !.freed = FALSE, !.taken = TRUE] \in Scripts
                           /\ [s EXCEPT !.tracked = FALSE] \in Scripts
    BY DEF Scripts
  <2>3. y \in Scripts /\ z \in Scripts
    BY <1>2, <2>1, <2>2
  <2>4. scripts' = [scripts EXCEPT ![p] = y] \/ scripts' = [scripts EXCEPT ![p] = z]
    BY <1>1, <2>1 DEF NumberReused, ResultTaken
  <2> HIDE DEF y, z
  <2> QED
    BY <1>1, <2>1, <2>3, <2>4, ExceptSeq
<1> QED
  BY <1>4, <1>5, <1>6, <1>8, <1>9, <1>10

LEMMA TypeWorld ==
    ASSUME TypeOK, \/ ScriptEnds \/ TimePasses \/ VMStop \/ VMStart \/ TargetPoll
                   \/ RebootPublish \/ AgentFails \/ OperatorRestart \/ OthersShare
    PROVE  TypeOK'
<1>1. CASE ScriptEnds
  <2>1. \A p \in DOMAIN scripts : scripts[p].uid \in Nat /\ scripts[p].gen \in Nat
    <3>1. \A p \in DOMAIN scripts : scripts[p] \in Scripts
      BY DEF TypeOK
    <3> QED
      BY <3>1 DEF Scripts
  <2>2. router' \in [uid : Nat, gen : Nat]
    BY <1>1, <2>1 DEF ScriptEnds, Finish, TypeOK
  <2>3. UNCHANGED <<stream, queued, local, vmUp, boots, target, faults>>
    BY <1>1 DEF ScriptEnds, Finish
  <2> QED
    BY <1>1, <2>2, <2>3, TypeScripts DEF TypeOK, local
<1>2. CASE TimePasses
  <2>1. UNCHANGED <<stream, queued, local, router, vmUp, boots, target, faults>>
    BY <1>2 DEF TimePasses, Elapse
  <2> QED
    BY <1>2, <2>1, TypeScripts DEF TypeOK, local
<1>3. CASE VMStop
  BY <1>3, TypeScripts DEF VMStop, TypeOK, local
<1>4. CASE VMStart
  BY <1>4 DEF VMStart, TypeOK, local
<1>5. CASE TargetPoll \/ RebootPublish
  BY <1>5 DEF TargetPoll, RebootPublish, TypeOK, local
<1>6. CASE AgentFails
  <2>1. faults' \in Nat
    BY <1>6 DEF AgentFails, Fault, TypeOK
  <2> QED
    BY <1>6, <2>1, TypeScripts DEF AgentFails, TypeOK, local
<1>7. CASE OperatorRestart
  <2>1. faults' \in Nat
    BY <1>7 DEF OperatorRestart, Fault, TypeOK
  <2>2. stream' \in Seq(Versions) /\ Len(stream') \in 1..(MaxLag + 1)
    BY <1>7, StreamEnds, BoundsAssumption DEF OperatorRestart
  <2>3. /\ pc' = "idle" /\ snap' \in Versions /\ next' \in Statuses
        /\ ret' = "done" /\ reboot' = 0 /\ queued' \in BOOLEAN
    BY <1>7, ReturnType DEF OperatorRestart
  <2>4. UNCHANGED <<router, vmUp, boots, target>>
    BY <1>7 DEF OperatorRestart
  <2> QED
    BY <1>7, <2>1, <2>2, <2>3, <2>4, TypeScripts DEF TypeOK
<1>8. CASE OthersShare
  <2>1. UNCHANGED <<stream, queued, local, router, vmUp, boots, target>>
    BY <1>8 DEF OthersShare, NumberReused, ResultTaken
  <2>2. faults' \in {faults, faults + 1}
    BY <1>8 DEF OthersShare, NumberReused, ResultTaken, Fault
  <2>3. faults' \in Nat
    BY <2>2 DEF TypeOK
  <2> QED
    BY <1>8, <2>1, <2>3, TypeScripts DEF TypeOK, local
<1> QED
  BY <1>1, <1>2, <1>3, <1>4, <1>5, <1>6, <1>7, <1>8

LEMMA TypeStep == TypeOK /\ [Next]_vars => TypeOK'
<1> SUFFICES ASSUME TypeOK, [Next]_vars PROVE TypeOK'
  OBVIOUS
<1>1. CASE Controller
  BY <1>1, TypeRead, TypeFinalizer, TypeBegin, TypeProbe, TypePoll, TypeDispatch, TypePatch
     DEF Controller, Dispatch
<1>2. CASE Environment
  BY <1>2, TypeWrites, TypeWorld DEF Environment
<1>3. CASE UNCHANGED vars
  BY <1>3 DEF vars, local, world, TypeOK
<1> QED
  BY <1>1, <1>2, <1>3 DEF Next

\* Whatever the reconcile, its faults and the world do, every variable keeps its
\* type: the status stays within the CRD, and the cache within its lag.
THEOREM TypeCorrect == Spec => []TypeOK
<1> QED
  BY TypeInit, TypeStep, PTL DEF Spec

\* A reconcile that applies, polls or reports is under way.
MidReconcile == pc \in {"onChange", "checkReady", "dispatchOrPoll", "patch"}

----------------------------------------------------------------------------
(* Execs only grow in number; each keeps what it is, and ends once *)

\* Exec y is exec x a step later.
Persists(x, y) ==
    /\ y.uid = x.uid /\ y.gen = x.gen /\ y.forced = x.forced
    /\ x.late => y.late
    /\ x.taken => y.taken
    /\ \/ y.st = x.st
       \/ x.st = "running" /\ (y.st = "dead" \/ ScriptEnds)

\* While it runs, the provider answers for it.
Watched(x) == x.st = "running" => x.tracked /\ ~x.broken /\ ~x.taken

\* Its number is nobody else's, nor will be.
Unshared(x) == ~x.freed /\ ~x.taken

OldExec(p) ==
    /\ p \in DOMAIN scripts' /\ Persists(scripts[p], scripts'[p])
    /\ \/ scripts'[p].rec = scripts[p].rec
       \/ /\ PatchStatus \/ PatchStatusAnswerLost
          /\ p = next.pid /\ next.pid # snap.st.pid
    /\ Watched(scripts[p]) => Watched(scripts'[p]) \/ faults' # faults
    /\ \/ Unshared(scripts[p]) => Unshared(scripts'[p])
       \/ Provider = "daemon" /\ faults' = faults + 1 /\ "operator" \in Faults

NewExec(p) ==
    /\ p = Len(scripts) + 1 /\ pc = "dispatchOrPoll" /\ MustApply
    /\ scripts'[p].uid = snap.uid /\ scripts'[p].gen = snap.gen /\ ~scripts'[p].rec
    /\ scripts'[p].st \in {"running", "dead"} /\ Watched(scripts'[p])
    /\ Unshared(scripts'[p])
    /\ \/ applyConfig /\ scripts'[p].forced = (IF ConclusivelyDone THEN reboot ELSE 0)
       \/ (applyConfigError \/ applyConfigUnreachable) /\ scripts'[p].forced = 0

\* The fields of exec n are those of exec x, but for these.
Is(n, x, st, tracked, broken, rec, late) ==
    /\ n.uid = x.uid /\ n.gen = x.gen /\ n.forced = x.forced
    /\ n.freed = x.freed /\ n.taken = x.taken
    /\ n.st = st /\ n.tracked = tracked /\ n.broken = broken /\ n.rec = rec /\ n.late = late

LEMMA ScriptFields ==
    ASSUME NEW x \in Scripts
    PROVE  /\ Is([x EXCEPT !.tracked = FALSE], x, x.st, FALSE, x.broken, x.rec, x.late)
           /\ Is([x EXCEPT !.rec = TRUE], x, x.st, x.tracked, x.broken, TRUE, x.late)
           /\ Is([x EXCEPT !.late = TRUE], x, x.st, x.tracked, x.broken, x.rec, TRUE)
           /\ \A e : Is([x EXCEPT !.st = e], x, e, x.tracked, x.broken, x.rec, x.late)
           /\ \A b : Is([x EXCEPT !.broken = b], x, x.st, x.tracked, b, x.rec, x.late)
           /\ \A e, b : Is([x EXCEPT !.st = e, !.broken = b], x, e, x.tracked, b, x.rec, x.late)
BY DEF Is, Scripts

LEMMA SameExec ==
    ASSUME NEW p \in DOMAIN scripts, p \in DOMAIN scripts', scripts'[p] = scripts[p]
    PROVE  OldExec(p)
BY DEF OldExec, Persists

\* A step that touches one exec, or none.
LEMMA OneTouched ==
    ASSUME TypeOK, NEW p, NEW y, scripts' = [scripts EXCEPT ![p] = y],
           p \in DOMAIN scripts => /\ Persists(scripts[p], y) /\ y.rec = scripts[p].rec
                                   /\ Watched(scripts[p]) => Watched(y)
                                   /\ Unshared(scripts[p]) => Unshared(y)
    PROVE  DOMAIN scripts' = DOMAIN scripts /\ \A q \in DOMAIN scripts : OldExec(q)
<1>1. DOMAIN scripts' = DOMAIN scripts
  OBVIOUS
<1>2. ASSUME NEW q \in DOMAIN scripts PROVE OldExec(q)
  <2>1. CASE q = p
    <3>1. scripts'[q] = y
      BY <2>1
    <3> QED
      BY <1>1, <2>1, <3>1 DEF OldExec
  <2>2. CASE q # p
    BY <1>1, <2>2, SameExec
  <2> QED
    BY <2>1, <2>2
<1> QED
  BY <1>1, <1>2

\* A dispatch appends one exec.
LEMMA OneStarted ==
    ASSUME TypeOK, NEW y, scripts' = Append(scripts, y)
    PROVE  /\ DOMAIN scripts' = 1..(Len(scripts) + 1) /\ DOMAIN scripts = 1..Len(scripts)
           /\ scripts'[Len(scripts) + 1] = y /\ Len(scripts) \in Nat
           /\ \A q \in DOMAIN scripts : OldExec(q)
<1>1. scripts \in Seq(Scripts) /\ DOMAIN scripts = 1..Len(scripts) /\ Len(scripts) \in Nat
  BY DEF TypeOK
<1>2. /\ DOMAIN scripts' = 1..(Len(scripts) + 1) /\ scripts'[Len(scripts) + 1] = y
      /\ \A q \in 1..Len(scripts) : scripts'[q] = scripts[q]
  BY <1>1, AppendProperties
<1> QED
  BY <1>1, <1>2, SameExec

LEMMA PollExecs ==
    ASSUME TypeOK, Poll
    PROVE  DOMAIN scripts' = DOMAIN scripts /\ \A q \in DOMAIN scripts : OldExec(q)
<1> DEFINE p == snap.st.pid
<1>1. ASSUME scripts' = [scripts EXCEPT ![p].tracked = FALSE],
             scripts[p].st # "running" \/ scripts[p].broken \/ scripts[p].taken
      PROVE  DOMAIN scripts' = DOMAIN scripts /\ \A q \in DOMAIN scripts : OldExec(q)
  <2> DEFINE y == [scripts[p] EXCEPT !.tracked = FALSE]
  <2>1. ASSUME p \in DOMAIN scripts
        PROVE  /\ Persists(scripts[p], y) /\ y.rec = scripts[p].rec
               /\ Watched(scripts[p]) => Watched(y)
               /\ Unshared(scripts[p]) => Unshared(y)
    <3>1. scripts[p] \in Scripts
      BY <2>1 DEF TypeOK
    <3>2. Is(y, scripts[p], scripts[p].st, FALSE, scripts[p].broken, scripts[p].rec,
             scripts[p].late)
      BY <3>1, ScriptFields
    <3> HIDE DEF y
    <3> QED
      BY <1>1, <3>2 DEF Is, Persists, Watched, Unshared
  <2>2. scripts' = [scripts EXCEPT ![p] = y]
    BY <1>1
  <2> HIDE DEF p, y
  <2> QED
    BY <2>1, <2>2, OneTouched
<1>2. CASE UNCHANGED scripts
  BY <1>2, SameExec
<1>3. CASE PollExited
  BY <1>1, <1>3 DEF PollExited, Answers
<1>4. CASE PollError
  <2>1. "broken" \in Answers(p) => scripts[p].st = "broken" \/ scripts[p].broken \/ scripts[p].taken
    BY DEF Answers
  <2> QED
    BY <1>1, <1>2, <1>4, <2>1 DEF PollError
<1> QED
  BY <1>2, <1>3, <1>4 DEF Poll, PollRunning, PollLost, world

LEMMA DispatchExecs ==
    ASSUME TypeOK, Dispatch
    PROVE  /\ \A p \in DOMAIN scripts : OldExec(p)
           /\ \A p \in DOMAIN scripts' : p \in DOMAIN scripts \/ NewExec(p)
<1> DEFINE n == Len(scripts) + 1
<1>1. snap.gen \in Nat /\ snap.uid \in Nat /\ reboot \in Nat /\ Len(scripts) \in Nat
      /\ DOMAIN scripts = 1..Len(scripts)
  BY InHand DEF TypeOK
<1>2. \A r \in Nat : LET y == NewScript(snap.uid, snap.gen, r)
                     IN y \in Scripts /\ y.uid = snap.uid /\ y.gen = snap.gen /\ ~y.rec
                        /\ y.st = "running" /\ y.tracked /\ ~y.broken /\ y.forced = r
                        /\ Unshared(y)
  BY <1>1, ScriptType DEF NewScript, Unshared
<1>3. CASE UNCHANGED scripts
  BY <1>3, SameExec
<1>4. CASE applyConfig
  <2> DEFINE r == IF ConclusivelyDone THEN reboot ELSE 0
             y == NewScript(snap.uid, snap.gen, r)
  <2>1. r \in Nat
    BY <1>1
  <2>2. scripts' = Append(scripts, y)
    BY <1>4 DEF applyConfig, Start
  <2>3. y.uid = snap.uid /\ y.gen = snap.gen /\ ~y.rec /\ y.st = "running" /\ y.tracked
        /\ ~y.broken /\ y.forced = r /\ Unshared(y)
    BY <1>2, <2>1
  <2> HIDE DEF y
  <2>4. /\ DOMAIN scripts' = 1..n /\ scripts'[n] = y /\ \A q \in DOMAIN scripts : OldExec(q)
    BY <2>2, OneStarted
  <2>5. NewExec(n)
    BY <1>4, <2>3, <2>4 DEF NewExec, Watched, Unshared, applyConfig
  <2>6. \A p \in DOMAIN scripts' : p \in DOMAIN scripts \/ p = n
    BY <1>1, <2>4
  <2> QED
    BY <2>4, <2>5, <2>6
<1>5. CASE applyConfigError /\ scripts' = Start(0)
  <2> DEFINE y == NewScript(snap.uid, snap.gen, 0)
  <2>2. scripts' = Append(scripts, y)
    BY <1>5 DEF Start
  <2>3. y.uid = snap.uid /\ y.gen = snap.gen /\ ~y.rec /\ y.st = "running" /\ y.tracked
        /\ ~y.broken /\ y.forced = 0 /\ Unshared(y)
    BY <1>2
  <2> HIDE DEF y
  <2>4. /\ DOMAIN scripts' = 1..n /\ scripts'[n] = y /\ \A q \in DOMAIN scripts : OldExec(q)
    BY <2>2, OneStarted
  <2>5. NewExec(n)
    BY <1>5, <2>3, <2>4 DEF NewExec, Watched, Unshared, applyConfigError
  <2>6. \A p \in DOMAIN scripts' : p \in DOMAIN scripts \/ p = n
    BY <1>1, <2>4
  <2> QED
    BY <2>4, <2>5, <2>6
<1>6. CASE applyConfigUnreachable
  <2> DEFINE x == NewScript(snap.uid, snap.gen, 0)
             y == [x EXCEPT !.st = "dead", !.broken = TRUE]
  <2>1. x \in Scripts /\ x.uid = snap.uid /\ x.gen = snap.gen /\ ~x.rec /\ x.forced = 0
        /\ Unshared(x)
    BY <1>2
  <2>2. scripts' = [Append(scripts, x) EXCEPT ![n].st = "dead", ![n].broken = TRUE]
    BY <1>6 DEF applyConfigUnreachable, Start
  <2>3. scripts \in Seq(Scripts)
    BY DEF TypeOK
  <2>4. y.uid = snap.uid /\ y.gen = snap.gen /\ ~y.rec /\ y.st = "dead" /\ y.forced = 0
        /\ Unshared(y)
    <3> HIDE DEF x
    <3>1. Is(y, x, "dead", x.tracked, TRUE, x.rec, x.late)
      BY <2>1, ScriptFields
    <3> HIDE DEF y
    <3> QED
      BY <2>1, <3>1 DEF Is, Unshared
  <2>5. /\ DOMAIN Append(scripts, x) = 1..n /\ Append(scripts, x)[n] = x
        /\ \A q \in 1..Len(scripts) : Append(scripts, x)[q] = scripts[q]
    BY <1>1, <2>1, <2>3, AppendProperties
  <2>6. /\ DOMAIN scripts' = 1..n /\ scripts'[n] = y
        /\ \A q \in 1..Len(scripts) : scripts'[q] = scripts[q]
    <3> DEFINE a == Append(scripts, x)
    <3>1. DOMAIN a = 1..n /\ a[n] = x /\ \A q \in 1..Len(scripts) : a[q] = scripts[q]
      BY <2>5
    <3>2. scripts' = [a EXCEPT ![n].st = "dead", ![n].broken = TRUE]
      BY <2>2
    <3>3. n \in 1..n /\ \A q \in 1..Len(scripts) : q \in 1..n /\ q # n
      BY <1>1
    <3> HIDE DEF a, n, x
    <3> QED
      BY <3>1, <3>2, <3>3
  <2> HIDE DEF y
  <2>7. NewExec(n)
    BY <1>6, <2>4, <2>6 DEF NewExec, Watched, applyConfigUnreachable
  <2>8. \A p \in DOMAIN scripts' : p \in DOMAIN scripts \/ p = n
    BY <1>1, <2>6
  <2>9. \A q \in DOMAIN scripts : OldExec(q)
    BY <1>1, <2>6, SameExec
  <2> QED
    BY <2>7, <2>8, <2>9
<1> QED
  BY <1>3, <1>4, <1>5, <1>6 DEF Dispatch, SkipDone, applyConfigError, world

LEMMA PatchExecs ==
    ASSUME TypeOK, Patch
    PROVE  DOMAIN scripts' = DOMAIN scripts /\ \A q \in DOMAIN scripts : OldExec(q)
<1>1. CASE UNCHANGED scripts
  BY <1>1, SameExec
<1>2. CASE /\ PatchStatus \/ PatchStatusAnswerLost
           /\ scripts' = [scripts EXCEPT ![next.pid].rec = TRUE] /\ next.pid # snap.st.pid
  <2>1. DOMAIN scripts' = DOMAIN scripts
    BY <1>2
  <2>2. ASSUME NEW q \in DOMAIN scripts PROVE OldExec(q)
    <3>1. CASE q = next.pid
      <4>1. scripts[q] \in Scripts
        BY DEF TypeOK
      <4>2. Is(scripts'[q], scripts[q], scripts[q].st, scripts[q].tracked, scripts[q].broken,
               TRUE, scripts[q].late)
        BY <1>2, <3>1, <4>1, ScriptFields
      <4> QED
        BY <1>2, <2>1, <3>1, <4>2 DEF Is, OldExec, Persists, Watched, Unshared
    <3>2. CASE q # next.pid
      BY <1>2, <2>1, <3>2, SameExec
    <3> QED
      BY <3>1, <3>2
  <2> QED
    BY <2>1, <2>2
<1> QED
  BY <1>1, <1>2 DEF Patch, PatchStatus, PatchStatusFails, PatchStatusAnswerLost, Recorded, world

LEMMA WorldExecs ==
    ASSUME TypeOK, \/ ScriptEnds \/ TimePasses \/ VMStop \/ AgentFails
                   \/ OperatorRestart \/ OthersShare
    PROVE  DOMAIN scripts' = DOMAIN scripts /\ \A q \in DOMAIN scripts : OldExec(q)
<1>1. \A q \in DOMAIN scripts : scripts[q] \in Scripts
  BY DEF TypeOK
<1>2. CASE ScriptEnds
  <2>1. PICK p \in DOMAIN scripts, end \in {"ok", "fail"} : Finish(p, end)
    BY <1>2 DEF ScriptEnds
  <2> DEFINE y == [scripts[p] EXCEPT !.st = end]
  <2>2. scripts' = [scripts EXCEPT ![p] = y] /\ scripts[p].st = "running"
    BY <2>1 DEF Finish
  <2>3. Is(y, scripts[p], end, scripts[p].tracked, scripts[p].broken, scripts[p].rec,
           scripts[p].late)
    BY <1>1, <2>1, ScriptFields
  <2> HIDE DEF y
  <2>4. Persists(scripts[p], y) /\ y.rec = scripts[p].rec /\ Watched(y)
        /\ (Unshared(scripts[p]) => Unshared(y))
    BY <1>2, <2>1, <2>2, <2>3 DEF Is, Persists, Watched, Unshared
  <2> QED
    BY <2>2, <2>4, OneTouched
<1>3. CASE TimePasses
  <2>1. PICK p \in DOMAIN scripts : Elapse(p)
    BY <1>3 DEF TimePasses
  <2> DEFINE y == [scripts[p] EXCEPT !.late = TRUE]
  <2>2. scripts' = [scripts EXCEPT ![p] = y]
    BY <2>1 DEF Elapse
  <2>3. Is(y, scripts[p], scripts[p].st, scripts[p].tracked, scripts[p].broken,
           scripts[p].rec, TRUE)
    BY <1>1, <2>1, ScriptFields
  <2> HIDE DEF y
  <2>4. Persists(scripts[p], y) /\ y.rec = scripts[p].rec /\ (Watched(scripts[p]) => Watched(y))
        /\ (Unshared(scripts[p]) => Unshared(y))
    BY <2>3 DEF Is, Persists, Watched, Unshared
  <2> QED
    BY <2>2, <2>4, OneTouched
<1>4. CASE VMStop
  <2> DEFINE e(q) == IF scripts[q].st = "running" THEN "dead" ELSE scripts[q].st
             b(q) == scripts[q].broken \/ (Provider = "daemon" /\ scripts[q].st = "running")
             t(q) == scripts[q].tracked /\ Provider = "daemon"
  <2>1. \A q \in DOMAIN scripts :
            scripts'[q] = [scripts[q] EXCEPT !.st = e(q), !.broken = b(q), !.tracked = t(q)]
    BY <1>4 DEF VMStop
  <2>2. DOMAIN scripts' = DOMAIN scripts
    BY <1>4 DEF VMStop
  <2>3. ASSUME NEW q \in DOMAIN scripts PROVE OldExec(q)
    <3>1. e(q) # "running" /\ (e(q) = scripts[q].st \/ (scripts[q].st = "running" /\ e(q) = "dead"))
      OBVIOUS
    <3>2. b(q) \in BOOLEAN /\ t(q) \in BOOLEAN
      OBVIOUS
    <3> HIDE DEF e, b, t
    <3>3. PICK f \in {e(q)}, c \in BOOLEAN, d \in BOOLEAN :
             scripts'[q] = [scripts[q] EXCEPT !.st = f, !.broken = c, !.tracked = d]
      BY <2>1, <3>2
    <3>4. Is(scripts'[q], scripts[q], f, d, c, scripts[q].rec, scripts[q].late)
      BY <1>1, <3>3 DEF Is, Scripts
    <3> QED
      BY <2>2, <3>1, <3>4 DEF Is, OldExec, Persists, Watched, Unshared
  <2> QED
    BY <2>2, <2>3
<1>5. faults \in Nat
  BY DEF TypeOK
<1>6. ASSUME scripts' = Forget, faults' = faults + 1
      PROVE  DOMAIN scripts' = DOMAIN scripts /\ \A q \in DOMAIN scripts : OldExec(q)
  <2>1. DOMAIN scripts' = DOMAIN scripts
        /\ \A q \in DOMAIN scripts : scripts'[q] = [scripts[q] EXCEPT !.tracked = FALSE]
    BY <1>6 DEF Forget
  <2>2. ASSUME NEW q \in DOMAIN scripts PROVE OldExec(q)
    <3>1. Is(scripts'[q], scripts[q], scripts[q].st, FALSE, scripts[q].broken,
             scripts[q].rec, scripts[q].late)
      BY <1>1, <2>1, ScriptFields
    <3> QED
      BY <1>5, <1>6, <2>1, <3>1 DEF Is, OldExec, Persists, Unshared
  <2> QED
    BY <2>1, <2>2
<1>7. ASSUME faults' = faults + 1,
             scripts' = [q \in DOMAIN scripts |-> [scripts[q] EXCEPT
                            !.broken = @ \/ scripts[q].st = "running"]]
      PROVE  DOMAIN scripts' = DOMAIN scripts /\ \A q \in DOMAIN scripts : OldExec(q)
  <2> DEFINE b(q) == scripts[q].broken \/ scripts[q].st = "running"
  <2>1. DOMAIN scripts' = DOMAIN scripts
        /\ \A q \in DOMAIN scripts : scripts'[q] = [scripts[q] EXCEPT !.broken = b(q)]
    BY <1>7
  <2>2. ASSUME NEW q \in DOMAIN scripts PROVE OldExec(q)
    <3>1. b(q) \in BOOLEAN
      OBVIOUS
    <3> HIDE DEF b
    <3>2. PICK c \in BOOLEAN : scripts'[q] = [scripts[q] EXCEPT !.broken = c]
      BY <2>1, <3>1
    <3>3. Is(scripts'[q], scripts[q], scripts[q].st, scripts[q].tracked, c,
             scripts[q].rec, scripts[q].late)
      BY <1>1, <3>2, ScriptFields
    <3> QED
      BY <1>5, <1>7, <2>1, <3>3 DEF Is, OldExec, Persists, Unshared
  <2> QED
    BY <2>1, <2>2
<1>8. CASE AgentFails
  BY <1>6, <1>7, <1>8 DEF AgentFails, Fault
<1>9. CASE OperatorRestart
  <2>1. faults' = faults + 1 /\ faults' # faults /\ "operator" \in Faults
    BY <1>5, <1>9 DEF OperatorRestart, Fault
  <2>2. CASE UNCHANGED scripts
    BY <2>2, SameExec
  <2>3. CASE Provider = "daemon" /\ scripts' = StartOver
    <3>1. DOMAIN scripts' = DOMAIN scripts
          /\ \A q \in DOMAIN scripts :
                scripts'[q] = [scripts[q] EXCEPT !.tracked = FALSE, !.freed = TRUE]
      BY <2>3 DEF StartOver
    <3>2. \A x \in Scripts : LET y == [x EXCEPT !.tracked = FALSE, !.freed = TRUE]
                             IN Persists(x, y) /\ y.rec = x.rec
      BY DEF Scripts, Persists
    <3> QED
      BY <1>1, <2>1, <2>3, <3>1, <3>2 DEF OldExec
  <2> QED
    BY <1>9, <2>2, <2>3 DEF OperatorRestart
<1>10. CASE OthersShare
  <2>1. PICK p \in DOMAIN scripts : NumberReused(p) \/ ResultTaken(p)
    BY <1>10 DEF OthersShare
  <2>2. CASE NumberReused(p)
    <3> DEFINE y == [scripts[p] EXCEPT !.tracked = TRUE, !.freed = FALSE, !.taken = TRUE]
    <3>1. scripts' = [scripts EXCEPT ![p] = y] /\ scripts[p].freed /\ ~scripts[p].tracked
      BY <2>2 DEF NumberReused
    <3>2. Persists(scripts[p], y) /\ y.rec = scripts[p].rec
          /\ (Watched(scripts[p]) => Watched(y)) /\ (Unshared(scripts[p]) => Unshared(y))
      BY <1>1, <2>1, <3>1 DEF Scripts, Persists, Watched, Unshared
    <3> HIDE DEF y
    <3> QED
      BY <3>1, <3>2, OneTouched
  <2>3. CASE ResultTaken(p)
    <3> DEFINE y == [scripts[p] EXCEPT !.tracked = FALSE]
    <3>1. scripts' = [scripts EXCEPT ![p] = y]
          /\ (scripts[p].st # "running" \/ scripts[p].broken)
      BY <2>3 DEF ResultTaken
    <3>2. Persists(scripts[p], y) /\ y.rec = scripts[p].rec
          /\ (Watched(scripts[p]) => Watched(y)) /\ (Unshared(scripts[p]) => Unshared(y))
      BY <1>1, <2>1, <3>1 DEF Scripts, Persists, Watched, Unshared
    <3> HIDE DEF y
    <3> QED
      BY <3>1, <3>2, OneTouched
  <2> QED
    BY <2>1, <2>2, <2>3
<1> QED
  BY <1>2, <1>3, <1>4, <1>8, <1>9, <1>10

LEMMA ScriptMoves ==
    ASSUME TypeOK, [Next]_vars
    PROVE  /\ \A p \in DOMAIN scripts : OldExec(p)
           /\ \A p \in DOMAIN scripts' : p \in DOMAIN scripts \/ NewExec(p)
<1>1. CASE UNCHANGED scripts
  BY <1>1, SameExec
<1>2. \/ UNCHANGED scripts \/ Poll \/ Dispatch \/ Patch \/ ScriptEnds \/ TimePasses
      \/ VMStop \/ AgentFails \/ OperatorRestart \/ OthersShare
  BY DEF Next, Controller, Environment, Reconcile, UpdateFinalizer, onChange, onChangeStopped,
         onChangeError, CheckReady, CheckReadyFails, Deliver, SpecUpdate, Delete, Recreate,
         Write, VMStart, TargetPoll, RebootPublish, vars, world
<1> QED
  BY <1>1, <1>2, PollExecs, DispatchExecs, PatchExecs, WorldExecs

\* The exec stands for its success: it ended well, or the handle of it was given to
\* another call after a restart.
Vouches(x) == x.st = "ok" \/ x.taken

Grows(q, r) ==
    \A p \in DOMAIN q : /\ p \in DOMAIN r /\ r[p].uid = q[p].uid /\ r[p].gen = q[p].gen
                        /\ Vouches(q[p]) => Vouches(r[p])

LEMMA ScriptsGrow == ASSUME TypeOK, [Next]_vars PROVE Grows(scripts, scripts')
BY ScriptMoves DEF Grows, OldExec, Persists, Vouches

----------------------------------------------------------------------------
(* How the stored object, and the reconcile's copy, move *)

\* The writes of the object: its finalizer, a status patch, an edit or a deletion
\* by somebody else, and its creation anew.
Finalizes(v) ==
    /\ pc \in {"addFinalizer", "onDelete"} /\ pc' = "idle" /\ snap = Api
    /\ v.uid = Api.uid /\ v.gen = Api.gen /\ v.st = Api.st /\ v.del = Api.del
    /\ v.fin = ~Api.del /\ v.live = ~Api.del

Patches(v) ==
    /\ PatchStatus \/ PatchStatusAnswerLost
    /\ v.uid = Api.uid /\ v.gen = Api.gen /\ v.del = Api.del /\ v.fin = Api.fin
    /\ v.live = Api.live /\ v.st = MergePatch(Api.st, snap.st, next)

Edits(v) ==
    /\ UNCHANGED local
    /\ v.uid = Api.uid /\ v.st = Api.st /\ v.fin = Api.fin /\ Api.gen <= v.gen
    /\ Api.del => v.del
    /\ v.live => Api.live
    /\ Api.live /\ Api.fin => v.live

Recreates(v) ==
    /\ UNCHANGED local
    /\ ~Api.live /\ v.uid = Api.uid + 1 /\ v.gen = 1 /\ v.st = NewStatus
    /\ ~v.del /\ ~v.fin /\ v.live

LEMMA ApiMoves ==
    ASSUME TypeOK, [Next]_vars
    PROVE  \/ Api' = Api /\ (UNCHANGED stream \/ Deliver \/ OperatorRestart)
           \/ /\ Api' \in Versions /\ Push(Api')
              /\ Finalizes(Api') \/ Patches(Api') \/ Edits(Api') \/ Recreates(Api')
<1>1. stream \in Seq(Versions) /\ Len(stream) \in Nat /\ Len(stream) > 0
      /\ Api \in Versions /\ snap \in Versions /\ Api.gen \in Nat /\ Api.uid \in Nat
  <2>1. stream \in Seq(Versions) /\ Len(stream) \in Nat /\ Len(stream) > 0 /\ snap \in Versions
    BY BoundsAssumption DEF TypeOK
  <2> QED
    BY <2>1, InHand
<1>2. \A v \in Versions : Push(v) => Api' = v
  BY PushType
<1>3. CASE UNCHANGED stream \/ OperatorRestart
  <2>1. UNCHANGED stream \/ stream' = <<Api>>
    BY <1>3 DEF OperatorRestart
  <2>2. \A v : <<v>>[Len(<<v>>)] = v
    OBVIOUS
  <2>3. Api' = Api
    BY <2>1, <2>2 DEF Api
  <2> QED
    BY <1>3, <2>3
<1>4. CASE Deliver
  <2>1. stream' = Tail(stream) /\ Len(stream) > 1
    BY <1>4 DEF Deliver
  <2>2. Api' = Api
    BY <1>1, <2>1 DEF Api
  <2> QED
    BY <1>4, <2>2
<1>5. CASE UpdateFinalizer /\ snap = Api
  <2> DEFINE v == [snap EXCEPT !.fin = ~snap.del, !.live = ~snap.del]
  <2>1. v \in Versions /\ v.uid = snap.uid /\ v.gen = snap.gen /\ v.st = snap.st
        /\ v.del = snap.del /\ v.fin = ~snap.del /\ v.live = ~snap.del
    BY <1>1 DEF Versions
  <2>2. Push(v) /\ pc \in {"addFinalizer", "onDelete"} /\ pc' = "idle"
    BY <1>5 DEF UpdateFinalizer, Return
  <2> HIDE DEF v
  <2>3. Api' = v /\ Push(Api')
    BY <1>2, <2>1, <2>2
  <2> QED
    BY <1>5, <2>1, <2>2, <2>3 DEF Finalizes
<1>6. CASE PatchStatus \/ PatchStatusAnswerLost
  <2>1. Patched \in Versions /\ Push(Patched)
    BY <1>6, PatchedType DEF PatchStatus, PatchStatusAnswerLost
  <2>2. Api' = Patched /\ Push(Api')
    BY <1>2, <2>1
  <2>3. /\ Patched.uid = Api.uid /\ Patched.gen = Api.gen /\ Patched.del = Api.del
        /\ Patched.fin = Api.fin /\ Patched.live = Api.live
        /\ Patched.st = MergePatch(Api.st, snap.st, next)
    BY <1>1 DEF Patched, Versions
  <2> QED
    BY <1>6, <2>1, <2>2, <2>3 DEF Patches
<1>7. ASSUME NEW v \in Versions, Write(v)
      PROVE  Api' = v /\ Push(Api') /\ UNCHANGED local
  BY <1>2, <1>7 DEF Write
<1>8. CASE SpecUpdate
  <2> DEFINE v == [Api EXCEPT !.gen = Api.gen + 1]
  <2>1. v \in Versions /\ v.uid = Api.uid /\ v.gen = Api.gen + 1 /\ v.st = Api.st
        /\ v.del = Api.del /\ v.fin = Api.fin /\ v.live = Api.live
    <3>1. Api.gen + 1 \in Nat
      BY <1>1
    <3> QED
      BY <1>1, <3>1 DEF Versions
  <2>2. Write(v)
    BY <1>8 DEF SpecUpdate
  <2> HIDE DEF v
  <2>3. Api' = v /\ Push(Api') /\ UNCHANGED local
    BY <1>7, <2>1, <2>2
  <2> QED
    BY <1>1, <2>1, <2>3 DEF Edits
<1>9. CASE Delete
  <2> DEFINE v == IF Api.fin THEN [Api EXCEPT !.del = TRUE] ELSE [Api EXCEPT !.live = FALSE]
  <2>1. v \in Versions /\ v.uid = Api.uid /\ v.gen = Api.gen /\ v.st = Api.st
        /\ v.fin = Api.fin /\ (Api.del => v.del) /\ (v.live => Api.live)
        /\ (Api.live /\ Api.fin => v.live)
    BY <1>1 DEF Versions
  <2>2. Write(v)
    BY <1>9 DEF Delete
  <2> HIDE DEF v
  <2>3. Api' = v /\ Push(Api') /\ UNCHANGED local
    BY <1>7, <2>1, <2>2
  <2> QED
    BY <1>1, <2>1, <2>3 DEF Edits
<1>10. CASE Recreate
  <2> DEFINE v == NewCfg(Api.uid + 1)
  <2>1. v \in Versions
    BY <1>1, NewFields
  <2>2. v.uid = Api.uid + 1 /\ v.gen = 1 /\ v.st = NewStatus /\ ~v.del /\ ~v.fin /\ v.live
    BY DEF NewCfg
  <2>3. Write(v) /\ ~Api.live
    BY <1>10 DEF Recreate
  <2> HIDE DEF v
  <2>4. Api' = v /\ Push(Api') /\ UNCHANGED local
    BY <1>7, <2>1, <2>3
  <2> QED
    BY <2>1, <2>2, <2>3, <2>4 DEF Recreates
<1>11. \/ UNCHANGED stream \/ OperatorRestart \/ Deliver \/ UpdateFinalizer
       \/ PatchStatus \/ PatchStatusAnswerLost \/ SpecUpdate \/ Delete \/ Recreate
  <2>1. CASE Controller
    BY <2>1 DEF Controller, Reconcile, onChange, onChangeStopped, onChangeError, CheckReady,
         CheckReadyFails, Poll, PollRunning, PollExited, PollLost, PollError, Dispatch,
         SkipDone, applyConfig, applyConfigError, applyConfigUnreachable, Patch,
         PatchStatusFails, SendPatch
  <2>2. CASE Environment
    BY <2>2 DEF Environment, ScriptEnds, Finish, TimePasses, Elapse, VMStop, VMStart,
         TargetPoll, RebootPublish, AgentFails, OthersShare, NumberReused, ResultTaken
  <2> QED
    BY <2>1, <2>2 DEF Next, vars
<1>12. UpdateFinalizer => UNCHANGED stream \/ snap = Api
  BY DEF UpdateFinalizer
<1> QED
  BY <1>3, <1>4, <1>5, <1>6, <1>8, <1>9, <1>10, <1>11, <1>12

\* How the reconcile's own variables move.
Reads == /\ Reconcile /\ Cache.live /\ UNCHANGED stream
         /\ pc = "idle" /\ snap' = Cache /\ pc' = Branch(Cache)

Proceeds == /\ MidReconcile /\ pc' \in {"checkReady", "dispatchOrPoll", "patch"}
            /\ pc # "patch" /\ UNCHANGED <<snap, stream>>

Stamps == /\ PatchStatus /\ ret = "checkReady"
          /\ pc = "patch" /\ pc' = "checkReady" /\ snap' = Api'

LEMMA LocalMoves ==
    ASSUME TypeOK, [Next]_vars
    PROVE  pc' = "idle" \/ UNCHANGED local \/ Reads \/ Proceeds \/ Stamps
<1>1. CASE Reconcile
  BY <1>1 DEF Reconcile, Reads
<1>2. CASE UpdateFinalizer \/ onChangeStopped \/ onChangeError \/ SkipDone \/ applyConfigError
           \/ PatchStatusFails \/ PatchStatusAnswerLost \/ OperatorRestart
  BY <1>2 DEF UpdateFinalizer, onChangeStopped, onChangeError, SkipDone, applyConfigError,
       PatchStatusFails, PatchStatusAnswerLost, OperatorRestart, Return
<1>3. CASE onChange \/ CheckReady
  BY <1>3 DEF onChange, CheckReady, Proceeds, MidReconcile
<1>4. CASE CheckReadyFails \/ Poll \/ applyConfig \/ applyConfigUnreachable
  BY <1>4 DEF CheckReadyFails, Poll, PollRunning, PollExited, PollLost, PollError,
       applyConfig, applyConfigUnreachable, SendPatch, Return, Proceeds, MidReconcile
<1>5. CASE PatchStatus
  <2>1. CASE ret = "checkReady"
    <3>1. Push(Patched) /\ snap' = Patched /\ pc = "patch" /\ pc' = "checkReady"
      BY <1>5, <2>1 DEF PatchStatus
    <3>2. Api' = Patched
      BY <3>1, PatchedType, PushType
    <3> QED
      BY <1>5, <2>1, <3>1, <3>2 DEF Stamps
  <2>2. CASE ret # "checkReady"
    BY <1>5, <2>2 DEF PatchStatus, Return
  <2> QED
    BY <2>1, <2>2
<1>6. CASE Environment
  BY <1>2, <1>6 DEF Environment, Deliver, SpecUpdate, Delete, Recreate, Write, ScriptEnds,
       Finish, TimePasses, Elapse, VMStop, VMStart, TargetPoll, RebootPublish, AgentFails,
       OthersShare, NumberReused, ResultTaken
<1>7. CASE UNCHANGED vars
  BY <1>7 DEF vars
<1> QED
  BY <1>1, <1>2, <1>3, <1>4, <1>5, <1>6, <1>7 DEF Next, Controller, Dispatch, Patch

\* What a reconcile sends.
LEMMA SentMoves ==
    ASSUME TypeOK, [Next]_vars, Proceeds, pc' = "patch"
    PROVE  \/ /\ onChange /\ NeedsStart(snap.st)
              /\ next' = [snap.st EXCEPT !.started = snap.st.pid]
           \/ /\ UNCHANGED reboot /\ pc # "onChange" /\ ret' # "checkReady"
              /\ \/ TimedOut(snap.st) /\ next' = Failed(snap.st)
                 \/ CheckReadyFails /\ next' = NotReady(snap.st)
                 \/ PollRunning /\ next' = [snap.st EXCEPT !.phase = "Applying"]
                 \/ /\ PollExited /\ "ok" \in Answers(snap.st.pid)
                    /\ next' = Applied(snap.st, snap.gen)
                 \/ /\ PollExited /\ "fail" \in Answers(snap.st.pid)
                    /\ next' = Failed(snap.st)
                 \/ PollLost /\ next' = Lost(snap.st)
                 \/ /\ applyConfig \/ applyConfigUnreachable
                    /\ next' = Dispatched(snap.st, Len(scripts) + 1, snap.gen, reboot)
<1>1. CASE onChange
  BY <1>1 DEF onChange, Proceeds
<1>2. CASE CheckReadyFails
  BY <1>2 DEF CheckReadyFails, SendPatch, Return, Proceeds
<1>3. CASE PollRunning
  BY <1>3 DEF PollRunning, SendPatch, Proceeds
<1>4. CASE PollExited
  BY <1>4 DEF PollExited, ExitedOk, SendPatch, Proceeds
<1>5. CASE PollLost \/ PollError
  BY <1>5 DEF PollLost, PollError, SendPatch, Return, Proceeds
<1>6. CASE applyConfig \/ applyConfigUnreachable
  BY <1>6 DEF applyConfig, applyConfigUnreachable, SendPatch, Proceeds
<1>7. CASE Reconcile \/ UpdateFinalizer \/ onChangeStopped \/ onChangeError \/ CheckReady
           \/ SkipDone \/ applyConfigError \/ Patch
  BY <1>7 DEF Reconcile, UpdateFinalizer, onChangeStopped, onChangeError, CheckReady, SkipDone,
       applyConfigError, Return, Patch, PatchStatus, PatchStatusFails, PatchStatusAnswerLost,
       Proceeds, MidReconcile
<1>8. ~Environment /\ ~(UNCHANGED vars)
  BY DEF Proceeds, Environment, Deliver, SpecUpdate, Delete, Recreate, Write, ScriptEnds,
     Finish, TimePasses, Elapse, VMStop, VMStart, TargetPoll, RebootPublish, AgentFails,
     OperatorRestart, OthersShare, NumberReused, ResultTaken, Return, local, vars
<1> QED
  BY <1>1, <1>2, <1>3, <1>4, <1>5, <1>6, <1>7, <1>8 DEF Next, Controller, Poll, Dispatch

----------------------------------------------------------------------------
(* Where numbers are not given out twice *)

\* The guest gives the numbers, or the process that counts them does not restart.
OwnHandles == Provider # "daemon" \/ ("operator" \notin Faults /\ ~Legacy)

OwnNumbers == \A p \in DOMAIN scripts : Unshared(scripts[p])

\* Applied=True names a generation of this very object a script of which ended
\* well (pollExecStatus).
AppliedByOwnScript ==
    Api.st.applied.status = "True" =>
        \E p \in DOMAIN scripts : /\ scripts[p].uid = Api.uid
                                  /\ scripts[p].gen = Api.st.applied.gen
                                  /\ scripts[p].st = "ok"

LEMMA OwnInit == ASSUME OwnHandles PROVE Init => OwnNumbers
<1> SUFFICES ASSUME Init PROVE OwnNumbers
  OBVIOUS
<1>1. CASE scripts = <<>>
  BY <1>1 DEF OwnNumbers
<1>2. CASE /\ Legacy
           /\ scripts = <<[NewScript(1, 1, 0) EXCEPT
                              !.tracked = Provider # "daemon",
                              !.freed = Provider = "daemon", !.rec = TRUE]>>
  <2> DEFINE e == [NewScript(1, 1, 0) EXCEPT !.tracked = Provider # "daemon",
                                             !.freed = Provider = "daemon", !.rec = TRUE]
  <2>1. Unshared(e)
    BY <1>2 DEF Unshared, NewScript, OwnHandles
  <2>2. scripts = <<e>>
    BY <1>2
  <2> HIDE DEF e
  <2> QED
    BY <2>1, <2>2 DEF OwnNumbers
<1> QED
  BY <1>1, <1>2 DEF Init

LEMMA OwnAlways == ASSUME OwnHandles PROVE Spec => [](TypeOK /\ OwnNumbers)
<1>1. Init => TypeOK /\ OwnNumbers
  BY TypeInit, OwnInit
<1>2. TypeOK /\ OwnNumbers /\ [Next]_vars => (TypeOK /\ OwnNumbers)'
  BY TypeStep, ScriptMoves DEF OwnNumbers, OwnHandles, OldExec, NewExec
<1> QED
  BY <1>1, <1>2, PTL DEF Spec

LEMMA OwnApplied == AppliedSound /\ OwnNumbers => AppliedByOwnScript
BY DEF AppliedSound, OwnNumbers, Unshared, AppliedByOwnScript

============================================================================
